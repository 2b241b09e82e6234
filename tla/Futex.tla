------------------------------- MODULE Futex -------------------------------
(***************************************************************************)
(* futex_wait, futex_wait_timeout and futex_wake of                        *)
(* src/kernel/syscall/sys_ipc.c: the table of waiters shared by all        *)
(* processes, the deadline in the 32-bit tick counter, and the removal of  *)
(* a killed task's waiter.                                                 *)
(*                                                                         *)
(* From futex_enter to futex_leave interrupts are disabled, so one pass    *)
(* through the wait loop is one action; blocking inside it is where other  *)
(* tasks run.  The deadline is computed before, with interrupts enabled.   *)
(* Any runnable task may take the next step: FairCpu is the licence.       *)
(* user_range_ok and the global that keeps the interrupt flag are left     *)
(* out (the flag is saved again after every switch).                       *)
(***************************************************************************)
EXTENDS Integers, FiniteSets

CONSTANTS Task, Proc, ProcOf,   \* the tasks, the processes, and who belongs to whom
          Addr, Value,          \* user addresses, the same range in every process
          MaxWaiters,           \* MAX_FUTEX_WAITERS
          Timeouts,             \* timeouts in ticks; NoTimeout is futex_wait
          Counts,               \* counts passed to futex_wake (0: everybody)
          HalfTicks,            \* the tick counter counts modulo 2 * HalfTicks
          MaxLag                \* most ticks a runnable task is late (the scheduler's doing)

NoTimeout == -1

ASSUME ProcOfAssumption == ProcOf \in [Task -> Proc]
ASSUME MaxWaitersAssumption == MaxWaiters \in Nat \ {0}
ASSUME TimeoutsAssumption == Timeouts \subseteq Nat \cup {NoTimeout}
ASSUME CountsAssumption == Counts \subseteq Nat
ASSUME TicksAssumption == HalfTicks \in Nat \ {0} /\ MaxLag \in Nat

Slot == 0 .. MaxWaiters - 1
Ticks == 0 .. 2 * HalfTicks - 1

VARIABLES waiters,    \* futex_waiters: used, task_id, addr, woken
          mem,        \* the word at each address of each process
          state,      \* tasks[t].state
          wake_tick,  \* tasks[t].wake_tick
          ticks,
          pc,         \* "user", "call" (deadline computed) or "wait" (in the loop)
          slot,       \* locals of futex_wait_common
          args,       \* addr, expected, timed (use_timeout), deadline
          left,       \* history: ticks left of the timeout asked for
          answer      \* what the call that has just ended answered, and to whom

vars == <<waiters, mem, state, wake_tick, ticks, pc, slot, args, left, answer>>

NoTask == "no task"
NoAddr == "no address"
ASSUME NoAddrAssumption == NoAddr \notin Addr

(* What an unused slot still holds is never read.                          *)
Free == [used |-> FALSE, task |-> NoTask, addr |-> NoAddr, woken |-> FALSE]
Waiter == [used : {TRUE}, task : Task, addr : Addr, woken : BOOLEAN] \cup {Free}

(* Nor are the locals of a call that has ended.                            *)
NoCall == [addr |-> NoAddr, expected |-> 0, timed |-> FALSE, deadline |-> 0]
WaitArgs == [addr : Addr, expected : Value, timed : BOOLEAN, deadline : Ticks] \cup {NoCall}

ReachedStrict(now, deadline) == (now - deadline) % (2 * HalfTicks) \in 1 .. HalfTicks   \* mutant: off by one
Reached(now, deadline) == (now - deadline) % (2 * HalfTicks) < HalfTicks

Silence == [call |-> "none", arg |-> <<>>, code |-> 0]
WaitAnswers(t, code) == answer' = [call |-> "wait", arg |-> <<t>>, code |-> code]
WakeAnswers(a, n, code) == answer' = [call |-> "wake", arg |-> <<a, n>>, code |-> code]
Quiet == answer' = Silence

Init ==
  /\ waiters = [i \in Slot |-> Free]
  /\ \E v \in Value : mem = [p \in Proc |-> [b \in Addr |-> v]]
  /\ state = [t \in Task |-> "READY"]
  /\ wake_tick = [t \in Task |-> 0]
  /\ ticks = 0
  /\ pc = [t \in Task |-> "user"]
  /\ slot = [t \in Task |-> 0]
  /\ args = [t \in Task |-> NoCall]
  /\ left = [t \in Task |-> 0]
  /\ answer = Silence

Ready(t, p) == state[t] = "READY" /\ pc[t] = p
Word(t, a) == mem[ProcOf[t]][a]

(* futex_ms_to_ticks is monotone and 0 only for 0: timeouts are in ticks.  *)
DeadlineUnbounded(d) == IF d = 0 THEN 1 ELSE ticks + d   \* mutant: the counter never wraps

Deadline(d) ==
  LET sum == (ticks + d) % (2 * HalfTicks) IN IF d = 0 \/ sum = 0 THEN 1 ELSE sum

(* The call, up to futex_enter.                                            *)
Call(t, a, v, d) ==
  /\ Ready(t, "user")
  /\ pc' = [pc EXCEPT ![t] = "call"]
  /\ args' = [args EXCEPT ![t] = [addr |-> a, expected |-> v, timed |-> d # NoTimeout,
                                  deadline |-> IF d = NoTimeout THEN 0 ELSE Deadline(d)]]
  /\ left' = [left EXCEPT ![t] = IF d = NoTimeout THEN 0 ELSE d]
  /\ Quiet
  /\ UNCHANGED <<waiters, mem, state, wake_tick, ticks, slot>>

TimedOut(t) == args[t].timed /\ Reached(ticks, args[t].deadline)

(* task_block_current or task_block_current_until: the rest of the loop    *)
(* body when nothing ends the wait.                                        *)
BlockUntimed(t) ==   \* mutant: no deadline for the scheduler
  /\ state' = [state EXCEPT ![t] = "BLOCKED"]
  /\ wake_tick' = [wake_tick EXCEPT ![t] = 0]
  /\ pc' = [pc EXCEPT ![t] = "wait"]

Block(t) ==
  /\ state' = [state EXCEPT ![t] = "BLOCKED"]
  /\ wake_tick' = [wake_tick EXCEPT ![t] = IF args[t].timed THEN args[t].deadline ELSE 0]
  /\ pc' = [pc EXCEPT ![t] = "wait"]

Leave(t, code) ==
  /\ pc' = [pc EXCEPT ![t] = "user"]
  /\ args' = [args EXCEPT ![t] = NoCall]
  /\ slot' = [slot EXCEPT ![t] = 0]
  /\ left' = [left EXCEPT ![t] = 0]
  /\ WaitAnswers(t, code)
  /\ UNCHANGED <<state, wake_tick>>

FreeSlots == {i \in Slot : ~waiters[i].used}

(* From futex_enter to the first block or return.                          *)
Enter(t) ==
  /\ Ready(t, "call")
  /\ \/ /\ Word(t, args[t].addr) # args[t].expected
        /\ Leave(t, 0)
        /\ UNCHANGED waiters
     \/ /\ Word(t, args[t].addr) = args[t].expected
        /\ FreeSlots = {}
        /\ Leave(t, -1)
        /\ UNCHANGED waiters
     \/ /\ Word(t, args[t].addr) = args[t].expected
        /\ FreeSlots # {} /\ TimedOut(t)
        /\ Leave(t, -2)
        /\ UNCHANGED waiters
     \/ /\ Word(t, args[t].addr) = args[t].expected
        /\ ~TimedOut(t)
        /\ \E i \in FreeSlots :
             /\ \A j \in FreeSlots : i <= j
             /\ slot' = [slot EXCEPT ![t] = i]
             /\ waiters' = [waiters EXCEPT ![i] = [used |-> TRUE, task |-> t,
                                                   addr |-> args[t].addr, woken |-> FALSE]]
        /\ Block(t) /\ Quiet
        /\ UNCHANGED <<args, left>>
  /\ UNCHANGED <<mem, ticks>>

(* Back from the block: another pass through the loop.                     *)
EndsUnwoken(t) == Word(t, args[t].addr) # args[t].expected   \* mutant: sleeps again although woken

Ends(t) == waiters[slot[t]].woken \/ Word(t, args[t].addr) # args[t].expected

ResumeTimeFirst(t) ==   \* mutant: looks at the clock before the wake-up
  /\ Ready(t, "wait")
  /\ \/ /\ Ends(t) \/ TimedOut(t)
        /\ waiters' = [waiters EXCEPT ![slot[t]] = Free]
        /\ Leave(t, IF TimedOut(t) THEN -2 ELSE 0)
     \/ /\ ~Ends(t) /\ ~TimedOut(t)
        /\ Block(t) /\ Quiet
        /\ UNCHANGED <<waiters, slot, args, left>>
  /\ UNCHANGED <<mem, ticks>>

Resume(t) ==
  /\ Ready(t, "wait")
  /\ \/ /\ Ends(t) \/ TimedOut(t)
        /\ waiters' = [waiters EXCEPT ![slot[t]] = Free]
        /\ Leave(t, IF Ends(t) THEN 0 ELSE -2)
     \/ /\ ~Ends(t) /\ ~TimedOut(t)
        /\ Block(t) /\ Quiet
        /\ UNCHANGED <<waiters, slot, args, left>>
  /\ UNCHANGED <<mem, ticks>>

(* futex_wake: the first count waiters of the address, in table order.     *)
Matches(a) == {i \in Slot : waiters[i].used /\ waiters[i].addr = a /\ ~waiters[i].woken}
TakenOneMore(a, n) == {i \in Matches(a) : n = 0 \/ Cardinality({j \in Matches(a) : j < i}) <= n}   \* mutant: off by one

Taken(a, n) == {i \in Matches(a) : n = 0 \/ Cardinality({j \in Matches(a) : j < i}) < n}

WakeMarks(t, a, n) ==   \* mutant: marks the waiter and leaves the task blocked
  /\ Ready(t, "user")
  /\ waiters' = [i \in Slot |-> IF i \in Taken(a, n) THEN [waiters[i] EXCEPT !.woken = TRUE]
                                                     ELSE waiters[i]]
  /\ WakeAnswers(a, n, Cardinality(Taken(a, n)))
  /\ UNCHANGED <<mem, state, wake_tick, ticks, pc, slot, args, left>>

Wake(t, a, n) ==
  /\ Ready(t, "user")
  /\ waiters' = [i \in Slot |-> IF i \in Taken(a, n) THEN [waiters[i] EXCEPT !.woken = TRUE]
                                                     ELSE waiters[i]]
  /\ LET hit == {waiters[i].task : i \in Taken(a, n)} IN
       /\ state' = [u \in Task |-> IF u \in hit /\ state[u] = "BLOCKED" THEN "READY" ELSE state[u]]
       /\ wake_tick' = [u \in Task |-> IF u \in hit /\ state[u] = "BLOCKED" THEN 0 ELSE wake_tick[u]]
  /\ WakeAnswers(a, n, Cardinality(Taken(a, n)))
  /\ UNCHANGED <<mem, ticks, pc, slot, args, left>>

(* A task writes a word of its process.                                    *)
Store(t, a, v) ==
  /\ Ready(t, "user")
  /\ mem' = [mem EXCEPT ![ProcOf[t]][a] = v]
  /\ Quiet
  /\ UNCHANGED <<waiters, state, wake_tick, ticks, pc, slot, args, left>>

(* task_kill and task_exit_process_code: every task of the process dies    *)
(* and futex_cancel_task_locked frees its waiter.                          *)
KillForgets(p) ==   \* mutant: the waiters of the dead stay in the table
  LET dead == {t \in Task : ProcOf[t] = p} IN
  /\ \E t \in dead : state[t] # "DEAD"
  /\ state' = [t \in Task |-> IF t \in dead THEN "DEAD" ELSE state[t]]
  /\ wake_tick' = [t \in Task |-> IF t \in dead THEN 0 ELSE wake_tick[t]]
  /\ pc' = [t \in Task |-> IF t \in dead THEN "user" ELSE pc[t]]
  /\ Quiet
  /\ UNCHANGED <<waiters, mem, ticks, slot, args, left>>

Kill(p) ==
  LET dead == {t \in Task : ProcOf[t] = p} IN
  /\ \E t \in dead : state[t] # "DEAD"
  /\ state' = [t \in Task |-> IF t \in dead THEN "DEAD" ELSE state[t]]
  /\ wake_tick' = [t \in Task |-> IF t \in dead THEN 0 ELSE wake_tick[t]]
  /\ waiters' = [i \in Slot |-> IF waiters[i].used /\ waiters[i].task \in dead
                                THEN Free ELSE waiters[i]]
  /\ pc' = [t \in Task |-> IF t \in dead THEN "user" ELSE pc[t]]
  /\ slot' = [t \in Task |-> IF t \in dead THEN 0 ELSE slot[t]]
  /\ args' = [t \in Task |-> IF t \in dead THEN NoCall ELSE args[t]]
  /\ left' = [t \in Task |-> IF t \in dead THEN 0 ELSE left[t]]
  /\ Quiet
  /\ UNCHANGED <<mem, ticks>>

(* The dead tasks' slots are given to a new process.                       *)
Recreate(p) ==
  /\ \A t \in Task : ProcOf[t] = p => state[t] = "DEAD"
  /\ state' = [t \in Task |-> IF ProcOf[t] = p THEN "READY" ELSE state[t]]
  /\ Quiet
  /\ UNCHANGED <<waiters, mem, wake_tick, ticks, pc, slot, args, left>>

(* One tick; wake_expired_tasks.  A task that may run is not kept waiting  *)
(* for more than MaxLag ticks past its deadline.                           *)
Expires(t, now) == state[t] = "BLOCKED" /\ wake_tick[t] # 0 /\ Reached(now, wake_tick[t])
Counting(t) == pc[t] # "user" /\ args[t].timed

Tick ==
  LET now == (ticks + 1) % (2 * HalfTicks) IN
  /\ \A t \in Task : state[t] = "READY" /\ Counting(t) => left[t] > -MaxLag
  /\ ticks' = now
  /\ state' = [t \in Task |-> IF Expires(t, now) THEN "READY" ELSE state[t]]
  /\ wake_tick' = [t \in Task |-> IF Expires(t, now) THEN 0 ELSE wake_tick[t]]
  /\ left' = [t \in Task |-> IF Counting(t) /\ left[t] > -MaxLag - 2 THEN left[t] - 1 ELSE left[t]]
  /\ Quiet
  /\ UNCHANGED <<waiters, mem, pc, slot, args>>

(* Another subsystem calls task_wake with a task id it kept too long.      *)
StrayWake(t) ==
  /\ state[t] = "BLOCKED"
  /\ state' = [state EXCEPT ![t] = "READY"]
  /\ wake_tick' = [wake_tick EXCEPT ![t] = 0]
  /\ Quiet
  /\ UNCHANGED <<waiters, mem, ticks, pc, slot, args, left>>

Next ==
  \/ \E t \in Task : \/ Enter(t) \/ Resume(t) \/ StrayWake(t)
                     \/ \E a \in Addr, v \in Value : \/ Store(t, a, v)
                                                     \/ \E d \in Timeouts : Call(t, a, v, d)
                     \/ \E a \in Addr, n \in Counts : Wake(t, a, n)
  \/ \E p \in Proc : Kill(p) \/ Recreate(p)
  \/ Tick

(* The timer ticks, and a task inside futex_wait that may run goes on.     *)
Spec == /\ Init /\ [][Next]_vars
        /\ WF_vars(Tick)
        /\ \A t \in Task : WF_vars(Enter(t)) /\ WF_vars(Resume(t))

-----------------------------------------------------------------------------
(* The variables stay in their ranges.                                     *)
TypeOK ==
  /\ waiters \in [Slot -> Waiter]
  /\ mem \in [Proc -> [Addr -> Value]]
  /\ state \in [Task -> {"READY", "BLOCKED", "DEAD"}]
  /\ wake_tick \in [Task -> Ticks]
  /\ ticks \in Ticks
  /\ pc \in [Task -> {"user", "call", "wait"}]
  /\ slot \in [Task -> Slot]
  /\ args \in [Task -> WaitArgs]
  /\ left \in [Task -> Int]

(* A waiter that has been woken never stays blocked: no wake-up is lost    *)
(* between registering, blocking, timing out, killing and waking.          *)
NoLostWake ==
  \A i \in Slot : waiters[i].used /\ waiters[i].woken => state[waiters[i].task] # "BLOCKED"

(* Every used slot belongs to a live task in the wait loop, and every task *)
(* in the loop owns exactly its slot: "future waits cannot lose capacity   *)
(* to dead tasks" (docs/ipc.md), and no wake goes to a recycled task id.   *)
SlotsOwned ==
  /\ \A i \in Slot : waiters[i].used =>
       LET t == waiters[i].task IN pc[t] = "wait" /\ slot[t] = i /\ state[t] # "DEAD"
  /\ \A t \in Task : pc[t] = "wait" =>
       /\ waiters[slot[t]].used /\ waiters[slot[t]].task = t
       /\ waiters[slot[t]].addr = args[t].addr

(* A timed wait is not blocked past its timeout, across the wrap of the    *)
(* tick counter (one tick of grace for a deadline that wrapped to zero).   *)
(* It fails for a timeout of zero, whose deadline is always tick one.      *)
NotLate == \A t \in Task : state[t] = "BLOCKED" /\ args[t].timed => left[t] >= 0

(* A wait answers -2 only when its time is up, and never for one that was  *)
(* woken or whose value has changed.                                       *)
TimeoutIsReal ==
  [][\A t \in Task : answer' = [call |-> "wait", arg |-> <<t>>, code |-> -2] =>
       /\ left[t] <= 0
       /\ pc[t] = "wait" => ~waiters[slot[t]].woken
       /\ Word(t, args[t].addr) = args[t].expected]_vars

(* A wait with a timeout comes back, woken or not, or dies.                *)
TimedWaitReturns ==
  \A t \in Task : (pc[t] = "wait" /\ args[t].timed) ~> pc[t] # "wait"

(***************************************************************************)
(* The table implements the abstract queue: its steps (what wakes take, in *)
(* what number, and what every call answers) ...                           *)
(***************************************************************************)
Queued(t) == pc[t] = "wait" /\ ~waiters[slot[t]].woken
Queue == [t \in Task |-> IF Queued(t) THEN args[t].addr ELSE NoAddr]
Signalled == {t \in Task : pc[t] = "wait" /\ waiters[slot[t]].woken}

Abstract == INSTANCE WaitQueue WITH queue <- Queue, signalled <- Signalled,
  Capacity <- MaxWaiters

StepsOfWaitQueue == Abstract!Init /\ [][Abstract!Next]_(Abstract!vars)

(* ... and its promise that a task a wake has taken comes back.            *)
ImplementsWaitQueue == Abstract!Spec
=============================================================================
