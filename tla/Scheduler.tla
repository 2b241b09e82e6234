----------------------------- MODULE Scheduler -----------------------------
(***************************************************************************)
(* The round-robin scheduler of src/kernel/sched/task.c on its one         *)
(* processor: the task table, the 32-bit tick counter and its wrap, the    *)
(* sleeping, blocking and waking operations, the timer interrupt and the   *)
(* switch itself.  Register contexts, FPU state and page tables are not    *)
(* modelled; preempt_depth is left out because nothing in the tree calls   *)
(* task_preempt_disable.                                                   *)
(*                                                                         *)
(* The task on the processor acts with interrupts enabled unless an action *)
(* says otherwise, so the timer interrupt (TimerIrq) and a device          *)
(* interrupt that wakes a task (TaskWake) may come between any two of its  *)
(* actions.                                                                *)
(***************************************************************************)
EXTENDS Integers

CONSTANTS MaxTasks,    \* MAX_TASKS: number of slots, slot 0 is the idle task
          HalfTicks,   \* the tick counter counts modulo 2 * HalfTicks (2^32 in the code)
          SliceTicks,  \* SCHED_SLICE_TICKS
          MaxDelay,    \* longest sleep or timeout asked for, in ticks
          MaxJiffies   \* most ticks one timer interrupt may account for

ASSUME MaxTasksAssumption == MaxTasks \in Nat /\ MaxTasks > 0
ASSUME HalfTicksAssumption == HalfTicks \in Nat /\ HalfTicks > 0
ASSUME SliceTicksAssumption == SliceTicks \in Nat /\ SliceTicks > 0
ASSUME MaxDelayAssumption == MaxDelay \in Nat
ASSUME MaxJiffiesAssumption == MaxJiffies \in Nat /\ MaxJiffies > 0

(* Deadlines fit the signed comparison: milliseconds are 32 bits wide and  *)
(* a tick is four of them, so no delay is longer than 2^30 ticks, and one  *)
(* interrupt accounts for a 24-bit count of the ACPI timer, 1172 ticks.    *)
ASSUME DeadlinesAssumption == MaxDelay < HalfTicks /\ MaxJiffies <= HalfTicks

Task == 0 .. MaxTasks - 1
Ticks == 0 .. 2 * HalfTicks - 1
State == {"READY", "RUNNING", "DEAD", "SLEEPING", "BLOCKED", "CREATING"}

VARIABLES state,       \* tasks[i].state
          wake_tick,   \* tasks[i].wake_tick (0: no deadline)
          num_tasks,   \* slots ever used
          current_id,  \* the task on the processor
          slice,       \* sched_slice_ticks
          ticks,       \* the timer's tick counter
          left,        \* history: ticks left of the delay slot i asked for
          passed       \* history: passed[i] = tasks dispatched while i was READY

vars == <<state, wake_tick, num_tasks, current_id, slice, ticks, left, passed>>

(***************************************************************************)
(* (int32_t)(now - deadline) >= 0 in wrapping arithmetic.                  *)
(***************************************************************************)
ReachedUnsigned(now, deadline) == now >= deadline   \* mutant: compares without the wrap
ReachedStrict(now, deadline) == (now - deadline) % (2 * HalfTicks) \in 1 .. HalfTicks   \* mutant: off by one
Reached(now, deadline) == (now - deadline) % (2 * HalfTicks) < HalfTicks

LaterUnbounded(now, n) == now + n   \* mutant: the counter never wraps
Later(now, n) == (now + n) % (2 * HalfTicks)

(***************************************************************************)
(* wake_expired_tasks: sleepers, and blocked tasks with a deadline.        *)
(***************************************************************************)
DueTimedOnly(st, wk, now, i) ==   \* mutant: forgets sleepers
  i < num_tasks /\ st[i] = "BLOCKED" /\ wk[i] # 0 /\ Reached(now, wk[i])

Due(st, wk, now, i) ==
  /\ i < num_tasks
  /\ \/ st[i] = "SLEEPING"
     \/ st[i] = "BLOCKED" /\ wk[i] # 0
  /\ Reached(now, wk[i])

WakeState(st, wk, now) ==
  [i \in Task |-> IF Due(st, wk, now, i) THEN "READY" ELSE st[i]]

WakeTick(st, wk, now) ==
  [i \in Task |-> IF Due(st, wk, now, i) THEN 0 ELSE wk[i]]

(***************************************************************************)
(* The choice schedule() makes: the first READY slot after the current     *)
(* one, cyclically (the current one comes last); when nobody is READY, the *)
(* current task if it is still RUNNING, otherwise the idle task.           *)
(***************************************************************************)
ReadyDistance(st) == {d \in 1 .. num_tasks : st[(current_id + d) % num_tasks] = "READY"}

IsNextLowest(st, next) ==   \* mutant: scans from slot 0 instead of after the current task
  LET ready == {i \in 0 .. num_tasks - 1 : st[i] = "READY"} IN
  \/ next \in ready /\ \A i \in ready : next <= i
  \/ ready = {} /\ next = IF st[current_id] = "RUNNING" THEN current_id ELSE 0

IsNext(st, next) ==
  \/ \E d \in ReadyDistance(st) : /\ \A e \in ReadyDistance(st) : d <= e
                                  /\ next = (current_id + d) % num_tasks
  \/ /\ ReadyDistance(st) = {}
     /\ next = IF st[current_id] = "RUNNING" THEN current_id ELSE 0

SwitchStateKeepsPrevious(st, next) ==   \* mutant: the previous task stays RUNNING
  [i \in Task |-> IF i = next THEN "RUNNING" ELSE st[i]]

SwitchState(st, next) ==
  [i \in Task |-> IF i = next THEN "RUNNING"
                  ELSE IF i = current_id /\ st[i] = "RUNNING" THEN "READY"
                  ELSE st[i]]

(* Who has been dispatched while a slot stayed READY.                      *)
RecordPassing(next) ==
  passed' = [i \in Task |-> IF state'[i] # "READY" \/ state[i] # "READY" THEN {}
                            ELSE IF next # current_id THEN passed[i] \cup {next}
                            ELSE passed[i]]

(* schedule() on a table st, wk at tick now.                               *)
Schedule(st, wk, now) ==
  LET awake == WakeState(st, wk, now) IN
  \E next \in Task :
    /\ IsNext(awake, next)
    /\ state' = SwitchState(awake, next)
    /\ wake_tick' = WakeTick(st, wk, now)
    /\ current_id' = next
    /\ RecordPassing(next)

(* An operation that changes the table without calling schedule().         *)
NoSwitch(st, wk) ==
  /\ state' = st
  /\ wake_tick' = wk
  /\ UNCHANGED current_id
  /\ RecordPassing(current_id)

(***************************************************************************)
(* Initial state: sched_init, interrupts on.  The table is zeroed memory,  *)
(* and zero is TASK_READY.                                                 *)
(***************************************************************************)
Init ==
  /\ state = [i \in Task |-> IF i = 0 THEN "RUNNING" ELSE "READY"]
  /\ wake_tick = [i \in Task |-> 0]
  /\ num_tasks = 1
  /\ current_id = 0
  /\ slice = 0
  /\ ticks = 0
  /\ left = [i \in Task |-> 0]
  /\ passed = [i \in Task |-> {}]

Running == state[current_id] = "RUNNING"

(* task_yield, also the second half of pipe_wait and of                    *)
(* task_block_current_prepared: the caller may already be BLOCKED.         *)
TaskYield ==
  /\ slice' = 0
  /\ Schedule(state, wake_tick, ticks)
  /\ UNCHANGED <<num_tasks, ticks, left>>

Delayed(i) == state[i] = "SLEEPING" \/ (state[i] = "BLOCKED" /\ wake_tick[i] # 0)

(* The history of delays when j ticks pass; it stops below -MaxJiffies.    *)
CountDown(j) ==
  left' = [i \in Task |-> IF ~Delayed(i) THEN 0
                          ELSE IF left[i] < -MaxJiffies THEN left[i]
                          ELSE left[i] - j]

(* timer_irq and sched_tick: j ticks have passed.                          *)
TimerIrq(j) ==
  LET now == Later(ticks, j) IN
  /\ ticks' = now
  /\ CountDown(j)
  /\ UNCHANGED num_tasks
  /\ \/ /\ slice + j < SliceTicks
        /\ \A i \in Task : ~Due(state, wake_tick, now, i)
        /\ slice' = slice + j
        /\ NoSwitch(state, wake_tick)
     \/ /\ \/ slice + j >= SliceTicks
           \/ \E i \in Task : Due(state, wake_tick, now, i)
        /\ slice' = 0
        /\ Schedule(state, wake_tick, now)

(* task_sleep_until(timer_ticks() + d), interrupts off.                    *)
SleepUntil(d) ==
  /\ Running /\ current_id # 0
  /\ left' = [left EXCEPT ![current_id] = d]
  /\ Schedule([state EXCEPT ![current_id] = "SLEEPING"],
              [wake_tick EXCEPT ![current_id] = Later(ticks, d)], ticks)
  /\ UNCHANGED <<num_tasks, slice, ticks>>

(* task_block_current and task_block_current_until, interrupts off; a      *)
(* deadline that wrapped to zero becomes one.                              *)
BlockCurrent ==
  /\ Running /\ current_id # 0
  /\ Schedule([state EXCEPT ![current_id] = "BLOCKED"],
              [wake_tick EXCEPT ![current_id] = 0], ticks)
  /\ UNCHANGED <<num_tasks, slice, ticks, left>>

Deadline(d) == IF Later(ticks, d) = 0 THEN 1 ELSE Later(ticks, d)

BlockCurrentUntil(d) ==
  /\ Running /\ current_id # 0
  /\ left' = [left EXCEPT ![current_id] = d]
  /\ Schedule([state EXCEPT ![current_id] = "BLOCKED"],
              [wake_tick EXCEPT ![current_id] = Deadline(d)], ticks)
  /\ UNCHANGED <<num_tasks, slice, ticks>>

(* task_prepare_block_current(0) as pipe_wait calls it: interrupts stay    *)
(* on, and the task is BLOCKED while it still has the processor.           *)
PrepareBlock ==
  /\ Running /\ current_id # 0
  /\ NoSwitch([state EXCEPT ![current_id] = "BLOCKED"],
              [wake_tick EXCEPT ![current_id] = 0])
  /\ UNCHANGED <<num_tasks, slice, ticks, left>>

(* task_wake, by the running task or by a device interrupt handler.        *)
TaskWake(i) ==
  /\ i > 0 /\ i < num_tasks
  /\ state[i] = "BLOCKED"
  /\ NoSwitch([state EXCEPT ![i] = "READY"], [wake_tick EXCEPT ![i] = 0])
  /\ left' = [left EXCEPT ![i] = 0]
  /\ UNCHANGED <<num_tasks, slice, ticks>>

(* task_create_ex reserves a dead slot or the first fresh one ...          *)
TaskCreate(i) ==
  /\ Running
  /\ i > 0
  /\ \/ i < num_tasks /\ state[i] = "DEAD" /\ UNCHANGED num_tasks
     \/ i = num_tasks /\ num_tasks' = num_tasks + 1
  /\ NoSwitch([state EXCEPT ![i] = "CREATING"], [wake_tick EXCEPT ![i] = 0])
  /\ UNCHANGED <<slice, ticks, left>>

(* ... and task_make_ready arms it.                                        *)
TaskMakeReady(i) ==
  /\ Running
  /\ i < num_tasks /\ state[i] = "CREATING"
  /\ NoSwitch([state EXCEPT ![i] = "READY"], [wake_tick EXCEPT ![i] = 0])
  /\ UNCHANGED <<num_tasks, slice, ticks, left>>

(* task_kill, task_exit_code and task_exit_process_code: a set of tasks    *)
(* dies at once with interrupts off; schedule() if the caller is in it.    *)
Kill(S) ==
  /\ Running
  /\ S # {} /\ \A i \in S : i > 0 /\ i < num_tasks
  /\ \E i \in S : state[i] # "DEAD"
  /\ LET st == [i \in Task |-> IF i \in S THEN "DEAD" ELSE state[i]]
         wk == [i \in Task |-> IF i \in S THEN 0 ELSE wake_tick[i]]
     IN \/ current_id \in S /\ Schedule(st, wk, ticks)
        \/ current_id \notin S /\ NoSwitch(st, wk)
  /\ left' = [i \in Task |-> IF i \in S THEN 0 ELSE left[i]]
  /\ UNCHANGED <<num_tasks, slice, ticks>>

Next ==
  \/ TaskYield
  \/ \E j \in 1 .. MaxJiffies : TimerIrq(j)
  \/ \E d \in 0 .. MaxDelay : SleepUntil(d) \/ BlockCurrentUntil(d)
  \/ BlockCurrent
  \/ PrepareBlock
  \/ \E i \in Task : TaskWake(i) \/ TaskCreate(i) \/ TaskMakeReady(i)
  \/ \E S \in SUBSET Task : Kill(S)

Timer == \E j \in 1 .. MaxJiffies : TimerIrq(j)

(* The only fairness is that the timer keeps interrupting.                 *)
Spec == Init /\ [][Next]_vars /\ WF_vars(Timer)

-----------------------------------------------------------------------------
(* The variables stay in their ranges.                                     *)
TypeOK ==
  /\ state \in [Task -> State]
  /\ wake_tick \in [Task -> Ticks]
  /\ num_tasks \in 1 .. MaxTasks
  /\ current_id \in 0 .. num_tasks - 1
  /\ slice \in Nat
  /\ ticks \in Ticks
  /\ left \in [Task -> Int]
  /\ passed \in [Task -> SUBSET Task]

(* The processor never runs a task that is dead, asleep or unfinished, at  *)
(* most one task is RUNNING and it is the current one, and the idle task   *)
(* can always be fallen back on (schedule() never checks its state).       *)
OneRunning ==
  /\ \A i \in Task : state[i] = "RUNNING" => i = current_id
  /\ state[current_id] \in {"RUNNING", "BLOCKED", "READY"}
  /\ state[0] \in {"RUNNING", "READY"}
  /\ current_id = 0 => state[0] = "RUNNING"

(* Once the timer interrupt has been served nobody sleeps past the delay   *)
(* asked for, across the wrap of the tick counter; a blocking call whose   *)
(* deadline wrapped to zero may be one tick late and no more.              *)
OnTime ==
  \A i \in Task : i < num_tasks =>
    /\ state[i] = "SLEEPING" => left[i] > 0
    /\ state[i] = "BLOCKED" /\ wake_tick[i] # 0 => left[i] >= 0

(* Nobody is woken by the clock before the delay asked for is over, across *)
(* the wrap of the tick counter: while ticks are left, the task sleeps, or *)
(* is blocked with its deadline pending.                                   *)
NoEarlyWake == \A i \in Task : left[i] > 0 => Delayed(i)

(* Round robin: while a task stays READY no other task is handed the       *)
(* processor twice, whatever is created, killed, woken or put to sleep.    *)
NoOvertaking ==
  [][current_id' # current_id =>
       \A i \in Task : i < num_tasks /\ state[i] = "READY" /\ state'[i] = "READY"
                       => current_id' \notin passed[i]]_vars

(* Every READY task is dispatched, or killed first.                        *)
ReadyRuns ==
  \A i \in Task : (i < num_tasks /\ state[i] = "READY") ~> state[i] \in {"RUNNING", "DEAD"}

(* Every sleeper wakes up.                                                 *)
SleeperWakes ==
  \A i \in Task : (i < num_tasks /\ state[i] = "SLEEPING") ~> state[i] # "SLEEPING"

(***************************************************************************)
(* The scheduler implements the abstract processor.                        *)
(***************************************************************************)
ModeOf(i) ==
  IF i >= num_tasks \/ state[i] \in {"DEAD", "CREATING"} THEN "off"
  ELSE IF state[i] \in {"READY", "RUNNING"} THEN "runnable" ELSE "waiting"

Cpu == INSTANCE FairCpu WITH mode <- [i \in Task |-> ModeOf(i)], cpu <- current_id

ImplementsFairCpu == Cpu!Spec
=============================================================================
