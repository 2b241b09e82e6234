------------------------------ MODULE Process ------------------------------
(***************************************************************************)
(* The life cycle of tasks, threads and processes: task_create_ex, the     *)
(* launch of a process (exec.c), sys_spawn, sys_join, waitpid, exit, kill, *)
(* and the reaping of dead slots (src/kernel/sched/task.c).                *)
(*                                                                         *)
(* Any runnable task may take the next step: FairCpu is the licence.       *)
(* What runs with interrupts disabled and calls nothing that can yield is  *)
(* one action.  The allocator and the VFS spin on locks that yield, even   *)
(* with interrupts disabled, so a call of theirs ends an action.  waitpid  *)
(* and join run with interrupts enabled.                                   *)
(*                                                                         *)
(* Exit codes, names, working directories and page tables are left out.    *)
(* TASK_READY and TASK_RUNNING are both READY here, and TASK_SLEEPING is   *)
(* left to module Scheduler.  A waitpid that may not block (WNOHANG)       *)
(* differs from one that may only in returning where the other blocks.     *)
(***************************************************************************)
EXTENDS Integers

CONSTANTS N,            \* MAX_TASKS; slot 0 is the idle task and takes no step
          KernelStacks, \* kernel stacks that fit in free memory: 1 .. KernelStacks
          UserStacks,   \* USER_THREAD_STACK_SLOTS: the slots 1 .. UserStacks
          WaitFor,      \* the pids passed to waitpid
          Ops,          \* the system calls that programs use
          Preemptible,  \* FALSE: assume that a reap is never interrupted half-way
          KillUnborn    \* FALSE: assume that nobody kills a slot under construction

ASSUME NAssumption == N \in Nat /\ N > 1
ASSUME KernelStacksAssumption == KernelStacks \in Nat \ {0}
ASSUME UserStacksAssumption == UserStacks \in Nat

Slot == 0 .. N - 1
State == {"READY", "BLOCKED", "DEAD", "CREATING"}
AnyChild == -1
ASSUME WaitForAssumption == WaitFor \subseteq Slot \cup {AnyChild}
Stacks == 1 .. KernelStacks
NoStack == 0   \* kstack = 0
NoInfo == [owner |-> 0, slot |-> 0]
NoTask == 0

VARIABLES state,        \* tasks[i].state
          owner,        \* task_process_owner(&tasks[i]): fd_owner and proc_id
          num_tasks,
          kstack,       \* tasks[i].kstack (and rsp, esp0: they are set together)
          free_stacks,  \* kernel stacks in the page allocator
          proc,         \* procs[i].used and .state
          parent,       \* procs[i].parent
          wait_waiters, \* procs[i].wait_waiters
          thread_info,  \* thread_infos[i]
          thread_slots, \* process_thread_slots[i]
          locked,       \* task_create_locked: who holds it
          loc           \* loc[t]: where task t is in the kernel, and its locals

table == <<state, owner, num_tasks>>
stacks == <<kstack, free_stacks>>
procs == <<proc, parent, wait_waiters>>
threads == <<thread_info, thread_slots>>
vars == <<table, stacks, procs, threads, locked, loc>>

(* Locals: the slot i of a loop, the pages stk handed to the allocator, id *)
(* and pid (the slot created, forgotten, joined or killed), the process    *)
(* owning it (own), the thread's stack slot us (0: creating a process),    *)
(* and the loop ("for") that the reap of slot i belongs to.                *)
InUser == [pc |-> "user", for |-> "none", i |-> 0, stk |-> NoStack,
           id |-> 0, own |-> 0, us |-> 0]

Used(i) == i \in 1 .. num_tasks - 1
Live(p) == \E i \in 0 .. num_tasks - 1 : owner[i] = p /\ state[i] # "DEAD"

Init ==   \* the shell runs in slot 1, started by the idle task
  /\ state = [i \in Slot |-> IF i = 0 \/ i = 1 THEN "READY" ELSE "DEAD"]
  /\ owner = [i \in Slot |-> IF i = 1 THEN 1 ELSE 0]
  /\ num_tasks = 2
  /\ kstack = [i \in Slot |-> IF i = 1 THEN 1 ELSE NoStack]
  /\ free_stacks = Stacks \ {1}
  /\ proc = [i \in Slot |-> IF i < 2 THEN "RUNNING" ELSE "UNUSED"]
  /\ parent = [i \in Slot |-> 0]
  /\ wait_waiters = [i \in Slot |-> {}]
  /\ thread_info = [i \in Slot |-> NoInfo]
  /\ thread_slots = [i \in Slot |-> {}]
  /\ locked = NoTask
  /\ loc = [i \in Slot |-> InUser]

MidReap == {"reap", "reap_free", "reap_zero", "reap_owner", "forgotten", "joined"}

(* Task t can take its step at program point p.                            *)
At(t, p) ==
  /\ Used(t) /\ state[t] = "READY" /\ loc[t].pc = p
  /\ Preemptible \/ \A u \in Slot \ {t} : loc[u].pc \notin MidReap

Goto(t, p) == loc' = [loc EXCEPT ![t].pc = p]
Return(t) == loc' = [loc EXCEPT ![t] = InUser]
Continue(t, p, i) == loc' = [loc EXCEPT ![t].pc = p, ![t].i = i]

-----------------------------------------------------------------------------
(* task_reap_one(loc[t].i), then on to point loc[t].for.                   *)

Reap(t) ==   \* the guards, and the call of pmm_free_pages
  LET i == loc[t].i IN
  /\ At(t, "reap")
  /\ \/ /\ ~Used(i) \/ i = t \/ state[i] # "DEAD"
        /\ Goto(t, loc[t].for)
     \/ /\ Used(i) /\ i # t /\ state[i] = "DEAD" /\ kstack[i] = NoStack
        /\ Goto(t, "reap_owner")
     \/ /\ Used(i) /\ i # t /\ state[i] = "DEAD" /\ kstack[i] # NoStack
        /\ loc' = [loc EXCEPT ![t].pc = "reap_free", ![t].stk = kstack[i]]
  /\ UNCHANGED <<table, stacks, procs, threads, locked>>

ReapFree(t) ==
  /\ At(t, "reap_free")
  /\ free_stacks' = free_stacks \cup {loc[t].stk}
  /\ Goto(t, "reap_zero")
  /\ UNCHANGED <<table, kstack, procs, threads, locked>>

ReapZeroForgotten(t) ==   \* mutant: the slot still points to the freed stack
  /\ At(t, "reap_zero")
  /\ loc' = [loc EXCEPT ![t].pc = "reap_owner", ![t].stk = NoStack]
  /\ UNCHANGED <<table, stacks, procs, threads, locked>>

ReapZero(t) ==
  /\ At(t, "reap_zero")
  /\ kstack' = [kstack EXCEPT ![loc[t].i] = NoStack]
  /\ loc' = [loc EXCEPT ![t].pc = "reap_owner", ![t].stk = NoStack]
  /\ UNCHANGED <<table, free_stacks, procs, threads, locked>>

(* syscall_release_thread, for a slot that is a thread of another process. *)
ReleaseThread(i) ==
  /\ thread_slots' = [thread_slots EXCEPT ![thread_info[i].owner] = @ \ {thread_info[i].slot}]
  /\ thread_info' = [thread_info EXCEPT ![i] = NoInfo]

(* syscall_cleanup_process.                                                *)
CleanupProcess(p) ==
  /\ thread_slots' = [thread_slots EXCEPT ![p] = {}]
  /\ thread_info' = [i \in Slot |-> IF thread_info[i].owner = p THEN NoInfo ELSE thread_info[i]]

ReapOwner(t) ==
  LET i == loc[t].i IN
  /\ At(t, "reap_owner")
  /\ \/ owner[i] # i /\ ReleaseThread(i)
     \/ owner[i] = i /\ ~Live(i) /\ CleanupProcess(i)
     \/ owner[i] = i /\ Live(i) /\ UNCHANGED threads
  /\ Goto(t, loc[t].for)
  /\ UNCHANGED <<table, stacks, procs, locked>>

-----------------------------------------------------------------------------
(* task_create_ex, from launch_prepared_space (us = 0) and from sys_spawn. *)

StartCreate(t, us) ==
  /\ loc' = [loc EXCEPT ![t] = [InUser EXCEPT !.pc = "create", !.us = us, !.own = owner[t]]]
  /\ UNCHANGED <<table, stacks, procs, thread_info, locked>>

SpawnProcess(t) ==
  /\ At(t, "user") /\ "spawn" \in Ops
  /\ StartCreate(t, 0)
  /\ UNCHANGED thread_slots

FreeUserStacks(p) == {k \in 1 .. UserStacks : k \notin thread_slots[p]}

SpawnThreadUnmarked(t) ==   \* mutant: does not mark the user stack as taken
  /\ At(t, "user") /\ "thread" \in Ops
  /\ \E us \in FreeUserStacks(owner[t]) :
       /\ \A k \in FreeUserStacks(owner[t]) : us <= k
       /\ StartCreate(t, us)
  /\ UNCHANGED thread_slots

SpawnThread(t) ==   \* the lowest free user stack; none: -1
  /\ At(t, "user") /\ "thread" \in Ops
  /\ \E us \in FreeUserStacks(owner[t]) :
       /\ \A k \in FreeUserStacks(owner[t]) : us <= k
       /\ thread_slots' = [thread_slots EXCEPT ![owner[t]] = @ \cup {us}]
       /\ StartCreate(t, us)

CreateFailsLocked(t) ==   \* mutant: keeps the lock on this error path
  /\ thread_slots' = [thread_slots EXCEPT ![loc[t].own] = @ \ {loc[t].us}]
  /\ Return(t)
  /\ UNCHANGED locked

(* -1 to the caller; sys_spawn gives the user stack back.                  *)
CreateFails(t) ==
  /\ locked' = NoTask
  /\ thread_slots' = [thread_slots EXCEPT ![loc[t].own] = @ \ {loc[t].us}]
  /\ Return(t)

CreateLockRacy(t) ==   \* mutant: does not test the lock
  /\ At(t, "create")
  /\ locked' = t
  /\ loc' = [loc EXCEPT ![t].pc = "reap", ![t].i = 1, ![t].for = "reap_dead"]
  /\ UNCHANGED <<table, stacks, procs, threads>>

CreateLock(t) ==
  /\ At(t, "create") /\ locked = NoTask
  /\ locked' = t
  /\ loc' = [loc EXCEPT ![t].pc = "reap", ![t].i = 1, ![t].for = "reap_dead"]
  /\ UNCHANGED <<table, stacks, procs, threads>>

ReapDead(t) ==   \* the loop of task_reap_dead
  /\ At(t, "reap_dead")
  /\ IF loc[t].i + 1 < num_tasks THEN Continue(t, "reap", loc[t].i + 1)
                                 ELSE Continue(t, "pick", 1)
  /\ UNCHANGED <<table, stacks, procs, threads, locked>>

PickZombie(t) ==   \* mutant: takes the slot of a process nobody has waited for
  LET i == loc[t].i IN
  /\ At(t, "pick") /\ i < num_tasks
  /\ IF state[i] # "DEAD"
     THEN Continue(t, "pick", i + 1)
     ELSE loc' = [loc EXCEPT ![t].pc = "reap", ![t].for = "picked"]
  /\ UNCHANGED <<table, stacks, procs, threads, locked>>

Pick(t) ==   \* the loop over task_slot_reusable, up to its reap
  LET i == loc[t].i IN
  /\ At(t, "pick") /\ i < num_tasks
  /\ IF state[i] # "DEAD" \/ proc[i] = "ZOMBIE"
     THEN Continue(t, "pick", i + 1)
     ELSE loc' = [loc EXCEPT ![t].pc = "reap", ![t].for = "picked"]
  /\ UNCHANGED <<table, stacks, procs, threads, locked>>

Reserve(t, i) ==
  /\ state' = [state EXCEPT ![i] = "CREATING"]
  /\ loc' = [loc EXCEPT ![t].pc = "alloc", ![t].for = "none", ![t].id = i, ![t].i = 0]

Picked(t) ==   \* the rest of task_slot_reusable; the slot is taken
  LET i == loc[t].i IN
  /\ At(t, "picked")
  /\ IF kstack[i] = NoStack /\ ~Live(owner[i])
     THEN Reserve(t, i)
     ELSE Continue(t, "pick", i + 1) /\ UNCHANGED state
  /\ UNCHANGED <<owner, num_tasks, stacks, procs, threads, locked>>

PickFreshUnbounded(t) ==   \* mutant: one slot too many
  /\ At(t, "pick") /\ loc[t].i >= num_tasks
  /\ num_tasks <= N
  /\ Reserve(t, num_tasks)
  /\ num_tasks' = num_tasks + 1
  /\ UNCHANGED <<owner, stacks, procs, threads, locked>>

PickFresh(t) ==   \* no slot can be reused: a fresh one, or none
  /\ At(t, "pick") /\ loc[t].i >= num_tasks
  /\ \/ /\ num_tasks < N
        /\ Reserve(t, num_tasks)
        /\ num_tasks' = num_tasks + 1
        /\ UNCHANGED <<thread_slots, locked>>
     \/ num_tasks = N /\ CreateFails(t) /\ UNCHANGED <<state, num_tasks>>
  /\ UNCHANGED <<owner, stacks, procs, thread_info>>

Alloc(t) ==   \* pmm_alloc_pages, then every field of the slot is set
  LET id == loc[t].id IN
  /\ At(t, "alloc")
  /\ \/ /\ free_stacks = {}
        /\ state' = [state EXCEPT ![id] = "DEAD"]
        /\ CreateFails(t)
        /\ UNCHANGED <<owner, stacks, procs>>
     \/ /\ \E s \in free_stacks : /\ \A r \in free_stacks : s <= r   \* first fit
                                  /\ kstack' = [kstack EXCEPT ![id] = s]
                                  /\ free_stacks' = free_stacks \ {s}
        /\ owner' = [owner EXCEPT ![id] = id]
        /\ proc' = [proc EXCEPT ![id] = "RUNNING"]
        /\ parent' = [parent EXCEPT ![id] = owner[t]]
        /\ wait_waiters' = [wait_waiters EXCEPT ![id] = {}]
        /\ Goto(t, "created")
        /\ UNCHANGED <<state, thread_slots, locked>>
  /\ UNCHANGED <<num_tasks, thread_info>>

(* After vfs_task_reset: the slot is left CREATING and the lock released.  *)
(* A process still gets its descriptors from the VFS; a thread is handed   *)
(* to its process and armed at once.                                       *)
CreatedProcess(t) ==
  LET id == loc[t].id IN
  /\ At(t, "created") /\ loc[t].us = 0
  /\ state' = [state EXCEPT ![id] = "CREATING"]
  /\ locked' = NoTask
  /\ thread_slots' = [thread_slots EXCEPT ![id] = {}]
  /\ Goto(t, "arm")
  /\ UNCHANGED <<owner, num_tasks, stacks, procs, thread_info>>

ArmProcess(t) ==   \* task_make_ready refuses a slot that was killed meanwhile
  LET id == loc[t].id IN
  /\ At(t, "arm")
  /\ state' = [state EXCEPT ![id] = IF @ = "DEAD" THEN "DEAD" ELSE "READY"]
  /\ loc' = [loc EXCEPT ![t] = InUser, ![id] = InUser]
  /\ UNCHANGED <<owner, num_tasks, stacks, procs, threads, locked>>

ArmThread(t) ==
  LET id == loc[t].id
      own == loc[t].own IN
  /\ At(t, "created") /\ loc[t].us # 0
  /\ state' = [state EXCEPT ![id] = "READY"]
  /\ thread_info' = [thread_info EXCEPT ![id] = [owner |-> own, slot |-> loc[t].us]]
  /\ owner' = [owner EXCEPT ![id] = own]
  /\ proc' = [proc EXCEPT ![id] = "UNUSED"]
  /\ locked' = NoTask
  /\ loc' = [loc EXCEPT ![t] = InUser, ![id] = InUser]
  /\ UNCHANGED <<num_tasks, stacks, parent, wait_waiters, thread_slots>>

-----------------------------------------------------------------------------
(* task_wait_pid, for the children of process owner[t].                    *)

Child(p, c, pid) == proc[c] # "UNUSED" /\ c > 0 /\ parent[c] = p /\ pid \in {AnyChild, c}
ZombieChildren(p, pid) == {c \in Slot : Child(p, c, pid) /\ proc[c] = "ZOMBIE"}
HasChild(p, pid) == \E c \in Slot : Child(p, c, pid)

WaitPid(t, pid) ==
  /\ At(t, "user") /\ "wait" \in Ops
  /\ loc' = [loc EXCEPT ![t] = [InUser EXCEPT !.pc = "wait", !.id = pid, !.own = owner[t]]]
  /\ UNCHANGED <<table, stacks, procs, threads, locked>>

WaitFind(t) ==   \* the lowest zombie; no child at all: -1
  LET zombies == ZombieChildren(loc[t].own, loc[t].id) IN
  /\ At(t, "wait")
  /\ \/ \E c \in zombies :
          /\ \A d \in zombies : c <= d
          /\ loc' = [loc EXCEPT ![t].pc = "found", ![t].id = c]
     \/ zombies = {} /\ HasChild(loc[t].own, loc[t].id) /\ Goto(t, "block")
     \/ zombies = {} /\ ~HasChild(loc[t].own, loc[t].id) /\ Return(t)
  /\ UNCHANGED <<table, stacks, procs, threads, locked>>

BlockUnchecked(t) ==   \* mutant: does not look again once interrupts are off
  LET own == loc[t].own IN
  /\ At(t, "block")
  /\ state' = [state EXCEPT ![t] = "BLOCKED"]
  /\ wait_waiters' = [wait_waiters EXCEPT ![own] = @ \cup {t}]
  /\ Goto(t, "woken")
  /\ UNCHANGED <<owner, num_tasks, stacks, proc, parent, threads, locked>>

WaitBlock(t) ==   \* interrupts off: register, look again, block
  LET own == loc[t].own IN
  /\ At(t, "block")
  /\ IF ZombieChildren(own, loc[t].id) # {} \/ ~HasChild(own, loc[t].id)
     THEN /\ wait_waiters' = [wait_waiters EXCEPT ![own] = @ \ {t}]
          /\ Goto(t, "wait")
          /\ UNCHANGED state
     ELSE /\ state' = [state EXCEPT ![t] = "BLOCKED"]
          /\ wait_waiters' = [wait_waiters EXCEPT ![own] = @ \cup {t}]
          /\ Goto(t, "woken")
  /\ UNCHANGED <<owner, num_tasks, stacks, proc, parent, threads, locked>>

WaitWoken(t) ==
  /\ At(t, "woken")
  /\ wait_waiters' = [wait_waiters EXCEPT ![loc[t].own] = @ \ {t}]
  /\ Goto(t, "wait")
  /\ UNCHANGED <<table, stacks, proc, parent, threads, locked>>

Forget(t) ==   \* process_forget: is the process still there?
  /\ At(t, "found")
  /\ IF proc[loc[t].id] = "UNUSED" THEN Return(t) ELSE Continue(t, "forget", 1)
  /\ UNCHANGED <<table, stacks, procs, threads, locked>>

ForgetSlot(t) ==   \* its loop, up to the reap of a dead slot of the process
  LET i == loc[t].i IN
  /\ At(t, "forget") /\ i < num_tasks
  /\ IF owner[i] = loc[t].id /\ state[i] = "DEAD"
     THEN loc' = [loc EXCEPT ![t].pc = "reap", ![t].for = "forgotten"]
     ELSE Continue(t, "forget", i + 1)
  /\ UNCHANGED <<table, stacks, procs, threads, locked>>

Forgotten(t) ==   \* fd_owner = proc_id = -1
  LET i == loc[t].i IN
  /\ At(t, "forgotten")
  /\ owner' = [owner EXCEPT ![i] = i]
  /\ Continue(t, "forget", i + 1)
  /\ UNCHANGED <<state, num_tasks, stacks, procs, threads, locked>>

ForgetDone(t) ==   \* the child is reported
  LET id == loc[t].id IN
  /\ At(t, "forget") /\ loc[t].i >= num_tasks
  /\ proc' = [proc EXCEPT ![id] = "UNUSED"]
  /\ wait_waiters' = [wait_waiters EXCEPT ![id] = {}]
  /\ Return(t)
  /\ UNCHANGED <<table, stacks, parent, threads, locked>>

-----------------------------------------------------------------------------
(* sys_join spins until the slot is dead, then task_forget_dead.           *)

Join(t, id) ==
  /\ At(t, "user") /\ "join" \in Ops /\ Used(id)
  /\ loc' = [loc EXCEPT ![t] = [InUser EXCEPT !.pc = "join", !.id = id]]
  /\ UNCHANGED <<table, stacks, procs, threads, locked>>

JoinDead(t) ==
  /\ At(t, "join") /\ state[loc[t].id] = "DEAD"
  /\ loc' = [loc EXCEPT ![t].pc = "reap", ![t].i = loc[t].id, ![t].for = "joined"]
  /\ UNCHANGED <<table, stacks, procs, threads, locked>>

Joined(t) ==
  /\ At(t, "joined")
  /\ owner' = [owner EXCEPT ![loc[t].id] = loc[t].id]
  /\ Return(t)
  /\ UNCHANGED <<state, num_tasks, stacks, procs, threads, locked>>

-----------------------------------------------------------------------------
(* Death, with interrupts off: the tasks of S die; when the process p ends *)
(* with them it becomes a zombie and its parent's waiters are woken.       *)

DieSilently(S, p, ends) ==   \* mutant: the parent's waiters are not woken
  /\ state' = [i \in Slot |-> IF i \in S THEN "DEAD" ELSE state[i]]
  /\ proc' = IF ends /\ p > 0 /\ proc[p] # "UNUSED" THEN [proc EXCEPT ![p] = "ZOMBIE"] ELSE proc
  /\ UNCHANGED <<owner, num_tasks, stacks, parent, wait_waiters, threads, locked>>

Die(S, p, ends) ==
  LET zombie == ends /\ p > 0 /\ proc[p] # "UNUSED"
      wakes == zombie /\ parent[p] > 0 /\ proc[parent[p]] # "UNUSED"
      woken == IF wakes THEN {w \in wait_waiters[parent[p]] : state[w] = "BLOCKED"} ELSE {}
  IN /\ state' = [i \in Slot |-> IF i \in S THEN "DEAD"
                                ELSE IF i \in woken THEN "READY" ELSE state[i]]
     /\ proc' = IF zombie THEN [proc EXCEPT ![p] = "ZOMBIE"] ELSE proc
     /\ wait_waiters' = IF wakes THEN [wait_waiters EXCEPT ![parent[p]] = {}] ELSE wait_waiters
     /\ UNCHANGED <<owner, num_tasks, stacks, parent, threads, locked>>

Of(p) == {i \in Slot : Used(i) /\ owner[i] = p}

ExitThread(t) ==   \* task_exit_code: sys_exit of a task that is not its process's first
  /\ At(t, "user") /\ "exit" \in Ops /\ owner[t] # t
  /\ Die({t}, owner[t], \A i \in Of(owner[t]) \ {t} : state[i] = "DEAD")
  /\ UNCHANGED loc

ExitProcessAlone(t) ==   \* mutant: the other threads live on
  /\ At(t, "user") /\ "exit" \in Ops
  /\ Die({t}, owner[t], TRUE)
  /\ loc' = [i \in Slot |-> IF i \in Of(owner[t]) THEN InUser ELSE loc[i]]

ExitProcess(t) ==   \* task_exit_process_code: sys_exit, or a fault in any thread
  /\ At(t, "user") /\ "exit" \in Ops
  /\ Die(Of(owner[t]), owner[t], TRUE)
  /\ loc' = [i \in Slot |-> IF i \in Of(owner[t]) THEN InUser ELSE loc[i]]

Kill(t, id) ==   \* task_kill up to irq_save
  /\ At(t, "user") /\ "kill" \in Ops /\ Used(id)
  /\ state[id] # "DEAD"
  /\ KillUnborn \/ state[id] # "CREATING"
  /\ loc' = [loc EXCEPT ![t] = [InUser EXCEPT !.pc = "kill", !.id = id, !.own = owner[id]]]
  /\ UNCHANGED <<table, stacks, procs, threads, locked>>

Killed(t) ==
  LET S == Of(loc[t].own) \cup {loc[t].id} IN
  /\ At(t, "kill")
  /\ KillUnborn \/ \A i \in S : state[i] # "CREATING"
  /\ Die(S, loc[t].own, TRUE)
  /\ loc' = [i \in Slot |-> IF i \in S \cup {t} THEN InUser ELSE loc[i]]

Spin(t) == CreateLock(t) \/ JoinDead(t)   \* loops that yield until they get what they want

Progress(t) ==
  \/ Reap(t) \/ ReapFree(t) \/ ReapZero(t) \/ ReapOwner(t)
  \/ ReapDead(t) \/ Pick(t) \/ Picked(t) \/ PickFresh(t)
  \/ Alloc(t) \/ CreatedProcess(t) \/ ArmProcess(t) \/ ArmThread(t)
  \/ WaitFind(t) \/ WaitBlock(t) \/ WaitWoken(t)
  \/ Forget(t) \/ ForgetSlot(t) \/ Forgotten(t) \/ ForgetDone(t)
  \/ Joined(t) \/ Killed(t)

Call(t) ==
  \/ SpawnProcess(t) \/ SpawnThread(t) \/ ExitThread(t) \/ ExitProcess(t)
  \/ \E pid \in WaitFor : WaitPid(t, pid)
  \/ \E id \in Slot : Join(t, id) \/ Kill(t, id)

Next == \E t \in Slot : Progress(t) \/ Spin(t) \/ Call(t)

Spec == Init /\ [][Next]_vars

(* A task inside the kernel goes on: the scheduler serves every READY task *)
(* again and again (FairCpu).  Strong fairness, because a task cannot move *)
(* while another is in the middle of a reap that nothing interrupts.       *)
(* Nobody is promised a lock, and programs need not make another call.     *)
FairSpec == Spec /\ \A t \in Slot \ {0} : SF_vars(Progress(t))

-----------------------------------------------------------------------------
Locals ==
  [pc : {"user", "create", "reap_dead", "pick", "picked", "alloc", "created", "arm",
         "wait", "block", "woken", "found", "forget", "join", "kill"} \cup MidReap,
   for : {"none", "reap_dead", "picked", "forgotten", "joined"},
   i : 0 .. N, stk : Stacks \cup {NoStack}, id : -1 .. N, own : Slot, us : 0 .. UserStacks]

(* The variables stay in their ranges.                                     *)
TypeOK ==
  /\ state \in [Slot -> State]
  /\ owner \in [Slot -> Slot]
  /\ num_tasks \in 2 .. N
  /\ kstack \in [Slot -> Stacks \cup {NoStack}]
  /\ free_stacks \in SUBSET Stacks
  /\ proc \in [Slot -> {"UNUSED", "RUNNING", "ZOMBIE"}]
  /\ parent \in [Slot -> Slot]
  /\ wait_waiters \in [Slot -> SUBSET Slot]
  /\ thread_info \in [Slot -> [owner : Slot, slot : 0 .. UserStacks]]
  /\ thread_slots \in [Slot -> SUBSET (1 .. UserStacks)]
  /\ locked \in Slot
  /\ loc \in [Slot -> Locals]

(* Every task that may run has a kernel stack of its own, which the page   *)
(* allocator does not own as well, and no stack is lost, although reaping  *)
(* and creating interleave and a slot changes hands.                       *)
StacksExclusive ==
  /\ \A i \in Slot : Used(i) /\ state[i] \in {"READY", "BLOCKED"}
                       => kstack[i] # NoStack /\ kstack[i] \notin free_stacks
  /\ \A i, j \in Slot : i # j /\ kstack[i] # NoStack => kstack[i] # kstack[j]
  /\ Stacks \subseteq free_stacks \cup {kstack[i] : i \in Slot}

(* "Stay unarmed until the creator finishes": a task that may run has its  *)
(* kernel stack (task.c, end of task_create_ex).                           *)
ArmedHasStack ==
  \A i \in Slot : Used(i) /\ state[i] = "READY" => kstack[i] # NoStack

(* One creator at a time between the lock and the unlock, and a slot under *)
(* construction stays unarmed and belongs to one creator until armed.      *)
Creating == {"reap_dead", "pick", "picked", "alloc", "created"}
CreatorsSerialized ==
  \A t \in Slot :
    /\ (loc[t].pc \in Creating \/ loc[t].for \in Creating) => locked = t
    /\ loc[t].pc \in {"alloc", "created", "arm"} =>
         /\ state[loc[t].id] = "CREATING"
         /\ \A u \in Slot \ {t} : loc[u].pc \in {"alloc", "created", "arm"} => loc[u].id # loc[t].id

(* A parent blocked in waitpid is registered with its process, still has a *)
(* child to wait for, and none of those has ended: no wake-up was lost.    *)
WaiterNotForgotten ==
  \A t \in Slot : state[t] = "BLOCKED" =>
    /\ t \in wait_waiters[loc[t].own]
    /\ HasChild(loc[t].own, loc[t].id)
    /\ ZombieChildren(loc[t].own, loc[t].id) = {}

(* A process is a zombie only once all its tasks are dead; what waitpid    *)
(* then reports as ended can never run again.                              *)
ZombieIsDead ==
  \A p \in Slot : proc[p] = "ZOMBIE" => \A i \in Of(p) : state[i] \notin {"READY", "BLOCKED"}

(* Two live threads of a process never share a user stack, and the stack   *)
(* of a live thread is never up for allocation.                            *)
UserStacksExclusive ==
  \A i \in Slot : Used(i) /\ state[i] # "DEAD" /\ thread_info[i] # NoInfo =>
    /\ thread_info[i].slot \in thread_slots[thread_info[i].owner]
    /\ \A j \in Slot \ {i} : state[j] # "DEAD" => thread_info[j] # thread_info[i]

(* A zombie keeps its slot until its parent's waitpid reports it: it is    *)
(* never recycled, never forgotten and never reported twice.               *)
ZombieUntilReported ==
  [][\A p \in Slot : proc[p] = "ZOMBIE" /\ proc'[p] # "ZOMBIE" =>
       \E t \in Slot : /\ loc[t].pc = "forget" /\ loc[t].id = p
                       /\ loc[t].own = parent[p] /\ loc'[t].pc = "user"]_vars

(* A task blocked in waitpid returns once a child it waits for has ended.  *)
WaitReturns ==
  \A t \in Slot :
    (loc[t].pc = "woken" /\ ZombieChildren(loc[t].own, loc[t].id) # {}) ~> loc[t].pc = "user"

(* Whoever holds the creation lock lets go of it, unless killed with it.   *)
LockReleased ==
  \A t \in Slot \ {NoTask} : locked = t ~> (locked # t \/ state[t] = "DEAD")
=============================================================================
