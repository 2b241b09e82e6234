-------------------------- MODULE SchedulerProofs --------------------------
(***************************************************************************)
(* Proofs about Scheduler for every number of tasks and every tick width:  *)
(* type correctness, OneRunning, that every step of the scheduler is a     *)
(* step of the abstract processor of FairCpu, that deadlines are kept      *)
(* across the wrap of the tick counter, and round robin.                   *)
(***************************************************************************)
EXTENDS Scheduler, Remainders, TLAPS

LEMMA ModRange ==
  ASSUME NEW a \in Int, NEW n \in Nat, n > 0
  PROVE  a % n \in 0 .. n - 1
  BY SMT

LEMMA LaterType ==
  ASSUME NEW now \in Int, NEW n \in Int
  PROVE  Later(now, n) \in Ticks
<1>1. 2 * HalfTicks \in Nat /\ 2 * HalfTicks > 0
  BY HalfTicksAssumption
<1>2. now + n \in Int
  OBVIOUS
<1> QED BY <1>1, <1>2, ModRange DEF Later, Ticks

LEMMA DeadlineType ==
  ASSUME ticks \in Ticks, NEW d \in Nat
  PROVE  Deadline(d) \in Ticks
<1>0. ticks \in Int /\ d \in Int
  BY HalfTicksAssumption DEF Ticks
<1>1. Later(ticks, d) \in Ticks
  BY <1>0, LaterType
<1>2. 1 \in Ticks
  BY HalfTicksAssumption DEF Ticks
<1> QED BY <1>1, <1>2 DEF Deadline

(* A slot number stays one when the table grows.                           *)
LEMMA RangeGrows ==
  ASSUME NEW n \in Int, NEW m \in Int, n <= m, NEW i \in 0 .. n - 1
  PROVE  i \in 0 .. m - 1
OBVIOUS

(* The slot schedule() picks exists, and is READY, the running task or the *)
(* idle task.                                                              *)
LEMMA NextInRange ==
  ASSUME TypeOK, NEW st, NEW next, IsNext(st, next)
  PROVE  /\ next \in 0 .. num_tasks - 1
         /\ \/ st[next] = "READY"
            \/ next = current_id /\ st[current_id] = "RUNNING"
            \/ next = 0
<1>1. CASE \E d \in ReadyDistance(st) : next = (current_id + d) % num_tasks
  <2>1. PICK d \in ReadyDistance(st) : next = (current_id + d) % num_tasks
    BY <1>1
  <2>2. d \in Int /\ st[(current_id + d) % num_tasks] = "READY"
    BY <2>1 DEF ReadyDistance, TypeOK
  <2>3. current_id + d \in Int /\ num_tasks \in Nat /\ num_tasks > 0
    BY <2>2 DEF TypeOK
  <2> QED BY <2>1, <2>2, <2>3, ModRange
<1>2. CASE next = IF st[current_id] = "RUNNING" THEN current_id ELSE 0
  BY <1>2 DEF TypeOK
<1> QED BY <1>1, <1>2 DEF IsNext

(***************************************************************************)
(* A table schedule() may be called on: at most the current task is        *)
(* RUNNING, and the idle task can run.                                     *)
(***************************************************************************)
Schedulable(st) ==
  /\ st \in [Task -> State]
  /\ \A i \in Task : st[i] = "RUNNING" => i = current_id
  /\ st[0] \in {"RUNNING", "READY"}

LEMMA CurrentIsTask ==
  ASSUME TypeOK
  PROVE  current_id \in Task /\ 0 \in Task /\ 0 .. num_tasks - 1 \subseteq Task
  BY MaxTasksAssumption DEF TypeOK, Task

LEMMA AwakeSchedulable ==
  ASSUME NEW st, NEW wk, NEW now, Schedulable(st), 0 \in Task
  PROVE  Schedulable(WakeState(st, wk, now))
  BY DEF Schedulable, WakeState, Due, State

(* schedule() re-establishes OneRunning from any such table.               *)
LEMMA ScheduleSafe ==
  ASSUME TypeOK, NEW st, NEW wk \in [Task -> Ticks], NEW now,
         Schedulable(st), Schedule(st, wk, now), num_tasks' = num_tasks
  PROVE  /\ state' \in [Task -> State]
         /\ wake_tick' \in [Task -> Ticks]
         /\ current_id' \in 0 .. num_tasks - 1
         /\ passed' \in [Task -> SUBSET Task]
         /\ OneRunning'
<1> DEFINE awake == WakeState(st, wk, now)
<1>1. PICK next \in Task : /\ IsNext(awake, next)
                           /\ state' = SwitchState(awake, next)
                           /\ wake_tick' = WakeTick(st, wk, now)
                           /\ current_id' = next
                           /\ RecordPassing(next)
  BY DEF Schedule
<1>2. current_id \in Task /\ 0 \in Task /\ 0 .. num_tasks - 1 \subseteq Task
  BY CurrentIsTask
<1>3. Schedulable(awake)
  BY <1>2, AwakeSchedulable
<1>4. next \in 0 .. num_tasks - 1
  BY <1>1, NextInRange
<1>5. state' \in [Task -> State]
  BY <1>1, <1>3 DEF SwitchState, Schedulable, State
<1>6. 0 \in Ticks
  BY HalfTicksAssumption DEF Ticks
<1>7. wake_tick' \in [Task -> Ticks]
  BY <1>1, <1>6 DEF WakeTick
<1>8. passed' \in [Task -> SUBSET Task]
  BY <1>1 DEF RecordPassing, TypeOK
<1>9. OneRunning'
  BY <1>1, <1>2, <1>3 DEF OneRunning, SwitchState, Schedulable
<1> QED BY <1>1, <1>4, <1>5, <1>7, <1>8, <1>9

(* An operation that leaves the processor alone keeps it too, if the       *)
(* current task stays on it legally.                                       *)
LEMMA NoSwitchSafe ==
  ASSUME TypeOK, NEW st, NEW wk \in [Task -> Ticks],
         Schedulable(st), NoSwitch(st, wk),
         st[current_id] \in {"RUNNING", "BLOCKED", "READY"},
         current_id = 0 => st[0] = "RUNNING"
  PROVE  /\ state' \in [Task -> State]
         /\ wake_tick' \in [Task -> Ticks]
         /\ current_id' = current_id
         /\ passed' \in [Task -> SUBSET Task]
         /\ OneRunning'
<1>1. passed' \in [Task -> SUBSET Task]
  BY CurrentIsTask DEF NoSwitch, RecordPassing, TypeOK
<1> QED BY <1>1 DEF NoSwitch, Schedulable, OneRunning

Inv == TypeOK /\ OneRunning

LEMMA InvInit == Init => Inv
<1> SUFFICES ASSUME Init PROVE Inv
  OBVIOUS
<1>1. 0 \in Ticks /\ 0 \in Task /\ 1 \in 1 .. MaxTasks
  BY HalfTicksAssumption, MaxTasksAssumption DEF Ticks, Task
<1>2. TypeOK
  BY <1>1 DEF Init, TypeOK, State
<1>3. OneRunning
  BY <1>1 DEF Init, OneRunning
<1> QED BY <1>2, <1>3 DEF Inv

(* What every action needs to know of the table it starts from.            *)
LEMMA InvTable ==
  ASSUME Inv
  PROVE  /\ Schedulable(state)
         /\ 0 \in Ticks
         /\ current_id \in Task
         /\ 0 \in Task
  BY CurrentIsTask, HalfTicksAssumption DEF Inv, TypeOK, OneRunning, Schedulable, Ticks

(* Changing one slot other than the idle one to a state that is not        *)
(* RUNNING leaves a table schedule() may be called on.                     *)
LEMMA SetSchedulable ==
  ASSUME Inv, NEW i \in Task, i # 0, NEW s \in State, s # "RUNNING"
  PROVE  Schedulable([state EXCEPT ![i] = s])
  BY InvTable DEF Schedulable

LEMMA SetTick ==
  ASSUME Inv, NEW i \in Task, NEW w \in Ticks
  PROVE  [wake_tick EXCEPT ![i] = w] \in [Task -> Ticks]
  BY DEF Inv, TypeOK

LEMMA InvNext == Inv /\ [Next]_vars => Inv'
<1> SUFFICES ASSUME Inv, [Next]_vars PROVE Inv'
  OBVIOUS
<1> USE DEF Inv
<1>0. Schedulable(state) /\ 0 \in Ticks /\ current_id \in Task /\ 0 \in Task
  BY InvTable
<1>1. CASE TaskYield
  <2>1. Schedule(state, wake_tick, ticks) /\ num_tasks' = num_tasks
    BY <1>1 DEF TaskYield
  <2>2. /\ state' \in [Task -> State] /\ wake_tick' \in [Task -> Ticks]
        /\ current_id' \in 0 .. num_tasks - 1
        /\ passed' \in [Task -> SUBSET Task] /\ OneRunning'
    BY <1>0, <2>1, ScheduleSafe DEF TypeOK
  <2> QED BY <1>1, <2>2 DEF TaskYield, TypeOK
<1>2. ASSUME NEW j \in 1 .. MaxJiffies, TimerIrq(j)
      PROVE  Inv'
  <2>1. ticks \in Int /\ j \in Int /\ j \in Nat /\ -MaxJiffies \in Int
    BY HalfTicksAssumption, MaxJiffiesAssumption DEF TypeOK, Ticks
  <2>2. Later(ticks, j) \in Ticks
    BY <2>1, LaterType
  <2>3. ticks' \in Ticks /\ num_tasks' = num_tasks /\ left' \in [Task -> Int]
    BY <1>2, <2>1, <2>2 DEF TimerIrq, CountDown, TypeOK
  <2>4. CASE NoSwitch(state, wake_tick) /\ slice' = slice + j
    <3>1. state[current_id] \in {"RUNNING", "BLOCKED", "READY"}
          /\ (current_id = 0 => state[0] = "RUNNING")
      BY DEF OneRunning
    <3>2. /\ state' \in [Task -> State] /\ wake_tick' \in [Task -> Ticks]
          /\ current_id' = current_id
          /\ passed' \in [Task -> SUBSET Task] /\ OneRunning'
      BY <1>0, <2>4, <3>1, NoSwitchSafe DEF TypeOK
    <3> QED BY <2>1, <2>3, <2>4, <3>2 DEF TypeOK
  <2>5. CASE Schedule(state, wake_tick, Later(ticks, j)) /\ slice' = 0
    <3>1. /\ state' \in [Task -> State] /\ wake_tick' \in [Task -> Ticks]
          /\ current_id' \in 0 .. num_tasks - 1
          /\ passed' \in [Task -> SUBSET Task] /\ OneRunning'
      BY <1>0, <2>3, <2>5, ScheduleSafe DEF TypeOK
    <3> QED BY <2>3, <2>5, <3>1 DEF TypeOK
  <2> QED BY <1>2, <2>4, <2>5 DEF TimerIrq
<1>3. ASSUME NEW d \in 0 .. MaxDelay, SleepUntil(d)
      PROVE  Inv'
  <2>1. ticks \in Int /\ d \in Int
    BY HalfTicksAssumption, MaxDelayAssumption DEF TypeOK, Ticks
  <2>2. Later(ticks, d) \in Ticks
    BY <2>1, LaterType
  <2> DEFINE st == [state EXCEPT ![current_id] = "SLEEPING"]
             wk == [wake_tick EXCEPT ![current_id] = Later(ticks, d)]
  <2>3. Schedulable(st) /\ wk \in [Task -> Ticks]
    BY <1>0, <1>3, <2>2, SetSchedulable, SetTick DEF SleepUntil, State
  <2>4. Schedule(st, wk, ticks) /\ num_tasks' = num_tasks
    BY <1>3 DEF SleepUntil
  <2>5. /\ state' \in [Task -> State] /\ wake_tick' \in [Task -> Ticks]
        /\ current_id' \in 0 .. num_tasks - 1
        /\ passed' \in [Task -> SUBSET Task] /\ OneRunning'
    <3> HIDE DEF st, wk
    <3> QED BY <2>3, <2>4, ScheduleSafe
  <2> QED BY <1>3, <2>1, <2>5 DEF SleepUntil, TypeOK
<1>4. ASSUME NEW d \in 0 .. MaxDelay, BlockCurrentUntil(d)
      PROVE  Inv'
  <2>1. ticks \in Int /\ d \in Int /\ d \in Nat
    BY HalfTicksAssumption, MaxDelayAssumption DEF TypeOK, Ticks
  <2>2. Deadline(d) \in Ticks
    BY <2>1, DeadlineType DEF TypeOK
  <2> DEFINE st == [state EXCEPT ![current_id] = "BLOCKED"]
             wk == [wake_tick EXCEPT ![current_id] = Deadline(d)]
  <2>3. Schedulable(st) /\ wk \in [Task -> Ticks]
    BY <1>0, <1>4, <2>2, SetSchedulable, SetTick DEF BlockCurrentUntil, State
  <2>4. Schedule(st, wk, ticks) /\ num_tasks' = num_tasks
    BY <1>4 DEF BlockCurrentUntil
  <2>5. /\ state' \in [Task -> State] /\ wake_tick' \in [Task -> Ticks]
        /\ current_id' \in 0 .. num_tasks - 1
        /\ passed' \in [Task -> SUBSET Task] /\ OneRunning'
    <3> HIDE DEF st, wk
    <3> QED BY <2>3, <2>4, ScheduleSafe
  <2> QED BY <1>4, <2>1, <2>5 DEF BlockCurrentUntil, TypeOK
<1>5. CASE BlockCurrent
  <2> DEFINE st == [state EXCEPT ![current_id] = "BLOCKED"]
             wk == [wake_tick EXCEPT ![current_id] = 0]
  <2>1. Schedulable(st) /\ wk \in [Task -> Ticks]
    BY <1>0, <1>5, SetSchedulable, SetTick DEF BlockCurrent, State
  <2>2. Schedule(st, wk, ticks) /\ num_tasks' = num_tasks
    BY <1>5 DEF BlockCurrent
  <2>3. /\ state' \in [Task -> State] /\ wake_tick' \in [Task -> Ticks]
        /\ current_id' \in 0 .. num_tasks - 1
        /\ passed' \in [Task -> SUBSET Task] /\ OneRunning'
    <3> HIDE DEF st, wk
    <3> QED BY <2>1, <2>2, ScheduleSafe
  <2> QED BY <1>5, <2>3 DEF BlockCurrent, TypeOK
<1>6. CASE PrepareBlock
  <2> DEFINE st == [state EXCEPT ![current_id] = "BLOCKED"]
             wk == [wake_tick EXCEPT ![current_id] = 0]
  <2>1. Schedulable(st) /\ wk \in [Task -> Ticks]
    BY <1>0, <1>6, SetSchedulable, SetTick DEF PrepareBlock, State
  <2>2. st[current_id] = "BLOCKED" /\ current_id # 0
    BY <1>0, <1>6 DEF PrepareBlock, TypeOK
  <2>3. NoSwitch(st, wk)
    BY <1>6 DEF PrepareBlock
  <2>4. /\ state' \in [Task -> State] /\ wake_tick' \in [Task -> Ticks]
        /\ current_id' = current_id
        /\ passed' \in [Task -> SUBSET Task] /\ OneRunning'
    <3> HIDE DEF st, wk
    <3> QED BY <2>1, <2>2, <2>3, NoSwitchSafe
  <2> QED BY <1>6, <2>4 DEF PrepareBlock, TypeOK
<1>7. ASSUME NEW i \in Task, TaskWake(i)
      PROVE  Inv'
  <2> DEFINE st == [state EXCEPT ![i] = "READY"]
             wk == [wake_tick EXCEPT ![i] = 0]
  <2>1. i # 0 /\ state[i] = "BLOCKED"
    BY <1>7 DEF TaskWake, Task
  <2>2. Schedulable(st) /\ wk \in [Task -> Ticks]
    BY <1>0, <2>1, SetSchedulable, SetTick DEF State
  <2>3. st[current_id] \in {"RUNNING", "BLOCKED", "READY"}
        /\ (current_id = 0 => st[0] = "RUNNING")
    BY <1>0, <2>1 DEF TypeOK, OneRunning
  <2>4. NoSwitch(st, wk)
    BY <1>7 DEF TaskWake
  <2>5. /\ state' \in [Task -> State] /\ wake_tick' \in [Task -> Ticks]
        /\ current_id' = current_id
        /\ passed' \in [Task -> SUBSET Task] /\ OneRunning'
    <3> HIDE DEF st, wk
    <3> QED BY <2>2, <2>3, <2>4, NoSwitchSafe
  <2>6. left' \in [Task -> Int] /\ num_tasks' = num_tasks /\ slice' = slice /\ ticks' = ticks
    BY <1>7 DEF TaskWake, TypeOK
  <2> HIDE DEF st, wk
  <2> QED BY <2>5, <2>6 DEF TypeOK
<1>8. ASSUME NEW i \in Task, TaskCreate(i)
      PROVE  Inv'
  <2> DEFINE st == [state EXCEPT ![i] = "CREATING"]
             wk == [wake_tick EXCEPT ![i] = 0]
  <2>1. i # 0 /\ i # current_id /\ num_tasks' \in 1 .. MaxTasks /\ num_tasks <= num_tasks'
    BY <1>8, MaxTasksAssumption DEF TaskCreate, Running, Task, TypeOK
  <2>2. Schedulable(st) /\ wk \in [Task -> Ticks]
    BY <1>0, <2>1, SetSchedulable, SetTick DEF State
  <2>3. st[current_id] \in {"RUNNING", "BLOCKED", "READY"}
        /\ (current_id = 0 => st[0] = "RUNNING")
    BY <1>0, <2>1 DEF TypeOK, OneRunning
  <2>4. NoSwitch(st, wk)
    BY <1>8 DEF TaskCreate
  <2>5. /\ state' \in [Task -> State] /\ wake_tick' \in [Task -> Ticks]
        /\ current_id' = current_id
        /\ passed' \in [Task -> SUBSET Task] /\ OneRunning'
    <3> HIDE DEF st, wk
    <3> QED BY <2>2, <2>3, <2>4, NoSwitchSafe
  <2>6. left' \in [Task -> Int] /\ slice' \in Nat /\ ticks' \in Ticks
    BY <1>8 DEF TaskCreate, TypeOK
  <2>7. current_id' \in 0 .. num_tasks' - 1
    <3>1. current_id' \in 0 .. num_tasks - 1
      BY <2>5 DEF TypeOK
    <3>2. num_tasks \in Int /\ num_tasks' \in Int
      BY <2>1, MaxTasksAssumption DEF TypeOK
    <3> QED BY <2>1, <3>1, <3>2, RangeGrows
  <2>8. TypeOK'
    <3> HIDE DEF st, wk
    <3> QED BY <2>1, <2>5, <2>6, <2>7 DEF TypeOK
  <2> QED BY <2>5, <2>8
<1>9. ASSUME NEW i \in Task, TaskMakeReady(i)
      PROVE  Inv'
  <2> DEFINE st == [state EXCEPT ![i] = "READY"]
             wk == [wake_tick EXCEPT ![i] = 0]
  <2>1. i # 0 /\ i # current_id
    BY <1>9 DEF TaskMakeReady, Running, OneRunning
  <2>2. Schedulable(st) /\ wk \in [Task -> Ticks]
    BY <1>0, <2>1, SetSchedulable, SetTick DEF State
  <2>3. st[current_id] \in {"RUNNING", "BLOCKED", "READY"}
        /\ (current_id = 0 => st[0] = "RUNNING")
    BY <1>0, <2>1 DEF TypeOK, OneRunning
  <2>4. NoSwitch(st, wk)
    BY <1>9 DEF TaskMakeReady
  <2>5. /\ state' \in [Task -> State] /\ wake_tick' \in [Task -> Ticks]
        /\ current_id' = current_id
        /\ passed' \in [Task -> SUBSET Task] /\ OneRunning'
    <3> HIDE DEF st, wk
    <3> QED BY <2>2, <2>3, <2>4, NoSwitchSafe
  <2> QED BY <1>9, <2>5 DEF TaskMakeReady, TypeOK
<1>10. ASSUME NEW S \in SUBSET Task, Kill(S)
       PROVE  Inv'
  <2> DEFINE st == [i \in Task |-> IF i \in S THEN "DEAD" ELSE state[i]]
             wk == [i \in Task |-> IF i \in S THEN 0 ELSE wake_tick[i]]
  <2>1. 0 \notin S
    BY <1>10 DEF Kill
  <2>2. Schedulable(st) /\ wk \in [Task -> Ticks]
    BY <1>0, <2>1 DEF Schedulable, State, TypeOK
  <2>3. left' \in [Task -> Int] /\ num_tasks' = num_tasks /\ slice' = slice /\ ticks' = ticks
    BY <1>10 DEF Kill, TypeOK
  <2>4. CASE Schedule(st, wk, ticks)
    <3>1. /\ state' \in [Task -> State] /\ wake_tick' \in [Task -> Ticks]
          /\ current_id' \in 0 .. num_tasks - 1
          /\ passed' \in [Task -> SUBSET Task] /\ OneRunning'
      <4> HIDE DEF st, wk
      <4> QED BY <2>2, <2>3, <2>4, ScheduleSafe
    <3> QED BY <2>3, <3>1 DEF TypeOK
  <2>5. CASE current_id \notin S /\ NoSwitch(st, wk)
    <3>1. st[current_id] = state[current_id] /\ st[0] = state[0]
      BY <1>0, <2>1, <2>5
    <3>2. st[current_id] \in {"RUNNING", "BLOCKED", "READY"}
          /\ (current_id = 0 => st[0] = "RUNNING")
      BY <3>1 DEF OneRunning
    <3>3. /\ state' \in [Task -> State] /\ wake_tick' \in [Task -> Ticks]
          /\ current_id' = current_id
          /\ passed' \in [Task -> SUBSET Task] /\ OneRunning'
      <4> HIDE DEF st, wk
      <4> QED BY <2>2, <2>5, <3>2, NoSwitchSafe
    <3> QED BY <2>3, <3>3 DEF TypeOK
  <2> QED BY <1>10, <2>4, <2>5 DEF Kill
<1>11. CASE UNCHANGED vars
  BY <1>11 DEF vars, TypeOK, OneRunning
<1> QED BY <1>1, <1>2, <1>3, <1>4, <1>5, <1>6, <1>7, <1>8, <1>9, <1>10, <1>11 DEF Next

(* In every reachable state, whatever the number of tasks, the width of    *)
(* the tick counter and the delays, the variables are in their ranges, the *)
(* processor serves a task that may run, no other task is RUNNING and the  *)
(* idle task is there to fall back on.                                     *)
THEOREM SchedulerSafe == Spec => [](TypeOK /\ OneRunning)
<1>1. Init => Inv
  BY InvInit
<1>2. Inv /\ [Next]_vars => Inv'
  BY InvNext
<1>3. Inv => TypeOK /\ OneRunning
  BY DEF Inv
<1> QED BY <1>1, <1>2, <1>3, PTL DEF Spec

-----------------------------------------------------------------------------
(***************************************************************************)
(* The steps of the scheduler are steps of the abstract processor.         *)
(***************************************************************************)
(* What FairCpu asks of a step, in the terms of the table.                 *)
LEMMA StepFromTable ==
  ASSUME current_id' \in Task,
         \A i \in Task : \/ ModeOf(i)' = ModeOf(i)
                         \/ ModeOf(i)' \in {"off", "runnable"}
                         \/ ModeOf(i) = "runnable" /\ i = current_id /\ ModeOf(i)' = "waiting",
         current_id' # current_id =>
           ModeOf(current_id') # "off" /\ \A i \in Task : i = current_id' => ModeOf(i)' = "runnable"
  PROVE  Cpu!Step
<1>1. \A i \in Task : ModeOf(i)' \in {"off", "runnable", "waiting"}
  BY DEF ModeOf
<1>2. [i \in Task |-> ModeOf(i)]' \in [Task -> Cpu!Mode]
  BY <1>1 DEF Cpu!Mode
<1>3. \A i \in Task : Cpu!LegalChange(i)
  BY DEF Cpu!LegalChange
<1>4. current_id' # current_id =>
         [i \in Task |-> ModeOf(i)][current_id'] # "off" /\ [i \in Task |-> ModeOf(i)]'[current_id'] = "runnable"
  OBVIOUS
<1> QED BY <1>2, <1>3, <1>4 DEF Cpu!Step

(* A table that differs from the current one by deaths and by the current  *)
(* task's going to sleep or blocking.                                      *)
Retired(st) ==
  \A i \in Task : \/ st[i] = state[i]
                  \/ st[i] = "DEAD"
                  \/ i = current_id /\ state[i] = "RUNNING" /\ st[i] \in {"SLEEPING", "BLOCKED"}

LEMMA ScheduleStep ==
  ASSUME Inv, NEW st, NEW wk, NEW now, Schedulable(st), Retired(st),
         Schedule(st, wk, now), num_tasks' = num_tasks
  PROVE  Cpu!Step
<1> DEFINE awake == WakeState(st, wk, now)
<1>1. PICK next \in Task : /\ IsNext(awake, next)
                           /\ state' = SwitchState(awake, next)
                           /\ current_id' = next
  BY DEF Schedule
<1>2. current_id \in Task /\ 0 \in Task /\ 0 .. num_tasks - 1 \subseteq Task
  BY CurrentIsTask DEF Inv
<1>3. /\ next \in 0 .. num_tasks - 1
      /\ \/ awake[next] = "READY"
         \/ next = current_id /\ awake[current_id] = "RUNNING"
         \/ next = 0
  BY <1>1, NextInRange DEF Inv
<1>4. \A i \in Task : awake[i] = st[i] \/ (awake[i] = "READY" /\ st[i] \in {"SLEEPING", "BLOCKED"})
  BY DEF WakeState, Due
<1>5. \A i \in Task : state'[i] = IF i = next THEN "RUNNING"
                                 ELSE IF i = current_id /\ awake[i] = "RUNNING" THEN "READY"
                                 ELSE awake[i]
  BY <1>1 DEF SwitchState
<1> HIDE DEF awake
<1>6. ~(next >= num_tasks) /\ num_tasks \in Int
  BY <1>3, <1>2 DEF Inv, TypeOK
<1>7. ModeOf(next) # "off" \/ next = current_id
  <2>1. state[next] \notin {"DEAD", "CREATING"} \/ next = current_id
    BY <1>2, <1>3, <1>4 DEF Retired, Inv, OneRunning
  <2> QED BY <1>6, <2>1 DEF ModeOf
<1>8. \A i \in Task : i = next => ModeOf(i)' = "runnable"
  BY <1>5, <1>6 DEF ModeOf
<1>9. ASSUME NEW i \in Task
      PROVE  \/ ModeOf(i)' = ModeOf(i)
             \/ ModeOf(i)' \in {"off", "runnable"}
             \/ ModeOf(i) = "runnable" /\ i = current_id /\ ModeOf(i)' = "waiting"
  <2>1. CASE i >= num_tasks
    BY <2>1 DEF ModeOf
  <2>2. CASE ~(i >= num_tasks) /\ state'[i] \in {"READY", "RUNNING", "DEAD", "CREATING"}
    BY <2>2 DEF ModeOf
  <2>3. CASE ~(i >= num_tasks) /\ state'[i] \notin {"READY", "RUNNING", "DEAD", "CREATING"}
    <3>1. state'[i] = st[i]
      BY <1>4, <1>5, <2>3
    <3>2. CASE st[i] = state[i]
      BY <2>3, <3>1, <3>2 DEF ModeOf
    <3>3. CASE i = current_id /\ state[i] = "RUNNING"
      BY <2>3, <3>1, <3>3 DEF ModeOf
    <3> QED BY <2>3, <3>1, <3>2, <3>3 DEF Retired
  <2> QED BY <2>1, <2>2, <2>3
<1> QED BY <1>1, <1>7, <1>8, <1>9, StepFromTable

(* Without a switch: tasks are started, woken or killed, or the current    *)
(* task blocks.                                                            *)
LEMMA NoSwitchStep ==
  ASSUME Inv, NEW st, NEW wk, NoSwitch(st, wk), num_tasks' = num_tasks,
         \A i \in Task : \/ st[i] = state[i]
                         \/ st[i] \in {"DEAD", "CREATING", "READY"}
                         \/ i = current_id /\ state[i] = "RUNNING"
  PROVE  Cpu!Step
<1>1. current_id' = current_id /\ current_id \in Task /\ state' = st
  BY CurrentIsTask DEF NoSwitch, Inv
<1>2. ASSUME NEW i \in Task
      PROVE  \/ ModeOf(i)' = ModeOf(i)
             \/ ModeOf(i)' \in {"off", "runnable"}
             \/ ModeOf(i) = "runnable" /\ i = current_id /\ ModeOf(i)' = "waiting"
  <2>1. CASE i >= num_tasks
    BY <2>1 DEF ModeOf
  <2>2. CASE ~(i >= num_tasks)
    BY <1>1, <2>2 DEF ModeOf
  <2> QED BY <2>1, <2>2
<1> QED BY <1>1, <1>2, StepFromTable

LEMMA NextSteps ==
  ASSUME Inv, [Next]_vars
  PROVE  [Cpu!Step]_(Cpu!vars)
<1>0. Schedulable(state) /\ current_id \in Task /\ 0 \in Task
  BY InvTable
<1>1. Retired(state)
  BY DEF Retired
<1>2. CASE TaskYield
  BY <1>0, <1>1, <1>2, ScheduleStep DEF TaskYield
<1>3. ASSUME NEW j \in 1 .. MaxJiffies, TimerIrq(j)
      PROVE  Cpu!Step
  <2>1. CASE NoSwitch(state, wake_tick)
    BY <1>3, <2>1, NoSwitchStep DEF TimerIrq
  <2>2. CASE Schedule(state, wake_tick, Later(ticks, j))
    BY <1>0, <1>1, <1>3, <2>2, ScheduleStep DEF TimerIrq
  <2> QED BY <1>3, <2>1, <2>2 DEF TimerIrq
<1>4. ASSUME NEW s \in {"SLEEPING", "BLOCKED"}, NEW wk, Running, current_id # 0,
             Schedule([state EXCEPT ![current_id] = s], wk, ticks), num_tasks' = num_tasks
      PROVE  Cpu!Step
  <2> DEFINE st == [state EXCEPT ![current_id] = s]
  <2>1. Schedulable(st)
    BY <1>0, <1>4, SetSchedulable DEF State
  <2>2. Retired(st)
    BY <1>0, <1>4 DEF Retired, Running, Inv, TypeOK
  <2>3. Schedule(st, wk, ticks)
    BY <1>4
  <2> HIDE DEF st
  <2> QED BY <1>4, <2>1, <2>2, <2>3, ScheduleStep
<1>5. ASSUME NEW d \in 0 .. MaxDelay, SleepUntil(d) \/ BlockCurrentUntil(d)
      PROVE  Cpu!Step
  BY <1>4, <1>5 DEF SleepUntil, BlockCurrentUntil
<1>6. CASE BlockCurrent
  BY <1>4, <1>6 DEF BlockCurrent
<1>7. CASE PrepareBlock
  <2> DEFINE st == [state EXCEPT ![current_id] = "BLOCKED"]
             wk == [wake_tick EXCEPT ![current_id] = 0]
  <2>1. NoSwitch(st, wk) /\ num_tasks' = num_tasks /\ state[current_id] = "RUNNING"
    BY <1>7 DEF PrepareBlock, Running
  <2>2. \A i \in Task : st[i] = state[i] \/ (i = current_id /\ state[i] = "RUNNING")
    BY <2>1 DEF Inv, TypeOK
  <2> HIDE DEF st, wk
  <2> QED BY <2>1, <2>2, NoSwitchStep
<1>8. ASSUME NEW i \in Task, TaskWake(i) \/ TaskMakeReady(i)
      PROVE  Cpu!Step
  <2> DEFINE st == [state EXCEPT ![i] = "READY"]
             wk == [wake_tick EXCEPT ![i] = 0]
  <2>1. NoSwitch(st, wk) /\ num_tasks' = num_tasks
    BY <1>8 DEF TaskWake, TaskMakeReady
  <2>2. \A k \in Task : st[k] = state[k] \/ st[k] = "READY"
    BY DEF Inv, TypeOK
  <2> HIDE DEF st, wk
  <2> QED BY <2>1, <2>2, NoSwitchStep
<1>9. ASSUME NEW i \in Task, TaskCreate(i)
      PROVE  Cpu!Step
  <2>1. current_id' = current_id /\ state' = [state EXCEPT ![i] = "CREATING"]
    BY <1>9 DEF TaskCreate, NoSwitch
  <2>2. \/ num_tasks' = num_tasks
        \/ i = num_tasks /\ num_tasks' = num_tasks + 1
    BY <1>9 DEF TaskCreate
  <2>3. ASSUME NEW k \in Task
        PROVE  ModeOf(k)' = ModeOf(k) \/ ModeOf(k)' = "off"
    <3>1. CASE k = i
      <4>1. state'[k] = "CREATING"
        BY <2>1, <3>1 DEF Inv, TypeOK
      <4> QED BY <4>1 DEF ModeOf
    <3>2. CASE k # i
      <4>1. state'[k] = state[k] /\ k \in Int /\ i \in Int /\ num_tasks \in Int
        BY <2>1, <3>2 DEF Inv, TypeOK, Task
      <4>2. k >= num_tasks' <=> k >= num_tasks
        BY <2>2, <3>2, <4>1
      <4> QED BY <4>1, <4>2 DEF ModeOf
    <3> QED BY <3>1, <3>2
  <2> QED BY <1>0, <2>1, <2>3, StepFromTable
<1>10. ASSUME NEW S \in SUBSET Task, Kill(S)
       PROVE  Cpu!Step
  <2> DEFINE st == [i \in Task |-> IF i \in S THEN "DEAD" ELSE state[i]]
             wk == [i \in Task |-> IF i \in S THEN 0 ELSE wake_tick[i]]
  <2>1. Schedulable(st)
    BY <1>0, <1>10 DEF Kill, Schedulable, State
  <2>2. \A i \in Task : st[i] = state[i] \/ st[i] = "DEAD"
    OBVIOUS
  <2>3. num_tasks' = num_tasks /\ (Schedule(st, wk, ticks) \/ NoSwitch(st, wk))
    BY <1>10 DEF Kill
  <2> HIDE DEF st, wk
  <2>4. Retired(st)
    BY <2>2 DEF Retired
  <2> QED BY <2>1, <2>2, <2>3, <2>4, ScheduleStep, NoSwitchStep
<1>11. CASE UNCHANGED vars
  <2>1. \A i \in Task : ModeOf(i)' = ModeOf(i)
    BY <1>11 DEF vars, ModeOf
  <2> QED BY <1>11, <2>1 DEF vars, Cpu!vars
<1> QED BY <1>2, <1>3, <1>5, <1>6, <1>7, <1>8, <1>9, <1>10, <1>11 DEF Next

(* Whatever the scheduler does, the rest of the kernel sees the abstract   *)
(* processor: only the task being served gives up being runnable, and the  *)
(* processor is handed only to a task that is runnable.                    *)
THEOREM SchedulerSteps == Spec => Cpu!Init /\ [][Cpu!Step]_(Cpu!vars)
<1>1. Init => Cpu!Init
  BY MaxTasksAssumption DEF Init, Cpu!Init, Cpu!Mode, ModeOf, Task
<1>2. Inv /\ [Next]_vars => [Cpu!Step]_(Cpu!vars)
  BY NextSteps
<1> QED BY <1>1, <1>2, InvInit, InvNext, PTL DEF Spec

-----------------------------------------------------------------------------
(***************************************************************************)
(* Deadlines.  Timely relates wake_tick, which wraps, to the ticks that    *)
(* are really left: a delayed task's deadline is r ticks ahead of the      *)
(* counter, r between 1 and HalfTicks, where the signed comparison tells   *)
(* past from future, and r is what is left of the delay asked for, or one  *)
(* more for a blocking call whose deadline wrapped to zero.                *)
(***************************************************************************)
(* Deadlines n ticks away, in the future or in the past, on a table.       *)
DueIn(st, wk, lf, now, i, r) ==
  /\ wk[i] = Later(now, r)
  /\ r = lf[i] \/ (st[i] = "BLOCKED" /\ r = lf[i] + 1)

DelayedIn(st, wk, i) == st[i] = "SLEEPING" \/ (st[i] = "BLOCKED" /\ wk[i] # 0)

Timely ==
  \A i \in Task :
    /\ Delayed(i) => /\ i < num_tasks
                     /\ \E r \in 1 .. HalfTicks : DueIn(state, wake_tick, left, ticks, i, r)
    /\ ~Delayed(i) => left[i] <= 0

LEMMA Modulus == 2 * HalfTicks \in Nat \ {0} /\ 2 * HalfTicks > 1 /\ HalfTicks \in Nat
  BY HalfTicksAssumption

(* The signed comparison is right for deadlines within half the range.     *)
LEMMA ReachedIff ==
  ASSUME NEW now \in Int, NEW r \in -HalfTicks + 1 .. HalfTicks
  PROVE  Reached(now, Later(now, r)) <=> r <= 0
<1>1. HalfTicks \in Nat \ {0}
  BY HalfTicksAssumption
<1> QED BY <1>1, WrapReached DEF Reached, Later

(* A deadline seen from a later instant.                                   *)
LEMMA LaterShift ==
  ASSUME NEW now \in Int, NEW r \in Int, NEW j \in Int
  PROVE  Later(now, r) = Later(Later(now, j), r - j)
  BY Modulus, WrapShift DEF Later

(* The deadline of a blocking call that wrapped to zero is a tick late.    *)
LEMMA DeadlineIsLater ==
  ASSUME ticks \in Ticks, NEW d \in 0 .. MaxDelay
  PROVE  /\ Deadline(d) # 0
         /\ \E r \in {d, d + 1} : Deadline(d) = Later(ticks, r)
<1> DEFINE m == 2 * HalfTicks
<1>1. m \in Nat \ {0} /\ m > 1 /\ d \in Int /\ ticks + d \in Int /\ 1 \in 0 .. m - 1
  BY Modulus, MaxDelayAssumption DEF Ticks
<1>2. CASE Later(ticks, d) = 0
  <2>1. (((ticks + d) % m) + 1) % m = ((ticks + d) + 1) % m
    <3> HIDE DEF m
    <3> QED BY <1>1, ModOfSum
  <2>2. (0 + 1) % m = 1
    <3> HIDE DEF m
    <3> QED BY <1>1, ModSmall
  <2>3. (ticks + d) % m = 0
    BY <1>2 DEF Later
  <2>4. ticks + (d + 1) = (ticks + d) + 1
    BY <1>1 DEF Ticks
  <2>5. Later(ticks, d + 1) = 1
    BY <2>1, <2>2, <2>3, <2>4 DEF Later
  <2> QED BY <1>2, <2>5 DEF Deadline
<1>3. CASE Later(ticks, d) # 0
  BY <1>3 DEF Deadline
<1> QED BY <1>2, <1>3

(* schedule() wakes exactly those whose time is up.                        *)
LEMMA ScheduleTimely ==
  ASSUME TypeOK, NEW st, NEW wk, NEW now, NEW lf \in [Task -> Int],
         Schedulable(st), Schedule(st, wk, now), num_tasks' = num_tasks,
         ticks' = now, now \in Int, left' = lf,
         \A i \in Task :
           /\ DelayedIn(st, wk, i) =>
                /\ i < num_tasks
                /\ \E r \in -HalfTicks + 1 .. HalfTicks : DueIn(st, wk, lf, now, i, r)
           /\ ~DelayedIn(st, wk, i) => lf[i] <= 0
  PROVE  Timely'
<1>1. PICK next \in Task : /\ IsNext(WakeState(st, wk, now), next)
                           /\ state' = SwitchState(WakeState(st, wk, now), next)
                           /\ wake_tick' = WakeTick(st, wk, now)
  BY DEF Schedule
<1>2. ASSUME NEW i \in Task
      PROVE  /\ Delayed(i)' => /\ i < num_tasks'
                               /\ \E r \in 1 .. HalfTicks : DueIn(state', wake_tick', lf, now, i, r)
             /\ ~Delayed(i)' => lf[i] <= 0
  <2>0. HalfTicks \in Nat /\ lf[i] \in Int
    BY HalfTicksAssumption
  <2>1. \/ state'[i] = WakeState(st, wk, now)[i] \/ state'[i] \in {"RUNNING", "READY"}
    BY <1>1 DEF SwitchState
  <2>2. WakeState(st, wk, now)[i] = IF Due(st, wk, now, i) THEN "READY" ELSE st[i]
    BY DEF WakeState
  <2>3. wake_tick'[i] = IF Due(st, wk, now, i) THEN 0 ELSE wk[i]
    BY <1>1 DEF WakeTick
  <2>4. CASE Due(st, wk, now, i)
    <3>1. ~Delayed(i)'
      BY <2>1, <2>2, <2>4 DEF Delayed
    <3>2. DelayedIn(st, wk, i) /\ Reached(now, wk[i])
      BY <2>4 DEF Due, DelayedIn
    <3>3. PICK r \in -HalfTicks + 1 .. HalfTicks : DueIn(st, wk, lf, now, i, r)
      BY <3>2
    <3>4. r <= 0
      BY <3>2, <3>3, ReachedIff DEF DueIn
    <3>5. r \in Int /\ (r = lf[i] \/ r = lf[i] + 1)
      BY <2>0, <3>3 DEF DueIn
    <3> QED BY <2>0, <3>1, <3>4, <3>5
  <2>5. CASE ~Due(st, wk, now, i) /\ DelayedIn(st, wk, i)
    <3>1. i < num_tasks /\ ~Reached(now, wk[i])
      BY <2>5 DEF Due, DelayedIn
    <3>2. PICK r \in -HalfTicks + 1 .. HalfTicks : DueIn(st, wk, lf, now, i, r)
      BY <2>5
    <3>3. ~(r <= 0)
      BY <3>1, <3>2, ReachedIff DEF DueIn
    <3>4. r \in 1 .. HalfTicks
      BY <2>0, <3>3
    <3>5. state'[i] = st[i] /\ wake_tick'[i] = wk[i]
      <4>1. ReadyDistance(WakeState(st, wk, now)) \in SUBSET Int
        BY DEF ReadyDistance, TypeOK
      <4>2. WakeState(st, wk, now)[i] = st[i] /\ st[i] \notin {"READY", "RUNNING"}
        BY <2>2, <2>5 DEF DelayedIn
      <4>3. i # next
        <5>1. \/ WakeState(st, wk, now)[next] = "READY"
              \/ next = current_id /\ WakeState(st, wk, now)[current_id] = "RUNNING"
              \/ next = 0
          BY <1>1, NextInRange
        <5>2. next = 0 => st[next] \in {"RUNNING", "READY"}
          BY DEF Schedulable
        <5> QED BY <4>2, <5>1, <5>2
      <4> QED BY <1>1, <2>3, <2>5, <4>2, <4>3 DEF SwitchState
    <3>6. DueIn(state', wake_tick', lf, now, i, r)
      BY <3>2, <3>5 DEF DueIn
    <3>7. Delayed(i)'
      BY <2>5, <3>5 DEF Delayed, DelayedIn
    <3> QED BY <3>1, <3>4, <3>6, <3>7
  <2>6. CASE ~DelayedIn(st, wk, i)
    <3>1. lf[i] <= 0
      BY <2>6
    <3>2. ~Delayed(i)'
      BY <2>1, <2>2, <2>3, <2>6 DEF Delayed, DelayedIn, Due
    <3> QED BY <3>1, <3>2
  <2> QED BY <2>4, <2>5, <2>6
<1> QED BY <1>2 DEF Timely

(* Without a switch nothing falls due, and only what becomes delayed or    *)
(* stops being so matters.                                                 *)
LEMMA NoSwitchTimely ==
  ASSUME TypeOK, Timely, NEW st, NEW wk, NoSwitch(st, wk), ticks' = ticks,
         num_tasks' >= num_tasks, num_tasks' \in Int,
         \A i \in Task : \/ st[i] = state[i] /\ wk[i] = wake_tick[i] /\ left'[i] = left[i]
                         \/ ~DelayedIn(st, wk, i) /\ (left'[i] = 0 \/ (~Delayed(i) /\ left'[i] = left[i]))
  PROVE  Timely'
<1>1. state' = st /\ wake_tick' = wk
  BY DEF NoSwitch
<1>2. ASSUME NEW i \in Task
      PROVE  /\ Delayed(i)' => /\ i < num_tasks'
                               /\ \E r \in 1 .. HalfTicks : DueIn(state', wake_tick', left', ticks', i, r)
             /\ ~Delayed(i)' => left'[i] <= 0
  <2>1. CASE st[i] = state[i] /\ wk[i] = wake_tick[i] /\ left'[i] = left[i]
    <3>1. Delayed(i)' <=> Delayed(i)
      BY <1>1, <2>1 DEF Delayed
    <3>2. i < num_tasks => i < num_tasks'
      BY DEF TypeOK, Task
    <3>3. \A r \in 1 .. HalfTicks : DueIn(state, wake_tick, left, ticks, i, r)
                                      => DueIn(state', wake_tick', left', ticks', i, r)
      BY <1>1, <2>1 DEF DueIn
    <3> QED BY <2>1, <3>1, <3>2, <3>3 DEF Timely
  <2>2. CASE ~DelayedIn(st, wk, i) /\ (left'[i] = 0 \/ (~Delayed(i) /\ left'[i] = left[i]))
    <3>1. ~Delayed(i)'
      BY <1>1, <2>2 DEF Delayed, DelayedIn
    <3> QED BY <2>2, <3>1 DEF Timely
  <2> QED BY <2>1, <2>2
<1> QED BY <1>2 DEF Timely

LEMMA TimelyInit == Init => Timely
<1>1. 0 \in Int /\ 0 <= 0
  OBVIOUS
<1> QED BY <1>1 DEF Init, Timely, Delayed

(* What schedule() needs to know of the deadlines on the present table.    *)
LEMMA TimelyTable ==
  ASSUME Inv, Timely, NEW i \in Task
  PROVE  /\ DelayedIn(state, wake_tick, i) =>
              /\ i < num_tasks
              /\ \E r \in -HalfTicks + 1 .. HalfTicks : DueIn(state, wake_tick, left, ticks, i, r)
         /\ ~DelayedIn(state, wake_tick, i) => left[i] <= 0
<1>1. \A r \in 1 .. HalfTicks : r \in -HalfTicks + 1 .. HalfTicks
  BY HalfTicksAssumption
<1>2. DelayedIn(state, wake_tick, i) <=> Delayed(i)
  BY DEF DelayedIn, Delayed
<1> QED BY <1>1, <1>2 DEF Timely

(* Time passes: what was r ticks ahead is r - j ticks ahead.               *)
LEMMA TimelyCountDown ==
  ASSUME Inv, Timely, NEW j \in 1 .. MaxJiffies, CountDown(j), NEW i \in Task
  PROVE  /\ left'[i] \in Int
         /\ DelayedIn(state, wake_tick, i) =>
              /\ i < num_tasks
              /\ \E r \in -HalfTicks + 1 .. HalfTicks :
                   DueIn(state, wake_tick, left', Later(ticks, j), i, r)
         /\ ~DelayedIn(state, wake_tick, i) => left'[i] <= 0
<1>1. DelayedIn(state, wake_tick, i) <=> Delayed(i)
  BY DEF DelayedIn, Delayed
<1>2. /\ HalfTicks \in Nat /\ MaxJiffies \in Nat /\ MaxJiffies <= HalfTicks
      /\ j \in Int /\ 1 <= j /\ j <= MaxJiffies
      /\ left[i] \in Int /\ ticks \in Int
  BY HalfTicksAssumption, MaxJiffiesAssumption, DeadlinesAssumption DEF Inv, TypeOK, Ticks
<1>3. left'[i] = IF ~Delayed(i) THEN 0 ELSE IF left[i] < -MaxJiffies THEN left[i] ELSE left[i] - j
  BY DEF CountDown
<1>4. CASE ~Delayed(i)
  BY <1>1, <1>3, <1>4
<1>5. CASE Delayed(i)
  <2>1. i < num_tasks
    BY <1>5 DEF Timely
  <2>2. PICK r \in 1 .. HalfTicks : DueIn(state, wake_tick, left, ticks, i, r)
    BY <1>5 DEF Timely
  <2>3. r \in Int /\ 1 <= r /\ r <= HalfTicks /\ (r = left[i] \/ (state[i] = "BLOCKED" /\ r = left[i] + 1))
    BY <1>2, <2>2 DEF DueIn
  <2>4. left'[i] = left[i] - j
    BY <1>2, <1>3, <1>5, <2>3
  <2>5. r - j \in -HalfTicks + 1 .. HalfTicks
    BY <1>2, <2>3
  <2>6. r - j = left'[i] \/ (state[i] = "BLOCKED" /\ r - j = left'[i] + 1)
    BY <1>2, <2>3, <2>4
  <2>7. wake_tick[i] = Later(Later(ticks, j), r - j)
    BY <1>2, <2>2, <2>3, LaterShift DEF DueIn
  <2>8. DueIn(state, wake_tick, left', Later(ticks, j), i, r - j)
    BY <2>6, <2>7 DEF DueIn
  <2> QED BY <1>1, <1>2, <1>5, <2>1, <2>4, <2>5, <2>8
<1> QED BY <1>4, <1>5

(* A task starts to sleep or to block with a deadline.                     *)
LEMMA TimelyDelay ==
  ASSUME Inv, Timely, Running, current_id # 0, NEW d \in 0 .. MaxDelay,
         NEW s \in {"SLEEPING", "BLOCKED"}, NEW w \in Ticks,
         NEW r \in {d, d + 1}, r = d \/ s = "BLOCKED", w = Later(ticks, r),
         s = "BLOCKED" => w # 0,
         left' = [left EXCEPT ![current_id] = d],
         Schedule([state EXCEPT ![current_id] = s], [wake_tick EXCEPT ![current_id] = w], ticks),
         num_tasks' = num_tasks, ticks' = ticks
  PROVE  Timely'
<1> DEFINE st == [state EXCEPT ![current_id] = s]
           wk == [wake_tick EXCEPT ![current_id] = w]
<1>1. current_id \in Task /\ ticks \in Int
  BY InvTable, HalfTicksAssumption DEF Inv, TypeOK, Ticks
<1>2. Schedulable(st)
  BY <1>1, SetSchedulable DEF State
<1>3. HalfTicks \in Nat /\ MaxDelay \in Nat /\ d \in Int /\ d <= MaxDelay /\ 0 <= d /\ MaxDelay < HalfTicks
  BY HalfTicksAssumption, MaxDelayAssumption, DeadlinesAssumption
<1>4. left' \in [Task -> Int]
  BY <1>3 DEF Inv, TypeOK
<1>5. ASSUME NEW i \in Task
      PROVE  /\ DelayedIn(st, wk, i) =>
                  /\ i < num_tasks
                  /\ \E q \in -HalfTicks + 1 .. HalfTicks : DueIn(st, wk, left', ticks, i, q)
             /\ ~DelayedIn(st, wk, i) => left'[i] <= 0
  <2>1. CASE i = current_id
    <3>1. st[i] = s /\ wk[i] = w /\ left'[i] = d
      BY <1>1, <2>1 DEF Inv, TypeOK
    <3>2. r \in -HalfTicks + 1 .. HalfTicks
      BY <1>3
    <3>3. DueIn(st, wk, left', ticks, i, r)
      <4>1. r = d \/ (s = "BLOCKED" /\ r = d + 1)
        OBVIOUS
      <4> QED BY <3>1, <4>1 DEF DueIn
    <3>4. DelayedIn(st, wk, i)
      BY <3>1 DEF DelayedIn
    <3>5. i < num_tasks
      BY <2>1 DEF Inv, TypeOK
    <3> QED BY <3>2, <3>3, <3>4, <3>5
  <2>2. CASE i # current_id
    <3>1. st[i] = state[i] /\ wk[i] = wake_tick[i] /\ left'[i] = left[i]
      BY <1>1, <2>2 DEF Inv, TypeOK
    <3>2. DelayedIn(st, wk, i) <=> DelayedIn(state, wake_tick, i)
      BY <3>1 DEF DelayedIn
    <3>3. \A q : DueIn(state, wake_tick, left, ticks, i, q) => DueIn(st, wk, left', ticks, i, q)
      BY <3>1 DEF DueIn
    <3> QED BY <3>1, <3>2, <3>3, TimelyTable
  <2> QED BY <2>1, <2>2
<1>6. Schedule(st, wk, ticks)
  OBVIOUS
<1> HIDE DEF st, wk
<1> QED BY <1>1, <1>2, <1>4, <1>5, <1>6, ScheduleTimely DEF Inv

LEMMA TimelyNext ==
  ASSUME Inv, Timely, [Next]_vars
  PROVE  Timely'
<1>0. Schedulable(state) /\ current_id \in Task /\ 0 \in Task /\ TypeOK /\ ticks \in Int
  BY InvTable, HalfTicksAssumption DEF Inv, TypeOK, Ticks
<1>1. ASSUME NEW st, Schedulable(st), NEW wk, Schedule(st, wk, ticks), num_tasks' = num_tasks,
             ticks' = ticks, left' \in [Task -> Int],
             \A i \in Task : \/ st[i] = state[i] /\ wk[i] = wake_tick[i] /\ left'[i] = left[i]
                             \/ ~DelayedIn(st, wk, i) /\ left'[i] <= 0
      PROVE  Timely'
  <2>1. ASSUME NEW i \in Task
        PROVE  /\ DelayedIn(st, wk, i) =>
                    /\ i < num_tasks
                    /\ \E r \in -HalfTicks + 1 .. HalfTicks : DueIn(st, wk, left', ticks, i, r)
               /\ ~DelayedIn(st, wk, i) => left'[i] <= 0
    <3>1. CASE st[i] = state[i] /\ wk[i] = wake_tick[i] /\ left'[i] = left[i]
      <4>1. DelayedIn(st, wk, i) <=> DelayedIn(state, wake_tick, i)
        BY <3>1 DEF DelayedIn
      <4>2. \A r : DueIn(state, wake_tick, left, ticks, i, r) => DueIn(st, wk, left', ticks, i, r)
        BY <3>1 DEF DueIn
      <4> QED BY <3>1, <4>1, <4>2, TimelyTable
    <3>2. CASE ~DelayedIn(st, wk, i) /\ left'[i] <= 0
      BY <3>2
    <3> QED BY <1>1, <3>1, <3>2
  <2> QED BY <1>0, <1>1, <2>1, ScheduleTimely
<1>2. CASE TaskYield
  BY <1>0, <1>1, <1>2 DEF TaskYield, TypeOK
<1>3. ASSUME NEW j \in 1 .. MaxJiffies, TimerIrq(j)
      PROVE  Timely'
  <2>1. /\ CountDown(j) /\ num_tasks' = num_tasks /\ ticks' = Later(ticks, j)
        /\ Later(ticks, j) \in Int
    BY <1>0, <1>3, LaterType, MaxJiffiesAssumption, HalfTicksAssumption DEF TimerIrq, Ticks
  <2>2. left' \in [Task -> Int]
    BY <2>1, TimelyCountDown DEF CountDown
  <2>3. CASE Schedule(state, wake_tick, Later(ticks, j))
    BY <1>0, <2>1, <2>2, <2>3, TimelyCountDown, ScheduleTimely
  <2>4. CASE NoSwitch(state, wake_tick) /\ \A i \in Task : ~Due(state, wake_tick, Later(ticks, j), i)
    <3>1. state' = state /\ wake_tick' = wake_tick
      BY <2>4 DEF NoSwitch
    <3>2. ASSUME NEW i \in Task, Delayed(i)
          PROVE  /\ i < num_tasks
                 /\ \E r \in 1 .. HalfTicks : DueIn(state, wake_tick, left', Later(ticks, j), i, r)
      <4>1. DelayedIn(state, wake_tick, i) /\ (i < num_tasks => ~Reached(Later(ticks, j), wake_tick[i]))
        BY <2>4, <3>2 DEF Delayed, DelayedIn, Due
      <4>2. i < num_tasks
        BY <2>1, <4>1, TimelyCountDown
      <4>3. PICK r \in -HalfTicks + 1 .. HalfTicks : DueIn(state, wake_tick, left', Later(ticks, j), i, r)
        BY <2>1, <4>1, TimelyCountDown
      <4>4. ~(r <= 0)
        BY <2>1, <4>1, <4>2, <4>3, ReachedIff DEF DueIn
      <4>5. r \in 1 .. HalfTicks
        BY <4>4, HalfTicksAssumption
      <4> QED BY <4>2, <4>3, <4>5
    <3>3. ASSUME NEW i \in Task, ~Delayed(i)
          PROVE  left'[i] <= 0
      BY <2>1, <3>3, TimelyCountDown DEF Delayed, DelayedIn
    <3>4. \A i \in Task : Delayed(i)' <=> Delayed(i)
      BY <3>1 DEF Delayed
    <3> QED BY <2>1, <3>1, <3>2, <3>3, <3>4 DEF Timely
  <2> QED BY <1>3, <2>3, <2>4 DEF TimerIrq
<1>4. ASSUME NEW d \in 0 .. MaxDelay, SleepUntil(d)
      PROVE  Timely'
  <2>1. Later(ticks, d) \in Ticks /\ d \in Int
    BY <1>0, LaterType, MaxDelayAssumption
  <2> QED BY <1>4, <2>1, TimelyDelay DEF SleepUntil
<1>5. ASSUME NEW d \in 0 .. MaxDelay, BlockCurrentUntil(d)
      PROVE  Timely'
  <2>1. d \in Nat
    BY MaxDelayAssumption
  <2>2. Deadline(d) \in Ticks
    BY <1>0, <2>1, DeadlineType DEF TypeOK
  <2>3. Deadline(d) # 0 /\ \E r \in {d, d + 1} : Deadline(d) = Later(ticks, r)
    BY <1>0, DeadlineIsLater DEF TypeOK
  <2>4. PICK r \in {d, d + 1} : Deadline(d) = Later(ticks, r)
    BY <2>3
  <2> QED BY <1>5, <2>2, <2>3, <2>4, TimelyDelay DEF BlockCurrentUntil
<1>6. CASE BlockCurrent
  <2> DEFINE st == [state EXCEPT ![current_id] = "BLOCKED"]
             wk == [wake_tick EXCEPT ![current_id] = 0]
  <2>1. Schedulable(st)
    BY <1>0, <1>6, SetSchedulable DEF BlockCurrent, State
  <2>2. left[current_id] <= 0
    <3>1. ~Delayed(current_id)
      BY <1>6 DEF BlockCurrent, Running, Delayed
    <3> QED BY <1>0, <3>1 DEF Timely
  <2>3. \A i \in Task : \/ st[i] = state[i] /\ wk[i] = wake_tick[i] /\ left'[i] = left[i]
                        \/ ~DelayedIn(st, wk, i) /\ left'[i] <= 0
    BY <1>0, <1>6, <2>2 DEF BlockCurrent, DelayedIn, TypeOK
  <2>4. Schedule(st, wk, ticks) /\ num_tasks' = num_tasks /\ ticks' = ticks /\ left' \in [Task -> Int]
    BY <1>0, <1>6 DEF BlockCurrent, TypeOK
  <2> HIDE DEF st, wk
  <2> QED BY <1>1, <2>1, <2>3, <2>4
<1>7. ASSUME NEW i \in Task, NEW s, s \in State \ {"SLEEPING"},
             NoSwitch([state EXCEPT ![i] = s], [wake_tick EXCEPT ![i] = 0]), ticks' = ticks,
             num_tasks' >= num_tasks, num_tasks' \in Int,
             left' = [left EXCEPT ![i] = 0] \/ (left' = left /\ ~Delayed(i))
      PROVE  Timely'
  <2> DEFINE st == [state EXCEPT ![i] = s]
             wk == [wake_tick EXCEPT ![i] = 0]
  <2>1. \A k \in Task : \/ st[k] = state[k] /\ wk[k] = wake_tick[k] /\ left'[k] = left[k]
                        \/ ~DelayedIn(st, wk, k) /\ (left'[k] = 0 \/ (~Delayed(k) /\ left'[k] = left[k]))
    BY <1>0, <1>7 DEF DelayedIn, TypeOK
  <2>2. NoSwitch(st, wk)
    BY <1>7
  <2> HIDE DEF st, wk
  <2> QED BY <1>0, <1>7, <2>1, <2>2, NoSwitchTimely
<1>8. CASE PrepareBlock
  <2>1. ~Delayed(current_id) /\ num_tasks \in Int
    BY <1>8 DEF PrepareBlock, Running, Delayed, Inv, TypeOK
  <2> QED BY <1>0, <1>7, <1>8, <2>1 DEF PrepareBlock, State
<1>9. ASSUME NEW i \in Task, TaskWake(i) \/ TaskCreate(i) \/ TaskMakeReady(i)
      PROVE  Timely'
  <2>1. num_tasks \in Int /\ num_tasks' \in Int /\ num_tasks' >= num_tasks /\ ticks' = ticks
    BY <1>0, <1>9 DEF TaskWake, TaskCreate, TaskMakeReady, TypeOK
  <2>2. CASE TaskWake(i)
    BY <1>7, <2>1, <2>2 DEF TaskWake, State
  <2>3. CASE TaskCreate(i)
    <3>1. ~Delayed(i)
      BY <1>0, <2>3 DEF TaskCreate, Delayed, Timely, TypeOK
    <3> QED BY <1>7, <2>1, <2>3, <3>1 DEF TaskCreate, State
  <2>4. CASE TaskMakeReady(i)
    <3>1. ~Delayed(i)
      BY <2>4 DEF TaskMakeReady, Delayed
    <3> QED BY <1>7, <2>1, <2>4, <3>1 DEF TaskMakeReady, State
  <2> QED BY <1>9, <2>2, <2>3, <2>4
<1>10. ASSUME NEW S \in SUBSET Task, Kill(S)
       PROVE  Timely'
  <2> DEFINE st == [i \in Task |-> IF i \in S THEN "DEAD" ELSE state[i]]
             wk == [i \in Task |-> IF i \in S THEN 0 ELSE wake_tick[i]]
  <2>1. /\ num_tasks' = num_tasks /\ ticks' = ticks /\ left' \in [Task -> Int]
        /\ num_tasks \in Int /\ num_tasks >= num_tasks
    BY <1>0, <1>10 DEF Kill, TypeOK
  <2>2. \A i \in Task : \/ st[i] = state[i] /\ wk[i] = wake_tick[i] /\ left'[i] = left[i]
                        \/ ~DelayedIn(st, wk, i) /\ left'[i] = 0
    BY <1>10 DEF Kill, DelayedIn
  <2>3. Schedulable(st)
    BY <1>0, <1>10 DEF Kill, Schedulable, State
  <2>4. Schedule(st, wk, ticks) \/ NoSwitch(st, wk)
    BY <1>10 DEF Kill
  <2> HIDE DEF st, wk
  <2>5. \A i \in Task : left'[i] = 0 => left'[i] <= 0
    OBVIOUS
  <2>6. CASE Schedule(st, wk, ticks)
    BY <1>1, <2>1, <2>2, <2>3, <2>5, <2>6
  <2>7. CASE NoSwitch(st, wk)
    BY <1>0, <2>1, <2>2, <2>7, NoSwitchTimely
  <2> QED BY <2>4, <2>6, <2>7
<1>11. CASE UNCHANGED vars
  BY <1>11 DEF vars, Timely, Delayed, DueIn, Later
<1> QED BY <1>2, <1>3, <1>4, <1>5, <1>6, <1>8, <1>9, <1>10, <1>11 DEF Next

(* For any number of tasks and any width of the tick counter, as long as   *)
(* delays stay within half of its range: nobody is left asleep past his    *)
(* delay once the timer interrupt has been served, and the clock wakes     *)
(* nobody early, also across the wrap.                                     *)
THEOREM DeadlinesKept == Spec => [](OnTime /\ NoEarlyWake)
<1>1. Init => Inv /\ Timely
  BY InvInit, TimelyInit
<1>2. Inv /\ Timely /\ [Next]_vars => Inv' /\ Timely'
  BY InvNext, TimelyNext
<1>3. Inv /\ Timely => OnTime /\ NoEarlyWake
  <2> SUFFICES ASSUME Inv, Timely PROVE OnTime /\ NoEarlyWake
    OBVIOUS
  <2>1. ASSUME NEW i \in Task, Delayed(i)
        PROVE  left[i] >= 0 /\ (state[i] = "SLEEPING" => left[i] > 0)
    <3>1. PICK r \in 1 .. HalfTicks : DueIn(state, wake_tick, left, ticks, i, r)
      BY <2>1 DEF Timely
    <3>2. left[i] \in Int /\ r \in Int /\ r >= 1
      BY HalfTicksAssumption DEF Inv, TypeOK
    <3> QED BY <3>1, <3>2 DEF DueIn
  <2>2. OnTime
    BY <2>1 DEF OnTime, Delayed
  <2>3. ASSUME NEW i \in Task, left[i] > 0
        PROVE  Delayed(i)
    BY <2>3 DEF Timely, Inv, TypeOK
  <2> QED BY <2>2, <2>3 DEF NoEarlyWake
<1> QED BY <1>1, <1>2, <1>3, PTL DEF Spec

-----------------------------------------------------------------------------
(***************************************************************************)
(* Round robin.  The slots from the one after current_id up to i, round    *)
(* the table, are still ahead of i; whoever was dispatched while i waited  *)
(* is behind, and schedule() only hands the processor to slots ahead.      *)
(***************************************************************************)
Ahead(k, i) == IF current_id < i THEN current_id < k /\ k <= i
               ELSE current_id < k \/ k <= i

Behind ==
  \A i \in Task : i < num_tasks /\ state[i] = "READY" =>
    \A k \in passed[i] : k < num_tasks /\ ~Ahead(k, i)

(* One turn round a table of n slots.                                      *)
LEMMA Around ==
  ASSUME NEW n \in Nat \ {0}, NEW c \in 0 .. n - 1, NEW d \in 1 .. n
  PROVE  (c + d) % n = IF c + d < n THEN c + d ELSE c + d - n
<1>1. CASE c + d < n
  <2>1. c + d \in 0 .. n - 1
    BY <1>1
  <2> QED BY <1>1, <2>1, ModSmall
<1>2. CASE ~(c + d < n)
  <2>1. c + d - n \in 0 .. n - 1 /\ c + d \in Int /\ c + d = n * 1 + (c + d - n)
    BY <1>2
  <2> QED BY <1>2, <2>1, ModUnique
<1> QED BY <1>1, <1>2

(* schedule() does not go past a slot that is READY.                       *)
LEMMA NextIsAhead ==
  ASSUME TypeOK, NEW st, NEW i \in 0 .. num_tasks - 1, st[i] = "READY",
         NEW next, IsNext(st, next), next # i
  PROVE  /\ next \in 0 .. num_tasks - 1 /\ next # current_id /\ Ahead(next, i)
         /\ \A k \in 0 .. num_tasks - 1 :
              (IF next < i THEN next < k /\ k <= i ELSE next < k \/ k <= i) => Ahead(k, i)
<1>1. /\ num_tasks \in Nat \ {0} /\ current_id \in 0 .. num_tasks - 1
      /\ num_tasks \in Int /\ current_id \in Int /\ i \in Int
  BY MaxTasksAssumption DEF TypeOK
<1>2. PICK e \in 1 .. num_tasks : e = IF current_id < i THEN i - current_id ELSE i - current_id + num_tasks
  <2> DEFINE e == IF current_id < i THEN i - current_id ELSE i - current_id + num_tasks
  <2>1. e \in 1 .. num_tasks
    BY <1>1
  <2> QED BY <2>1
<1>3. (current_id + e) % num_tasks = i
  <2>1. (current_id + e) % num_tasks = IF current_id + e < num_tasks THEN current_id + e ELSE current_id + e - num_tasks
    BY <1>1, Around
  <2>2. (IF current_id + e < num_tasks THEN current_id + e ELSE current_id + e - num_tasks) = i
    BY <1>1, <1>2
  <2> QED BY <2>1, <2>2
<1>4. e \in ReadyDistance(st)
  BY <1>3 DEF ReadyDistance
<1>5. PICK d \in ReadyDistance(st) : d <= e /\ next = (current_id + d) % num_tasks
  BY <1>4 DEF IsNext
<1>6. d \in 1 .. num_tasks /\ d \in Int /\ e \in Int /\ d <= e /\ d # e
  BY <1>1, <1>2, <1>3, <1>5 DEF ReadyDistance
<1>7. next = IF current_id + d < num_tasks THEN current_id + d ELSE current_id + d - num_tasks
  BY <1>1, <1>5, <1>6, Around
<1>8. d < e /\ 1 <= d /\ e <= num_tasks /\ next \in Int
  BY <1>1, <1>6, <1>7
<1>9. CASE current_id < i
  <2>1. next = current_id + d /\ current_id < next /\ next < i
    BY <1>1, <1>2, <1>6, <1>7, <1>8, <1>9
  <2> QED BY <1>1, <1>9, <2>1 DEF Ahead
<1>10. CASE ~(current_id < i) /\ current_id + d < num_tasks
  <2>1. next = current_id + d /\ current_id < next /\ ~(next < i)
    BY <1>1, <1>6, <1>7, <1>8, <1>10
  <2> QED BY <1>1, <1>10, <2>1 DEF Ahead
<1>11. CASE ~(current_id < i) /\ ~(current_id + d < num_tasks)
  <2>1. next = current_id + d - num_tasks /\ 0 <= next /\ next < i
    BY <1>1, <1>2, <1>6, <1>7, <1>8, <1>11
  <2> QED BY <1>1, <1>11, <2>1 DEF Ahead
<1> QED BY <1>9, <1>10, <1>11

LEMMA BehindInit == Init => Behind
  BY DEF Init, Behind

(* What a call of schedule() does to a slot that stays READY.              *)
LEMMA ScheduleBehind ==
  ASSUME Inv, Behind, NEW st, NEW wk, NEW now, Retired(st),
         Schedule(st, wk, now), num_tasks' = num_tasks
  PROVE  /\ Behind'
         /\ \A i \in Task : i < num_tasks /\ state[i] = "READY" /\ state'[i] = "READY"
                            => current_id' \notin passed[i]
<1>1. PICK next \in Task : /\ IsNext(WakeState(st, wk, now), next)
                           /\ state' = SwitchState(WakeState(st, wk, now), next)
                           /\ current_id' = next
                           /\ RecordPassing(next)
  BY DEF Schedule
<1>2. /\ num_tasks \in Int /\ current_id \in Task
      /\ \A i \in Task : i < num_tasks => i \in 0 .. num_tasks - 1
  BY CurrentIsTask DEF Inv, TypeOK, Task
<1>3. ASSUME NEW i \in Task, i < num_tasks, state[i] = "READY", state'[i] = "READY"
      PROVE  /\ current_id' \notin passed[i]
             /\ \A k \in passed'[i] : k < num_tasks' /\ ~Ahead(k, i)'
  <2>1. next # i
    BY <1>1, <1>3 DEF SwitchState
  <2>2. WakeState(st, wk, now)[i] = "READY"
    <3>1. st[i] \in {"READY", "DEAD"}
      BY <1>3 DEF Retired
    <3>2. \/ WakeState(st, wk, now)[i] = "READY"
          \/ WakeState(st, wk, now)[i] = st[i]
      BY DEF WakeState
    <3>3. \/ WakeState(st, wk, now)[i] = "READY"
          \/ WakeState(st, wk, now)[i] = "RUNNING"
      BY <1>1, <1>3, <2>1 DEF SwitchState
    <3> QED BY <3>1, <3>2, <3>3
  <2>3. /\ next \in 0 .. num_tasks - 1 /\ next # current_id /\ Ahead(next, i)
        /\ \A k \in 0 .. num_tasks - 1 :
             (IF next < i THEN next < k /\ k <= i ELSE next < k \/ k <= i) => Ahead(k, i)
    BY <1>1, <1>2, <1>3, <2>1, <2>2, NextIsAhead DEF Inv
  <2>4. passed'[i] = passed[i] \cup {next}
    BY <1>1, <1>3, <2>3 DEF RecordPassing
  <2>5. \A k \in passed[i] : k < num_tasks /\ ~Ahead(k, i) /\ k \in 0 .. num_tasks - 1
    BY <1>2, <1>3 DEF Behind, Inv, TypeOK
  <2>6. ASSUME NEW k \in passed'[i]
        PROVE  k < num_tasks' /\ ~Ahead(k, i)'
    <3>1. CASE k \in passed[i]
      <4>1. ~(IF next < i THEN next < k /\ k <= i ELSE next < k \/ k <= i)
        BY <2>3, <2>5, <3>1
      <4> QED BY <1>1, <2>5, <3>1, <4>1 DEF Ahead
    <3>2. CASE k = next
      <4>1. next \in Int /\ i \in Int /\ next < num_tasks
        BY <1>2, <1>3, <2>3
      <4>2. ~(IF next < i THEN next < k /\ k <= i ELSE next < k \/ k <= i)
        BY <2>1, <3>2, <4>1
      <4> QED BY <1>1, <3>2, <4>1, <4>2 DEF Ahead
    <3> QED BY <2>4, <2>6, <3>1, <3>2
  <2> QED BY <1>1, <2>3, <2>5, <2>6
<1>4. ASSUME NEW i \in Task, i < num_tasks, state[i] # "READY", state'[i] = "READY"
      PROVE  passed'[i] = {}
  BY <1>1, <1>4 DEF RecordPassing
<1>5. Behind'
  BY <1>3, <1>4 DEF Behind
<1> QED BY <1>3, <1>5

(* Without a switch the slots ahead stay the same, or a fresh one joins.   *)
LEMMA NoSwitchBehind ==
  ASSUME Inv, Behind, NEW st, NEW wk, NoSwitch(st, wk),
         num_tasks' \in Int, num_tasks' >= num_tasks,
         \A i \in Task : i >= num_tasks /\ i < num_tasks' => st[i] # "READY"
  PROVE  Behind' /\ current_id' = current_id
<1>1. state' = st /\ current_id' = current_id /\ RecordPassing(current_id)
  BY DEF NoSwitch
<1>2. ASSUME NEW i \in Task, i < num_tasks', state'[i] = "READY", NEW k \in passed'[i]
      PROVE  k < num_tasks' /\ ~Ahead(k, i)'
  <2>1. state[i] = "READY" /\ passed'[i] = passed[i]
    BY <1>1, <1>2 DEF RecordPassing
  <2>2. num_tasks \in Int /\ i \in Int /\ k \in Int
    BY <2>1, <1>2 DEF Inv, TypeOK, Task
  <2>3. i < num_tasks
    BY <1>1, <1>2, <2>2
  <2>4. k < num_tasks /\ ~Ahead(k, i)
    BY <1>2, <2>1, <2>3 DEF Behind
  <2> QED BY <1>1, <2>2, <2>4 DEF Ahead
<1>3. Behind'
  BY <1>2 DEF Behind
<1> QED BY <1>1, <1>3

(* The step of round robin: whoever gets the processor has not had it      *)
(* since any of the others became READY.                                   *)
InTurn ==
  current_id' # current_id =>
    \A i \in Task : i < num_tasks /\ state[i] = "READY" /\ state'[i] = "READY"
                    => current_id' \notin passed[i]

LEMMA BehindNext ==
  ASSUME Inv, Behind, [Next]_vars
  PROVE  Behind' /\ InTurn
<1>0. Schedulable(state) /\ current_id \in Task /\ 0 \in Task /\ num_tasks \in Int
  BY InvTable DEF Inv, TypeOK
<1>1. Retired(state)
  BY DEF Retired
<1>12. ASSUME NEW st, NEW wk, NoSwitch(st, wk), num_tasks' = num_tasks
       PROVE  Behind' /\ InTurn
  <2>1. num_tasks' \in Int /\ num_tasks' >= num_tasks
    BY <1>0, <1>12
  <2>2. \A i \in Task : ~(i >= num_tasks /\ i < num_tasks')
    BY <1>0, <1>12 DEF Task
  <2> QED BY <1>12, <2>1, <2>2, NoSwitchBehind DEF InTurn
<1>2. CASE TaskYield
  BY <1>1, <1>2, ScheduleBehind DEF TaskYield, InTurn
<1>3. ASSUME NEW j \in 1 .. MaxJiffies, TimerIrq(j)
      PROVE  Behind' /\ InTurn
  <2>1. num_tasks' = num_tasks
    BY <1>3 DEF TimerIrq
  <2>2. CASE NoSwitch(state, wake_tick)
    BY <2>1, <2>2, <1>12
  <2>3. CASE Schedule(state, wake_tick, Later(ticks, j))
    BY <1>1, <2>1, <2>3, ScheduleBehind DEF InTurn
  <2> QED BY <1>3, <2>2, <2>3 DEF TimerIrq
<1>4. ASSUME NEW s \in {"SLEEPING", "BLOCKED"}, NEW wk, Running, current_id # 0,
             Schedule([state EXCEPT ![current_id] = s], wk, ticks), num_tasks' = num_tasks
      PROVE  Behind' /\ InTurn
  <2> DEFINE st == [state EXCEPT ![current_id] = s]
  <2>1. Retired(st)
    BY <1>0, <1>4 DEF Retired, Running, Inv, TypeOK
  <2>2. Schedule(st, wk, ticks)
    BY <1>4
  <2> HIDE DEF st
  <2> QED BY <1>4, <2>1, <2>2, ScheduleBehind DEF InTurn
<1>5. ASSUME NEW d \in 0 .. MaxDelay, SleepUntil(d) \/ BlockCurrentUntil(d)
      PROVE  Behind' /\ InTurn
  BY <1>4, <1>5 DEF SleepUntil, BlockCurrentUntil
<1>6. CASE BlockCurrent
  BY <1>4, <1>6 DEF BlockCurrent
<1>7. CASE PrepareBlock
  BY <1>7, <1>12 DEF PrepareBlock
<1>8. ASSUME NEW i \in Task, TaskWake(i) \/ TaskMakeReady(i)
      PROVE  Behind' /\ InTurn
  BY <1>8, <1>12 DEF TaskWake, TaskMakeReady
<1>9. ASSUME NEW i \in Task, TaskCreate(i)
      PROVE  Behind' /\ InTurn
  <2> DEFINE st == [state EXCEPT ![i] = "CREATING"]
             wk == [wake_tick EXCEPT ![i] = 0]
  <2>1. NoSwitch(st, wk) /\ num_tasks' \in Int /\ num_tasks' >= num_tasks
    BY <1>0, <1>9 DEF TaskCreate
  <2>2. \A k \in Task : k >= num_tasks /\ k < num_tasks' => st[k] # "READY"
    BY <1>0, <1>9 DEF TaskCreate, Inv, TypeOK, Task
  <2> HIDE DEF st, wk
  <2> QED BY <2>1, <2>2, NoSwitchBehind DEF InTurn
<1>10. ASSUME NEW S \in SUBSET Task, Kill(S)
       PROVE  Behind' /\ InTurn
  <2> DEFINE st == [i \in Task |-> IF i \in S THEN "DEAD" ELSE state[i]]
             wk == [i \in Task |-> IF i \in S THEN 0 ELSE wake_tick[i]]
  <2>1. Retired(st)
    BY DEF Retired
  <2>2. /\ num_tasks' = num_tasks
        /\ Schedule(st, wk, ticks) \/ NoSwitch(st, wk)
    BY <1>10 DEF Kill
  <2> HIDE DEF st, wk
  <2>3. CASE Schedule(st, wk, ticks)
    BY <2>1, <2>2, <2>3, ScheduleBehind DEF InTurn
  <2>4. CASE NoSwitch(st, wk)
    BY <2>2, <2>4, <1>12
  <2> QED BY <2>2, <2>3, <2>4
<1>11. CASE UNCHANGED vars
  BY <1>11 DEF vars, Behind, Ahead, InTurn
<1> QED BY <1>2, <1>3, <1>5, <1>6, <1>7, <1>8, <1>9, <1>10, <1>11 DEF Next

(* Round robin for any number of tasks: while a task stays READY nobody    *)
(* gets the processor twice, whatever is created, killed, woken or put to  *)
(* sleep in between, so it waits for at most MaxTasks - 1 dispatches.      *)
THEOREM RoundRobin == Spec => NoOvertaking
<1>1. Init => Inv /\ Behind
  BY InvInit, BehindInit
<1>2. Inv /\ Behind /\ [Next]_vars => Inv' /\ Behind' /\ InTurn
  BY InvNext, BehindNext
<1>3. InTurn => (current_id' # current_id =>
                   \A i \in Task : i < num_tasks /\ state[i] = "READY" /\ state'[i] = "READY"
                                   => current_id' \notin passed[i])
  BY DEF InTurn
<1> QED BY <1>1, <1>2, <1>3, PTL DEF Spec, NoOvertaking
=============================================================================
