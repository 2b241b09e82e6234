---------------------------- MODULE FutexProofs ----------------------------
(***************************************************************************)
(* Proofs about Futex for every set of tasks, processes and addresses,     *)
(* every table size and every width of the tick counter.                   *)
(***************************************************************************)
EXTENDS Futex, Remainders, FiniteSetTheorems, FunctionTheorems, TLAPS

LEMMA ModRange ==
  ASSUME NEW n \in Int, NEW m \in Nat, m > 0
  PROVE  n % m \in 0 .. m - 1
BY SMT

LEMMA TicksFacts ==
  /\ 0 \in Ticks /\ 1 \in Ticks
  /\ \A n \in Int : n % (2 * HalfTicks) \in Ticks
<1> DEFINE H == 2 * HalfTicks
<1>1. H \in Nat /\ H > 1 /\ Ticks = 0 .. H - 1
  BY TicksAssumption DEF Ticks
<1> HIDE DEF H
<1>2. 0 \in Ticks /\ 1 \in Ticks
  BY <1>1
<1>3. \A n \in Int : n % H \in Ticks
  BY <1>1, ModRange
<1> QED BY <1>2, <1>3 DEF H

LEMMA DeadlineType ==
  ASSUME ticks \in Ticks, NEW d \in Nat
  PROVE  Deadline(d) \in Ticks
<1>1. ticks + d \in Int
  BY TicksAssumption DEF Ticks
<1> QED BY <1>1, TicksFacts DEF Deadline

(* Only a task in the wait loop is blocked.                                *)
BlockedWaits == \A t \in Task : state[t] = "BLOCKED" => pc[t] = "wait"

(* A task in a call has its arguments.                                     *)
InCall == \A t \in Task : pc[t] # "user" => args[t].addr \in Addr

Inv == TypeOK /\ SlotsOwned /\ NoLostWake /\ BlockedWaits /\ InCall

LEMMA InvInit == Init => Inv
<1> SUFFICES ASSUME Init PROVE Inv
  OBVIOUS
<1>1. 0 \in Slot
  BY MaxWaitersAssumption DEF Slot
<1>2. TypeOK
  BY <1>1, TicksFacts DEF Init, TypeOK, Waiter, WaitArgs
<1>3. SlotsOwned /\ NoLostWake /\ BlockedWaits /\ InCall
  BY DEF Init, SlotsOwned, NoLostWake, BlockedWaits, InCall, Free
<1> QED BY <1>2, <1>3 DEF Inv

(* What a used slot and a waiting task have to do with each other.         *)
LEMMA UsedSlot ==
  ASSUME TypeOK, NEW i \in Slot, waiters[i].used
  PROVE  waiters[i].task \in Task /\ waiters[i].addr \in Addr /\ waiters[i].woken \in BOOLEAN
<1>1. waiters[i] \in Waiter /\ waiters[i] # Free
  BY DEF TypeOK, Free
<1> QED BY <1>1 DEF Waiter

(* A step that leaves the table alone, and keeps whoever waits where he is *)
(* and at what he waits for, without blocking anyone.                      *)
LEMMA TableUnchanged ==
  ASSUME Inv, TypeOK', InCall', waiters' = waiters,
         \A t \in Task : /\ pc[t] = "wait" <=> pc'[t] = "wait"
                         /\ pc[t] = "wait" => slot'[t] = slot[t] /\ args'[t].addr = args[t].addr
                         /\ state'[t] = state[t] \/ (state[t] = "BLOCKED" /\ state'[t] = "READY")
                            \/ (state[t] = "DEAD" /\ state'[t] = "READY")
  PROVE  Inv'
<1>0. \A i \in Slot : waiters[i].used => waiters[i].task \in Task
  BY UsedSlot DEF Inv
<1>1. SlotsOwned'
  <2>1. ASSUME NEW i \in Slot, waiters'[i].used
        PROVE  LET t == waiters'[i].task IN pc'[t] = "wait" /\ slot'[t] = i /\ state'[t] # "DEAD"
    BY <1>0, <2>1 DEF Inv, SlotsOwned
  <2>2. ASSUME NEW t \in Task, pc'[t] = "wait"
        PROVE  /\ waiters'[slot'[t]].used /\ waiters'[slot'[t]].task = t
               /\ waiters'[slot'[t]].addr = args'[t].addr
    BY <2>2 DEF Inv, SlotsOwned
  <2> QED BY <2>1, <2>2 DEF SlotsOwned
<1>2. NoLostWake'
  BY <1>0 DEF Inv, NoLostWake
<1>3. BlockedWaits'
  BY DEF Inv, BlockedWaits
<1> QED BY <1>1, <1>2, <1>3 DEF Inv

(* Whoever owns a slot owns no other, and nobody else owns it.             *)
LEMMA OneOwner ==
  ASSUME Inv, NEW t \in Task, pc[t] = "wait", NEW i \in Slot,
         waiters[i].used, i # slot[t]
  PROVE  waiters[i].task # t
  BY DEF Inv, SlotsOwned

(* A call ends: the waiter's slot, if it had one, is free again.           *)
LEMMA LeaveKeepsInv ==
  ASSUME Inv, NEW t \in Task, NEW code \in Int, Leave(t, code),
         state[t] = "READY",
         \/ pc[t] # "wait" /\ waiters' = waiters
         \/ pc[t] = "wait" /\ waiters' = [waiters EXCEPT ![slot[t]] = Free],
         mem' = mem, ticks' = ticks
  PROVE  Inv'
<1> USE DEF Inv
<1>1. 0 \in Slot
  BY MaxWaitersAssumption DEF Slot
<1>2. TypeOK'
  <2>1. waiters' \in [Slot -> Waiter]
    BY DEF TypeOK, Waiter
  <2>2. args' \in [Task -> WaitArgs]
    BY DEF TypeOK, Leave, WaitArgs
  <2>3. /\ pc' \in [Task -> {"user", "call", "wait"}]
        /\ slot' \in [Task -> Slot] /\ left' \in [Task -> Int]
    BY <1>1 DEF TypeOK, Leave
  <2> QED BY <2>1, <2>2, <2>3 DEF TypeOK, Leave
<1>3. SlotsOwned'
  <2>1. CASE pc[t] # "wait" /\ waiters' = waiters
    BY <2>1 DEF SlotsOwned, TypeOK, Leave, Waiter
  <2>2. CASE pc[t] = "wait" /\ waiters' = [waiters EXCEPT ![slot[t]] = Free]
    <3>1. \A i \in Slot : waiters'[i].used => i # slot[t] /\ waiters[i].used /\ waiters'[i] = waiters[i]
      BY <2>2 DEF TypeOK, Free
    <3>2. \A i \in Slot : waiters'[i].used =>
             LET u == waiters'[i].task IN pc'[u] = "wait" /\ slot'[u] = i /\ state'[u] # "DEAD"
      BY <2>2, <3>1, OneOwner DEF SlotsOwned, TypeOK, Leave, Waiter
    <3>3. \A u \in Task : pc'[u] = "wait" => u # t /\ slot[u] # slot[t]
      BY <2>2 DEF SlotsOwned, TypeOK, Leave
    <3> QED BY <2>2, <3>2, <3>3 DEF SlotsOwned, TypeOK, Leave
  <2> QED BY <2>1, <2>2
<1>4. NoLostWake'
  BY DEF NoLostWake, TypeOK, Leave, Free, Waiter
<1>5. BlockedWaits'
  <2>1. \A u \in Task : u # t => pc'[u] = pc[u] /\ state'[u] = state[u]
    BY DEF Leave, TypeOK
  <2>2. state'[t] # "BLOCKED"
    BY DEF Leave, TypeOK
  <2> QED BY <2>1, <2>2 DEF BlockedWaits
<1>6. InCall'
  BY DEF InCall, Leave, TypeOK
<1> QED BY <1>2, <1>3, <1>4, <1>5, <1>6

(* A task marks itself blocked in the loop.                                *)
LEMMA BlockType ==
  ASSUME TypeOK, NEW t \in Task, Block(t), args[t] \in WaitArgs
  PROVE  /\ state' \in [Task -> {"READY", "BLOCKED", "DEAD"}]
         /\ wake_tick' \in [Task -> Ticks]
         /\ pc' \in [Task -> {"user", "call", "wait"}]
<1>1. args[t].deadline \in Ticks
  BY TicksFacts DEF WaitArgs, NoCall
<1>2. (IF args[t].timed THEN args[t].deadline ELSE 0) \in Ticks
  BY <1>1, TicksFacts
<1> QED BY <1>2 DEF Block, TypeOK

LEMMA CallKeepsInv ==
  ASSUME Inv, NEW t \in Task, NEW a \in Addr, NEW v \in Value, NEW d \in Timeouts, Call(t, a, v, d)
  PROVE  Inv'
<1>1. d = NoTimeout \/ d \in Nat
  BY TimeoutsAssumption
<1>2. (IF d = NoTimeout THEN 0 ELSE Deadline(d)) \in Ticks
  BY <1>1, DeadlineType, TicksFacts DEF Inv, TypeOK
<1>3. (IF d = NoTimeout THEN 0 ELSE d) \in Int
  BY <1>1
<1>4. args' \in [Task -> WaitArgs]
  BY <1>2 DEF Call, Inv, TypeOK, WaitArgs
<1>5. TypeOK'
  BY <1>3, <1>4 DEF Call, Inv, TypeOK
<1>6. \A u \in Task : /\ pc[u] = "wait" <=> pc'[u] = "wait"
                      /\ pc[u] = "wait" => slot'[u] = slot[u] /\ args'[u].addr = args[u].addr
                      /\ state'[u] = state[u]
  BY DEF Call, Ready, Inv, TypeOK
<1>7. waiters' = waiters
  BY DEF Call
<1>8. InCall'
  BY DEF Call, Inv, InCall, TypeOK
<1> QED BY <1>5, <1>6, <1>7, <1>8, TableUnchanged

(* The waiter is registered in a free slot, in the same step as the task   *)
(* blocks.                                                                 *)
LEMMA EnterKeepsInv ==
  ASSUME Inv, NEW t \in Task, Enter(t)
  PROVE  Inv'
<1> USE DEF Inv
<1>0. state[t] = "READY" /\ pc[t] = "call" /\ mem' = mem /\ ticks' = ticks
  BY DEF Enter, Ready
<1>1. CASE waiters' = waiters /\ (Leave(t, 0) \/ Leave(t, -1) \/ Leave(t, -2))
  BY <1>0, <1>1, LeaveKeepsInv
<1>2. CASE /\ \E i \in FreeSlots :
                /\ slot' = [slot EXCEPT ![t] = i]
                /\ waiters' = [waiters EXCEPT ![i] = [used |-> TRUE, task |-> t,
                                                      addr |-> args[t].addr, woken |-> FALSE]]
           /\ Block(t) /\ args' = args /\ left' = left
  <2>0. args[t].addr \in Addr
    BY <1>0 DEF InCall
  <2>1. PICK i \in FreeSlots :
                /\ slot' = [slot EXCEPT ![t] = i]
                /\ waiters' = [waiters EXCEPT ![i] = [used |-> TRUE, task |-> t,
                                                      addr |-> args[t].addr, woken |-> FALSE]]
    BY <1>2
  <2>2. i \in Slot /\ ~waiters[i].used
    BY DEF FreeSlots
  <2>3. TypeOK'
    <3>1. waiters' \in [Slot -> Waiter]
      BY <2>0, <2>1, <2>2 DEF TypeOK, Waiter
    <3>2. slot' \in [Task -> Slot]
      BY <2>1, <2>2 DEF TypeOK
    <3>3. args[t] \in WaitArgs
      BY DEF TypeOK
    <3>4. /\ state' \in [Task -> {"READY", "BLOCKED", "DEAD"}]
          /\ wake_tick' \in [Task -> Ticks]
          /\ pc' \in [Task -> {"user", "call", "wait"}]
      BY <1>2, <3>3, BlockType
    <3> QED BY <1>0, <1>2, <3>1, <3>2, <3>4 DEF TypeOK
  <2>4. /\ pc'[t] = "wait" /\ slot'[t] = i /\ state'[t] = "BLOCKED"
        /\ \A u \in Task : u # t => pc'[u] = pc[u] /\ slot'[u] = slot[u] /\ state'[u] = state[u]
    BY <1>2, <2>1 DEF Block, TypeOK
  <2>5. /\ waiters'[i].used /\ waiters'[i].task = t
        /\ waiters'[i].addr = args[t].addr /\ ~waiters'[i].woken
        /\ \A j \in Slot : j # i => waiters'[j] = waiters[j]
    BY <2>1, <2>2 DEF TypeOK
  <2>6. \A j \in Slot : waiters[j].used => waiters[j].task \in Task /\ waiters[j].task # t
    BY <1>0, UsedSlot DEF SlotsOwned
  <2>7. SlotsOwned'
    <3>1. ASSUME NEW j \in Slot, waiters'[j].used
          PROVE  LET u == waiters'[j].task IN pc'[u] = "wait" /\ slot'[u] = j /\ state'[u] # "DEAD"
      BY <2>4, <2>5, <2>6, <3>1 DEF SlotsOwned
    <3>2. ASSUME NEW u \in Task, pc'[u] = "wait"
          PROVE  /\ waiters'[slot'[u]].used /\ waiters'[slot'[u]].task = u
                 /\ waiters'[slot'[u]].addr = args'[u].addr
      <4>1. CASE u = t
        BY <1>2, <2>4, <2>5, <4>1
      <4>2. CASE u # t
        <5>1. pc[u] = "wait" /\ slot[u] \in Slot /\ slot[u] # i
          BY <2>2, <2>4, <3>2, <4>2 DEF SlotsOwned, TypeOK
        <5> QED BY <1>2, <2>4, <2>5, <4>2, <5>1 DEF SlotsOwned
      <4> QED BY <4>1, <4>2
    <3> QED BY <3>1, <3>2 DEF SlotsOwned
  <2>8. NoLostWake'
    BY <2>4, <2>5, <2>6 DEF NoLostWake
  <2>9. BlockedWaits'
    BY <2>4 DEF BlockedWaits
  <2>10. InCall'
    BY <1>2, <2>0, <2>4 DEF InCall
  <2> QED BY <2>3, <2>7, <2>8, <2>9, <2>10
<1> QED BY <1>1, <1>2 DEF Enter

(* The wait ends, or the task blocks again in its slot, which nobody has   *)
(* marked woken.                                                           *)
LEMMA ResumeKeepsInv ==
  ASSUME Inv, NEW t \in Task, Resume(t)
  PROVE  Inv'
<1> USE DEF Inv
<1>0. state[t] = "READY" /\ pc[t] = "wait" /\ mem' = mem /\ ticks' = ticks
  BY DEF Resume, Ready
<1>1. CASE /\ waiters' = [waiters EXCEPT ![slot[t]] = Free]
           /\ Leave(t, IF Ends(t) THEN 0 ELSE -2)
  <2> DEFINE code == IF Ends(t) THEN 0 ELSE -2
  <2>1. code \in Int /\ Leave(t, code)
    BY <1>1
  <2> HIDE DEF code
  <2> QED BY <1>0, <1>1, <2>1, LeaveKeepsInv
<1>2. CASE /\ ~Ends(t) /\ Block(t)
           /\ waiters' = waiters /\ slot' = slot /\ args' = args /\ left' = left
  <2>1. args[t] \in WaitArgs /\ slot[t] \in Slot
    BY DEF TypeOK
  <2>2. TypeOK'
    BY <1>0, <1>2, <2>1, BlockType DEF TypeOK
  <2>3. /\ pc' = pc /\ state'[t] = "BLOCKED"
        /\ \A u \in Task : u # t => state'[u] = state[u]
    BY <1>0, <1>2 DEF Block, TypeOK
  <2>4. ~waiters[slot[t]].woken
    BY <1>2 DEF Ends
  <2>5. \A i \in Slot : waiters[i].used => waiters[i].task \in Task
    BY UsedSlot
  <2>6. SlotsOwned'
    BY <1>2, <2>3, <2>5 DEF SlotsOwned
  <2>7. NoLostWake'
    <3>1. ASSUME NEW i \in Slot, waiters[i].used, waiters[i].woken
          PROVE  state'[waiters[i].task] # "BLOCKED"
      <4>1. waiters[i].task # t
        BY <2>4, <3>1 DEF SlotsOwned
      <4> QED BY <2>3, <2>5, <3>1, <4>1 DEF NoLostWake
    <3> QED BY <1>2, <3>1 DEF NoLostWake
  <2>8. BlockedWaits' /\ InCall'
    BY <1>0, <1>2, <2>3 DEF BlockedWaits, InCall
  <2> QED BY <2>2, <2>6, <2>7, <2>8
<1> QED BY <1>1, <1>2 DEF Resume

(* Whoever is marked is also made ready.                                   *)
LEMMA WakeKeepsInv ==
  ASSUME Inv, NEW t \in Task, NEW a \in Addr, NEW n \in Counts, Wake(t, a, n)
  PROVE  Inv'
<1> USE DEF Inv
<1> DEFINE hit == {waiters[i].task : i \in Taken(a, n)}
<1>1. Taken(a, n) \subseteq Slot /\ \A i \in Taken(a, n) : waiters[i].used
  BY DEF Taken, Matches
<1>2. \A i \in Slot : waiters[i].used => waiters[i].task \in Task /\ waiters[i].addr \in Addr
                                       /\ waiters[i].woken \in BOOLEAN
  BY UsedSlot
<1>3. \A u \in Task : state'[u] = IF u \in hit /\ state[u] = "BLOCKED" THEN "READY" ELSE state[u]
  BY DEF Wake
<1>4. \A i \in Slot : /\ i \in Taken(a, n) =>
                           /\ waiters'[i].used /\ waiters'[i].task = waiters[i].task
                           /\ waiters'[i].addr = waiters[i].addr /\ waiters[i].task \in hit
                      /\ i \notin Taken(a, n) => waiters'[i] = waiters[i]
  <2>1. \A i \in Taken(a, n) : waiters[i] \in Waiter \ {Free}
    BY <1>1 DEF TypeOK, Free
  <2>2. \A i \in Taken(a, n) : waiters'[i] = [waiters[i] EXCEPT !.woken = TRUE]
    BY <1>1 DEF Wake
  <2> QED BY <1>1, <2>1, <2>2 DEF Wake, Waiter
<1>5. /\ pc' = pc /\ slot' = slot /\ args' = args /\ left' = left /\ mem' = mem /\ ticks' = ticks
  BY DEF Wake
<1>6. TypeOK'
  <2>1. waiters' \in [Slot -> Waiter]
    <3>1. ASSUME NEW w \in Waiter, w.used
          PROVE  [w EXCEPT !.woken = TRUE] \in Waiter
      <4>1. w # Free
        BY <3>1 DEF Free
      <4>2. w \in [used : {TRUE}, task : Task, addr : Addr, woken : BOOLEAN]
        BY <4>1 DEF Waiter
      <4>3. [w EXCEPT !.woken = TRUE] \in [used : {TRUE}, task : Task, addr : Addr, woken : BOOLEAN]
        BY <4>2
      <4> QED BY <4>3 DEF Waiter
    <3>2. \A i \in Slot : waiters[i] \in Waiter
      BY DEF TypeOK
    <3> QED BY <1>1, <3>1, <3>2 DEF Wake
  <2>2. /\ state' \in [Task -> {"READY", "BLOCKED", "DEAD"}]
        /\ wake_tick' \in [Task -> Ticks]
    BY TicksFacts DEF Wake, TypeOK
  <2> QED BY <1>5, <2>1, <2>2 DEF TypeOK
<1> HIDE DEF hit
<1>7. SlotsOwned'
  <2>1. ASSUME NEW i \in Slot, waiters'[i].used
        PROVE  LET u == waiters'[i].task IN pc'[u] = "wait" /\ slot'[u] = i /\ state'[u] # "DEAD"
    <3>1. waiters[i].used /\ waiters'[i].task = waiters[i].task
      BY <1>1, <1>4, <2>1
    <3> QED BY <1>2, <1>3, <1>5, <3>1 DEF SlotsOwned
  <2>2. ASSUME NEW u \in Task, pc'[u] = "wait"
        PROVE  /\ waiters'[slot'[u]].used /\ waiters'[slot'[u]].task = u
               /\ waiters'[slot'[u]].addr = args'[u].addr
    <3>1. slot[u] \in Slot
      BY DEF TypeOK
    <3> QED BY <1>4, <1>5, <2>2, <3>1 DEF SlotsOwned
  <2> QED BY <2>1, <2>2 DEF SlotsOwned
<1>8. NoLostWake'
  <2>1. ASSUME NEW i \in Slot, waiters'[i].used, waiters'[i].woken
        PROVE  state'[waiters'[i].task] # "BLOCKED"
    <3>1. CASE i \in Taken(a, n)
      <4>1. waiters'[i].task \in Task /\ waiters'[i].task \in hit
        BY <1>1, <1>2, <1>4, <3>1
      <4> QED BY <1>3, <4>1
    <3>2. CASE i \notin Taken(a, n)
      BY <1>2, <1>3, <1>4, <2>1, <3>2 DEF NoLostWake
    <3> QED BY <3>1, <3>2
  <2> QED BY <2>1 DEF NoLostWake
<1>9. BlockedWaits' /\ InCall'
  BY <1>3, <1>5 DEF BlockedWaits, InCall
<1> QED BY <1>6, <1>7, <1>8, <1>9

(* A process dies with its waiters.                                        *)
LEMMA KillKeepsInv ==
  ASSUME Inv, NEW p \in Proc, Kill(p)
  PROVE  Inv'
<1> USE DEF Inv
<1> DEFINE dead == {t \in Task : ProcOf[t] = p}
<1>1. \A i \in Slot : waiters[i].used => waiters[i].task \in Task
  BY UsedSlot
<1>2. \A t \in Task : /\ t \in dead => state'[t] = "DEAD" /\ pc'[t] = "user"
                      /\ t \notin dead => /\ state'[t] = state[t] /\ pc'[t] = pc[t]
                                         /\ slot'[t] = slot[t] /\ args'[t] = args[t]
  BY DEF Kill
<1>3. \A i \in Slot : waiters'[i] = IF waiters[i].used /\ waiters[i].task \in dead THEN Free ELSE waiters[i]
  BY DEF Kill
<1>4. TypeOK'
  <2>1. waiters' \in [Slot -> Waiter]
    BY DEF Kill, TypeOK, Waiter
  <2>2. args' \in [Task -> WaitArgs]
    BY DEF Kill, TypeOK, WaitArgs
  <2>3. 0 \in Slot
    BY MaxWaitersAssumption DEF Slot
  <2>4. /\ state' \in [Task -> {"READY", "BLOCKED", "DEAD"}] /\ wake_tick' \in [Task -> Ticks]
        /\ pc' \in [Task -> {"user", "call", "wait"}]
        /\ slot' \in [Task -> Slot] /\ left' \in [Task -> Int]
        /\ mem' = mem /\ ticks' = ticks
    BY <2>3, TicksFacts DEF Kill, TypeOK
  <2> QED BY <2>1, <2>2, <2>4 DEF TypeOK
<1> HIDE DEF dead
<1>5. \A i \in Slot : waiters'[i].used => /\ waiters'[i] = waiters[i] /\ waiters[i].used
                                         /\ waiters[i].task \in Task /\ waiters[i].task \notin dead
  BY <1>1, <1>3 DEF Free
<1>6. SlotsOwned'
  <2>1. ASSUME NEW i \in Slot, waiters'[i].used
        PROVE  LET u == waiters'[i].task IN pc'[u] = "wait" /\ slot'[u] = i /\ state'[u] # "DEAD"
    BY <1>2, <1>5, <2>1 DEF SlotsOwned
  <2>2. ASSUME NEW u \in Task, pc'[u] = "wait"
        PROVE  /\ waiters'[slot'[u]].used /\ waiters'[slot'[u]].task = u
               /\ waiters'[slot'[u]].addr = args'[u].addr
    <3>1. u \notin dead /\ pc[u] = "wait" /\ slot[u] \in Slot
      BY <1>2, <2>2 DEF TypeOK
    <3> QED BY <1>2, <1>3, <3>1 DEF SlotsOwned
  <2> QED BY <2>1, <2>2 DEF SlotsOwned
<1>7. NoLostWake'
  BY <1>2, <1>5 DEF NoLostWake
<1>8. BlockedWaits' /\ InCall'
  BY <1>2 DEF BlockedWaits, InCall
<1> QED BY <1>4, <1>6, <1>7, <1>8

LEMMA InvNext == Inv /\ [Next]_vars => Inv'
<1> SUFFICES ASSUME Inv, [Next]_vars PROVE Inv'
  OBVIOUS
<1>1. ASSUME NEW t \in Task, Enter(t) \/ Resume(t) PROVE Inv'
  BY <1>1, EnterKeepsInv, ResumeKeepsInv
<1>2. ASSUME NEW t \in Task, StrayWake(t) PROVE Inv'
  <2>1. TypeOK'
    BY <1>2, TicksFacts DEF StrayWake, Inv, TypeOK
  <2>2. \A u \in Task : state'[u] = state[u] \/ (state[u] = "BLOCKED" /\ state'[u] = "READY")
    BY <1>2 DEF StrayWake, Inv, TypeOK
  <2> QED BY <1>2, <2>1, <2>2, TableUnchanged DEF StrayWake, Inv, InCall
<1>3. ASSUME NEW t \in Task, NEW a \in Addr, NEW v \in Value, Store(t, a, v) PROVE Inv'
  <2>1. mem' \in [Proc -> [Addr -> Value]]
    BY <1>3, ProcOfAssumption DEF Store, Inv, TypeOK
  <2>2. TypeOK'
    BY <1>3, <2>1 DEF Store, Inv, TypeOK
  <2> QED BY <1>3, <2>2, TableUnchanged DEF Store, Inv, InCall
<1>4. ASSUME NEW t \in Task, NEW a \in Addr, NEW v \in Value, NEW d \in Timeouts, Call(t, a, v, d)
      PROVE  Inv'
  BY <1>4, CallKeepsInv
<1>5. ASSUME NEW t \in Task, NEW a \in Addr, NEW n \in Counts, Wake(t, a, n) PROVE Inv'
  BY <1>5, WakeKeepsInv
<1>6. ASSUME NEW p \in Proc, Kill(p) PROVE Inv'
  BY <1>6, KillKeepsInv
<1>7. ASSUME NEW p \in Proc, Recreate(p) PROVE Inv'
  <2>1. TypeOK'
    BY <1>7 DEF Recreate, Inv, TypeOK
  <2>2. \A u \in Task : state'[u] = state[u] \/ (state[u] = "DEAD" /\ state'[u] = "READY")
    BY <1>7 DEF Recreate, Inv, TypeOK
  <2> QED BY <1>7, <2>1, <2>2, TableUnchanged DEF Recreate, Inv, InCall
<1>8. CASE Tick
  <2> DEFINE now == (ticks + 1) % (2 * HalfTicks)
  <2>1. ticks \in Int
    BY TicksAssumption DEF Inv, TypeOK, Ticks
  <2>2. now \in Ticks
    BY <2>1, TicksFacts
  <2>3. TypeOK'
    <3>1. left' \in [Task -> Int]
      BY <1>8 DEF Tick, Inv, TypeOK
    <3>2. /\ state' \in [Task -> {"READY", "BLOCKED", "DEAD"}] /\ wake_tick' \in [Task -> Ticks]
      BY <1>8, TicksFacts DEF Tick, Inv, TypeOK
    <3>3. ticks' \in Ticks
      BY <1>8, <2>2 DEF Tick
    <3> QED BY <1>8, <3>1, <3>2, <3>3 DEF Tick, Inv, TypeOK
  <2>4. \A u \in Task : state'[u] = state[u] \/ (state[u] = "BLOCKED" /\ state'[u] = "READY")
    BY <1>8 DEF Tick, Expires, Inv, TypeOK
  <2>5. /\ waiters' = waiters /\ pc' = pc /\ slot' = slot /\ args' = args
    BY <1>8 DEF Tick
  <2> QED BY <2>3, <2>4, <2>5, TableUnchanged DEF Inv, InCall
<1>9. CASE UNCHANGED vars
  BY <1>9 DEF vars, Inv, TypeOK, SlotsOwned, NoLostWake, BlockedWaits, InCall
<1> QED BY <1>1, <1>2, <1>3, <1>4, <1>5, <1>6, <1>7, <1>8, <1>9 DEF Next

(* In every reachable state the waiter table and the tasks agree: each     *)
(* used slot belongs to the one live task that waits in it, and a waiter   *)
(* marked by futex_wake is not left blocked.                               *)
THEOREM FutexSafe == Spec => [](TypeOK /\ SlotsOwned /\ NoLostWake)
<1>1. Inv => TypeOK /\ SlotsOwned /\ NoLostWake
  BY DEF Inv
<1> QED BY <1>1, InvInit, InvNext, PTL DEF Spec

-----------------------------------------------------------------------------
(***************************************************************************)
(* Timeouts.  Dated relates the wrapped deadline of a timed call to the    *)
(* ticks that are really left: it is r ticks ahead, where r is what is     *)
(* left of the timeout or, when the deadline wrapped to zero, one more,    *)
(* and a blocked task is not past it.  The deadline of a timeout of zero   *)
(* is tick one, wherever the counter stands: nothing is said of it.        *)
(***************************************************************************)
(* Timeouts and delays within half the range of the counter, as the code's *)
(* are: a timeout is at most 2^30 ticks, and no task is runnable for as    *)
(* long as 2^31 without running.                                           *)
ShortTimeouts == MaxLag < HalfTicks /\ \A d \in Timeouts : d < HalfTicks

InTicks(r) == (ticks + r) % (2 * HalfTicks)

Due(t, r) ==
  /\ args[t].deadline = InTicks(r)
  /\ r = left[t] \/ r = left[t] + 1
  /\ state[t] = "BLOCKED" => r >= 1

Window == -HalfTicks + 1 .. HalfTicks

Dated ==
  /\ \A t \in Task : args[t].timed => args[t].deadline # 0
  /\ \A t \in Task : Counting(t) =>
       /\ state[t] # "DEAD"
       /\ state[t] = "BLOCKED" => wake_tick[t] = args[t].deadline
       /\ (0 \in Timeouts /\ left[t] <= 0) \/ \E r \in Window : Due(t, r)

LEMMA DatedInit == Init => Dated
  BY DEF Init, Dated, Counting, NoCall

(* Steps that leave the clock alone and put nobody to sleep.               *)
LEMMA DatedKept ==
  ASSUME TypeOK, Dated, ticks' = ticks,
         \A t \in Task :
           /\ args'[t] = args[t] \/ ~args'[t].timed
           /\ Counting(t)' => /\ Counting(t) /\ args'[t] = args[t] /\ left'[t] = left[t]
                              /\ \/ state'[t] = "READY"
                                 \/ state'[t] = state[t] /\ wake_tick'[t] = wake_tick[t]
  PROVE  Dated'
<1>1. ASSUME NEW t \in Task, Counting(t)'
      PROVE  /\ state'[t] # "DEAD"
             /\ state'[t] = "BLOCKED" => wake_tick'[t] = args'[t].deadline
             /\ (0 \in Timeouts /\ left'[t] <= 0) \/ \E r \in Window : Due(t, r)'
  <2>1. /\ Counting(t) /\ args'[t] = args[t] /\ left'[t] = left[t]
        /\ \/ state'[t] = "READY"
           \/ state'[t] = state[t] /\ wake_tick'[t] = wake_tick[t]
    BY <1>1
  <2>2. ASSUME NEW r \in Window, Due(t, r)
        PROVE  Due(t, r)'
    BY <2>1, <2>2 DEF Due, InTicks
  <2> QED BY <2>1, <2>2 DEF Dated
<1>2. \A t \in Task : args'[t].timed => args'[t].deadline # 0
  BY DEF Dated
<1> QED BY <1>1, <1>2 DEF Dated

LEMMA TickRange ==
  ASSUME TypeOK
  PROVE  HalfTicks \in Nat \ {0} /\ 2 * HalfTicks \in Nat \ {0} /\ ticks \in Int /\ MaxLag \in Nat
         /\ \A r \in Window : r \in Int /\ r <= HalfTicks
  BY TicksAssumption DEF TypeOK, Ticks, Window

(* The signed comparison against the deadline.                             *)
LEMMA DueReached ==
  ASSUME TypeOK, NEW now \in Int, NEW r \in Window
  PROVE  Reached(now, (now + r) % (2 * HalfTicks)) <=> r <= 0
<1>1. HalfTicks \in Nat \ {0} /\ r \in -HalfTicks + 1 .. HalfTicks
  BY TickRange DEF Window
<1> QED BY <1>1, WrapReached DEF Reached

(* A call computes its deadline.                                           *)
LEMMA DatedCall ==
  ASSUME ShortTimeouts, TypeOK, NEW d \in Timeouts, d # NoTimeout, d # 0
  PROVE  /\ Deadline(d) # 0
         /\ \E r \in Window : /\ Deadline(d) = InTicks(r)
                              /\ r = d \/ r = d + 1
                              /\ r >= 1
<1>1. PICK m \in Nat \ {0} : m = 2 * HalfTicks /\ m > 1 /\ 1 \in 0 .. m - 1
  BY TickRange
<1>2. d \in Nat /\ d \in Int /\ d >= 1 /\ d < HalfTicks /\ ticks \in Int
  BY TickRange, TimeoutsAssumption DEF ShortTimeouts
<1>3. d \in Window /\ d + 1 \in Window /\ ticks + d \in Int
  BY <1>2, TickRange DEF Window
<1>4. CASE (ticks + d) % m = 0
  <2>1. (((ticks + d) % m) + 1) % m = ((ticks + d) + 1) % m
    BY <1>1, <1>3, ModOfSum
  <2>2. (0 + 1) % m = 1
    BY <1>1, ModSmall
  <2>3. (ticks + d) + 1 = ticks + (d + 1)
    BY <1>2
  <2>4. Deadline(d) = 1
    BY <1>1, <1>4 DEF Deadline
  <2> QED BY <1>1, <1>2, <1>3, <1>4, <2>1, <2>2, <2>3, <2>4 DEF InTicks
<1>5. CASE (ticks + d) % m # 0
  <2>1. Deadline(d) = (ticks + d) % m
    BY <1>1, <1>2, <1>5 DEF Deadline
  <2> QED BY <1>1, <1>2, <1>3, <1>5, <2>1 DEF InTicks
<1> QED BY <1>4, <1>5

LEMMA DatedNext ==
  ASSUME ShortTimeouts, Inv, Dated, [Next]_vars
  PROVE  Dated'
<1>0. TypeOK /\ HalfTicks \in Nat \ {0} /\ 2 * HalfTicks \in Nat \ {0} /\ ticks \in Int
  BY TickRange DEF Inv
<1>1. ASSUME NEW t \in Task, NEW code, Leave(t, code), ticks' = ticks
      PROVE  Dated'
  <2>1. \A u \in Task : /\ u = t => pc'[u] = "user" /\ ~args'[u].timed
                        /\ u # t => /\ args'[u] = args[u] /\ pc'[u] = pc[u] /\ left'[u] = left[u]
                                    /\ state'[u] = state[u] /\ wake_tick'[u] = wake_tick[u]
    BY <1>0, <1>1 DEF Leave, NoCall, TypeOK
  <2>2. \A u \in Task : Counting(u)' => u # t /\ Counting(u)
    BY <2>1 DEF Counting
  <2> QED BY <1>0, <1>1, <2>1, <2>2, DatedKept
<1>2. ASSUME NEW t \in Task, pc[t] # "user", ~TimedOut(t), state[t] = "READY",
             Block(t), args' = args, left' = left, ticks' = ticks
      PROVE  Dated'
  <2>1. /\ state'[t] = "BLOCKED" /\ pc'[t] = "wait"
        /\ wake_tick'[t] = IF args[t].timed THEN args[t].deadline ELSE 0
        /\ \A u \in Task : u # t => pc'[u] = pc[u] /\ state'[u] = state[u] /\ wake_tick'[u] = wake_tick[u]
    BY <1>0, <1>2 DEF Block, TypeOK
  <2>2. ASSUME NEW u \in Task, Counting(u)'
        PROVE  /\ state'[u] # "DEAD"
               /\ state'[u] = "BLOCKED" => wake_tick'[u] = args'[u].deadline
               /\ (0 \in Timeouts /\ left'[u] <= 0) \/ \E r \in Window : Due(u, r)'
    <3>1. CASE u = t
      <4>1. Counting(t) /\ args[t].timed
        BY <1>2, <2>2, <3>1 DEF Counting
      <4>2. CASE 0 \in Timeouts /\ left[t] <= 0
        BY <1>2, <2>1, <3>1, <4>1, <4>2
      <4>3. ASSUME NEW r \in Window, Due(t, r)
            PROVE  Due(t, r)'
        <5>1. ~Reached(ticks, (ticks + r) % (2 * HalfTicks))
          BY <1>2, <4>1, <4>3 DEF TimedOut, Due, InTicks
        <5>2. ~(r <= 0) /\ r \in Int
          BY <1>0, <5>1, DueReached, TickRange
        <5> QED BY <1>2, <4>3, <5>2 DEF Due, InTicks
      <4> QED BY <1>2, <2>1, <3>1, <4>1, <4>2, <4>3 DEF Dated
    <3>2. CASE u # t
      <4>1. Counting(u)
        BY <1>2, <2>1, <2>2, <3>2 DEF Counting
      <4>2. ASSUME NEW r \in Window, Due(u, r)
            PROVE  Due(u, r)'
        BY <1>2, <2>1, <3>2, <4>2 DEF Due, InTicks
      <4> QED BY <1>2, <2>1, <3>2, <4>1, <4>2 DEF Dated
    <3> QED BY <3>1, <3>2
  <2> QED BY <1>2, <2>2 DEF Dated
<1>3. ASSUME NEW t \in Task, Enter(t) PROVE Dated'
  <2>1. state[t] = "READY" /\ pc[t] # "user" /\ ticks' = ticks
    BY <1>3 DEF Enter, Ready
  <2>2. \/ \E code \in {0, -1, -2} : Leave(t, code)
        \/ ~TimedOut(t) /\ Block(t) /\ args' = args /\ left' = left
    BY <1>3 DEF Enter
  <2> QED BY <1>1, <1>2, <2>1, <2>2
<1>4. ASSUME NEW t \in Task, Resume(t) PROVE Dated'
  <2>1. state[t] = "READY" /\ pc[t] # "user" /\ ticks' = ticks
    BY <1>4 DEF Resume, Ready
  <2>2. \/ Leave(t, IF Ends(t) THEN 0 ELSE -2)
        \/ ~TimedOut(t) /\ Block(t) /\ args' = args /\ left' = left
    BY <1>4 DEF Resume
  <2> QED BY <1>1, <1>2, <2>1, <2>2
<1>5. ASSUME NEW t \in Task, NEW a \in Addr, NEW v \in Value, NEW d \in Timeouts, Call(t, a, v, d)
      PROVE  Dated'
  <2>1. /\ state[t] = "READY" /\ state' = state /\ ticks' = ticks /\ wake_tick' = wake_tick
        /\ \A u \in Task : u # t => args'[u] = args[u] /\ pc'[u] = pc[u] /\ left'[u] = left[u]
    BY <1>0, <1>5 DEF Call, Ready, TypeOK
  <2>2. /\ args'[t].timed <=> d # NoTimeout
        /\ args'[t].deadline = IF d = NoTimeout THEN 0 ELSE Deadline(d)
        /\ left'[t] = IF d = NoTimeout THEN 0 ELSE d
    BY <1>0, <1>5 DEF Call, TypeOK
  <2>3. d # NoTimeout => Deadline(d) # 0
    BY DatedCall DEF Deadline
  <2>4. ASSUME NEW u \in Task, Counting(u)'
        PROVE  /\ state'[u] # "DEAD"
               /\ state'[u] = "BLOCKED" => wake_tick'[u] = args'[u].deadline
               /\ (0 \in Timeouts /\ left'[u] <= 0) \/ \E r \in Window : Due(u, r)'
    <3>1. CASE u = t
      <4>1. d # NoTimeout
        BY <2>2, <2>4, <3>1 DEF Counting
      <4>2. CASE d = 0
        BY <2>1, <2>2, <3>1, <4>1, <4>2
      <4>3. CASE d # 0
        <5>1. PICK r \in Window : /\ Deadline(d) = InTicks(r)
                                  /\ r = d \/ r = d + 1
                                  /\ r >= 1
          BY <1>0, <4>1, <4>3, DatedCall
        <5>2. Due(u, r)'
          BY <2>1, <2>2, <3>1, <4>1, <5>1 DEF Due, InTicks
        <5> QED BY <2>1, <3>1, <5>2
      <4> QED BY <4>2, <4>3
    <3>2. CASE u # t
      <4>1. Counting(u)
        BY <2>1, <2>4, <3>2 DEF Counting
      <4>2. ASSUME NEW r \in Window, Due(u, r)
            PROVE  Due(u, r)'
        BY <2>1, <3>2, <4>2 DEF Due, InTicks
      <4> QED BY <2>1, <3>2, <4>1, <4>2 DEF Dated
    <3> QED BY <3>1, <3>2
  <2>5. ASSUME NEW u \in Task, args'[u].timed
        PROVE  args'[u].deadline # 0
    BY <2>1, <2>2, <2>3, <2>5 DEF Dated
  <2> QED BY <2>4, <2>5 DEF Dated
<1>6. ASSUME NEW t \in Task, NEW a \in Addr, NEW n \in Counts, Wake(t, a, n) PROVE Dated'
  <2>1. /\ ticks' = ticks /\ pc' = pc /\ args' = args /\ left' = left
        /\ \A u \in Task : \/ state'[u] = "READY"
                           \/ state'[u] = state[u] /\ wake_tick'[u] = wake_tick[u]
    BY <1>6 DEF Wake
  <2> QED BY <1>0, <2>1, DatedKept DEF Counting
<1>7. ASSUME NEW t \in Task, StrayWake(t) PROVE Dated'
  <2>1. /\ ticks' = ticks /\ pc' = pc /\ args' = args /\ left' = left
        /\ \A u \in Task : \/ state'[u] = "READY"
                           \/ state'[u] = state[u] /\ wake_tick'[u] = wake_tick[u]
    BY <1>0, <1>7 DEF StrayWake, TypeOK
  <2> QED BY <1>0, <2>1, DatedKept DEF Counting
<1>8. ASSUME NEW t \in Task, NEW a \in Addr, NEW v \in Value, Store(t, a, v) PROVE Dated'
  BY <1>0, <1>8, DatedKept DEF Store, Counting
<1>9. ASSUME NEW p \in Proc, Kill(p) PROVE Dated'
  <2>1. /\ ticks' = ticks
        /\ \A u \in Task : \/ pc'[u] = "user" /\ args'[u] = NoCall
                           \/ /\ args'[u] = args[u] /\ pc'[u] = pc[u] /\ left'[u] = left[u]
                              /\ state'[u] = state[u] /\ wake_tick'[u] = wake_tick[u]
    BY <1>9 DEF Kill
  <2> QED BY <1>0, <2>1, DatedKept DEF Counting, NoCall
<1>10. ASSUME NEW p \in Proc, Recreate(p) PROVE Dated'
  <2>1. /\ ticks' = ticks /\ pc' = pc /\ args' = args /\ left' = left /\ wake_tick' = wake_tick
        /\ \A u \in Task : state'[u] = "READY" \/ state'[u] = state[u]
    BY <1>10 DEF Recreate
  <2> QED BY <1>0, <2>1, DatedKept DEF Counting
<1>11. CASE Tick
  <2>1. PICK now \in Int : now = (ticks + 1) % (2 * HalfTicks)
    BY <1>0, TicksFacts, TicksAssumption DEF Ticks
  <2>2. /\ ticks' = now /\ args' = args /\ pc' = pc
        /\ \A u \in Task :
             /\ state[u] = "READY" /\ Counting(u) => left[u] > -MaxLag
             /\ state'[u] = IF Expires(u, now) THEN "READY" ELSE state[u]
             /\ wake_tick'[u] = IF Expires(u, now) THEN 0 ELSE wake_tick[u]
             /\ left'[u] = IF Counting(u) /\ left[u] > -MaxLag - 2 THEN left[u] - 1 ELSE left[u]
    BY <1>11, <2>1 DEF Tick
  <2>3. ASSUME NEW u \in Task, Counting(u)
        PROVE  /\ state'[u] # "DEAD"
               /\ state'[u] = "BLOCKED" => wake_tick'[u] = args'[u].deadline
               /\ (0 \in Timeouts /\ left'[u] <= 0) \/ \E r \in Window : Due(u, r)'
    <3>0. /\ MaxLag \in Nat /\ MaxLag < HalfTicks /\ left[u] \in Int
          /\ state[u] \in {"READY", "BLOCKED", "DEAD"} /\ state[u] # "DEAD"
      BY <1>0, <2>3, TickRange DEF ShortTimeouts, TypeOK, Dated
    <3>1. state'[u] # "DEAD" /\ (state'[u] = "BLOCKED" => wake_tick'[u] = args'[u].deadline)
      BY <2>2, <2>3 DEF Dated
    <3>2. CASE 0 \in Timeouts /\ left[u] <= 0
      BY <2>2, <3>0, <3>1, <3>2
    <3>3. ASSUME NEW r \in Window, Due(u, r)
          PROVE  \E q \in Window : Due(u, q)'
      <4>1. r \in Int /\ r <= HalfTicks /\ HalfTicks \in Int
        BY <1>0, TickRange
      <4>2. r > -MaxLag
        BY <2>2, <2>3, <3>0, <3>3, <4>1 DEF Due
      <4>3. r - 1 \in Window
        BY <3>0, <4>1, <4>2 DEF Window
      <4>4. args[u].deadline = (now + (r - 1)) % (2 * HalfTicks)
        <5>1. PICK m \in Nat \ {0} : m = 2 * HalfTicks
          BY <1>0
        <5>2. (ticks + r) % m = (((ticks + 1) % m) + (r - 1)) % m
          <6>1. ticks \in Int /\ r \in Int /\ 1 \in Int
            BY <1>0, <4>1
          <6> QED BY <6>1, WrapShift, Zenon
        <5> QED BY <2>1, <3>3, <5>1, <5>2, Zenon DEF Due, InTicks
      <4>5. left'[u] = left[u] - 1
        BY <2>2, <2>3, <3>0, <3>3, <4>1, <4>2 DEF Due
      <4>6. r - 1 = left'[u] \/ r - 1 = left'[u] + 1
        BY <3>0, <3>3, <4>1, <4>5 DEF Due
      <4>7. state'[u] = "BLOCKED" => r - 1 >= 1
        <5>1. ASSUME state'[u] = "BLOCKED"
              PROVE  r - 1 >= 1
          <6>1. state[u] = "BLOCKED" /\ ~Expires(u, now)
            BY <2>2, <5>1
          <6>2. wake_tick[u] = args[u].deadline /\ args[u].deadline # 0
            BY <2>3, <6>1 DEF Dated, Counting
          <6>3. ~Reached(now, (now + (r - 1)) % (2 * HalfTicks))
            BY <4>4, <6>1, <6>2 DEF Expires
          <6>4. ~(r - 1 <= 0)
            BY <1>0, <4>3, <6>3, DueReached
          <6> QED BY <4>1, <6>4
        <5> QED BY <5>1
      <4>8. Due(u, r - 1)'
        BY <2>2, <4>4, <4>6, <4>7 DEF Due, InTicks
      <4> QED BY <4>3, <4>8
    <3> QED BY <2>3, <3>1, <3>2, <3>3 DEF Dated
  <2>4. \A u \in Task : Counting(u)' => Counting(u)
    BY <2>2 DEF Counting
  <2>5. \A u \in Task : args'[u].timed => args'[u].deadline # 0
    BY <2>2 DEF Dated
  <2> QED BY <2>3, <2>4, <2>5 DEF Dated
<1>12. CASE UNCHANGED vars
  BY <1>0, <1>12, DatedKept DEF vars, Counting
<1> QED BY <1>3, <1>4, <1>5, <1>6, <1>7, <1>8, <1>9, <1>10, <1>11, <1>12 DEF Next

LEMMA TimedOutIsLate ==
  ASSUME Inv, Dated, NEW t \in Task, pc[t] # "user", TimedOut(t)
  PROVE  left[t] <= 0
<1>1. Counting(t) /\ Reached(ticks, args[t].deadline)
  BY DEF TimedOut, Counting
<1>2. TypeOK /\ ticks \in Int /\ left[t] \in Int
  BY TickRange DEF Inv, TypeOK
<1>3. ASSUME NEW r \in Window, Due(t, r)
      PROVE  left[t] <= 0
  <2>1. r <= 0 /\ r \in Int
    BY <1>1, <1>2, <1>3, DueReached, TickRange DEF Due, InTicks
  <2> QED BY <1>2, <1>3, <2>1 DEF Due
<1> QED BY <1>1, <1>3 DEF Dated

(* What the step of TimeoutIsReal asks.                                    *)
HonestTimeout ==
  \A t \in Task : answer' = [call |-> "wait", arg |-> <<t>>, code |-> -2] =>
    /\ left[t] <= 0
    /\ pc[t] = "wait" => ~waiters[slot[t]].woken
    /\ Word(t, args[t].addr) = args[t].expected

LEMMA HonestNext ==
  ASSUME Inv, Dated, [Next]_vars, ~(UNCHANGED vars)
  PROVE  HonestTimeout
<1>1. ASSUME NEW t \in Task, NEW code, Leave(t, code),
             NEW u \in Task, answer' = [call |-> "wait", arg |-> <<u>>, code |-> -2]
      PROVE  u = t /\ code = -2
  <2>1. answer' = [call |-> "wait", arg |-> <<t>>, code |-> code]
    BY <1>1 DEF Leave, WaitAnswers
  <2>2. answer'.arg = <<u>> /\ answer'.arg = <<t>> /\ answer'.code = -2 /\ answer'.code = code
    BY <1>1, <2>1
  <2>3. <<u>>[1] = <<t>>[1]
    BY <2>2
  <2> QED BY <2>2, <2>3
<1>2. ASSUME Quiet, NEW u \in Task, answer' = [call |-> "wait", arg |-> <<u>>, code |-> -2]
      PROVE  FALSE
  <2>1. answer'.call = "none" /\ answer'.call = "wait"
    BY <1>2 DEF Quiet, Silence
  <2> QED BY <2>1
<1>3. ASSUME NEW t \in Task, Enter(t) PROVE HonestTimeout
  <2>1. pc[t] = "call"
    BY <1>3 DEF Enter, Ready
  <2>2. \/ Leave(t, 0) \/ Leave(t, -1) \/ Quiet
        \/ Word(t, args[t].addr) = args[t].expected /\ TimedOut(t) /\ Leave(t, -2)
    BY <1>3 DEF Enter
  <2>3. TimedOut(t) => left[t] <= 0
    BY <2>1, TimedOutIsLate
  <2> QED BY <1>1, <1>2, <2>1, <2>2, <2>3 DEF HonestTimeout
<1>4. ASSUME NEW t \in Task, Resume(t) PROVE HonestTimeout
  <2>1. pc[t] = "wait"
    BY <1>4 DEF Resume, Ready
  <2>2. \/ Ends(t) /\ Leave(t, 0)
        \/ Quiet
        \/ ~Ends(t) /\ TimedOut(t) /\ Leave(t, -2)
    BY <1>4 DEF Resume
  <2>3. TimedOut(t) => left[t] <= 0
    BY <2>1, TimedOutIsLate
  <2> QED BY <1>1, <1>2, <2>1, <2>2, <2>3 DEF HonestTimeout, Ends
<1>5. ASSUME NEW a, NEW n, NEW t \in Task, Wake(t, a, n) PROVE HonestTimeout
  <2>1. answer'.call = "wake"
    BY <1>5 DEF Wake, WakeAnswers
  <2>2. ASSUME NEW u \in Task, answer' = [call |-> "wait", arg |-> <<u>>, code |-> -2]
        PROVE  FALSE
    <3>1. answer'.call = "wait"
      BY <2>2
    <3> QED BY <2>1, <3>1
  <2> QED BY <2>2 DEF HonestTimeout
<1>6. Quiet => HonestTimeout
  BY <1>2 DEF HonestTimeout
<1>7. ASSUME NEW t \in Task, NEW a \in Addr, NEW v \in Value, Store(t, a, v) \/ \E d \in Timeouts : Call(t, a, v, d)
      PROVE  HonestTimeout
  BY <1>6, <1>7 DEF Store, Call
<1>8. ASSUME NEW t \in Task, StrayWake(t) PROVE HonestTimeout
  BY <1>6, <1>8 DEF StrayWake
<1>9. ASSUME NEW p \in Proc, Kill(p) \/ Recreate(p) PROVE HonestTimeout
  BY <1>6, <1>9 DEF Kill, Recreate
<1>10. CASE Tick
  BY <1>6, <1>10 DEF Tick
<1> QED BY <1>3, <1>4, <1>5, <1>7, <1>8, <1>9, <1>10 DEF Next

(* A wait answers -2 only when its time is up, across the wrap of the      *)
(* tick counter, and neither for a waiter that was woken nor for one whose *)
(* word has changed.                                                       *)
THEOREM TimeoutsAreReal == ShortTimeouts /\ Spec => TimeoutIsReal
<1> SUFFICES ASSUME ShortTimeouts PROVE Spec => TimeoutIsReal
  OBVIOUS
<1>1. Init => Inv /\ Dated
  BY InvInit, DatedInit
<1>2. Inv /\ Dated /\ [Next]_vars => Inv' /\ Dated'
  BY InvNext, DatedNext
<1>3. Inv /\ Dated /\ [Next]_vars => [HonestTimeout]_vars
  BY HonestNext
<1>4. [HonestTimeout]_vars =>
        [\A t \in Task : answer' = [call |-> "wait", arg |-> <<t>>, code |-> -2] =>
           /\ left[t] <= 0
           /\ pc[t] = "wait" => ~waiters[slot[t]].woken
           /\ Word(t, args[t].addr) = args[t].expected]_vars
  BY DEF HonestTimeout
<1> QED BY <1>1, <1>2, <1>3, <1>4, PTL DEF Spec, TimeoutIsReal

(* With timeouts other than zero nobody is left blocked past his timeout,  *)
(* but for the one tick of a deadline that wrapped to zero.  (For zero it  *)
(* is false: see the run futex_zero.)                                      *)
THEOREM TimeoutsAreKept == ShortTimeouts /\ 0 \notin Timeouts /\ Spec => []NotLate
<1> SUFFICES ASSUME ShortTimeouts, 0 \notin Timeouts PROVE Spec => []NotLate
  OBVIOUS
<1>1. Init => Inv /\ Dated
  BY InvInit, DatedInit
<1>2. Inv /\ Dated /\ [Next]_vars => Inv' /\ Dated'
  BY InvNext, DatedNext
<1>3. Inv /\ Dated => NotLate
  <2> SUFFICES ASSUME Inv, Dated,
                      NEW t \in Task, state[t] = "BLOCKED", args[t].timed
               PROVE  left[t] >= 0
    BY DEF NotLate
  <2>1. Counting(t)
    BY DEF Counting, Inv, BlockedWaits
  <2>2. PICK r \in Window : Due(t, r)
    BY <2>1 DEF Dated
  <2>3. r \in Int /\ left[t] \in Int
    BY TickRange DEF Inv, TypeOK
  <2> QED BY <2>2, <2>3 DEF Due
<1> QED BY <1>1, <1>2, <1>3, PTL DEF Spec

-----------------------------------------------------------------------------
(***************************************************************************)
(* The table implements the abstract queue, step by step.  First the       *)
(* counting: a set and its image under a one-to-one map have as many       *)
(* elements, and of the elements of a finite set of numbers exactly n have *)
(* fewer than n below them.                                                *)
(***************************************************************************)
LEMMA SameSize ==
  ASSUME NEW S, IsFiniteSet(S), NEW T, NEW f \in [S -> T],
         \A x, y \in S : f[x] = f[y] => x = y,
         \A z \in T : \E x \in S : f[x] = z
  PROVE  IsFiniteSet(T) /\ Cardinality(T) = Cardinality(S)
<1>1. f \in Injection(S, T)
  BY Fun_IsInj
<1>2. f \in Surjection(S, T)
  BY Fun_IsSurj
<1>3. ExistsBijection(S, T)
  BY <1>1, <1>2 DEF ExistsBijection, Bijection
<1> QED BY <1>3, FS_Bijection

LEMMA Numbered ==
  ASSUME NEW S, IsFiniteSet(S), NEW n \in Nat, NEW f \in [S -> 0 .. n - 1],
         \A x, y \in S : f[x] = f[y] => x = y,
         \A v \in 0 .. n - 1 : \E x \in S : f[x] = v
  PROVE  Cardinality(S) = n
<1>1. PICK I : I = 0 .. n - 1
  OBVIOUS
<1>2. f \in [S -> I] /\ \A z \in I : \E x \in S : f[x] = z
  BY <1>1
<1>3. Cardinality(I) = Cardinality(S)
  BY <1>2, SameSize
<1> QED BY <1>1, <1>3, FS_Interval

Below(M, i) == {j \in M : j < i}

LEMMA RankRange ==
  ASSUME NEW M \in SUBSET Int, IsFiniteSet(M), NEW i \in M
  PROVE  /\ IsFiniteSet(Below(M, i)) /\ Cardinality(M) \in Nat
         /\ Cardinality(Below(M, i)) \in 0 .. Cardinality(M) - 1
<1>1. IsFiniteSet(M \ {i}) /\ Cardinality(M \ {i}) = Cardinality(M) - 1
  BY FS_RemoveElement
<1>2. i \in Int
  OBVIOUS
<1>3. Below(M, i) \in SUBSET (M \ {i})
  BY <1>2 DEF Below
<1>4. IsFiniteSet(Below(M, i)) /\ Cardinality(Below(M, i)) <= Cardinality(M \ {i})
  BY <1>1, <1>3, FS_Subset
<1>5. Cardinality(Below(M, i)) \in Nat /\ Cardinality(M) \in Nat
  BY <1>4, FS_CardinalityType
<1> QED BY <1>1, <1>4, <1>5

LEMMA RankGrows ==
  ASSUME NEW M \in SUBSET Int, IsFiniteSet(M), NEW i \in M, NEW k \in M, i < k
  PROVE  Cardinality(Below(M, i)) < Cardinality(Below(M, k))
<1>1. i \in Int /\ k \in Int /\ ~(i < i)
  OBVIOUS
<1>2. Below(M, i) \cup {i} \in SUBSET Below(M, k)
  <2> SUFFICES ASSUME NEW j \in Below(M, i) \cup {i} PROVE j \in Below(M, k)
    OBVIOUS
  <2>1. j \in M /\ (j < i \/ j = i)
    BY DEF Below
  <2>2. j \in Int /\ j < k
    BY <1>1, <2>1
  <2> QED BY <2>1, <2>2 DEF Below
<1>0. i \notin Below(M, i)
  BY <1>1, Zenon DEF Below
<1>3. IsFiniteSet(Below(M, i)) /\ IsFiniteSet(Below(M, k)) /\ Cardinality(Below(M, i)) \in Int
      /\ Cardinality(Below(M, k)) \in Int
  BY RankRange
<1>4. Cardinality(Below(M, i) \cup {i}) = Cardinality(Below(M, i)) + 1
  BY <1>0, <1>3, FS_AddElement
<1>5. Cardinality(Below(M, i) \cup {i}) <= Cardinality(Below(M, k))
  BY <1>2, <1>3, FS_Subset
<1> QED BY <1>3, <1>4, <1>5

First(M, n) == {i \in M : Cardinality(Below(M, i)) < n}

LEMMA FirstOnes ==
  ASSUME NEW M \in SUBSET Int, IsFiniteSet(M), NEW n \in Nat
  PROVE  IF Cardinality(M) <= n THEN First(M, n) = M ELSE Cardinality(First(M, n)) = n
<1> DEFINE N == Cardinality(M)
           F == First(M, n)
           rank == [i \in M |-> Cardinality(Below(M, i))]
<1>0. N \in Nat
  BY FS_CardinalityType
<1>1. \A i \in M : Cardinality(Below(M, i)) \in 0 .. N - 1
  BY RankRange
<1>2. CASE N <= n
  <2>1. \A i \in M : Cardinality(Below(M, i)) < n
    BY <1>0, <1>1, <1>2
  <2> QED BY <1>2, <2>1 DEF First
<1>3. CASE ~(N <= n)
  <2>0. \A i \in M : rank[i] = Cardinality(Below(M, i)) /\ rank[i] \in 0 .. N - 1
    BY <1>1
  <2>1. rank \in [M -> 0 .. N - 1]
    BY <1>1
  <2>2. \A i, k \in M : rank[i] = rank[k] => i = k
    <3> SUFFICES ASSUME NEW i \in M, NEW k \in M, i # k
                 PROVE  Cardinality(Below(M, i)) # Cardinality(Below(M, k))
      OBVIOUS
    <3>1. i < k \/ k < i
      OBVIOUS
    <3>2. Cardinality(Below(M, i)) \in Int /\ Cardinality(Below(M, k)) \in Int
      BY <1>1
    <3> QED BY <3>1, <3>2, RankGrows
  <2> HIDE DEF rank
  <2>3. rank \in Injection(M, 0 .. N - 1)
    BY <2>1, <2>2, Fun_IsInj
  <2>4. IsFiniteSet(0 .. N - 1) /\ Cardinality(0 .. N - 1) = N
    BY <1>0, FS_Interval
  <2>5. rank \in Surjection(M, 0 .. N - 1)
    BY <2>3, <2>4, FS_Injection
  <2>6. \A v \in 0 .. N - 1 : \E i \in M : rank[i] = v
    BY <2>5 DEF Surjection
  <2> DEFINE f == [i \in F |-> rank[i]]
  <2>7. f \in [F -> 0 .. n - 1] /\ \A i, k \in F : f[i] = f[k] => i = k
    <3>1. \A i \in F : i \in M /\ f[i] = rank[i] /\ rank[i] \in 0 .. n - 1
      BY <1>0, <2>0 DEF First
    <3>2. f \in [F -> 0 .. n - 1]
      BY <3>1
    <3> HIDE DEF f
    <3> QED BY <2>2, <3>1, <3>2
  <2>8. \A v \in 0 .. n - 1 : \E i \in F : f[i] = v
    <3> SUFFICES ASSUME NEW v \in 0 .. n - 1
                 PROVE  \E i \in F : f[i] = v
      OBVIOUS
    <3>1. v \in 0 .. N - 1 /\ v < n
      BY <1>0, <1>3
    <3>2. PICK i \in M : rank[i] = v
      BY <2>6, <3>1
    <3>3. i \in F
      BY <2>0, <3>1, <3>2 DEF First
    <3> QED BY <3>2, <3>3
  <2>9. IsFiniteSet(F)
    <3>1. F \in SUBSET M
      BY DEF First
    <3> QED BY <3>1, FS_Subset
  <2> HIDE DEF f
  <2>10. Cardinality(F) = n
    BY <2>7, <2>8, <2>9, Numbered
  <2> QED BY <1>3, <2>10
<1> QED BY <1>0, <1>2, <1>3

(* The tasks inside the loop are those the abstract queue has inside; they *)
(* are as many as the used slots.                                          *)
Waiting == {t \in Task : pc[t] = "wait"}
Used == {i \in Slot : waiters[i].used}

LEMMA InsideWaits ==
  ASSUME Inv
  PROVE  /\ Abstract!Inside = Waiting
         /\ \A t \in Task : Queue[t] # NoAddr <=> Queued(t)
<1>1. \A t \in Task : Queue[t] # NoAddr <=> Queued(t)
  BY NoAddrAssumption DEF Inv, InCall, Queue, Queued
<1>2. Abstract!Inside = {t \in Task : Queue[t] # NoAddr} \cup Signalled
  BY DEF Abstract!Inside
<1> QED BY <1>1, <1>2 DEF Waiting, Signalled, Queued

LEMMA FullTable ==
  ASSUME Inv
  PROVE  IF FreeSlots = {} THEN Cardinality(Waiting) = MaxWaiters
                           ELSE Cardinality(Waiting) < MaxWaiters
<1>1. IsFiniteSet(Slot) /\ Cardinality(Slot) = MaxWaiters
  BY MaxWaitersAssumption, FS_Interval DEF Slot
<1>2. Used \in SUBSET Slot /\ (FreeSlots = {} <=> Used = Slot)
  BY DEF Used, FreeSlots
<1>3. /\ IsFiniteSet(Used) /\ Cardinality(Used) <= MaxWaiters
      /\ Cardinality(Used) = MaxWaiters => Used = Slot
  BY <1>1, <1>2, FS_Subset
<1>4. Cardinality(Waiting) = Cardinality(Used)
  <2> DEFINE f == [i \in Used |-> waiters[i].task]
  <2>1. \A i \in Used : /\ f[i] = waiters[i].task /\ f[i] \in Waiting
                        /\ slot[f[i]] = i
    BY UsedSlot DEF Used, Waiting, Inv, SlotsOwned
  <2>2. \A t \in Waiting : slot[t] \in Used /\ f[slot[t]] = t
    BY DEF Used, Waiting, Inv, SlotsOwned, TypeOK
  <2>3. f \in [Used -> Waiting]
    BY <2>1
  <2> HIDE DEF f
  <2>4. \A x, y \in Used : f[x] = f[y] => x = y
    BY <2>1
  <2>5. \A z \in Waiting : \E x \in Used : f[x] = z
    BY <2>2
  <2> QED BY <1>3, <2>3, <2>4, <2>5, SameSize
<1>5. Cardinality(Used) \in Nat
  BY <1>3, FS_CardinalityType
<1> QED BY <1>1, <1>2, <1>3, <1>4, <1>5, MaxWaitersAssumption

(* A step that takes the tasks of D out of the loop, leaves the others     *)
(* where they wait and answers nobody.                                     *)
LEMMA SilentStep ==
  ASSUME Quiet, NEW D \in SUBSET Task,
         \A t \in D : pc'[t] # "wait",
         \A t \in Task \ D : /\ pc[t] = "wait" <=> pc'[t] = "wait"
                             /\ pc[t] = "wait" => /\ args'[t].addr = args[t].addr
                                                  /\ (waiters[slot[t]].woken <=> waiters'[slot'[t]].woken)
  PROVE  Abstract!Next
<1>1. \A t \in Task : Queued(t)' <=> (t \notin D /\ Queued(t))
  BY DEF Queued
<1>2. Queue' = [t \in Task |-> IF t \in D THEN NoAddr ELSE Queue[t]]
  <2>1. \A t \in Task : Queue'[t] = IF t \in D THEN NoAddr ELSE Queue[t]
    BY <1>1 DEF Queue, Queued
  <2> QED BY <2>1 DEF Queue
<1>3. Signalled' = Signalled \ D
  BY DEF Signalled
<1>4. Abstract!Die(D)
  BY <1>2, <1>3 DEF Abstract!Die, Abstract!Silence, Quiet, Silence
<1> QED BY <1>4 DEF Abstract!Next

(* The abstract module counts as this one does.                            *)
LEMMA SameCount ==
  \A S : Abstract!Cardinality(S) = Cardinality(S)
BY DEF Abstract!Cardinality, Cardinality

(* A call that ends before it has waited.                                  *)
LEMMA RefuseStep ==
  ASSUME Inv, NEW t \in Task, pc[t] = "call", NEW code, Leave(t, code), waiters' = waiters,
         \/ code = 0
         \/ code = -1 /\ FreeSlots = {}
         \/ code = -2 /\ FreeSlots # {}
  PROVE  Abstract!Next
<1>1. \A u \in Task : /\ pc[u] = "wait" <=> pc'[u] = "wait"
                      /\ pc[u] = "wait" => args'[u] = args[u] /\ slot'[u] = slot[u]
  BY DEF Leave, Inv, TypeOK
<1>2. \A u \in Task : Queued(u)' <=> Queued(u)
  BY <1>1 DEF Queued
<1>3. Queue' = Queue /\ Signalled' = Signalled
  BY <1>1, <1>2 DEF Queue, Signalled, Queued
<1>4. t \notin Abstract!Inside
  BY InsideWaits DEF Waiting
<1>5. Abstract!WaitAnswers(t, code)
  BY DEF Leave, WaitAnswers, Abstract!WaitAnswers
<1>6. \/ code = 0
      \/ code = -1 /\ Cardinality(Abstract!Inside) = MaxWaiters
      \/ code = -2 /\ Cardinality(Abstract!Inside) < MaxWaiters
  BY InsideWaits, FullTable
<1>7. Abstract!Refuse(t)
  BY <1>3, <1>4, <1>5, <1>6, SameCount DEF Abstract!Refuse
<1> QED BY <1>7 DEF Abstract!Next

(* A task registers in a free slot and blocks.                             *)
LEMMA JoinStep ==
  ASSUME Inv, NEW t \in Task, pc[t] = "call", Block(t), Quiet, args' = args,
         NEW i \in FreeSlots, slot' = [slot EXCEPT ![t] = i],
         waiters' = [waiters EXCEPT ![i] = [used |-> TRUE, task |-> t,
                                            addr |-> args[t].addr, woken |-> FALSE]]
  PROVE  Abstract!Next
<1>1. i \in Slot /\ ~waiters[i].used /\ FreeSlots # {}
  BY DEF FreeSlots
<1>2. /\ pc'[t] = "wait" /\ slot'[t] = i /\ ~waiters'[i].woken
      /\ \A u \in Task : u # t => pc'[u] = pc[u] /\ slot'[u] = slot[u]
      /\ \A j \in Slot : j # i => waiters'[j] = waiters[j]
  BY <1>1 DEF Inv, TypeOK, Block
<1>3. \A u \in Task : u # t /\ pc[u] = "wait" => slot[u] \in Slot /\ slot[u] # i
  BY <1>1 DEF Inv, TypeOK, SlotsOwned
<1>4. \A u \in Task : Queued(u)' <=> (u = t \/ Queued(u))
  BY <1>2, <1>3 DEF Queued
<1>5. Queue' = [Queue EXCEPT ![t] = args[t].addr]
  <2>1. \A u \in Task : Queue'[u] = IF u = t THEN args[t].addr ELSE Queue[u]
    BY <1>4 DEF Queue
  <2> QED BY <2>1 DEF Queue
<1>6. Signalled' = Signalled
  BY <1>2, <1>3 DEF Signalled
<1>7. t \notin Abstract!Inside /\ Cardinality(Abstract!Inside) < MaxWaiters
  BY <1>1, InsideWaits, FullTable DEF Waiting
<1>8. args[t].addr \in Addr
  BY DEF Inv, InCall
<1>9. Abstract!Join(t)
  BY <1>5, <1>6, <1>7, <1>8, SameCount DEF Abstract!Join, Abstract!Silence, Quiet, Silence
<1> QED BY <1>9 DEF Abstract!Next

(* A wait ends: the task was taken by a wake, or gives up.                 *)
LEMMA ReturnStep ==
  ASSUME Inv, NEW t \in Task, pc[t] = "wait", NEW code, Leave(t, code),
         waiters' = [waiters EXCEPT ![slot[t]] = Free],
         code = 0 \/ (code = -2 /\ ~waiters[slot[t]].woken)
  PROVE  Abstract!Next
<1>1. slot[t] \in Slot
  BY DEF Inv, TypeOK
<1>2. /\ pc'[t] = "user"
      /\ \A u \in Task : u # t => pc'[u] = pc[u] /\ slot'[u] = slot[u] /\ args'[u] = args[u]
      /\ \A j \in Slot : j # slot[t] => waiters'[j] = waiters[j]
  BY DEF Inv, TypeOK, Leave
<1>3. \A u \in Task : u # t /\ pc[u] = "wait" => slot[u] \in Slot /\ slot[u] # slot[t]
  BY DEF Inv, TypeOK, SlotsOwned
<1>4. \A u \in Task : /\ Queued(u)' <=> (u # t /\ Queued(u))
                      /\ u \in Signalled' <=> (u # t /\ u \in Signalled)
  BY <1>2, <1>3 DEF Queued, Signalled
<1>5. Queue' = [Queue EXCEPT ![t] = NoAddr]
  <2>1. \A u \in Task : Queue'[u] = IF u = t THEN NoAddr ELSE Queue[u]
    BY <1>2, <1>4 DEF Queue
  <2> QED BY <2>1 DEF Queue
<1>6. Signalled' = Signalled \ {t}
  BY <1>4 DEF Signalled
<1>7. Abstract!WaitAnswers(t, code)
  BY DEF Leave, WaitAnswers, Abstract!WaitAnswers
<1>8. CASE waiters[slot[t]].woken
  <2>1. t \in Signalled /\ Queue[t] = NoAddr /\ code = 0
    BY <1>8 DEF Signalled, Queue, Queued
  <2>2. Queue' = Queue
    BY <1>5, <2>1 DEF Queue
  <2>3. Abstract!Return(t)
    BY <1>6, <1>7, <2>1, <2>2 DEF Abstract!Return
  <2> QED BY <2>3 DEF Abstract!Next
<1>9. CASE ~waiters[slot[t]].woken
  <2>1. t \notin Signalled /\ Queue[t] # NoAddr
    BY <1>9, InsideWaits DEF Signalled, Queued
  <2>2. Abstract!GiveUp(t)
    BY <1>5, <1>6, <1>7, <2>1 DEF Abstract!GiveUp
  <2> QED BY <2>2 DEF Abstract!Next
<1> QED BY <1>8, <1>9

(* The waiters of an address in the table are the tasks queued at it, and  *)
(* a wake takes the first ones, as many as it was asked for.               *)
LEMMA MatchesQueued ==
  ASSUME Inv, NEW a \in Addr
  PROVE  /\ \A i \in Matches(a) : /\ i \in Slot /\ waiters[i].used
                                  /\ waiters[i].task \in Abstract!At(a)
                                  /\ slot[waiters[i].task] = i
         /\ \A t \in Abstract!At(a) : /\ t \in Task /\ pc[t] = "wait"
                                      /\ slot[t] \in Matches(a) /\ waiters[slot[t]].task = t
<1>1. \A t \in Task : t \in Abstract!At(a) <=> Queued(t) /\ args[t].addr = a
  BY NoAddrAssumption DEF Abstract!At, Queue
<1>2. \A i \in Matches(a) : /\ i \in Slot /\ waiters[i].used
                            /\ waiters[i].task \in Abstract!At(a)
                            /\ slot[waiters[i].task] = i
  BY <1>1, UsedSlot DEF Matches, Queued, Inv, SlotsOwned
<1>3. \A t \in Abstract!At(a) : /\ t \in Task /\ pc[t] = "wait"
                                /\ slot[t] \in Matches(a) /\ waiters[slot[t]].task = t
  <2> SUFFICES ASSUME NEW t \in Abstract!At(a)
               PROVE  /\ t \in Task /\ pc[t] = "wait"
                      /\ slot[t] \in Matches(a) /\ waiters[slot[t]].task = t
    OBVIOUS
  <2>1. t \in Task
    BY DEF Abstract!At
  <2> QED BY <1>1, <2>1 DEF Matches, Queued, Inv, SlotsOwned, TypeOK
<1> QED BY <1>2, <1>3

LEMMA TakenCount ==
  ASSUME Inv, NEW a \in Addr, NEW n \in Counts, NEW S, S = {waiters[i].task : i \in Taken(a, n)}
  PROVE  /\ S \in SUBSET Abstract!At(a)
         /\ Cardinality(S) = Cardinality(Taken(a, n))
         /\ IF n = 0 \/ Cardinality(Abstract!At(a)) <= n THEN S = Abstract!At(a) ELSE Cardinality(S) = n
<1> DEFINE M == Matches(a)
           T == Taken(a, n)
           A == Abstract!At(a)
<1>1. /\ \A i \in M : waiters[i].task \in A /\ slot[waiters[i].task] = i
      /\ \A t \in A : slot[t] \in M /\ waiters[slot[t]].task = t
  BY MatchesQueued
<1>2. n \in Nat
  BY CountsAssumption
<1>3. T = IF n = 0 THEN M ELSE First(M, n)
  BY DEF Taken, First, Below
<1>4. M \in SUBSET Int /\ IsFiniteSet(M)
  <2>1. IsFiniteSet(Slot) /\ Slot \subseteq Int
    BY MaxWaitersAssumption, FS_Interval DEF Slot
  <2>2. M \in SUBSET Slot
    BY DEF Matches
  <2> QED BY <2>1, <2>2, FS_Subset
<1>5. T \in SUBSET M /\ IsFiniteSet(T)
  <2>1. T \in SUBSET M
    BY <1>3 DEF First
  <2> QED BY <1>4, <2>1, FS_Subset
<1> HIDE DEF M, T, A
<1>6. S = {waiters[i].task : i \in T}
  BY DEF T
<1>7. Cardinality(A) = Cardinality(M)
  <2> DEFINE f == [i \in M |-> waiters[i].task]
  <2>1. f \in [M -> A]
    BY <1>1
  <2>2. \A i \in M : slot[f[i]] = i
    BY <1>1
  <2>3. \A t \in A : slot[t] \in M /\ f[slot[t]] = t
    BY <1>1
  <2> HIDE DEF f
  <2>4. \A x, y \in M : f[x] = f[y] => x = y
    BY <2>2
  <2>5. \A z \in A : \E x \in M : f[x] = z
    BY <2>3
  <2> QED BY <1>4, <2>1, <2>4, <2>5, SameSize
<1>8. Cardinality(S) = Cardinality(T)
  <2> DEFINE f == [i \in T |-> waiters[i].task]
  <2>1. f \in [T -> S]
    BY <1>6
  <2>2. \A i \in T : slot[f[i]] = i
    BY <1>1, <1>5
  <2>3. \A t \in S : \E i \in T : f[i] = t
    BY <1>6
  <2> HIDE DEF f
  <2>4. \A x, y \in T : f[x] = f[y] => x = y
    BY <2>2
  <2> QED BY <1>5, <2>1, <2>3, <2>4, SameSize
<1>9. S \in SUBSET A /\ (T = M => S = A)
  BY <1>1, <1>5, <1>6
<1>10. CASE n = 0
  BY <1>3, <1>8, <1>9, <1>10 DEF A, T
<1>11. CASE n # 0
  <2>1. IF Cardinality(M) <= n THEN T = M ELSE Cardinality(T) = n
    BY <1>2, <1>3, <1>4, <1>11, FirstOnes
  <2> QED BY <1>7, <1>8, <1>9, <1>11, <2>1 DEF A, T
<1> QED BY <1>10, <1>11

(* futex_wake takes them out of the queue and answers how many.            *)
LEMMA WakeStep ==
  ASSUME Inv, NEW t \in Task, NEW a \in Addr, NEW n \in Counts, Wake(t, a, n)
  PROVE  Abstract!Next
<1> DEFINE S == {waiters[i].task : i \in Taken(a, n)}
<1>1. /\ S \in SUBSET Abstract!At(a)
      /\ Cardinality(S) = Cardinality(Taken(a, n))
      /\ IF n = 0 \/ Cardinality(Abstract!At(a)) <= n THEN S = Abstract!At(a) ELSE Cardinality(S) = n
  BY TakenCount
<1>2. /\ pc' = pc /\ slot' = slot /\ args' = args
      /\ answer' = [call |-> "wake", arg |-> <<a, n>>, code |-> Cardinality(Taken(a, n))]
  BY DEF Wake, WakeAnswers
<1>3. \A i \in Slot : waiters'[i].woken <=> (i \in Taken(a, n) \/ waiters[i].woken)
  <2>1. \A i \in Taken(a, n) : waiters[i] \in Waiter \ {Free}
    BY DEF Taken, Matches, Inv, TypeOK, Free
  <2>2. \A i \in Slot : i \in Taken(a, n) => waiters'[i].woken
    BY <2>1 DEF Wake, Waiter
  <2>3. \A i \in Slot : i \notin Taken(a, n) => waiters'[i] = waiters[i]
    BY DEF Wake
  <2> QED BY <2>2, <2>3
<1>4. \A u \in Task : pc[u] = "wait" => (u \in S <=> slot[u] \in Taken(a, n)) /\ slot[u] \in Slot
  <2> SUFFICES ASSUME NEW u \in Task, pc[u] = "wait"
               PROVE  (u \in S <=> slot[u] \in Taken(a, n)) /\ slot[u] \in Slot
    OBVIOUS
  <2>1. waiters[slot[u]].task = u /\ slot[u] \in Slot
    BY DEF Inv, SlotsOwned, TypeOK
  <2>2. \A i \in Taken(a, n) : i \in Matches(a)
    BY DEF Taken
  <2>3. \A i \in Taken(a, n) : slot[waiters[i].task] = i
    BY <2>2, MatchesQueued
  <2> QED BY <2>1, <2>3
<1>5. \A u \in S : u \in Task /\ pc[u] = "wait"
  BY <1>1, MatchesQueued
<1> HIDE DEF S
<1>6. \A u \in Task : Queued(u)' <=> (u \notin S /\ Queued(u))
  BY <1>2, <1>3, <1>4, <1>5 DEF Queued
<1>7. Queue' = [u \in Task |-> IF u \in S THEN NoAddr ELSE Queue[u]]
  <2>1. \A u \in Task : Queue'[u] = IF u \in S THEN NoAddr ELSE Queue[u]
    BY <1>2, <1>6 DEF Queue
  <2> QED BY <2>1 DEF Queue
<1>8. Signalled' = Signalled \cup S
  BY <1>2, <1>3, <1>4, <1>5 DEF Signalled
<1>9. Abstract!WakeAnswers(a, n, Cardinality(S))
  BY <1>1, <1>2 DEF Abstract!WakeAnswers
<1>10. Abstract!Wake(a, n)
  BY <1>1, <1>7, <1>8, <1>9, SameCount DEF Abstract!Wake
<1> QED BY <1>10 DEF Abstract!Next

LEMMA QueueInit ==
  ASSUME Init
  PROVE  Abstract!Init
<1>1. Queue = [t \in Task |-> NoAddr] /\ Signalled = {}
  BY DEF Init, Queue, Queued, Signalled
<1> QED BY <1>1 DEF Init, Abstract!Init, Abstract!Silence, Silence

LEMMA QueueNext ==
  ASSUME Inv, [Next]_vars
  PROVE  [Abstract!Next]_(Abstract!vars)
<1>0. \A t \in Task : slot[t] \in Slot /\ pc[t] \in {"user", "call", "wait"}
  BY DEF Inv, TypeOK
<1>1. ASSUME Quiet, waiters' = waiters, slot' = slot, args' = args,
             \A t \in Task : pc[t] = "wait" <=> pc'[t] = "wait"
      PROVE  Abstract!Next
  <2>1. {} \in SUBSET Task /\ \A t \in Task \ {} : t \in Task
    OBVIOUS
  <2> QED BY <1>1, <2>1, SilentStep
<1>2. ASSUME NEW t \in Task, Enter(t) PROVE Abstract!Next
  <2>1. pc[t] = "call"
    BY <1>2 DEF Enter, Ready
  <2>2. CASE /\ waiters' = waiters
             /\ \/ Leave(t, 0)
                \/ Leave(t, -1) /\ FreeSlots = {}
                \/ Leave(t, -2) /\ FreeSlots # {}
    BY <2>1, <2>2, RefuseStep
  <2>3. CASE /\ \E i \in FreeSlots :
                  /\ slot' = [slot EXCEPT ![t] = i]
                  /\ waiters' = [waiters EXCEPT ![i] = [used |-> TRUE, task |-> t,
                                                        addr |-> args[t].addr, woken |-> FALSE]]
             /\ Block(t) /\ Quiet /\ args' = args
    BY <2>1, <2>3, JoinStep
  <2> QED BY <1>2, <2>2, <2>3 DEF Enter
<1>3. ASSUME NEW t \in Task, Resume(t) PROVE Abstract!Next
  <2>1. pc[t] = "wait"
    BY <1>3 DEF Resume, Ready
  <2>2. CASE /\ waiters' = [waiters EXCEPT ![slot[t]] = Free]
             /\ Leave(t, IF Ends(t) THEN 0 ELSE -2)
    <3>1. CASE Ends(t)
      BY <2>1, <2>2, <3>1, ReturnStep
    <3>2. CASE ~Ends(t)
      BY <2>1, <2>2, <3>2, ReturnStep DEF Ends
    <3> QED BY <3>1, <3>2
  <2>3. CASE Block(t) /\ Quiet /\ waiters' = waiters /\ slot' = slot /\ args' = args
    <3>1. \A u \in Task : pc[u] = "wait" <=> pc'[u] = "wait"
      BY <2>1, <2>3 DEF Block, Inv, TypeOK
    <3> QED BY <1>1, <2>3, <3>1
  <2> QED BY <1>3, <2>2, <2>3 DEF Resume
<1>4. ASSUME NEW t \in Task, NEW a \in Addr, NEW v \in Value, NEW d \in Timeouts, Call(t, a, v, d)
      PROVE  Abstract!Next
  <2>1. /\ Quiet /\ waiters' = waiters /\ slot' = slot
        /\ \A u \in Task : /\ pc[u] = "wait" <=> pc'[u] = "wait"
                           /\ pc[u] = "wait" => args'[u] = args[u]
    BY <1>4 DEF Call, Ready, Inv, TypeOK
  <2>2. {} \in SUBSET Task
    OBVIOUS
  <2> QED BY <2>1, <2>2, SilentStep
<1>5. ASSUME NEW p \in Proc, Kill(p) PROVE Abstract!Next
  <2> DEFINE dead == {t \in Task : ProcOf[t] = p}
  <2>1. Quiet /\ \A t \in dead : pc'[t] # "wait"
    BY <1>5 DEF Kill
  <2>2. \A t \in Task \ dead : pc'[t] = pc[t] /\ slot'[t] = slot[t] /\ args'[t] = args[t]
    BY <1>5 DEF Kill
  <2>3. \A t \in Task \ dead : pc[t] = "wait" => waiters'[slot[t]] = waiters[slot[t]]
    <3> SUFFICES ASSUME NEW t \in Task \ dead, pc[t] = "wait"
                 PROVE  waiters'[slot[t]] = waiters[slot[t]]
      OBVIOUS
    <3>1. slot[t] \in Slot /\ waiters[slot[t]].task = t
      BY <1>0 DEF Inv, SlotsOwned
    <3> QED BY <1>5, <3>1 DEF Kill
  <2>4. dead \in SUBSET Task
    OBVIOUS
  <2> HIDE DEF dead
  <2> QED BY <2>1, <2>2, <2>3, <2>4, SilentStep
<1>6. ASSUME NEW t \in Task, StrayWake(t) \/ \E a \in Addr, v \in Value : Store(t, a, v)
      PROVE  Abstract!Next
  BY <1>1, <1>6 DEF StrayWake, Store
<1>7. ASSUME NEW p \in Proc, Recreate(p) PROVE Abstract!Next
  BY <1>1, <1>7 DEF Recreate
<1>8. CASE Tick
  BY <1>1, <1>8 DEF Tick
<1>9. CASE UNCHANGED vars
  <2>1. Queue' = Queue /\ Signalled' = Signalled /\ answer' = answer
    BY <1>9 DEF vars, Queue, Queued, Signalled
  <2> QED BY <2>1 DEF Abstract!vars
<1> QED BY <1>2, <1>3, <1>4, <1>5, <1>6, <1>7, <1>8, <1>9, WakeStep DEF Next

(* The table of waiters, as it is searched, marked and freed, implements   *)
(* the abstract queue: a wake takes as many of the tasks that wait at its  *)
(* address as it was asked for, a wait is refused for want of a slot only  *)
(* when that many tasks are inside, and every call answers what the        *)
(* abstract one does.                                                      *)
THEOREM FutexSteps == Spec => StepsOfWaitQueue
<1>1. Init => Inv /\ Abstract!Init
  BY InvInit, QueueInit
<1>2. Inv /\ [Next]_vars => Inv' /\ [Abstract!Next]_(Abstract!vars)
  BY InvNext, QueueNext
<1> QED BY <1>1, <1>2, PTL DEF Spec, StepsOfWaitQueue
=============================================================================
