--------------------------- MODULE ProcessProofs ---------------------------
(***************************************************************************)
(* Proofs about Process for every number of slots, kernel stacks and user  *)
(* stacks and every mix of system calls, where no reap is interrupted      *)
(* half-way and nobody kills a slot under construction.                    *)
(*                                                                         *)
(* ProcessSafe needs no more than that; WaitersSafe and ZombiesSafe are    *)
(* about processes without threads, ThreadStacksSafe about a system where  *)
(* nobody kills.                                                           *)
(***************************************************************************)
EXTENDS Process, TLAPS

-----------------------------------------------------------------------------
(* The inductive invariant.                                                *)

Calm == ~Preemptible /\ ~KillUnborn

Able(i) == Used(i) /\ state[i] \in {"READY", "BLOCKED"}
Unborn(i) == Used(i) /\ state[i] = "CREATING"
Settled(i) == Able(i) \/ (Unborn(i) /\ owner[i] = i)

Building == {"alloc", "created", "arm"}
Creates(l) == l.pc \in Creating \/ l.for \in Creating

(* The locals l of a task t agree with the program point they are at: who  *)
(* is in the kernel may run, or is blocked in waitpid ...                  *)
InPlace(t, l) ==
  /\ l.pc = "user" => l = InUser
  /\ l.pc # "user" =>
       Used(t) /\ (state[t] = "READY" \/ (state[t] = "BLOCKED" /\ l.pc = "woken"))

(* ... a slot that is being reaped or was just picked is dead ...          *)
HasSlot == {"reap_dead", "pick", "picked", "forget"} \cup MidReap
HasDeadSlot == (MidReap \ {"reap"}) \cup {"picked"}
Reaps(t, l) ==
  /\ l.pc \in HasSlot => l.i >= 1
  /\ l.pc \in HasDeadSlot \/ (l.pc = "reap" /\ l.for # "reap_dead") =>
       Used(l.i) /\ state[l.i] = "DEAD"
  /\ l.pc \in MidReap => l.for # "none"
  /\ l.pc \in MidReap /\ l.for = "joined" => l.i = l.id
  /\ l.pc \in {"join", "kill"} => Used(l.id)
  /\ l.pc \in {"reap_dead", "forgotten", "joined"} => l.for = l.pc
  /\ l.pc \in {"reap_free", "reap_zero"} => l.stk # NoStack /\ l.stk = kstack[l.i]
  /\ l.pc = "reap_zero" => l.stk \in free_stacks

(* ... and a creator holds the lock until his slot is complete.            *)
Makes(t, l) ==
  /\ Creates(l) => locked = t
  /\ Creates(l) \/ l.pc \in {"create", "arm"} => l.own = owner[t]
  /\ l.pc \in Building => Unborn(l.id) /\ l.for = "none"
  /\ l.pc = "alloc" => kstack[l.id] = NoStack
  /\ l.pc \in {"created", "arm"} =>
       owner[l.id] = l.id /\ proc[l.id] # "ZOMBIE" /\ kstack[l.id] # NoStack

Local(t, l) == InPlace(t, l) /\ Reaps(t, l) /\ Makes(t, l)
Locally == \A t \in Slot : Local(t, loc[t])

(* No two creators build the same slot.                                    *)
Apart ==
  \A t, u \in Slot : t # u /\ loc[t].pc \in Building /\ loc[u].pc \in Building
                       => loc[t].id # loc[u].id

(* A slot beyond num_tasks has never been used, and nobody works in slot 0.*)
Fresh ==
  /\ \A i \in Slot : i >= num_tasks => state[i] = "DEAD" /\ owner[i] = 0 /\ kstack[i] = NoStack
  /\ state[0] = "READY" /\ owner[0] = 0 /\ kstack[0] = NoStack

(* The owner of a task that may run is a process, and never the slot that  *)
(* is under construction or the process that this slot used to belong to.  *)
Mains == \A j \in Slot : Able(j) => owner[j] >= 1 /\ owner[owner[j]] = owner[j]
Unowned ==
  \A d, j \in Slot : d # j /\ Unborn(d) /\ Settled(j) => owner[j] # d /\ owner[j] # owner[d]

(* A slot that still has its old owner is the one that the holder of the   *)
(* creation lock is at work on, or its creator was killed with the lock.   *)
Orphans ==
  \A d \in Slot : Unborn(d) /\ owner[d] # d =>
    /\ locked # NoTask
    /\ \A t \in Slot : Creates(loc[t]) => loc[t].pc = "alloc" /\ loc[t].id = d

(* Only in the middle of a reap is a stack both free and in a slot.        *)
Stacked ==
  /\ \A i \in Slot : Able(i) => kstack[i] # NoStack
  /\ \A i \in Slot : kstack[i] # NoStack /\ kstack[i] \in free_stacks =>
       \E t \in Slot : loc[t].pc = "reap_zero" /\ loc[t].i = i
  /\ \A i, j \in Slot : i # j /\ kstack[i] # NoStack => kstack[i] # kstack[j]
  /\ \A s \in Stacks : s \in free_stacks \/ \E i \in Slot : kstack[i] = s

Owners == Fresh /\ Mains /\ Unowned /\ Orphans
Inv == Calm /\ TypeOK /\ Locally /\ Apart /\ Owners /\ Stacked /\ ZombieIsDead

LEMMA InvImplies == Inv => CreatorsSerialized /\ StacksExclusive /\ ZombieIsDead
<1> SUFFICES ASSUME Inv PROVE CreatorsSerialized /\ StacksExclusive
  BY DEF Inv
<1> USE DEF Inv, Locally, Local, NoTask
<1>1. CreatorsSerialized
  BY DEF CreatorsSerialized, Makes, Creates, Apart, Building, Unborn
<1>2. ASSUME NEW i \in Slot, Used(i), state[i] \in {"READY", "BLOCKED"}
      PROVE  kstack[i] # NoStack /\ kstack[i] \notin free_stacks
  <2>1. kstack[i] # NoStack
    BY <1>2 DEF Stacked, Able
  <2>2. ~ \E t \in Slot : loc[t].pc = "reap_zero" /\ loc[t].i = i
    BY <1>2 DEF Reaps, HasDeadSlot, MidReap
  <2> QED BY <2>1, <2>2 DEF Stacked
<1>3. Stacks \subseteq free_stacks \cup {kstack[i] : i \in Slot}
  BY DEF Stacked
<1> QED BY <1>1, <1>2, <1>3 DEF StacksExclusive, Stacked

LEMMA UsedIsSlot ==
  ASSUME TypeOK, NEW i, Used(i)
  PROVE  i \in Slot /\ i \in 1 .. N - 1
<1>1. num_tasks \in 2 .. N
  BY DEF TypeOK
<1> QED BY <1>1, NAssumption DEF Used, Slot

LEMMA InvInit == Calm /\ Init => Inv
<1> SUFFICES ASSUME Calm, Init PROVE Inv
  OBVIOUS
<1> USE NAssumption, KernelStacksAssumption, UserStacksAssumption DEF Init, Slot, NoStack, NoTask, InUser, Stacks
<1>1. TypeOK
  BY DEF TypeOK, State, Locals, MidReap, NoInfo
<1>2. Locally
  BY DEF Locally, Local, InPlace, Reaps, Makes, Creates, Creating, Building, HasSlot, HasDeadSlot, MidReap
<1>3. Apart
  BY DEF Apart, Building
<1>4. Owners
  <2>1. Fresh
    BY DEF Fresh
  <2>2. Mains
    BY DEF Mains, Able, Used
  <2>3. Unowned /\ Orphans
    BY DEF Unowned, Orphans, Unborn
  <2> QED BY <2>1, <2>2, <2>3 DEF Owners
<1>5. Stacked
  <2>1. 1 \in Slot /\ kstack[1] = 1 /\ \A i \in Slot \ {1} : kstack[i] = NoStack
    OBVIOUS
  <2>2. \A s \in Stacks : s \in free_stacks \/ s = 1
    OBVIOUS
  <2>3. \A i \in Slot : Able(i) => i = 1
    BY DEF Able, Used
  <2>4. \A i \in Slot : kstack[i] # NoStack => i = 1 /\ kstack[i] \notin free_stacks
    BY <2>1
  <2> HIDE DEF Init
  <2> QED BY <2>1, <2>2, <2>3, <2>4 DEF Stacked
<1>6. ZombieIsDead
  BY DEF ZombieIsDead
<1> QED BY <1>1, <1>2, <1>3, <1>4, <1>5, <1>6 DEF Inv

-----------------------------------------------------------------------------
(* Steps that only move task t: it goes on to other locals, keeps away     *)
(* from the slots under construction, and takes no lock.                   *)

Points == {"user", "create", "reap_dead", "pick", "picked", "alloc", "created", "arm",
           "wait", "block", "woken", "found", "forget", "join", "kill"} \cup MidReap

LEMMA GotoIs ==
  ASSUME loc \in [Slot -> Locals], NEW t \in Slot, NEW p \in Points, Goto(t, p)
  PROVE  /\ loc' \in [Slot -> Locals] /\ \A u \in Slot \ {t} : loc'[u] = loc[u]
         /\ loc'[t].pc = p /\ loc'[t].for = loc[t].for /\ loc'[t].i = loc[t].i
         /\ loc'[t].stk = loc[t].stk /\ loc'[t].id = loc[t].id
         /\ loc'[t].own = loc[t].own /\ loc'[t].us = loc[t].us
BY DEF Goto, Locals, Points

LEMMA ContinueIs ==
  ASSUME loc \in [Slot -> Locals], NEW t \in Slot, NEW p \in Points, NEW i \in 0 .. N,
         Continue(t, p, i)
  PROVE  /\ loc' \in [Slot -> Locals] /\ \A u \in Slot \ {t} : loc'[u] = loc[u]
         /\ loc'[t].pc = p /\ loc'[t].for = loc[t].for /\ loc'[t].i = i
         /\ loc'[t].stk = loc[t].stk /\ loc'[t].id = loc[t].id
         /\ loc'[t].own = loc[t].own /\ loc'[t].us = loc[t].us
<1> DEFINE moved == [loc EXCEPT ![t].pc = p]
<1>1. moved \in [Slot -> Locals]
  BY DEF Locals, Points
<1>2. moved[t].pc = p /\ moved[t].for = loc[t].for /\ moved[t].stk = loc[t].stk
      /\ moved[t].id = loc[t].id /\ moved[t].own = loc[t].own /\ moved[t].us = loc[t].us
  BY DEF Locals
<1>3. loc' = [moved EXCEPT ![t].i = i]
  BY DEF Continue
<1> HIDE DEF moved
<1>4. loc' \in [Slot -> Locals] /\ loc'[t] = [moved[t] EXCEPT !.i = i]
  BY <1>1, <1>3 DEF Locals
<1>5. \A u \in Slot \ {t} : loc'[u] = loc[u]
  BY <1>1, <1>3 DEF moved
<1> QED BY <1>1, <1>2, <1>4, <1>5 DEF Locals

LEMMA InUserType == InUser \in Locals
BY NAssumption, UserStacksAssumption DEF InUser, Locals, NoStack, Slot

LEMMA ReturnIs ==
  ASSUME loc \in [Slot -> Locals], NEW t \in Slot, Return(t)
  PROVE  /\ loc' \in [Slot -> Locals] /\ \A u \in Slot \ {t} : loc'[u] = loc[u]
         /\ loc'[t] = InUser
BY InUserType DEF Return

(* A task in user mode or in a call that holds nothing fits in anywhere.   *)
LEMMA UserIsLocal ==
  ASSUME NEW t
  PROVE  Local(t, InUser)
BY DEF Local, InPlace, Reaps, Makes, Creates, Creating, Building, HasSlot, HasDeadSlot, MidReap, InUser

Remain == UNCHANGED <<state, owner, num_tasks, kstack, free_stacks, locked>>

LEMMA MoveKeepsInv ==
  ASSUME Inv, TypeOK', NEW t \in Slot, \A u \in Slot \ {t} : loc'[u] = loc[u],
         Remain, \A p \in Slot : proc'[p] = "ZOMBIE" => proc[p] = "ZOMBIE",
         loc[t].pc \notin Building \cup {"reap_zero"}, loc'[t].pc \notin Building,
         Creates(loc'[t]) => Creates(loc[t]),
         Local(t, loc'[t])
  PROVE  Inv'
<1> USE DEF Inv, Remain
<1>1. Locally'
  <2> SUFFICES ASSUME NEW u \in Slot PROVE Local(u, loc[u])'
    BY DEF Locally
  <2>1. Local(u, loc'[u])
    BY DEF Locally
  <2>2. InPlace(u, loc[u])' /\ Reaps(u, loc[u])'
    BY <2>1 DEF Local, InPlace, Reaps, Used
  <2>3. (loc[u].pc \in {"created", "arm"})' => loc'[u] = loc[u]
    BY DEF Building
  <2>4. (loc[u].pc \in {"created", "arm"})' => loc[u].id \in Slot
    <3>1. loc[u].pc \in {"created", "arm"} => Unborn(loc[u].id)
      BY DEF Locally, Local, Makes, Building
    <3> QED BY <2>3, <3>1, UsedIsSlot DEF Unborn
  <2>5. Makes(u, loc[u])'
    BY <2>1, <2>3, <2>4 DEF Local, Makes, Unborn, Used, Creates
  <2> QED BY <2>2, <2>5 DEF Local
<1>2. Apart'
  BY DEF Apart
<1>3. Owners'
  <2>1. Fresh' /\ Mains' /\ Unowned'
    BY DEF Owners, Fresh, Mains, Unowned, Able, Unborn, Settled, Used
  <2>2. Orphans'
    <3> SUFFICES ASSUME NEW d \in Slot, Unborn(d), owner[d] # d
                 PROVE  locked # NoTask /\ \A u \in Slot : Creates(loc'[u]) => loc'[u].pc = "alloc" /\ loc'[u].id = d
      BY DEF Orphans, Unborn, Used
    <3>1. locked # NoTask /\ \A u \in Slot : Creates(loc[u]) => loc[u].pc = "alloc" /\ loc[u].id = d
      BY DEF Owners, Orphans
    <3> QED BY <3>1 DEF Building
  <2> QED BY <2>1, <2>2 DEF Owners
<1>4. Stacked'
  <2> SUFFICES ASSUME NEW i \in Slot, kstack[i] # NoStack, kstack[i] \in free_stacks
               PROVE  \E u \in Slot : loc'[u].pc = "reap_zero" /\ loc'[u].i = i
    BY DEF Stacked, Able, Used
  <2> PICK u \in Slot : loc[u].pc = "reap_zero" /\ loc[u].i = i
    BY DEF Stacked
  <2> QED OBVIOUS
<1>5. ZombieIsDead'
  BY DEF ZombieIsDead, Of, Used
<1> QED BY <1>1, <1>2, <1>3, <1>4, <1>5 DEF Calm

LEMMA AtIs ==
  ASSUME Inv, NEW t \in Slot, NEW p, At(t, p)
  PROVE  /\ Used(t) /\ state[t] = "READY" /\ loc[t].pc = p /\ Local(t, loc[t])
         /\ loc \in [Slot -> Locals] /\ loc[t] \in Locals
         /\ t \in 1 .. N - 1 /\ num_tasks \in 2 .. N
         /\ \A u \in Slot \ {t} : loc[u].pc \notin MidReap
BY UsedIsSlot DEF Inv, At, Locally, Calm, TypeOK

LEMMA StillTyped ==
  ASSUME TypeOK, loc' \in [Slot -> Locals], Remain, UNCHANGED parent,
         proc' \in [Slot -> {"UNUSED", "RUNNING", "ZOMBIE"}],
         wait_waiters' \in [Slot -> SUBSET Slot],
         thread_info' \in [Slot -> [owner : Slot, slot : 0 .. UserStacks]],
         thread_slots' \in [Slot -> SUBSET (1 .. UserStacks)]
  PROVE  TypeOK'
BY DEF TypeOK, Remain

(* The usual case.                                                         *)
LEMMA OnlyMoves ==
  ASSUME Inv, NEW t \in Slot, loc' \in [Slot -> Locals],
         \A u \in Slot \ {t} : loc'[u] = loc[u],
         UNCHANGED <<table, stacks, procs, threads, locked>>,
         loc[t].pc \notin Building \cup {"reap_zero"}, loc'[t].pc \notin Building,
         Creates(loc'[t]) => Creates(loc[t]),
         Local(t, loc'[t])
  PROVE  Inv'
<1>1. Remain /\ UNCHANGED <<parent, threads>> /\ proc' = proc /\ wait_waiters' = wait_waiters
  BY DEF Remain, table, stacks, procs, threads
<1>2. TypeOK'
  <2>1. TypeOK
    BY DEF Inv
  <2>2. /\ proc' \in [Slot -> {"UNUSED", "RUNNING", "ZOMBIE"}]
        /\ wait_waiters' \in [Slot -> SUBSET Slot]
        /\ thread_info' \in [Slot -> [owner : Slot, slot : 0 .. UserStacks]]
        /\ thread_slots' \in [Slot -> SUBSET (1 .. UserStacks)]
    BY <1>1, <2>1 DEF TypeOK, threads
  <2> QED BY <1>1, <2>1, <2>2, StillTyped
<1> QED BY <1>1, <1>2, MoveKeepsInv

-----------------------------------------------------------------------------
(* Reaping.                                                                *)

LEMMA ReapStep == ASSUME Inv, NEW t \in Slot, Reap(t) PROVE Inv'
<1> DEFINE i == loc[t].i
<1>1. /\ Used(t) /\ state[t] = "READY" /\ loc[t].pc = "reap" /\ Local(t, loc[t])
      /\ loc \in [Slot -> Locals] /\ loc[t] \in Locals /\ t \in 1 .. N - 1
  BY AtIs DEF Reap
<1>2. loc[t].for \in {"reap_dead", "picked", "forgotten", "joined"} /\ i >= 1
  BY <1>1 DEF Local, Reaps, Locals, MidReap, HasSlot
<1>3. UNCHANGED <<table, stacks, procs, threads, locked>>
  BY DEF Reap
<1>4. CASE (~Used(i) \/ i = t \/ state[i] # "DEAD") /\ Goto(t, loc[t].for)
  <2>1. loc[t].for = "reap_dead"
    BY <1>1, <1>2, <1>4 DEF Local, Reaps
  <2>2. /\ loc' \in [Slot -> Locals] /\ \A u \in Slot \ {t} : loc'[u] = loc[u]
        /\ loc'[t].pc = "reap_dead" /\ loc'[t].for = "reap_dead" /\ loc'[t].i = i
        /\ loc'[t].own = loc[t].own
    BY <1>1, <1>4, <2>1, GotoIs DEF Points
  <2>3. Creates(loc[t])
    BY <2>1 DEF Creates, Creating
  <2>4. Local(t, loc'[t])
    BY <1>1, <1>2, <2>2, <2>3 DEF Local, InPlace, Reaps, Makes, Building, HasSlot, HasDeadSlot, MidReap
  <2> QED BY <1>1, <1>3, <2>2, <2>3, <2>4, OnlyMoves DEF Building
<1>5. CASE Used(i) /\ i # t /\ state[i] = "DEAD" /\ kstack[i] = NoStack /\ Goto(t, "reap_owner")
  <2>1. /\ loc' \in [Slot -> Locals] /\ \A u \in Slot \ {t} : loc'[u] = loc[u]
        /\ loc'[t].pc = "reap_owner" /\ loc'[t].for = loc[t].for /\ loc'[t].i = i
        /\ loc'[t].own = loc[t].own /\ loc'[t].id = loc[t].id
    BY <1>1, <1>5, GotoIs DEF Points, MidReap
  <2>2. Creates(loc'[t]) => Creates(loc[t])
    BY <2>1 DEF Creates, Creating
  <2>3. Local(t, loc'[t])
    BY <1>1, <1>2, <1>5, <2>1, <2>2 DEF Local, InPlace, Reaps, Makes, Building, HasSlot, HasDeadSlot, MidReap
  <2> QED BY <1>1, <1>3, <2>1, <2>2, <2>3, OnlyMoves DEF Building
<1>6. CASE /\ Used(i) /\ i # t /\ state[i] = "DEAD" /\ kstack[i] # NoStack
           /\ loc' = [loc EXCEPT ![t].pc = "reap_free", ![t].stk = kstack[i]]
  <2>1. kstack[i] \in Stacks \cup {NoStack}
    BY <1>6, UsedIsSlot DEF Inv, TypeOK
  <2>2. loc' = [loc EXCEPT ![t] = [loc[t] EXCEPT !.pc = "reap_free", !.stk = kstack[i]]]
    BY <1>1, <1>6
  <2>3. [loc[t] EXCEPT !.pc = "reap_free", !.stk = kstack[i]] \in Locals
    BY <1>1, <2>1 DEF Locals, MidReap
  <2>4. /\ loc' \in [Slot -> Locals] /\ \A u \in Slot \ {t} : loc'[u] = loc[u]
        /\ loc'[t].pc = "reap_free" /\ loc'[t].for = loc[t].for /\ loc'[t].i = i
        /\ loc'[t].own = loc[t].own /\ loc'[t].id = loc[t].id /\ loc'[t].stk = kstack[i]
    BY <1>1, <2>2, <2>3 DEF Locals
  <2>5. Creates(loc'[t]) => Creates(loc[t])
    BY <2>4 DEF Creates, Creating
  <2>6. Local(t, loc'[t])
    BY <1>1, <1>2, <1>6, <2>4, <2>5 DEF Local, InPlace, Reaps, Makes, Building, HasSlot, HasDeadSlot, MidReap
  <2> QED BY <1>1, <1>3, <2>4, <2>5, <2>6, OnlyMoves DEF Building
<1> QED BY <1>4, <1>5, <1>6 DEF Reap

(* What the task in slot i leaves behind when it is released.              *)
LEMMA ReapOwnerStep == ASSUME Inv, NEW t \in Slot, ReapOwner(t) PROVE Inv'
<1> DEFINE i == loc[t].i
<1>1. /\ Used(t) /\ state[t] = "READY" /\ loc[t].pc = "reap_owner" /\ Local(t, loc[t])
      /\ loc \in [Slot -> Locals] /\ loc[t] \in Locals /\ t \in 1 .. N - 1
  BY AtIs DEF ReapOwner
<1>2. /\ loc[t].for \in {"reap_dead", "picked", "forgotten", "joined"}
      /\ Used(i) /\ state[i] = "DEAD" /\ i \in Slot
  <2>1. Used(i) /\ state[i] = "DEAD" /\ loc[t].for # "none"
    BY <1>1 DEF Local, Reaps, MidReap, HasDeadSlot
  <2> QED BY <1>1, <2>1, UsedIsSlot DEF Locals, Inv
<1>3. /\ loc' \in [Slot -> Locals] /\ \A u \in Slot \ {t} : loc'[u] = loc[u]
      /\ loc'[t].pc = loc[t].for /\ loc'[t].for = loc[t].for /\ loc'[t].i = i
      /\ loc'[t].own = loc[t].own /\ loc'[t].id = loc[t].id
  <2>1. loc[t].for \in Points
    BY <1>2 DEF Points, MidReap
  <2> QED BY <1>1, <2>1, GotoIs DEF ReapOwner
<1>4. Creates(loc'[t]) => Creates(loc[t])
  BY <1>2, <1>3 DEF Creates, Creating
<1>5. Local(t, loc'[t])
  BY <1>1, <1>2, <1>3, <1>4 DEF Local, InPlace, Reaps, Makes, Building, HasSlot, HasDeadSlot, MidReap, Creates, Creating
<1>6. Remain /\ UNCHANGED <<parent, proc, wait_waiters>>
  BY DEF ReapOwner, Remain, table, stacks, procs
<1>7. TypeOK'
  <2>1. thread_info[i] \in [owner : Slot, slot : 0 .. UserStacks]
    BY <1>2 DEF Inv, TypeOK
  <2>2. NoInfo \in [owner : Slot, slot : 0 .. UserStacks]
    BY NAssumption, UserStacksAssumption DEF NoInfo, Slot
  <2>3. /\ thread_info' \in [Slot -> [owner : Slot, slot : 0 .. UserStacks]]
        /\ thread_slots' \in [Slot -> SUBSET (1 .. UserStacks)]
    <3>1. CASE ReleaseThread(i)
      BY <1>2, <2>1, <2>2, <3>1 DEF ReleaseThread, Inv, TypeOK
    <3>2. CASE CleanupProcess(i)
      BY <1>2, <2>2, <3>2 DEF CleanupProcess, Inv, TypeOK
    <3> QED BY <3>1, <3>2 DEF ReapOwner, threads, Inv, TypeOK
  <2>4. TypeOK
    BY DEF Inv
  <2>5. /\ proc' \in [Slot -> {"UNUSED", "RUNNING", "ZOMBIE"}]
        /\ wait_waiters' \in [Slot -> SUBSET Slot]
    BY <1>6, <2>4 DEF TypeOK
  <2> QED BY <1>3, <1>6, <2>3, <2>4, <2>5, StillTyped
<1> QED BY <1>1, <1>2, <1>3, <1>4, <1>5, <1>6, <1>7, MoveKeepsInv DEF Building

-----------------------------------------------------------------------------
(* The scans of the creator, waitpid and join that change nothing but      *)
(* where the task is.                                                      *)

LEMMA ReapDeadStep == ASSUME Inv, NEW t \in Slot, ReapDead(t) PROVE Inv'
<1>1. /\ Used(t) /\ state[t] = "READY" /\ Local(t, loc[t])
      /\ loc \in [Slot -> Locals] /\ loc[t] \in Locals /\ t \in 1 .. N - 1
      /\ num_tasks \in 2 .. N /\ loc[t].pc = "reap_dead"
  BY AtIs DEF ReapDead
<1>2. UNCHANGED <<table, stacks, procs, threads, locked>>
  BY DEF ReapDead
<1>3. loc[t].i \in 1 .. N /\ loc[t].i \in Nat
  BY <1>1, NAssumption DEF Local, InPlace, Reaps, Makes, Creates, Creating, Building, HasSlot, HasDeadSlot, MidReap, Locals
<1>4. CASE loc[t].i + 1 < num_tasks
  <2>1. /\ loc' \in [Slot -> Locals] /\ \A u \in Slot \ {t} : loc'[u] = loc[u]
        /\ loc'[t].pc = "reap" /\ loc'[t].for = loc[t].for /\ loc'[t].i = loc[t].i + 1
        /\ loc'[t].own = loc[t].own /\ loc'[t].id = loc[t].id
    <3>1. loc[t].i + 1 \in 0 .. N
      BY <1>1, <1>3, <1>4, NAssumption
    <3>2. "reap" \in Points
      BY DEF Points, MidReap
    <3> QED BY <1>1, <1>4, <3>1, <3>2, ContinueIs DEF ReapDead
  <2> QED BY <1>1, <1>2, <1>3, <2>1, OnlyMoves DEF Local, InPlace, Reaps, Makes, Creates, Creating, Building, HasSlot, HasDeadSlot, MidReap
<1>5. CASE ~(loc[t].i + 1 < num_tasks)
  <2>1. /\ loc' \in [Slot -> Locals] /\ \A u \in Slot \ {t} : loc'[u] = loc[u]
        /\ loc'[t].pc = "pick" /\ loc'[t].for = loc[t].for /\ loc'[t].i = 1
        /\ loc'[t].own = loc[t].own /\ loc'[t].id = loc[t].id
    <3>1. 1 \in 0 .. N
      BY NAssumption
    <3>2. "pick" \in Points
      BY DEF Points
    <3> QED BY <1>1, <1>5, <3>1, <3>2, ContinueIs DEF ReapDead
  <2> QED BY <1>1, <1>2, <2>1, OnlyMoves DEF Local, InPlace, Reaps, Makes, Creates, Creating, Building, HasSlot, HasDeadSlot, MidReap
<1> QED BY <1>4, <1>5

LEMMA PickStep == ASSUME Inv, NEW t \in Slot, Pick(t) PROVE Inv'
<1>1. /\ Used(t) /\ state[t] = "READY" /\ Local(t, loc[t])
      /\ loc \in [Slot -> Locals] /\ loc[t] \in Locals /\ t \in 1 .. N - 1
      /\ num_tasks \in 2 .. N /\ loc[t].pc = "pick"
  BY AtIs DEF Pick
<1>2. UNCHANGED <<table, stacks, procs, threads, locked>>
  BY DEF Pick
<1>3. loc[t].i \in 1 .. N /\ loc[t].i < num_tasks
  BY <1>1, NAssumption DEF Pick, Local, Reaps, HasSlot, Locals
<1>4. CASE ~(state[loc[t].i] # "DEAD" \/ proc[loc[t].i] = "ZOMBIE")
  <2>1. loc' = [loc EXCEPT ![t] = [loc[t] EXCEPT !.pc = "reap", !.for = "picked"]]
    BY <1>1, <1>4 DEF Pick
  <2>2. [loc[t] EXCEPT !.pc = "reap", !.for = "picked"] \in Locals
    BY <1>1 DEF Locals, MidReap
  <2>3. /\ loc' \in [Slot -> Locals] /\ \A u \in Slot \ {t} : loc'[u] = loc[u]
        /\ loc'[t].pc = "reap" /\ loc'[t].for = "picked" /\ loc'[t].i = loc[t].i
        /\ loc'[t].own = loc[t].own /\ loc'[t].id = loc[t].id
    BY <1>1, <2>1, <2>2 DEF Locals
  <2>4. Used(loc[t].i)
    BY <1>1, <1>3 DEF Used
  <2> QED BY <1>1, <1>2, <1>3, <1>4, <2>3, <2>4, OnlyMoves DEF Local, InPlace, Reaps, Makes, Creates, Creating, Building, HasSlot, HasDeadSlot, MidReap
<1>5. CASE state[loc[t].i] # "DEAD" \/ proc[loc[t].i] = "ZOMBIE"
  <2>1. /\ loc' \in [Slot -> Locals] /\ \A u \in Slot \ {t} : loc'[u] = loc[u]
        /\ loc'[t].pc = "pick" /\ loc'[t].for = loc[t].for /\ loc'[t].i = loc[t].i + 1
        /\ loc'[t].own = loc[t].own /\ loc'[t].id = loc[t].id
    <3>1. loc[t].i + 1 \in 0 .. N
      BY <1>1, <1>3, NAssumption
    <3>2. "pick" \in Points
      BY DEF Points
    <3> QED BY <1>1, <1>5, <3>1, <3>2, ContinueIs DEF Pick
  <2> QED BY <1>1, <1>2, <1>3, <2>1, OnlyMoves DEF Local, InPlace, Reaps, Makes, Creates, Creating, Building, HasSlot, HasDeadSlot, MidReap
<1> QED BY <1>4, <1>5

(* The calls.                                                              *)
LEMMA StartCreateStep ==
  ASSUME Inv, NEW t \in Slot, At(t, "user"), NEW us \in 0 .. UserStacks, StartCreate(t, us),
         thread_slots' \in [Slot -> SUBSET (1 .. UserStacks)]
  PROVE  Inv'
<1>1. /\ Used(t) /\ state[t] = "READY" /\ Local(t, loc[t])
      /\ loc \in [Slot -> Locals] /\ loc[t] \in Locals /\ t \in 1 .. N - 1
      /\ num_tasks \in 2 .. N /\ loc[t].pc = "user"
  BY AtIs DEF StartCreate
<1>2. owner[t] \in Slot
  BY DEF Inv, TypeOK
<1>3. [InUser EXCEPT !.pc = "create", !.us = us, !.own = owner[t]] \in Locals
  BY <1>2, InUserType DEF Locals
<1>4. /\ loc' \in [Slot -> Locals] /\ \A u \in Slot \ {t} : loc'[u] = loc[u]
      /\ loc'[t].pc = "create" /\ loc'[t].for = "none" /\ loc'[t].i = 0
      /\ loc'[t].own = owner[t] /\ loc'[t].id = 0
  <2>1. loc' = [loc EXCEPT ![t] = [InUser EXCEPT !.pc = "create", !.us = us, !.own = owner[t]]]
    BY DEF StartCreate
  <2> QED BY <1>1, <1>3, <2>1, InUserType DEF InUser, Locals
<1>5. Remain /\ UNCHANGED <<parent, proc, wait_waiters, thread_info>>
  BY DEF StartCreate, Remain, table, stacks, procs
<1>6. TypeOK'
  <2>1. TypeOK
    BY DEF Inv
  <2>2. /\ proc' \in [Slot -> {"UNUSED", "RUNNING", "ZOMBIE"}]
        /\ wait_waiters' \in [Slot -> SUBSET Slot]
        /\ thread_info' \in [Slot -> [owner : Slot, slot : 0 .. UserStacks]]
    BY <1>5, <2>1 DEF TypeOK
  <2> QED BY <1>4, <1>5, <2>1, <2>2, StillTyped
<1>7. Local(t, loc'[t])
  BY <1>1, <1>4 DEF Local, InPlace, Reaps, Makes, Creates, Creating, Building, HasSlot, HasDeadSlot, MidReap
<1> QED BY <1>1, <1>4, <1>5, <1>6, <1>7, MoveKeepsInv DEF Building, Creates, Creating

LEMMA SpawnProcessStep == ASSUME Inv, NEW t \in Slot, SpawnProcess(t) PROVE Inv'
<1>1. thread_slots' \in [Slot -> SUBSET (1 .. UserStacks)]
  BY DEF SpawnProcess, Inv, TypeOK
<1>2. 0 \in 0 .. UserStacks
  BY UserStacksAssumption
<1> QED BY <1>1, <1>2, StartCreateStep DEF SpawnProcess

LEMMA SpawnThreadStep == ASSUME Inv, NEW t \in Slot, SpawnThread(t) PROVE Inv'
<1>1. PICK us \in FreeUserStacks(owner[t]) :
        /\ thread_slots' = [thread_slots EXCEPT ![owner[t]] = @ \cup {us}]
        /\ StartCreate(t, us)
  BY DEF SpawnThread
<1>2. us \in 1 .. UserStacks /\ us \in 0 .. UserStacks
  BY UserStacksAssumption DEF FreeUserStacks
<1>3. thread_slots \in [Slot -> SUBSET (1 .. UserStacks)] /\ owner[t] \in Slot
  BY DEF Inv, TypeOK
<1>4. thread_slots' \in [Slot -> SUBSET (1 .. UserStacks)]
  BY <1>1, <1>2, <1>3
<1> QED BY <1>1, <1>2, <1>4, StartCreateStep DEF SpawnThread

LEMMA WaitPidStep == ASSUME Inv, NEW t \in Slot, NEW pid \in WaitFor, WaitPid(t, pid) PROVE Inv'
<1>1. /\ Used(t) /\ state[t] = "READY" /\ Local(t, loc[t])
      /\ loc \in [Slot -> Locals] /\ loc[t] \in Locals /\ t \in 1 .. N - 1
      /\ num_tasks \in 2 .. N /\ loc[t].pc = "user"
  BY AtIs DEF WaitPid
<1>2. UNCHANGED <<table, stacks, procs, threads, locked>>
  BY DEF WaitPid
<1>3. owner[t] \in Slot /\ pid \in -1 .. N
  <2>1. pid \in Slot \cup {AnyChild}
    BY WaitForAssumption
  <2>2. owner[t] \in Slot
    BY DEF Inv, TypeOK
  <2> QED BY <2>1, <2>2, NAssumption DEF Slot, AnyChild
<1>4. [InUser EXCEPT !.pc = "wait", !.id = pid, !.own = owner[t]] \in Locals
  BY <1>3, InUserType DEF Locals
<1>5. /\ loc' \in [Slot -> Locals] /\ \A u \in Slot \ {t} : loc'[u] = loc[u]
      /\ loc'[t].pc = "wait" /\ loc'[t].for = "none" /\ loc'[t].i = 0
      /\ loc'[t].own = owner[t] /\ loc'[t].id = pid
  <2>1. loc' = [loc EXCEPT ![t] = [InUser EXCEPT !.pc = "wait", !.id = pid, !.own = owner[t]]]
    BY DEF WaitPid
  <2> QED BY <1>1, <1>4, <2>1, InUserType DEF InUser, Locals
<1>6. Local(t, loc'[t])
  BY <1>1, <1>5 DEF Local, InPlace, Reaps, Makes, Creates, Creating, Building, HasSlot, HasDeadSlot, MidReap
<1> QED BY <1>1, <1>2, <1>5, <1>6, OnlyMoves DEF Building, Creates, Creating

LEMMA JoinStep == ASSUME Inv, NEW t \in Slot, NEW id \in Slot, Join(t, id) PROVE Inv'
<1>1. /\ Used(t) /\ state[t] = "READY" /\ Local(t, loc[t])
      /\ loc \in [Slot -> Locals] /\ loc[t] \in Locals /\ t \in 1 .. N - 1
      /\ num_tasks \in 2 .. N /\ loc[t].pc = "user"
  BY AtIs DEF Join
<1>2. UNCHANGED <<table, stacks, procs, threads, locked>>
  BY DEF Join
<1>3. 0 \in Slot /\ id \in -1 .. N
  BY NAssumption, WaitForAssumption DEF Inv, TypeOK, Slot, AnyChild
<1>4. [InUser EXCEPT !.pc = "join", !.id = id] \in Locals
  BY <1>3, InUserType DEF Locals
<1>5. /\ loc' \in [Slot -> Locals] /\ \A u \in Slot \ {t} : loc'[u] = loc[u]
      /\ loc'[t].pc = "join" /\ loc'[t].for = "none" /\ loc'[t].i = 0
      /\ loc'[t].own = 0 /\ loc'[t].id = id
  <2>1. loc' = [loc EXCEPT ![t] = [InUser EXCEPT !.pc = "join", !.id = id]]
    BY DEF Join
  <2> QED BY <1>1, <1>4, <2>1, InUserType DEF InUser, Locals
<1>6. Local(t, loc'[t])
  BY <1>1, <1>5 DEF Local, InPlace, Reaps, Makes, Creates, Creating, Building, HasSlot, HasDeadSlot, MidReap, Join
<1> QED BY <1>1, <1>2, <1>5, <1>6, OnlyMoves DEF Building, Creates, Creating

LEMMA KillStep == ASSUME Inv, NEW t \in Slot, NEW id \in Slot, Kill(t, id) PROVE Inv'
<1>1. /\ Used(t) /\ state[t] = "READY" /\ Local(t, loc[t])
      /\ loc \in [Slot -> Locals] /\ loc[t] \in Locals /\ t \in 1 .. N - 1
      /\ num_tasks \in 2 .. N /\ loc[t].pc = "user"
  BY AtIs DEF Kill
<1>2. UNCHANGED <<table, stacks, procs, threads, locked>>
  BY DEF Kill
<1>3. owner[id] \in Slot /\ id \in -1 .. N
  BY NAssumption, WaitForAssumption DEF Inv, TypeOK, Slot, AnyChild
<1>4. [InUser EXCEPT !.pc = "kill", !.id = id, !.own = owner[id]] \in Locals
  BY <1>3, InUserType DEF Locals
<1>5. /\ loc' \in [Slot -> Locals] /\ \A u \in Slot \ {t} : loc'[u] = loc[u]
      /\ loc'[t].pc = "kill" /\ loc'[t].for = "none" /\ loc'[t].i = 0
      /\ loc'[t].own = owner[id] /\ loc'[t].id = id
  <2>1. loc' = [loc EXCEPT ![t] = [InUser EXCEPT !.pc = "kill", !.id = id, !.own = owner[id]]]
    BY DEF Kill
  <2> QED BY <1>1, <1>4, <2>1, InUserType DEF InUser, Locals
<1>6. Local(t, loc'[t])
  BY <1>1, <1>5 DEF Local, InPlace, Reaps, Makes, Creates, Creating, Building, HasSlot, HasDeadSlot, MidReap, Kill
<1> QED BY <1>1, <1>2, <1>5, <1>6, OnlyMoves DEF Building, Creates, Creating

(* waitpid and join.                                                       *)
LEMMA WaitFindStep == ASSUME Inv, NEW t \in Slot, WaitFind(t) PROVE Inv'
<1>1. /\ Used(t) /\ state[t] = "READY" /\ Local(t, loc[t])
      /\ loc \in [Slot -> Locals] /\ loc[t] \in Locals /\ t \in 1 .. N - 1
      /\ num_tasks \in 2 .. N /\ loc[t].pc = "wait"
  BY AtIs DEF WaitFind
<1>2. UNCHANGED <<table, stacks, procs, threads, locked>>
  BY DEF WaitFind
<1> DEFINE zombies == ZombieChildren(loc[t].own, loc[t].id)
<1>3. ASSUME NEW c \in zombies, loc' = [loc EXCEPT ![t].pc = "found", ![t].id = c]
      PROVE  Inv'
  <2>1. c \in -1 .. N
    BY NAssumption DEF ZombieChildren, Slot
  <2>2. loc' = [loc EXCEPT ![t] = [loc[t] EXCEPT !.pc = "found", !.id = c]]
    BY <1>1, <1>3
  <2>3. [loc[t] EXCEPT !.pc = "found", !.id = c] \in Locals
    BY <1>1, <2>1 DEF Locals
  <2>4. /\ loc' \in [Slot -> Locals] /\ \A u \in Slot \ {t} : loc'[u] = loc[u]
        /\ loc'[t].pc = "found" /\ loc'[t].for = loc[t].for /\ loc'[t].i = loc[t].i
        /\ loc'[t].own = loc[t].own /\ loc'[t].id = c
    BY <1>1, <2>2, <2>3 DEF Locals
  <2> QED BY <1>1, <1>2, <2>4, OnlyMoves DEF Local, InPlace, Reaps, Makes, Creates, Creating, Building, HasSlot, HasDeadSlot, MidReap
<1>4. CASE Goto(t, "block")
  <2>1. /\ loc' \in [Slot -> Locals] /\ \A u \in Slot \ {t} : loc'[u] = loc[u]
        /\ loc'[t].pc = "block" /\ loc'[t].for = loc[t].for /\ loc'[t].i = loc[t].i
        /\ loc'[t].own = loc[t].own /\ loc'[t].id = loc[t].id
    <3>1. "block" \in Points
      BY DEF Points, MidReap
    <3> QED BY <1>1, <1>4, <3>1, GotoIs DEF WaitFind
  <2> QED BY <1>1, <1>2, <2>1, OnlyMoves DEF Local, InPlace, Reaps, Makes, Creates, Creating, Building, HasSlot, HasDeadSlot, MidReap
<1>5. CASE Return(t)
  <2>1. /\ loc' \in [Slot -> Locals] /\ \A u \in Slot \ {t} : loc'[u] = loc[u]
        /\ loc'[t] = InUser
    BY <1>1, <1>5, ReturnIs DEF WaitFind
  <2> QED BY <1>1, <1>2, <2>1, UserIsLocal, OnlyMoves DEF InUser, Building, Creates, Creating
<1> QED BY <1>3, <1>4, <1>5 DEF WaitFind

LEMMA ForgetStep == ASSUME Inv, NEW t \in Slot, Forget(t) PROVE Inv'
<1>1. /\ Used(t) /\ state[t] = "READY" /\ Local(t, loc[t])
      /\ loc \in [Slot -> Locals] /\ loc[t] \in Locals /\ t \in 1 .. N - 1
      /\ num_tasks \in 2 .. N /\ loc[t].pc = "found"
  BY AtIs DEF Forget
<1>2. UNCHANGED <<table, stacks, procs, threads, locked>>
  BY DEF Forget
<1>3. CASE proc[loc[t].id] = "UNUSED"
  <2>1. /\ loc' \in [Slot -> Locals] /\ \A u \in Slot \ {t} : loc'[u] = loc[u]
        /\ loc'[t] = InUser
    BY <1>1, <1>3, ReturnIs DEF Forget
  <2> QED BY <1>1, <1>2, <2>1, UserIsLocal, OnlyMoves DEF InUser, Building, Creates, Creating
<1>4. CASE proc[loc[t].id] # "UNUSED"
  <2>1. /\ loc' \in [Slot -> Locals] /\ \A u \in Slot \ {t} : loc'[u] = loc[u]
        /\ loc'[t].pc = "forget" /\ loc'[t].for = loc[t].for /\ loc'[t].i = 1
        /\ loc'[t].own = loc[t].own /\ loc'[t].id = loc[t].id
    <3>1. 1 \in 0 .. N /\ "forget" \in Points
      BY NAssumption DEF Points
    <3> QED BY <1>1, <1>4, <3>1, ContinueIs DEF Forget
  <2> QED BY <1>1, <1>2, <2>1, OnlyMoves DEF Local, InPlace, Reaps, Makes, Creates, Creating, Building, HasSlot, HasDeadSlot, MidReap
<1> QED BY <1>3, <1>4

LEMMA ForgetSlotStep == ASSUME Inv, NEW t \in Slot, ForgetSlot(t) PROVE Inv'
<1>1. /\ Used(t) /\ state[t] = "READY" /\ Local(t, loc[t])
      /\ loc \in [Slot -> Locals] /\ loc[t] \in Locals /\ t \in 1 .. N - 1
      /\ num_tasks \in 2 .. N /\ loc[t].pc = "forget"
  BY AtIs DEF ForgetSlot
<1>2. UNCHANGED <<table, stacks, procs, threads, locked>>
  BY DEF ForgetSlot
<1>3. loc[t].i \in 1 .. N /\ loc[t].i < num_tasks
  BY <1>1, NAssumption DEF ForgetSlot, Local, Reaps, HasSlot, Locals
<1>4. CASE owner[loc[t].i] = loc[t].id /\ state[loc[t].i] = "DEAD"
  <2>1. loc' = [loc EXCEPT ![t] = [loc[t] EXCEPT !.pc = "reap", !.for = "forgotten"]]
    BY <1>1, <1>4 DEF ForgetSlot
  <2>2. [loc[t] EXCEPT !.pc = "reap", !.for = "forgotten"] \in Locals
    BY <1>1 DEF Locals, MidReap
  <2>3. /\ loc' \in [Slot -> Locals] /\ \A u \in Slot \ {t} : loc'[u] = loc[u]
        /\ loc'[t].pc = "reap" /\ loc'[t].for = "forgotten" /\ loc'[t].i = loc[t].i
        /\ loc'[t].own = loc[t].own /\ loc'[t].id = loc[t].id
    BY <1>1, <2>1, <2>2 DEF Locals
  <2>4. Used(loc[t].i)
    BY <1>1, <1>3 DEF Used
  <2> QED BY <1>1, <1>2, <1>3, <1>4, <2>3, <2>4, OnlyMoves DEF Local, InPlace, Reaps, Makes, Creates, Creating, Building, HasSlot, HasDeadSlot, MidReap
<1>5. CASE ~(owner[loc[t].i] = loc[t].id /\ state[loc[t].i] = "DEAD")
  <2>1. /\ loc' \in [Slot -> Locals] /\ \A u \in Slot \ {t} : loc'[u] = loc[u]
        /\ loc'[t].pc = "forget" /\ loc'[t].for = loc[t].for /\ loc'[t].i = loc[t].i + 1
        /\ loc'[t].own = loc[t].own /\ loc'[t].id = loc[t].id
    <3>1. loc[t].i + 1 \in 0 .. N /\ "forget" \in Points
      BY <1>1, <1>3, NAssumption DEF Points
    <3> QED BY <1>1, <1>5, <3>1, ContinueIs DEF ForgetSlot
  <2> QED BY <1>1, <1>2, <1>3, <2>1, OnlyMoves DEF Local, InPlace, Reaps, Makes, Creates, Creating, Building, HasSlot, HasDeadSlot, MidReap
<1> QED BY <1>4, <1>5

LEMMA JoinDeadStep == ASSUME Inv, NEW t \in Slot, JoinDead(t) PROVE Inv'
<1>1. /\ Used(t) /\ state[t] = "READY" /\ Local(t, loc[t])
      /\ loc \in [Slot -> Locals] /\ loc[t] \in Locals /\ t \in 1 .. N - 1
      /\ num_tasks \in 2 .. N /\ loc[t].pc = "join"
  BY AtIs DEF JoinDead
<1>2. UNCHANGED <<table, stacks, procs, threads, locked>>
  BY DEF JoinDead
<1>3. Used(loc[t].id) /\ loc[t].id \in 1 .. N - 1 /\ loc[t].id \in 0 .. N
  <2>1. Used(loc[t].id)
    BY <1>1 DEF Local, Reaps
  <2> QED BY <2>1, UsedIsSlot, NAssumption DEF Inv
<1>4. loc' = [loc EXCEPT ![t] = [loc[t] EXCEPT !.pc = "reap", !.i = loc[t].id, !.for = "joined"]]
  BY <1>1 DEF JoinDead
<1>5. [loc[t] EXCEPT !.pc = "reap", !.i = loc[t].id, !.for = "joined"] \in Locals
  BY <1>1, <1>3 DEF Locals, MidReap
<1>6. /\ loc' \in [Slot -> Locals] /\ \A u \in Slot \ {t} : loc'[u] = loc[u]
      /\ loc'[t].pc = "reap" /\ loc'[t].for = "joined" /\ loc'[t].i = loc[t].id
      /\ loc'[t].own = loc[t].own /\ loc'[t].id = loc[t].id
  BY <1>1, <1>4, <1>5 DEF Locals
<1>7. state[loc[t].id] = "DEAD"
  BY DEF JoinDead
<1> QED BY <1>1, <1>2, <1>3, <1>6, <1>7, OnlyMoves DEF Local, InPlace, Reaps, Makes, Creates, Creating, Building, HasSlot, HasDeadSlot, MidReap

-----------------------------------------------------------------------------
(* Steps that block, wake or end tasks that are not under construction.    *)

LEMMA StatesKeepInv ==
  ASSUME Inv, TypeOK', UNCHANGED <<owner, num_tasks, kstack, free_stacks, locked>>,
         \A u \in Slot : loc[u].pc \notin MidReap,
         \A i \in Slot : state'[i] = state[i]
                         \/ (state[i] \in {"READY", "BLOCKED"} /\ i # 0 /\ state'[i] # "CREATING"),
         \A i \in Slot : state[i] = "DEAD" => state'[i] = "DEAD",
         \A u \in Slot : \/ loc'[u] = loc[u] \/ loc'[u] = InUser
                         \/ /\ loc[u].pc = "block" /\ loc'[u].pc = "woken"
                            /\ loc'[u].for = loc[u].for /\ loc'[u].own = loc[u].own,
         \A u \in Slot : InPlace(u, loc[u])',
         \A p \in Slot : proc'[p] = "ZOMBIE" =>
           proc[p] = "ZOMBIE" \/ \A i \in Of(p) : state'[i] = "DEAD"
  PROVE  Inv'
<1> USE DEF Inv
<1>1. TypeOK /\ \A i : Used(i) => i \in Slot /\ i \in 1 .. N - 1
  BY UsedIsSlot
<1>2. \A i : Unborn(i) <=> Unborn(i)'
  BY <1>1 DEF Unborn, Used
<1>3. \A i : Able(i)' => Able(i)
  BY <1>1 DEF Able, Used, TypeOK, State
<1>4. \A u \in Slot : Creates(loc'[u]) =>
        Creates(loc[u]) /\ (loc[u].pc = "alloc" => loc'[u] = loc[u])
  BY DEF Creates, Creating, InUser
<1>5. Locally'
  <2> SUFFICES ASSUME NEW u \in Slot PROVE Local(u, loc[u])'
    BY DEF Locally
  <2>1. Local(u, loc[u])
    BY DEF Locally
  <2>2. Reaps(u, loc[u])'
    <3>1. CASE loc'[u] = loc[u]
      BY <1>1, <2>1, <3>1 DEF Local, Reaps, Used
    <3>2. CASE loc'[u].pc \in {"user", "woken"}
      BY <3>2 DEF Reaps, HasSlot, HasDeadSlot, MidReap
    <3> QED BY <3>1, <3>2 DEF InUser
  <2>3. Makes(u, loc[u])'
    <3>1. CASE loc'[u] = loc[u]
      <4>1. ASSUME loc[u].pc \in {"created", "arm"} PROVE proc'[loc[u].id] # "ZOMBIE"
        <5>1. Unborn(loc[u].id) /\ owner[loc[u].id] = loc[u].id /\ proc[loc[u].id] # "ZOMBIE"
          BY <2>1, <4>1 DEF Local, Makes, Building
        <5>2. loc[u].id \in Of(loc[u].id) /\ state'[loc[u].id] # "DEAD"
          BY <1>1, <1>2, <5>1 DEF Of, Unborn
        <5> QED BY <1>1, <5>1, <5>2 DEF Unborn
      <4> QED BY <1>2, <2>1, <3>1, <4>1 DEF Local, Makes, Creates
    <3>2. CASE loc'[u] = InUser
      BY <3>2 DEF Makes, InUser, Creates, Creating, Building
    <3>3. CASE /\ loc[u].pc = "block" /\ loc'[u].pc = "woken"
               /\ loc'[u].for = loc[u].for /\ loc'[u].own = loc[u].own
      BY <2>1, <3>3 DEF Local, Makes, Creates, Creating, Building, MidReap
    <3> QED BY <3>1, <3>2, <3>3
  <2> QED BY <2>2, <2>3 DEF Local
<1>6. Apart'
  BY DEF Apart, Building, InUser
<1>7. Owners'
  <2>1. Fresh'
    <3>1. 0 \in Slot
      BY NAssumption DEF Slot
    <3>2. Fresh
      BY DEF Owners
    <3>3. state'[0] = "READY" /\ owner'[0] = 0 /\ kstack'[0] = NoStack
      BY <3>1, <3>2 DEF Fresh
    <3>4. ASSUME NEW i \in Slot, i >= num_tasks
          PROVE  state'[i] = "DEAD" /\ owner'[i] = 0 /\ kstack'[i] = NoStack
      BY <3>2, <3>4 DEF Fresh
    <3> QED BY <3>3, <3>4 DEF Fresh
  <2>2. Mains'
    BY <1>3 DEF Owners, Mains
  <2>3. Unowned'
    BY <1>2, <1>3 DEF Owners, Unowned, Settled
  <2>4. Orphans'
    BY <1>2, <1>4 DEF Owners, Orphans
  <2> QED BY <2>1, <2>2, <2>3, <2>4 DEF Owners
<1>8. Stacked'
  <2>1. \A i \in Slot : kstack[i] # NoStack => kstack[i] \notin free_stacks
    BY DEF Stacked, MidReap
  <2> QED BY <1>3, <2>1 DEF Stacked
<1>9. ZombieIsDead'
  <2>1. \A p : Of(p)' = Of(p)
    BY DEF Of, Used
  <2>2. ASSUME NEW p \in Slot, proc'[p] = "ZOMBIE", NEW i \in Of(p)
        PROVE  state'[i] \notin {"READY", "BLOCKED"}
    <3>1. i \in Slot /\ Used(i)
      BY DEF Of
    <3>2. CASE proc[p] = "ZOMBIE"
      BY <1>3, <3>1, <3>2 DEF ZombieIsDead, Able, Used
    <3> QED BY <2>2, <3>2
  <2> QED BY <2>1, <2>2 DEF ZombieIsDead
<1> QED BY <1>5, <1>6, <1>7, <1>8, <1>9 DEF Calm

(* What Die does to everybody.                                            *)
Deaths(S, p, ends) ==
  /\ UNCHANGED <<owner, num_tasks, kstack, free_stacks, locked>>
  /\ \A i \in Slot : i \in S => state'[i] = "DEAD"
  /\ \A i \in Slot : i \notin S =>
       state'[i] = state[i] \/ (state[i] = "BLOCKED" /\ state'[i] = "READY")
  /\ \A q \in Slot : proc'[q] = "ZOMBIE" => proc[q] = "ZOMBIE" \/ (q = p /\ ends)

LEMMA DieIs ==
  ASSUME TypeOK, NEW S, NEW p \in Slot, NEW ends \in BOOLEAN, Die(S, p, ends),
         loc' \in [Slot -> Locals]
  PROVE  TypeOK' /\ Deaths(S, p, ends)
<1>1. /\ UNCHANGED <<owner, num_tasks, kstack, free_stacks, locked, parent, thread_info, thread_slots>>
  BY DEF Die, stacks, threads
<1>2. /\ state' \in [Slot -> State]
      /\ \A i \in Slot : i \in S => state'[i] = "DEAD"
      /\ \A i \in Slot : i \notin S =>
              state'[i] = state[i] \/ (state[i] = "BLOCKED" /\ state'[i] = "READY")
  <2> DEFINE wakes == ends /\ p > 0 /\ proc[p] # "UNUSED" /\ parent[p] > 0 /\ proc[parent[p]] # "UNUSED"
             woken == IF wakes THEN {w \in wait_waiters[parent[p]] : state[w] = "BLOCKED"} ELSE {}
  <2>1. state' = [i \in Slot |-> IF i \in S THEN "DEAD" ELSE IF i \in woken THEN "READY" ELSE state[i]]
    BY DEF Die
  <2>2. \A i \in woken : state[i] = "BLOCKED"
    OBVIOUS
  <2> HIDE DEF woken
  <2> QED BY <2>1, <2>2 DEF TypeOK, State
<1>3. /\ proc' \in [Slot -> {"UNUSED", "RUNNING", "ZOMBIE"}]
      /\ \A q \in Slot : proc'[q] = "ZOMBIE" => proc[q] = "ZOMBIE" \/ (q = p /\ ends)
  BY DEF Die, TypeOK
<1>4. wait_waiters' \in [Slot -> SUBSET Slot]
  BY DEF Die, TypeOK
<1>5. TypeOK'
  BY <1>1, <1>2, <1>3, <1>4 DEF TypeOK
<1> QED BY <1>1, <1>2, <1>3, <1>5 DEF Deaths

(* Tasks of S die, and are back in user mode if ever they run again.       *)
LEMMA DeathKeepsInv ==
  ASSUME Inv, NEW S, NEW p \in Slot, NEW ends \in BOOLEAN, Die(S, p, ends),
         \A u \in Slot : loc[u].pc \notin MidReap,
         \A i \in S : Used(i) /\ state[i] # "CREATING",
         loc' \in [Slot -> Locals],
         \A u \in Slot : loc'[u] = loc[u] \/ loc'[u] = InUser,
         \A i \in S : loc'[i] = InUser,
         ends => \A i \in Of(p) : i \in S \/ state[i] = "DEAD"
  PROVE  Inv'
<1>1. TypeOK /\ \A i : Used(i) => i \in Slot /\ i \in 1 .. N - 1
  BY UsedIsSlot DEF Inv
<1>2. /\ TypeOK' /\ UNCHANGED <<owner, num_tasks, kstack, free_stacks, locked>>
      /\ \A i \in Slot : i \in S => state'[i] = "DEAD"
      /\ \A i \in Slot : i \notin S =>
           state'[i] = state[i] \/ (state[i] = "BLOCKED" /\ state'[i] = "READY")
      /\ \A q \in Slot : proc'[q] = "ZOMBIE" => proc[q] = "ZOMBIE" \/ (q = p /\ ends)
  <2>1. TypeOK' /\ Deaths(S, p, ends)
    BY <1>1, DieIs
  <2> QED BY <2>1 DEF Deaths
<1>3. \A i \in Slot : state[i] \in {"READY", "BLOCKED", "DEAD", "CREATING"}
  BY <1>1 DEF TypeOK, State
<1>4. \A i \in Slot : state[i] = "DEAD" => state'[i] = "DEAD"
  BY <1>2
<1>5. state[0] = "READY"
  BY DEF Inv, Owners, Fresh
<1>6. \A i \in Slot : state'[i] = state[i]
                      \/ (state[i] \in {"READY", "BLOCKED"} /\ i # 0 /\ state'[i] # "CREATING")
  BY <1>1, <1>2, <1>3, <1>5
<1>7. ASSUME NEW u \in Slot PROVE InPlace(u, loc[u])'
  <2>1. InPlace(u, loc[u])
    BY DEF Inv, Locally, Local
  <2>2. CASE loc'[u] = InUser
    BY <2>2 DEF InPlace, InUser
  <2>3. CASE loc'[u] = loc[u] /\ u \notin S
    BY <1>2, <2>1, <2>3 DEF InPlace, Used
  <2> QED BY <2>2, <2>3
<1>8. \A q \in Slot : proc'[q] = "ZOMBIE" =>
        proc[q] = "ZOMBIE" \/ \A i \in Of(q) : state'[i] = "DEAD"
  BY <1>2, <1>4 DEF Of
<1> QED BY <1>2, <1>4, <1>6, <1>7, <1>8, StatesKeepInv

LEMMA ExitThreadStep == ASSUME Inv, NEW t \in Slot, ExitThread(t) PROVE Inv'
<1> DEFINE ends == \A i \in Of(owner[t]) \ {t} : state[i] = "DEAD"
<1>1. /\ Used(t) /\ state[t] = "READY" /\ loc[t].pc = "user" /\ Local(t, loc[t])
      /\ loc \in [Slot -> Locals] /\ \A u \in Slot \ {t} : loc[u].pc \notin MidReap
  BY AtIs DEF ExitThread
<1>2. loc[t] = InUser /\ loc' = loc /\ owner[t] \in Slot
  BY <1>1 DEF Local, InPlace, ExitThread, Inv, TypeOK
<1>3. Die({t}, owner[t], ends) /\ ends \in BOOLEAN
  BY DEF ExitThread
<1>4. ends => \A i \in Of(owner[t]) : i \in {t} \/ state[i] = "DEAD"
  OBVIOUS
<1> HIDE DEF ends
<1> QED BY <1>1, <1>2, <1>3, <1>4, DeathKeepsInv DEF MidReap

LEMMA ExitProcessStep == ASSUME Inv, NEW t \in Slot, ExitProcess(t) PROVE Inv'
<1> DEFINE S == Of(owner[t])
<1>1. /\ Used(t) /\ state[t] = "READY" /\ loc[t].pc = "user"
      /\ loc \in [Slot -> Locals] /\ \A u \in Slot \ {t} : loc[u].pc \notin MidReap
  BY AtIs DEF ExitProcess
<1>2. owner[t] \in Slot /\ Die(S, owner[t], TRUE)
  BY DEF ExitProcess, Inv, TypeOK
<1>3. \A i \in S : Used(i) /\ state[i] # "CREATING"
  BY <1>1 DEF Of, Inv, Owners, Unowned, Unborn, Settled, Able
<1>4. /\ loc' \in [Slot -> Locals]
      /\ \A u \in Slot : loc'[u] = loc[u] \/ loc'[u] = InUser
      /\ \A i \in S : loc'[i] = InUser
  BY <1>1, InUserType DEF ExitProcess, Of
<1> QED BY <1>1, <1>2, <1>3, <1>4, DeathKeepsInv DEF MidReap

LEMMA KilledStep == ASSUME Inv, NEW t \in Slot, Killed(t) PROVE Inv'
<1> DEFINE S == Of(loc[t].own) \cup {loc[t].id}
<1>1. /\ Used(t) /\ loc[t].pc = "kill" /\ Local(t, loc[t]) /\ loc[t] \in Locals
      /\ loc \in [Slot -> Locals] /\ \A u \in Slot \ {t} : loc[u].pc \notin MidReap
  BY AtIs DEF Killed
<1>2. loc[t].own \in Slot /\ Used(loc[t].id) /\ loc[t].id \in Slot
  BY <1>1, UsedIsSlot DEF Locals, Local, Reaps, Inv
<1>3. Die(S, loc[t].own, TRUE)
  BY DEF Killed
<1>4. \A i \in S : Used(i) /\ state[i] # "CREATING"
  BY <1>2 DEF Of, Inv, Calm, Killed
<1>5. /\ loc' \in [Slot -> Locals]
      /\ \A u \in Slot : loc'[u] = loc[u] \/ loc'[u] = InUser
      /\ \A i \in S : loc'[i] = InUser
  BY <1>1, <1>2, InUserType DEF Killed, Of
<1> QED BY <1>1, <1>2, <1>3, <1>4, <1>5, DeathKeepsInv DEF MidReap

(* waitpid blocks, comes back, and reports.                                *)

LEMMA WaitBlockStep == ASSUME Inv, NEW t \in Slot, WaitBlock(t) PROVE Inv'
<1> DEFINE own == loc[t].own
<1>1. /\ Used(t) /\ state[t] = "READY" /\ Local(t, loc[t])
      /\ loc \in [Slot -> Locals] /\ loc[t] \in Locals /\ t \in 1 .. N - 1
      /\ num_tasks \in 2 .. N /\ loc[t].pc = "block"
  BY AtIs DEF WaitBlock
<1>2. /\ UNCHANGED <<owner, num_tasks, kstack, free_stacks, proc, parent, thread_info, thread_slots, locked>>
  BY DEF WaitBlock, stacks, threads
<1>3. \A u \in Slot : loc[u].pc \notin MidReap
  BY <1>1, AtIs DEF WaitBlock, MidReap
<1>4. TypeOK /\ wait_waiters \in [Slot -> SUBSET Slot]
  BY DEF Inv, TypeOK
<1>5. /\ thread_info' \in [Slot -> [owner : Slot, slot : 0 .. UserStacks]]
      /\ thread_slots' \in [Slot -> SUBSET (1 .. UserStacks)]
      /\ proc' \in [Slot -> {"UNUSED", "RUNNING", "ZOMBIE"}]
  BY <1>2, <1>4 DEF TypeOK
<1>6. CASE /\ wait_waiters' = [wait_waiters EXCEPT ![own] = @ \ {t}]
           /\ Goto(t, "wait") /\ UNCHANGED state
  <2>1. Remain /\ UNCHANGED parent /\ wait_waiters' \in [Slot -> SUBSET Slot]
    BY <1>2, <1>4, <1>6 DEF Remain
  <2>2. /\ loc' \in [Slot -> Locals] /\ \A u \in Slot \ {t} : loc'[u] = loc[u]
        /\ loc'[t].pc = "wait" /\ loc'[t].for = loc[t].for /\ loc'[t].i = loc[t].i
        /\ loc'[t].own = loc[t].own /\ loc'[t].id = loc[t].id
    BY <1>1, <1>6, GotoIs DEF Points
  <2>3. TypeOK'
    BY <1>4, <1>5, <2>1, <2>2, StillTyped
  <2>4. Local(t, loc'[t])
    BY <1>1, <2>2 DEF Local, InPlace, Reaps, Makes, Creates, Creating, Building, HasSlot, HasDeadSlot, MidReap
  <2> QED BY <1>1, <1>2, <2>1, <2>2, <2>3, <2>4, MoveKeepsInv DEF Building, Creates, Creating
<1>7. CASE /\ state' = [state EXCEPT ![t] = "BLOCKED"]
           /\ wait_waiters' = [wait_waiters EXCEPT ![own] = @ \cup {t}]
           /\ Goto(t, "woken")
  <2>1. /\ loc' \in [Slot -> Locals] /\ \A u \in Slot \ {t} : loc'[u] = loc[u]
        /\ loc'[t].pc = "woken" /\ loc'[t].for = loc[t].for /\ loc'[t].i = loc[t].i
        /\ loc'[t].own = loc[t].own /\ loc'[t].id = loc[t].id
    BY <1>1, <1>7, GotoIs DEF Points
  <2>2. state' \in [Slot -> State] /\ wait_waiters' \in [Slot -> SUBSET Slot]
    BY <1>4, <1>7 DEF TypeOK, State
  <2>3. TypeOK'
    BY <1>2, <1>4, <1>5, <2>1, <2>2 DEF TypeOK
  <2>4. state \in [Slot -> State]
    BY <1>4 DEF TypeOK
  <2>5. \A i \in Slot : state'[i] = state[i]
                        \/ (state[i] \in {"READY", "BLOCKED"} /\ i # 0 /\ state'[i] # "CREATING")
    BY <1>1, <1>7, <2>4
  <2>6. \A i \in Slot : state[i] = "DEAD" => state'[i] = "DEAD"
    BY <1>1, <1>7, <2>4
  <2>7. ASSUME NEW u \in Slot PROVE InPlace(u, loc[u])'
    <3>1. CASE u = t
      BY <1>1, <1>2, <1>7, <2>1, <2>4, <3>1 DEF InPlace, Used
    <3>2. CASE u # t
      <4>1. InPlace(u, loc[u])
        BY DEF Inv, Locally, Local
      <4> QED BY <1>2, <1>7, <2>1, <2>4, <3>2, <4>1 DEF InPlace, Used
    <3> QED BY <3>1, <3>2
  <2> QED BY <1>1, <1>2, <1>3, <2>1, <2>3, <2>5, <2>6, <2>7, StatesKeepInv
<1> QED BY <1>6, <1>7 DEF WaitBlock

LEMMA WaitWokenStep == ASSUME Inv, NEW t \in Slot, WaitWoken(t) PROVE Inv'
<1>1. /\ Used(t) /\ state[t] = "READY" /\ Local(t, loc[t])
      /\ loc \in [Slot -> Locals] /\ loc[t] \in Locals /\ t \in 1 .. N - 1
      /\ num_tasks \in 2 .. N /\ loc[t].pc = "woken"
  BY AtIs DEF WaitWoken
<1>2. Remain /\ UNCHANGED <<proc, parent, thread_info, thread_slots>>
  BY DEF WaitWoken, Remain, table, stacks, threads
<1>3. TypeOK
  BY DEF Inv
<1>4. wait_waiters' \in [Slot -> SUBSET Slot]
  BY <1>3 DEF WaitWoken, TypeOK
<1>5. /\ loc' \in [Slot -> Locals] /\ \A u \in Slot \ {t} : loc'[u] = loc[u]
      /\ loc'[t].pc = "wait" /\ loc'[t].for = loc[t].for /\ loc'[t].i = loc[t].i
      /\ loc'[t].own = loc[t].own /\ loc'[t].id = loc[t].id
  BY <1>1, GotoIs DEF WaitWoken, Points
<1>6. /\ thread_info' \in [Slot -> [owner : Slot, slot : 0 .. UserStacks]]
      /\ thread_slots' \in [Slot -> SUBSET (1 .. UserStacks)]
      /\ proc' \in [Slot -> {"UNUSED", "RUNNING", "ZOMBIE"}]
  BY <1>2, <1>3 DEF TypeOK
<1>7. TypeOK'
  BY <1>2, <1>3, <1>4, <1>5, <1>6, StillTyped
<1>8. Local(t, loc'[t])
  BY <1>1, <1>5 DEF Local, InPlace, Reaps, Makes, Creates, Creating, Building, HasSlot, HasDeadSlot, MidReap
<1> QED BY <1>1, <1>2, <1>5, <1>7, <1>8, MoveKeepsInv DEF Building, Creates, Creating

LEMMA ForgetDoneStep == ASSUME Inv, NEW t \in Slot, ForgetDone(t) PROVE Inv'
<1>1. /\ Used(t) /\ state[t] = "READY" /\ Local(t, loc[t])
      /\ loc \in [Slot -> Locals] /\ loc[t] \in Locals /\ t \in 1 .. N - 1
      /\ num_tasks \in 2 .. N /\ loc[t].pc = "forget"
  BY AtIs DEF ForgetDone
<1>2. Remain /\ UNCHANGED <<parent, thread_info, thread_slots>>
  BY DEF ForgetDone, Remain, table, stacks, threads
<1>3. TypeOK
  BY DEF Inv
<1>4. /\ wait_waiters' \in [Slot -> SUBSET Slot]
      /\ proc' \in [Slot -> {"UNUSED", "RUNNING", "ZOMBIE"}]
      /\ \A p \in Slot : proc'[p] = "ZOMBIE" => proc[p] = "ZOMBIE"
  BY <1>3 DEF ForgetDone, TypeOK
<1>5. /\ loc' \in [Slot -> Locals] /\ \A u \in Slot \ {t} : loc'[u] = loc[u]
      /\ loc'[t] = InUser
  BY <1>1, ReturnIs DEF ForgetDone
<1>6. /\ thread_info' \in [Slot -> [owner : Slot, slot : 0 .. UserStacks]]
      /\ thread_slots' \in [Slot -> SUBSET (1 .. UserStacks)]
  BY <1>2, <1>3 DEF TypeOK
<1>7. TypeOK'
  BY <1>2, <1>3, <1>4, <1>5, <1>6, StillTyped
<1> QED BY <1>1, <1>2, <1>4, <1>5, <1>7, UserIsLocal, MoveKeepsInv DEF InUser, Building, Creates, Creating

-----------------------------------------------------------------------------
(* The stack of a dead task goes back to the allocator.                    *)

LEMMA OwnersKept ==
  ASSUME Owners, UNCHANGED <<table, kstack, locked>>, \A u \in Slot : Creates(loc'[u]) =>
           Creates(loc[u]) /\ (loc[u].pc = "alloc" => loc'[u] = loc[u])
  PROVE  Owners'
<1>1. Fresh' /\ Mains' /\ Unowned'
  BY DEF Owners, Fresh, Mains, Unowned, Able, Unborn, Settled, Used, table
<1>2. Orphans'
  BY DEF Owners, Orphans, Unborn, Used, table
<1> QED BY <1>1, <1>2 DEF Owners

LEMMA ReapFreeStep == ASSUME Inv, NEW t \in Slot, ReapFree(t) PROVE Inv'
<1> DEFINE i == loc[t].i
<1>1. /\ Used(t) /\ state[t] = "READY" /\ Local(t, loc[t])
      /\ loc \in [Slot -> Locals] /\ loc[t] \in Locals /\ t \in 1 .. N - 1
      /\ num_tasks \in 2 .. N /\ loc[t].pc = "reap_free"
  BY AtIs DEF ReapFree
<1>2. UNCHANGED <<table, kstack, procs, threads, locked>>
  BY DEF ReapFree
<1>3. /\ loc' \in [Slot -> Locals] /\ \A u \in Slot \ {t} : loc'[u] = loc[u]
      /\ loc'[t].pc = "reap_zero" /\ loc'[t].for = loc[t].for /\ loc'[t].i = i
      /\ loc'[t].own = loc[t].own /\ loc'[t].id = loc[t].id /\ loc'[t].stk = loc[t].stk
  <2>1. "reap_zero" \in Points
    BY DEF Points, MidReap
  <2> QED BY <1>1, <2>1, GotoIs DEF ReapFree
<1>4. /\ Used(i) /\ state[i] = "DEAD" /\ loc[t].stk # NoStack /\ loc[t].stk = kstack[i]
  BY <1>1 DEF Local, Reaps, HasDeadSlot, MidReap
<1>5. TypeOK /\ i \in Slot /\ kstack[i] \in Stacks
  BY <1>4, UsedIsSlot DEF Inv, TypeOK
<1>6. free_stacks' = free_stacks \cup {kstack[i]}
  BY <1>4 DEF ReapFree
<1>7. TypeOK'
  BY <1>2, <1>3, <1>5, <1>6 DEF TypeOK, table, procs, threads
<1>8. Locally'
  <2> SUFFICES ASSUME NEW u \in Slot PROVE Local(u, loc[u])'
    BY DEF Locally
  <2>1. Local(u, loc[u])
    BY DEF Inv, Locally
  <2>2. CASE u = t
    BY <1>1, <1>2, <1>3, <1>4, <1>6, <2>2 DEF Local, InPlace, Reaps, Makes, Creates, Creating, Building, HasSlot, HasDeadSlot, MidReap, Used, table
  <2>3. CASE u # t
    BY <1>2, <1>3, <1>6, <2>1, <2>3 DEF Local, InPlace, Reaps, Makes, Unborn, Used, table, procs, Creates
  <2> QED BY <2>2, <2>3
<1>9. Apart'
  BY <1>3 DEF Inv, Apart, Building
<1>10. Owners'
  BY <1>1, <1>2, <1>3, OwnersKept DEF Inv, Creates, Creating
<1>11. Stacked'
  <2>1. Stacked /\ kstack' = kstack /\ \A j \in Slot : Able(j)' <=> Able(j)
    BY <1>2 DEF Inv, Able, Used, table
  <2>2. ASSUME NEW j \in Slot, kstack[j] # NoStack, kstack[j] \in free_stacks'
        PROVE  \E u \in Slot : loc'[u].pc = "reap_zero" /\ loc'[u].i = j
    <3>1. CASE j = i
      BY <1>3, <3>1
    <3>2. CASE j # i
      <4>1. kstack[j] \in free_stacks
        BY <1>5, <1>6, <2>1, <2>2, <3>2 DEF Stacked
      <4> PICK u \in Slot : loc[u].pc = "reap_zero" /\ loc[u].i = j
        BY <2>1, <2>2, <4>1 DEF Stacked
      <4> QED BY <1>1, <1>3
    <3> QED BY <3>1, <3>2
  <2> QED BY <1>6, <2>1, <2>2 DEF Stacked
<1>12. ZombieIsDead'
  BY <1>2 DEF Inv, ZombieIsDead, Of, Used, table, procs
<1> QED BY <1>7, <1>8, <1>9, <1>10, <1>11, <1>12 DEF Inv, Calm

LEMMA ReapZeroStep == ASSUME Inv, NEW t \in Slot, ReapZero(t) PROVE Inv'
<1> DEFINE i == loc[t].i
<1>1. /\ Used(t) /\ state[t] = "READY" /\ Local(t, loc[t])
      /\ loc \in [Slot -> Locals] /\ loc[t] \in Locals /\ t \in 1 .. N - 1
      /\ num_tasks \in 2 .. N /\ loc[t].pc = "reap_zero"
  BY AtIs DEF ReapZero
<1>2. UNCHANGED <<table, free_stacks, procs, threads, locked>>
  BY DEF ReapZero
<1>3. /\ loc' \in [Slot -> Locals] /\ \A u \in Slot \ {t} : loc'[u] = loc[u]
      /\ loc'[t].pc = "reap_owner" /\ loc'[t].for = loc[t].for /\ loc'[t].i = i
      /\ loc'[t].own = loc[t].own /\ loc'[t].id = loc[t].id
  <2>1. loc' = [loc EXCEPT ![t] = [loc[t] EXCEPT !.pc = "reap_owner", !.stk = NoStack]]
    BY <1>1 DEF ReapZero
  <2>2. [loc[t] EXCEPT !.pc = "reap_owner", !.stk = NoStack] \in Locals
    BY <1>1 DEF Locals, MidReap
  <2> QED BY <1>1, <2>1, <2>2 DEF Locals
<1>4. /\ Used(i) /\ state[i] = "DEAD" /\ kstack[i] \in free_stacks
  BY <1>1 DEF Local, Reaps, HasDeadSlot, MidReap
<1>5. TypeOK /\ i \in Slot /\ kstack \in [Slot -> Stacks \cup {NoStack}]
  BY <1>4, UsedIsSlot DEF Inv, TypeOK
<1>6. kstack' = [kstack EXCEPT ![i] = NoStack]
  BY DEF ReapZero
<1>7. TypeOK'
  <2>1. kstack' \in [Slot -> Stacks \cup {NoStack}]
    BY <1>5, <1>6
  <2> QED BY <1>2, <1>3, <1>5, <2>1 DEF TypeOK, table, procs, threads
<1>8. \A u \in Slot \ {t} : loc[u].pc \notin MidReap
  BY AtIs DEF ReapZero
<1>9. Locally'
  <2> SUFFICES ASSUME NEW u \in Slot PROVE Local(u, loc[u])'
    BY DEF Locally
  <2>1. Local(u, loc[u])
    BY DEF Inv, Locally
  <2>2. CASE u = t
    BY <1>1, <1>2, <1>3, <1>4, <2>2 DEF Local, InPlace, Reaps, Makes, Creates, Creating, Building, HasSlot, HasDeadSlot, MidReap, Used, table
  <2>3. CASE u # t
    <3>1. InPlace(u, loc[u])' /\ Reaps(u, loc[u])'
      BY <1>2, <1>3, <1>8, <2>1, <2>3 DEF Local, InPlace, Reaps, MidReap, Used, table
    <3>2. Makes(u, loc[u])'
      <4>1. loc[u].pc \in Building => Unborn(loc[u].id) /\ loc[u].id \in Slot /\ loc[u].id # i
        BY <1>4, <1>5, <2>1, UsedIsSlot DEF Local, Makes, Unborn
      <4>2. loc[u].pc \in Building => kstack'[loc[u].id] = kstack[loc[u].id]
        BY <1>5, <1>6, <4>1
      <4> QED BY <1>2, <1>3, <2>1, <2>3, <4>1, <4>2 DEF Local, Makes, Building, Unborn, Used, table, procs, Creates
    <3> QED BY <3>1, <3>2 DEF Local
  <2> QED BY <2>2, <2>3
<1>10. Apart'
  BY <1>3 DEF Inv, Apart, Building
<1>11. Owners'
  <2>1. Fresh'
    <3>1. \A j \in Slot : kstack[j] = NoStack => kstack'[j] = NoStack
      BY <1>5, <1>6
    <3>2. 0 \in Slot
      BY NAssumption DEF Slot
    <3> QED BY <1>2, <3>1, <3>2 DEF Inv, Owners, Fresh, table
  <2>2. Mains' /\ Unowned'
    BY <1>2 DEF Inv, Owners, Mains, Unowned, Able, Unborn, Settled, Used, table
  <2>3. Orphans'
    BY <1>1, <1>2, <1>3 DEF Inv, Owners, Orphans, Unborn, Used, table, Creates, Creating
  <2> QED BY <2>1, <2>2, <2>3 DEF Owners
<1>12. Stacked'
  <2>1. Stacked /\ free_stacks' = free_stacks /\ \A j \in Slot : Able(j)' <=> Able(j)
    BY <1>2 DEF Inv, Able, Used, table
  <2>2. kstack'[i] = NoStack /\ \A j \in Slot \ {i} : kstack'[j] = kstack[j]
    BY <1>5, <1>6
  <2>3. ASSUME NEW j \in Slot, Able(j) PROVE kstack'[j] # NoStack
    BY <1>4, <2>1, <2>2, <2>3 DEF Able, Stacked
  <2>4. ASSUME NEW j \in Slot, kstack'[j] # NoStack, kstack'[j] \in free_stacks PROVE FALSE
    <3>1. j # i /\ kstack[j] # NoStack /\ kstack[j] \in free_stacks
      BY <2>2, <2>4
    <3> PICK u \in Slot : loc[u].pc = "reap_zero" /\ loc[u].i = j
      BY <2>1, <3>1 DEF Stacked
    <3> QED BY <1>8, <3>1 DEF MidReap
  <2>5. ASSUME NEW j \in Slot, NEW k \in Slot, j # k, kstack'[j] # NoStack PROVE kstack'[j] # kstack'[k]
    BY <2>1, <2>2, <2>5 DEF Stacked
  <2>6. ASSUME NEW r \in Stacks, r \notin free_stacks PROVE \E j \in Slot : kstack'[j] = r
    <3> PICK j \in Slot : kstack[j] = r
      BY <2>1, <2>6 DEF Stacked
    <3> QED BY <1>4, <2>2, <2>6
  <2> QED BY <2>1, <2>3, <2>4, <2>5, <2>6 DEF Stacked
<1>13. ZombieIsDead'
  BY <1>2 DEF Inv, ZombieIsDead, Of, Used, table, procs
<1> QED BY <1>7, <1>9, <1>10, <1>11, <1>12, <1>13 DEF Inv, Calm

-----------------------------------------------------------------------------
(* A dead slot that has been reported belongs to itself again.             *)

LEMMA DisownKeepsInv ==
  ASSUME Inv, NEW t \in Slot, NEW i \in Slot, Used(i), state[i] = "DEAD",
         owner' = [owner EXCEPT ![i] = i],
         UNCHANGED <<state, num_tasks, stacks, procs, threads, locked>>,
         loc' \in [Slot -> Locals], \A u \in Slot \ {t} : loc'[u] = loc[u],
         loc[t].pc \in {"forgotten", "joined"}, loc'[t].pc \in {"forget", "user"},
         ~Creates(loc'[t]), InPlace(t, loc'[t]), Reaps(t, loc'[t])
  PROVE  Inv'
<1>1. TypeOK /\ owner \in [Slot -> Slot]
  BY DEF Inv, TypeOK
<1>2. owner'[i] = i /\ \A j \in Slot \ {i} : owner'[j] = owner[j]
  BY <1>1
<1>3. TypeOK'
  <2>1. owner' \in [Slot -> Slot]
    BY <1>1
  <2> QED BY <1>1, <2>1 DEF TypeOK, stacks, procs, threads
<1>4. Locally'
  <2> SUFFICES ASSUME NEW u \in Slot PROVE Local(u, loc[u])'
    BY DEF Locally
  <2>1. Local(u, loc[u])
    BY DEF Inv, Locally
  <2>2. InPlace(u, loc'[u]) /\ Reaps(u, loc'[u])
    BY <2>1 DEF Local
  <2>3. InPlace(u, loc[u])' /\ Reaps(u, loc[u])'
    BY <2>2 DEF InPlace, Reaps, Used, stacks
  <2>4. Makes(u, loc[u])'
    <3>1. CASE u = t
      BY <3>1 DEF Makes, Building, Creates
    <3>2. CASE u # t
      <4>1. loc[u].pc \in Building => Unborn(loc[u].id) /\ loc[u].id \in Slot /\ loc[u].id # i
        BY <1>1, <2>1, UsedIsSlot DEF Local, Makes, Unborn
      <4>2. loc[u].pc \in Building => owner'[loc[u].id] = owner[loc[u].id]
        BY <1>2, <4>1
      <4>3. Creates(loc[u]) \/ loc[u].pc \in {"create", "arm"} => owner'[u] = owner[u]
        BY <1>2, <2>1 DEF Local, InPlace, Creates, Creating, InUser
      <4> QED BY <2>1, <3>2, <4>1, <4>2, <4>3 DEF Local, Makes, Building, Unborn, Used, stacks, procs, Creates
    <3> QED BY <3>1, <3>2
  <2> QED BY <2>3, <2>4 DEF Local
<1>5. Apart'
  BY DEF Inv, Apart, Building
<1>6. Owners'
  <2>1. i # 0 /\ i < num_tasks
    BY UsedIsSlot, <1>1 DEF Used, TypeOK
  <2>2. Fresh'
    <3>1. 0 \in Slot /\ kstack' = kstack
      BY NAssumption DEF Slot, stacks
    <3>2. ASSUME NEW j \in Slot, j >= num_tasks PROVE owner'[j] = owner[j]
      BY <1>2, <2>1, <3>2, <1>1, NAssumption DEF TypeOK, Slot
    <3>3. owner'[0] = owner[0]
      BY <1>2, <2>1, <3>1
    <3> QED BY <3>1, <3>2, <3>3 DEF Inv, Owners, Fresh
  <2>3. \A j : (Able(j)' <=> Able(j)) /\ (Unborn(j)' <=> Unborn(j))
    BY DEF Able, Unborn, Used
  <2>4. \A j \in Slot : Able(j) \/ Unborn(j) => j # i
    BY DEF Able, Unborn
  <2>5. Mains'
    <3>1. ASSUME NEW j \in Slot, Able(j) PROVE owner'[j] >= 1 /\ owner'[owner'[j]] = owner'[j]
      <4>1. owner[j] >= 1 /\ owner[owner[j]] = owner[j] /\ owner[j] \in Slot
        BY <1>1, <3>1 DEF Inv, Owners, Mains
      <4> QED BY <1>2, <2>4, <3>1, <4>1
    <3> QED BY <2>3, <3>1 DEF Mains
  <2>6. \A j \in Slot : Settled(j)' => Settled(j) /\ owner'[j] = owner[j]
    BY <1>2, <2>3, <2>4 DEF Settled
  <2>7. Unowned'
    BY <1>2, <2>3, <2>4, <2>6 DEF Inv, Owners, Unowned
  <2>8. Orphans'
    BY <1>2, <2>3, <2>4 DEF Inv, Owners, Orphans
  <2> QED BY <2>2, <2>5, <2>7, <2>8 DEF Owners
<1>7. Stacked'
  <2>1. \A j \in Slot : loc[j].pc = "reap_zero" => loc'[j] = loc[j]
    OBVIOUS
  <2> QED BY <2>1 DEF Inv, Stacked, stacks, Able, Used
<1>8. ZombieIsDead'
  <2> SUFFICES ASSUME NEW p \in Slot, proc[p] = "ZOMBIE", NEW j \in Of(p)'
               PROVE  state[j] \notin {"READY", "BLOCKED"}
    BY DEF ZombieIsDead, procs
  <2>1. CASE j = i
    BY <2>1
  <2>2. CASE j # i
    <3>1. j \in Of(p)
      BY <1>2, <2>2 DEF Of, Used
    <3> QED BY <3>1 DEF Inv, ZombieIsDead
  <2> QED BY <2>1, <2>2
<1> QED BY <1>3, <1>4, <1>5, <1>6, <1>7, <1>8 DEF Inv, Calm

LEMMA ForgottenStep == ASSUME Inv, NEW t \in Slot, Forgotten(t) PROVE Inv'
<1> DEFINE i == loc[t].i
<1>1. /\ Used(t) /\ state[t] = "READY" /\ Local(t, loc[t])
      /\ loc \in [Slot -> Locals] /\ loc[t] \in Locals /\ t \in 1 .. N - 1
      /\ num_tasks \in 2 .. N /\ loc[t].pc = "forgotten"
  BY AtIs DEF Forgotten
<1>2. Used(i) /\ state[i] = "DEAD" /\ loc[t].for = "forgotten" /\ i >= 1
  BY <1>1 DEF Local, Reaps, HasSlot, HasDeadSlot, MidReap
<1>3. i \in Slot /\ i \in 1 .. N - 1 /\ i + 1 \in 0 .. N
  BY <1>2, UsedIsSlot, NAssumption DEF Inv
<1>4. /\ loc' \in [Slot -> Locals] /\ \A u \in Slot \ {t} : loc'[u] = loc[u]
      /\ loc'[t].pc = "forget" /\ loc'[t].for = "forgotten" /\ loc'[t].i = i + 1
      /\ loc'[t].own = loc[t].own /\ loc'[t].id = loc[t].id
  <2>1. "forget" \in Points
    BY DEF Points
  <2> QED BY <1>1, <1>2, <1>3, <2>1, ContinueIs DEF Forgotten
<1>5. ~Creates(loc'[t])
  BY <1>4 DEF Creates, Creating
<1>6. InPlace(t, loc'[t]) /\ Reaps(t, loc'[t])
  BY <1>1, <1>3, <1>4 DEF InPlace, Reaps, HasSlot, HasDeadSlot, MidReap
<1> QED BY <1>1, <1>2, <1>3, <1>4, <1>5, <1>6, DisownKeepsInv DEF Forgotten

LEMMA JoinedStep == ASSUME Inv, NEW t \in Slot, Joined(t) PROVE Inv'
<1> DEFINE i == loc[t].id
<1>1. /\ Used(t) /\ state[t] = "READY" /\ Local(t, loc[t])
      /\ loc \in [Slot -> Locals] /\ loc[t] \in Locals /\ t \in 1 .. N - 1
      /\ num_tasks \in 2 .. N /\ loc[t].pc = "joined"
  BY AtIs DEF Joined
<1>2. Used(i) /\ state[i] = "DEAD"
  BY <1>1 DEF Local, Reaps, HasDeadSlot, MidReap
<1>3. i \in Slot
  BY <1>2, UsedIsSlot DEF Inv
<1>4. /\ loc' \in [Slot -> Locals] /\ \A u \in Slot \ {t} : loc'[u] = loc[u]
      /\ loc'[t] = InUser
  BY <1>1, ReturnIs DEF Joined
<1>5. ~Creates(loc'[t]) /\ InPlace(t, loc'[t]) /\ Reaps(t, loc'[t])
  BY <1>4, UserIsLocal DEF Local, Creates, Creating, InUser
<1>6. loc'[t].pc = "user"
  BY <1>4 DEF InUser
<1> QED BY <1>1, <1>2, <1>3, <1>4, <1>5, <1>6, DisownKeepsInv DEF Joined

-----------------------------------------------------------------------------
(* The creation lock.                                                      *)

LEMMA OneCreator ==
  ASSUME Inv, NEW t \in Slot, Creates(loc[t])
  PROVE  locked = t /\ t # NoTask /\ \A u \in Slot \ {t} : ~Creates(loc[u])
<1>1. \A u \in Slot : Creates(loc[u]) => locked = u
  BY DEF Inv, Locally, Local, Makes
<1>2. Used(t)
  BY DEF Inv, Locally, Local, InPlace, Creates, Creating, InUser
<1> QED BY <1>1, <1>2, UsedIsSlot DEF Inv, NoTask

LEMMA CreateLockStep == ASSUME Inv, NEW t \in Slot, CreateLock(t) PROVE Inv'
<1>1. /\ Used(t) /\ state[t] = "READY" /\ Local(t, loc[t])
      /\ loc \in [Slot -> Locals] /\ loc[t] \in Locals /\ t \in 1 .. N - 1
      /\ num_tasks \in 2 .. N /\ loc[t].pc = "create"
  BY AtIs DEF CreateLock
<1>2. locked = NoTask /\ locked' = t /\ UNCHANGED <<table, stacks, procs, threads>>
  BY DEF CreateLock
<1>3. \A u \in Slot : ~Creates(loc[u])
  BY <1>2, OneCreator
<1>4. /\ loc' \in [Slot -> Locals] /\ \A u \in Slot \ {t} : loc'[u] = loc[u]
      /\ loc'[t].pc = "reap" /\ loc'[t].for = "reap_dead" /\ loc'[t].i = 1
      /\ loc'[t].own = loc[t].own /\ loc'[t].id = loc[t].id
  <2>1. loc' = [loc EXCEPT ![t] = [loc[t] EXCEPT !.pc = "reap", !.i = 1, !.for = "reap_dead"]]
    BY <1>1 DEF CreateLock
  <2>2. 1 \in 0 .. N
    BY NAssumption
  <2>3. [loc[t] EXCEPT !.pc = "reap", !.i = 1, !.for = "reap_dead"] \in Locals
    BY <1>1, <2>2 DEF Locals, MidReap
  <2> QED BY <1>1, <2>1, <2>3 DEF Locals
<1>5. TypeOK'
  BY <1>2, <1>4 DEF Inv, TypeOK, table, stacks, procs, threads
<1>6. Locally'
  <2> SUFFICES ASSUME NEW u \in Slot PROVE Local(u, loc[u])'
    BY DEF Locally
  <2>1. Local(u, loc[u])
    BY DEF Inv, Locally
  <2>2. CASE u = t
    BY <1>1, <1>2, <1>4, <2>2 DEF Local, InPlace, Reaps, Makes, Creates, Creating, Building, HasSlot, HasDeadSlot, MidReap, Used, table
  <2>3. CASE u # t
    BY <1>2, <1>3, <1>4, <2>1, <2>3 DEF Local, InPlace, Reaps, Makes, Unborn, Used, table, procs, stacks, Creates
  <2> QED BY <2>2, <2>3
<1>7. Apart'
  BY <1>4 DEF Inv, Apart, Building
<1>8. Owners'
  <2>1. Fresh' /\ Mains' /\ Unowned'
    BY <1>2 DEF Inv, Owners, Fresh, Mains, Unowned, Able, Unborn, Settled, Used, table, stacks
  <2>2. \A d \in Slot : Unborn(d) => owner[d] = d
    BY <1>2 DEF Inv, Owners, Orphans
  <2>3. Orphans'
    BY <1>2, <2>2 DEF Orphans, Unborn, Used, table
  <2> QED BY <2>1, <2>3 DEF Owners
<1>9. Stacked'
  BY <1>1, <1>2, <1>4 DEF Inv, Stacked, Able, Used, table, stacks
<1>10. ZombieIsDead'
  BY <1>2 DEF Inv, ZombieIsDead, Of, Used, table, procs
<1> QED BY <1>5, <1>6, <1>7, <1>8, <1>9, <1>10 DEF Inv, Calm

(* Creator t gives up: he found no slot, or no stack for the one he took.  *)
LEMMA GiveUpKeepsInv ==
  ASSUME Inv, NEW t \in Slot, Creates(loc[t]), loc[t].pc # "reap_zero",
         Return(t), locked' = NoTask,
         UNCHANGED <<owner, num_tasks, stacks, procs, thread_info>>,
         thread_slots' \in [Slot -> SUBSET (1 .. UserStacks)],
         \/ loc[t].pc # "alloc" /\ state' = state
         \/ loc[t].pc = "alloc" /\ state' = [state EXCEPT ![loc[t].id] = "DEAD"]
  PROVE  Inv'
<1>1. TypeOK /\ Local(t, loc[t]) /\ \A u \in Slot : Local(u, loc[u])
  BY DEF Inv, Locally
<1>2. locked = t /\ t # NoTask /\ \A u \in Slot \ {t} : ~Creates(loc[u])
  BY OneCreator
<1>3. /\ loc' \in [Slot -> Locals] /\ \A u \in Slot \ {t} : loc'[u] = loc[u]
      /\ loc'[t] = InUser
  BY <1>1, ReturnIs DEF TypeOK
<1>4. \A j \in Slot : \/ state'[j] = state[j]
                      \/ loc[t].pc = "alloc" /\ j = loc[t].id /\ Unborn(j) /\ state'[j] = "DEAD"
  BY <1>1 DEF Local, Makes, Building, TypeOK
<1>5. \A j \in Slot : Able(j)' <=> Able(j)
  BY <1>4 DEF Able, Used, Unborn
<1>6. \A j \in Slot : Unborn(j)' <=> Unborn(j) /\ ~(loc[t].pc = "alloc" /\ j = loc[t].id)
  BY <1>1, <1>4 DEF Unborn, Used, TypeOK
<1>7. TypeOK'
  <2>1. state' \in [Slot -> State]
    BY <1>1 DEF TypeOK, State
  <2>2. locked' \in Slot
    BY NAssumption DEF NoTask, Slot
  <2> QED BY <1>1, <1>3, <2>1, <2>2 DEF TypeOK, stacks, procs
<1>8. Locally'
  <2> SUFFICES ASSUME NEW u \in Slot PROVE Local(u, loc[u])'
    BY DEF Locally
  <2>1. CASE u = t
    BY <1>3, <2>1 DEF Local, InPlace, Reaps, Makes, Creates, Creating, Building, HasSlot, HasDeadSlot, MidReap, InUser
  <2>2. CASE u # t
    <3>1. loc'[u] = loc[u] /\ Local(u, loc[u]) /\ ~Creates(loc[u])
      BY <1>1, <1>2, <1>3, <2>2
    <3>2. InPlace(u, loc[u])'
      BY <1>4, <3>1 DEF Local, InPlace, Used, Unborn
    <3>3. Reaps(u, loc[u])'
      <4>1. ASSUME NEW i, Used(i), state[i] = "DEAD" PROVE Used(i)' /\ state'[i] = "DEAD"
        BY <1>1, <1>4, <4>1, UsedIsSlot DEF Used
      <4>2. ASSUME NEW i, Used(i) PROVE Used(i)'
        BY <4>2 DEF Used
      <4> QED BY <3>1, <4>1, <4>2 DEF Local, Reaps, stacks
    <3>4. Makes(u, loc[u])'
      <4>1. loc[u].pc \in Building => loc[u].pc = "arm" /\ loc[u].id \in Slot /\ Unborn(loc[u].id)
        BY <1>1, <3>1, UsedIsSlot DEF Local, Makes, Building, Creates, Creating, Unborn
      <4>2. loc[u].pc = "arm" /\ loc[t].pc = "alloc" => loc[u].id # loc[t].id
        BY <2>2 DEF Inv, Apart, Building
      <4>3. loc[u].pc \in Building => Used(loc[u].id) /\ state'[loc[u].id] = "CREATING"
        BY <1>4, <4>1, <4>2 DEF Unborn
      <4> QED BY <3>1, <4>1, <4>3 DEF Local, Makes, Building, stacks, procs, Creates, Unborn, Used
    <3> QED BY <3>1, <3>2, <3>3, <3>4 DEF Local
  <2> QED BY <2>1, <2>2
<1>9. Apart'
  BY <1>3 DEF Inv, Apart, Building, InUser
<1>10. Owners'
  <2>1. Fresh'
    <3>1. 0 \in Slot /\ Fresh
      BY NAssumption DEF Slot, Inv, Owners
    <3>2. \A j \in Slot : Unborn(j) => j # 0 /\ j < num_tasks
      BY <1>1 DEF Unborn, Used, TypeOK
    <3>3. state'[0] = "READY" /\ \A j \in Slot : state[j] = "DEAD" => state'[j] = "DEAD"
      BY <1>4, <3>1, <3>2 DEF Fresh
    <3> QED BY <3>1, <3>3 DEF Fresh, stacks
  <2>2. Mains' /\ Unowned'
    BY <1>5, <1>6 DEF Inv, Owners, Mains, Unowned, Settled
  <2>3. \A d \in Slot : Unborn(d)' => owner[d] = d
    BY <1>6 DEF Inv, Owners, Orphans
  <2> QED BY <2>1, <2>2, <2>3 DEF Owners, Orphans
<1>11. Stacked'
  <2>1. \A j \in Slot : loc[j].pc = "reap_zero" => loc'[j] = loc[j]
    BY <1>3
  <2> QED BY <1>5, <2>1 DEF Inv, Stacked, stacks
<1>12. ZombieIsDead'
  <2>1. \A p : Of(p)' = Of(p)
    BY DEF Of, Used
  <2>2. \A j \in Slot : state[j] \notin {"READY", "BLOCKED"} => state'[j] \notin {"READY", "BLOCKED"}
    BY <1>4
  <2> QED BY <2>1, <2>2 DEF Inv, ZombieIsDead, Of, procs
<1> QED BY <1>7, <1>8, <1>9, <1>10, <1>11, <1>12 DEF Inv, Calm

-----------------------------------------------------------------------------
(* Creator t takes slot i, which is dead, has no stack and no live task of *)
(* its former process beside it.                                           *)

LEMMA ReserveKeepsInv ==
  ASSUME Inv, NEW t \in Slot, loc[t].pc \in {"pick", "picked"}, Used(t),
         \A u \in Slot \ {t} : loc[u].pc \notin MidReap,
         NEW i \in Slot, i # 0, state[i] = "DEAD", kstack[i] = NoStack, Reserve(t, i),
         num_tasks' \in 2 .. N, Used(i)', \A j : j # i => (Used(j)' <=> Used(j)),
         UNCHANGED <<owner, stacks, procs, threads, locked>>,
         \A j \in Slot : j # i /\ Settled(j) => owner[j] # i /\ owner[j] # owner[i]
  PROVE  Inv'
<1>1. TypeOK /\ Local(t, loc[t]) /\ (\A u \in Slot : Local(u, loc[u])) /\ Creates(loc[t])
      /\ loc \in [Slot -> Locals] /\ loc[t] \in Locals
  BY DEF Inv, Locally, Creates, Creating, TypeOK
<1>2. locked = t /\ t # NoTask /\ \A u \in Slot \ {t} : ~Creates(loc[u])
  BY <1>1, OneCreator
<1>3. /\ state'[i] = "CREATING" /\ state' \in [Slot -> State]
      /\ \A j \in Slot \ {i} : state'[j] = state[j]
  BY <1>1 DEF Reserve, TypeOK, State
<1>4. /\ loc' \in [Slot -> Locals] /\ \A u \in Slot \ {t} : loc'[u] = loc[u]
      /\ loc'[t].pc = "alloc" /\ loc'[t].for = "none" /\ loc'[t].i = 0
      /\ loc'[t].own = loc[t].own /\ loc'[t].id = i
  <2>1. loc' = [loc EXCEPT ![t] = [loc[t] EXCEPT !.pc = "alloc", !.for = "none", !.id = i, !.i = 0]]
    BY <1>1 DEF Reserve
  <2>2. i \in -1 .. N /\ 0 \in 0 .. N
    BY NAssumption DEF Slot
  <2>3. [loc[t] EXCEPT !.pc = "alloc", !.for = "none", !.id = i, !.i = 0] \in Locals
    BY <1>1, <2>2 DEF Locals
  <2> QED BY <1>1, <2>1, <2>3 DEF Locals
<1>5. \A j : Used(j) => Used(j)' /\ j \in Slot
  BY <1>1, UsedIsSlot
<1>6. \A j \in Slot : j # i => /\ (Able(j)' <=> Able(j))
                              /\ (Unborn(j)' <=> Unborn(j))
                              /\ (Settled(j)' <=> Settled(j))
  BY <1>3 DEF Able, Unborn, Settled
<1>7. ~Able(i)' /\ ~Able(i) /\ ~Unborn(i) /\ Unborn(i)'
  BY <1>3 DEF Able, Unborn
<1>8. state[t] = "READY" /\ t # i
  BY <1>1 DEF Local, InPlace
<1>9. TypeOK'
  BY <1>1, <1>3, <1>4 DEF TypeOK, stacks, procs, threads
<1>10. Locally'
  <2> SUFFICES ASSUME NEW u \in Slot PROVE Local(u, loc[u])'
    BY DEF Locally
  <2>1. CASE u = t
    <3>1. InPlace(t, loc[t])' /\ Reaps(t, loc[t])'
      BY <1>3, <1>4, <1>5, <1>8 DEF InPlace, Reaps, HasSlot, HasDeadSlot, MidReap
    <3>2. loc[t].own = owner[t]
      BY <1>1 DEF Local, Makes
    <3>3. Makes(t, loc[t])'
      BY <1>2, <1>3, <1>4, <3>2 DEF Makes, Creates, Creating, Building, Unborn, stacks, NoStack
    <3> QED BY <2>1, <3>1, <3>3 DEF Local
  <2>2. CASE u # t
    <3>1. loc'[u] = loc[u] /\ Local(u, loc[u]) /\ ~Creates(loc[u]) /\ loc[u].pc \notin MidReap
      BY <1>1, <1>2, <1>4, <2>2
    <3>2. InPlace(u, loc[u])'
      BY <1>3, <1>5, <3>1 DEF Local, InPlace
    <3>3. Reaps(u, loc[u])'
      BY <1>5, <3>1 DEF Local, Reaps, HasSlot, HasDeadSlot, MidReap, Creates, Creating
    <3>4. Makes(u, loc[u])'
      <4>1. loc[u].pc \in Building => loc[u].pc = "arm" /\ loc[u].id \in Slot /\ Unborn(loc[u].id)
        BY <1>1, <3>1, UsedIsSlot DEF Local, Makes, Building, Creates, Creating, Unborn
      <4>2. ASSUME NEW k \in Slot, Unborn(k) PROVE Used(k)' /\ state'[k] = "CREATING"
        BY <1>3, <1>5, <4>2 DEF Unborn
      <4> QED BY <3>1, <4>1, <4>2 DEF Local, Makes, Building, stacks, procs, Creates, Unborn, Used
    <3> QED BY <3>1, <3>2, <3>3, <3>4 DEF Local
  <2> QED BY <2>1, <2>2
<1>11. Apart'
  <2>1. ASSUME NEW u \in Slot \ {t}, loc[u].pc \in Building PROVE loc[u].id # i
    BY <1>1, <1>7, <2>1 DEF Local, Makes
  <2> QED BY <1>4, <2>1 DEF Inv, Apart
<1>12. Owners'
  <2> USE DEF Inv, Owners
  <2>1. Fresh'
    <3>1. 0 \in Slot
      BY NAssumption DEF Slot
    <3>2. ASSUME NEW j \in Slot, j >= num_tasks' PROVE j # i /\ j >= num_tasks
      <4>1. num_tasks \in 2 .. N /\ j \in 0 .. N - 1
        BY <1>1 DEF TypeOK, Slot
      <4>2. j # i
        BY <3>2, <4>1 DEF Used
      <4>3. ~Used(j)
        BY <3>2, <4>1, <4>2 DEF Used
      <4> QED BY <3>2, <4>1, <4>2, <4>3 DEF Used
    <3> QED BY <1>3, <3>1, <3>2 DEF Fresh, stacks
  <2>2. Mains'
    BY <1>6, <1>7 DEF Mains
  <2>3. \A d \in Slot : Unborn(d) => owner[d] = d
    BY <1>1 DEF Orphans
  <2>4. Unowned'
    <3> SUFFICES ASSUME NEW d \in Slot, NEW j \in Slot, d # j, Unborn(d)', Settled(j)'
                 PROVE  owner[j] # d /\ owner[j] # owner[d]
      BY DEF Unowned
    <3>1. CASE d = i
      BY <1>6, <3>1
    <3>2. CASE d # i /\ j = i
      <4>1. owner[i] = i
        BY <1>7, <3>2 DEF Settled
      <4> QED BY <1>6, <2>3, <3>2, <4>1
    <3>3. CASE d # i /\ j # i
      BY <1>6, <3>3 DEF Unowned
    <3> QED BY <3>1, <3>2, <3>3
  <2>5. Orphans'
    <3>1. \A u \in Slot : Creates(loc'[u]) => u = t
      BY <1>2, <1>4
    <3>2. \A d \in Slot : Unborn(d)' /\ owner[d] # d => d = i
      BY <1>6, <2>3
    <3> QED BY <1>2, <1>4, <3>1, <3>2 DEF Orphans
  <2> QED BY <2>1, <2>2, <2>4, <2>5
<1>13. Stacked'
  <2>1. \A j \in Slot : Able(j)' => Able(j)
    BY <1>6, <1>7
  <2>2. \A j \in Slot : loc[j].pc = "reap_zero" => loc'[j] = loc[j]
    BY <1>4
  <2> QED BY <2>1, <2>2 DEF Inv, Stacked, stacks
<1>14. ZombieIsDead'
  <2> SUFFICES ASSUME NEW p \in Slot, proc[p] = "ZOMBIE", NEW j \in Of(p)'
               PROVE  state'[j] \notin {"READY", "BLOCKED"}
    BY DEF ZombieIsDead, procs
  <2>1. CASE j = i
    BY <1>3, <2>1
  <2>2. CASE j # i
    <3>1. j \in Of(p)
      BY <2>2 DEF Of
    <3> QED BY <1>3, <2>2, <3>1 DEF Inv, ZombieIsDead, Of
  <2> QED BY <2>1, <2>2
<1> QED BY <1>9, <1>10, <1>11, <1>12, <1>13, <1>14 DEF Inv, Calm

LEMMA PickedStep == ASSUME Inv, NEW t \in Slot, Picked(t) PROVE Inv'
<1>1. /\ Used(t) /\ state[t] = "READY" /\ Local(t, loc[t])
      /\ loc \in [Slot -> Locals] /\ loc[t] \in Locals /\ t \in 1 .. N - 1
      /\ num_tasks \in 2 .. N /\ loc[t].pc = "picked"
  BY AtIs DEF Picked
<1>0. Used(loc[t].i) /\ state[loc[t].i] = "DEAD" /\ loc[t].i \in Slot /\ loc[t].i \in 1 .. N - 1
  BY <1>1, UsedIsSlot DEF Inv, Local, Reaps, HasDeadSlot, MidReap
<1> PICK i \in Slot : i = loc[t].i
  BY <1>0
<1>2. Used(i) /\ state[i] = "DEAD" /\ i \in 1 .. N - 1
  BY <1>0
<1>3. UNCHANGED <<owner, num_tasks, stacks, procs, threads, locked>>
  BY DEF Picked
<1>4. \A u \in Slot \ {t} : loc[u].pc \notin MidReap
  BY AtIs DEF Picked
<1>5. CASE kstack[i] = NoStack /\ ~Live(owner[i]) /\ Reserve(t, i)
  <2>1. ASSUME NEW j \in Slot, j # i, Settled(j) PROVE owner[j] # i /\ owner[j] # owner[i]
    <3>1. Used(j) /\ state[j] # "DEAD"
      BY <2>1 DEF Settled, Able, Unborn
    <3>2. j \in 0 .. num_tasks - 1
      BY <1>1, <3>1 DEF Used
    <3>3. owner[j] # owner[i]
      BY <1>5, <3>1, <3>2 DEF Live
    <3>4. CASE Able(j)
      BY <3>3, <3>4 DEF Inv, Owners, Mains
    <3>5. CASE owner[j] = j
      BY <2>1, <3>3, <3>5
    <3> QED BY <2>1, <3>4, <3>5 DEF Settled
  <2>2. Used(i)' /\ (\A j : j # i => (Used(j)' <=> Used(j))) /\ num_tasks' \in 2 .. N
    BY <1>1, <1>2, <1>3 DEF Used
  <2>3. i # 0 /\ loc[t].pc \in {"pick", "picked"}
    BY <1>1, <1>2
  <2> QED BY <1>1, <1>2, <1>3, <1>4, <1>5, <2>1, <2>2, <2>3, ReserveKeepsInv
<1>6. CASE Continue(t, "pick", i + 1) /\ UNCHANGED state
  <2>1. i + 1 \in 0 .. N /\ "pick" \in Points
    BY <1>2, NAssumption DEF Points
  <2>2. /\ loc' \in [Slot -> Locals] /\ \A u \in Slot \ {t} : loc'[u] = loc[u]
        /\ loc'[t].pc = "pick" /\ loc'[t].for = loc[t].for /\ loc'[t].i = i + 1
        /\ loc'[t].own = loc[t].own /\ loc'[t].id = loc[t].id
    BY <1>1, <1>6, <2>1, ContinueIs
  <2>3. Creates(loc[t])
    BY <1>1 DEF Creates, Creating
  <2>4. Local(t, loc'[t])
    BY <1>1, <1>2, <2>2, <2>3 DEF Local, InPlace, Reaps, Makes, Creates, Creating, Building, HasSlot, HasDeadSlot, MidReap
  <2>5. UNCHANGED <<table, stacks, procs, threads, locked>>
    BY <1>3, <1>6 DEF table
  <2>6. loc[t].pc \notin Building \cup {"reap_zero"}
    BY <1>1 DEF Building
  <2>7. loc'[t].pc \notin Building
    BY <2>2 DEF Building
  <2> QED BY <2>2, <2>3, <2>4, <2>5, <2>6, <2>7, OnlyMoves
<1> QED BY <1>5, <1>6 DEF Picked

(* -1 to the caller: one stack less is taken.                              *)
LEMMA FailingIs ==
  ASSUME TypeOK, NEW t \in Slot, CreateFails(t)
  PROVE  /\ Return(t) /\ locked' = NoTask
         /\ thread_slots' \in [Slot -> SUBSET (1 .. UserStacks)]
<1>1. loc[t].own \in Slot /\ thread_slots \in [Slot -> SUBSET (1 .. UserStacks)]
  BY DEF TypeOK, Locals
<1>2. thread_slots' = [thread_slots EXCEPT ![loc[t].own] = @ \ {loc[t].us}]
  BY DEF CreateFails
<1> QED BY <1>1, <1>2 DEF CreateFails

LEMMA PickFreshStep == ASSUME Inv, NEW t \in Slot, PickFresh(t) PROVE Inv'
<1>1. /\ Used(t) /\ state[t] = "READY" /\ Local(t, loc[t])
      /\ loc \in [Slot -> Locals] /\ loc[t] \in Locals /\ t \in 1 .. N - 1
      /\ num_tasks \in 2 .. N /\ loc[t].pc = "pick"
  BY AtIs DEF PickFresh
<1>2. UNCHANGED <<owner, stacks, procs, thread_info>>
  BY DEF PickFresh
<1>3. \A u \in Slot \ {t} : loc[u].pc \notin MidReap
  BY AtIs DEF PickFresh
<1>4. CASE /\ num_tasks < N /\ Reserve(t, num_tasks) /\ num_tasks' = num_tasks + 1
           /\ UNCHANGED <<thread_slots, locked>>
  <2> PICK i \in Slot : i = num_tasks
    BY <1>1, <1>4, NAssumption DEF Slot
  <2>1. i # 0 /\ i < N /\ num_tasks' = i + 1 /\ num_tasks' \in 2 .. N
    BY <1>1, <1>4, NAssumption
  <2>2. state[i] = "DEAD" /\ owner[i] = 0 /\ kstack[i] = NoStack
    BY <1>1 DEF Inv, Owners, Fresh
  <2>3. Used(i)' /\ \A j : j # i => (Used(j)' <=> Used(j))
    BY <1>1, <2>1 DEF Used
  <2>4. ASSUME NEW j \in Slot, j # i, Settled(j) PROVE owner[j] # i /\ owner[j] # owner[i]
    <3>1. CASE Able(j)
      <4>1. owner[j] >= 1 /\ owner[owner[j]] = owner[j]
        BY <3>1 DEF Inv, Owners, Mains
      <4> QED BY <2>1, <2>2, <4>1
    <3>2. CASE Unborn(j) /\ owner[j] = j
      BY <1>1, <2>2, <2>4, <3>2 DEF Unborn, Used
    <3> QED BY <2>4, <3>1, <3>2 DEF Settled
  <2>5. UNCHANGED <<owner, stacks, procs, threads, locked>>
    BY <1>2, <1>4 DEF threads
  <2>6. loc[t].pc \in {"pick", "picked"}
    BY <1>1
  <2>7. Reserve(t, i)
    BY <1>4, Zenon DEF Reserve
  <2> QED BY <1>1, <1>3, <2>1, <2>2, <2>3, <2>4, <2>5, <2>6, <2>7, ReserveKeepsInv
<1>5. CASE CreateFails(t) /\ UNCHANGED <<state, num_tasks>>
  <2>1. Return(t) /\ locked' = NoTask /\ thread_slots' \in [Slot -> SUBSET (1 .. UserStacks)]
    BY <1>5, FailingIs DEF Inv
  <2>2. Creates(loc[t]) /\ loc[t].pc # "reap_zero" /\ loc[t].pc # "alloc"
    BY <1>1 DEF Creates, Creating
  <2>3. UNCHANGED <<owner, num_tasks, stacks, procs, thread_info>> /\ state' = state
    BY <1>2, <1>5
  <2> QED BY <2>1, <2>2, <2>3, GiveUpKeepsInv
<1> QED BY <1>4, <1>5 DEF PickFresh

LEMMA AllocStep == ASSUME Inv, NEW t \in Slot, Alloc(t) PROVE Inv'
<1>1. /\ Used(t) /\ state[t] = "READY" /\ Local(t, loc[t])
      /\ loc \in [Slot -> Locals] /\ loc[t] \in Locals /\ t \in 1 .. N - 1
      /\ num_tasks \in 2 .. N /\ loc[t].pc = "alloc"
  BY AtIs DEF Alloc
<1>0. \A u \in Slot : loc[u].pc \notin MidReap
  BY <1>1, AtIs DEF Alloc, MidReap
<1>2. Unborn(loc[t].id) /\ loc[t].id \in Slot /\ loc[t].id \in 1 .. N - 1 /\ Creates(loc[t])
  BY <1>1, UsedIsSlot DEF Inv, Local, Makes, Building, Creates, Creating, Unborn
<1>3. UNCHANGED <<num_tasks, thread_info>>
  BY DEF Alloc
<1>4. CASE /\ state' = [state EXCEPT ![loc[t].id] = "DEAD"]
           /\ CreateFails(t)
           /\ UNCHANGED <<owner, stacks, procs>>
  <2>1. Return(t) /\ locked' = NoTask /\ thread_slots' \in [Slot -> SUBSET (1 .. UserStacks)]
    BY <1>4, FailingIs DEF Inv
  <2>2. UNCHANGED <<owner, num_tasks, stacks, procs, thread_info>>
    BY <1>3, <1>4
  <2>3. loc[t].pc # "reap_zero"
    BY <1>1
  <2> QED BY <1>1, <1>2, <1>4, <2>1, <2>2, <2>3, GiveUpKeepsInv
<1>5. ASSUME NEW s \in free_stacks,
             kstack' = [kstack EXCEPT ![loc[t].id] = s], free_stacks' = free_stacks \ {s},
             owner' = [owner EXCEPT ![loc[t].id] = loc[t].id],
             proc' = [proc EXCEPT ![loc[t].id] = "RUNNING"],
             parent' = [parent EXCEPT ![loc[t].id] = owner[t]],
             wait_waiters' = [wait_waiters EXCEPT ![loc[t].id] = {}],
             Goto(t, "created"),
             UNCHANGED <<state, thread_slots, locked>>
      PROVE  Inv'
  <2> PICK id \in Slot : id = loc[t].id
    BY <1>2
  <2>1. TypeOK /\ Unborn(id) /\ id # 0 /\ id # t /\ id < num_tasks /\ kstack[id] = NoStack
    BY <1>1, <1>2 DEF Inv, Unborn, Local, Makes, Used, TypeOK
  <2>2. s \in Stacks /\ s # NoStack
    BY <2>1 DEF TypeOK, Stacks, NoStack
  <2>3. /\ kstack'[id] = s /\ (\A j \in Slot \ {id} : kstack'[j] = kstack[j])
        /\ owner'[id] = id /\ (\A j \in Slot \ {id} : owner'[j] = owner[j])
        /\ proc'[id] = "RUNNING" /\ (\A j \in Slot \ {id} : proc'[j] = proc[j])
    BY <1>5, <2>1 DEF TypeOK
  <2>4. /\ loc' \in [Slot -> Locals] /\ \A u \in Slot \ {t} : loc'[u] = loc[u]
        /\ loc'[t].pc = "created" /\ loc'[t].for = loc[t].for /\ loc'[t].i = loc[t].i
        /\ loc'[t].own = loc[t].own /\ loc'[t].id = loc[t].id
    BY <1>1, <1>5, GotoIs DEF Points
  <2>5. \A j : (Used(j)' <=> Used(j)) /\ (Able(j)' <=> Able(j)) /\ (Unborn(j)' <=> Unborn(j))
    BY <1>3, <1>5 DEF Used, Able, Unborn
  <2>6. ~Able(id) /\ \A u \in Slot \ {t} : ~Creates(loc[u])
    BY <1>2, <2>1, OneCreator DEF Able, Unborn
  <2>7. \A d \in Slot \ {id} : Unborn(d) => owner[d] = d
    BY <1>2 DEF Inv, Owners, Orphans
  <2>8. TypeOK'
    <3>1. kstack' \in [Slot -> Stacks \cup {NoStack}] /\ free_stacks' \in SUBSET Stacks
      BY <1>5, <2>1, <2>2 DEF TypeOK
    <3>2. owner' \in [Slot -> Slot] /\ owner[t] \in Slot
      BY <1>2, <1>5, <2>1 DEF TypeOK
    <3>3. /\ proc' \in [Slot -> {"UNUSED", "RUNNING", "ZOMBIE"}]
          /\ parent' \in [Slot -> Slot]
          /\ wait_waiters' \in [Slot -> SUBSET Slot]
      BY <1>5, <2>1, <3>2 DEF TypeOK
    <3> QED BY <1>3, <1>5, <2>1, <2>4, <3>1, <3>2, <3>3 DEF TypeOK
  <2>9. Locally'
    <3> SUFFICES ASSUME NEW u \in Slot PROVE Local(u, loc[u])'
      BY DEF Locally
    <3>1. Local(u, loc[u])
      BY DEF Inv, Locally
    <3>2. CASE u = t
      <4>1. Used(id)' /\ Unborn(id)' /\ Used(t)' /\ state'[t] = "READY" /\ owner'[t] = owner[t]
        BY <1>1, <1>5, <2>1, <2>3, <2>5 DEF Unborn
      <4>2. loc[t].own = owner[t] /\ locked = t /\ loc[t].for = "none"
        BY <1>1, <1>2 DEF Local, Makes, Building
      <4>3. InPlace(t, loc[t])' /\ Reaps(t, loc[t])'
        BY <2>4, <4>1, <4>2 DEF InPlace, Reaps, HasSlot, HasDeadSlot, MidReap
      <4>4. Makes(t, loc[t])'
        BY <1>5, <2>2, <2>3, <2>4, <4>1, <4>2 DEF Makes, Building, Unborn
      <4> QED BY <3>2, <4>3, <4>4 DEF Local
    <3>3. CASE u # t
      <4>1. loc'[u] = loc[u] /\ ~Creates(loc[u]) /\ loc[u].pc \notin MidReap
        BY <1>0, <2>4, <2>6, <3>3
      <4>2. InPlace(u, loc[u])' /\ Reaps(u, loc[u])'
        BY <1>5, <2>5, <3>1, <4>1 DEF Local, InPlace, Reaps, HasSlot, HasDeadSlot, MidReap
      <4>3. loc[u].pc \in {"create", "arm"} => owner'[u] = owner[u]
        BY <2>1, <2>3, <3>1 DEF Local, InPlace, Unborn
      <4>4. loc[u].pc \in Building =>
              loc[u].pc = "arm" /\ Unborn(loc[u].id) /\ loc[u].id \in Slot \ {id}
        <5>1. loc[u].pc \in Building => Unborn(loc[u].id) /\ loc[u].pc = "arm"
          BY <3>1, <4>1 DEF Local, Makes, Building, Creates, Creating
        <5>2. loc[u].pc \in Building => loc[u].id # id
          BY <1>1, <3>3 DEF Inv, Apart, Building
        <5> QED BY <2>1, <5>1, <5>2, UsedIsSlot DEF Unborn
      <4>5. ASSUME NEW k \in Slot \ {id}, Unborn(k)
            PROVE  /\ Used(k)' /\ state'[k] = "CREATING"
                   /\ owner'[k] = owner[k] /\ proc'[k] = proc[k] /\ kstack'[k] = kstack[k]
        BY <1>5, <2>3, <2>5, <4>5 DEF Unborn
      <4>6. Makes(u, loc[u])'
        BY <3>1, <4>1, <4>3, <4>4, <4>5 DEF Local, Makes, Building, Unborn, Used, Creates
      <4> QED BY <4>2, <4>6 DEF Local
    <3> QED BY <3>2, <3>3
  <2>10. Apart'
    <3>1. \A u \in Slot : loc'[u].id = loc[u].id /\ (loc'[u].pc \in Building <=> loc[u].pc \in Building)
      BY <1>1, <2>4 DEF Building
    <3> QED BY <3>1 DEF Inv, Apart
  <2>11. Owners'
    <3>1. Fresh'
      <4>1. 0 \in Slot /\ id # 0
        BY <2>1, NAssumption DEF Slot
      <4>2. \A j \in Slot : j >= num_tasks => j # id
        BY <2>1 DEF TypeOK, Slot
      <4> QED BY <1>3, <1>5, <2>3, <4>1, <4>2 DEF Inv, Owners, Fresh
    <3>2. Mains'
      <4> SUFFICES ASSUME NEW j \in Slot, Able(j) PROVE owner'[j] >= 1 /\ owner'[owner'[j]] = owner'[j]
        BY <2>5 DEF Mains
      <4>1. j # id /\ owner[j] # id /\ owner[j] \in Slot
        BY <2>1, <2>6 DEF Inv, Owners, Unowned, Settled, TypeOK
      <4>2. owner[j] >= 1 /\ owner[owner[j]] = owner[j]
        BY DEF Inv, Owners, Mains
      <4> QED BY <2>3, <4>1, <4>2
    <3>3. Unowned'
      <4> SUFFICES ASSUME NEW d \in Slot, NEW j \in Slot, d # j, Unborn(d), Settled(j)'
                   PROVE  owner'[j] # d /\ owner'[j] # owner'[d]
        BY <2>5 DEF Unowned
      <4>1. CASE j = id
        BY <2>3, <2>7, <4>1
      <4>2. CASE j # id
        <5>1. Settled(j) /\ owner'[j] = owner[j]
          BY <2>3, <2>5, <4>2 DEF Settled
        <5>2. owner[j] # d /\ owner[j] # owner[d] /\ owner[j] # id
          BY <2>1, <4>2, <5>1 DEF Inv, Owners, Unowned
        <5> QED BY <2>3, <5>1, <5>2
      <4> QED BY <4>1, <4>2
    <3>4. Orphans'
      BY <2>3, <2>5, <2>7 DEF Orphans
    <3> QED BY <3>1, <3>2, <3>3, <3>4 DEF Owners
  <2>12. Stacked'
    <3>1. Stacked
      BY DEF Inv
    <3>2. \A j \in Slot : kstack[j] # NoStack => kstack[j] \notin free_stacks
      BY <1>0, <3>1 DEF Stacked, MidReap
    <3>3. ASSUME NEW j \in Slot, Able(j) PROVE kstack'[j] # NoStack
      BY <2>3, <2>6, <3>1, <3>3 DEF Stacked
    <3>4. ASSUME NEW j \in Slot, kstack'[j] # NoStack PROVE kstack'[j] \notin free_stacks'
      BY <1>5, <2>3, <3>2, <3>4
    <3>5. ASSUME NEW j \in Slot, NEW k \in Slot, j # k, kstack'[j] # NoStack PROVE kstack'[j] # kstack'[k]
      BY <2>2, <2>3, <3>1, <3>2, <3>5 DEF Stacked
    <3>6. ASSUME NEW r \in Stacks, r \notin free_stacks' PROVE \E j \in Slot : kstack'[j] = r
      <4>1. CASE r = s
        BY <2>3, <4>1
      <4>2. CASE r # s
        <5>1. PICK j \in Slot : kstack[j] = r
          BY <1>5, <3>1, <3>6, <4>2 DEF Stacked
        <5>2. j # id
          BY <2>1, <5>1 DEF Stacks, NoStack
        <5> QED BY <2>3, <5>1, <5>2
      <4> QED BY <4>1, <4>2
    <3> QED BY <2>5, <3>3, <3>4, <3>5, <3>6 DEF Stacked
  <2>13. ZombieIsDead'
    <3> SUFFICES ASSUME NEW p \in Slot, proc'[p] = "ZOMBIE", NEW j \in Of(p)'
                 PROVE  state[j] \notin {"READY", "BLOCKED"}
      BY <1>5 DEF ZombieIsDead
    <3>1. p # id /\ proc[p] = "ZOMBIE" /\ j \in Slot /\ Used(j) /\ owner'[j] = p
      BY <2>3, <2>5 DEF Of
    <3>2. j \in Of(p)
      BY <2>3, <3>1 DEF Of
    <3> QED BY <3>1, <3>2 DEF Inv, ZombieIsDead
  <2> QED BY <2>8, <2>9, <2>10, <2>11, <2>12, <2>13 DEF Inv, Calm
<1> QED BY <1>4, <1>5 DEF Alloc

LEMMA CreatedProcessStep == ASSUME Inv, NEW t \in Slot, CreatedProcess(t) PROVE Inv'
<1>1. /\ Used(t) /\ state[t] = "READY" /\ Local(t, loc[t])
      /\ loc \in [Slot -> Locals] /\ loc[t] \in Locals /\ t \in 1 .. N - 1
      /\ num_tasks \in 2 .. N /\ loc[t].pc = "created"
  BY AtIs DEF CreatedProcess
<1>0. Creates(loc[t])
  BY <1>1 DEF Creates, Creating
<1>2. locked = t /\ \A u \in Slot \ {t} : ~Creates(loc[u])
  BY <1>0, OneCreator
<1>3. Unborn(loc[t].id) /\ loc[t].id \in Slot /\ loc[t].own = owner[t] /\ loc[t].for = "none"
  BY <1>0, <1>1, UsedIsSlot DEF Inv, Local, Makes, Building, Unborn
<1>4. state' = state
  BY <1>3 DEF CreatedProcess, Unborn, Inv, TypeOK
<1>5. locked' = NoTask /\ UNCHANGED <<owner, num_tasks, stacks, procs, thread_info>>
  BY DEF CreatedProcess
<1>6. /\ loc' \in [Slot -> Locals] /\ \A u \in Slot \ {t} : loc'[u] = loc[u]
      /\ loc'[t].pc = "arm" /\ loc'[t].for = "none" /\ loc'[t].i = loc[t].i
      /\ loc'[t].own = loc[t].own /\ loc'[t].id = loc[t].id
  BY <1>1, <1>3, GotoIs DEF CreatedProcess, Points
<1>7. TypeOK'
  <2>1. thread_slots' \in [Slot -> SUBSET (1 .. UserStacks)]
    BY <1>3 DEF CreatedProcess, Inv, TypeOK
  <2>2. locked' \in Slot
    BY <1>5, NAssumption DEF NoTask, Slot
  <2> QED BY <1>4, <1>5, <1>6, <2>1, <2>2 DEF Inv, TypeOK, stacks, procs
<1>8. Locally'
  <2> SUFFICES ASSUME NEW u \in Slot PROVE Local(u, loc[u])'
    BY DEF Locally
  <2>1. Local(u, loc[u])
    BY DEF Inv, Locally
  <2>2. CASE u = t
    <3>1. InPlace(t, loc[t])' /\ Reaps(t, loc[t])'
      BY <1>1, <1>4, <1>5, <1>6 DEF InPlace, Reaps, HasSlot, HasDeadSlot, MidReap, Used
    <3>2. Makes(t, loc[t])'
      BY <1>1, <1>3, <1>4, <1>5, <1>6 DEF Local, Makes, Building, Unborn, Used, procs, stacks, Creates, Creating
    <3> QED BY <2>2, <3>1, <3>2 DEF Local
  <2>3. CASE u # t
    <3>1. InPlace(u, loc[u])' /\ Reaps(u, loc[u])'
      BY <1>4, <1>5, <1>6, <2>1, <2>3 DEF Local, InPlace, Reaps, Used, stacks
    <3>2. Makes(u, loc[u])'
      BY <1>2, <1>4, <1>5, <1>6, <2>1, <2>3 DEF Local, Makes, Unborn, Used, procs, stacks, Creates
    <3> QED BY <3>1, <3>2 DEF Local
  <2> QED BY <2>2, <2>3
<1>9. Apart'
  <2>1. \A u \in Slot : loc'[u].id = loc[u].id /\ (loc'[u].pc \in Building <=> loc[u].pc \in Building)
    BY <1>1, <1>6 DEF Building
  <2> QED BY <2>1 DEF Inv, Apart
<1>10. Owners'
  <2>1. Fresh' /\ Mains' /\ Unowned'
    BY <1>4, <1>5 DEF Inv, Owners, Fresh, Mains, Unowned, Able, Unborn, Settled, Used, stacks
  <2>2. \A d \in Slot : Unborn(d) => owner[d] = d
    BY <1>0, <1>1 DEF Inv, Owners, Orphans
  <2>3. Orphans'
    BY <1>4, <1>5, <2>2 DEF Orphans, Unborn, Used
  <2> QED BY <2>1, <2>3 DEF Owners
<1>11. Stacked'
  <2>1. \A u \in Slot : loc[u].pc = "reap_zero" => loc'[u] = loc[u]
    BY <1>1, <1>6
  <2> QED BY <1>4, <1>5, <2>1 DEF Inv, Stacked, Able, Used, stacks
<1>12. ZombieIsDead'
  BY <1>4, <1>5 DEF Inv, ZombieIsDead, Of, Used, procs
<1> QED BY <1>7, <1>8, <1>9, <1>10, <1>11, <1>12 DEF Inv, Calm

BothInUser(t, id) == loc' = [loc EXCEPT ![t] = InUser, ![id] = InUser]

(* Creator t arms slot id, as the first task of a process or as a thread   *)
(* of t's own.                                                             *)
LEMMA ArmKeepsInv ==
  ASSUME Inv, TypeOK', NEW t \in Slot, NEW id \in Slot, id = loc[t].id, NEW own \in Slot,
         state' = [state EXCEPT ![id] = "READY"],
         owner' = [owner EXCEPT ![id] = own],
         BothInUser(t, id),
         UNCHANGED <<num_tasks, stacks>>,
         \A p \in Slot \ {id} : proc'[p] = proc[p],
         \/ loc[t].pc = "arm" /\ own = id /\ locked' = locked /\ proc'[id] = proc[id]
         \/ loc[t].pc = "created" /\ own = owner[t] /\ locked' = NoTask /\ proc'[id] = "UNUSED"
  PROVE  Inv'
<1>1. TypeOK /\ Local(t, loc[t]) /\ \A u \in Slot : Local(u, loc[u])
  BY DEF Inv, Locally
<1>2. /\ Unborn(id) /\ owner[id] = id /\ proc[id] # "ZOMBIE" /\ kstack[id] # NoStack
      /\ loc[t].own = owner[t] /\ loc[t].for = "none"
  <2>1. Unborn(loc[t].id) /\ Unborn(id)
    BY <1>1 DEF Local, Makes, Building, Unborn
  <2> QED BY <1>1, <2>1 DEF Local, Makes, Building, Creates, Creating
<1>3. Able(t) /\ state[t] = "READY" /\ t # id
  BY <1>1, <1>2 DEF Local, InPlace, Able, Unborn
<1>4. loc[id] = InUser
  BY <1>1, <1>2 DEF Local, InPlace, Unborn
<1>5. loc'[t] = InUser /\ \A u \in Slot \ {t} : loc'[u] = loc[u]
  BY <1>1, <1>4 DEF TypeOK, BothInUser
<1>6. /\ state'[id] = "READY" /\ (\A j \in Slot \ {id} : state'[j] = state[j])
      /\ owner'[id] = own /\ (\A j \in Slot \ {id} : owner'[j] = owner[j])
  BY <1>1 DEF TypeOK
<1>7. (\A j : Used(j)' <=> Used(j)) /\ kstack' = kstack /\ free_stacks' = free_stacks
  BY DEF Used, stacks
<1>8. /\ \A j \in Slot : Able(j)' <=> (Able(j) \/ j = id)
      /\ \A j \in Slot : Unborn(j)' <=> (Unborn(j) /\ j # id)
  BY <1>2, <1>6, <1>7 DEF Able, Unborn
<1>9. \A u \in Slot \ {t} : Creates(loc[u]) => locked' = u
  <2>1. CASE loc[t].pc = "arm"
    BY <1>1, <2>1 DEF Local, Makes
  <2>2. CASE loc[t].pc = "created"
    BY <2>2, OneCreator DEF Creates, Creating
  <2> QED BY <2>1, <2>2
<1>10. /\ own >= 1 /\ owner'[own] = own
       /\ \A d \in Slot : Unborn(d) /\ d # id => own # d /\ own # owner[d]
  <2>1. Settled(t) /\ Settled(id)
    BY <1>2, <1>3 DEF Settled
  <2>2. CASE own = id
    <3>1. id >= 1
      BY <1>2 DEF Unborn, Used
    <3> QED BY <1>2, <1>6, <2>1, <2>2, <3>1 DEF Inv, Owners, Unowned
  <2>3. CASE own = owner[t]
    <3>1. own >= 1 /\ owner[own] = own
      BY <1>3, <2>3 DEF Inv, Owners, Mains
    <3>2. \A d \in Slot : Unborn(d) => d # t /\ own # d /\ own # owner[d]
      BY <1>3, <2>1, <2>3 DEF Inv, Owners, Unowned, Unborn
    <3> QED BY <1>2, <1>6, <3>1, <3>2
  <2> QED BY <2>2, <2>3
<1>11. proc'[own] # "ZOMBIE"
  <2>1. CASE own = id
    BY <1>2, <2>1
  <2>2. CASE own # id /\ own = owner[t]
    <3>1. t \in Of(own)
      BY <1>3, <2>2 DEF Of, Able
    <3> QED BY <1>3, <2>2, <3>1 DEF Inv, ZombieIsDead
  <2> QED BY <2>1, <2>2
<1>12. Locally'
  <2> SUFFICES ASSUME NEW u \in Slot PROVE Local(u, loc[u])'
    BY DEF Locally
  <2>1. CASE u = t
    BY <1>5, <2>1 DEF Local, InPlace, Reaps, Makes, Creates, Creating, Building, HasSlot, HasDeadSlot, MidReap, InUser
  <2>2. CASE u = id
    BY <1>3, <1>4, <1>5, <2>2 DEF Local, InPlace, Reaps, Makes, Creates, Creating, Building, HasSlot, HasDeadSlot, MidReap, InUser
  <2>3. CASE u # t /\ u # id
    <3>1. loc'[u] = loc[u] /\ Local(u, loc[u]) /\ state'[u] = state[u] /\ owner'[u] = owner[u]
      BY <1>1, <1>5, <1>6, <2>3
    <3>2. InPlace(u, loc[u])'
      BY <1>7, <3>1 DEF Local, InPlace
    <3>3. Reaps(u, loc[u])'
      <4>1. ASSUME NEW i, Used(i) PROVE Used(i)' /\ (state[i] = "DEAD" => state'[i] = "DEAD")
        BY <1>1, <1>2, <1>6, <1>7, <4>1, UsedIsSlot DEF Unborn
      <4> QED BY <1>7, <3>1, <4>1 DEF Local, Reaps
    <3>4. Makes(u, loc[u])'
      <4>1. loc[u].pc \in Building => Unborn(loc[u].id)
        BY <3>1 DEF Local, Makes
      <4>2. loc[u].pc \in Building => loc[u].id \in Slot \ {id}
        BY <1>1, <2>3, <4>1, UsedIsSlot DEF Inv, Apart, Building, Unborn
      <4>3. ASSUME NEW k \in Slot \ {id}, Unborn(k)
            PROVE  /\ Used(k)' /\ state'[k] = "CREATING"
                   /\ owner'[k] = owner[k] /\ proc'[k] = proc[k] /\ kstack'[k] = kstack[k]
        BY <1>6, <1>7, <4>3 DEF Unborn
      <4> QED BY <1>9, <2>3, <3>1, <4>1, <4>2, <4>3 DEF Local, Makes, Building, Unborn, Used, Creates
    <3> QED BY <3>1, <3>2, <3>3, <3>4 DEF Local
  <2> QED BY <2>1, <2>2, <2>3
<1>13. Apart'
  BY <1>5 DEF Inv, Apart, Building, InUser
<1>14. Owners'
  <2>1. Fresh'
    <3>1. num_tasks \in 2 .. N /\ id \in 1 .. num_tasks - 1
      BY <1>1, <1>2 DEF Unborn, Used, TypeOK
    <3>2. 0 \in Slot /\ id # 0
      BY <3>1, NAssumption DEF Slot
    <3>3. \A j \in Slot : j >= num_tasks => j # id
      BY <3>1, NAssumption DEF Slot
    <3> QED BY <1>6, <1>7, <3>2, <3>3 DEF Inv, Owners, Fresh
  <2>2. \A j \in Slot : Able(j) => owner[j] # id /\ j # id /\ owner[j] \in Slot
    BY <1>1, <1>2 DEF Inv, Owners, Unowned, Settled, Able, Unborn, TypeOK
  <2>3. Mains'
    BY <1>6, <1>8, <1>10, <2>2 DEF Inv, Owners, Mains
  <2>4. Unowned'
    <3> SUFFICES ASSUME NEW d \in Slot, NEW j \in Slot, d # j, Unborn(d)', Settled(j)'
                 PROVE  owner'[j] # d /\ owner'[j] # owner'[d]
      BY DEF Unowned
    <3>1. Unborn(d) /\ d # id /\ owner'[d] = owner[d]
      BY <1>6, <1>8
    <3>2. CASE j = id
      BY <1>6, <1>10, <3>1, <3>2
    <3>3. CASE j # id
      <4>1. Settled(j) /\ owner'[j] = owner[j]
        BY <1>6, <1>8, <3>3 DEF Settled
      <4> QED BY <3>1, <4>1 DEF Inv, Owners, Unowned
    <3> QED BY <3>2, <3>3
  <2>5. Orphans'
    <3>1. \A u \in Slot : Creates(loc'[u]) => loc'[u] = loc[u]
      BY <1>5 DEF Creates, Creating, InUser
    <3>2. CASE loc[t].pc = "arm"
      BY <1>6, <1>8, <3>1, <3>2 DEF Inv, Owners, Orphans
    <3>3. CASE loc[t].pc = "created"
      <4>1. \A d \in Slot : Unborn(d) => owner[d] = d
        BY <3>3 DEF Inv, Owners, Orphans, Creates, Creating
      <4> QED BY <1>6, <1>8, <4>1 DEF Orphans
    <3> QED BY <3>2, <3>3
  <2> QED BY <2>1, <2>3, <2>4, <2>5 DEF Owners
<1>15. Stacked'
  <2>1. \A u \in Slot : loc[u].pc = "reap_zero" => loc'[u] = loc[u]
    BY <1>5
  <2> QED BY <1>2, <1>7, <1>8, <2>1 DEF Inv, Stacked
<1>16. ZombieIsDead'
  <2> SUFFICES ASSUME NEW p \in Slot, proc'[p] = "ZOMBIE", NEW j \in Of(p)'
               PROVE  state'[j] \notin {"READY", "BLOCKED"}
    BY DEF ZombieIsDead
  <2>1. j \in Slot /\ Used(j) /\ owner'[j] = p /\ p # own
    BY <1>7, <1>11 DEF Of
  <2>2. j # id
    BY <1>6, <2>1
  <2>3. proc[p] = "ZOMBIE"
    BY <1>2
  <2>4. j \in Of(p)
    BY <1>6, <2>1, <2>2 DEF Of
  <2> QED BY <1>6, <2>1, <2>2, <2>3, <2>4 DEF Inv, ZombieIsDead
<1> QED BY <1>12, <1>13, <1>14, <1>15, <1>16 DEF Inv, Calm

LEMMA ArmProcessStep == ASSUME Inv, NEW t \in Slot, ArmProcess(t) PROVE Inv'
<1>1. /\ Used(t) /\ state[t] = "READY" /\ Local(t, loc[t])
      /\ loc \in [Slot -> Locals] /\ loc[t] \in Locals /\ t \in 1 .. N - 1
      /\ num_tasks \in 2 .. N /\ loc[t].pc = "arm"
  BY AtIs DEF ArmProcess
<1>2. TypeOK /\ Unborn(loc[t].id) /\ loc[t].id \in Slot /\ owner[loc[t].id] = loc[t].id
  BY <1>1, UsedIsSlot DEF Inv, Local, Makes, Building, Unborn
<1> PICK id \in Slot : id = loc[t].id
  BY <1>2
<1>3. UNCHANGED <<owner, num_tasks, stacks, procs, threads, locked>>
  BY DEF ArmProcess
<1>4. state' = [state EXCEPT ![id] = "READY"]
  BY <1>2 DEF ArmProcess, Unborn
<1>5. BothInUser(t, id)
  BY DEF ArmProcess, BothInUser
<1>6. owner' = [owner EXCEPT ![id] = id]
  BY <1>2, <1>3 DEF TypeOK
<1>7. TypeOK'
  <2>1. state' \in [Slot -> State] /\ loc' \in [Slot -> Locals]
    BY <1>2, <1>4, <1>5, InUserType DEF BothInUser, TypeOK, State
  <2> QED BY <1>2, <1>3, <2>1 DEF TypeOK, stacks, procs, threads
<1>8. proc' = proc /\ UNCHANGED <<num_tasks, stacks>>
  BY <1>3 DEF procs
<1> QED BY <1>1, <1>3, <1>4, <1>5, <1>6, <1>7, <1>8, ArmKeepsInv

LEMMA ArmThreadStep == ASSUME Inv, NEW t \in Slot, ArmThread(t) PROVE Inv'
<1>1. /\ Used(t) /\ state[t] = "READY" /\ Local(t, loc[t])
      /\ loc \in [Slot -> Locals] /\ loc[t] \in Locals /\ t \in 1 .. N - 1
      /\ num_tasks \in 2 .. N /\ loc[t].pc = "created"
  BY AtIs DEF ArmThread
<1>2. TypeOK /\ Unborn(loc[t].id) /\ loc[t].id \in Slot /\ loc[t].own = owner[t]
  BY <1>1, UsedIsSlot DEF Inv, Local, Makes, Building, Unborn, Creates, Creating
<1> PICK id \in Slot, own \in Slot : id = loc[t].id /\ own = loc[t].own
  BY <1>1, <1>2 DEF Locals
<1>3. UNCHANGED <<num_tasks, stacks, parent, wait_waiters, thread_slots>> /\ locked' = NoTask
  BY DEF ArmThread
<1>4. /\ state' = [state EXCEPT ![id] = "READY"]
      /\ owner' = [owner EXCEPT ![id] = own]
      /\ proc' = [proc EXCEPT ![id] = "UNUSED"]
      /\ thread_info' = [thread_info EXCEPT ![id] = [owner |-> own, slot |-> loc[t].us]]
  BY DEF ArmThread
<1>5. BothInUser(t, id)
  BY DEF ArmThread, BothInUser
<1>6. TypeOK'
  <2>1. state' \in [Slot -> State] /\ owner' \in [Slot -> Slot]
        /\ proc' \in [Slot -> {"UNUSED", "RUNNING", "ZOMBIE"}]
    BY <1>2, <1>4 DEF TypeOK, State
  <2>2. loc' \in [Slot -> Locals]
    BY <1>2, <1>5, InUserType DEF BothInUser, TypeOK
  <2>3. thread_info' \in [Slot -> [owner : Slot, slot : 0 .. UserStacks]]
    <3>1. [owner |-> own, slot |-> loc[t].us] \in [owner : Slot, slot : 0 .. UserStacks]
      BY <1>1 DEF Locals
    <3> QED BY <1>2, <1>4, <3>1 DEF TypeOK
  <2>4. locked' \in Slot
    BY <1>3, NAssumption DEF NoTask, Slot
  <2> QED BY <1>2, <1>3, <2>1, <2>2, <2>3, <2>4 DEF TypeOK, stacks
<1>7. /\ \A p \in Slot \ {id} : proc'[p] = proc[p]
      /\ proc'[id] = "UNUSED"
  BY <1>2, <1>4 DEF TypeOK
<1>8. own = owner[t]
  BY <1>2
<1> QED BY <1>1, <1>3, <1>4, <1>5, <1>6, <1>7, <1>8, ArmKeepsInv

-----------------------------------------------------------------------------
(* Every step keeps the invariant.                                         *)

LEMMA InvNext == Inv /\ [Next]_vars => Inv'
<1> SUFFICES ASSUME Inv, [Next]_vars PROVE Inv'
  OBVIOUS
<1>1. ASSUME NEW t \in Slot, Progress(t) PROVE Inv'
  <2>1. CASE Reap(t) \/ ReapFree(t) \/ ReapZero(t) \/ ReapOwner(t)
    BY <2>1, ReapStep, ReapFreeStep, ReapZeroStep, ReapOwnerStep
  <2>2. CASE ReapDead(t) \/ Pick(t) \/ Picked(t) \/ PickFresh(t)
    BY <2>2, ReapDeadStep, PickStep, PickedStep, PickFreshStep
  <2>3. CASE Alloc(t) \/ CreatedProcess(t) \/ ArmProcess(t) \/ ArmThread(t)
    BY <2>3, AllocStep, CreatedProcessStep, ArmProcessStep, ArmThreadStep
  <2>4. CASE WaitFind(t) \/ WaitBlock(t) \/ WaitWoken(t)
    BY <2>4, WaitFindStep, WaitBlockStep, WaitWokenStep
  <2>5. CASE Forget(t) \/ ForgetSlot(t) \/ Forgotten(t) \/ ForgetDone(t)
    BY <2>5, ForgetStep, ForgetSlotStep, ForgottenStep, ForgetDoneStep
  <2>6. CASE Joined(t) \/ Killed(t)
    BY <2>6, JoinedStep, KilledStep
  <2> QED BY <1>1, <2>1, <2>2, <2>3, <2>4, <2>5, <2>6 DEF Progress
<1>2. ASSUME NEW t \in Slot, Spin(t) PROVE Inv'
  BY <1>2, CreateLockStep, JoinDeadStep DEF Spin
<1>3. ASSUME NEW t \in Slot, Call(t) PROVE Inv'
  <2>1. CASE SpawnProcess(t) \/ SpawnThread(t) \/ ExitThread(t) \/ ExitProcess(t)
    BY <2>1, SpawnProcessStep, SpawnThreadStep, ExitThreadStep, ExitProcessStep
  <2>2. ASSUME NEW pid \in WaitFor, WaitPid(t, pid) PROVE Inv'
    BY <2>2, WaitPidStep
  <2>3. ASSUME NEW id \in Slot, Join(t, id) \/ Kill(t, id) PROVE Inv'
    BY <2>3, JoinStep, KillStep
  <2> QED BY <1>3, <2>1, <2>2, <2>3 DEF Call
<1>4. CASE UNCHANGED vars
  BY <1>4 DEF vars, table, stacks, procs, threads, Inv, Calm, TypeOK, Locally, Local, InPlace, Reaps, Makes,
              Apart, Owners, Fresh, Mains, Unowned, Orphans, Stacked, ZombieIsDead, Of,
              Used, Able, Unborn, Settled, Creates
<1> QED BY <1>1, <1>2, <1>3, <1>4 DEF Next

(* Whatever the number of slots and stacks and the mix of system calls,    *)
(* when no reap is interrupted half-way and nobody kills a slot under      *)
(* construction: the variables keep their types, creators take turns from  *)
(* lock to unlock and share no slot, every task that may run has a kernel  *)
(* stack of its own and none is lost, and no task of a zombie runs again   *)
(* (task_create_ex, task_reap_one, task_kill, task_wait_pid in task.c).    *)
THEOREM ProcessSafe ==
  Calm /\ Spec => [](TypeOK /\ CreatorsSerialized /\ StacksExclusive /\ ZombieIsDead)
<1>1. Calm /\ Init => Inv
  BY InvInit
<1>2. Inv /\ [Next]_vars => Inv'
  BY InvNext
<1>3. Inv => TypeOK /\ CreatorsSerialized /\ StacksExclusive /\ ZombieIsDead
  BY InvImplies DEF Inv
<1> QED BY <1>1, <1>2, <1>3, PTL DEF Spec

-----------------------------------------------------------------------------
(***************************************************************************)
(* waitpid, in a system whose programs start no threads.  (With threads    *)
(* two of them may find the same zombie, and the second may forget the     *)
(* process that has got its slot since.)                                   *)
(***************************************************************************)

(* Without threads every process is one task, the one in the slot of the   *)
(* same number.  A dead slot is free or a zombie, a task that may run is a *)
(* process, and only a task in waitpid is blocked ...                      *)
Single ==
  /\ \A i \in Slot : owner[i] \in {0, i}
  /\ \A i \in Slot : state[i] = "DEAD" => proc[i] # "RUNNING"
  /\ \A i \in Slot : i >= num_tasks => proc[i] = "UNUSED"
  /\ \A i \in Slot : Able(i) => proc[i] # "UNUSED"
  /\ \A i \in Slot : state[i] = "BLOCKED" => loc[i].pc = "woken"

(* ... the locals l of a task t inside waitpid name its own process and,   *)
(* once a zombie is found, one of its children that is still a zombie; a   *)
(* slot being prepared is no process yet, and a kill hits what it aimed at.*)
InWait == {"wait", "block", "woken", "found", "forget"}
Forgets(l) == l.pc \in {"found", "forget"} \/ (l.pc \in MidReap /\ l.for = "forgotten")
Picks(l) == l.pc = "picked" \/ (l.pc \in MidReap /\ l.for = "picked")
Solo(t, l) ==
  /\ l.us = 0
  /\ l.pc \in InWait \/ Forgets(l) => l.own = t
  /\ Forgets(l) => l.id >= 1 /\ l.id \in Slot /\ proc[l.id] = "ZOMBIE" /\ parent[l.id] = t
  /\ l.pc = "kill" => l.own = l.id /\ owner[l.id] = l.id
  /\ Picks(l) => proc[l.i] = "UNUSED"
  /\ l.pc = "alloc" => proc[l.id] = "UNUSED"
  /\ l.pc \in {"created", "arm"} => proc[l.id] = "RUNNING"
Solos == \A t \in Slot : Solo(t, loc[t])

NoThreads == "thread" \notin Ops
SInv == Inv /\ NoThreads /\ Single /\ Solos /\ WaiterNotForgotten

LEMMA SingleInit ==
  ASSUME Init
  PROVE  Single /\ Solos /\ WaiterNotForgotten
<1>1. 0 \in Slot /\ 1 \in Slot /\ Slot \subseteq Int
  BY NAssumption DEF Slot
<1>2. Single
  <2>1. \A i \in Slot : /\ owner[i] = IF i = 1 THEN 1 ELSE 0
                        /\ state[i] = IF i = 0 \/ i = 1 THEN "READY" ELSE "DEAD"
                        /\ proc[i] = IF i < 2 THEN "RUNNING" ELSE "UNUSED"
    BY DEF Init
  <2>2. num_tasks = 2 /\ \A i \in Slot : i \in Nat
    BY NAssumption DEF Init, Slot
  <2>3. \A i \in Slot : i < 2 <=> (i = 0 \/ i = 1)
    BY <2>2
  <2>4. \A i \in Slot : i >= num_tasks => ~(i < 2)
    BY <2>2
  <2> QED BY <2>1, <2>3, <2>4 DEF Single, Able
<1>3. Solos
  BY <1>1 DEF Init, Solos, Solo, InUser, InWait, Forgets, Picks, MidReap
<1>4. WaiterNotForgotten
  BY <1>1 DEF Init, WaiterNotForgotten
<1> QED BY <1>2, <1>3, <1>4

(* What is true of task t at its program point.                            *)
LEMMA SoloAt ==
  ASSUME SInv, NEW t \in Slot, NEW p, At(t, p)
  PROVE  /\ Used(t) /\ Able(t) /\ state[t] = "READY" /\ owner[t] = t /\ t >= 1
         /\ loc[t].pc = p /\ Local(t, loc[t]) /\ Solo(t, loc[t])
         /\ loc \in [Slot -> Locals] /\ loc[t] \in Locals
         /\ num_tasks \in 2 .. N /\ t \in 1 .. N - 1
<1>1. /\ Used(t) /\ state[t] = "READY" /\ loc[t].pc = p /\ Local(t, loc[t])
      /\ loc \in [Slot -> Locals] /\ loc[t] \in Locals
      /\ num_tasks \in 2 .. N /\ t \in 1 .. N - 1
  BY AtIs DEF SInv
<1>2. Able(t) /\ t >= 1
  BY <1>1, NAssumption DEF Able
<1>3. owner[t] = t
  BY <1>2 DEF SInv, Inv, Owners, Mains, Single
<1> QED BY <1>1, <1>2, <1>3 DEF SInv, Solos

(* Steps that only move task t and write none of the tables.               *)
LEMMA SoloMoves ==
  ASSUME SInv, NEW t \in Slot, state[t] = "READY",
         \A u \in Slot \ {t} : loc'[u] = loc[u],
         UNCHANGED <<table, procs>>,
         Solo(t, loc'[t])
  PROVE  Single' /\ Solos' /\ WaiterNotForgotten'
<1>0. /\ state' = state /\ owner' = owner /\ num_tasks' = num_tasks
      /\ proc' = proc /\ parent' = parent /\ wait_waiters' = wait_waiters
  BY DEF table, procs
<1>1. Single'
  BY <1>0 DEF SInv, Single, Able, Used
<1>2. Solos'
  <2>1. \A u \in Slot : Solo(u, loc'[u])
    BY DEF SInv, Solos
  <2> QED BY <1>0, <2>1 DEF Solos, Solo, Forgets, Picks
<1>3. WaiterNotForgotten'
  <2>1. \A u \in Slot : state[u] = "BLOCKED" => loc'[u] = loc[u]
    OBVIOUS
  <2> QED BY <1>0, <2>1 DEF SInv, WaiterNotForgotten, HasChild, ZombieChildren, Child
<1> QED BY <1>1, <1>2, <1>3


(* Task t goes on to q, in the course of a reap.                           *)
LEMMA SoloGoesOn ==
  ASSUME SInv, NEW t \in Slot, NEW p \in MidReap, At(t, p), UNCHANGED <<table, procs>>,
         NEW q \in Points, q \in MidReap \cup {"reap_dead"} \/ q = loc[t].for,
         q \in {"reap_dead", "picked", "forgotten", "joined", "reap_free", "reap_zero", "reap_owner"},
         loc'[t].pc = q, loc'[t].for = loc[t].for, loc'[t].i = loc[t].i,
         loc'[t].id = loc[t].id, loc'[t].own = loc[t].own, loc'[t].us = loc[t].us,
         \A u \in Slot \ {t} : loc'[u] = loc[u]
  PROVE  Single' /\ Solos' /\ WaiterNotForgotten'
<1>1. state[t] = "READY" /\ loc[t].pc = p /\ Solo(t, loc[t])
  BY SoloAt
<1>2. Solo(t, loc'[t])
  BY <1>1 DEF Solo, InWait, Forgets, Picks, MidReap
<1> QED BY <1>1, <1>2, SoloMoves

LEMMA SoloReap ==
  ASSUME SInv, NEW t \in Slot, Reap(t) \/ ReapFree(t) \/ ReapZero(t) \/ ReapOwner(t)
  PROVE  Single' /\ Solos' /\ WaiterNotForgotten'
<1>1. PICK p \in MidReap : At(t, p) /\ p \in {"reap", "reap_free", "reap_zero", "reap_owner"}
  BY DEF Reap, ReapFree, ReapZero, ReapOwner, MidReap
<1>2. /\ loc[t].pc = p /\ Local(t, loc[t]) /\ Solo(t, loc[t])
      /\ loc \in [Slot -> Locals] /\ loc[t] \in Locals /\ num_tasks \in 2 .. N
  BY <1>1, SoloAt
<1>3. UNCHANGED <<table, procs>>
  BY DEF Reap, ReapFree, ReapZero, ReapOwner
<1>4. loc[t].for \in {"reap_dead", "picked", "forgotten", "joined"}
  BY <1>1, <1>2 DEF Local, Reaps, Locals, MidReap
<1>5. PICK q \in Points :
        /\ q \in {"reap_free", "reap_zero", "reap_owner"} \/ q = loc[t].for
        /\ loc'[t].pc = q /\ loc'[t].for = loc[t].for /\ loc'[t].i = loc[t].i
        /\ loc'[t].id = loc[t].id /\ loc'[t].own = loc[t].own /\ loc'[t].us = loc[t].us
        /\ \A u \in Slot \ {t} : loc'[u] = loc[u]
  <2>0. /\ "reap_free" \in Points /\ "reap_zero" \in Points /\ "reap_owner" \in Points
        /\ loc[t].for \in Points
    BY <1>4 DEF Points, MidReap
  <2>1. CASE Goto(t, loc[t].for)
    BY <1>2, <2>0, <2>1, GotoIs
  <2>2. CASE Goto(t, "reap_owner")
    BY <1>2, <2>0, <2>2, GotoIs
  <2>3. CASE Goto(t, "reap_zero")
    BY <1>2, <2>0, <2>3, GotoIs
  <2>4. CASE loc' = [loc EXCEPT ![t].pc = "reap_free", ![t].stk = kstack[loc[t].i]]
    <3>1. loc' = [loc EXCEPT ![t] = [loc[t] EXCEPT !.pc = "reap_free", !.stk = kstack[loc[t].i]]]
      BY <1>2, <2>4
    <3> QED BY <1>2, <2>0, <3>1 DEF Locals
  <2>5. CASE loc' = [loc EXCEPT ![t].pc = "reap_owner", ![t].stk = NoStack]
    <3>1. loc' = [loc EXCEPT ![t] = [loc[t] EXCEPT !.pc = "reap_owner", !.stk = NoStack]]
      BY <1>2, <2>5
    <3> QED BY <1>2, <2>0, <3>1 DEF Locals
  <2> QED BY <2>1, <2>2, <2>3, <2>4, <2>5 DEF Reap, ReapFree, ReapZero, ReapOwner
<1>6. q \in MidReap \cup {"reap_dead"} \/ q = loc[t].for
  BY <1>5 DEF MidReap
<1>7. q \in {"reap_dead", "picked", "forgotten", "joined", "reap_free", "reap_zero", "reap_owner"}
  BY <1>4, <1>5
<1> QED BY <1>1, <1>3, <1>5, <1>6, <1>7, SoloGoesOn

LEMMA ContinueMoves ==
  ASSUME loc \in [Slot -> Locals], NEW t \in Slot, NEW p, NEW i, Continue(t, p, i)
  PROVE  /\ \A u \in Slot \ {t} : loc'[u] = loc[u]
         /\ loc'[t].pc = p /\ loc'[t].i = i /\ loc'[t].for = loc[t].for
         /\ loc'[t].id = loc[t].id /\ loc'[t].own = loc[t].own /\ loc'[t].us = loc[t].us
<1>1. loc[t] \in Locals
  OBVIOUS
<1>2. loc' = [loc EXCEPT ![t] = [loc[t] EXCEPT !.pc = p, !.i = i]]
  BY <1>1 DEF Continue
<1> QED BY <1>1, <1>2 DEF Locals

LEMMA SoloReapDead ==
  ASSUME SInv, NEW t \in Slot, ReapDead(t)
  PROVE  Single' /\ Solos' /\ WaiterNotForgotten'
<1>1. /\ state[t] = "READY" /\ loc[t].pc = "reap_dead" /\ Local(t, loc[t]) /\ Solo(t, loc[t])
      /\ loc \in [Slot -> Locals] /\ loc[t].for = "reap_dead"
  BY SoloAt DEF ReapDead, Local, Reaps
<1>2. UNCHANGED <<table, procs>>
  BY DEF ReapDead
<1>3. \E p \in {"reap", "pick"} : \E i : Continue(t, p, i)
  BY DEF ReapDead
<1>4. /\ \A u \in Slot \ {t} : loc'[u] = loc[u]
      /\ loc'[t].pc \in {"reap", "pick"} /\ loc'[t].for = "reap_dead" /\ loc'[t].us = 0
  BY <1>1, <1>3, ContinueMoves DEF Solo
<1>5. Solo(t, loc'[t])
  BY <1>4 DEF Solo, InWait, Forgets, Picks, MidReap
<1> QED BY <1>1, <1>2, <1>4, <1>5, SoloMoves

LEMMA SoloPick ==
  ASSUME SInv, NEW t \in Slot, Pick(t)
  PROVE  Single' /\ Solos' /\ WaiterNotForgotten'
<1> DEFINE i == loc[t].i
<1>1. /\ state[t] = "READY" /\ loc[t].pc = "pick" /\ Local(t, loc[t]) /\ Solo(t, loc[t])
      /\ loc \in [Slot -> Locals] /\ loc[t] \in Locals /\ num_tasks \in 2 .. N
  BY SoloAt DEF Pick
<1>2. UNCHANGED <<table, procs>>
  BY DEF Pick
<1>3. CASE Continue(t, "pick", i + 1)
  <2>1. /\ \A u \in Slot \ {t} : loc'[u] = loc[u]
        /\ loc'[t].pc = "pick" /\ loc'[t].us = 0
    BY <1>1, <1>3, ContinueMoves DEF Solo
  <2>2. Solo(t, loc'[t])
    BY <2>1 DEF Solo, InWait, Forgets, Picks, MidReap
  <2> QED BY <1>1, <1>2, <2>1, <2>2, SoloMoves
<1>4. CASE /\ ~(state[i] # "DEAD" \/ proc[i] = "ZOMBIE")
           /\ loc' = [loc EXCEPT ![t].pc = "reap", ![t].for = "picked"]
  <2>1. i \in Slot
    <3>1. i \in 0 .. N /\ i < num_tasks
      BY <1>1 DEF Pick, Locals
    <3> QED BY <1>1, <3>1, NAssumption DEF Slot
  <2>2. proc[i] = "UNUSED"
    <3>1. proc[i] \in {"UNUSED", "RUNNING", "ZOMBIE"}
      BY <2>1 DEF SInv, Inv, TypeOK
    <3> QED BY <1>4, <2>1, <3>1 DEF SInv, Single
  <2>3. loc' = [loc EXCEPT ![t] = [loc[t] EXCEPT !.pc = "reap", !.for = "picked"]]
    BY <1>1, <1>4
  <2>4. /\ \A u \in Slot \ {t} : loc'[u] = loc[u]
        /\ loc'[t].pc = "reap" /\ loc'[t].for = "picked" /\ loc'[t].i = i /\ loc'[t].us = 0
    BY <1>1, <2>3 DEF Locals, Solo
  <2>5. Solo(t, loc'[t])
    BY <2>2, <2>4 DEF Solo, InWait, Forgets, Picks, MidReap
  <2> QED BY <1>1, <1>2, <2>4, <2>5, SoloMoves
<1> QED BY <1>3, <1>4 DEF Pick

(* The beginnings of calls.                                                *)
LEMMA SoloCalls ==
  ASSUME SInv, NEW t \in Slot,
         \/ SpawnProcess(t) \/ SpawnThread(t)
         \/ \E pid \in WaitFor : WaitPid(t, pid)
         \/ \E id \in Slot : Join(t, id) \/ Kill(t, id)
  PROVE  Single' /\ Solos' /\ WaiterNotForgotten'
<1>1. At(t, "user")
  BY DEF SpawnProcess, SpawnThread, WaitPid, Join, Kill
<1>2. /\ state[t] = "READY" /\ owner[t] = t /\ loc \in [Slot -> Locals]
  BY <1>1, SoloAt
<1>3. UNCHANGED <<table, procs>>
  BY DEF SpawnProcess, SpawnThread, WaitPid, Join, Kill, StartCreate
<1>4. CASE SpawnProcess(t)
  <2>1. loc' = [loc EXCEPT ![t] = [InUser EXCEPT !.pc = "create", !.us = 0, !.own = owner[t]]]
    BY <1>4 DEF SpawnProcess, StartCreate
  <2>2. \A u \in Slot \ {t} : loc'[u] = loc[u]
    BY <1>2, <2>1
  <2>3. Solo(t, loc'[t])
    BY <1>2, <2>1 DEF Solo, InUser, InWait, Forgets, Picks, MidReap
  <2> QED BY <1>2, <1>3, <2>2, <2>3, SoloMoves
<1>5. ~SpawnThread(t)
  BY DEF SpawnThread, SInv, NoThreads
<1>6. ASSUME NEW pid \in WaitFor, WaitPid(t, pid)
      PROVE  Single' /\ Solos' /\ WaiterNotForgotten'
  <2>1. loc' = [loc EXCEPT ![t] = [InUser EXCEPT !.pc = "wait", !.id = pid, !.own = owner[t]]]
    BY <1>6 DEF WaitPid
  <2>2. \A u \in Slot \ {t} : loc'[u] = loc[u]
    BY <1>2, <2>1
  <2>3. Solo(t, loc'[t])
    BY <1>2, <2>1 DEF Solo, InUser, InWait, Forgets, Picks, MidReap
  <2> QED BY <1>2, <1>3, <2>2, <2>3, SoloMoves
<1>7. ASSUME NEW id \in Slot, Join(t, id)
      PROVE  Single' /\ Solos' /\ WaiterNotForgotten'
  <2>1. loc' = [loc EXCEPT ![t] = [InUser EXCEPT !.pc = "join", !.id = id]]
    BY <1>7 DEF Join
  <2>2. \A u \in Slot \ {t} : loc'[u] = loc[u]
    BY <1>2, <2>1
  <2>3. Solo(t, loc'[t])
    BY <1>2, <2>1 DEF Solo, InUser, InWait, Forgets, Picks, MidReap
  <2> QED BY <1>2, <1>3, <2>2, <2>3, SoloMoves
<1>8. ASSUME NEW id \in Slot, Kill(t, id)
      PROVE  Single' /\ Solos' /\ WaiterNotForgotten'
  <2>1. loc' = [loc EXCEPT ![t] = [InUser EXCEPT !.pc = "kill", !.id = id, !.own = owner[id]]]
    BY <1>8 DEF Kill
  <2>2. \A u \in Slot \ {t} : loc'[u] = loc[u]
    BY <1>2, <2>1
  <2>3. owner[id] = id
    <3>1. Used(id) /\ state[id] \in {"READY", "BLOCKED"}
      BY <1>8 DEF Kill, SInv, Inv, Calm, TypeOK, State
    <3>2. id >= 1 /\ owner[id] >= 1
      BY <3>1, UsedIsSlot, NAssumption DEF Able, SInv, Inv, Owners, Mains
    <3> QED BY <3>2 DEF SInv, Single
  <2>4. Solo(t, loc'[t])
    BY <1>2, <2>1, <2>3 DEF Solo, InUser, InWait, Forgets, Picks, MidReap
  <2> QED BY <1>2, <1>3, <2>2, <2>4, SoloMoves
<1> QED BY <1>4, <1>5, <1>6, <1>7, <1>8

(* The two spinning loops.                                                 *)
LEMMA SoloSpin ==
  ASSUME SInv, NEW t \in Slot, CreateLock(t) \/ JoinDead(t)
  PROVE  Single' /\ Solos' /\ WaiterNotForgotten'
<1>1. PICK p \in {"create", "join"} : At(t, p)
  BY DEF CreateLock, JoinDead
<1>2. /\ state[t] = "READY" /\ loc \in [Slot -> Locals] /\ loc[t] \in Locals /\ loc[t].us = 0
  BY <1>1, SoloAt DEF Solo
<1>3. UNCHANGED <<table, procs>>
  BY DEF CreateLock, JoinDead
<1>4. PICK i \in {1, loc[t].id}, f \in {"reap_dead", "joined"} :
        loc' = [loc EXCEPT ![t] = [loc[t] EXCEPT !.pc = "reap", !.i = i, !.for = f]]
  <2>1. CASE CreateLock(t)
    <3>1. loc' = [loc EXCEPT ![t] = [loc[t] EXCEPT !.pc = "reap", !.i = 1, !.for = "reap_dead"]]
      BY <1>2, <2>1 DEF CreateLock
    <3> QED BY <3>1
  <2>2. CASE JoinDead(t)
    <3>1. loc' = [loc EXCEPT ![t] = [loc[t] EXCEPT !.pc = "reap", !.i = loc[t].id, !.for = "joined"]]
      BY <1>2, <2>2 DEF JoinDead
    <3> QED BY <3>1
  <2> QED BY <2>1, <2>2
<1>5. /\ \A u \in Slot \ {t} : loc'[u] = loc[u]
      /\ loc'[t].pc = "reap" /\ loc'[t].for = f /\ loc'[t].us = 0
  BY <1>2, <1>4 DEF Locals
<1>6. Solo(t, loc'[t])
  BY <1>5 DEF Solo, InWait, Forgets, Picks, MidReap
<1> QED BY <1>2, <1>3, <1>5, <1>6, SoloMoves

(* waitpid, as long as it neither blocks nor reports.                      *)
LEMMA SoloWaitFind ==
  ASSUME SInv, NEW t \in Slot, WaitFind(t)
  PROVE  Single' /\ Solos' /\ WaiterNotForgotten'
<1>1. /\ state[t] = "READY" /\ loc[t].pc = "wait" /\ Solo(t, loc[t]) /\ t >= 1
      /\ loc \in [Slot -> Locals] /\ loc[t] \in Locals /\ loc[t].own = t
  BY SoloAt DEF WaitFind, Solo, InWait
<1>2. UNCHANGED <<table, procs>>
  BY DEF WaitFind
<1>3. ASSUME NEW c \in ZombieChildren(loc[t].own, loc[t].id),
             loc' = [loc EXCEPT ![t].pc = "found", ![t].id = c]
      PROVE  Single' /\ Solos' /\ WaiterNotForgotten'
  <2>1. loc' = [loc EXCEPT ![t] = [loc[t] EXCEPT !.pc = "found", !.id = c]]
    BY <1>1, <1>3
  <2>2. /\ \A u \in Slot \ {t} : loc'[u] = loc[u]
        /\ loc'[t].pc = "found" /\ loc'[t].id = c /\ loc'[t].own = t /\ loc'[t].us = 0
    BY <1>1, <2>1 DEF Locals, Solo
  <2>3. c \in Slot /\ c >= 1 /\ proc[c] = "ZOMBIE" /\ parent[c] = t
    BY <1>1, NAssumption DEF ZombieChildren, Child, Slot
  <2>4. Solo(t, loc'[t])
    BY <2>2, <2>3 DEF Solo, InWait, Forgets, Picks, MidReap
  <2> QED BY <1>1, <1>2, <2>2, <2>4, SoloMoves
<1>4. CASE Goto(t, "block")
  <2>1. /\ \A u \in Slot \ {t} : loc'[u] = loc[u]
        /\ loc'[t].pc = "block" /\ loc'[t].own = t /\ loc'[t].us = 0
    <3>1. "block" \in Points
      BY DEF Points
    <3> QED BY <1>1, <1>4, <3>1, GotoIs DEF Solo
  <2>2. Solo(t, loc'[t])
    BY <2>1 DEF Solo, InWait, Forgets, Picks, MidReap
  <2> QED BY <1>1, <1>2, <2>1, <2>2, SoloMoves
<1>5. CASE Return(t)
  <2>1. (\A u \in Slot \ {t} : loc'[u] = loc[u]) /\ loc'[t] = InUser
    BY <1>1, <1>5, ReturnIs
  <2>2. Solo(t, loc'[t])
    BY <2>1 DEF Solo, InUser, InWait, Forgets, Picks, MidReap
  <2> QED BY <1>1, <1>2, <2>1, <2>2, SoloMoves
<1> QED BY <1>3, <1>4, <1>5 DEF WaitFind

LEMMA SoloForget ==
  ASSUME SInv, NEW t \in Slot, Forget(t) \/ ForgetSlot(t)
  PROVE  Single' /\ Solos' /\ WaiterNotForgotten'
<1>1. PICK p \in {"found", "forget"} : At(t, p)
  BY DEF Forget, ForgetSlot
<1>2. /\ state[t] = "READY" /\ loc[t].pc = p /\ Solo(t, loc[t]) /\ Forgets(loc[t])
      /\ loc \in [Slot -> Locals] /\ loc[t] \in Locals
  BY <1>1, SoloAt DEF Forgets
<1>3. UNCHANGED <<table, procs>>
  BY DEF Forget, ForgetSlot
<1>4. CASE Return(t)
  <2>1. (\A u \in Slot \ {t} : loc'[u] = loc[u]) /\ loc'[t] = InUser
    BY <1>2, <1>4, ReturnIs
  <2>2. Solo(t, loc'[t])
    BY <2>1 DEF Solo, InUser, InWait, Forgets, Picks, MidReap
  <2> QED BY <1>2, <1>3, <2>1, <2>2, SoloMoves
<1>5. ASSUME NEW i, Continue(t, "forget", i)
      PROVE  Single' /\ Solos' /\ WaiterNotForgotten'
  <2>1. /\ \A u \in Slot \ {t} : loc'[u] = loc[u]
        /\ loc'[t].pc = "forget" /\ loc'[t].id = loc[t].id /\ loc'[t].own = loc[t].own
        /\ loc'[t].us = loc[t].us
    BY <1>2, <1>5, ContinueMoves
  <2>2. Solo(t, loc'[t])
    BY <1>2, <2>1 DEF Solo, InWait, Forgets, Picks, MidReap
  <2> QED BY <1>2, <1>3, <2>1, <2>2, SoloMoves
<1>6. CASE loc' = [loc EXCEPT ![t].pc = "reap", ![t].for = "forgotten"]
  <2>1. loc' = [loc EXCEPT ![t] = [loc[t] EXCEPT !.pc = "reap", !.for = "forgotten"]]
    BY <1>2, <1>6
  <2>2. /\ \A u \in Slot \ {t} : loc'[u] = loc[u]
        /\ loc'[t].pc = "reap" /\ loc'[t].for = "forgotten"
        /\ loc'[t].id = loc[t].id /\ loc'[t].own = loc[t].own /\ loc'[t].us = loc[t].us
    BY <1>2, <2>1 DEF Locals
  <2>3. Solo(t, loc'[t])
    BY <1>2, <2>2 DEF Solo, InWait, Forgets, Picks, MidReap
  <2> QED BY <1>2, <1>3, <2>2, <2>3, SoloMoves
<1> QED BY <1>4, <1>5, <1>6 DEF Forget, ForgetSlot

(* Steps that change the table.  A task stays in waitpid with its children *)
(* if they are as they were and no other has become a zombie.              *)
LEMMA WaitersKept ==
  ASSUME SInv,
         \A u \in Slot : state'[u] = "BLOCKED" =>
           /\ state[u] = "BLOCKED" /\ loc'[u] = loc[u]
           /\ u \in wait_waiters[u] => u \in wait_waiters'[u]
           /\ \A c \in Slot : c >= 1 /\ proc[c] # "UNUSED" /\ parent[c] = u =>
                                proc'[c] = proc[c] /\ parent'[c] = u
           /\ \A c \in Slot : proc'[c] = "ZOMBIE" /\ parent'[c] = u =>
                                proc[c] = "ZOMBIE" /\ parent[c] = u
  PROVE  WaiterNotForgotten'
<1> SUFFICES ASSUME NEW u \in Slot, state'[u] = "BLOCKED"
             PROVE  /\ u \in wait_waiters'[loc'[u].own]
                    /\ HasChild(loc[u].own, loc[u].id)'
                    /\ ZombieChildren(loc[u].own, loc[u].id)' = {}
  BY DEF WaiterNotForgotten
<1>1. /\ state[u] = "BLOCKED" /\ loc'[u] = loc[u] /\ loc[u].own = u
      /\ u \in wait_waiters[u] /\ HasChild(u, loc[u].id) /\ ZombieChildren(u, loc[u].id) = {}
  BY DEF SInv, Single, Solos, Solo, InWait, WaiterNotForgotten
<1>2. u \in wait_waiters'[loc'[u].own]
  BY <1>1
<1>3. HasChild(loc[u].own, loc[u].id)'
  <2>1. PICK c \in Slot : Child(u, c, loc[u].id)
    BY <1>1 DEF HasChild
  <2>2. c >= 1 /\ proc[c] # "UNUSED" /\ parent[c] = u
    BY <2>1, NAssumption DEF Child, Slot
  <2>3. proc'[c] = proc[c] /\ parent'[c] = u
    BY <2>2
  <2> QED BY <1>1, <2>1, <2>3 DEF HasChild, Child
<1>4. ZombieChildren(loc[u].own, loc[u].id)' = {}
  <2>1. \A c \in Slot : proc[c] = "ZOMBIE" => ~Child(u, c, loc[u].id)
    BY <1>1 DEF ZombieChildren
  <2>2. \A c \in Slot : proc'[c] = "ZOMBIE" => ~Child(u, c, loc[u].id)'
    BY <1>1, <2>1 DEF Child
  <2> QED BY <1>1, <2>2 DEF ZombieChildren
<1> QED BY <1>2, <1>3, <1>4

(* Processes and owners stay; some tasks move, some slots change state.    *)
LEMMA SoloFrame ==
  ASSUME SInv, UNCHANGED <<owner, proc, parent>>,
         \A u \in Slot : loc'[u] = loc[u] \/ Solo(u, loc'[u]),
         \A i \in Slot : state'[i] = "DEAD" => proc[i] # "RUNNING",
         \A i \in Slot : i >= num_tasks' => proc[i] = "UNUSED",
         \A i \in Slot : Able(i)' => proc[i] # "UNUSED",
         \A u \in Slot : state'[u] = "BLOCKED" =>
           /\ state[u] = "BLOCKED" /\ loc'[u] = loc[u]
           /\ u \in wait_waiters[u] => u \in wait_waiters'[u]
  PROVE  Single' /\ Solos' /\ WaiterNotForgotten'
<1>1. Single'
  BY DEF SInv, Single
<1>2. Solos'
  <2>1. \A u \in Slot : Solo(u, loc'[u])
    BY DEF SInv, Solos
  <2> QED BY <2>1 DEF Solos, Solo, Forgets, Picks
<1>3. WaiterNotForgotten'
  BY WaitersKept
<1> QED BY <1>1, <1>2, <1>3

LEMMA SoloReserve ==
  ASSUME SInv, NEW t \in Slot, state[t] = "READY", loc \in [Slot -> Locals],
         loc[t].us = 0, NEW i \in Slot, proc[i] = "UNUSED",
         Reserve(t, i), UNCHANGED <<owner, procs>>,
         num_tasks' = num_tasks \/ (i = num_tasks /\ num_tasks' = num_tasks + 1)
  PROVE  Single' /\ Solos' /\ WaiterNotForgotten'
<1>1. proc' = proc /\ parent' = parent /\ wait_waiters' = wait_waiters
  BY DEF procs
<1>2. loc' = [loc EXCEPT ![t] = [loc[t] EXCEPT !.pc = "alloc", !.for = "none", !.id = i, !.i = 0]]
  BY DEF Reserve
<1>3. /\ \A u \in Slot \ {t} : loc'[u] = loc[u]
      /\ loc'[t].pc = "alloc" /\ loc'[t].for = "none" /\ loc'[t].id = i /\ loc'[t].us = 0
  BY <1>2 DEF Locals
<1>4. Solo(t, loc'[t])
  BY <1>3 DEF Solo, InWait, Forgets, Picks, MidReap
<1>5. \A u \in Slot : state'[u] = IF u = i THEN "CREATING" ELSE state[u]
  BY DEF Reserve, SInv, Inv, TypeOK
<1>6. \A u \in Slot : u >= num_tasks' => proc[u] = "UNUSED"
  <2>1. \A u \in Slot : u \in Int
    BY NAssumption DEF Slot
  <2>2. num_tasks \in Int
    BY NAssumption DEF SInv, Inv, TypeOK
  <2> QED BY <2>1, <2>2 DEF SInv, Single
<1>7. \A u \in Slot : Able(u)' => Able(u)
  <2>1. \A u \in Slot : u \in Int
    BY NAssumption DEF Slot
  <2>2. num_tasks \in Int
    BY NAssumption DEF SInv, Inv, TypeOK
  <2> QED BY <1>5, <2>1, <2>2 DEF Able, Used
<1> QED BY <1>1, <1>3, <1>4, <1>5, <1>6, <1>7, SoloFrame DEF SInv, Single

LEMMA SoloPicked ==
  ASSUME SInv, NEW t \in Slot, Picked(t)
  PROVE  Single' /\ Solos' /\ WaiterNotForgotten'
<1> DEFINE i == loc[t].i
<1>1. /\ state[t] = "READY" /\ loc[t].pc = "picked" /\ Local(t, loc[t]) /\ Solo(t, loc[t])
      /\ loc \in [Slot -> Locals]
  BY SoloAt DEF Picked
<1>2. UNCHANGED <<owner, num_tasks, procs>>
  BY DEF Picked
<1>3. proc[i] = "UNUSED" /\ i \in Slot /\ loc[t].us = 0
  BY <1>1, UsedIsSlot DEF Solo, Picks, Local, Reaps, HasDeadSlot, SInv, Inv
<1>4. CASE Reserve(t, i)
  BY <1>1, <1>2, <1>3, <1>4, SoloReserve
<1>5. CASE Continue(t, "pick", i + 1) /\ UNCHANGED state
  <2>1. (\A u \in Slot \ {t} : loc'[u] = loc[u]) /\ loc'[t].pc = "pick" /\ loc'[t].us = 0
    BY <1>1, <1>3, <1>5, ContinueMoves
  <2>2. Solo(t, loc'[t])
    BY <2>1 DEF Solo, InWait, Forgets, Picks, MidReap
  <2>3. UNCHANGED <<table, procs>>
    BY <1>2, <1>5 DEF table
  <2> QED BY <1>1, <2>1, <2>2, <2>3, SoloMoves
<1> QED BY <1>4, <1>5 DEF Picked

LEMMA SoloPickFresh ==
  ASSUME SInv, NEW t \in Slot, PickFresh(t)
  PROVE  Single' /\ Solos' /\ WaiterNotForgotten'
<1>1. /\ state[t] = "READY" /\ loc \in [Slot -> Locals] /\ loc[t].us = 0 /\ num_tasks \in 2 .. N
  BY SoloAt DEF PickFresh, Solo
<1>2. UNCHANGED <<owner, procs>>
  BY DEF PickFresh
<1>3. CASE num_tasks < N /\ Reserve(t, num_tasks) /\ num_tasks' = num_tasks + 1
  <2>1. PICK i \in Slot : i = num_tasks
    BY <1>1, <1>3, NAssumption DEF Slot
  <2>2. proc[i] = "UNUSED"
    BY <1>1, <2>1 DEF SInv, Single
  <2> QED BY <1>1, <1>2, <1>3, <2>1, <2>2, SoloReserve
<1>4. CASE CreateFails(t) /\ UNCHANGED <<state, num_tasks>>
  <2>1. (\A u \in Slot \ {t} : loc'[u] = loc[u]) /\ loc'[t] = InUser
    BY <1>1, <1>4, ReturnIs DEF CreateFails
  <2>2. Solo(t, loc'[t])
    BY <2>1 DEF Solo, InUser, InWait, Forgets, Picks, MidReap
  <2>3. UNCHANGED <<table, procs>>
    BY <1>2, <1>4 DEF table
  <2> QED BY <1>1, <2>1, <2>2, <2>3, SoloMoves
<1> QED BY <1>3, <1>4 DEF PickFresh

(* The slot is complete, and then armed.                                   *)
LEMMA SoloArm ==
  ASSUME SInv, NEW t \in Slot, CreatedProcess(t) \/ ArmProcess(t)
  PROVE  Single' /\ Solos' /\ WaiterNotForgotten'
<1>1. PICK p \in {"created", "arm"} : At(t, p)
  BY DEF CreatedProcess, ArmProcess
<1>2. /\ state[t] = "READY" /\ loc[t].pc = p /\ Solo(t, loc[t]) /\ Local(t, loc[t])
      /\ loc \in [Slot -> Locals] /\ loc[t] \in Locals
  BY <1>1, SoloAt
<1>3. Unborn(loc[t].id) /\ loc[t].id \in Slot /\ proc[loc[t].id] = "RUNNING" /\ loc[t].for = "none"
  BY <1>2, UsedIsSlot DEF Local, Makes, Building, Unborn, Solo, SInv, Inv
<1> PICK id \in Slot : id = loc[t].id
  BY <1>3
<1>4. UNCHANGED <<owner, num_tasks, procs>> /\ proc' = proc /\ parent' = parent /\ wait_waiters' = wait_waiters
  BY DEF CreatedProcess, ArmProcess, procs
<1>5. \A u \in Slot : state'[u] = IF u = id THEN state'[id] ELSE state[u]
  BY DEF CreatedProcess, ArmProcess, SInv, Inv, TypeOK
<1>6. state'[id] \in {"CREATING", "READY"}
  BY <1>3 DEF CreatedProcess, ArmProcess, SInv, Inv, TypeOK, Unborn
<1>7. \A u \in Slot : \/ loc'[u] = loc[u]
                      \/ u \in {t, id} /\ loc'[u] = InUser
                      \/ u = t /\ loc'[u].pc = "arm" /\ loc'[u].id = id /\ loc'[u].us = 0 /\ loc'[u].for = "none"
  <2>1. CASE CreatedProcess(t)
    <3>1. Goto(t, "arm") /\ "arm" \in Points
      BY <2>1 DEF CreatedProcess, Points
    <3> QED BY <1>2, <1>3, <3>1, GotoIs DEF Solo
  <2>2. CASE ArmProcess(t)
    BY <1>2, <2>2 DEF ArmProcess
  <2> QED BY <2>1, <2>2
<1>8. \A u \in Slot : loc'[u] = loc[u] \/ Solo(u, loc'[u])
  BY <1>3, <1>7 DEF Solo, InUser, InWait, Forgets, Picks, MidReap
<1>9. \A u \in Slot : Able(u)' => proc[u] # "UNUSED"
  BY <1>3, <1>4, <1>5 DEF Able, Used, SInv, Single
<1>10. \A u \in Slot : state'[u] = "BLOCKED" => state[u] = "BLOCKED" /\ loc'[u] = loc[u]
  BY <1>2, <1>5, <1>6, <1>7
<1> QED BY <1>4, <1>5, <1>6, <1>8, <1>9, <1>10, SoloFrame DEF SInv, Single

(* waitpid blocks or looks again.                                          *)
LEMMA SoloWaitBlock ==
  ASSUME SInv, NEW t \in Slot, WaitBlock(t) \/ WaitWoken(t)
  PROVE  Single' /\ Solos' /\ WaiterNotForgotten'
<1>1. PICK p \in {"block", "woken"} : At(t, p)
  BY DEF WaitBlock, WaitWoken
<1>2. /\ state[t] = "READY" /\ loc[t].pc = p /\ Solo(t, loc[t]) /\ Able(t)
      /\ loc \in [Slot -> Locals] /\ loc[t].own = t
  BY <1>1, SoloAt DEF Solo, InWait
<1>3. UNCHANGED <<owner, num_tasks, proc, parent>>
  BY DEF WaitBlock, WaitWoken, table
<1>4. wait_waiters \in [Slot -> SUBSET Slot] /\ state \in [Slot -> State]
  BY DEF SInv, Inv, TypeOK
<1>5. CASE /\ wait_waiters' = [wait_waiters EXCEPT ![t] = @ \ {t}]
           /\ Goto(t, "wait") /\ UNCHANGED state
  <2>1. /\ \A u \in Slot \ {t} : loc'[u] = loc[u]
        /\ loc'[t].pc = "wait" /\ loc'[t].own = t /\ loc'[t].us = 0
    <3>1. "wait" \in Points
      BY DEF Points
    <3> QED BY <1>2, <1>5, <3>1, GotoIs DEF Solo
  <2>2. Solo(t, loc'[t])
    BY <2>1 DEF Solo, InWait, Forgets, Picks, MidReap
  <2>3. \A u \in Slot : state'[u] = "BLOCKED" =>
          /\ state[u] = "BLOCKED" /\ loc'[u] = loc[u]
          /\ u \in wait_waiters[u] => u \in wait_waiters'[u]
    BY <1>2, <1>4, <1>5, <2>1
  <2>4. \A u \in Slot : Able(u)' <=> Able(u)
    BY <1>3, <1>5 DEF Able, Used
  <2> QED BY <1>3, <1>5, <2>1, <2>2, <2>3, <2>4, SoloFrame DEF SInv, Single
<1>6. CASE /\ ~(ZombieChildren(t, loc[t].id) # {} \/ ~HasChild(t, loc[t].id))
           /\ state' = [state EXCEPT ![t] = "BLOCKED"]
           /\ wait_waiters' = [wait_waiters EXCEPT ![t] = @ \cup {t}]
           /\ Goto(t, "woken")
  <2>1. /\ \A u \in Slot \ {t} : loc'[u] = loc[u]
        /\ loc'[t].pc = "woken" /\ loc'[t].own = t /\ loc'[t].us = 0 /\ loc'[t].id = loc[t].id
    <3>1. "woken" \in Points
      BY DEF Points
    <3> QED BY <1>2, <1>6, <3>1, GotoIs DEF Solo
  <2>2. Solo(t, loc'[t])
    BY <2>1 DEF Solo, InWait, Forgets, Picks, MidReap
  <2>3. \A u \in Slot : state'[u] = IF u = t THEN "BLOCKED" ELSE state[u]
    BY <1>4, <1>6
  <2>4. Solos'
    <3>1. \A u \in Slot : Solo(u, loc'[u])
      BY <2>1, <2>2 DEF SInv, Solos
    <3> QED BY <1>3, <3>1 DEF Solos, Solo, Forgets, Picks
  <2>5. Single'
    <3>1. \A u \in Slot : Able(u)' => Able(u)
      BY <1>2, <1>3, <2>3 DEF Able, Used
    <3> QED BY <1>3, <2>1, <2>3, <3>1 DEF SInv, Single
  <2>6. WaiterNotForgotten'
    <3>1. \A u \in Slot : u \in wait_waiters[u] => u \in wait_waiters'[u]
      BY <1>4, <1>6
    <3>2. t \in wait_waiters'[t]
      BY <1>4, <1>6
    <3> SUFFICES ASSUME NEW u \in Slot, state'[u] = "BLOCKED"
                 PROVE  /\ u \in wait_waiters'[loc'[u].own]
                        /\ HasChild(loc[u].own, loc[u].id)'
                        /\ ZombieChildren(loc[u].own, loc[u].id)' = {}
      BY DEF WaiterNotForgotten
    <3>3. loc'[u].own = u /\ loc'[u].id = loc[u].id /\ u \in wait_waiters'[u]
      <4>1. CASE u = t
        BY <2>1, <3>2, <4>1
      <4>2. CASE u # t
        BY <2>1, <2>3, <3>1, <4>2 DEF SInv, Single, Solos, Solo, InWait, WaiterNotForgotten
      <4> QED BY <4>1, <4>2
    <3>4. HasChild(u, loc[u].id) /\ ZombieChildren(u, loc[u].id) = {}
      <4>1. CASE u = t
        BY <1>6, <4>1
      <4>2. CASE u # t
        BY <2>3, <4>2 DEF SInv, Single, Solos, Solo, InWait, WaiterNotForgotten
      <4> QED BY <4>1, <4>2
    <3>5. HasChild(loc[u].own, loc[u].id)'
      BY <1>3, <3>3, <3>4 DEF HasChild, Child
    <3>6. ZombieChildren(loc[u].own, loc[u].id)' = {}
      BY <1>3, <3>3, <3>4 DEF ZombieChildren, Child
    <3> QED BY <3>3, <3>5, <3>6
  <2> QED BY <2>4, <2>5, <2>6
<1>7. CASE WaitBlock(t)
  <2>1. \/ /\ wait_waiters' = [wait_waiters EXCEPT ![t] = @ \ {t}]
           /\ Goto(t, "wait") /\ UNCHANGED state
        \/ /\ ~(ZombieChildren(t, loc[t].id) # {} \/ ~HasChild(t, loc[t].id))
           /\ state' = [state EXCEPT ![t] = "BLOCKED"]
           /\ wait_waiters' = [wait_waiters EXCEPT ![t] = @ \cup {t}]
           /\ Goto(t, "woken")
    BY <1>2, <1>7 DEF WaitBlock
  <2> QED BY <1>5, <1>6, <2>1
<1>8. CASE WaitWoken(t)
  BY <1>2, <1>5, <1>8 DEF WaitWoken, table
<1> QED BY <1>7, <1>8


(* The slot gets its stack and its process, or is given up.                *)
LEMMA SoloAlloc ==
  ASSUME SInv, NEW t \in Slot, Alloc(t)
  PROVE  Single' /\ Solos' /\ WaiterNotForgotten'
<1>1. /\ state[t] = "READY" /\ loc[t].pc = "alloc" /\ Solo(t, loc[t]) /\ Local(t, loc[t])
      /\ loc \in [Slot -> Locals] /\ loc[t] \in Locals /\ owner[t] = t
  BY SoloAt DEF Alloc
<1>2. /\ Unborn(loc[t].id) /\ loc[t].id \in Slot /\ proc[loc[t].id] = "UNUSED" /\ loc[t].us = 0
      /\ loc[t].for = "none"
  BY <1>1, UsedIsSlot DEF Local, Makes, Building, Unborn, Solo, SInv, Inv
<1> PICK id \in Slot : id = loc[t].id
  BY <1>2
<1>3. num_tasks' = num_tasks
  BY DEF Alloc
<1>4. CASE /\ state' = [state EXCEPT ![id] = "DEAD"]
           /\ CreateFails(t)
           /\ UNCHANGED <<owner, stacks, procs>>
  <2>1. (\A u \in Slot \ {t} : loc'[u] = loc[u]) /\ loc'[t] = InUser
    BY <1>1, <1>4, ReturnIs DEF CreateFails
  <2>2. Solo(t, loc'[t])
    BY <2>1 DEF Solo, InUser, InWait, Forgets, Picks, MidReap
  <2>3. \A u \in Slot : state'[u] = IF u = id THEN "DEAD" ELSE state[u]
    BY <1>4 DEF SInv, Inv, TypeOK
  <2>4. \A u \in Slot : Able(u)' => Able(u)
    BY <1>3, <2>3 DEF Able, Used
  <2>5. proc' = proc /\ parent' = parent /\ wait_waiters' = wait_waiters /\ owner' = owner
    BY <1>4 DEF procs
  <2> QED BY <1>1, <1>2, <1>3, <2>1, <2>2, <2>3, <2>4, <2>5, SoloFrame DEF SInv, Single
<1>5. CASE /\ owner' = [owner EXCEPT ![id] = id]
           /\ proc' = [proc EXCEPT ![id] = "RUNNING"]
           /\ parent' = [parent EXCEPT ![id] = owner[t]]
           /\ wait_waiters' = [wait_waiters EXCEPT ![id] = {}]
           /\ Goto(t, "created")
           /\ UNCHANGED state
  <2>1. /\ \A u \in Slot \ {t} : loc'[u] = loc[u]
        /\ loc'[t].pc = "created" /\ loc'[t].id = id /\ loc'[t].us = 0 /\ loc'[t].for = "none"
    <3>1. "created" \in Points
      BY DEF Points
    <3> QED BY <1>1, <1>2, <1>5, <3>1, GotoIs
  <2>2. \A i \in Slot : /\ owner'[i] = IF i = id THEN id ELSE owner[i]
                        /\ proc'[i] = IF i = id THEN "RUNNING" ELSE proc[i]
                        /\ parent'[i] = IF i = id THEN t ELSE parent[i]
                        /\ wait_waiters'[i] = IF i = id THEN {} ELSE wait_waiters[i]
    BY <1>1, <1>5 DEF SInv, Inv, TypeOK
  <2>3. state' = state /\ state[id] = "CREATING"
    BY <1>2, <1>5 DEF Unborn
  <2>4. id < num_tasks
    BY <1>2, UsedIsSlot, NAssumption DEF Unborn, Used, SInv, Inv, TypeOK
  <2>5. Single'
    <3>1. \A i \in Slot : owner'[i] \in {0, i}
      BY <2>2 DEF SInv, Single
    <3>2. \A i \in Slot : state'[i] = "DEAD" => proc'[i] # "RUNNING"
      BY <2>2, <2>3 DEF SInv, Single
    <3>3. \A i \in Slot : i >= num_tasks' => proc'[i] = "UNUSED"
      <4>1. ~(id >= num_tasks)
        <5>1. id \in Int
          BY NAssumption DEF Slot
        <5>2. num_tasks \in Int
          BY NAssumption DEF SInv, Inv, TypeOK
        <5> QED BY <2>4, <5>1, <5>2
      <4> QED BY <1>3, <2>2, <4>1 DEF SInv, Single
    <3>4. \A i \in Slot : Able(i)' => proc'[i] # "UNUSED"
      BY <1>3, <2>2, <2>3 DEF SInv, Single, Able, Used
    <3>5. \A i \in Slot : state'[i] = "BLOCKED" => loc'[i].pc = "woken"
      BY <1>1, <2>1, <2>3 DEF SInv, Single
    <3> QED BY <3>1, <3>2, <3>3, <3>4, <3>5 DEF Single
  <2>6. Solos'
    <3> SUFFICES ASSUME NEW u \in Slot PROVE Solo(u, loc[u])'
      BY DEF Solos
    <3>1. CASE u = t
      BY <2>1, <2>2, <3>1 DEF Solo, InWait, Forgets, Picks, MidReap
    <3>2. CASE u # t
      <4>1. Solo(u, loc[u]) /\ Local(u, loc[u]) /\ loc'[u] = loc[u]
        BY <2>1, <3>2 DEF SInv, Solos, Inv, Locally
      <4>2. Picks(loc[u]) => loc[u].i \in Slot /\ loc[u].i # id
        <5>1. Picks(loc[u]) => Used(loc[u].i) /\ state[loc[u].i] = "DEAD"
          BY <4>1 DEF Picks, Local, Reaps, HasDeadSlot, MidReap
        <5> QED BY <2>3, <5>1, UsedIsSlot DEF SInv, Inv
      <4>3. loc[u].pc \in Building => loc[u].id \in Slot /\ loc[u].id # id
        <5>1. loc[u].pc \in Building => Unborn(loc[u].id)
          BY <4>1 DEF Local, Makes
        <5>2. loc[u].pc \in Building => loc[u].id # id
          BY <1>1, <3>2 DEF SInv, Inv, Apart, Building
        <5> QED BY <5>1, <5>2, UsedIsSlot DEF Unborn, SInv, Inv
      <4>4. Forgets(loc[u]) => loc[u].id \in Slot /\ loc[u].id # id
        BY <1>2, <4>1 DEF Solo
      <4>5. loc[u].pc = "kill" => loc[u].id \in Slot
        BY <4>1, UsedIsSlot DEF Local, Reaps, SInv, Inv
      <4> QED BY <2>2, <4>1, <4>2, <4>3, <4>4, <4>5 DEF Solo, Forgets, Picks, Building
    <3> QED BY <3>1, <3>2
  <2>7. WaiterNotForgotten'
    <3>1. \A u \in Slot : state'[u] = "BLOCKED" =>
           /\ state[u] = "BLOCKED" /\ loc'[u] = loc[u]
           /\ u \in wait_waiters[u] => u \in wait_waiters'[u]
      BY <1>1, <2>1, <2>2, <2>3
    <3>2. \A u \in Slot : \A c \in Slot : c >= 1 /\ proc[c] # "UNUSED" /\ parent[c] = u =>
                                            proc'[c] = proc[c] /\ parent'[c] = u
      BY <1>2, <2>2
    <3>3. \A u \in Slot : \A c \in Slot : proc'[c] = "ZOMBIE" /\ parent'[c] = u =>
                                            proc[c] = "ZOMBIE" /\ parent[c] = u
      BY <2>2
    <3> QED BY <3>1, <3>2, <3>3, WaitersKept
  <2> QED BY <2>5, <2>6, <2>7
<1> QED BY <1>4, <1>5 DEF Alloc

LEMMA SoloDisown ==
  ASSUME SInv, NEW t \in Slot, Forgotten(t) \/ Joined(t)
  PROVE  Single' /\ Solos' /\ WaiterNotForgotten'
<1>1. PICK p \in {"forgotten", "joined"} : At(t, p)
  BY DEF Forgotten, Joined
<1>2. /\ state[t] = "READY" /\ loc[t].pc = p /\ Solo(t, loc[t]) /\ Local(t, loc[t])
      /\ loc \in [Slot -> Locals] /\ loc[t] \in Locals
  BY <1>1, SoloAt
<1>3. /\ state' = state /\ num_tasks' = num_tasks /\ proc' = proc /\ parent' = parent
      /\ wait_waiters' = wait_waiters
  BY DEF Forgotten, Joined, procs
<1>4. \A i \in Slot : owner'[i] \in {owner[i], i}
  BY DEF Forgotten, Joined, SInv, Inv, TypeOK
<1>5. (\A u \in Slot \ {t} : loc'[u] = loc[u]) /\ Solo(t, loc'[t])
  <2>1. CASE Forgotten(t)
    <3>1. loc[t].pc = "forgotten" /\ Forgets(loc[t])
      BY <1>2, <2>1 DEF Forgotten, At, Forgets, Local, Reaps, MidReap
    <3>2. /\ \A u \in Slot \ {t} : loc'[u] = loc[u]
          /\ loc'[t].pc = "forget" /\ loc'[t].id = loc[t].id /\ loc'[t].own = loc[t].own
          /\ loc'[t].us = loc[t].us
      BY <1>2, <2>1, ContinueMoves DEF Forgotten
    <3> QED BY <1>2, <3>1, <3>2 DEF Solo, InWait, Forgets, Picks, MidReap
  <2>2. CASE Joined(t)
    <3>1. (\A u \in Slot \ {t} : loc'[u] = loc[u]) /\ loc'[t] = InUser
      BY <1>2, <2>2, ReturnIs DEF Joined
    <3> QED BY <3>1 DEF Solo, InUser, InWait, Forgets, Picks, MidReap
  <2> QED BY <2>1, <2>2
<1>6. Single'
  <2>1. \A i \in Slot : Able(i)' <=> Able(i)
    BY <1>3 DEF Able, Used
  <2>2. \A i \in Slot : state[i] = "BLOCKED" => loc'[i] = loc[i]
    BY <1>2, <1>5
  <2> QED BY <1>3, <1>4, <2>1, <2>2 DEF SInv, Single
<1>7. Solos'
  <2>1. \A u \in Slot : Solo(u, loc'[u]) /\ (loc'[u].pc = "kill" => loc'[u].id \in Slot)
    <3>1. \A u \in Slot : loc[u].pc = "kill" => loc[u].id \in Slot
      BY UsedIsSlot DEF SInv, Inv, Locally, Local, Reaps
    <3>2. loc'[t].pc # "kill"
      <4>1. CASE Forgotten(t)
        BY <1>2, <4>1, ContinueMoves DEF Forgotten
      <4>2. CASE Joined(t)
        BY <1>2, <4>2, ReturnIs DEF Joined, InUser
      <4> QED BY <4>1, <4>2
    <3> QED BY <1>5, <3>1, <3>2 DEF SInv, Solos
  <2> QED BY <1>3, <1>4, <2>1 DEF Solos, Solo, Forgets, Picks
<1>8. WaiterNotForgotten'
  BY <1>2, <1>3, <1>5, WaitersKept
<1> QED BY <1>6, <1>7, <1>8

(* The child is reported, and is nobody's from now on.                     *)
LEMMA SoloForgetDone ==
  ASSUME SInv, NEW t \in Slot, ForgetDone(t)
  PROVE  Single' /\ Solos' /\ WaiterNotForgotten'
<1>1. /\ state[t] = "READY" /\ loc[t].pc = "forget" /\ Solo(t, loc[t])
      /\ loc \in [Slot -> Locals]
  BY SoloAt DEF ForgetDone
<1>2. loc[t].id \in Slot /\ proc[loc[t].id] = "ZOMBIE" /\ parent[loc[t].id] = t /\ loc[t].id >= 1
  BY <1>1 DEF Solo, Forgets
<1> PICK id \in Slot : id = loc[t].id
  BY <1>2
<1>3. /\ state' = state /\ num_tasks' = num_tasks /\ owner' = owner /\ parent' = parent
      /\ \A u \in Slot \ {t} : loc'[u] = loc[u]
      /\ loc'[t] = InUser
  BY <1>1, ReturnIs DEF ForgetDone, table
<1>4. \A i \in Slot : /\ proc'[i] = IF i = id THEN "UNUSED" ELSE proc[i]
                      /\ wait_waiters'[i] = IF i = id THEN {} ELSE wait_waiters[i]
  BY DEF ForgetDone, SInv, Inv, TypeOK
<1>5. ~Able(id)
  <2> SUFFICES ASSUME Able(id) PROVE FALSE
    OBVIOUS
  <2>1. owner[id] = id
    BY DEF SInv, Inv, Owners, Mains, Single
  <2>2. id \in Of(id)
    BY <2>1 DEF Of, Able
  <2> QED BY <1>2, <2>2 DEF SInv, Inv, ZombieIsDead, Able
<1>6. Single'
  <2>1. \A i \in Slot : Able(i)' <=> Able(i)
    BY <1>3 DEF Able, Used
  <2>2. \A i \in Slot : state[i] = "BLOCKED" => loc'[i] = loc[i]
    BY <1>1, <1>3
  <2> QED BY <1>3, <1>4, <1>5, <2>1, <2>2 DEF SInv, Single
<1>7. Solos'
  <2> SUFFICES ASSUME NEW u \in Slot PROVE Solo(u, loc[u])'
    BY DEF Solos
  <2>1. CASE u = t
    BY <1>3, <2>1 DEF Solo, InUser, InWait, Forgets, Picks, MidReap
  <2>2. CASE u # t
    <3>1. Solo(u, loc[u]) /\ Local(u, loc[u]) /\ loc'[u] = loc[u]
      BY <1>3, <2>2 DEF SInv, Solos, Inv, Locally
    <3>2. Forgets(loc[u]) => loc[u].id \in Slot /\ loc[u].id # id
      BY <1>2, <2>2, <3>1 DEF Solo
    <3>3. Picks(loc[u]) => loc[u].i \in Slot
      <4>1. Picks(loc[u]) => Used(loc[u].i)
        BY <3>1 DEF Picks, Local, Reaps, HasDeadSlot, MidReap
      <4> QED BY <4>1, UsedIsSlot DEF SInv, Inv
    <3>4. loc[u].pc \in Building => loc[u].id \in Slot
      BY <3>1, UsedIsSlot DEF Local, Makes, Unborn, SInv, Inv
    <3> QED BY <1>2, <1>3, <1>4, <3>1, <3>2, <3>3, <3>4 DEF Solo, Forgets, Picks, Building
  <2> QED BY <2>1, <2>2
<1>8. WaiterNotForgotten'
  <2>1. ASSUME NEW u \in Slot, state[u] = "BLOCKED"
        PROVE  u # id /\ u # t /\ loc'[u] = loc[u]
    <3>1. Used(u)
      BY <2>1 DEF SInv, Single, Inv, Locally, Local, InPlace
    <3> QED BY <1>1, <1>3, <1>5, <2>1, <3>1 DEF Able
  <2>2. \A u \in Slot : state'[u] = "BLOCKED" =>
           /\ state[u] = "BLOCKED" /\ loc'[u] = loc[u]
           /\ u \in wait_waiters[u] => u \in wait_waiters'[u]
    BY <1>3, <1>4, <2>1
  <2>3. \A u \in Slot : state'[u] = "BLOCKED" =>
          /\ \A c \in Slot : c >= 1 /\ proc[c] # "UNUSED" /\ parent[c] = u =>
                                proc'[c] = proc[c] /\ parent'[c] = u
          /\ \A c \in Slot : proc'[c] = "ZOMBIE" /\ parent'[c] = u =>
                                proc[c] = "ZOMBIE" /\ parent[c] = u
    BY <1>1, <1>2, <1>3, <1>4
  <2> QED BY <2>2, <2>3, WaitersKept
<1> QED BY <1>6, <1>7, <1>8

(* A process ends, and its parent is woken.                                *)
LEMMA SoloDeath ==
  ASSUME SInv, NEW t \in Slot, state[t] = "READY", loc \in [Slot -> Locals],
         NEW p \in Slot, p >= 1, state[p] # "CREATING", Die({p}, p, TRUE),
         loc' = [i \in Slot |-> IF i \in {p, t} THEN InUser ELSE loc[i]]
  PROVE  Single' /\ Solos' /\ WaiterNotForgotten'
<1> DEFINE zombie == TRUE /\ p > 0 /\ proc[p] # "UNUSED"
           wakes == zombie /\ parent[p] > 0 /\ proc[parent[p]] # "UNUSED"
           woken == IF wakes THEN {w \in wait_waiters[parent[p]] : state[w] = "BLOCKED"} ELSE {}
<1>1. /\ owner' = owner /\ num_tasks' = num_tasks /\ parent' = parent
      /\ parent[p] \in Slot
  BY DEF Die, SInv, Inv, TypeOK
<1>0. p > 0
  BY NAssumption DEF Slot
<1>2. \A i \in Slot : state'[i] = IF i = p THEN "DEAD" ELSE IF i \in woken THEN "READY" ELSE state[i]
  <2>1. state' = [i \in Slot |-> IF i \in {p} THEN "DEAD" ELSE IF i \in woken THEN "READY" ELSE state[i]]
    BY DEF Die
  <2> HIDE DEF woken
  <2> QED BY <2>1
<1>3. \A i \in Slot : proc'[i] = IF i = p /\ zombie THEN "ZOMBIE" ELSE proc[i]
  <2>1. proc' = IF zombie THEN [proc EXCEPT ![p] = "ZOMBIE"] ELSE proc
    BY DEF Die
  <2> HIDE DEF zombie
  <2> QED BY <2>1 DEF SInv, Inv, TypeOK
<1>4. \A i \in Slot : wait_waiters'[i] = IF wakes /\ i = parent[p] THEN {} ELSE wait_waiters[i]
  <2>1. wait_waiters' = IF wakes THEN [wait_waiters EXCEPT ![parent[p]] = {}] ELSE wait_waiters
    BY DEF Die
  <2> HIDE DEF wakes
  <2> QED BY <1>1, <2>1 DEF SInv, Inv, TypeOK
<1>5. \A i \in woken : state[i] = "BLOCKED"
  OBVIOUS
<1>6. \A i \in Slot : state'[i] = "BLOCKED" => state[i] = "BLOCKED" /\ i \notin woken /\ i # p /\ i # t
  BY <1>2
<1>7. Single'
  <2>1. \A i \in Slot : state'[i] = "DEAD" => proc'[i] # "RUNNING"
    BY <1>0, <1>2, <1>3 DEF SInv, Single
  <2>2. \A i \in Slot : i >= num_tasks' => proc'[i] = "UNUSED"
    BY <1>1, <1>3 DEF SInv, Single
  <2>3. \A i \in Slot : Able(i)' => Able(i)
    BY <1>1, <1>2, <1>5 DEF Able, Used
  <2>4. \A i \in Slot : Able(i)' => proc'[i] # "UNUSED"
    BY <1>3, <2>3 DEF SInv, Single
  <2>5. \A i \in Slot : state'[i] = "BLOCKED" => loc'[i].pc = "woken"
    BY <1>6 DEF SInv, Single
  <2> QED BY <1>1, <2>1, <2>2, <2>4, <2>5 DEF SInv, Single
<1>8. Solos'
  <2> SUFFICES ASSUME NEW u \in Slot PROVE Solo(u, loc[u])'
    BY DEF Solos
  <2>1. CASE u \in {p, t}
    BY <2>1 DEF Solo, InUser, InWait, Forgets, Picks, MidReap
  <2>2. CASE u \notin {p, t}
    <3>1. Solo(u, loc[u]) /\ Local(u, loc[u]) /\ loc'[u] = loc[u]
      BY <2>2 DEF SInv, Solos, Inv, Locally
    <3>2. Forgets(loc[u]) => loc[u].id \in Slot
      BY <3>1 DEF Solo
    <3>3. Picks(loc[u]) => loc[u].i \in Slot
      <4>1. Picks(loc[u]) => Used(loc[u].i)
        BY <3>1 DEF Picks, Local, Reaps, HasDeadSlot, MidReap
      <4> QED BY <4>1, UsedIsSlot DEF SInv, Inv
    <3>4. loc[u].pc \in Building => loc[u].id \in Slot /\ loc[u].id # p
      <4>1. loc[u].pc \in Building => Used(loc[u].id) /\ state[loc[u].id] = "CREATING"
        BY <3>1 DEF Local, Makes, Unborn
      <4> QED BY <4>1, UsedIsSlot DEF SInv, Inv
    <3> HIDE DEF zombie
    <3>5. \A i \in Slot : proc[i] = "UNUSED" => proc'[i] = "UNUSED"
      BY <1>3 DEF zombie
    <3>6. \A i \in Slot : proc[i] = "ZOMBIE" => proc'[i] = "ZOMBIE"
      BY <1>3
    <3>7. \A i \in Slot : i # p => proc'[i] = proc[i]
      BY <1>3
    <3> QED BY <1>1, <3>1, <3>2, <3>3, <3>4, <3>5, <3>6, <3>7 DEF Solo, Forgets, Picks, Building
  <2> QED BY <2>1, <2>2
<1>9. WaiterNotForgotten'
  <2>1. ASSUME NEW u \in Slot, state'[u] = "BLOCKED"
        PROVE  state[u] = "BLOCKED" /\ loc'[u] = loc[u] /\ (zombie => u # parent[p])
    <3>1. state[u] = "BLOCKED" /\ loc'[u] = loc[u] /\ u \notin woken
      BY <1>6, <2>1
    <3>2. Used(u) /\ u \in wait_waiters[u]
      BY <3>1 DEF SInv, Single, Solos, Solo, InWait, WaiterNotForgotten, Inv, Locally, Local, InPlace
    <3>3. u > 0 /\ proc[u] # "UNUSED"
      <4>1. u \in 1 .. N - 1
        BY <3>2, UsedIsSlot DEF SInv, Inv
      <4> QED BY <3>1, <3>2, <4>1, NAssumption DEF Able, SInv, Single
    <3>4. zombie => u # parent[p]
      BY <3>1, <3>2, <3>3
    <3> QED BY <3>1, <3>4
  <2>2. \A u \in Slot : state'[u] = "BLOCKED" /\ u \in wait_waiters[u] => u \in wait_waiters'[u]
    BY <1>4, <2>1
  <2>3. \A u \in Slot : state'[u] = "BLOCKED" =>
          /\ \A c \in Slot : c >= 1 /\ proc[c] # "UNUSED" /\ parent[c] = u =>
                                proc'[c] = proc[c] /\ parent'[c] = u
          /\ \A c \in Slot : proc'[c] = "ZOMBIE" /\ parent'[c] = u =>
                                proc[c] = "ZOMBIE" /\ parent[c] = u
    BY <1>1, <1>3, <2>1
  <2>4. \A u \in Slot : state'[u] = "BLOCKED" => state[u] = "BLOCKED" /\ loc'[u] = loc[u]
    BY <2>1
  <2> HIDE DEF zombie, wakes, woken
  <2> QED BY <2>2, <2>3, <2>4, WaitersKept
<1> QED BY <1>7, <1>8, <1>9

LEMMA SoloDies ==
  ASSUME SInv, NEW t \in Slot, ExitProcess(t) \/ Killed(t)
  PROVE  Single' /\ Solos' /\ WaiterNotForgotten'
<1>1. \A p \in Slot : p >= 1 /\ owner[p] = p => Of(p) \subseteq {p}
  BY DEF Of, SInv, Single
<1>2. CASE ExitProcess(t)
  <2>1. state[t] = "READY" /\ owner[t] = t /\ t >= 1 /\ Used(t) /\ loc \in [Slot -> Locals]
    BY <1>2, SoloAt DEF ExitProcess
  <2>2. Of(owner[t]) = {t}
    BY <1>1, <2>1 DEF Of
  <2>3. /\ Die({t}, t, TRUE)
        /\ loc' = [i \in Slot |-> IF i \in {t, t} THEN InUser ELSE loc[i]]
    BY <1>2, <2>1, <2>2 DEF ExitProcess
  <2> QED BY <2>1, <2>3, SoloDeath
<1>3. CASE Killed(t)
  <2>1. /\ state[t] = "READY" /\ loc \in [Slot -> Locals] /\ Solo(t, loc[t]) /\ Local(t, loc[t])
        /\ loc[t].pc = "kill"
    BY <1>3, SoloAt DEF Killed
  <2>2. /\ loc[t].id \in Slot /\ loc[t].own = loc[t].id /\ owner[loc[t].id] = loc[t].id
        /\ Used(loc[t].id) /\ loc[t].id >= 1
    <3>1. Used(loc[t].id) /\ loc[t].own = loc[t].id /\ owner[loc[t].id] = loc[t].id
      BY <2>1 DEF Local, Reaps, Solo
    <3>2. loc[t].id \in Slot /\ loc[t].id \in 1 .. N - 1
      BY <3>1, UsedIsSlot DEF SInv, Inv
    <3> QED BY <3>1, <3>2, NAssumption
  <2> PICK id \in Slot : id = loc[t].id
    BY <2>2
  <2>3. Of(id) \cup {id} = {id}
    BY <1>1, <2>2
  <2>4. /\ Die({id}, id, TRUE) /\ state[id] # "CREATING"
        /\ loc' = [i \in Slot |-> IF i \in {id, t} THEN InUser ELSE loc[i]]
    <3>1. loc' = [i \in Slot |-> IF i \in {id} \cup {t} THEN InUser ELSE loc[i]]
      BY <1>3, <2>2, <2>3 DEF Killed
    <3>2. Die({id}, id, TRUE) /\ state[id] # "CREATING"
      BY <1>3, <2>2, <2>3 DEF Killed, SInv, Inv, Calm
    <3>3. {id} \cup {t} = {id, t}
      OBVIOUS
    <3> QED BY <3>1, <3>2, <3>3
  <2> QED BY <2>1, <2>2, <2>4, SoloDeath
<1> QED BY <1>2, <1>3

(* What only a system with threads does.                                   *)
LEMMA NoThreadSteps ==
  ASSUME SInv, NEW t \in Slot
  PROVE  ~ArmThread(t) /\ ~ExitThread(t) /\ ~SpawnThread(t)
<1>1. ~ArmThread(t)
  <2> SUFFICES ASSUME ArmThread(t) PROVE FALSE
    OBVIOUS
  <2>1. loc[t].us = 0
    BY SoloAt DEF ArmThread, Solo
  <2> QED BY <2>1 DEF ArmThread
<1>2. ~ExitThread(t)
  <2> SUFFICES ASSUME ExitThread(t) PROVE FALSE
    OBVIOUS
  <2>1. owner[t] = t
    BY SoloAt DEF ExitThread
  <2> QED BY <2>1 DEF ExitThread
<1> QED BY <1>1, <1>2 DEF SpawnThread, SInv, NoThreads

LEMMA SoloNext == SInv /\ [Next]_vars => SInv'
<1> SUFFICES ASSUME SInv, [Next]_vars PROVE SInv'
  OBVIOUS
<1>1. ASSUME NEW t \in Slot, Progress(t) \/ Spin(t) PROVE Single' /\ Solos' /\ WaiterNotForgotten'
  <2>1. CASE Reap(t) \/ ReapFree(t) \/ ReapZero(t) \/ ReapOwner(t)
    BY <2>1, SoloReap
  <2>2. CASE ReapDead(t) \/ Pick(t) \/ Picked(t) \/ PickFresh(t)
    BY <2>2, SoloReapDead, SoloPick, SoloPicked, SoloPickFresh
  <2>3. CASE Alloc(t) \/ CreatedProcess(t) \/ ArmProcess(t)
    BY <2>3, SoloAlloc, SoloArm
  <2>4. CASE WaitFind(t) \/ WaitBlock(t) \/ WaitWoken(t)
    BY <2>4, SoloWaitFind, SoloWaitBlock
  <2>5. CASE Forget(t) \/ ForgetSlot(t) \/ Forgotten(t) \/ ForgetDone(t)
    BY <2>5, SoloForget, SoloDisown, SoloForgetDone
  <2>6. CASE Joined(t) \/ Killed(t) \/ CreateLock(t) \/ JoinDead(t)
    BY <2>6, SoloDisown, SoloDies, SoloSpin
  <2> QED BY <1>1, <2>1, <2>2, <2>3, <2>4, <2>5, <2>6, NoThreadSteps DEF Progress, Spin
<1>2. ASSUME NEW t \in Slot, Call(t) PROVE Single' /\ Solos' /\ WaiterNotForgotten'
  BY <1>2, SoloCalls, SoloDies, NoThreadSteps DEF Call
<1>3. ASSUME UNCHANGED vars PROVE Single' /\ Solos' /\ WaiterNotForgotten'
  <2>1. 0 \in Slot /\ state[0] = "READY"
    BY NAssumption DEF Slot, SInv, Inv, Owners, Fresh
  <2>2. UNCHANGED <<table, procs>> /\ loc' = loc
    BY <1>3 DEF vars
  <2>3. \A u \in Slot : Solo(u, loc'[u])
    BY <2>2 DEF SInv, Solos
  <2> QED BY <2>1, <2>2, <2>3, SoloMoves
<1>4. Single' /\ Solos' /\ WaiterNotForgotten'
  BY <1>1, <1>2, <1>3 DEF Next
<1>5. Inv'
  BY InvNext DEF SInv
<1> QED BY <1>4, <1>5 DEF SInv, NoThreads

(* Where programs start no threads, no wake-up of waitpid is lost: a       *)
(* parent that is blocked is registered with its process, has a child to   *)
(* wait for, and none of those has ended (task_wait_pid and                *)
(* process_mark_zombie in task.c).                                         *)
THEOREM WaitersSafe ==
  Calm /\ NoThreads /\ Spec => []WaiterNotForgotten
<1> SUFFICES ASSUME Calm, NoThreads PROVE Spec => []WaiterNotForgotten
  OBVIOUS
<1>1. Init => SInv
  BY InvInit, SingleInit DEF SInv
<1>2. SInv /\ [Next]_vars => SInv'
  BY SoloNext
<1>3. SInv => WaiterNotForgotten
  BY DEF SInv
<1> QED BY <1>1, <1>2, <1>3, PTL DEF Spec

(* A zombie stays one through every step but the last of its parent's      *)
(* waitpid.                                                                *)
Reported(p) ==
  \E t \in Slot : /\ loc[t].pc = "forget" /\ loc[t].id = p
                  /\ loc[t].own = parent[p] /\ loc'[t].pc = "user"

LEMMA DieKeepsZombies ==
  ASSUME TypeOK, NEW S, NEW q, NEW ends \in BOOLEAN, Die(S, q, ends)
  PROVE  \A p \in Slot : proc[p] = "ZOMBIE" => proc'[p] = "ZOMBIE"
<1>1. proc' = proc \/ proc' = [proc EXCEPT ![q] = "ZOMBIE"]
  BY DEF Die
<1> QED BY <1>1 DEF TypeOK

LEMMA ZombiesKept ==
  ASSUME SInv, NEW t \in Slot, Progress(t) \/ Spin(t) \/ Call(t), ~ForgetDone(t)
  PROVE  \A p \in Slot : proc[p] = "ZOMBIE" => proc'[p] = "ZOMBIE"
<1>1. CASE Reap(t) \/ ReapFree(t) \/ ReapZero(t) \/ ReapOwner(t) \/ ReapDead(t) \/ Pick(t)
           \/ Picked(t) \/ PickFresh(t)
  <2>1. UNCHANGED procs
    BY <1>1 DEF Reap, ReapFree, ReapZero, ReapOwner, ReapDead, Pick, Picked, PickFresh
  <2> QED BY <2>1 DEF procs
<1>2. CASE CreatedProcess(t) \/ ArmProcess(t) \/ WaitFind(t) \/ WaitBlock(t) \/ WaitWoken(t)
           \/ Forget(t) \/ ForgetSlot(t) \/ Forgotten(t) \/ Joined(t) \/ Spin(t)
  <2>1. proc' = proc
    BY <1>2 DEF CreatedProcess, ArmProcess, WaitFind, WaitBlock, WaitWoken, Forget, ForgetSlot,
                Forgotten, Joined, Spin, CreateLock, JoinDead, procs
  <2> QED BY <2>1
<1>3. CASE Alloc(t)
  <2>1. loc[t].id \in Slot /\ proc[loc[t].id] = "UNUSED"
    <3>1. Local(t, loc[t]) /\ Solo(t, loc[t]) /\ loc[t].pc = "alloc"
      BY <1>3, SoloAt DEF Alloc
    <3> QED BY <3>1, UsedIsSlot DEF Local, Makes, Building, Unborn, Solo, SInv, Inv
  <2>2. proc' = proc \/ proc' = [proc EXCEPT ![loc[t].id] = "RUNNING"]
    BY <1>3 DEF Alloc, procs
  <2> QED BY <2>1, <2>2 DEF SInv, Inv, TypeOK
<1>4. CASE Call(t) /\ ~ExitProcess(t) /\ ~ExitThread(t)
  <2>1. UNCHANGED procs
    BY <1>4 DEF Call, SpawnProcess, SpawnThread, StartCreate, WaitPid, Join, Kill
  <2> QED BY <2>1 DEF procs
<1>5. CASE ExitProcess(t)
  BY <1>5, DieKeepsZombies DEF ExitProcess, SInv, Inv
<1>6. CASE Killed(t)
  BY <1>6, DieKeepsZombies DEF Killed, SInv, Inv
<1> QED BY <1>1, <1>2, <1>3, <1>4, <1>5, <1>6, NoThreadSteps DEF Progress

LEMMA ZombieStep ==
  ASSUME SInv, [Next]_vars, NEW p \in Slot, proc[p] = "ZOMBIE", proc'[p] # "ZOMBIE"
  PROVE  Reported(p)
<1>1. ~UNCHANGED vars
  BY DEF vars, procs
<1>2. PICK t \in Slot : Progress(t) \/ Spin(t) \/ Call(t)
  BY <1>1 DEF Next
<1>3. ForgetDone(t)
  BY <1>2, ZombiesKept
<1>4. /\ loc[t].pc = "forget" /\ Solo(t, loc[t]) /\ loc \in [Slot -> Locals]
  BY <1>3, SoloAt DEF ForgetDone
<1>5. loc[t].id \in Slot /\ loc[t].own = t /\ parent[loc[t].id] = t
  BY <1>4 DEF Solo, InWait, Forgets
<1>6. loc[t].id = p
  BY <1>3, <1>5 DEF ForgetDone, SInv, Inv, TypeOK
<1>7. loc'[t].pc = "user"
  BY <1>3, <1>4, ReturnIs DEF ForgetDone, InUser
<1> QED BY <1>4, <1>5, <1>6, <1>7 DEF Reported

(* Where programs start no threads, a zombie keeps its slot until its      *)
(* parent's waitpid reports it: no creation recycles it, and nobody else   *)
(* forgets it (task_slot_reusable, process_forget in task.c).              *)
THEOREM ZombiesSafe ==
  Calm /\ NoThreads /\ Spec => ZombieUntilReported
<1> SUFFICES ASSUME Calm, NoThreads PROVE Spec => ZombieUntilReported
  OBVIOUS
<1>1. Init => SInv
  BY InvInit, SingleInit DEF SInv
<1>2. SInv /\ [Next]_vars => SInv'
  BY SoloNext
<1>3. SInv /\ [Next]_vars =>
        (\A p \in Slot : proc[p] = "ZOMBIE" /\ proc'[p] # "ZOMBIE" =>
           \E t \in Slot : /\ loc[t].pc = "forget" /\ loc[t].id = p
                           /\ loc[t].own = parent[p] /\ loc'[t].pc = "user")
  BY ZombieStep DEF Reported
<1> QED BY <1>1, <1>2, <1>3, PTL DEF Spec, ZombieUntilReported

-----------------------------------------------------------------------------
(***************************************************************************)
(* The user stacks of threads, in a system where nobody kills.  (A kill    *)
(* acts on the owner it read before: it may end the first task of another  *)
(* process, whose threads then live on in a slot that can be recycled.)    *)
(***************************************************************************)

(* A slot with a thread_info belongs to the process named there, has one   *)
(* of its user stacks to itself, and neither is under construction ...     *)
Thread(i) == thread_info[i] # NoInfo
ThreadsKnown ==
  \A i \in Slot : Thread(i) =>
    /\ thread_info[i].owner >= 1 /\ thread_info[i].owner # i
    /\ owner[i] = thread_info[i].owner
    /\ owner[thread_info[i].owner] = thread_info[i].owner
    /\ state[i] # "CREATING" /\ state[thread_info[i].owner] # "CREATING"
    /\ thread_info[i].slot \in thread_slots[thread_info[i].owner]
    /\ \A j \in Slot \ {i} : thread_info[j] # thread_info[i]

(* ... a creator of a thread has claimed a stack that nobody else has ...  *)
Claim(l) == [owner |-> l.own, slot |-> l.us]
Claiming(l) == l.pc = "create" \/ l.pc \in Creating \/ (l.pc \in MidReap /\ l.for \in Creating)
Claims ==
  \A t \in Slot : loc[t].us # 0 =>
    /\ Claiming(loc[t])
    /\ loc[t].us \in thread_slots[loc[t].own]
    /\ \A i \in Slot : thread_info[i] # Claim(loc[t])
    /\ \A u \in Slot \ {t} : loc[u].us # 0 => Claim(loc[u]) # Claim(loc[t])

(* ... a slot that was reaped is no thread's and, when it was picked for   *)
(* reuse, no process of any thread ...                                     *)
Clean(i) == ~Thread(i) /\ \A j \in Slot : Thread(j) => thread_info[j].owner # i
Keeps(l) ==
  /\ l.pc # "kill"
  /\ l.pc = "picked" => Clean(l.i)
  /\ l.pc \in {"forgotten", "joined"} => ~Thread(l.i)
Keepers == \A t \in Slot : Keeps(loc[t])

(* ... and the first task of a process lives as long as any of its tasks.  *)
MainsLive == \A j \in Slot : Able(j) => state[owner[j]] # "DEAD"

Threaded == ThreadsKnown /\ Claims /\ Keepers /\ MainsLive
NoKills == "kill" \notin Ops
TInv == Inv /\ NoKills /\ Threaded

LEMMA ThreadedInit ==
  ASSUME Init
  PROVE  Threaded
<1>1. 0 \in Slot /\ 1 \in Slot /\ Slot \subseteq Int
  BY NAssumption DEF Slot
<1>2. \A i \in Slot : ~Thread(i) /\ loc[i] = InUser
  BY DEF Init, Thread
<1>3. ThreadsKnown
  BY <1>2 DEF ThreadsKnown
<1>4. Claims /\ Keepers
  BY <1>2 DEF Claims, Keepers, Keeps, InUser
<1>5. MainsLive
  <2>1. \A j \in Slot : Able(j) => j = 1
    BY <1>1 DEF Init, Able, Used
  <2> QED BY <1>1, <2>1 DEF Init, MainsLive
<1> QED BY <1>3, <1>4, <1>5 DEF Threaded

LEMMA ThreadedImplies == TInv => UserStacksExclusive
BY DEF TInv, Threaded, ThreadsKnown, Thread, UserStacksExclusive

LEMMA ThreadAt ==
  ASSUME TInv, NEW t \in Slot, NEW p, At(t, p)
  PROVE  /\ Used(t) /\ Able(t) /\ state[t] = "READY" /\ loc[t].pc = p
         /\ Local(t, loc[t]) /\ Keeps(loc[t])
         /\ loc \in [Slot -> Locals] /\ loc[t] \in Locals /\ num_tasks \in 2 .. N
         /\ loc[t].us # 0 => Claiming(loc[t])
<1>1. /\ Used(t) /\ state[t] = "READY" /\ loc[t].pc = p /\ Local(t, loc[t])
      /\ loc \in [Slot -> Locals] /\ loc[t] \in Locals /\ num_tasks \in 2 .. N
  BY AtIs DEF TInv
<1> QED BY <1>1 DEF Able, TInv, Threaded, Keepers, Claims

(* A creator of a thread is a task of the process that the stack is for.   *)
LEMMA ClaimIs ==
  ASSUME TInv, NEW u \in Slot, loc[u].us # 0
  PROVE  /\ Used(u) /\ Able(u) /\ state[u] = "READY" /\ loc[u].own = owner[u]
         /\ owner[u] >= 1 /\ owner[u] \in Slot /\ state[owner[u]] \notin {"DEAD", "CREATING"}
<1>1. Local(u, loc[u]) /\ Claiming(loc[u])
  BY DEF TInv, Inv, Locally, Threaded, Claims
<1>2. loc[u].pc # "user" /\ loc[u].pc # "woken"
  BY <1>1 DEF Claiming, Creating, MidReap
<1>3. Used(u) /\ state[u] = "READY" /\ Able(u)
  BY <1>1, <1>2 DEF Local, InPlace, Able
<1>4. loc[u].own = owner[u]
  BY <1>1 DEF Local, Makes, Creates, Claiming
<1>5. owner[u] >= 1 /\ owner[u] \in Slot /\ state[owner[u]] # "DEAD" /\ owner[owner[u]] = owner[u]
  BY <1>3 DEF TInv, Inv, TypeOK, Owners, Mains, Threaded, MainsLive
<1>6. state[owner[u]] # "CREATING"
  <2> SUFFICES ASSUME state[owner[u]] = "CREATING" PROVE FALSE
    OBVIOUS
  <2>1. Unborn(owner[u])
    <3>1. owner[u] < num_tasks
      BY <1>5, NAssumption DEF TInv, Inv, Owners, Fresh, Slot, TypeOK
    <3> QED BY <1>5, <3>1, NAssumption DEF Unborn, Used, Slot, TInv, Inv, TypeOK
  <2> QED BY <1>3, <1>5, <2>1 DEF TInv, Inv, Owners, Unowned, Settled
<1> QED BY <1>3, <1>4, <1>5, <1>6

(* Steps that make no thread: slots may become clean or dead, stacks may   *)
(* be given back that neither a thread nor a creator has.                  *)
LEMMA StayThreaded ==
  ASSUME TInv,
         \A i \in Slot : owner'[i] = owner[i] \/ (owner'[i] = i /\ ~Thread(i)),
         \A i \in Slot : state'[i] = "CREATING" => state[i] = "CREATING" \/ Clean(i),
         \A j \in Slot : Able(j)' => state'[owner'[j]] # "DEAD",
         \A j \in Slot : /\ thread_info'[j] \in {thread_info[j], NoInfo}
                         /\ thread_info'[j] # NoInfo =>
                              thread_info[j].slot \in thread_slots'[thread_info[j].owner],
         \A u \in Slot : loc'[u].us # 0 =>
           /\ loc'[u].us = loc[u].us /\ loc'[u].own = loc[u].own /\ Claiming(loc'[u])
           /\ loc[u].us \in thread_slots'[loc[u].own],
         \A u \in Slot : loc'[u] = loc[u] \/ Keeps(loc[u])'
  PROVE  Threaded'
<1>1. thread_info \in [Slot -> [owner : Slot, slot : 0 .. UserStacks]]
  BY DEF TInv, Inv, TypeOK
<1>2. \A i \in Slot : Thread(i)' => Thread(i) /\ thread_info'[i] = thread_info[i]
  BY DEF Thread
<1>3. ThreadsKnown'
  <2> SUFFICES ASSUME NEW i \in Slot, Thread(i)'
               PROVE  /\ thread_info'[i].owner >= 1 /\ thread_info'[i].owner # i
                      /\ owner'[i] = thread_info'[i].owner
                      /\ owner'[thread_info'[i].owner] = thread_info'[i].owner
                      /\ state'[i] # "CREATING" /\ state'[thread_info'[i].owner] # "CREATING"
                      /\ thread_info'[i].slot \in thread_slots'[thread_info'[i].owner]
                      /\ \A j \in Slot \ {i} : thread_info'[j] # thread_info'[i]
    BY DEF ThreadsKnown
  <2>1. Thread(i) /\ thread_info'[i] = thread_info[i] /\ thread_info[i].owner \in Slot
    BY <1>1, <1>2
  <2>2. /\ thread_info[i].owner >= 1 /\ thread_info[i].owner # i
        /\ owner[i] = thread_info[i].owner
        /\ owner[thread_info[i].owner] = thread_info[i].owner
        /\ state[i] # "CREATING" /\ state[thread_info[i].owner] # "CREATING"
        /\ \A j \in Slot \ {i} : thread_info[j] # thread_info[i]
    BY <2>1 DEF TInv, Threaded, ThreadsKnown
  <2>3. ~Clean(i) /\ ~Clean(thread_info[i].owner)
    BY <2>1 DEF Clean
  <2>4. \A j \in Slot \ {i} : thread_info'[j] # thread_info'[i]
    BY <2>1, <2>2 DEF Thread
  <2>5. thread_info'[i].slot \in thread_slots'[thread_info'[i].owner]
    BY <2>1 DEF Thread
  <2>6. owner'[i] = owner[i] /\ owner'[thread_info[i].owner] = thread_info[i].owner
    BY <2>1, <2>2
  <2>7. state'[i] # "CREATING" /\ state'[thread_info[i].owner] # "CREATING"
    BY <2>1, <2>2, <2>3
  <2> QED BY <2>1, <2>2, <2>4, <2>5, <2>6, <2>7
<1>4. Claims'
  <2>1. ASSUME NEW t \in Slot, loc'[t].us # 0
        PROVE  /\ loc[t].us # 0 /\ Claim(loc'[t]) = Claim(loc[t]) /\ Claiming(loc'[t])
               /\ loc'[t].us \in thread_slots'[loc'[t].own]
               /\ NoInfo # Claim(loc[t])
    BY <2>1 DEF Claim, NoInfo
  <2>2. \A t \in Slot : loc'[t].us # 0 => \A i \in Slot : thread_info'[i] # Claim(loc'[t])
    BY <2>1 DEF TInv, Threaded, Claims
  <2>3. \A t \in Slot : loc'[t].us # 0 =>
          \A u \in Slot \ {t} : loc'[u].us # 0 => Claim(loc'[u]) # Claim(loc'[t])
    BY <2>1 DEF TInv, Threaded, Claims
  <2> QED BY <2>1, <2>2, <2>3 DEF Claims
<1>5. Keepers'
  <2> SUFFICES ASSUME NEW u \in Slot PROVE Keeps(loc[u])'
    BY DEF Keepers
  <2>1. CASE loc'[u] = loc[u]
    <3>1. Keeps(loc[u])
      BY DEF TInv, Threaded, Keepers
    <3>2. loc[u].pc \in {"picked", "forgotten", "joined"} => loc[u].i \in Slot
      BY UsedIsSlot DEF TInv, Inv, Locally, Local, Reaps, HasDeadSlot, MidReap
    <3>3. \A i \in Slot : thread_info'[i] # NoInfo => thread_info[i] # NoInfo /\ thread_info'[i] = thread_info[i]
      OBVIOUS
    <3> QED BY <2>1, <3>1, <3>2, <3>3 DEF Keeps, Clean, Thread
  <2> QED BY <2>1
<1>6. MainsLive'
  BY DEF MainsLive
<1> QED BY <1>3, <1>4, <1>5, <1>6 DEF Threaded


(* Steps that only move task t.                                            *)
LEMMA MovesThreaded ==
  ASSUME TInv, NEW t \in Slot, UNCHANGED <<table, threads>>,
         \A u \in Slot \ {t} : loc'[u] = loc[u],
         loc'[t].us # 0 => loc'[t].us = loc[t].us /\ loc'[t].own = loc[t].own /\ Claiming(loc'[t]),
         Keeps(loc[t])'
  PROVE  Threaded'
<1>1. /\ owner' = owner /\ state' = state /\ num_tasks' = num_tasks
      /\ thread_info' = thread_info /\ thread_slots' = thread_slots
  BY DEF table, threads
<1>2. \A j \in Slot : Able(j)' => state'[owner'[j]] # "DEAD"
  BY <1>1 DEF TInv, Threaded, MainsLive, Able, Used
<1>3. \A j \in Slot : thread_info[j] # NoInfo => thread_info[j].slot \in thread_slots[thread_info[j].owner]
  BY DEF TInv, Threaded, ThreadsKnown, Thread
<1>4. \A u \in Slot : loc'[u].us # 0 =>
           /\ loc'[u].us = loc[u].us /\ loc'[u].own = loc[u].own /\ Claiming(loc'[u])
           /\ loc[u].us \in thread_slots'[loc[u].own]
  BY <1>1 DEF TInv, Threaded, Claims
<1>5. \A u \in Slot : loc'[u] = loc[u] \/ Keeps(loc[u])'
  OBVIOUS
<1> QED BY <1>1, <1>2, <1>3, <1>4, <1>5, StayThreaded

(* Where the task neither takes nor leaves a claim, nor goes to a point    *)
(* that the invariant says anything about.                                 *)
Plain == {"user", "create", "reap_dead", "pick", "alloc", "created", "arm", "reap", "reap_free",
          "reap_zero", "reap_owner", "wait", "block", "woken", "found", "forget", "join"}
LEMMA PlainThreaded ==
  ASSUME TInv, NEW t \in Slot, UNCHANGED <<table, threads>>,
         \A u \in Slot \ {t} : loc'[u] = loc[u],
         loc'[t].pc \in Plain,
         loc'[t].us = 0 \/ (loc'[t].us = loc[t].us /\ loc'[t].own = loc[t].own /\ Claiming(loc'[t]))
  PROVE  Threaded'
<1>1. Keeps(loc[t])'
  BY DEF Keeps, Plain
<1> QED BY <1>1, MovesThreaded

LEMMA ThreadedReturn ==
  ASSUME TInv, NEW t \in Slot, UNCHANGED <<table, threads>>, Return(t)
  PROVE  Threaded'
<1>1. (\A u \in Slot \ {t} : loc'[u] = loc[u]) /\ loc'[t] = InUser
  BY ReturnIs DEF TInv, Inv, TypeOK
<1>2. loc'[t].pc \in Plain /\ loc'[t].us = 0
  BY <1>1 DEF InUser, Plain
<1> QED BY <1>1, <1>2, PlainThreaded

LEMMA ThreadedReap ==
  ASSUME TInv, NEW t \in Slot, Reap(t) \/ ReapFree(t) \/ ReapZero(t)
  PROVE  Threaded'
<1>1. PICK p \in {"reap", "reap_free", "reap_zero"} : At(t, p)
  BY DEF Reap, ReapFree, ReapZero
<1>2. /\ loc[t].pc = p /\ Local(t, loc[t]) /\ state[t] = "READY"
      /\ loc \in [Slot -> Locals] /\ loc[t] \in Locals
      /\ loc[t].us # 0 => Claiming(loc[t])
  BY <1>1, ThreadAt
<1>3. UNCHANGED <<table, threads>>
  BY DEF Reap, ReapFree, ReapZero
<1>4. (~Used(loc[t].i) \/ loc[t].i = t \/ state[loc[t].i] # "DEAD") /\ p = "reap" => loc[t].for = "reap_dead"
  BY <1>2 DEF Local, Reaps
<1>5. PICK q \in {"reap_dead", "reap_free", "reap_zero", "reap_owner"} :
        /\ loc'[t].pc = q /\ loc'[t].for = loc[t].for
        /\ loc'[t].own = loc[t].own /\ loc'[t].us = loc[t].us
        /\ q = "reap_dead" => loc[t].for = "reap_dead"
        /\ \A u \in Slot \ {t} : loc'[u] = loc[u]
  <2>0. /\ "reap_dead" \in Points /\ "reap_owner" \in Points /\ "reap_zero" \in Points
    BY DEF Points, MidReap
  <2>1. CASE Goto(t, loc[t].for) /\ loc[t].for = "reap_dead"
    BY <1>2, <2>0, <2>1, GotoIs
  <2>2. CASE Goto(t, "reap_owner")
    BY <1>2, <2>0, <2>2, GotoIs
  <2>3. CASE Goto(t, "reap_zero")
    BY <1>2, <2>0, <2>3, GotoIs
  <2>4. CASE loc' = [loc EXCEPT ![t].pc = "reap_free", ![t].stk = kstack[loc[t].i]]
    <3>1. loc' = [loc EXCEPT ![t] = [loc[t] EXCEPT !.pc = "reap_free", !.stk = kstack[loc[t].i]]]
      BY <1>2, <2>4
    <3> QED BY <1>2, <3>1 DEF Locals
  <2>5. CASE loc' = [loc EXCEPT ![t].pc = "reap_owner", ![t].stk = NoStack]
    <3>1. loc' = [loc EXCEPT ![t] = [loc[t] EXCEPT !.pc = "reap_owner", !.stk = NoStack]]
      BY <1>2, <2>5
    <3> QED BY <1>2, <3>1 DEF Locals
  <2>6. Reap(t) => (Goto(t, loc[t].for) /\ loc[t].for = "reap_dead") \/ Goto(t, "reap_owner")
                   \/ loc' = [loc EXCEPT ![t].pc = "reap_free", ![t].stk = kstack[loc[t].i]]
    <3>1. Reap(t) => p = "reap"
      BY <1>2 DEF Reap, At
    <3> QED BY <1>4, <3>1 DEF Reap
  <2> QED BY <2>1, <2>2, <2>3, <2>4, <2>5, <2>6 DEF ReapFree, ReapZero
<1>6. loc'[t].us = 0 \/ Claiming(loc'[t])
  BY <1>2, <1>5 DEF Claiming, Creating, MidReap
<1>7. loc'[t].pc \in Plain
  BY <1>5 DEF Plain
<1> QED BY <1>3, <1>5, <1>6, <1>7, PlainThreaded

LEMMA ThreadedLoops ==
  ASSUME TInv, NEW t \in Slot, ReapDead(t) \/ Pick(t) \/ CreateLock(t) \/ JoinDead(t)
  PROVE  Threaded'
<1>1. PICK p \in {"reap_dead", "pick", "create", "join"} : At(t, p)
  BY DEF ReapDead, Pick, CreateLock, JoinDead
<1>2. /\ loc[t].pc = p /\ loc \in [Slot -> Locals] /\ loc[t] \in Locals
      /\ loc[t].us # 0 => Claiming(loc[t])
  BY <1>1, ThreadAt
<1>3. UNCHANGED <<table, threads>>
  BY DEF ReapDead, Pick, CreateLock, JoinDead
<1>4. PICK q \in {"reap", "pick"} : \E i, f :
        /\ loc' = [loc EXCEPT ![t] = [loc[t] EXCEPT !.pc = q, !.i = i, !.for = f]]
        /\ q = "reap" /\ p # "join" => f \in Creating \/ (p = "reap_dead" /\ f = loc[t].for)
  <2>1. CASE ReapDead(t)
    <3>1. PICK q \in {"reap", "pick"} : \E i : Continue(t, q, i)
      BY <2>1 DEF ReapDead
    <3>4. PICK i : Continue(t, q, i)
      BY <3>1
    <3>2. loc' = [loc EXCEPT ![t] = [loc[t] EXCEPT !.pc = q, !.i = i, !.for = loc[t].for]]
      BY <1>2, <3>4 DEF Continue, Locals
    <3>3. p = "reap_dead"
      BY <1>2, <2>1 DEF ReapDead, At
    <3> QED BY <3>2, <3>3
  <2>2. CASE Pick(t)
    <3>1. CASE Continue(t, "pick", loc[t].i + 1)
      <4>1. loc' = [loc EXCEPT ![t] = [loc[t] EXCEPT !.pc = "pick", !.i = loc[t].i + 1, !.for = loc[t].for]]
        BY <1>2, <3>1 DEF Continue, Locals
      <4> QED BY <4>1
    <3>2. CASE loc' = [loc EXCEPT ![t].pc = "reap", ![t].for = "picked"]
      <4>1. loc' = [loc EXCEPT ![t] = [loc[t] EXCEPT !.pc = "reap", !.i = loc[t].i, !.for = "picked"]]
        BY <1>2, <3>2 DEF Locals
      <4> QED BY <4>1 DEF Creating
    <3> QED BY <2>2, <3>1, <3>2 DEF Pick
  <2>3. CASE CreateLock(t)
    <3>1. loc' = [loc EXCEPT ![t] = [loc[t] EXCEPT !.pc = "reap", !.i = 1, !.for = "reap_dead"]]
      BY <1>2, <2>3 DEF CreateLock
    <3> QED BY <3>1 DEF Creating
  <2>4. CASE JoinDead(t)
    <3>1. loc' = [loc EXCEPT ![t] = [loc[t] EXCEPT !.pc = "reap", !.i = loc[t].id, !.for = "joined"]]
      BY <1>2, <2>4 DEF JoinDead
    <3>2. p = "join"
      BY <1>2, <2>4 DEF JoinDead, At
    <3> QED BY <3>1, <3>2
  <2> QED BY <2>1, <2>2, <2>3, <2>4
<1>5. PICK i, f :
        /\ loc' = [loc EXCEPT ![t] = [loc[t] EXCEPT !.pc = q, !.i = i, !.for = f]]
        /\ q = "reap" /\ p # "join" => f \in Creating \/ (p = "reap_dead" /\ f = loc[t].for)
  BY <1>4
<1>6. /\ \A u \in Slot \ {t} : loc'[u] = loc[u]
      /\ loc'[t].pc = q /\ loc'[t].for = f /\ loc'[t].us = loc[t].us /\ loc'[t].own = loc[t].own
  BY <1>2, <1>5 DEF Locals
<1>7. loc[t].us # 0 => p # "join"
  BY <1>2 DEF Claiming, Creating, MidReap
<1>8. p = "reap_dead" => loc[t].for = "reap_dead"
  <2>1. Local(t, loc[t])
    BY <1>1, ThreadAt
  <2> QED BY <1>2, <2>1 DEF Local, Reaps
<1>9. loc'[t].us = 0 \/ Claiming(loc'[t])
  BY <1>5, <1>6, <1>7, <1>8 DEF Claiming, Creating, MidReap
<1>10. loc'[t].pc \in Plain
  BY <1>6 DEF Plain
<1> QED BY <1>3, <1>6, <1>9, <1>10, PlainThreaded

(* The beginnings of calls, but for that of a thread.                      *)
LEMMA ThreadedCalls ==
  ASSUME TInv, NEW t \in Slot,
         SpawnProcess(t) \/ (\E pid \in WaitFor : WaitPid(t, pid)) \/ (\E id \in Slot : Join(t, id))
  PROVE  Threaded'
<1>1. loc \in [Slot -> Locals]
  BY DEF TInv, Inv, TypeOK
<1>2. UNCHANGED <<table, threads>>
  BY DEF SpawnProcess, StartCreate, WaitPid, Join, threads
<1>3. PICK q \in {"create", "wait", "join"} :
        /\ loc'[t].pc = q /\ loc'[t].us = 0
        /\ \A u \in Slot \ {t} : loc'[u] = loc[u]
  <2>1. CASE SpawnProcess(t)
    BY <1>1, <2>1 DEF SpawnProcess, StartCreate, InUser
  <2>2. ASSUME NEW pid \in WaitFor, WaitPid(t, pid)
        PROVE  /\ loc'[t].pc = "wait" /\ loc'[t].us = 0
               /\ \A u \in Slot \ {t} : loc'[u] = loc[u]
    BY <1>1, <2>2 DEF WaitPid, InUser
  <2>3. ASSUME NEW id \in Slot, Join(t, id)
        PROVE  /\ loc'[t].pc = "join" /\ loc'[t].us = 0
               /\ \A u \in Slot \ {t} : loc'[u] = loc[u]
    BY <1>1, <2>3 DEF Join, InUser
  <2> QED BY <2>1, <2>2, <2>3
<1> QED BY <1>2, <1>3, PlainThreaded DEF Plain

LEMMA ThreadedWait ==
  ASSUME TInv, NEW t \in Slot,
         WaitFind(t) \/ WaitWoken(t) \/ Forget(t) \/ ForgetSlot(t) \/ ForgetDone(t)
  PROVE  Threaded'
<1>1. PICK p \in {"wait", "woken", "found", "forget"} : At(t, p)
  BY DEF WaitFind, WaitWoken, Forget, ForgetSlot, ForgetDone
<1>2. loc[t].pc = p /\ loc \in [Slot -> Locals] /\ loc[t] \in Locals /\ loc[t].us = 0
  BY <1>1, ThreadAt DEF Claiming, Creating, MidReap
<1>3. UNCHANGED <<table, threads>>
  BY DEF WaitFind, WaitWoken, Forget, ForgetSlot, ForgetDone
<1>4. CASE Return(t)
  BY <1>3, <1>4, ThreadedReturn
<1>5. ASSUME NEW q \in Plain, Goto(t, q) PROVE Threaded'
  <2>1. q \in Points
    BY DEF Plain, Points, MidReap
  <2>2. (\A u \in Slot \ {t} : loc'[u] = loc[u]) /\ loc'[t].pc = q /\ loc'[t].us = 0
    BY <1>2, <1>5, <2>1, GotoIs
  <2> QED BY <1>3, <2>2, PlainThreaded
<1>6. ASSUME NEW q \in Plain, NEW i, Continue(t, q, i) PROVE Threaded'
  <2>1. loc' = [loc EXCEPT ![t] = [loc[t] EXCEPT !.pc = q, !.i = i]]
    BY <1>2, <1>6 DEF Continue
  <2>2. (\A u \in Slot \ {t} : loc'[u] = loc[u]) /\ loc'[t].pc = q /\ loc'[t].us = 0
    BY <1>2, <2>1 DEF Locals
  <2> QED BY <1>3, <2>2, PlainThreaded
<1>7. CASE WaitFind(t)
  <2>1. ASSUME NEW c, loc' = [loc EXCEPT ![t].pc = "found", ![t].id = c] PROVE Threaded'
    <3>1. loc' = [loc EXCEPT ![t] = [loc[t] EXCEPT !.pc = "found", !.id = c]]
      BY <1>2, <2>1
    <3>2. (\A u \in Slot \ {t} : loc'[u] = loc[u]) /\ loc'[t].pc = "found" /\ loc'[t].us = 0
      BY <1>2, <3>1 DEF Locals
    <3> QED BY <1>3, <3>2, PlainThreaded DEF Plain
  <2> QED BY <1>4, <1>5, <1>7, <2>1 DEF WaitFind, Plain
<1>8. CASE ForgetSlot(t)
  <2>1. CASE loc' = [loc EXCEPT ![t].pc = "reap", ![t].for = "forgotten"]
    <3>1. loc' = [loc EXCEPT ![t] = [loc[t] EXCEPT !.pc = "reap", !.for = "forgotten"]]
      BY <1>2, <2>1
    <3>2. (\A u \in Slot \ {t} : loc'[u] = loc[u]) /\ loc'[t].pc = "reap" /\ loc'[t].us = 0
      BY <1>2, <3>1 DEF Locals
    <3> QED BY <1>3, <3>2, PlainThreaded DEF Plain
  <2> QED BY <1>6, <1>8, <2>1 DEF ForgetSlot, Plain
<1>9. CASE WaitWoken(t)
  BY <1>5, <1>9 DEF WaitWoken, Plain
<1>10. CASE Forget(t)
  BY <1>4, <1>6, <1>10 DEF Forget, Plain
<1> QED BY <1>4, <1>7, <1>8, <1>9, <1>10 DEF ForgetDone


LEMMA ThreadedBlock ==
  ASSUME TInv, NEW t \in Slot, WaitBlock(t)
  PROVE  Threaded'
<1>1. /\ loc[t].pc = "block" /\ loc \in [Slot -> Locals] /\ loc[t].us = 0
  BY ThreadAt DEF WaitBlock, Claiming, Creating, MidReap
<1>2. /\ owner' = owner /\ num_tasks' = num_tasks
      /\ thread_info' = thread_info /\ thread_slots' = thread_slots
  BY DEF WaitBlock, threads
<1>3. \A i \in Slot : state'[i] = state[i] \/ (i = t /\ state[t] = "READY" /\ state'[t] = "BLOCKED")
  BY ThreadAt DEF WaitBlock, TInv, Inv, TypeOK
<1>4. \A u \in Slot : loc'[u] = loc[u] \/ (loc'[u].us = 0 /\ loc'[u].pc \in Plain)
  <2>1. PICK q \in {"wait", "woken"} : Goto(t, q)
    BY DEF WaitBlock
  <2>2. q \in Points
    BY DEF Points
  <2> QED BY <1>1, <2>1, <2>2, GotoIs DEF Plain
<1>5. \A u \in Slot : loc'[u] = loc[u] \/ Keeps(loc[u])'
  BY <1>4 DEF Keeps, Plain
<1>6. \A j \in Slot : Able(j)' => state'[owner'[j]] # "DEAD"
  <2>1. \A j \in Slot : Able(j)' => Able(j)
    BY <1>2, <1>3 DEF Able, Used
  <2>2. \A j \in Slot : owner[j] \in Slot
    BY DEF TInv, Inv, TypeOK
  <2> QED BY <1>2, <1>3, <2>1, <2>2 DEF TInv, Threaded, MainsLive
<1>7. \A j \in Slot : thread_info[j] # NoInfo => thread_info[j].slot \in thread_slots[thread_info[j].owner]
  BY DEF TInv, Threaded, ThreadsKnown, Thread
<1>8. \A u \in Slot : loc'[u].us # 0 =>
           /\ loc'[u].us = loc[u].us /\ loc'[u].own = loc[u].own /\ Claiming(loc'[u])
           /\ loc[u].us \in thread_slots'[loc[u].own]
  BY <1>2, <1>4 DEF TInv, Threaded, Claims
<1> QED BY <1>2, <1>3, <1>5, <1>6, <1>7, <1>8, StayThreaded

(* The end of a reap: what a dead slot had of user stacks is given back.   *)
LEMMA ThreadedReapOwner ==
  ASSUME TInv, NEW t \in Slot, ReapOwner(t)
  PROVE  Threaded'
<1>1. /\ Used(t) /\ state[t] = "READY" /\ loc[t].pc = "reap_owner" /\ Local(t, loc[t])
      /\ loc \in [Slot -> Locals] /\ loc[t] \in Locals /\ num_tasks \in 2 .. N
      /\ loc[t].us # 0 => Claiming(loc[t])
  BY ThreadAt DEF ReapOwner
<1>2. Used(loc[t].i) /\ state[loc[t].i] = "DEAD" /\ loc[t].i \in Slot /\ loc[t].i >= 1
  BY <1>1, UsedIsSlot DEF Local, Reaps, HasDeadSlot, HasSlot, MidReap, TInv, Inv
<1> PICK i \in Slot : i = loc[t].i
  BY <1>2
<1>3. /\ owner' = owner /\ state' = state /\ num_tasks' = num_tasks
  BY DEF ReapOwner, table
<1>4. loc[t].for \in {"reap_dead", "picked", "forgotten", "joined"}
  BY <1>1 DEF Local, Reaps, Locals, MidReap
<1>5. /\ \A u \in Slot \ {t} : loc'[u] = loc[u]
      /\ loc'[t].pc = loc[t].for /\ loc'[t].i = i /\ loc'[t].us = loc[t].us
      /\ loc'[t].own = loc[t].own /\ loc'[t].for = loc[t].for
  <2>1. loc[t].for \in Points
    BY <1>4 DEF Points, MidReap
  <2> QED BY <1>1, <2>1, GotoIs DEF ReapOwner
<1>6. /\ thread_info \in [Slot -> [owner : Slot, slot : 0 .. UserStacks]]
      /\ thread_slots \in [Slot -> SUBSET (1 .. UserStacks)]
      /\ owner \in [Slot -> Slot]
  BY DEF TInv, Inv, TypeOK
<1>7. ~Live(i) \/ owner[i] # i \/ loc[t].for # "picked"
  <2> SUFFICES ASSUME Live(i), owner[i] = i, loc[t].for = "picked" PROVE FALSE
    OBVIOUS
  <2>1. PICK j \in 0 .. num_tasks - 1 : owner[j] = i /\ state[j] # "DEAD"
    BY DEF Live
  <2>2. j \in Slot /\ j # 0 /\ Used(j)
    <3>1. j \in Slot
      BY <1>1, NAssumption DEF Slot
    <3>2. j # 0
      BY <1>2, <2>1 DEF TInv, Inv, Owners, Fresh
    <3> QED BY <1>1, <3>1, <3>2 DEF Used
  <2>3. ~Able(j)
    BY <1>2, <2>1, <2>2 DEF TInv, Threaded, MainsLive
  <2>4. Unborn(j) /\ owner[j] # j
    <3>1. state[j] \in State
      BY <2>2 DEF TInv, Inv, TypeOK
    <3> QED BY <1>2, <2>1, <2>2, <2>3, <3>1 DEF State, Unborn, Able
  <2>5. Creates(loc[t])
    BY DEF Creates, Creating
  <2> QED BY <1>1, <2>2, <2>4, <2>5 DEF TInv, Inv, Owners, Orphans
<1>8. \A j \in Slot : thread_info'[j] \in {thread_info[j], NoInfo}
  BY <1>6 DEF ReapOwner, ReleaseThread, CleanupProcess, threads
<1>9. \A j \in Slot : Thread(j) =>
        /\ thread_info[j].slot \in thread_slots[thread_info[j].owner]
        /\ thread_info[j].owner \in Slot /\ thread_info[j].slot \in Int
        /\ owner[j] = thread_info[j].owner /\ j # owner[j] /\ owner[owner[j]] = owner[j]
        /\ \A k \in Slot \ {j} : thread_info[k] # thread_info[j]
  BY <1>6, UserStacksAssumption DEF TInv, Threaded, ThreadsKnown
<1>10. \A j \in Slot : thread_info'[j] # NoInfo =>
                         thread_info[j].slot \in thread_slots'[thread_info[j].owner]
  <2> SUFFICES ASSUME NEW j \in Slot, thread_info'[j] # NoInfo
               PROVE  thread_info[j].slot \in thread_slots'[thread_info[j].owner]
    OBVIOUS
  <2>1. Thread(j)
    BY <1>8 DEF Thread
  <2>2. CASE ReleaseThread(i)
    <3>1. j # i
      BY <1>6, <2>2 DEF ReleaseThread
    <3>2. thread_info[j] # thread_info[i]
      BY <1>9, <2>1, <3>1
    <3>3. ~(thread_info[j].owner = thread_info[i].owner /\ thread_info[j].slot = thread_info[i].slot)
      BY <1>6, <3>2
    <3> QED BY <1>6, <1>9, <2>1, <2>2, <3>3 DEF ReleaseThread
  <2>3. CASE CleanupProcess(i)
    <3>1. thread_info[j].owner # i
      BY <1>6, <2>3 DEF CleanupProcess
    <3> QED BY <1>6, <1>9, <2>1, <2>3, <3>1 DEF CleanupProcess
  <2>4. CASE UNCHANGED threads
    BY <1>9, <2>1, <2>4 DEF threads
  <2> QED BY <2>2, <2>3, <2>4 DEF ReapOwner
<1>11. \A u \in Slot : loc'[u].us # 0 =>
           /\ loc'[u].us = loc[u].us /\ loc'[u].own = loc[u].own /\ Claiming(loc'[u])
           /\ loc[u].us \in thread_slots'[loc[u].own]
  <2> SUFFICES ASSUME NEW u \in Slot, loc'[u].us # 0
               PROVE  /\ loc'[u].us = loc[u].us /\ loc'[u].own = loc[u].own /\ Claiming(loc'[u])
                      /\ loc[u].us \in thread_slots'[loc[u].own]
    OBVIOUS
  <2>1. loc'[u].us = loc[u].us /\ loc'[u].own = loc[u].own /\ loc[u].us # 0
    BY <1>5
  <2>2. /\ Claiming(loc[u]) /\ loc[u].us \in thread_slots[loc[u].own]
        /\ thread_info[i] # Claim(loc[u])
    BY <2>1 DEF TInv, Threaded, Claims
  <2>3. Claiming(loc'[u])
    <3>1. CASE u = t
      BY <1>1, <1>4, <1>5, <2>1, <3>1 DEF Claiming, Creating, MidReap
    <3>2. CASE u # t
      BY <1>5, <2>2, <3>2
    <3> QED BY <3>1, <3>2
  <2>4. /\ loc[u].own = owner[u] /\ Used(u) /\ state[u] = "READY" /\ owner[u] \in Slot
    BY <2>1, ClaimIs
  <2>5. loc[u].us \in thread_slots'[loc[u].own]
    <3>1. CASE ReleaseThread(i)
      <4>1. thread_info[i] = [owner |-> thread_info[i].owner, slot |-> thread_info[i].slot]
        BY <1>6
      <4>2. ~(loc[u].own = thread_info[i].owner /\ loc[u].us = thread_info[i].slot)
        BY <2>2, <4>1 DEF Claim
      <4> QED BY <1>6, <2>2, <2>4, <3>1, <4>2 DEF ReleaseThread
    <3>2. CASE CleanupProcess(i) /\ ~Live(i)
      <4>1. u \in 0 .. num_tasks - 1
        BY <1>1, <2>4 DEF Used
      <4>2. loc[u].own # i
        BY <2>4, <3>2, <4>1 DEF Live
      <4> QED BY <1>6, <2>2, <2>4, <3>2, <4>2 DEF CleanupProcess
    <3>3. CASE UNCHANGED threads
      BY <2>2, <3>3 DEF threads
    <3> QED BY <3>1, <3>2, <3>3 DEF ReapOwner
  <2> QED BY <2>1, <2>3, <2>5
<1>12. ~(thread_info'[i] # NoInfo)
  <2>1. CASE ReleaseThread(i)
    BY <1>6, <2>1 DEF ReleaseThread
  <2>2. CASE owner[i] = i
    BY <1>8, <1>9, <2>2 DEF Thread
  <2> QED BY <2>1, <2>2 DEF ReapOwner
<1>13. loc[t].for = "picked" => \A j \in Slot : thread_info'[j] # NoInfo => thread_info'[j].owner # i
  <2> SUFFICES ASSUME loc[t].for = "picked", NEW j \in Slot, thread_info'[j] # NoInfo
               PROVE  thread_info'[j].owner # i
    OBVIOUS
  <2>1. Thread(j) /\ thread_info'[j] = thread_info[j]
    BY <1>8 DEF Thread
  <2>2. CASE owner[i] # i
    BY <1>9, <2>1, <2>2
  <2>3. CASE owner[i] = i /\ CleanupProcess(i)
    BY <1>6, <2>1, <2>3 DEF CleanupProcess
  <2> QED BY <1>7, <2>2, <2>3 DEF ReapOwner
<1>14. \A u \in Slot : loc'[u] = loc[u] \/ Keeps(loc[u])'
  <2>1. Keeps(loc[t])'
    BY <1>4, <1>5, <1>12, <1>13 DEF Keeps, Clean, Thread
  <2> QED BY <1>5, <2>1
<1>15. \A j \in Slot : Able(j)' => state'[owner'[j]] # "DEAD"
  BY <1>3 DEF TInv, Threaded, MainsLive, Able, Used
<1> QED BY <1>3, <1>8, <1>10, <1>11, <1>14, <1>15, StayThreaded

(* A task claims a user stack for the thread that it is about to create.   *)
LEMMA ThreadedSpawn ==
  ASSUME TInv, NEW t \in Slot, SpawnThread(t)
  PROVE  Threaded'
<1>1. /\ loc[t].pc = "user" /\ loc \in [Slot -> Locals] /\ loc[t].us = 0
  BY ThreadAt DEF SpawnThread, Claiming, Creating, MidReap
<1>2. /\ owner' = owner /\ state' = state /\ num_tasks' = num_tasks /\ thread_info' = thread_info
  BY DEF SpawnThread, StartCreate, table
<1>3. PICK us \in FreeUserStacks(owner[t]) :
        /\ thread_slots' = [thread_slots EXCEPT ![owner[t]] = @ \cup {us}]
        /\ loc' = [loc EXCEPT ![t] = [InUser EXCEPT !.pc = "create", !.us = us, !.own = owner[t]]]
  BY DEF SpawnThread, StartCreate
<1>4. us # 0 /\ us \notin thread_slots[owner[t]] /\ owner[t] \in Slot
  BY UserStacksAssumption DEF FreeUserStacks, TInv, Inv, TypeOK
<1>5. /\ \A u \in Slot \ {t} : loc'[u] = loc[u]
      /\ loc'[t].pc = "create" /\ loc'[t].us = us /\ loc'[t].own = owner[t]
  BY <1>1, <1>3 DEF InUser
<1>6. \A p \in Slot : thread_slots[p] \subseteq thread_slots'[p]
  BY <1>3 DEF TInv, Inv, TypeOK
<1>7. us \in thread_slots'[owner[t]]
  BY <1>3, <1>4 DEF TInv, Inv, TypeOK
<1>8. ThreadsKnown'
  <2>1. \A i \in Slot : thread_info[i].owner \in Slot
    BY DEF TInv, Inv, TypeOK
  <2>2. \A i \in Slot : Thread(i) => thread_info[i].slot \in thread_slots'[thread_info[i].owner]
    BY <1>6, <2>1 DEF TInv, Threaded, ThreadsKnown
  <2> QED BY <1>2, <2>2 DEF TInv, Threaded, ThreadsKnown, Thread
<1>9. Claims'
  <2>1. \A u \in Slot \ {t} : loc[u].us # 0 => loc[u].own \in Slot
    BY DEF TInv, Inv, TypeOK, Locals
  <2>2. \A u \in Slot \ {t} : loc[u].us # 0 =>
          loc[u].us \in thread_slots'[loc[u].own] /\ ~(loc[u].own = owner[t] /\ loc[u].us = us)
    BY <1>4, <1>6, <2>1 DEF TInv, Threaded, Claims
  <2>3. \A u \in Slot \ {t} : loc[u].us # 0 => Claim(loc[u]) # Claim(loc'[t])
    BY <1>5, <2>2 DEF Claim
  <2>4. \A i \in Slot : thread_info[i] # Claim(loc'[t])
    <3> SUFFICES ASSUME NEW i \in Slot, thread_info[i] = Claim(loc'[t]) PROVE FALSE
      OBVIOUS
    <3>1. thread_info[i].owner = owner[t] /\ thread_info[i].slot = us
      BY <1>5 DEF Claim
    <3>2. Thread(i)
      BY <1>4, <3>1 DEF Thread, NoInfo
    <3> QED BY <1>4, <3>1, <3>2 DEF TInv, Threaded, ThreadsKnown
  <2> SUFFICES ASSUME NEW u \in Slot, loc'[u].us # 0
               PROVE  /\ Claiming(loc'[u])
                      /\ loc'[u].us \in thread_slots'[loc'[u].own]
                      /\ \A i \in Slot : thread_info[i] # Claim(loc'[u])
                      /\ \A v \in Slot \ {u} : loc'[v].us # 0 => Claim(loc'[v]) # Claim(loc'[u])
    BY <1>2 DEF Claims, Claiming, Claim
  <2>5. CASE u = t
    BY <1>5, <1>7, <2>3, <2>4, <2>5 DEF Claiming
  <2>6. CASE u # t
    <3>1. loc'[u] = loc[u] /\ loc[u].us # 0
      BY <1>5, <2>6
    <3>2. /\ Claiming(loc[u]) /\ loc[u].us \in thread_slots'[loc[u].own]
          /\ \A i \in Slot : thread_info[i] # Claim(loc[u])
          /\ \A v \in Slot \ {u} : loc[v].us # 0 => Claim(loc[v]) # Claim(loc[u])
      BY <2>2, <2>6, <3>1 DEF TInv, Threaded, Claims
    <3>3. \A v \in Slot \ {u} : loc'[v].us # 0 => Claim(loc'[v]) # Claim(loc[u])
      BY <1>5, <2>3, <2>6, <3>1, <3>2
    <3> QED BY <3>1, <3>2, <3>3
  <2> QED BY <2>5, <2>6
<1>10. Keepers'
  <2>1. \A u \in Slot : Keeps(loc[u])'
    BY <1>2, <1>5 DEF TInv, Threaded, Keepers, Keeps, Clean, Thread
  <2> QED BY <2>1 DEF Keepers
<1>11. MainsLive'
  BY <1>2 DEF TInv, Threaded, MainsLive, Able, Used
<1> QED BY <1>8, <1>9, <1>10, <1>11 DEF Threaded


(* Creation: a slot is picked, ...                                         *)
LEMMA ThreadedReserve ==
  ASSUME TInv, NEW t \in Slot, loc[t].us # 0 => Claiming(loc[t]), loc \in [Slot -> Locals],
         NEW i \in Slot, Clean(i), Reserve(t, i), UNCHANGED <<owner, threads>>,
         num_tasks' = num_tasks \/ (i = num_tasks /\ num_tasks' = num_tasks + 1)
  PROVE  Threaded'
<1>1. thread_info' = thread_info /\ thread_slots' = thread_slots
  BY DEF threads
<1>2. loc' = [loc EXCEPT ![t] = [loc[t] EXCEPT !.pc = "alloc", !.for = "none", !.id = i, !.i = 0]]
  BY DEF Reserve
<1>3. /\ \A u \in Slot \ {t} : loc'[u] = loc[u]
      /\ loc'[t].pc = "alloc" /\ loc'[t].us = loc[t].us /\ loc'[t].own = loc[t].own
  BY <1>2 DEF Locals
<1>4. \A u \in Slot : state'[u] = IF u = i THEN "CREATING" ELSE state[u]
  BY DEF Reserve, TInv, Inv, TypeOK
<1>5. \A j \in Slot : Able(j)' => state'[owner'[j]] # "DEAD"
  <2>1. \A j \in Slot : Able(j)' => Able(j)
    <3>1. \A j \in Slot : j \in Int
      BY NAssumption DEF Slot
    <3>2. num_tasks \in Int
      BY NAssumption DEF TInv, Inv, TypeOK
    <3> QED BY <1>4, <3>1, <3>2 DEF Able, Used
  <2>2. \A j \in Slot : owner[j] \in Slot
    BY DEF TInv, Inv, TypeOK
  <2> QED BY <1>4, <2>1, <2>2 DEF TInv, Threaded, MainsLive
<1>6. \A j \in Slot : thread_info[j] # NoInfo => thread_info[j].slot \in thread_slots[thread_info[j].owner]
  BY DEF TInv, Threaded, ThreadsKnown, Thread
<1>7. \A u \in Slot : loc'[u].us # 0 =>
           /\ loc'[u].us = loc[u].us /\ loc'[u].own = loc[u].own /\ Claiming(loc'[u])
           /\ loc[u].us \in thread_slots'[loc[u].own]
  <2>1. \A u \in Slot : loc[u].us # 0 => Claiming(loc[u]) /\ loc[u].us \in thread_slots[loc[u].own]
    BY DEF TInv, Threaded, Claims
  <2>2. Claiming(loc'[t])
    BY <1>3 DEF Claiming, Creating
  <2> QED BY <1>1, <1>3, <2>1, <2>2
<1>8. \A u \in Slot : loc'[u] = loc[u] \/ Keeps(loc[u])'
  BY <1>3 DEF Keeps
<1> QED BY <1>1, <1>4, <1>5, <1>6, <1>7, <1>8, StayThreaded

LEMMA ThreadedPicked ==
  ASSUME TInv, NEW t \in Slot, Picked(t)
  PROVE  Threaded'
<1> DEFINE i == loc[t].i
<1>1. /\ loc[t].pc = "picked" /\ Local(t, loc[t]) /\ loc \in [Slot -> Locals] /\ loc[t] \in Locals
      /\ Keeps(loc[t])
      /\ loc[t].us # 0 => Claiming(loc[t])
  BY ThreadAt DEF Picked
<1>2. UNCHANGED <<owner, num_tasks, threads>>
  BY DEF Picked
<1>3. i \in Slot /\ Clean(i)
  BY <1>1, UsedIsSlot DEF Keeps, Local, Reaps, HasDeadSlot, TInv, Inv
<1>4. CASE Reserve(t, i)
  BY <1>1, <1>2, <1>3, <1>4, ThreadedReserve
<1>5. CASE Continue(t, "pick", i + 1) /\ UNCHANGED state
  <2>1. loc' = [loc EXCEPT ![t] = [loc[t] EXCEPT !.pc = "pick", !.i = i + 1]]
    BY <1>1, <1>5 DEF Continue
  <2>2. /\ \A u \in Slot \ {t} : loc'[u] = loc[u]
        /\ loc'[t].pc = "pick" /\ loc'[t].us = loc[t].us /\ loc'[t].own = loc[t].own
    BY <1>1, <2>1 DEF Locals
  <2>3. UNCHANGED <<table, threads>> /\ Claiming(loc'[t]) /\ loc'[t].pc \in Plain
    BY <1>2, <1>5, <2>2 DEF table, Claiming, Creating, Plain
  <2> QED BY <2>2, <2>3, PlainThreaded
<1> QED BY <1>4, <1>5 DEF Picked

(* ... or there is none, or no memory for it ...                           *)
LEMMA ThreadedFails ==
  ASSUME TInv, NEW t \in Slot, loc \in [Slot -> Locals], CreateFails(t),
         UNCHANGED <<owner, num_tasks, thread_info>>,
         \A i \in Slot : state'[i] = state[i] \/ (Unborn(i) /\ state'[i] = "DEAD")
  PROVE  Threaded'
<1>1. /\ thread_slots' = [thread_slots EXCEPT ![loc[t].own] = @ \ {loc[t].us}]
      /\ thread_slots \in [Slot -> SUBSET (1 .. UserStacks)]
      /\ thread_info \in [Slot -> [owner : Slot, slot : 0 .. UserStacks]]
      /\ loc[t].own \in Slot /\ loc[t].us \in 0 .. UserStacks
  BY DEF CreateFails, TInv, Inv, TypeOK, Locals
<1>2. (\A u \in Slot \ {t} : loc'[u] = loc[u]) /\ loc'[t] = InUser
  BY ReturnIs DEF CreateFails
<1>3. \A p \in Slot, k \in 1 .. UserStacks :
        k \in thread_slots[p] /\ ~(p = loc[t].own /\ k = loc[t].us) => k \in thread_slots'[p]
  BY <1>1
<1>4. \A j \in Slot : thread_info[j] # NoInfo => thread_info[j].slot \in thread_slots'[thread_info[j].owner]
  <2> SUFFICES ASSUME NEW j \in Slot, Thread(j)
               PROVE  thread_info[j].slot \in thread_slots'[thread_info[j].owner]
    BY DEF Thread
  <2>1. /\ thread_info[j].slot \in thread_slots[thread_info[j].owner] /\ thread_info[j].owner \in Slot
        /\ thread_info[j] = [owner |-> thread_info[j].owner, slot |-> thread_info[j].slot]
    BY <1>1 DEF TInv, Threaded, ThreadsKnown
  <2>2. thread_info[j].slot \in 1 .. UserStacks
    BY <1>1, <2>1
  <2>3. ~(thread_info[j].owner = loc[t].own /\ thread_info[j].slot = loc[t].us)
    BY <1>1, <2>1, <2>2 DEF TInv, Threaded, Claims, Claim
  <2> QED BY <1>3, <2>1, <2>2, <2>3
<1>5. \A u \in Slot : loc'[u].us # 0 =>
           /\ loc'[u].us = loc[u].us /\ loc'[u].own = loc[u].own /\ Claiming(loc'[u])
           /\ loc[u].us \in thread_slots'[loc[u].own]
  <2> SUFFICES ASSUME NEW u \in Slot, loc'[u].us # 0
               PROVE  /\ loc'[u].us = loc[u].us /\ loc'[u].own = loc[u].own /\ Claiming(loc'[u])
                      /\ loc[u].us \in thread_slots'[loc[u].own]
    OBVIOUS
  <2>1. u # t /\ loc'[u] = loc[u] /\ loc[u].us # 0
    BY <1>2 DEF InUser
  <2>2. /\ Claiming(loc[u]) /\ loc[u].us \in thread_slots[loc[u].own]
        /\ loc[t].us # 0 => Claim(loc[u]) # Claim(loc[t])
    BY <2>1 DEF TInv, Threaded, Claims
  <2>3. loc[u].own \in Slot /\ loc[u].us \in 1 .. UserStacks
    BY <1>1, <2>1, <2>2, UserStacksAssumption DEF Locals
  <2>4. ~(loc[u].own = loc[t].own /\ loc[u].us = loc[t].us)
    BY <2>1, <2>2 DEF Claim
  <2> QED BY <1>3, <2>1, <2>2, <2>3, <2>4
<1>6. \A u \in Slot : loc'[u] = loc[u] \/ Keeps(loc[u])'
  BY <1>2 DEF Keeps, InUser
<1>7. \A j \in Slot : Able(j)' => state'[owner'[j]] # "DEAD"
  <2> SUFFICES ASSUME NEW j \in Slot, Able(j)' PROVE state'[owner[j]] # "DEAD"
    OBVIOUS
  <2>1. Able(j) /\ owner[j] \in Slot
    BY DEF Able, Used, Unborn, TInv, Inv, TypeOK
  <2>2. state[owner[j]] # "DEAD"
    BY <2>1 DEF TInv, Threaded, MainsLive
  <2>3. ~Unborn(owner[j])
    BY <2>1 DEF TInv, Inv, Owners, Unowned, Settled, Unborn, Able
  <2> QED BY <2>1, <2>2, <2>3
<1>8. \A i \in Slot : state'[i] = "CREATING" => state[i] = "CREATING"
  OBVIOUS
<1> QED BY <1>4, <1>5, <1>6, <1>7, <1>8, StayThreaded

LEMMA ThreadedPickFresh ==
  ASSUME TInv, NEW t \in Slot, PickFresh(t)
  PROVE  Threaded'
<1>1. /\ loc \in [Slot -> Locals] /\ num_tasks \in 2 .. N
      /\ loc[t].us # 0 => Claiming(loc[t])
  BY ThreadAt DEF PickFresh
<1>2. UNCHANGED <<owner, thread_info>>
  BY DEF PickFresh
<1>3. CASE num_tasks < N /\ Reserve(t, num_tasks) /\ num_tasks' = num_tasks + 1 /\ UNCHANGED thread_slots
  <2>1. PICK i \in Slot : i = num_tasks
    BY <1>1, <1>3, NAssumption DEF Slot
  <2>2. owner[i] = 0 /\ i # 0 /\ owner[0] = 0
    BY <1>1, <2>1 DEF TInv, Inv, Owners, Fresh
  <2>3. Clean(i)
    <3>1. \A j \in Slot : Thread(j) =>
            /\ thread_info[j].owner >= 1 /\ owner[j] = thread_info[j].owner
            /\ owner[thread_info[j].owner] = thread_info[j].owner
      BY DEF TInv, Threaded, ThreadsKnown
    <3>2. ~Thread(i)
      BY <2>2, <3>1
    <3> QED BY <2>2, <3>1, <3>2 DEF Clean
  <2> QED BY <1>1, <1>2, <1>3, <2>1, <2>3, ThreadedReserve DEF threads
<1>4. CASE CreateFails(t) /\ UNCHANGED <<state, num_tasks>>
  BY <1>1, <1>2, <1>4, ThreadedFails
<1> QED BY <1>3, <1>4 DEF PickFresh

(* ... it gets its kernel stack ...                                        *)
LEMMA ThreadedAlloc ==
  ASSUME TInv, NEW t \in Slot, Alloc(t)
  PROVE  Threaded'
<1>1. /\ loc[t].pc = "alloc" /\ Local(t, loc[t]) /\ loc \in [Slot -> Locals] /\ loc[t] \in Locals
      /\ loc[t].us # 0 => Claiming(loc[t])
  BY ThreadAt DEF Alloc
<1>2. Unborn(loc[t].id) /\ loc[t].id \in Slot
  BY <1>1, UsedIsSlot DEF Local, Makes, Building, Unborn, TInv, Inv
<1> PICK id \in Slot : id = loc[t].id
  BY <1>2
<1>3. UNCHANGED <<num_tasks, thread_info>>
  BY DEF Alloc
<1>4. CASE state' = [state EXCEPT ![id] = "DEAD"] /\ CreateFails(t) /\ owner' = owner
  <2>1. \A i \in Slot : state'[i] = state[i] \/ (Unborn(i) /\ state'[i] = "DEAD")
    BY <1>2, <1>4 DEF TInv, Inv, TypeOK
  <2> QED BY <1>1, <1>3, <1>4, <2>1, ThreadedFails
<1>5. CASE owner' = [owner EXCEPT ![id] = id] /\ Goto(t, "created") /\ UNCHANGED <<state, thread_slots>>
  <2>1. \A i \in Slot : owner'[i] = IF i = id THEN id ELSE owner[i]
    BY <1>5 DEF TInv, Inv, TypeOK
  <2>2. ~Thread(id) /\ state[id] = "CREATING"
    BY <1>2 DEF TInv, Threaded, ThreadsKnown, Unborn
  <2>3. /\ \A u \in Slot \ {t} : loc'[u] = loc[u]
        /\ loc'[t].pc = "created" /\ loc'[t].us = loc[t].us /\ loc'[t].own = loc[t].own
    <3>1. "created" \in Points
      BY DEF Points
    <3> QED BY <1>1, <1>5, <3>1, GotoIs
  <2>4. \A j \in Slot : Able(j)' => state'[owner'[j]] # "DEAD"
    BY <1>3, <1>5, <2>1, <2>2 DEF TInv, Threaded, MainsLive, Able, Used
  <2>5. \A j \in Slot : thread_info[j] # NoInfo => thread_info[j].slot \in thread_slots[thread_info[j].owner]
    BY DEF TInv, Threaded, ThreadsKnown, Thread
  <2>6. \A u \in Slot : loc'[u].us # 0 =>
           /\ loc'[u].us = loc[u].us /\ loc'[u].own = loc[u].own /\ Claiming(loc'[u])
           /\ loc[u].us \in thread_slots'[loc[u].own]
    <3>1. \A u \in Slot : loc[u].us # 0 => Claiming(loc[u]) /\ loc[u].us \in thread_slots[loc[u].own]
      BY DEF TInv, Threaded, Claims
    <3>2. Claiming(loc'[t])
      BY <2>3 DEF Claiming, Creating
    <3> QED BY <1>5, <2>3, <3>1, <3>2
  <2>7. \A u \in Slot : loc'[u] = loc[u] \/ Keeps(loc[u])'
    BY <2>3 DEF Keeps
  <2>8. \A i \in Slot : owner'[i] = owner[i] \/ (owner'[i] = i /\ ~Thread(i))
    BY <2>1, <2>2
  <2>9. \A i \in Slot : state'[i] = "CREATING" => state[i] = "CREATING"
    BY <1>5
  <2> QED BY <1>3, <1>5, <2>4, <2>5, <2>6, <2>7, <2>8, <2>9, StayThreaded
<1> QED BY <1>4, <1>5 DEF Alloc

(* ... and, for a process, its own set of user stacks, and is armed.       *)
LEMMA ThreadedProcess ==
  ASSUME TInv, NEW t \in Slot, CreatedProcess(t) \/ ArmProcess(t)
  PROVE  Threaded'
<1>1. PICK p \in {"created", "arm"} : At(t, p)
  BY DEF CreatedProcess, ArmProcess
<1>2. /\ loc[t].pc = p /\ Local(t, loc[t]) /\ loc \in [Slot -> Locals] /\ loc[t].us = 0
      /\ state[t] = "READY"
  <2>1. CASE CreatedProcess(t)
    BY <1>1, <2>1, ThreadAt DEF CreatedProcess
  <2>2. CASE ArmProcess(t)
    BY <2>2, <1>1, ThreadAt DEF ArmProcess, At, Claiming, Creating, MidReap
  <2> QED BY <2>1, <2>2
<1>3. Unborn(loc[t].id) /\ loc[t].id \in Slot /\ owner[loc[t].id] = loc[t].id
  BY <1>2, UsedIsSlot DEF Local, Makes, Building, Unborn, TInv, Inv
<1> PICK id \in Slot : id = loc[t].id
  BY <1>3
<1>4. UNCHANGED <<owner, num_tasks, thread_info>> /\ state[id] = "CREATING" /\ owner[id] = id
  BY <1>3 DEF CreatedProcess, ArmProcess, threads, Unborn
<1>5. /\ \A i \in Slot : i # id => state'[i] = state[i]
      /\ state'[id] \in {"CREATING", "READY"}
  BY <1>4 DEF CreatedProcess, ArmProcess, TInv, Inv, TypeOK
<1>6. \A q \in Slot : q # id => thread_slots'[q] = thread_slots[q]
  BY DEF CreatedProcess, ArmProcess, threads, TInv, Inv, TypeOK
<1>7. \A u \in Slot : loc'[u] = loc[u] \/ (loc'[u].us = 0 /\ loc'[u].pc \in Plain)
  <2>1. CASE CreatedProcess(t)
    <3>1. Goto(t, "arm") /\ "arm" \in Points
      BY <2>1 DEF CreatedProcess, Points
    <3> QED BY <1>2, <3>1, GotoIs DEF Plain
  <2>2. CASE ArmProcess(t)
    BY <1>2, <2>2 DEF ArmProcess, InUser, Plain
  <2> QED BY <2>1, <2>2
<1>8. \A u \in Slot : loc'[u] = loc[u] \/ Keeps(loc[u])'
  BY <1>7 DEF Keeps, Plain
<1>9. \A j \in Slot : Able(j)' => state'[owner'[j]] # "DEAD"
  BY <1>4, <1>5 DEF TInv, Threaded, MainsLive, Able, Used, Inv, TypeOK
<1>10. \A j \in Slot : thread_info[j] # NoInfo => thread_info[j].slot \in thread_slots'[thread_info[j].owner]
  <2>1. \A j \in Slot : Thread(j) =>
          /\ thread_info[j].owner \in Slot /\ state[thread_info[j].owner] # "CREATING"
          /\ thread_info[j].slot \in thread_slots[thread_info[j].owner]
    BY DEF TInv, Threaded, ThreadsKnown, Inv, TypeOK
  <2> QED BY <1>4, <1>6, <2>1 DEF Thread
<1>11. \A u \in Slot : loc'[u].us # 0 =>
           /\ loc'[u].us = loc[u].us /\ loc'[u].own = loc[u].own /\ Claiming(loc'[u])
           /\ loc[u].us \in thread_slots'[loc[u].own]
  <2> SUFFICES ASSUME NEW u \in Slot, loc'[u].us # 0
               PROVE  /\ loc'[u].us = loc[u].us /\ loc'[u].own = loc[u].own /\ Claiming(loc'[u])
                      /\ loc[u].us \in thread_slots'[loc[u].own]
    OBVIOUS
  <2>1. loc'[u] = loc[u] /\ loc[u].us # 0
    BY <1>7
  <2>2. loc[u].own \in Slot /\ loc[u].own # id
    BY <1>4, <2>1, ClaimIs
  <2> QED BY <1>6, <2>1, <2>2 DEF TInv, Threaded, Claims
<1>12. \A i \in Slot : state'[i] = "CREATING" => state[i] = "CREATING"
  BY <1>4, <1>5
<1> QED BY <1>4, <1>8, <1>9, <1>10, <1>11, <1>12, StayThreaded


(* The thread is its process's, with the claimed stack, and may run.       *)
LEMMA ThreadedArm ==
  ASSUME TInv, NEW t \in Slot, ArmThread(t)
  PROVE  Threaded'
<1>1. /\ loc[t].pc = "created" /\ Local(t, loc[t]) /\ loc \in [Slot -> Locals] /\ loc[t] \in Locals
      /\ loc[t].us # 0 /\ Able(t)
  BY ThreadAt DEF ArmThread
<1>2. /\ Unborn(loc[t].id) /\ loc[t].id \in Slot /\ owner[loc[t].id] = loc[t].id
      /\ state[loc[t].id] = "CREATING"
  BY <1>1, UsedIsSlot DEF Local, Makes, Building, Unborn, TInv, Inv
<1> PICK id \in Slot : id = loc[t].id
  BY <1>2
<1>3. /\ loc[t].own = owner[t] /\ owner[t] >= 1 /\ owner[t] \in Slot
      /\ state[owner[t]] \notin {"DEAD", "CREATING"}
  BY <1>1, ClaimIs
<1> PICK own \in Slot : own = owner[t]
  BY <1>3
<1>4. owner[own] = own /\ own # id /\ t # id
  BY <1>1, <1>2, <1>3 DEF Able, TInv, Inv, Owners, Mains
<1> DEFINE info == [owner |-> own, slot |-> loc[t].us]
<1>5. /\ num_tasks' = num_tasks /\ thread_slots' = thread_slots
      /\ \A i \in Slot : /\ state'[i] = IF i = id THEN "READY" ELSE state[i]
                         /\ owner'[i] = IF i = id THEN own ELSE owner[i]
                         /\ thread_info'[i] = IF i = id THEN info ELSE thread_info[i]
                         /\ loc'[i] = IF i = t \/ i = id THEN InUser ELSE loc[i]
  BY <1>1, <1>3 DEF ArmThread, TInv, Inv, TypeOK
<1>6. info = Claim(loc[t]) /\ info # NoInfo
  BY <1>1, <1>3 DEF Claim, NoInfo
<1>7. /\ info.owner = own /\ info.slot = loc[t].us
      /\ loc[t].us \in thread_slots[own]
      /\ \A i \in Slot : thread_info[i] # info
      /\ \A u \in Slot \ {t} : loc[u].us # 0 => Claim(loc[u]) # info
  BY <1>1, <1>3, <1>6 DEF TInv, Threaded, Claims
<1>8. thread_info \in [Slot -> [owner : Slot, slot : 0 .. UserStacks]]
  BY DEF TInv, Inv, TypeOK
<1> HIDE DEF info
<1>9. ThreadsKnown'
  <2> SUFFICES ASSUME NEW i \in Slot, thread_info'[i] # NoInfo
               PROVE  /\ thread_info'[i].owner >= 1 /\ thread_info'[i].owner # i
                      /\ owner'[i] = thread_info'[i].owner
                      /\ owner'[thread_info'[i].owner] = thread_info'[i].owner
                      /\ state'[i] # "CREATING" /\ state'[thread_info'[i].owner] # "CREATING"
                      /\ thread_info'[i].slot \in thread_slots'[thread_info'[i].owner]
                      /\ \A j \in Slot \ {i} : thread_info'[j] # thread_info'[i]
    BY DEF ThreadsKnown, Thread
  <2>1. CASE i = id
    BY <1>3, <1>4, <1>5, <1>7, <2>1
  <2>2. CASE i # id
    <3>1. thread_info'[i] = thread_info[i] /\ Thread(i) /\ thread_info[i].owner \in Slot
      BY <1>5, <1>8, <2>2 DEF Thread
    <3>2. /\ thread_info[i].owner >= 1 /\ thread_info[i].owner # i
          /\ owner[i] = thread_info[i].owner
          /\ owner[thread_info[i].owner] = thread_info[i].owner
          /\ state[i] # "CREATING" /\ state[thread_info[i].owner] # "CREATING"
          /\ thread_info[i].slot \in thread_slots[thread_info[i].owner]
          /\ \A j \in Slot \ {i} : thread_info[j] # thread_info[i]
      BY <3>1 DEF TInv, Threaded, ThreadsKnown
    <3>3. thread_info[i].owner # id
      BY <1>2, <3>2
    <3> QED BY <1>5, <1>7, <2>2, <3>1, <3>2, <3>3
  <2> QED BY <2>1, <2>2
<1>10. Claims'
  <2> SUFFICES ASSUME NEW u \in Slot, loc'[u].us # 0
               PROVE  /\ Claiming(loc'[u])
                      /\ loc'[u].us \in thread_slots'[loc'[u].own]
                      /\ \A i \in Slot : thread_info'[i] # Claim(loc'[u])
                      /\ \A v \in Slot \ {u} : loc'[v].us # 0 => Claim(loc'[v]) # Claim(loc'[u])
    BY DEF Claims, Claiming, Claim
  <2>1. u # t /\ loc'[u] = loc[u] /\ loc[u].us # 0
    BY <1>5 DEF InUser
  <2>2. \A v \in Slot : loc'[v].us # 0 => loc'[v] = loc[v] /\ loc[v].us # 0
    BY <1>5 DEF InUser
  <2>3. /\ Claiming(loc[u]) /\ loc[u].us \in thread_slots[loc[u].own]
        /\ \A i \in Slot : thread_info[i] # Claim(loc[u])
        /\ \A v \in Slot \ {u} : loc[v].us # 0 => Claim(loc[v]) # Claim(loc[u])
    BY <2>1 DEF TInv, Threaded, Claims
  <2>4. Claim(loc[u]) # info
    BY <1>7, <2>1
  <2> QED BY <1>5, <2>1, <2>2, <2>3, <2>4
<1>11. Keepers'
  <2> SUFFICES ASSUME NEW u \in Slot PROVE Keeps(loc[u])'
    BY DEF Keepers
  <2>1. CASE u = t \/ u = id
    BY <1>5, <2>1 DEF Keeps, InUser
  <2>2. CASE u # t /\ u # id
    <3>1. loc'[u] = loc[u] /\ Keeps(loc[u])
      BY <1>5, <2>2 DEF TInv, Threaded, Keepers
    <3>2. loc[u].pc \in {"picked", "forgotten", "joined"} =>
            loc[u].i \in Slot /\ state[loc[u].i] = "DEAD"
      BY UsedIsSlot DEF TInv, Inv, Locally, Local, Reaps, HasDeadSlot, MidReap
    <3>3. loc[u].pc \in {"picked", "forgotten", "joined"} => loc[u].i # id /\ loc[u].i # own
      BY <1>2, <1>3, <3>2
    <3> QED BY <1>5, <1>7, <3>1, <3>2, <3>3 DEF Keeps, Clean, Thread
  <2> QED BY <2>1, <2>2
<1>12. MainsLive'
  <2>1. \A j \in Slot : Able(j)' /\ j # id => Able(j)
    BY <1>5 DEF Able, Used
  <2>2. \A j \in Slot : owner[j] \in Slot
    BY DEF TInv, Inv, TypeOK
  <2>3. \A j \in Slot : Able(j)' => state'[owner'[j]] # "DEAD"
    BY <1>3, <1>5, <2>1, <2>2 DEF TInv, Threaded, MainsLive
  <2> QED BY <2>3 DEF MainsLive
<1> QED BY <1>9, <1>10, <1>11, <1>12 DEF Threaded

LEMMA ThreadedDisown ==
  ASSUME TInv, NEW t \in Slot, Forgotten(t) \/ Joined(t)
  PROVE  Threaded'
<1>1. PICK p \in {"forgotten", "joined"} : At(t, p)
  BY DEF Forgotten, Joined
<1>2. /\ loc[t].pc = p /\ Local(t, loc[t]) /\ loc \in [Slot -> Locals] /\ loc[t] \in Locals
      /\ Keeps(loc[t])
      /\ loc[t].us # 0 => Claiming(loc[t])
  BY <1>1, ThreadAt
<1>3. loc[t].us = 0 /\ Used(loc[t].i) /\ state[loc[t].i] = "DEAD" /\ loc[t].i \in Slot
      /\ ~Thread(loc[t].i) /\ (p = "joined" => loc[t].i = loc[t].id)
  <2>1. /\ Used(loc[t].i) /\ state[loc[t].i] = "DEAD" /\ loc[t].for = p
        /\ p = "joined" => loc[t].i = loc[t].id
    BY <1>2 DEF Local, Reaps, HasDeadSlot, MidReap
  <2>2. loc[t].us = 0
    BY <1>2, <2>1 DEF Claiming, Creating
  <2> QED BY <1>2, <2>1, <2>2, UsedIsSlot DEF Keeps, TInv, Inv
<1>4. /\ state' = state /\ num_tasks' = num_tasks
      /\ thread_info' = thread_info /\ thread_slots' = thread_slots
  BY DEF Forgotten, Joined, threads
<1>5. \A i \in Slot : owner'[i] = IF i = loc[t].i THEN i ELSE owner[i]
  <2>1. owner' = [owner EXCEPT ![loc[t].i] = loc[t].i]
    <3>1. Joined(t) => p = "joined"
      BY <1>2 DEF Joined, At
    <3> QED BY <1>3, <3>1 DEF Forgotten, Joined
  <2> QED BY <1>3, <2>1 DEF TInv, Inv, TypeOK
<1>6. (\A u \in Slot \ {t} : loc'[u] = loc[u]) /\ loc'[t].us = 0 /\ loc'[t].pc \in Plain
  <2>1. CASE Forgotten(t)
    <3>1. loc' = [loc EXCEPT ![t] = [loc[t] EXCEPT !.pc = "forget", !.i = loc[t].i + 1]]
      BY <1>2, <2>1 DEF Forgotten, Continue
    <3>2. loc'[t].pc = "forget" /\ loc'[t].us = 0
      BY <1>2, <1>3, <3>1 DEF Locals
    <3> QED BY <1>2, <3>1, <3>2 DEF Plain
  <2>2. CASE Joined(t)
    BY <1>2, <2>2, ReturnIs DEF Joined, InUser, Plain
  <2> QED BY <2>1, <2>2
<1>7. \A j \in Slot : Able(j)' => state'[owner'[j]] # "DEAD"
  BY <1>3, <1>4, <1>5 DEF TInv, Threaded, MainsLive, Able, Used
<1>8. \A u \in Slot : loc'[u] = loc[u] \/ Keeps(loc[u])'
  BY <1>6 DEF Keeps, Plain
<1>9. \A j \in Slot : thread_info[j] # NoInfo => thread_info[j].slot \in thread_slots[thread_info[j].owner]
  BY DEF TInv, Threaded, ThreadsKnown, Thread
<1>10. \A u \in Slot : loc'[u].us # 0 =>
           /\ loc'[u].us = loc[u].us /\ loc'[u].own = loc[u].own /\ Claiming(loc'[u])
           /\ loc[u].us \in thread_slots'[loc[u].own]
  BY <1>4, <1>6 DEF TInv, Threaded, Claims
<1>11. \A i \in Slot : owner'[i] = owner[i] \/ (owner'[i] = i /\ ~Thread(i))
  BY <1>3, <1>5
<1> QED BY <1>4, <1>7, <1>8, <1>9, <1>10, <1>11, StayThreaded

(* Death, of one task or of all the tasks of a process.                    *)
LEMMA ThreadedDeath ==
  ASSUME TInv, NEW S, NEW p \in Slot, NEW ends \in BOOLEAN, Die(S, p, ends),
         \A u \in Slot : loc'[u] = loc[u] \/ loc'[u] = InUser,
         \A j \in Slot : Able(j) /\ owner[j] \in S => j \in S
  PROVE  Threaded'
<1>1. /\ owner' = owner /\ num_tasks' = num_tasks
      /\ thread_info' = thread_info /\ thread_slots' = thread_slots
  BY DEF Die, threads
<1>2. /\ \A i \in Slot : i \in S => state'[i] = "DEAD"
      /\ \A i \in Slot : i \notin S =>
           state'[i] = state[i] \/ (state[i] = "BLOCKED" /\ state'[i] = "READY")
  <2> DEFINE wakes == ends /\ p > 0 /\ proc[p] # "UNUSED" /\ parent[p] > 0 /\ proc[parent[p]] # "UNUSED"
             woken == IF wakes THEN {w \in wait_waiters[parent[p]] : state[w] = "BLOCKED"} ELSE {}
  <2>1. state' = [i \in Slot |-> IF i \in S THEN "DEAD" ELSE IF i \in woken THEN "READY" ELSE state[i]]
    BY DEF Die
  <2>2. \A i \in woken : state[i] = "BLOCKED"
    OBVIOUS
  <2> HIDE DEF woken
  <2> QED BY <2>1, <2>2
<1>3. \A i \in Slot : state'[i] = "CREATING" => state[i] = "CREATING"
  BY <1>2
<1>4. \A j \in Slot : Able(j)' => state'[owner'[j]] # "DEAD"
  <2> SUFFICES ASSUME NEW j \in Slot, Able(j)' PROVE state'[owner[j]] # "DEAD"
    BY <1>1
  <2>1. Able(j) /\ j \notin S
    BY <1>1, <1>2 DEF Able, Used
  <2>2. owner[j] \in Slot /\ owner[j] \notin S /\ state[owner[j]] # "DEAD"
    BY <2>1 DEF TInv, Inv, TypeOK, Threaded, MainsLive
  <2> QED BY <1>2, <2>2
<1>5. \A u \in Slot : loc'[u] = loc[u] \/ Keeps(loc[u])'
  BY DEF Keeps, InUser
<1>6. \A j \in Slot : thread_info[j] # NoInfo => thread_info[j].slot \in thread_slots[thread_info[j].owner]
  BY DEF TInv, Threaded, ThreadsKnown, Thread
<1>7. \A u \in Slot : loc'[u].us # 0 =>
           /\ loc'[u].us = loc[u].us /\ loc'[u].own = loc[u].own /\ Claiming(loc'[u])
           /\ loc[u].us \in thread_slots'[loc[u].own]
  BY <1>1 DEF TInv, Threaded, Claims, InUser
<1> QED BY <1>1, <1>3, <1>4, <1>5, <1>6, <1>7, StayThreaded

LEMMA ThreadedDies ==
  ASSUME TInv, NEW t \in Slot, ExitThread(t) \/ ExitProcess(t)
  PROVE  Threaded'
<1>1. \A j \in Slot : Able(j) => owner[j] >= 1 /\ owner[owner[j]] = owner[j] /\ Used(j)
  BY DEF TInv, Inv, Owners, Mains, Able
<1>2. owner[t] \in Slot
  BY DEF TInv, Inv, TypeOK
<1>3. CASE ExitThread(t)
  <2> DEFINE ends == \A i \in Of(owner[t]) \ {t} : state[i] = "DEAD"
  <2>1. Die({t}, owner[t], ends) /\ ends \in BOOLEAN /\ loc' = loc /\ owner[t] # t
    BY <1>3 DEF ExitThread
  <2>2. \A j \in Slot : Able(j) => owner[j] # t
    BY <1>1, <2>1
  <2> HIDE DEF ends
  <2> QED BY <1>2, <2>1, <2>2, ThreadedDeath
<1>4. CASE ExitProcess(t)
  <2> DEFINE S == Of(owner[t])
  <2>1. Die(S, owner[t], TRUE) /\ \A u \in Slot : loc'[u] = loc[u] \/ loc'[u] = InUser
    BY <1>4 DEF ExitProcess
  <2>2. \A j \in Slot : Able(j) /\ owner[j] \in S => j \in S
    BY <1>1 DEF Of
  <2> HIDE DEF S
  <2> QED BY <1>2, <2>1, <2>2, ThreadedDeath
<1> QED BY <1>3, <1>4

LEMMA ThreadedNext == TInv /\ [Next]_vars => TInv'
<1> SUFFICES ASSUME TInv, [Next]_vars PROVE TInv'
  OBVIOUS
<1>1. ASSUME NEW t \in Slot, Progress(t) \/ Spin(t) PROVE Threaded'
  <2>1. CASE Reap(t) \/ ReapFree(t) \/ ReapZero(t) \/ ReapOwner(t)
    BY <2>1, ThreadedReap, ThreadedReapOwner
  <2>2. CASE ReapDead(t) \/ Pick(t) \/ CreateLock(t) \/ JoinDead(t)
    BY <2>2, ThreadedLoops
  <2>3. CASE Picked(t) \/ PickFresh(t) \/ Alloc(t)
    BY <2>3, ThreadedPicked, ThreadedPickFresh, ThreadedAlloc
  <2>4. CASE CreatedProcess(t) \/ ArmProcess(t) \/ ArmThread(t)
    BY <2>4, ThreadedProcess, ThreadedArm
  <2>5. CASE WaitFind(t) \/ WaitBlock(t) \/ WaitWoken(t) \/ Forget(t) \/ ForgetSlot(t) \/ ForgetDone(t)
    BY <2>5, ThreadedWait, ThreadedBlock
  <2>6. CASE Forgotten(t) \/ Joined(t)
    BY <2>6, ThreadedDisown
  <2>7. ~Killed(t)
    BY ThreadAt DEF Killed, Keeps
  <2> QED BY <1>1, <2>1, <2>2, <2>3, <2>4, <2>5, <2>6, <2>7 DEF Progress, Spin
<1>2. ASSUME NEW t \in Slot, Call(t) PROVE Threaded'
  <2>1. \A id \in Slot : ~Kill(t, id)
    BY DEF Kill, TInv, NoKills
  <2> QED BY <1>2, <2>1, ThreadedCalls, ThreadedSpawn, ThreadedDies DEF Call
<1>3. ASSUME UNCHANGED vars PROVE Threaded'
  <2>1. 0 \in Slot /\ UNCHANGED <<table, threads>> /\ loc' = loc
    BY <1>3, NAssumption DEF vars, Slot
  <2>2. /\ thread_info' = thread_info
        /\ loc[0].us # 0 => Claiming(loc[0])
    BY <2>1 DEF TInv, Threaded, Claims, threads
  <2>3. Keeps(loc[0])'
    BY <2>1, <2>2 DEF TInv, Threaded, Keepers, Keeps, Clean, Thread
  <2> QED BY <2>1, <2>2, <2>3, MovesThreaded
<1>4. Threaded'
  BY <1>1, <1>2, <1>3 DEF Next
<1>5. Inv'
  BY InvNext DEF TInv
<1> QED BY <1>4, <1>5 DEF TInv, NoKills

(* Where nobody kills, two live threads never share a user stack, and that *)
(* of a live thread is never up for allocation, however creating, exiting, *)
(* joining, waiting and reaping interleave (sys_spawn,                     *)
(* syscall_release_thread and syscall_cleanup_process).                    *)
THEOREM ThreadStacksSafe ==
  Calm /\ NoKills /\ Spec => []UserStacksExclusive
<1> SUFFICES ASSUME Calm, NoKills PROVE Spec => []UserStacksExclusive
  OBVIOUS
<1>1. Init => TInv
  BY InvInit, ThreadedInit DEF TInv
<1>2. TInv /\ [Next]_vars => TInv'
  BY ThreadedNext
<1>3. TInv => UserStacksExclusive
  BY ThreadedImplies
<1> QED BY <1>1, <1>2, <1>3, PTL DEF Spec

=============================================================================
