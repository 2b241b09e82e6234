----------------------------- MODULE PipeProofs -----------------------------
(***************************************************************************)
(* Proofs about Pipe for all tasks and processes, every size of the ring   *)
(* and of the reads and writes: its safety, then that it implements the    *)
(* channel of Channel.                                                     *)
(***************************************************************************)
EXTENDS Pipe, FiniteSetTheorems, SequenceTheorems, Remainders, TLAPS

-----------------------------------------------------------------------------
(* The invariant.  TypeOK and NoLostWake speak of the pipe as it is; a     *)
(* pass works on the table p it finds, so both are stated of any table.    *)
PipeOK(p) ==
  /\ p \in [used : BOOLEAN, readers : 0 .. Cardinality(Proc), writers : 0 .. Cardinality(Proc),
            head : 0 .. Capacity - 1, tail : 0 .. Capacity - 1, count : 0 .. Capacity,
            read_waiters : SUBSET Task, write_waiters : SUBSET Task]
  /\ (p.head - p.tail - p.count) % Capacity = 0

Waits(u, p) ==
  /\ p.used
  /\ call[u].op = "read" => p.count = 0 /\ p.writers > 0 /\ u \in p.read_waiters
  /\ call[u].op = "write" => p.count = Capacity /\ p.readers > 0 /\ u \in p.write_waiters

(* Who is blocked is in pipe_wait, for a read or for a write; and a write  *)
(* that is under way has bytes left.  Without the first nobody knows which *)
(* side has to wake him, without the second a write could wait for room    *)
(* that it does not need.                                                  *)
BlockedWaits == \A t \in Task : state[t] = "BLOCKED" => pc[t] \in {"marked", "off", "wait"}
InCall ==
  /\ call \in [Task -> [op : {"none", "read", "write"}, count : Nat, done : Nat]]
  /\ \A t \in Task : pc[t] # "user" =>
       \/ call[t].op = "read" /\ call[t].count \in Reads
       \/ call[t].op = "write" /\ call[t].count \in Writes /\ call[t].done < call[t].count

Inv == TypeOK /\ EndsCounted /\ NoLostWake /\ BlockedWaits /\ InCall

Parts ==
  /\ TypeOK <=> /\ PipeOK(pipe)
                /\ data \in [0 .. Capacity - 1 -> Byte \cup {Stale}]
                /\ ends \in [Proc -> SUBSET {"r", "w"}]
                /\ locked \in BOOLEAN
                /\ state \in [Task -> {"READY", "BLOCKED", "DEAD"}]
                /\ pc \in [Task -> {"user", "call", "marked", "off", "wait"}]
                /\ \A t \in Task : call[t].done \in 0 .. call[t].count
  /\ NoLostWake <=> \A t \in Task : state[t] = "BLOCKED" => Waits(t, pipe)

LEMMA InvParts == Parts /\ Parts'
  BY DEF Parts, TypeOK, PipeOK, NoLostWake, Waits

Holders(e) == {p \in Proc : e \in ends[p]}

LEMMA HoldersFinite ==
  ASSUME NEW e
  PROVE  /\ IsFiniteSet(Holders(e)) /\ IsFiniteSet(Holders(e)')
         /\ Cardinality(Holders(e)) \in 0 .. Cardinality(Proc)
         /\ Cardinality(Holders(e)') \in 0 .. Cardinality(Proc)
<1>1. Holders(e) \subseteq Proc /\ Holders(e)' \subseteq Proc
  BY DEF Holders
<1>2. ASSUME NEW S \in SUBSET Proc PROVE IsFiniteSet(S) /\ Cardinality(S) \in 0 .. Cardinality(Proc)
  <2>1. IsFiniteSet(S) /\ Cardinality(S) <= Cardinality(Proc)
    BY ProcAssumption, FS_Subset
  <2>2. Cardinality(S) \in Nat /\ Cardinality(Proc) \in Nat
    BY <2>1, ProcAssumption, FS_CardinalityType
  <2> QED BY <2>1, <2>2
<1> QED BY <1>1, <1>2

LEMMA InvInit == Init => Inv
<1> SUFFICES ASSUME Init PROVE Inv
  OBVIOUS
<1>1. /\ Cardinality(Proc) \in Nat /\ Cardinality({}) = 0
  BY ProcAssumption, FS_CardinalityType, FS_EmptySet
<1>2. PipeOK(pipe)
  <2>1. (0 - 0 - 0) % Capacity = 0
    BY CapacityAssumption, ModSmall
  <2> QED BY <1>1, <2>1, CapacityAssumption DEF Init, PipeOK, Unused
<1>3. TypeOK
  <2>1. \A t \in Task : call[t].done \in 0 .. call[t].count
    BY DEF Init, NoCall
  <2>2. /\ data \in [0 .. Capacity - 1 -> Byte \cup {Stale}]
        /\ ends \in [Proc -> SUBSET {"r", "w"}]
        /\ locked \in BOOLEAN
        /\ state \in [Task -> {"READY", "BLOCKED", "DEAD"}]
        /\ pc \in [Task -> {"user", "call", "marked", "off", "wait"}]
    BY DEF Init
  <2> QED BY <1>2, <2>1, <2>2, InvParts DEF Parts
<1>4. EndsCounted
  <2>1. Holders("r") = {} /\ Holders("w") = {}
    BY DEF Init, Holders
  <2> QED BY <1>1, <2>1 DEF Init, EndsCounted, Unused, Holders
<1>5. NoLostWake /\ BlockedWaits /\ InCall
  BY DEF Init, NoLostWake, BlockedWaits, InCall, NoCall
<1> QED BY <1>3, <1>4, <1>5 DEF Inv

-----------------------------------------------------------------------------
(* Opening and closing.                                                    *)
LEMMA ReadyIsAwake ==
  ASSUME Inv, NEW t \in Task, Runs(t), pc[t] # "marked"
  PROVE  state[t] = "READY" /\ \A u \in Task : pc[u] # "marked"
  BY DEF Runs

LEMMA OpenStep == ASSUME Inv, NEW t \in Task, Open(t) PROVE Inv'
<1> USE DEF Inv
<1>1. /\ pipe' = [Unused EXCEPT !.used = TRUE, !.readers = 1, !.writers = 1]
      /\ ends' = [ends EXCEPT ![ProcOf[t]] = {"r", "w"}]
      /\ data' = [i \in 0 .. Capacity - 1 |-> Stale]
      /\ UNCHANGED <<locked, state, pc, call>>
      /\ ~pipe.used
  BY DEF Open
<1>2. ProcOf[t] \in Proc /\ \A p \in Proc : ends[p] = {}
  BY <1>1, ProcOfAssumption DEF EndsCounted
<1>3. \A e \in {"r", "w"} : Holders(e)' = {ProcOf[t]}
  <2>1. \A p \in Proc : ends'[p] = IF p = ProcOf[t] THEN {"r", "w"} ELSE {}
    BY <1>1, <1>2, InvParts DEF Parts
  <2> QED BY <1>2, <2>1 DEF Holders
<1>4. Cardinality({ProcOf[t]}) = 1
  BY FS_Singleton
<1>5. EndsCounted'
  <2>1. \E p \in Proc : ends'[p] # {}
    BY <1>1, <1>2, InvParts DEF Parts
  <2>2. Cardinality(Holders("r")') = 1 /\ Cardinality(Holders("w")') = 1
    BY <1>3, <1>4
  <2>3. pipe'.readers = 1 /\ pipe'.writers = 1 /\ pipe'.used
    BY <1>1 DEF Unused
  <2> QED BY <2>1, <2>2, <2>3 DEF EndsCounted, Holders
<1>6. TypeOK'
  <2>1. 1 \in 0 .. Cardinality(Proc)
    BY <1>3, <1>4, HoldersFinite
  <2>2. (0 - 0 - 0) % Capacity = 0
    BY CapacityAssumption, ModSmall
  <2>3. PipeOK(pipe')
    <3>1. pipe' = [used |-> TRUE, readers |-> 1, writers |-> 1, head |-> 0, tail |-> 0, count |-> 0,
                   read_waiters |-> {}, write_waiters |-> {}]
      BY <1>1 DEF Unused
    <3>2. 0 \in 0 .. Capacity - 1 /\ 0 \in 0 .. Capacity
      BY CapacityAssumption
    <3>3. (pipe'.head - pipe'.tail - pipe'.count) % Capacity = 0
      BY <2>2, <3>1
    <3> QED BY <2>1, <3>1, <3>2, <3>3 DEF PipeOK
  <2>4. ends' \in [Proc -> SUBSET {"r", "w"}]
    BY <1>1, InvParts DEF Parts
  <2> QED BY <1>1, <2>3, <2>4, InvParts DEF Parts
<1>7. NoLostWake' /\ BlockedWaits' /\ InCall'
  BY <1>1 DEF NoLostWake, BlockedWaits, InCall
<1> QED BY <1>5, <1>6, <1>7

(* One process less has end e.                                             *)
LEMMA OneHolderLess ==
  ASSUME Inv, NEW e, NEW q \in Proc, e \in ends[q], NEW S, e \in S,
         ends' = [ends EXCEPT ![q] = @ \ S]
  PROVE  Cardinality(Holders(e)') = Cardinality(Holders(e)) - 1
<1>1. Holders(e)' = Holders(e) \ {q} /\ q \in Holders(e)
  BY InvParts DEF Inv, Holders, Parts
<1> QED BY <1>1, HoldersFinite, FS_RemoveElement

LEMMA CloseStep ==
  ASSUME Inv, NEW q \in Proc, NEW S \in SUBSET {"r", "w"}, S \subseteq ends[q], S # {},
         CloseEnds(S), ends' = [ends EXCEPT ![q] = @ \ S],
         UNCHANGED <<data, locked, pc, call>>
  PROVE  Inv'
<1> USE DEF Inv
<1> DEFINE readers == IF "r" \in S THEN pipe.readers - 1 ELSE pipe.readers
           writers == IF "w" \in S THEN pipe.writers - 1 ELSE pipe.writers
           wake == (IF writers = 0 THEN pipe.read_waiters ELSE {})
                   \cup (IF readers = 0 THEN pipe.write_waiters ELSE {})
<1>0. PipeOK(pipe)
  BY InvParts DEF Parts
<1>1. /\ pipe' = [pipe EXCEPT !.readers = readers, !.writers = writers,
                              !.used = readers + writers > 0,
                              !.read_waiters = IF writers = 0 THEN {} ELSE @,
                              !.write_waiters = IF readers = 0 THEN {} ELSE @]
      /\ state' = Woken(wake)
  BY DEF CloseEnds
<1>2. readers = Cardinality(Holders("r")') /\ writers = Cardinality(Holders("w")')
  <2>1. \A e : e \notin S => Holders(e)' = Holders(e)
    BY InvParts DEF Holders, Parts
  <2>2. pipe.readers = Cardinality(Holders("r")) /\ pipe.writers = Cardinality(Holders("w"))
    BY DEF EndsCounted, Holders
  <2> QED BY <2>1, <2>2, OneHolderLess
<1>3. readers \in 0 .. Cardinality(Proc) /\ writers \in 0 .. Cardinality(Proc)
  BY <1>2, HoldersFinite
<1>4. Cardinality(Proc) \in Nat
  BY ProcAssumption, FS_CardinalityType
<1> HIDE DEF readers, writers
<1>5. /\ pipe'.readers = readers /\ pipe'.writers = writers /\ (pipe'.used <=> readers + writers > 0)
      /\ pipe'.count = pipe.count
      /\ writers # 0 => pipe'.read_waiters = pipe.read_waiters
      /\ readers # 0 => pipe'.write_waiters = pipe.write_waiters
  BY <1>0, <1>1 DEF PipeOK
<1>6. EndsCounted'
  <2>1. ends' \in [Proc -> SUBSET {"r", "w"}]
    BY InvParts DEF Parts
  <2>2. (readers + writers > 0) <=> readers # 0 \/ writers # 0
    BY <1>3, <1>4
  <2>3. (readers # 0 <=> Holders("r")' # {}) /\ (writers # 0 <=> Holders("w")' # {})
    BY <1>2, HoldersFinite, FS_EmptySet
  <2>4. (\E p \in Proc : ends'[p] # {}) <=> Holders("r")' # {} \/ Holders("w")' # {}
    BY <2>1 DEF Holders
  <2> QED BY <1>2, <1>5, <2>2, <2>3, <2>4 DEF EndsCounted, Holders
<1>7. TypeOK'
  <2>1. PipeOK(pipe')
    <3>1. /\ pipe'.head = pipe.head /\ pipe'.tail = pipe.tail /\ pipe'.count = pipe.count
          /\ (pipe.head - pipe.tail - pipe.count) % Capacity = 0
      BY <1>0, <1>1 DEF PipeOK
    <3>2. pipe' \in [used : BOOLEAN, readers : 0 .. Cardinality(Proc), writers : 0 .. Cardinality(Proc),
                     head : 0 .. Capacity - 1, tail : 0 .. Capacity - 1, count : 0 .. Capacity,
                     read_waiters : SUBSET Task, write_waiters : SUBSET Task]
      <4> DEFINE used == readers + writers > 0
                 sleepers(n, set) == IF n = 0 THEN {} ELSE set
      <4>1. used \in BOOLEAN
        OBVIOUS
      <4>2. /\ sleepers(writers, pipe.read_waiters) \in SUBSET Task
            /\ sleepers(readers, pipe.write_waiters) \in SUBSET Task
        BY <1>0 DEF PipeOK
      <4>3. pipe' = [pipe EXCEPT !.readers = readers, !.writers = writers, !.used = used,
                                 !.read_waiters = sleepers(writers, @),
                                 !.write_waiters = sleepers(readers, @)]
        BY <1>1
      <4> HIDE DEF used, sleepers
      <4> QED BY <1>0, <1>3, <4>1, <4>2, <4>3 DEF PipeOK
    <3> QED BY <3>1, <3>2 DEF PipeOK
  <2>2. ends' \in [Proc -> SUBSET {"r", "w"}]
    BY InvParts DEF Parts
  <2>3. state' \in [Task -> {"READY", "BLOCKED", "DEAD"}]
    BY <1>1, InvParts DEF Woken, Parts
  <2> QED BY <2>1, <2>2, <2>3, InvParts DEF Parts
<1>8. \A u \in Task : state'[u] = "BLOCKED" => state[u] = "BLOCKED" /\ u \notin wake
  BY <1>1, InvParts DEF Woken, Parts
<1>9. NoLostWake'
  <2> SUFFICES ASSUME NEW u \in Task, state'[u] = "BLOCKED" PROVE Waits(u, pipe)'
    BY InvParts DEF Parts
  <2>1. Waits(u, pipe) /\ state[u] = "BLOCKED" /\ u \notin wake
    BY <1>8, InvParts DEF Parts
  <2>2. call[u].op \in {"read", "write"}
    BY <2>1 DEF BlockedWaits, InCall
  <2>3. CASE call[u].op = "read"
    <3>1. writers # 0
      BY <2>1, <2>3 DEF Waits
    <3>2. /\ pipe'.used /\ pipe'.count = pipe.count /\ pipe'.writers > 0
          /\ pipe'.read_waiters = pipe.read_waiters
      BY <1>3, <1>4, <1>5, <3>1
    <3> QED BY <2>1, <2>3, <3>2 DEF Waits
  <2>4. CASE call[u].op = "write"
    <3>1. readers # 0
      BY <2>1, <2>4 DEF Waits
    <3>2. /\ pipe'.used /\ pipe'.count = pipe.count /\ pipe'.readers > 0
          /\ pipe'.write_waiters = pipe.write_waiters
      BY <1>3, <1>4, <1>5, <3>1
    <3> QED BY <2>1, <2>4, <3>2 DEF Waits
  <2> QED BY <2>2, <2>3, <2>4
<1>10. BlockedWaits' /\ InCall'
  BY <1>8 DEF BlockedWaits, InCall
<1> QED BY <1>6, <1>7, <1>9, <1>10

-----------------------------------------------------------------------------
(* The ring when bytes are taken out of it and put into it.                *)
Taken(p, n) == [p EXCEPT !.tail = Advance(@, n), !.count = @ - n, !.write_waiters = {}]
Put(p, n) == [p EXCEPT !.head = Advance(@, n), !.count = @ + n, !.read_waiters = {}]

LEMMA TakenOK ==
  ASSUME NEW p, PipeOK(p), NEW n \in 1 .. p.count
  PROVE  PipeOK(Taken(p, n))
<1> DEFINE q == Taken(p, n)
<1>1. /\ p.head \in 0 .. Capacity - 1 /\ p.tail \in 0 .. Capacity - 1
      /\ p.count \in 0 .. Capacity /\ (p.head - p.tail - p.count) % Capacity = 0
  BY DEF PipeOK
<1>0. p.tail + n \in Int /\ p.head - p.count + n \in Int
  BY <1>1, CapacityAssumption
<1>2. (p.tail + n) % Capacity \in 0 .. Capacity - 1
  BY <1>0, CapacityAssumption, ModDef
<1>3. q.head = p.head /\ q.tail = (p.tail + n) % Capacity /\ q.count = p.count - n
  BY DEF PipeOK, Taken, Advance
<1>4. ((p.head - p.count + n) - ((p.tail + n) % Capacity)) % Capacity
        = ((p.head - p.count + n) - (p.tail + n)) % Capacity
  BY <1>0, CapacityAssumption, ModOfSum
<1>5. (p.head - p.count + n) - (p.tail + n) = p.head - p.tail - p.count
  BY <1>1, CapacityAssumption
<1>6. q.head - q.tail - q.count = (p.head - p.count + n) - ((p.tail + n) % Capacity)
  BY <1>1, <1>2, <1>3, CapacityAssumption
<1>7. q.count \in 0 .. Capacity
  BY <1>1, <1>3, CapacityAssumption
<1>8. q \in [used : BOOLEAN, readers : 0 .. Cardinality(Proc), writers : 0 .. Cardinality(Proc),
             head : 0 .. Capacity - 1, tail : 0 .. Capacity - 1, count : 0 .. Capacity,
             read_waiters : SUBSET Task, write_waiters : SUBSET Task]
  BY <1>2, <1>3, <1>7 DEF PipeOK, Taken
<1> QED BY <1>1, <1>4, <1>5, <1>6, <1>8 DEF PipeOK

LEMMA PutOK ==
  ASSUME NEW p, PipeOK(p), NEW n \in 1 .. Room(p)
  PROVE  PipeOK(Put(p, n))
<1> DEFINE q == Put(p, n)
<1>1. /\ p.head \in 0 .. Capacity - 1 /\ p.tail \in 0 .. Capacity - 1
      /\ p.count \in 0 .. Capacity /\ (p.head - p.tail - p.count) % Capacity = 0
  BY DEF PipeOK
<1>0. p.head + n \in Int /\ 0 - p.tail - p.count - n \in Int
  BY <1>1, CapacityAssumption DEF Room
<1>2. (p.head + n) % Capacity \in 0 .. Capacity - 1
  BY <1>0, CapacityAssumption, ModDef
<1>3. q.head = (p.head + n) % Capacity /\ q.tail = p.tail /\ q.count = p.count + n
  BY DEF PipeOK, Put, Advance
<1>4. (((p.head + n) % Capacity) + (0 - p.tail - p.count - n)) % Capacity
        = ((p.head + n) + (0 - p.tail - p.count - n)) % Capacity
  BY <1>0, CapacityAssumption, ModOfSum
<1>5. (p.head + n) + (0 - p.tail - p.count - n) = p.head - p.tail - p.count
  BY <1>1, CapacityAssumption
<1>6. q.head - q.tail - q.count = ((p.head + n) % Capacity) + (0 - p.tail - p.count - n)
  BY <1>1, <1>2, <1>3, CapacityAssumption
<1>7. q.count \in 0 .. Capacity
  BY <1>1, <1>3, CapacityAssumption DEF Room
<1>8. q \in [used : BOOLEAN, readers : 0 .. Cardinality(Proc), writers : 0 .. Cardinality(Proc),
             head : 0 .. Capacity - 1, tail : 0 .. Capacity - 1, count : 0 .. Capacity,
             read_waiters : SUBSET Task, write_waiters : SUBSET Task]
  BY <1>2, <1>3, <1>7 DEF PipeOK, Put
<1> QED BY <1>1, <1>4, <1>5, <1>6, <1>8 DEF PipeOK

-----------------------------------------------------------------------------
(* A pass of task t through the loop of its call, which finds the table p. *)
Passes(t, p) ==
  /\ state[t] = "READY" /\ pc[t] \in {"call", "wait"}
  /\ PipeOK(p) /\ p.used = pipe.used /\ p.readers = pipe.readers /\ p.writers = pipe.writers
  /\ \A u \in Task : state[u] = "BLOCKED" => Waits(u, p)
  /\ ends' = ends

(* A pass that leaves the table in order and wakes whom it has to.         *)
LEMMA PassKeepsInv ==
  ASSUME Inv, NEW t \in Task, NEW p, Passes(t, p),
         PipeOK(pipe'), pipe'.used = p.used, pipe'.readers = p.readers, pipe'.writers = p.writers,
         data' \in [0 .. Capacity - 1 -> Byte \cup {Stale}],
         locked' \in BOOLEAN,
         state' \in [Task -> {"READY", "BLOCKED", "DEAD"}],
         NEW place \in {"user", "marked"}, pc' = [pc EXCEPT ![t] = place],
         NEW c, call' = [call EXCEPT ![t] = c],
         c \in [op : {"none", "read", "write"}, count : Nat, done : Nat], c.done \in 0 .. c.count,
         place = "marked" => \/ c.op = "read" /\ c.count \in Reads
                             \/ c.op = "write" /\ c.count \in Writes /\ c.done < c.count,
         \A u \in Task : state'[u] = "BLOCKED" =>
           /\ Waits(u, pipe)'
           /\ IF u = t THEN place = "marked" ELSE state[u] = "BLOCKED"
  PROVE  Inv'
<1> USE DEF Inv
<1>1. EndsCounted'
  BY DEF EndsCounted, Passes
<1>2. TypeOK'
  <2>1. /\ pc \in [Task -> {"user", "call", "marked", "off", "wait"}]
        /\ ends \in [Proc -> SUBSET {"r", "w"}]
        /\ \A u \in Task : call[u].done \in 0 .. call[u].count
    BY InvParts DEF Parts
  <2>2. pc' \in [Task -> {"user", "call", "marked", "off", "wait"}]
    BY <2>1
  <2>3. \A u \in Task : call'[u].done \in 0 .. call'[u].count
    BY <2>1 DEF InCall
  <2>4. ends' \in [Proc -> SUBSET {"r", "w"}]
    BY <2>1 DEF Passes
  <2> QED BY <2>2, <2>3, <2>4, InvParts DEF Parts
<1>3. NoLostWake'
  BY InvParts DEF Parts
<1>4. pc \in [Task -> {"user", "call", "marked", "off", "wait"}]
  BY InvParts DEF Parts
<1>5. BlockedWaits'
  BY <1>4 DEF BlockedWaits
<1>6. InCall'
  BY <1>4 DEF InCall
<1> QED BY <1>1, <1>2, <1>3, <1>5, <1>6

LEMMA ReturnKeepsInv ==
  ASSUME Inv, NEW t \in Task, NEW p, Passes(t, p), NEW code, NEW bytes, Return(t, code, bytes),
         PipeOK(pipe'), pipe'.used = p.used, pipe'.readers = p.readers, pipe'.writers = p.writers,
         data' \in [0 .. Capacity - 1 -> Byte \cup {Stale}],
         state' \in [Task -> {"READY", "BLOCKED", "DEAD"}],
         \A u \in Task : state'[u] = "BLOCKED" =>
           state[u] = "BLOCKED" /\ (Waits(u, p) => Waits(u, pipe'))
  PROVE  Inv'
<1>1. /\ pc' = [pc EXCEPT ![t] = "user"] /\ call' = [call EXCEPT ![t] = NoCall]
      /\ UNCHANGED locked
  BY DEF Return
<1>2. /\ NoCall \in [op : {"none", "read", "write"}, count : Nat, done : Nat]
      /\ NoCall.done \in 0 .. NoCall.count
  BY DEF NoCall
<1>3. ASSUME NEW u \in Task, state'[u] = "BLOCKED"
      PROVE  u # t /\ state[u] = "BLOCKED" /\ Waits(u, pipe)'
  <2>1. state[u] = "BLOCKED" /\ u # t
    BY <1>3 DEF Passes
  <2>2. Waits(u, pipe')
    BY <1>3, <2>1 DEF Passes
  <2>3. call'[u] = call[u]
    BY <1>1, <2>1 DEF Inv, InCall
  <2> QED BY <2>1, <2>2, <2>3 DEF Waits
<1>4. locked' \in BOOLEAN
  BY <1>1, InvParts DEF Inv, Parts
<1> QED BY <1>1, <1>2, <1>3, <1>4, PassKeepsInv

LEMMA WaitKeepsInv ==
  ASSUME Inv, NEW t \in Task, NEW p, Passes(t, p), NEW q, NEW st, Wait(t, q, st),
         PipeOK(q), q.used, q.used = p.used, q.readers = p.readers, q.writers = p.writers,
         data' \in [0 .. Capacity - 1 -> Byte \cup {Stale}],
         st \in [Task -> {"READY", "BLOCKED", "DEAD"}],
         NEW c, call' = [call EXCEPT ![t] = c], c.op = call[t].op,
         c \in [op : {"read", "write"}, count : Nat, done : Nat], c.done \in 0 .. c.count,
         c.op = "read" => c.count \in Reads /\ q.count = 0 /\ q.writers > 0,
         c.op = "write" => c.count \in Writes /\ c.done < c.count /\ q.count = Capacity /\ q.readers > 0,
         \A u \in Task : st[u] = "BLOCKED" => state[u] = "BLOCKED" /\ (Waits(u, p) => Waits(u, q))
  PROVE  Inv'
<1>1. /\ pipe' = IF c.op = "read" THEN [q EXCEPT !.read_waiters = @ \cup {t}]
                                  ELSE [q EXCEPT !.write_waiters = @ \cup {t}]
      /\ state' = [st EXCEPT ![t] = "BLOCKED"]
      /\ pc' = [pc EXCEPT ![t] = "marked"]
      /\ locked' = TRUE
  BY DEF Wait
<1>2. /\ pipe'.used = q.used /\ pipe'.readers = q.readers /\ pipe'.writers = q.writers
      /\ pipe'.head = q.head /\ pipe'.tail = q.tail /\ pipe'.count = q.count
      /\ q.read_waiters \subseteq pipe'.read_waiters /\ q.write_waiters \subseteq pipe'.write_waiters
      /\ c.op = "read" => t \in pipe'.read_waiters
      /\ c.op = "write" => t \in pipe'.write_waiters
  BY <1>1 DEF PipeOK
<1>3. PipeOK(pipe')
  BY <1>1 DEF PipeOK
<1>4. ASSUME NEW u \in Task, state'[u] = "BLOCKED"
      PROVE  /\ Waits(u, pipe)'
             /\ IF u = t THEN TRUE ELSE state[u] = "BLOCKED"
  <2>1. CASE u = t
    <3>1. call'[t] = c
      BY DEF Inv, InCall
    <3> QED BY <1>2, <2>1, <3>1 DEF Waits
  <2>2. CASE u # t
    <3>1. state[u] = "BLOCKED" /\ Waits(u, q)
      BY <1>1, <1>4, <2>2 DEF Passes
    <3>2. call'[u] = call[u]
      BY <2>2 DEF Inv, InCall
    <3> QED BY <1>2, <2>2, <3>1, <3>2 DEF Waits
  <2> QED BY <2>1, <2>2
<1>5. state' \in [Task -> {"READY", "BLOCKED", "DEAD"}]
  BY <1>1
<1> DEFINE place == "marked"
<1>6. place \in {"user", "marked"} /\ pc' = [pc EXCEPT ![t] = place] /\ locked' \in BOOLEAN
  BY <1>1
<1>7. /\ c \in [op : {"none", "read", "write"}, count : Nat, done : Nat]
      /\ \/ c.op = "read" /\ c.count \in Reads
         \/ c.op = "write" /\ c.count \in Writes /\ c.done < c.count
  OBVIOUS
<1>8. ASSUME NEW u \in Task, state'[u] = "BLOCKED"
      PROVE  Waits(u, pipe)' /\ IF u = t THEN place = "marked" ELSE state[u] = "BLOCKED"
  BY <1>4, <1>8
<1>9. pipe'.used = p.used /\ pipe'.readers = p.readers /\ pipe'.writers = p.writers
  BY <1>2
<1> HIDE DEF place
<1> QED BY <1>3, <1>5, <1>6, <1>7, <1>8, <1>9, PassKeepsInv

(* The call t is in.                                                       *)
LEMMA CallOf ==
  ASSUME Inv, NEW t \in Task
  PROVE  /\ call[t] \in [op : {"none", "read", "write"}, count : Nat, done : Nat]
         /\ call[t].done \in 0 .. call[t].count
         /\ call = [call EXCEPT ![t] = call[t]]
         /\ data \in [0 .. Capacity - 1 -> Byte \cup {Stale}]
         /\ state \in [Task -> {"READY", "BLOCKED", "DEAD"}]
<1>1. /\ \A u \in Task : call[u].done \in 0 .. call[u].count
      /\ data \in [0 .. Capacity - 1 -> Byte \cup {Stale}]
      /\ state \in [Task -> {"READY", "BLOCKED", "DEAD"}]
  BY InvParts DEF Inv, Parts
<1> QED BY <1>1 DEF Inv, InCall

(* Once the sleepers of one side are woken and the other side has none,    *)
(* nobody is asleep.                                                       *)
LEMMA AllAwake ==
  ASSUME Inv, NEW t \in Task, NEW p, Passes(t, p),
         NEW S, \/ S = p.read_waiters /\ p.count # Capacity
                \/ S = p.write_waiters /\ p.count # 0
  PROVE  /\ Woken(S) \in [Task -> {"READY", "BLOCKED", "DEAD"}]
         /\ \A u \in Task : Woken(S)[u] # "BLOCKED"
<1>1. ASSUME NEW u \in Task, state[u] = "BLOCKED" PROVE u \in S
  <2>1. Waits(u, p) /\ call[u].op \in {"read", "write"}
    BY <1>1 DEF Inv, Passes, BlockedWaits, InCall
  <2> QED BY <2>1 DEF Waits
<1> QED BY <1>1, CallOf DEF Woken

LEMMA ReadPassStep ==
  ASSUME Inv, NEW t \in Task, NEW p, Passes(t, p), call[t].op = "read", ReadPass(t, p)
  PROVE  Inv'
<1>1. CASE ~Gone(p) /\ p.count = 0 /\ p.writers > 0 /\ Wait(t, p, state) /\ UNCHANGED <<data, call>>
  <2>1. /\ call[t] \in [op : {"read", "write"}, count : Nat, done : Nat] /\ call[t].count \in Reads
        /\ call[t].done \in 0 .. call[t].count
    BY CallOf DEF Inv, InCall, Passes
  <2>2. p.used /\ PipeOK(p)
    BY <1>1 DEF Gone, Passes
  <2>3. /\ data' \in [0 .. Capacity - 1 -> Byte \cup {Stale}]
        /\ state \in [Task -> {"READY", "BLOCKED", "DEAD"}]
        /\ call' = [call EXCEPT ![t] = call[t]]
    BY <1>1, CallOf
  <2> DEFINE c == call[t]
  <2>4. /\ c.op = "read" /\ c.op = call[t].op /\ call' = [call EXCEPT ![t] = c]
        /\ c \in [op : {"read", "write"}, count : Nat, done : Nat] /\ c.count \in Reads
        /\ c.done \in 0 .. c.count
    BY <2>1, <2>3
  <2> HIDE DEF c
  <2> QED BY <1>1, <2>2, <2>3, <2>4, WaitKeepsInv
<1>2. CASE Return(t, 0, <<>>) /\ pipe' = p /\ UNCHANGED <<data, state>>
  BY <1>2, CallOf, ReturnKeepsInv DEF Passes
<1>3. CASE ~Gone(p) /\ p.count > 0 /\ ~(p.count = 0)
  <2> DEFINE n == Least(call[t].count, p.count)
             bytes == [i \in 1 .. n |-> data[(p.tail + i - 1) % Capacity]]
  <2>1. /\ Return(t, n, bytes)
        /\ pipe' = Taken(p, n)
        /\ data' = [i \in 0 .. Capacity - 1 |->
                      IF (i - p.tail) % Capacity < n THEN Stale ELSE data[i]]
        /\ state' = Woken(p.write_waiters)
    BY <1>2, <1>3 DEF ReadPass, Taken
  <2>2. n \in 1 .. p.count
    <3>1. call[t].count \in Nat \ {0}
      BY CountsAssumption DEF Inv, InCall, Passes
    <3> QED BY <1>3, <3>1 DEF Passes, PipeOK, Least
  <2>3. PipeOK(pipe')
    BY <2>1, <2>2, TakenOK DEF Passes
  <2>4. pipe'.used = p.used /\ pipe'.readers = p.readers /\ pipe'.writers = p.writers
    BY <2>1 DEF Passes, PipeOK, Taken
  <2>5. data' \in [0 .. Capacity - 1 -> Byte \cup {Stale}]
    BY <2>1, CallOf
  <2>6. /\ state' \in [Task -> {"READY", "BLOCKED", "DEAD"}]
        /\ \A u \in Task : state'[u] # "BLOCKED"
    BY <1>3, <2>1, AllAwake
  <2> HIDE DEF n, bytes
  <2> QED BY <2>1, <2>3, <2>4, <2>5, <2>6, ReturnKeepsInv
<1>4. p.count \in Nat
  BY CapacityAssumption DEF Passes, PipeOK
<1> QED BY <1>1, <1>2, <1>3, <1>4 DEF ReadPass

LEMMA WritePassStep ==
  ASSUME Inv, NEW t \in Task, NEW p, Passes(t, p), call[t].op = "write", WritePass(t, p)
  PROVE  Inv'
<1> DEFINE done == call[t].done
           n == Least(call[t].count - done, Room(p))
           c == [call[t] EXCEPT !.done = done + n]
<1>1. /\ call[t] \in [op : {"none", "read", "write"}, count : Nat, done : Nat]
      /\ call[t].count \in Writes /\ done < call[t].count /\ done \in Nat
  BY CallOf DEF Inv, InCall, Passes
<1>2. p.count \in 0 .. Capacity /\ PipeOK(p)
  BY DEF Passes, PipeOK
<1>3. n \in 0 .. Room(p) /\ n <= call[t].count - done
  BY <1>1, <1>2, CapacityAssumption DEF Room, Least
<1>4. CASE (Gone(p) \/ p.readers = 0) /\ pipe' = p /\ UNCHANGED <<data, state>>
           /\ Return(t, IF done = 0 THEN -1 ELSE done, <<>>)
  <2> DEFINE code == IF done = 0 THEN -1 ELSE done
  <2>1. Return(t, code, <<>>)
    BY <1>4
  <2> HIDE DEF code
  <2> QED BY <1>2, <1>4, <2>1, CallOf, ReturnKeepsInv
<1>5. CASE ~Gone(p) /\ p.readers > 0 /\ n = 0 /\ Wait(t, p, state) /\ UNCHANGED <<data, call>>
  <2>1. p.count = Capacity
    BY <1>1, <1>2, <1>5, CapacityAssumption DEF Least, Room
  <2> DEFINE d == call[t]
  <2>2. /\ d.op = "write" /\ d.op = call[t].op /\ call' = [call EXCEPT ![t] = d]
        /\ d \in [op : {"read", "write"}, count : Nat, done : Nat] /\ d.count \in Writes
        /\ d.done < d.count /\ d.done \in 0 .. d.count
    BY <1>1, <1>5, CallOf
  <2>3. /\ data' \in [0 .. Capacity - 1 -> Byte \cup {Stale}]
        /\ state \in [Task -> {"READY", "BLOCKED", "DEAD"}]
        /\ p.used
    BY <1>5, CallOf DEF Gone
  <2> HIDE DEF d
  <2> QED BY <1>2, <1>5, <2>1, <2>2, <2>3, WaitKeepsInv
<1>6. CASE ~Gone(p) /\ p.readers > 0 /\ n > 0 /\ WritePass(t, p)
  <2>1. /\ data' = [i \in 0 .. Capacity - 1 |->
                      LET k == (i - p.head) % Capacity
                      IN IF k < n THEN Payload[call[t].count][done + k + 1] ELSE data[i]]
        /\ \/ /\ Return(t, done + n, <<>>)
              /\ pipe' = Put(p, n)
              /\ state' = Woken(p.read_waiters)
           \/ /\ done + n < call[t].count
              /\ Wait(t, Put(p, n), Woken(p.read_waiters))
              /\ call' = [call EXCEPT ![t].done = done + n]
    <3>1. ~(Gone(p) \/ p.readers = 0) /\ ~(n = 0)
      BY <1>6
    <3> DEFINE next == [p EXCEPT !.head = Advance(@, n), !.count = @ + n, !.read_waiters = {}]
    <3>2. /\ data' = [i \in 0 .. Capacity - 1 |->
                        LET k == (i - p.head) % Capacity
                        IN IF k < n THEN Payload[call[t].count][done + k + 1] ELSE data[i]]
          /\ \/ /\ Return(t, done + n, <<>>)
                /\ pipe' = next
                /\ state' = Woken(p.read_waiters)
             \/ /\ done + n < call[t].count
                /\ Wait(t, next, Woken(p.read_waiters))
                /\ call' = [call EXCEPT ![t].done = done + n]
      BY <1>6, <3>1, Zenon DEF WritePass
    <3>3. next = Put(p, n)
      BY DEF Put
    <3> HIDE DEF next
    <3> QED BY <3>2, <3>3, Zenon
  <2>2. n \in 1 .. Room(p)
    BY <1>2, <1>3, <1>6, CapacityAssumption DEF Room
  <2>3. PipeOK(Put(p, n))
    BY <1>2, <2>2, PutOK
  <2>4. /\ Put(p, n).used = p.used /\ Put(p, n).readers = p.readers /\ Put(p, n).writers = p.writers
        /\ Put(p, n).count = p.count + n /\ p.used
    BY <1>2, <1>6 DEF Put, PipeOK, Gone
  <2>5. data' \in [0 .. Capacity - 1 -> Byte \cup {Stale}]
    <3>1. ASSUME NEW i \in 0 .. Capacity - 1
          PROVE  data'[i] \in Byte \cup {Stale}
      <4> DEFINE k == (i - p.head) % Capacity
      <4>1. i - p.head \in Int
        BY <1>2, CapacityAssumption DEF PipeOK
      <4>2. k \in 0 .. Capacity - 1
        BY <4>1, CapacityAssumption, ModDef
      <4>3. data'[i] = IF k < n THEN Payload[call[t].count][done + k + 1] ELSE data[i]
        BY <2>1
      <4> HIDE DEF k
      <4>4. CASE k < n
        <5>1. /\ Payload[call[t].count] \in Seq(Byte)
              /\ Len(Payload[call[t].count]) = call[t].count
          BY <1>1, PayloadAssumption
        <5>2. done + k + 1 \in 1 .. call[t].count
          BY <1>1, <1>2, <1>3, <4>2, <4>4, CapacityAssumption DEF Room
        <5>3. Payload[call[t].count][done + k + 1] \in Byte
          BY <5>1, <5>2
        <5> QED BY <4>3, <4>4, <5>3
      <4> QED BY <4>3, <4>4, CallOf
    <3>2. data' = [i \in 0 .. Capacity - 1 |-> data'[i]]
      BY <2>1
    <3> QED BY <3>1, <3>2
  <2>6. /\ Woken(p.read_waiters) \in [Task -> {"READY", "BLOCKED", "DEAD"}]
        /\ \A u \in Task : Woken(p.read_waiters)[u] # "BLOCKED"
    <3>1. p.count # Capacity
      BY <1>2, <2>2, CapacityAssumption DEF Room
    <3> DEFINE S == p.read_waiters
    <3>2. S = p.read_waiters /\ p.count # Capacity
      BY <3>1
    <3> HIDE DEF S
    <3>3. Woken(S) \in [Task -> {"READY", "BLOCKED", "DEAD"}] /\ \A u \in Task : Woken(S)[u] # "BLOCKED"
      BY <3>2, AllAwake
    <3> QED BY <3>3 DEF S
  <2> DEFINE code == done + n   q == Put(p, n)   st == Woken(p.read_waiters)
  <2>7. CASE Return(t, code, <<>>) /\ pipe' = q /\ state' = st
    <3> HIDE DEF code, q, st, n
    <3>1. state' \in [Task -> {"READY", "BLOCKED", "DEAD"}] /\ \A u \in Task : state'[u] # "BLOCKED"
      BY <2>6, <2>7 DEF st
    <3>2. PipeOK(pipe') /\ pipe'.used = p.used /\ pipe'.readers = p.readers /\ pipe'.writers = p.writers
      BY <2>3, <2>4, <2>7 DEF q
    <3> QED BY <2>5, <2>7, <3>1, <3>2, ReturnKeepsInv
  <2>8. CASE done + n < call[t].count /\ Wait(t, q, st) /\ call' = [call EXCEPT ![t].done = done + n]
    <3>1. p.count + n = Capacity
      BY <1>1, <1>2, <2>8, CapacityAssumption DEF Least, Room
    <3>2. /\ c.op = "write" /\ c.op = call[t].op /\ call' = [call EXCEPT ![t] = c]
          /\ c \in [op : {"read", "write"}, count : Nat, done : Nat] /\ c.count \in Writes
          /\ c.done < c.count /\ c.done \in 0 .. c.count
      <4>1. done + n \in Nat
        BY <1>1, <1>2, <1>3, CapacityAssumption DEF Room
      <4> HIDE DEF n
      <4> QED BY <1>1, <2>8, <4>1 DEF Inv, InCall
    <3>3. /\ PipeOK(q) /\ q.used /\ q.used = p.used /\ q.readers = p.readers /\ q.writers = p.writers
          /\ q.count = Capacity /\ q.readers > 0
      BY <1>6, <2>3, <2>4, <3>1
    <3>4. /\ st \in [Task -> {"READY", "BLOCKED", "DEAD"}]
          /\ \A u \in Task : st[u] = "BLOCKED" => state[u] = "BLOCKED" /\ (Waits(u, p) => Waits(u, q))
          /\ Wait(t, q, st)
      BY <2>6, <2>8
    <3> HIDE DEF q, st, c
    <3> QED BY <2>5, <3>2, <3>3, <3>4, WaitKeepsInv
  <2> QED BY <2>1, <2>7, <2>8
<1>7. ~(n > 0) => n = 0
  BY <1>2, <1>3, CapacityAssumption DEF Room
<1> QED BY <1>4, <1>5, <1>6, <1>7 DEF WritePass

-----------------------------------------------------------------------------
(* The steps.                                                              *)
LEMMA CallStep ==
  ASSUME Inv, NEW t \in Task, NEW op, NEW n,
         (op = "read" /\ n \in Reads) \/ (op = "write" /\ n \in Writes),
         Call(t, op, n)
  PROVE  Inv'
<1> USE DEF Inv
<1>1. /\ pc' = [pc EXCEPT ![t] = "call"]
      /\ call' = [call EXCEPT ![t] = [op |-> op, count |-> n, done |-> 0]]
      /\ UNCHANGED <<pipe, data, ends, locked, state>>
      /\ state[t] # "BLOCKED"
  BY DEF Call, BlockedWaits
<1>2. n \in Nat /\ 0 < n
  BY CountsAssumption
<1>3. InCall'
  BY <1>1, <1>2, InvParts DEF InCall, Parts
<1>4. TypeOK'
  <2>1. \A u \in Task : call'[u].done \in 0 .. call'[u].count
    BY <1>1, <1>2, CallOf DEF InCall
  <2>2. pc' \in [Task -> {"user", "call", "marked", "off", "wait"}]
    BY <1>1, InvParts DEF Parts
  <2> QED BY <1>1, <2>1, <2>2, InvParts DEF Parts, PipeOK
<1>5. NoLostWake'
  BY <1>1 DEF NoLostWake, InCall
<1>6. EndsCounted' /\ BlockedWaits'
  BY <1>1 DEF EndsCounted, BlockedWaits
<1> QED BY <1>3, <1>4, <1>5, <1>6

LEMMA PipeWaitStep ==
  ASSUME Inv, NEW t \in Task, Unlock(t) \/ Preempt(t)
  PROVE  Inv'
<1> USE DEF Inv
<1>1. /\ UNCHANGED <<pipe, data, ends, state, call>>
      /\ pc[t] \in {"marked", "off"}
      /\ locked' \in BOOLEAN
      /\ pc' = [pc EXCEPT ![t] = "wait"] \/ pc' = [pc EXCEPT ![t] = "off"]
  BY InvParts DEF Unlock, Preempt, Parts
<1>2. pc' \in [Task -> {"user", "call", "marked", "off", "wait"}]
  BY <1>1, InvParts DEF Parts
<1>3. TypeOK'
  BY <1>1, <1>2, InvParts DEF Parts, PipeOK
<1>4. BlockedWaits' /\ InCall'
  BY <1>1, <1>2, InvParts DEF BlockedWaits, InCall, Parts
<1>5. NoLostWake' /\ EndsCounted'
  BY <1>1 DEF NoLostWake, EndsCounted
<1> QED BY <1>3, <1>4, <1>5

LEMMA EnterStep ==
  ASSUME Inv, NEW t \in Task, Enter(t)
  PROVE  Inv'
<1>1. /\ Runs(t) /\ pc[t] = "call" /\ ends' = ends
      /\ \/ Return(t, -1, <<>>) /\ UNCHANGED <<pipe, data, state>>
         \/ call[t].op = "read" /\ ReadPass(t, pipe)
         \/ call[t].op = "write" /\ WritePass(t, pipe)
  BY DEF Enter
<1>2. Passes(t, pipe)
  BY <1>1, ReadyIsAwake, InvParts DEF Passes, Parts, Inv
<1>3. CASE Return(t, -1, <<>>) /\ UNCHANGED <<pipe, data, state>>
  BY <1>2, <1>3, CallOf, ReturnKeepsInv DEF Passes
<1> QED BY <1>1, <1>2, <1>3, ReadPassStep, WritePassStep

(* Who is awake can be taken off the lists of those who are not.           *)
LEMMA RelockStep ==
  ASSUME Inv, NEW t \in Task, Relock(t)
  PROVE  Inv'
<1>1. Runs(t) /\ pc[t] = "wait" /\ ends' = ends
  BY DEF Relock
<1>2. state[t] = "READY"
  BY <1>1, ReadyIsAwake
<1>3. PipeOK(pipe) /\ \A u \in Task : state[u] = "BLOCKED" => Waits(u, pipe)
  BY InvParts DEF Inv, Parts
<1>4. ASSUME call[t].op = "read", ReadPass(t, [pipe EXCEPT !.read_waiters = @ \ {t}])
      PROVE  Inv'
  <2> DEFINE p == [pipe EXCEPT !.read_waiters = @ \ {t}]
  <2>1. PipeOK(p)
    BY <1>3 DEF PipeOK
  <2>2. /\ p.used = pipe.used /\ p.readers = pipe.readers /\ p.writers = pipe.writers
        /\ p.count = pipe.count /\ p.read_waiters = pipe.read_waiters \ {t}
        /\ p.write_waiters = pipe.write_waiters
    BY <1>3 DEF PipeOK
  <2>3. ReadPass(t, p)
    BY <1>4
  <2> HIDE DEF p
  <2>4. \A u \in Task : state[u] = "BLOCKED" => Waits(u, p)
    BY <1>2, <1>3, <2>2 DEF Waits
  <2>5. Passes(t, p)
    BY <1>1, <1>2, <2>1, <2>2, <2>4 DEF Passes
  <2> QED BY <1>4, <2>3, <2>5, ReadPassStep
<1>5. ASSUME call[t].op = "write", WritePass(t, [pipe EXCEPT !.write_waiters = @ \ {t}])
      PROVE  Inv'
  <2> DEFINE p == [pipe EXCEPT !.write_waiters = @ \ {t}]
  <2>1. PipeOK(p)
    BY <1>3 DEF PipeOK
  <2>2. /\ p.used = pipe.used /\ p.readers = pipe.readers /\ p.writers = pipe.writers
        /\ p.count = pipe.count /\ p.read_waiters = pipe.read_waiters
        /\ p.write_waiters = pipe.write_waiters \ {t}
    BY <1>3 DEF PipeOK
  <2>3. WritePass(t, p)
    BY <1>5
  <2> HIDE DEF p
  <2>4. \A u \in Task : state[u] = "BLOCKED" => Waits(u, p)
    BY <1>2, <1>3, <2>2 DEF Waits
  <2>5. Passes(t, p)
    BY <1>1, <1>2, <2>1, <2>2, <2>4 DEF Passes
  <2> QED BY <1>5, <2>3, <2>5, WritePassStep
<1> QED BY <1>4, <1>5 DEF Relock

LEMMA DieStep ==
  ASSUME Inv, NEW p \in Proc, Die(p)
  PROVE  Inv'
<1> USE DEF Inv
<1>1. /\ state' = [t \in Task |-> IF t \in Members(p) THEN "DEAD" ELSE state[t]]
      /\ pc' = [t \in Task |-> IF t \in Members(p) THEN "user" ELSE pc[t]]
      /\ call' = [t \in Task |-> IF t \in Members(p) THEN NoCall ELSE call[t]]
      /\ UNCHANGED <<pipe, data, ends, locked>>
  BY DEF Die
<1>2. InCall'
  <2>1. NoCall \in [op : {"none", "read", "write"}, count : Nat, done : Nat]
    BY DEF NoCall
  <2>2. call' \in [Task -> [op : {"none", "read", "write"}, count : Nat, done : Nat]]
    BY <1>1, <2>1 DEF InCall
  <2> QED BY <1>1, <2>2 DEF InCall
<1>3. TypeOK'
  <2>1. \A t \in Task : call'[t].done \in 0 .. call'[t].count
    BY <1>1, CallOf DEF NoCall
  <2>2. /\ state' \in [Task -> {"READY", "BLOCKED", "DEAD"}]
        /\ pc' \in [Task -> {"user", "call", "marked", "off", "wait"}]
    BY <1>1, InvParts DEF Parts
  <2> QED BY <1>1, <2>1, <2>2, InvParts DEF Parts, PipeOK
<1>4. NoLostWake' /\ BlockedWaits' /\ EndsCounted'
  BY <1>1 DEF NoLostWake, BlockedWaits, EndsCounted
<1> QED BY <1>2, <1>3, <1>4

(* A process gets the ends in S: each adds one to its count.               *)
LEMMA SpawnStep ==
  ASSUME Inv, NEW p \in Proc, NEW q \in Proc, Spawn(p, q)
  PROVE  Inv'
<1> USE DEF Inv
<1>1. PICK S \in SUBSET ends[q] :
        /\ ends' = [ends EXCEPT ![p] = S]
        /\ pipe' = [pipe EXCEPT !.readers = @ + Cardinality(S \cap {"r"}),
                                !.writers = @ + Cardinality(S \cap {"w"})]
  BY DEF Spawn
<1>2. /\ state' = [t \in Task |-> IF t \in Members(p) THEN "READY" ELSE state[t]]
      /\ UNCHANGED <<data, locked, pc, call>>
      /\ ends[p] = {}
  BY DEF Spawn
<1>3. PipeOK(pipe) /\ ends \in [Proc -> SUBSET {"r", "w"}]
  BY InvParts DEF Parts
<1>4. S \subseteq {"r", "w"} /\ ends' \in [Proc -> SUBSET {"r", "w"}]
  BY <1>1, <1>3
<1>5. ASSUME NEW e \in {"r", "w"}
      PROVE  /\ Cardinality(S \cap {e}) \in Nat
             /\ Cardinality(Holders(e)') = Cardinality(Holders(e)) + Cardinality(S \cap {e})
  <2>1. CASE e \in S
    <3>1. S \cap {e} = {e} /\ Cardinality({e}) = 1
      BY <2>1, FS_Singleton
    <3>2. Holders(e)' = Holders(e) \cup {p} /\ p \notin Holders(e)
      BY <1>1, <1>2, <1>3, <2>1 DEF Holders
    <3>3. Cardinality(Holders(e) \cup {p}) = Cardinality(Holders(e)) + 1
      BY <3>2, HoldersFinite, FS_AddElement
    <3> QED BY <3>1, <3>2, <3>3
  <2>2. CASE e \notin S
    <3>1. S \cap {e} = {} /\ Cardinality({}) = 0
      BY <2>2, FS_EmptySet
    <3>2. Holders(e)' = Holders(e)
      BY <1>1, <1>2, <1>3, <2>2 DEF Holders
    <3>3. Cardinality(Holders(e)) \in Nat
      BY HoldersFinite
    <3> QED BY <3>1, <3>2, <3>3
  <2> QED BY <2>1, <2>2
<1>6. /\ pipe'.readers = Cardinality(Holders("r")') /\ pipe'.writers = Cardinality(Holders("w")')
  <2>1. pipe.readers = Cardinality(Holders("r")) /\ pipe.writers = Cardinality(Holders("w"))
    BY DEF EndsCounted, Holders
  <2>2. /\ pipe'.readers = pipe.readers + Cardinality(S \cap {"r"})
        /\ pipe'.writers = pipe.writers + Cardinality(S \cap {"w"})
    BY <1>1, <1>3 DEF PipeOK
  <2> QED BY <1>5, <2>1, <2>2
<1>7. /\ pipe'.used = pipe.used /\ pipe'.count = pipe.count
      /\ pipe'.read_waiters = pipe.read_waiters /\ pipe'.write_waiters = pipe.write_waiters
      /\ pipe'.readers >= pipe.readers /\ pipe'.writers >= pipe.writers
      /\ pipe.readers \in Nat /\ pipe.writers \in Nat
      /\ pipe'.readers \in Nat /\ pipe'.writers \in Nat
  <2>1. pipe.readers \in Nat /\ pipe.writers \in Nat
    BY <1>3, ProcAssumption, FS_CardinalityType DEF PipeOK
  <2> QED BY <1>1, <1>3, <1>5, <2>1 DEF PipeOK
<1>8. EndsCounted'
  <2>1. (\E r \in Proc : ends'[r] # {}) <=> (\E r \in Proc : ends[r] # {})
    BY <1>1, <1>2, <1>3
  <2> QED BY <1>6, <1>7, <2>1 DEF EndsCounted, Holders
<1>9. TypeOK'
  <2>1. pipe'.readers \in 0 .. Cardinality(Proc) /\ pipe'.writers \in 0 .. Cardinality(Proc)
    BY <1>6, HoldersFinite
  <2>2. pipe' = [pipe EXCEPT !.readers = pipe'.readers, !.writers = pipe'.writers]
    BY <1>1, <1>3 DEF PipeOK
  <2>3. pipe'.head = pipe.head /\ pipe'.tail = pipe.tail
    BY <2>2, <1>3 DEF PipeOK
  <2>4. PipeOK(pipe')
    BY <1>3, <1>7, <2>1, <2>2, <2>3 DEF PipeOK
  <2>5. state' \in [Task -> {"READY", "BLOCKED", "DEAD"}]
    BY <1>2, CallOf
  <2> QED BY <1>2, <1>4, <2>4, <2>5, InvParts DEF Parts
<1>10. ASSUME NEW u \in Task, state'[u] = "BLOCKED"
       PROVE  Waits(u, pipe)' /\ state[u] = "BLOCKED"
  <2>1. state[u] = "BLOCKED" /\ Waits(u, pipe)
    BY <1>2, <1>10, InvParts DEF Parts
  <2> QED BY <1>2, <1>7, <2>1 DEF Waits
<1>11. NoLostWake'
  BY <1>10, InvParts DEF Parts
<1>12. BlockedWaits' /\ InCall'
  BY <1>2, <1>10 DEF BlockedWaits, InCall
<1> QED BY <1>8, <1>9, <1>11, <1>12

LEMMA InvNext == Inv /\ [Next]_vars => Inv'
<1> SUFFICES ASSUME Inv, [Next]_vars PROVE Inv'
  OBVIOUS
<1>1. CASE UNCHANGED vars
  BY <1>1 DEF vars, Inv, TypeOK, EndsCounted, NoLostWake, BlockedWaits, InCall
<1>2. ASSUME NEW t \in Task, Open(t) \/ Enter(t) \/ Unlock(t) \/ Preempt(t) \/ Relock(t)
      PROVE  Inv'
  BY <1>2, OpenStep, EnterStep, PipeWaitStep, RelockStep
<1>3. ASSUME NEW t \in Task, NEW e \in {"r", "w"}, Close(t, e)
      PROVE  Inv'
  <2>1. ProcOf[t] \in Proc /\ {e} \in SUBSET {"r", "w"} /\ {e} # {}
    BY ProcOfAssumption
  <2> QED BY <1>3, <2>1, CloseStep DEF Close
<1>4. ASSUME NEW t \in Task, \/ \E n \in Reads : Call(t, "read", n)
                             \/ \E n \in Writes : Call(t, "write", n)
      PROVE  Inv'
  BY <1>4, CallStep
<1>5. ASSUME NEW p \in Proc, Die(p) \/ \E q \in Proc : Spawn(p, q)
      PROVE  Inv'
  BY <1>5, DieStep, SpawnStep
<1>6. ASSUME NEW p \in Proc, Reap(p)
      PROVE  Inv'
  <2>1. ends[p] \in SUBSET {"r", "w"} /\ ends \in [Proc -> SUBSET {"r", "w"}]
    BY InvParts DEF Inv, Parts
  <2>2. ends' = [ends EXCEPT ![p] = @ \ ends[p]]
    BY <1>6, <2>1 DEF Reap
  <2> QED BY <1>6, <2>1, <2>2, CloseStep DEF Reap
<1> QED BY <1>1, <1>2, <1>3, <1>4, <1>5, <1>6 DEF Next

(* For any tasks and processes, ring and counts, and with interruptions    *)
(* of pipe_wait: the counts of ends are the descriptors there are, and     *)
(* nobody sleeps on a pipe that is ready for him.                          *)
THEOREM PipeSafe == Spec => [](TypeOK /\ EndsCounted /\ NoLostWake)
<1>1. Inv => TypeOK /\ EndsCounted /\ NoLostWake
  BY DEF Inv
<1> QED BY <1>1, InvInit, InvNext, PTL DEF Spec

-----------------------------------------------------------------------------
(***************************************************************************)
(* The pipe implements the channel.                                        *)
(***************************************************************************)

(* A call that has not begun, and every read, has no bytes accepted.       *)
NothingDone ==
  \A t \in Task : pc[t] \in {"user", "call"} \/ call[t].op = "read" => call[t].done = 0

LEMMA NothingDoneInit == Init => NothingDone
  BY DEF Init, NothingDone, NoCall

LEMMA NothingDoneReturn ==
  ASSUME Inv, NothingDone, NEW t \in Task, NEW code, NEW bytes, Return(t, code, bytes)
  PROVE  NothingDone'
  BY DEF NothingDone, Return, Inv, InCall, NoCall

LEMMA NothingDoneWait ==
  ASSUME Inv, NothingDone, NEW t \in Task, NEW q, NEW st, Wait(t, q, st),
         UNCHANGED call \/ (call[t].op = "write" /\ \E d : call' = [call EXCEPT ![t].done = d])
  PROVE  NothingDone'
<1>1. pc \in [Task -> {"user", "call", "marked", "off", "wait"}]
  BY InvParts DEF Inv, Parts
<1>2. pc' = [pc EXCEPT ![t] = "marked"]
  BY DEF Wait
<1>3. CASE UNCHANGED call
  <2>1. call[t].op = "read" => call[t].done = 0
    BY DEF NothingDone
  <2> QED BY <1>1, <1>2, <1>3, <2>1 DEF NothingDone
<1>4. ASSUME call[t].op = "write", NEW d, call' = [call EXCEPT ![t].done = d]
      PROVE  NothingDone'
  BY <1>1, <1>2, <1>4 DEF NothingDone, Inv, InCall
<1> QED BY <1>3, <1>4

LEMMA NothingDoneNext == Inv /\ NothingDone /\ [Next]_vars => NothingDone'
<1> SUFFICES ASSUME Inv, NothingDone, [Next]_vars PROVE NothingDone'
  OBVIOUS
<1>0. pc \in [Task -> {"user", "call", "marked", "off", "wait"}]
  BY InvParts DEF Inv, Parts
<1>1. CASE UNCHANGED <<pc, call>>
  BY <1>1 DEF NothingDone
<1>2. ASSUME NEW t \in Task, Enter(t) \/ Relock(t) PROVE NothingDone'
  <2>1. ASSUME NEW p, ReadPass(t, p) PROVE NothingDone'
    BY <2>1, NothingDoneReturn, NothingDoneWait DEF ReadPass
  <2>2. ASSUME NEW p, WritePass(t, p), call[t].op = "write" PROVE NothingDone'
    BY <2>2, NothingDoneReturn, NothingDoneWait DEF WritePass
  <2> QED BY <1>2, <2>1, <2>2, NothingDoneReturn DEF Enter, Relock
<1>3. ASSUME NEW t \in Task, Unlock(t) \/ Preempt(t) PROVE NothingDone'
  BY <1>0, <1>3 DEF Unlock, Preempt, NothingDone
<1>4. ASSUME NEW t \in Task, NEW op, NEW n, Call(t, op, n) PROVE NothingDone'
  BY <1>0, <1>4 DEF Call, NothingDone, Inv, InCall
<1>5. ASSUME NEW p \in Proc, Die(p) PROVE NothingDone'
  BY <1>5 DEF Die, NothingDone, NoCall
<1> QED BY <1>1, <1>2, <1>3, <1>4, <1>5 DEF Next, vars, Open, Close, Reap, Spawn

-----------------------------------------------------------------------------
(* Where a byte is: the i-th that is left when n are taken, and the i-th   *)
(* of the old and new ones when some are put behind count others.          *)
AfterTaking(m, tail, n, i) ==
  /\ (((tail + n) % m) + i - 1) % m = (tail + (n + i) - 1) % m
  /\ (tail + (n + i) - 1) % m \in 0 .. m - 1
  /\ (((tail + (n + i) - 1) % m) - tail) % m = n + i - 1

AfterPutting(m, tail, head, count, i) ==
  /\ (tail + i - 1) % m \in 0 .. m - 1
  /\ (((tail + i - 1) % m) - head) % m = IF i <= count THEN m + i - 1 - count ELSE i - 1 - count

LEMMA TakenIndex ==
  ASSUME NEW m \in Nat \ {0}, NEW tail \in Int, NEW n \in Nat, NEW count \in 0 .. m,
         NEW i \in 1 .. count - n
  PROVE  AfterTaking(m, tail, n, i)
<1> DEFINE a == tail + n   b == i - 1   c == tail + (n + i) - 1   d == 0 - tail   k == n + i - 1
           h == a % m   j == c % m   x == h + i - 1   y == j - tail
<1>1. /\ a \in Int /\ b \in Int /\ c \in Int /\ d \in Int /\ k \in 0 .. m - 1 /\ k \in Int
      /\ c = a + b /\ k = c + d
  OBVIOUS
<1>2. h \in 0 .. m - 1 /\ j \in 0 .. m - 1
  <2> HIDE DEF a, b, c, d, k
  <2> QED BY <1>1, ModDef
<1>3. h \in Int /\ j \in Int
  <2> HIDE DEF h, j
  <2> QED BY <1>2
<1>4. x = h + b /\ y = j + d
  <2> HIDE DEF h, j
  <2> QED BY <1>3
<1>5. x % m = c % m /\ y % m = k % m /\ k % m = k
  <2>1. h = a % m /\ j = c % m
    OBVIOUS
  <2> HIDE DEF a, b, c, d, k, h, j, x, y
  <2>2. x % m = c % m
    <3>1. ((a % m) + b) % m = (a + b) % m
      BY <1>1, ModOfSum, Zenon
    <3> QED BY <1>1, <1>4, <2>1, <3>1
  <2>3. y % m = k % m
    <3>1. ((c % m) + d) % m = (c + d) % m
      BY <1>1, ModOfSum, Zenon
    <3> QED BY <1>1, <1>4, <2>1, <3>1
  <2>4. k % m = k
    BY <1>1, ModSmall
  <2> QED BY <2>2, <2>3, <2>4
<1> QED BY <1>2, <1>5 DEF AfterTaking

LEMMA PutIndex ==
  ASSUME NEW m \in Nat \ {0}, NEW tail \in Int, NEW head \in Int, NEW count \in 0 .. m,
         (head - tail - count) % m = 0, NEW i \in 1 .. m
  PROVE  AfterPutting(m, tail, head, count, i)
<1> DEFINE c == tail + i - 1   d == 0 - head   x == c + d   y == i - 1 - count
           j == c % m   v == j - head   w == m + i - 1 - count
<1>1. /\ c \in Int /\ d \in Int /\ x \in Int /\ y \in Int
      /\ y - x = head - tail - count /\ x = c + d
  OBVIOUS
<1>2. j \in 0 .. m - 1
  <2> HIDE DEF c, d, x, y
  <2> QED BY <1>1, ModDef
<1>3. v = j + d
  <2> HIDE DEF j
  <2> QED BY <1>2
<1>4. v % m = x % m
  <2>1. j = c % m
    OBVIOUS
  <2> HIDE DEF c, d, x, y, j, v
  <2>2. ((c % m) + d) % m = (c + d) % m
    BY <1>1, ModOfSum, Zenon
  <2> QED BY <1>1, <1>3, <2>1, <2>2
<1>5. y % m = x % m
  <2>1. (y - x) % m = 0
    BY <1>1
  <2> HIDE DEF x, y
  <2> QED BY <1>1, <2>1, ModCongruent
<1>6. i <= count => y % m = w
  <2> SUFFICES ASSUME i <= count PROVE y % m = w
    OBVIOUS
  <2>1. w \in 0 .. m - 1 /\ w \in Int /\ w = y + m * 1
    OBVIOUS
  <2> HIDE DEF x, y, w
  <2>0. 1 \in Int
    OBVIOUS
  <2>2. (y + m * 1) % m = y % m
    BY <1>1, <2>0, ModPlusMultiple, Zenon
  <2>3. w % m = w
    BY <2>1, ModSmall
  <2> QED BY <2>1, <2>2, <2>3
<1>7. ~(i <= count) => y % m = y
  <2> SUFFICES ASSUME ~(i <= count) PROVE y % m = y
    OBVIOUS
  <2>1. y \in 0 .. m - 1
    OBVIOUS
  <2> HIDE DEF y
  <2> QED BY <2>1, ModSmall
<1>8. v % m = IF i <= count THEN w ELSE y
  <2> HIDE DEF v, w, x, y
  <2> QED BY <1>4, <1>5, <1>6, <1>7
<1> QED BY <1>2, <1>8 DEF AfterPutting

-----------------------------------------------------------------------------
(* What is in the ring, of a table p with the bytes d.                     *)
Cell == Byte \cup {Stale}
Ring(p, d) == IF p.used THEN [i \in 1 .. p.count |-> d[(p.tail + i - 1) % Capacity]] ELSE <<>>

LEMMA RingIs ==
  ASSUME NEW p, PipeOK(p), NEW d \in [0 .. Capacity - 1 -> Cell]
  PROVE  /\ Ring(p, d) \in Seq(Cell)
         /\ p.used => /\ Len(Ring(p, d)) = p.count
                      /\ \A i \in 1 .. p.count : Ring(p, d)[i] = d[(p.tail + i - 1) % Capacity]
<1>1. p.tail \in 0 .. Capacity - 1 /\ p.count \in 0 .. Capacity
  BY DEF PipeOK
<1>2. CASE ~p.used
  BY <1>2 DEF Ring
<1>3. CASE p.used
  <2>1. Ring(p, d) = [i \in 1 .. p.count |-> d[(p.tail + i - 1) % Capacity]]
    BY <1>3 DEF Ring
  <2>2. \A i \in 1 .. p.count : d[(p.tail + i - 1) % Capacity] \in Cell
    <3> TAKE i \in 1 .. p.count
    <3>1. p.tail + i - 1 \in Int
      BY <1>1, CapacityAssumption
    <3>2. (p.tail + i - 1) % Capacity \in 0 .. Capacity - 1
      BY <3>1, CapacityAssumption, ModDef
    <3> QED BY <3>2
  <2>3. p.count \in Nat
    BY <1>1, CapacityAssumption
  <2>4. Ring(p, d) \in [1 .. p.count -> Cell]
    BY <2>1, <2>2
  <2>5. Ring(p, d) \in Seq(Cell) /\ Len(Ring(p, d)) = p.count
    BY <2>3, <2>4
  <2> QED BY <2>1, <2>5
<1> QED BY <1>2, <1>3

(* The n first bytes are taken out, and their cells are not read again.    *)
Cleared(p, d, n) == [i \in 0 .. Capacity - 1 |-> IF (i - p.tail) % Capacity < n THEN Stale ELSE d[i]]

Takes(p, d, n, e) ==
  /\ n <= Len(Ring(p, d))
  /\ Ring(Taken(p, n), e) = SubSeq(Ring(p, d), n + 1, Len(Ring(p, d)))
  /\ [i \in 1 .. n |-> d[(p.tail + i - 1) % Capacity]] = SubSeq(Ring(p, d), 1, n)

LEMMA RingTaken ==
  ASSUME NEW p, PipeOK(p), p.used, NEW d \in [0 .. Capacity - 1 -> Cell], NEW n \in 1 .. p.count,
         NEW e, e = Cleared(p, d, n)
  PROVE  Takes(p, d, n, e)
<1> DEFINE q == Taken(p, n)   s == Ring(p, d)
<1>1. /\ p.tail \in 0 .. Capacity - 1 /\ p.count \in 0 .. Capacity
      /\ p.tail \in Int /\ p.count \in Nat /\ n \in Nat
  BY CapacityAssumption DEF PipeOK
<1>2. PipeOK(q) /\ q.used /\ q.tail = (p.tail + n) % Capacity /\ q.count = p.count - n
  BY TakenOK DEF PipeOK, Taken, Advance
<1>0. e = [i \in 0 .. Capacity - 1 |-> IF (i - p.tail) % Capacity < n THEN Stale ELSE d[i]]
  BY DEF Cleared
<1>3. e \in [0 .. Capacity - 1 -> Cell]
  BY <1>0 DEF Cell
<1>4. /\ s \in Seq(Cell) /\ Len(s) = p.count
      /\ \A i \in 1 .. p.count : s[i] = d[(p.tail + i - 1) % Capacity]
  BY RingIs
<1>5. /\ Ring(q, e) \in Seq(Cell) /\ Len(Ring(q, e)) = p.count - n
      /\ \A i \in 1 .. p.count - n : Ring(q, e)[i] = e[(q.tail + i - 1) % Capacity]
  BY <1>2, <1>3, RingIs
<1> HIDE DEF q, s
<1>6. \A i \in 1 .. p.count : s[i] \in Cell
  BY <1>4, ElementOfSeq
<1>7. ASSUME NEW i \in 1 .. p.count - n
      PROVE  e[(q.tail + i - 1) % Capacity] = s[n + i]
  <2> DEFINE j == (p.tail + (n + i) - 1) % Capacity
  <2>0. AfterTaking(Capacity, p.tail, n, i)
    BY <1>1, CapacityAssumption, TakenIndex, Zenon
  <2>1. /\ (q.tail + i - 1) % Capacity = j /\ j \in 0 .. Capacity - 1
        /\ (j - p.tail) % Capacity = n + i - 1
    BY <1>2, <2>0 DEF AfterTaking
  <2> HIDE DEF j
  <2>2. ~(n + i - 1 < n) /\ n + i \in 1 .. p.count
    BY <1>1
  <2>3. e[j] = d[j]
    BY <1>0, <2>1, <2>2
  <2> QED BY <1>4, <2>1, <2>2, <2>3 DEF j
<1>8. Ring(q, e) = SubSeq(s, n + 1, p.count)
  <2> DEFINE r == SubSeq(s, n + 1, p.count)
  <2>1. n + 1 \in Int /\ p.count \in Int /\ \A i \in n + 1 .. p.count : s[i] \in Cell
    BY <1>1, <1>6
  <2>2. /\ r \in Seq(Cell)
        /\ Len(r) = IF n + 1 <= p.count THEN p.count - (n + 1) + 1 ELSE 0
        /\ \A i \in 1 .. p.count - (n + 1) + 1 : r[i] = s[n + 1 + i - 1]
    BY <2>1, SubSeqProperties
  <2>3. Len(r) = p.count - n /\ \A i \in 1 .. p.count - n : r[i] = s[n + i]
    <3> HIDE DEF r
    <3>1. p.count - (n + 1) + 1 = p.count - n /\ \A i \in Int : n + 1 + i - 1 = n + i
      BY <1>1
    <3> QED BY <1>1, <2>2, <3>1
  <2> HIDE DEF r
  <2>4. \A i \in 1 .. Len(Ring(q, e)) : Ring(q, e)[i] = r[i]
    BY <1>5, <1>7, <2>3
  <2>5. Ring(q, e) = r
    BY <1>5, <2>2, <2>3, <2>4, SeqEqual
  <2> QED BY <2>5 DEF r
<1>9. [i \in 1 .. n |-> d[(p.tail + i - 1) % Capacity]] = SubSeq(s, 1, n)
  <2> DEFINE r == SubSeq(s, 1, n)
             b == [i \in 1 .. n |-> d[(p.tail + i - 1) % Capacity]]
  <2>1. \A i \in 1 .. n : s[i] \in Cell /\ i \in 1 .. p.count /\ b[i] = s[i]
    BY <1>1, <1>4, <1>6
  <2>2. b \in Seq(Cell) /\ Len(b) = n
    <3>1. \A i \in 1 .. n : d[(p.tail + i - 1) % Capacity] \in Cell
      BY <1>4, <2>1
    <3>2. b \in [1 .. n -> Cell]
      BY <3>1
    <3> HIDE DEF b
    <3> QED BY <1>1, <3>2
  <2>3. /\ r \in Seq(Cell) /\ Len(r) = IF 1 <= n THEN n - 1 + 1 ELSE 0
        /\ \A i \in 1 .. n - 1 + 1 : r[i] = s[1 + i - 1]
    BY <1>1, <2>1, SubSeqProperties
  <2> HIDE DEF b, r
  <2>4. Len(r) = n /\ \A i \in 1 .. n : r[i] = s[i]
    BY <1>1, <2>3
  <2>5. b = r
    BY <2>1, <2>2, <2>3, <2>4, SeqEqual
  <2> QED BY <2>5 DEF b, r
<1> QED BY <1>1, <1>4, <1>8, <1>9 DEF q, s, Takes

(* The bytes s are put behind the others.                                  *)
Filled(p, d, n, s) ==
  [i \in 0 .. Capacity - 1 |-> LET k == (i - p.head) % Capacity IN IF k < n THEN s[k + 1] ELSE d[i]]

Puts(p, d, n, s, e) ==
  /\ Ring(Put(p, n), e) = Ring(p, d) \o s
  /\ Len(Ring(p, d)) + Len(s) <= Capacity
  /\ Len(s) = n
  /\ n \in 1 .. Capacity

LEMMA RingPut ==
  ASSUME NEW p, PipeOK(p), p.used, NEW d \in [0 .. Capacity - 1 -> Cell], NEW n \in 1 .. Room(p),
         NEW s \in [1 .. n -> Byte],
         NEW e, e = Filled(p, d, n, s)
  PROVE  Puts(p, d, n, s, e)
<1> DEFINE q == Put(p, n)   r == Ring(p, d)
<1>0. /\ p.tail \in 0 .. Capacity - 1 /\ p.head \in 0 .. Capacity - 1 /\ p.count \in 0 .. Capacity
      /\ (p.head - p.tail - p.count) % Capacity = 0
      /\ n \in 1 .. Capacity - p.count
  BY DEF PipeOK, Room
<1>1. /\ p.tail \in Int /\ p.head \in Int /\ p.count \in Nat /\ n \in Nat /\ Capacity \in Nat
      /\ p.count + n <= Capacity /\ n <= Capacity /\ n \in 1 .. Capacity
  <2>1. p.tail \in Int /\ p.head \in Int /\ p.count \in Nat /\ Capacity \in Nat
    BY <1>0, CapacityAssumption
  <2>2. n \in 1 .. Capacity - p.count
    BY <1>0
  <2> QED BY <2>1, <2>2
<1>2. PipeOK(q) /\ q.used /\ q.tail = p.tail /\ q.count = p.count + n
  BY PutOK DEF PipeOK, Put
<1>3. \A i \in 0 .. Capacity - 1 :
        LET k == (i - p.head) % Capacity IN e[i] = IF k < n THEN s[k + 1] ELSE d[i]
  BY DEF Filled
<1>4. e \in [0 .. Capacity - 1 -> Cell]
  <2>1. ASSUME NEW i \in 0 .. Capacity - 1 PROVE e[i] \in Cell
    <3> DEFINE k == (i - p.head) % Capacity
    <3>1. i - p.head \in Int
      BY <1>1
    <3>2. k \in 0 .. Capacity - 1
      BY <3>1, CapacityAssumption, ModDef
    <3>3. e[i] = IF k < n THEN s[k + 1] ELSE d[i]
      BY <1>3
    <3> HIDE DEF k
    <3>4. k < n => k + 1 \in 1 .. n
      BY <1>1, <3>2
    <3> QED BY <3>3, <3>4 DEF Cell
  <2> QED BY <2>1 DEF Filled
<1>5. /\ r \in Seq(Cell) /\ Len(r) = p.count
      /\ \A i \in 1 .. p.count : r[i] = d[(p.tail + i - 1) % Capacity]
  BY RingIs
<1>6. /\ Ring(q, e) \in Seq(Cell) /\ Len(Ring(q, e)) = p.count + n
      /\ \A i \in 1 .. p.count + n : Ring(q, e)[i] = e[(p.tail + i - 1) % Capacity]
  <2> HIDE DEF q
  <2>1. /\ Ring(q, e) \in Seq(Cell) /\ Len(Ring(q, e)) = q.count
        /\ \A i \in 1 .. q.count : Ring(q, e)[i] = e[(q.tail + i - 1) % Capacity]
    BY <1>2, <1>4, RingIs, Zenon
  <2> QED BY <1>2, <2>1, Zenon
<1>7. s \in Seq(Cell) /\ Len(s) = n
  <2>1. s \in [1 .. n -> Cell]
    BY DEF Cell
  <2> QED BY <1>1, <2>1
<1> HIDE DEF q, r
<1>8. ASSUME NEW i \in 1 .. p.count + n
      PROVE  e[(p.tail + i - 1) % Capacity] = IF i <= p.count THEN r[i] ELSE s[i - p.count]
  <2> DEFINE j == (p.tail + i - 1) % Capacity
  <2>1. i \in 1 .. Capacity /\ i \in Int
    BY <1>1
  <2>0. AfterPutting(Capacity, p.tail, p.head, p.count, i)
    BY <1>0, <1>1, <2>1, CapacityAssumption, PutIndex, Zenon
  <2>2. /\ j \in 0 .. Capacity - 1
        /\ (j - p.head) % Capacity
             = IF i <= p.count THEN Capacity + i - 1 - p.count ELSE i - 1 - p.count
    BY <2>0 DEF AfterPutting
  <2> HIDE DEF j
  <2>3. e[j] = IF (j - p.head) % Capacity < n THEN s[((j - p.head) % Capacity) + 1] ELSE d[j]
    BY <1>3, <2>2
  <2>4. CASE i <= p.count
    <3>1. i \in 1 .. p.count /\ ~(Capacity + i - 1 - p.count < n)
      BY <1>1, <2>1, <2>4
    <3> QED BY <1>5, <2>2, <2>3, <2>4, <3>1 DEF j
  <2>5. CASE ~(i <= p.count)
    <3>1. i - 1 - p.count < n /\ (i - 1 - p.count) + 1 = i - p.count
      BY <1>1, <2>1, <2>5
    <3> QED BY <2>2, <2>3, <2>5, <3>1 DEF j
  <2> QED BY <2>4, <2>5
<1>9. Ring(q, e) = r \o s
  <2>1. /\ r \o s \in Seq(Cell) /\ Len(r \o s) = p.count + n
        /\ \A i \in 1 .. p.count + n : (r \o s)[i] = IF i <= p.count THEN r[i] ELSE s[i - p.count]
    <3>0. r \in Seq(Cell) /\ s \in Seq(Cell)
      BY <1>5, <1>7
    <3>1. /\ r \o s \in Seq(Cell) /\ Len(r \o s) = Len(r) + Len(s)
          /\ \A i \in 1 .. Len(r) + Len(s) :
               (r \o s)[i] = IF i <= Len(r) THEN r[i] ELSE s[i - Len(r)]
      BY <3>0, ConcatProperties
    <3> DEFINE u == r \o s
    <3>2. Len(r) = p.count /\ Len(s) = n
      BY <1>5, <1>7
    <3>3. /\ u \in Seq(Cell) /\ Len(u) = Len(r) + Len(s)
          /\ \A i \in 1 .. Len(r) + Len(s) : u[i] = IF i <= Len(r) THEN r[i] ELSE s[i - Len(r)]
      BY <3>1
    <3> HIDE DEF u
    <3>4. /\ u \in Seq(Cell) /\ Len(u) = p.count + n
          /\ \A i \in 1 .. p.count + n : u[i] = IF i <= p.count THEN r[i] ELSE s[i - p.count]
      BY <3>2, <3>3
    <3> QED BY <3>4 DEF u
  <2>2. \A i \in 1 .. Len(Ring(q, e)) : Ring(q, e)[i] = (r \o s)[i]
    BY <1>6, <1>8, <2>1
  <2> QED BY <1>6, <2>1, <2>2, SeqEqual
<1> QED BY <1>1, <1>5, <1>7, <1>9 DEF q, r, Puts
-----------------------------------------------------------------------------
(* The steps of the pipe are steps of the channel.                         *)
LEMMA ContentsIs == Contents = Ring(pipe, data) /\ Contents' = Ring(pipe', data')
  BY DEF Contents, Ring

LEMMA SameRing ==
  ASSUME NEW p, NEW q, q.used = p.used, q.tail = p.tail, q.count = p.count, NEW d
  PROVE  Ring(q, d) = Ring(p, d)
  BY DEF Ring

LEMMA EmptyRing ==
  ASSUME NEW p, PipeOK(p), NEW d \in [0 .. Capacity - 1 -> Cell], ~p.used \/ p.count = 0
  PROVE  Ring(p, d) = <<>>
<1>1. CASE ~p.used
  BY <1>1 DEF Ring
<1>2. CASE p.used
  <2>1. Ring(p, d) \in Seq(Cell) /\ Len(Ring(p, d)) = 0
    BY <1>2, RingIs
  <2> QED BY <2>1, EmptySeq
<1> QED BY <1>1, <1>2

(* What is known of the state a step starts in.                            *)
LEMMA Known ==
  ASSUME Inv
  PROVE  /\ PipeOK(pipe) /\ data \in [0 .. Capacity - 1 -> Cell]
         /\ pipe.readers \in Nat /\ pipe.writers \in Nat
         /\ pipe.used <=> pipe.readers + pipe.writers > 0
         /\ \A t \in Task : call[t].done \in Nat
<1>1. /\ PipeOK(pipe) /\ data \in [0 .. Capacity - 1 -> Cell]
      /\ ends \in [Proc -> SUBSET {"r", "w"}]
  BY InvParts DEF Inv, Parts, Cell
<1>2. pipe.readers \in Nat /\ pipe.writers \in Nat
  BY <1>1, ProcAssumption, FS_CardinalityType DEF PipeOK
<1>3. (\E p \in Proc : ends[p] # {}) <=> Holders("r") # {} \/ Holders("w") # {}
  BY <1>1 DEF Holders
<1>4. /\ pipe.readers = Cardinality(Holders("r")) /\ pipe.writers = Cardinality(Holders("w"))
      /\ pipe.used <=> \E p \in Proc : ends[p] # {}
  BY DEF Inv, EndsCounted, Holders
<1>5. (pipe.readers # 0 <=> Holders("r") # {}) /\ (pipe.writers # 0 <=> Holders("w") # {})
  BY <1>4, HoldersFinite, FS_EmptySet
<1>6. pipe.used <=> pipe.readers + pipe.writers > 0
  BY <1>2, <1>3, <1>4, <1>5
<1>7. \A t \in Task : call[t].done \in Nat
  BY DEF Inv, InCall
<1> QED BY <1>1, <1>2, <1>6, <1>7

(* Steps that nobody outside can see: some writes may be given up.         *)
LEMMA Unseen ==
  ASSUME NEW S \in SUBSET Task, \A t \in Task : call'[t].done = IF t \in S THEN 0 ELSE call[t].done,
         pipe'.used = pipe.used, pipe'.tail = pipe.tail, pipe'.count = pipe.count, data' = data,
         pipe'.readers = pipe.readers, pipe'.writers = pipe.writers, Quiet
  PROVE  Abstract!Next
<1>1. Contents' = Contents
  BY ContentsIs, SameRing
<1>2. Abstract!Die(S)
  BY <1>1 DEF Abstract!Die, Quiet, Silence, Abstract!Silence
<1> QED BY <1>2 DEF Abstract!Next

LEMMA NothingSeen ==
  ASSUME \A t \in Task : call'[t].done = call[t].done,
         pipe'.used = pipe.used, pipe'.tail = pipe.tail, pipe'.count = pipe.count, data' = data,
         pipe'.readers = pipe.readers, pipe'.writers = pipe.writers, Quiet
  PROVE  Abstract!Next
<1> DEFINE S == {}
<1>1. S \in SUBSET Task /\ \A t \in Task : call'[t].done = IF t \in S THEN 0 ELSE call[t].done
  OBVIOUS
<1> HIDE DEF S
<1> QED BY <1>1, Unseen

LEMMA OpenIsOpen ==
  ASSUME Inv, Inv', NEW t \in Task, Open(t)
  PROVE  Abstract!Next
<1>1. /\ pipe' = [Unused EXCEPT !.used = TRUE, !.readers = 1, !.writers = 1]
      /\ UNCHANGED call /\ ~pipe.used /\ Quiet
  BY DEF Open
<1>2. pipe.readers = 0 /\ pipe.writers = 0
  BY <1>1, Known
<1>3. pipe'.readers = 1 /\ pipe'.writers = 1 /\ pipe'.count = 0
  BY <1>1 DEF Unused
<1>4. PipeOK(pipe') /\ data' \in [0 .. Capacity - 1 -> Cell]
  BY InvParts DEF Inv, Parts, PipeOK, Cell
<1>5. Contents = <<>> /\ Contents' = <<>>
  BY <1>1, <1>3, <1>4, Known, ContentsIs, EmptyRing
<1>6. Abstract!Open
  BY <1>1, <1>2, <1>3, <1>5 DEF Abstract!Open, Quiet, Silence, Abstract!Silence
<1> QED BY <1>6 DEF Abstract!Next

LEMMA EndsChangeSeen ==
  ASSUME Inv, Inv', pipe.used, pipe'.tail = pipe.tail, pipe'.count = pipe.count,
         UNCHANGED <<data, call>>, Quiet
  PROVE  Abstract!Next
<1>1. pipe.readers + pipe.writers > 0
  BY Known
<1>2. /\ pipe'.readers \in Nat /\ pipe'.writers \in Nat /\ pipe'.used \in BOOLEAN
      /\ pipe'.used <=> pipe'.readers + pipe'.writers > 0
  <2>1. /\ pipe'.readers = Cardinality(Holders("r")') /\ pipe'.writers = Cardinality(Holders("w")')
        /\ pipe'.used <=> \E p \in Proc : ends'[p] # {}
    BY DEF Inv, EndsCounted, Holders
  <2>2. pipe'.readers \in Nat /\ pipe'.writers \in Nat
    BY <2>1, HoldersFinite, ProcAssumption, FS_CardinalityType
  <2>3. ends' \in [Proc -> SUBSET {"r", "w"}] /\ pipe'.used \in BOOLEAN
    BY InvParts DEF Inv, Parts, PipeOK
  <2>4. (\E p \in Proc : ends'[p] # {}) <=> Holders("r")' # {} \/ Holders("w")' # {}
    BY <2>3 DEF Holders
  <2>5. (pipe'.readers # 0 <=> Holders("r")' # {}) /\ (pipe'.writers # 0 <=> Holders("w")' # {})
    BY <2>1, HoldersFinite, FS_EmptySet
  <2> QED BY <2>1, <2>2, <2>3, <2>4, <2>5
<1>3. Contents' = IF pipe'.readers + pipe'.writers = 0 THEN <<>> ELSE Contents
  <2>1. CASE pipe'.used
    <3>1. Contents' = Contents
      BY <2>1 DEF Contents
    <3> QED BY <1>2, <2>1, <3>1
  <2>2. CASE ~pipe'.used
    <3>1. Contents' = <<>>
      BY <2>2 DEF Contents
    <3> QED BY <1>2, <2>2, <3>1
  <2> QED BY <2>1, <2>2
<1>4. Abstract!EndsChange
  BY <1>1, <1>2, <1>3 DEF Abstract!EndsChange, Quiet, Silence, Abstract!Silence
<1> QED BY <1>4 DEF Abstract!Next

LEMMA CloseIsChange ==
  ASSUME Inv, Inv', NEW q \in Proc, ends[q] # {}, NEW S, CloseEnds(S),
         UNCHANGED <<data, call>>, Quiet
  PROVE  Abstract!Next
<1>1. pipe.used
  BY DEF Inv, EndsCounted
<1>2. pipe'.tail = pipe.tail /\ pipe'.count = pipe.count
  BY Known DEF CloseEnds, PipeOK
<1> QED BY <1>1, <1>2, EndsChangeSeen

LEMMA SpawnIsChange ==
  ASSUME Inv, Inv', NEW p \in Proc, NEW q \in Proc, Spawn(p, q)
  PROVE  Abstract!Next
<1>1. PICK S \in SUBSET ends[q] :
        pipe' = [pipe EXCEPT !.readers = @ + Cardinality(S \cap {"r"}),
                             !.writers = @ + Cardinality(S \cap {"w"})]
  BY DEF Spawn
<1>2. UNCHANGED <<data, call>> /\ Quiet
  BY DEF Spawn
<1>3. /\ pipe'.used = pipe.used /\ pipe'.tail = pipe.tail /\ pipe'.count = pipe.count
      /\ pipe'.readers = pipe.readers + Cardinality(S \cap {"r"})
      /\ pipe'.writers = pipe.writers + Cardinality(S \cap {"w"})
  BY <1>1, Known DEF PipeOK
<1>4. CASE pipe.used
  BY <1>2, <1>3, <1>4, EndsChangeSeen
<1>5. CASE ~pipe.used
  <2>1. ends[q] = {}
    BY <1>5 DEF Inv, EndsCounted
  <2>2. Cardinality(S \cap {"r"}) = 0 /\ Cardinality(S \cap {"w"}) = 0
    <3>1. S \cap {"r"} = {} /\ S \cap {"w"} = {}
      BY <2>1
    <3> QED BY <3>1, FS_EmptySet, Zenon
  <2>3. pipe'.readers = pipe.readers /\ pipe'.writers = pipe.writers
    BY <1>3, <2>2, Known
  <2> QED BY <1>2, <1>3, <2>3, NothingSeen
<1> QED BY <1>4, <1>5

-----------------------------------------------------------------------------
(* A pass finds the pipe as it is, but for the lists of waiters.           *)
Finds(p) ==
  /\ PipeOK(p) /\ p.used = pipe.used /\ p.readers = pipe.readers /\ p.writers = pipe.writers
  /\ p.tail = pipe.tail /\ p.count = pipe.count /\ p.head = pipe.head

LEMMA ReturnIs ==
  ASSUME Inv, NEW t \in Task, NEW code, NEW bytes, Return(t, code, bytes)
  PROVE  /\ [u \in Task |-> call'[u].done] = [[u \in Task |-> call[u].done] EXCEPT ![t] = 0]
         /\ Abstract!Answers(call[t].op, t, code, bytes)
<1>1. \A u \in Task : call'[u].done = IF u = t THEN 0 ELSE call[u].done
  BY DEF Return, NoCall, Inv, InCall
<1>2. Abstract!Answers(call[t].op, t, code, bytes)
  BY DEF Return, Answers, Abstract!Answers
<1> QED BY <1>1, <1>2

(* The task goes to sleep and nothing else has happened.                   *)
LEMMA WaitUnseen ==
  ASSUME Inv, NEW t \in Task, NEW p, Finds(p), Wait(t, p, state), UNCHANGED <<data, call>>
  PROVE  Abstract!Next
<1>1. /\ pipe'.used = pipe.used /\ pipe'.tail = pipe.tail /\ pipe'.count = pipe.count
      /\ pipe'.readers = pipe.readers /\ pipe'.writers = pipe.writers
  BY DEF Wait, Finds, PipeOK
<1>2. Quiet
  BY DEF Wait
<1> QED BY <1>1, <1>2, NothingSeen

LEMMA ReadPassIs ==
  ASSUME Inv, NothingDone, NEW t \in Task, NEW p, Finds(p), call[t].op = "read",
         pc[t] # "user", ReadPass(t, p)
  PROVE  Abstract!Next
<1>0. /\ call[t].done = 0 /\ call[t].count \in Nat \ {0}
      /\ p.count \in 0 .. Capacity /\ PipeOK(p) /\ Capacity \in Nat
  BY CountsAssumption, CapacityAssumption DEF NothingDone, Inv, InCall, Finds, PipeOK
<1>1. ASSUME NEW code, NEW bytes, Return(t, code, bytes)
      PROVE  /\ [u \in Task |-> call'[u].done] = [u \in Task |-> call[u].done]
             /\ Abstract!Answers("read", t, code, bytes)
  <2>1. [[u \in Task |-> call[u].done] EXCEPT ![t] = 0] = [u \in Task |-> call[u].done]
    BY <1>0
  <2>2. /\ [u \in Task |-> call'[u].done] = [[u \in Task |-> call[u].done] EXCEPT ![t] = 0]
        /\ Abstract!Answers(call[t].op, t, code, bytes)
    BY <1>1, ReturnIs, Zenon
  <2>3. Abstract!Answers("read", t, code, bytes)
    BY <2>2, Zenon
  <2> QED BY <2>1, <2>2, <2>3, Zenon
<1>2. Contents = Ring(p, data)
  BY ContentsIs, SameRing DEF Finds
<1>3. CASE Wait(t, p, state) /\ UNCHANGED <<data, call>>
  BY <1>3, WaitUnseen
<1>4. CASE /\ Gone(p) \/ (p.count = 0 /\ p.writers = 0)
           /\ Return(t, 0, <<>>) /\ pipe' = p /\ UNCHANGED <<data, state>>
  <2>1. ~p.used \/ p.count = 0
    BY <1>4 DEF Gone
  <2>2. Contents = <<>>
    BY <1>0, <1>2, <2>1, Known, EmptyRing
  <2>3. Contents' = Contents /\ pipe'.readers = pipe.readers /\ pipe'.writers = pipe.writers
    BY <1>2, <1>4, ContentsIs DEF Finds
  <2>4. pipe.writers = 0
    BY <1>4, Known DEF Gone, Finds
  <2>5. Abstract!EndOfFile(t)
    BY <1>1, <1>4, <2>2, <2>3, <2>4 DEF Abstract!EndOfFile
  <2> QED BY <2>5 DEF Abstract!Next
<1>5. CASE ~Gone(p) /\ p.count > 0 /\ ReadPass(t, p) /\ ~(p.count = 0)
  <2> DEFINE n == Least(call[t].count, p.count)
             bytes == [i \in 1 .. n |-> data[(p.tail + i - 1) % Capacity]]
             ring == Ring(p, data)
  <2>1. /\ Return(t, n, bytes)
        /\ pipe' = Taken(p, n)
        /\ data' = [i \in 0 .. Capacity - 1 |->
                      IF (i - p.tail) % Capacity < n THEN Stale ELSE data[i]]
    BY <1>5 DEF ReadPass, Taken, Gone
  <2>2. n \in 1 .. p.count
    BY <1>0, <1>5 DEF Least
  <2>3. pipe'.readers = pipe.readers /\ pipe'.writers = pipe.writers
    BY <2>1 DEF Finds, PipeOK, Taken
  <2>4. p.used /\ data \in [0 .. Capacity - 1 -> Cell]
    BY <1>5, Known DEF Gone
  <2> HIDE DEF n
  <2>5. /\ n <= Len(ring) /\ bytes = SubSeq(ring, 1, n)
        /\ Ring(Taken(p, n), data') = SubSeq(ring, n + 1, Len(ring))
    <3> DEFINE e == data'
    <3>1. e = Cleared(p, data, n)
      BY <2>1 DEF Cleared
    <3> HIDE DEF e
    <3>2. Takes(p, data, n, e)
      BY <1>0, <2>2, <2>4, <3>1, RingTaken, Zenon
    <3> QED BY <3>2, Zenon DEF e, Takes
  <2> HIDE DEF bytes, ring
  <2>6. Contents = ring /\ Contents' = Ring(Taken(p, n), data')
    BY <1>2, <2>1, ContentsIs DEF ring
  <2>7. n \in 1 .. Len(Contents)
    <3>1. Len(ring) = p.count
      BY <1>0, <2>4, RingIs DEF ring
    <3> QED BY <2>2, <2>6, <3>1
  <2>8. Abstract!Answers("read", t, n, SubSeq(Contents, 1, n))
    BY <1>1, <2>1, <2>5, <2>6
  <2>9. Contents' = SubSeq(Contents, n + 1, Len(Contents))
    BY <2>5, <2>6
  <2>10. [u \in Task |-> call'[u].done] = [u \in Task |-> call[u].done]
    BY <1>1, <2>1
  <2>11. Abstract!Read(t)
    BY <2>3, <2>7, <2>8, <2>9, <2>10 DEF Abstract!Read
  <2> QED BY <2>11 DEF Abstract!Next
<1> QED BY <1>0, <1>3, <1>4, <1>5 DEF ReadPass

(* What a write puts into the ring is the next piece of its bytes.         *)
Piece(count, done, n) == [i \in 1 .. n |-> Payload[count][done + i]]

LEMMA PieceIs ==
  ASSUME NEW count \in Writes, NEW done \in Nat, NEW n \in Nat, done + n <= count
  PROVE  Piece(count, done, n) \in [1 .. n -> Byte]
<1>1. Payload[count] \in Seq(Byte) /\ Len(Payload[count]) = count /\ count \in Nat
  BY PayloadAssumption, CountsAssumption
<1>2. ASSUME NEW i \in 1 .. n PROVE Payload[count][done + i] \in Byte
  <2>1. done + i \in 1 .. count
    BY <1>1
  <2> QED BY <1>1, <2>1, ElementOfSeq
<1> QED BY <1>2 DEF Piece

LEMMA WritePassIs ==
  ASSUME Inv, NEW t \in Task, NEW p, Finds(p), call[t].op = "write",
         pc[t] # "user", WritePass(t, p)
  PROVE  Abstract!Next
<1> DEFINE done == call[t].done
           n == Least(call[t].count - done, Room(p))
           accepted == [u \in Task |-> call[u].done]
           accepted2 == [u \in Task |-> call'[u].done]
<1>0. /\ done \in Nat /\ call[t].count \in Writes /\ call[t].count \in Nat /\ done < call[t].count
      /\ p.count \in 0 .. Capacity /\ PipeOK(p) /\ Capacity \in Nat
      /\ accepted[t] = done
  BY CountsAssumption, CapacityAssumption DEF Inv, InCall, Finds, PipeOK
<1>1. ASSUME NEW code, NEW bytes, Return(t, code, bytes)
      PROVE  accepted2 = [accepted EXCEPT ![t] = 0] /\ Abstract!Answers("write", t, code, bytes)
  <2>1. /\ accepted2 = [accepted EXCEPT ![t] = 0]
        /\ Abstract!Answers(call[t].op, t, code, bytes)
    BY <1>1, ReturnIs, Zenon
  <2>2. Abstract!Answers("write", t, code, bytes)
    BY <2>1, Zenon
  <2> QED BY <2>1, <2>2, Zenon
<1>2. Contents = Ring(p, data)
  BY ContentsIs, SameRing DEF Finds
<1>3. CASE Wait(t, p, state) /\ UNCHANGED <<data, call>>
  BY <1>3, WaitUnseen
<1>4. CASE /\ Gone(p) \/ p.readers = 0
           /\ Return(t, IF done = 0 THEN -1 ELSE done, <<>>)
           /\ pipe' = p /\ UNCHANGED <<data, state>>
  <2> DEFINE code == IF accepted[t] = 0 THEN -1 ELSE accepted[t]
  <2>1. pipe.readers = 0
    BY <1>4, Known DEF Gone, Finds
  <2>2. Contents' = Contents /\ pipe'.readers = pipe.readers /\ pipe'.writers = pipe.writers
    BY <1>2, <1>4, ContentsIs DEF Finds
  <2>3. Return(t, code, <<>>)
    BY <1>0, <1>4
  <2>4. accepted2 = [accepted EXCEPT ![t] = 0] /\ Abstract!Answers("write", t, code, <<>>)
    <3> HIDE DEF code
    <3> QED BY <1>1, <2>3
  <2>5. Abstract!Broken(t)
    BY <2>1, <2>2, <2>4 DEF Abstract!Broken
  <2> QED BY <2>5 DEF Abstract!Next
<1>5. CASE ~Gone(p) /\ p.readers > 0 /\ n > 0 /\ WritePass(t, p)
  <2> DEFINE s == Piece(call[t].count, done, n)
             e == data'
  <2>1. /\ data' = [i \in 0 .. Capacity - 1 |->
                      LET k == (i - p.head) % Capacity
                      IN IF k < n THEN Payload[call[t].count][done + k + 1] ELSE data[i]]
        /\ \/ Return(t, done + n, <<>>) /\ pipe' = Put(p, n)
           \/ /\ Wait(t, Put(p, n), Woken(p.read_waiters))
              /\ call' = [call EXCEPT ![t].done = done + n]
    <3>1. ~(Gone(p) \/ p.readers = 0) /\ ~(n = 0)
      BY <1>5
    <3> DEFINE next == [p EXCEPT !.head = Advance(@, n), !.count = @ + n, !.read_waiters = {}]
    <3>2. /\ data' = [i \in 0 .. Capacity - 1 |->
                        LET k == (i - p.head) % Capacity
                        IN IF k < n THEN Payload[call[t].count][done + k + 1] ELSE data[i]]
          /\ \/ Return(t, done + n, <<>>) /\ pipe' = next
             \/ /\ Wait(t, next, Woken(p.read_waiters))
                /\ call' = [call EXCEPT ![t].done = done + n]
      BY <1>5, <3>1, Zenon DEF WritePass
    <3>3. next = Put(p, n)
      BY DEF Put
    <3> HIDE DEF next
    <3> QED BY <3>2, <3>3, Zenon
  <2>2. /\ n \in 1 .. Room(p) /\ n \in Nat /\ done + n <= call[t].count
    BY <1>0, <1>5 DEF Least, Room
  <2> HIDE DEF n
  <2>3. s \in [1 .. n -> Byte] /\ \A i \in 1 .. n : s[i] = Payload[call[t].count][done + i]
    BY <1>0, <2>2, PieceIs DEF Piece
  <2> HIDE DEF s
  <2>4. data' = [i \in 0 .. Capacity - 1 |->
                   LET k == (i - p.head) % Capacity IN IF k < n THEN s[k + 1] ELSE data[i]]
    <3>1. ASSUME NEW i \in 0 .. Capacity - 1, (i - p.head) % Capacity < n
          PROVE  s[((i - p.head) % Capacity) + 1]
                   = Payload[call[t].count][done + ((i - p.head) % Capacity) + 1]
      <4> DEFINE k == (i - p.head) % Capacity
      <4>1. i - p.head \in Int
        BY <1>0, CapacityAssumption DEF PipeOK
      <4>2. k \in 0 .. Capacity - 1 /\ k < n
        BY <3>1, <4>1, CapacityAssumption, ModDef
      <4> HIDE DEF k
      <4>3. k + 1 \in 1 .. n /\ done + (k + 1) = done + k + 1
        BY <1>0, <2>2, <4>2
      <4>4. s[k + 1] = Payload[call[t].count][done + k + 1]
        BY <2>3, <4>3
      <4> QED BY <4>4 DEF k
    <3> QED BY <2>1, <3>1
  <2>5. p.used /\ data \in [0 .. Capacity - 1 -> Cell]
    BY <1>5, Known DEF Gone
  <2>6. /\ Ring(Put(p, n), data') = Ring(p, data) \o s
        /\ Len(Ring(p, data)) + Len(s) <= Capacity /\ Len(s) = n /\ n \in 1 .. Capacity
    <3>1. e = Filled(p, data, n, s)
      BY <2>4 DEF Filled
    <3> HIDE DEF e
    <3>2. Puts(p, data, n, s, e)
      BY <1>0, <2>2, <2>3, <2>5, <3>1, RingPut, Zenon
    <3> QED BY <3>2, Zenon DEF e, Puts
  <2>7. s \in Abstract!Strings
    BY <2>3, <2>6 DEF Abstract!Strings
  <2>8. /\ Put(p, n).used = p.used /\ Put(p, n).tail = p.tail /\ Put(p, n).count = p.count + n
        /\ Put(p, n).readers = p.readers /\ Put(p, n).writers = p.writers
    BY <1>0 DEF Put, PipeOK
  <2>9. /\ pipe'.used = Put(p, n).used /\ pipe'.tail = Put(p, n).tail
        /\ pipe'.count = Put(p, n).count
        /\ pipe'.readers = pipe.readers /\ pipe'.writers = pipe.writers
    <3>1. CASE pipe' = Put(p, n)
      BY <2>8, <3>1 DEF Finds
    <3>2. CASE Wait(t, Put(p, n), Woken(p.read_waiters))
      BY <1>0, <2>8, <3>2 DEF Wait, Finds, Put, PipeOK
    <3> QED BY <2>1, <3>1, <3>2
  <2>10. Contents' = Contents \o s /\ Len(Contents) + Len(s) <= Capacity
    <3>1. Contents' = Ring(Put(p, n), data')
      BY <2>9, ContentsIs, SameRing
    <3> QED BY <1>2, <2>6, <3>1, Zenon
  <2>11. \/ /\ accepted2 = [accepted EXCEPT ![t] = @ + Len(s)] /\ Quiet
         \/ /\ accepted2 = [accepted EXCEPT ![t] = 0]
            /\ Abstract!Answers("write", t, accepted[t] + Len(s), <<>>)
    <3>1. CASE Return(t, done + n, <<>>)
      <4> DEFINE code == accepted[t] + Len(s)
      <4>1. code = done + n
        BY <1>0, <2>6
      <4>2. Return(t, code, <<>>)
        BY <3>1, <4>1
      <4> HIDE DEF code
      <4>3. accepted2 = [accepted EXCEPT ![t] = 0] /\ Abstract!Answers("write", t, code, <<>>)
        BY <1>1, <4>2, Zenon
      <4> QED BY <4>3 DEF code
    <3>2. CASE /\ Wait(t, Put(p, n), Woken(p.read_waiters))
               /\ call' = [call EXCEPT ![t].done = done + n]
      <4>1. \A u \in Task : call'[u].done = IF u = t THEN done + n ELSE call[u].done
        BY <3>2 DEF Inv, InCall
      <4>2. accepted2 = [accepted EXCEPT ![t] = @ + Len(s)]
        BY <2>6, <4>1
      <4> QED BY <3>2, <4>2 DEF Wait
    <3> QED BY <2>1, <3>1, <3>2
  <2>12. pipe.readers > 0
    BY <1>5 DEF Finds
  <2>13. Abstract!Write(t)
    BY <2>7, <2>9, <2>10, <2>11, <2>12 DEF Abstract!Write, Quiet, Silence, Abstract!Silence
  <2> QED BY <2>13 DEF Abstract!Next
<1>6. ~(n > 0) => n = 0
  BY <1>0 DEF Least, Room
<1> QED BY <1>3, <1>4, <1>5, <1>6 DEF WritePass
-----------------------------------------------------------------------------
LEMMA EnterIs ==
  ASSUME Inv, NothingDone, NEW t \in Task, Enter(t)
  PROVE  Abstract!Next
<1>1. Finds(pipe) /\ pc[t] # "user" /\ pc[t] = "call"
  BY Known DEF Enter, Finds
<1>2. CASE Return(t, -1, <<>>) /\ UNCHANGED <<pipe, data, state>>
  <2>1. call[t].done = 0 /\ call[t].op \in {"read", "write"}
    BY <1>1 DEF NothingDone, Inv, InCall
  <2> DEFINE code == -1   accepted == [u \in Task |-> call[u].done]
             accepted2 == [u \in Task |-> call'[u].done]
  <2>2. accepted2 = [accepted EXCEPT ![t] = 0] /\ Abstract!Answers(call[t].op, t, -1, <<>>)
    <3>1. Return(t, code, <<>>)
      BY <1>2
    <3> HIDE DEF code
    <3>2. accepted2 = [accepted EXCEPT ![t] = 0] /\ Abstract!Answers(call[t].op, t, code, <<>>)
      BY <3>1, ReturnIs, Zenon
    <3> QED BY <3>2 DEF code
  <2>3. accepted2 = accepted /\ accepted[t] = 0
    BY <2>1, <2>2
  <2>4. Contents' = Contents /\ pipe'.readers = pipe.readers /\ pipe'.writers = pipe.writers
    BY <1>2, ContentsIs
  <2>5. Abstract!Answers("read", t, -1, <<>>) \/ Abstract!Answers("write", t, -1, <<>>)
    BY <2>1, <2>2, Zenon
  <2>6. Abstract!Refused(t)
    BY <2>3, <2>4, <2>5 DEF Abstract!Refused
  <2> QED BY <2>6 DEF Abstract!Next
<1>3. CASE call[t].op = "read" /\ ReadPass(t, pipe)
  BY <1>1, <1>3, ReadPassIs
<1>4. CASE call[t].op = "write" /\ WritePass(t, pipe)
  BY <1>1, <1>4, WritePassIs
<1> QED BY <1>2, <1>3, <1>4 DEF Enter

LEMMA RelockIs ==
  ASSUME Inv, NothingDone, NEW t \in Task, Relock(t)
  PROVE  Abstract!Next
<1> DEFINE r == [pipe EXCEPT !.read_waiters = @ \ {t}]
           w == [pipe EXCEPT !.write_waiters = @ \ {t}]
<1>1. Finds(r) /\ Finds(w)
  BY Known DEF Finds, PipeOK
<1>2. pc[t] # "user"
  BY DEF Relock
<1>3. \/ call[t].op = "read" /\ ReadPass(t, r)
      \/ call[t].op = "write" /\ WritePass(t, w)
  BY DEF Relock
<1> HIDE DEF r, w
<1> QED BY <1>1, <1>2, <1>3, ReadPassIs, WritePassIs

LEMMA DieIs ==
  ASSUME Inv, NEW p \in Proc, Die(p)
  PROVE  Abstract!Next
<1> DEFINE S == Members(p)
<1>1. S \in SUBSET Task /\ \A t \in Task : call'[t].done = IF t \in S THEN 0 ELSE call[t].done
  BY DEF Die, NoCall, Members
<1> HIDE DEF S
<1> QED BY <1>1, Unseen DEF Die

LEMMA CallIs ==
  ASSUME Inv, NothingDone, NEW t \in Task,
         \/ Unlock(t) \/ Preempt(t) \/ \E n \in Reads : Call(t, "read", n)
         \/ \E n \in Writes : Call(t, "write", n)
  PROVE  Abstract!Next
<1>1. UNCHANGED <<pipe, data>> /\ Quiet
  BY DEF Unlock, Preempt, Call
<1>2. \A u \in Task : call'[u].done = call[u].done
  <2>1. CASE UNCHANGED call
    BY <2>1
  <2>2. ASSUME NEW op, NEW n, Call(t, op, n) PROVE \A u \in Task : call'[u].done = call[u].done
    BY <2>2 DEF Call, NothingDone, Inv, InCall
  <2> QED BY <2>1, <2>2 DEF Unlock, Preempt
<1> QED BY <1>1, <1>2, NothingSeen

LEMMA PipeNext ==
  ASSUME Inv, Inv', NothingDone, [Next]_vars
  PROVE  Abstract!Next \/ UNCHANGED Abstract!vars
<1>1. CASE UNCHANGED vars
  <2>1. Contents' = Contents
    BY <1>1 DEF Contents, vars
  <2> QED BY <1>1, <2>1 DEF vars, Abstract!vars
<1>2. ASSUME NEW t \in Task, Open(t) \/ Enter(t) \/ Relock(t) PROVE Abstract!Next
  BY <1>2, OpenIsOpen, EnterIs, RelockIs
<1>3. ASSUME NEW t \in Task, NEW e \in {"r", "w"}, Close(t, e) PROVE Abstract!Next
  <2>1. ProcOf[t] \in Proc
    BY ProcOfAssumption
  <2> QED BY <1>3, <2>1, CloseIsChange DEF Close
<1>4. ASSUME NEW t \in Task,
             \/ Unlock(t) \/ Preempt(t) \/ \E n \in Reads : Call(t, "read", n)
             \/ \E n \in Writes : Call(t, "write", n)
      PROVE  Abstract!Next
  BY <1>4, CallIs
<1>5. ASSUME NEW p \in Proc, Reap(p) PROVE Abstract!Next
  BY <1>5, CloseIsChange DEF Reap
<1>6. ASSUME NEW p \in Proc, Die(p) \/ \E q \in Proc : Spawn(p, q) PROVE Abstract!Next
  BY <1>6, DieIs, SpawnIsChange
<1> QED BY <1>1, <1>2, <1>3, <1>4, <1>5, <1>6 DEF Next

LEMMA PipeInit == Init => Abstract!Init
<1> SUFFICES ASSUME Init PROVE Abstract!Init
  OBVIOUS
<1>1. Contents = <<>> /\ pipe.readers = 0 /\ pipe.writers = 0
  BY DEF Init, Unused, Contents
<1>2. [t \in Task |-> call[t].done] = [t \in Task |-> 0]
  BY DEF Init, NoCall
<1> QED BY <1>1, <1>2 DEF Init, Abstract!Init, Silence, Abstract!Silence

(* Whatever the tasks, the ring and the counts, and whenever a task is     *)
(* interrupted or killed: the bytes come out in the order in which they    *)
(* went in, each once, and what a read or write answers is what it did.    *)
THEOREM PipeImplementsChannel == Spec => ImplementsChannel
<1>1. Inv /\ NothingDone /\ [Next]_vars => Inv' /\ NothingDone'
  BY InvNext, NothingDoneNext
<1>2. Init => Inv /\ NothingDone
  BY InvInit, NothingDoneInit
<1>3. Inv /\ NothingDone /\ [Next]_vars => [Abstract!Next]_(Abstract!vars)
  BY <1>1, PipeNext
<1> QED
  BY <1>1, <1>2, <1>3, PipeInit, PTL DEF Spec, ImplementsChannel, Abstract!Spec
=============================================================================
