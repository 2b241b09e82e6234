-------------------------------- MODULE Pipe --------------------------------
(***************************************************************************)
(* One entry of the pipe table of src/kernel/fs/pipefs.c, reused after it  *)
(* is closed, the lock every file operation takes (vfs_lock), and the      *)
(* operations of src/kernel/fs/vfs.c that open, inherit and close its      *)
(* ends.                                                                   *)
(*                                                                         *)
(* While the lock is held other tasks can only spin on it, so what a task  *)
(* does from vfs_lock to vfs_unlock is one action, with one exception:     *)
(* pipe_wait marks its task BLOCKED before it unlocks, with interrupts     *)
(* enabled, and a task that loses the processor there does not get it back *)
(* to unlock.  InWindow says whether the timer (or a kill) comes there.    *)
(* A process has at most one descriptor of each end (dup is left out), and *)
(* the count of a read or write is positive.                               *)
(***************************************************************************)
EXTENDS Integers, Sequences, FiniteSets

CONSTANTS Task, Proc, ProcOf,   \* the tasks, the processes, and who belongs to whom
          First,                \* the process alive at the start
          Byte,
          Stale,                \* stands for a cell without a byte to be read
          Capacity,             \* PIPE_BUFSZ
          Reads, Writes,        \* the byte counts of reads, and of writes
          Payload,              \* Payload[n]: the bytes a write of n bytes writes
          InWindow

ASSUME ProcAssumption == IsFiniteSet(Proc)   \* procs[PROCESS_MAX]
ASSUME ProcOfAssumption == ProcOf \in [Task -> Proc] /\ First \in Proc
ASSUME StaleAssumption == Stale \notin Byte
ASSUME CapacityAssumption == Capacity \in Nat \ {0}
ASSUME CountsAssumption == Reads \cup Writes \subseteq Nat \ {0}
ASSUME PayloadAssumption == Payload \in [Writes -> Seq(Byte)] /\ \A n \in Writes : Len(Payload[n]) = n
ASSUME InWindowAssumption == InWindow \in BOOLEAN

VARIABLES pipe,    \* used, readers, writers, head, tail, count, read_waiters, write_waiters
          data,    \* pipe.data
          ends,    \* ends[p]: the ends of the pipe process p has open, "r" and "w"
          locked,  \* vfs_locked
          state,   \* tasks[t].state
          pc,      \* "user", "call", "marked" (BLOCKED, on the processor and holding
                   \* the lock), "off" (the same, but preempted) or "wait"
          call,    \* op, count and done of the call a task is in
          answer   \* what the call that has just ended answered, and to whom

vars == <<pipe, data, ends, locked, state, pc, call, answer>>

NoCall == [op |-> "none", count |-> 0, done |-> 0]
Silence == [call |-> "none", task |-> <<>>, code |-> 0, bytes |-> <<>>]
Answers(c, t, code, bytes) ==
  answer' = [call |-> c, task |-> <<t>>, code |-> code, bytes |-> bytes]
Quiet == answer' = Silence

Unused == [used |-> FALSE, readers |-> 0, writers |-> 0, head |-> 0, tail |-> 0, count |-> 0,
           read_waiters |-> {}, write_waiters |-> {}]

Init ==
  /\ pipe = Unused
  /\ data = [i \in 0 .. Capacity - 1 |-> Stale]
  /\ ends = [p \in Proc |-> {}]
  /\ locked = FALSE
  /\ state = [t \in Task |-> IF ProcOf[t] = First THEN "READY" ELSE "DEAD"]
  /\ pc = [t \in Task |-> "user"]
  /\ call = [t \in Task |-> NoCall]
  /\ answer = Silence

(* The task on the processor: the marked one, or any that is ready.        *)
Runs(t) == IF \E u \in Task : pc[u] = "marked" THEN pc[t] = "marked" ELSE state[t] = "READY"

(* pipe_wake_mask and task_wake.                                           *)
Woken(S) == [t \in Task |-> IF t \in S /\ state[t] = "BLOCKED" THEN "READY" ELSE state[t]]

-----------------------------------------------------------------------------
(* vfs_pipe.                                                               *)
Open(t) ==
  /\ Runs(t) /\ pc[t] = "user" /\ ~locked
  /\ ~pipe.used
  /\ pipe' = [Unused EXCEPT !.used = TRUE, !.readers = 1, !.writers = 1]
  /\ ends' = [ends EXCEPT ![ProcOf[t]] = {"r", "w"}]
  /\ data' = [i \in 0 .. Capacity - 1 |-> Stale]
  /\ Quiet
  /\ UNCHANGED <<locked, state, pc, call>>

(* pipe_close of the ends in S, of one process.                            *)
CloseEndsSilently(S) ==   \* mutant: the other side is not woken
  LET readers == IF "r" \in S THEN pipe.readers - 1 ELSE pipe.readers
      writers == IF "w" \in S THEN pipe.writers - 1 ELSE pipe.writers
  IN /\ pipe' = [pipe EXCEPT !.readers = readers, !.writers = writers,
                             !.used = readers + writers > 0]
     /\ UNCHANGED state

CloseEnds(S) ==
  LET readers == IF "r" \in S THEN pipe.readers - 1 ELSE pipe.readers
      writers == IF "w" \in S THEN pipe.writers - 1 ELSE pipe.writers
      wake == (IF writers = 0 THEN pipe.read_waiters ELSE {})
              \cup (IF readers = 0 THEN pipe.write_waiters ELSE {})
  IN /\ pipe' = [pipe EXCEPT !.readers = readers, !.writers = writers,
                             !.used = readers + writers > 0,
                             !.read_waiters = IF writers = 0 THEN {} ELSE @,
                             !.write_waiters = IF readers = 0 THEN {} ELSE @]
     /\ state' = Woken(wake)

(* close_fd_locked for a descriptor of the caller's process.               *)
Close(t, e) ==
  /\ Runs(t) /\ pc[t] = "user" /\ ~locked
  /\ e \in ends[ProcOf[t]]
  /\ CloseEnds({e})
  /\ ends' = [ends EXCEPT ![ProcOf[t]] = @ \ {e}]
  /\ Quiet
  /\ UNCHANGED <<data, locked, pc, call>>

-----------------------------------------------------------------------------
(* A read or write is called: vfs_lock spins until the lock is free.       *)
Call(t, op, n) ==
  /\ Runs(t) /\ pc[t] = "user"
  /\ pc' = [pc EXCEPT ![t] = "call"]
  /\ call' = [call EXCEPT ![t] = [op |-> op, count |-> n, done |-> 0]]
  /\ Quiet
  /\ UNCHANGED <<pipe, data, ends, locked, state>>

(* The call ends and unlocks.                                              *)
Return(t, code, bytes) ==
  /\ pc' = [pc EXCEPT ![t] = "user"]
  /\ call' = [call EXCEPT ![t] = NoCall]
  /\ Answers(call[t].op, t, code, bytes)
  /\ UNCHANGED locked

(* pipe_wait up to task_prepare_block_current, on the table p with st.     *)
Wait(t, p, st) ==
  /\ pipe' = IF call[t].op = "read" THEN [p EXCEPT !.read_waiters = @ \cup {t}]
                                    ELSE [p EXCEPT !.write_waiters = @ \cup {t}]
  /\ state' = [st EXCEPT ![t] = "BLOCKED"]
  /\ pc' = [pc EXCEPT ![t] = "marked"]
  /\ locked' = TRUE
  /\ Quiet

AdvanceUnwrapped(i, n) == i + n   \* mutant: the index leaves the ring
Advance(i, n) == (i + n) % Capacity

RoomOneMore(p) == Capacity - p.count + 1   \* mutant: a full ring takes one byte more
Room(p) == Capacity - p.count

Gone(p) == ~p.used

Least(m, n) == IF m < n THEN m ELSE n

(* pipe_read from its loop on: p is the table as this pass finds it.       *)
ReadPass(t, p) ==
  \/ /\ ~Gone(p) /\ p.count = 0 /\ p.writers > 0
     /\ Wait(t, p, state)
     /\ UNCHANGED <<data, call>>
  \/ /\ Gone(p) \/ (p.count = 0 /\ p.writers = 0)
     /\ Return(t, 0, <<>>)
     /\ pipe' = p
     /\ UNCHANGED <<data, state>>
  \/ /\ ~Gone(p) /\ p.count > 0
     /\ LET n == Least(call[t].count, p.count) IN
          /\ Return(t, n, [i \in 1 .. n |-> data[(p.tail + i - 1) % Capacity]])
          /\ pipe' = [p EXCEPT !.tail = Advance(@, n), !.count = @ - n,
                               !.write_waiters = {}]
          /\ data' = [i \in 0 .. Capacity - 1 |->
                        IF (i - p.tail) % Capacity < n THEN Stale ELSE data[i]]
          /\ state' = Woken(p.write_waiters)

(* pipe_write from its loop on: copies what fits, then returns or waits.   *)
WritePass(t, p) ==
  LET done == call[t].done
      n == Least(call[t].count - done, Room(p))
  IN
  \/ /\ Gone(p) \/ p.readers = 0
     /\ Return(t, IF done = 0 THEN -1 ELSE done, <<>>)
     /\ pipe' = p
     /\ UNCHANGED <<data, state>>
  \/ /\ ~Gone(p) /\ p.readers > 0 /\ n = 0
     /\ Wait(t, p, state)
     /\ UNCHANGED <<data, call>>
  \/ /\ ~Gone(p) /\ p.readers > 0 /\ n > 0
     /\ data' = [i \in 0 .. Capacity - 1 |->
                   LET k == (i - p.head) % Capacity
                   IN IF k < n THEN Payload[call[t].count][done + k + 1] ELSE data[i]]
     /\ LET q == [p EXCEPT !.head = Advance(@, n), !.count = @ + n, !.read_waiters = {}] IN
        \/ /\ done + n = call[t].count
           /\ Return(t, done + n, <<>>)
           /\ pipe' = q
           /\ state' = Woken(p.read_waiters)
        \/ /\ done + n < call[t].count
           /\ Wait(t, q, Woken(p.read_waiters))
           /\ call' = [call EXCEPT ![t].done = done + n]

End(op) == IF op = "read" THEN "r" ELSE "w"

(* The lock is taken: vfs_read or vfs_write looks the descriptor up.       *)
Enter(t) ==
  /\ Runs(t) /\ pc[t] = "call" /\ ~locked
  /\ \/ /\ End(call[t].op) \notin ends[ProcOf[t]]
        /\ Return(t, -1, <<>>)
        /\ UNCHANGED <<pipe, data, state>>
     \/ /\ "r" \in ends[ProcOf[t]] /\ call[t].op = "read"
        /\ ReadPass(t, pipe)
     \/ /\ "w" \in ends[ProcOf[t]] /\ call[t].op = "write"
        /\ WritePass(t, pipe)
  /\ UNCHANGED ends

(* vfs_unlock and task_yield in pipe_wait.                                 *)
Unlock(t) ==
  /\ Runs(t) /\ pc[t] \in {"marked", "off"}
  /\ locked' = FALSE
  /\ pc' = [pc EXCEPT ![t] = "wait"]
  /\ Quiet
  /\ UNCHANGED <<pipe, data, ends, state, call>>

(* The timer interrupts pipe_wait before vfs_unlock.                       *)
Preempt(t) ==
  /\ InWindow
  /\ pc[t] = "marked"
  /\ pc' = [pc EXCEPT ![t] = "off"]
  /\ Quiet
  /\ UNCHANGED <<pipe, data, ends, locked, state, call>>

(* Woken up: vfs_lock again, and another pass through the loop.            *)
Relock(t) ==
  /\ Runs(t) /\ pc[t] = "wait" /\ ~locked
  /\ \/ call[t].op = "read" /\ ReadPass(t, [pipe EXCEPT !.read_waiters = @ \ {t}])
     \/ call[t].op = "write" /\ WritePass(t, [pipe EXCEPT !.write_waiters = @ \ {t}])
  /\ UNCHANGED ends

-----------------------------------------------------------------------------
(* task_kill or an exit: the tasks of p die; its waiter bits stay.         *)
Members(p) == {t \in Task : ProcOf[t] = p}
Alive(p) == \A t \in Members(p) : state[t] # "DEAD"
Die(p) ==
  /\ Alive(p)
  /\ \A t \in Task : pc[t] = "marked" => InWindow /\ t \in Members(p)
  /\ InWindow \/ \A t \in Members(p) : pc[t] # "off"
  /\ state' = [t \in Task |-> IF t \in Members(p) THEN "DEAD" ELSE state[t]]
  /\ pc' = [t \in Task |-> IF t \in Members(p) THEN "user" ELSE pc[t]]
  /\ call' = [t \in Task |-> IF t \in Members(p) THEN NoCall ELSE call[t]]
  /\ Quiet
  /\ UNCHANGED <<pipe, data, ends, locked>>

(* task_reap_one: the slot's descriptors are closed (vfs_task_reset).      *)
Reap(p) ==
  /\ ~Alive(p) /\ ~locked
  /\ ends[p] # {}
  /\ CloseEnds(ends[p])
  /\ ends' = [ends EXCEPT ![p] = {}]
  /\ Quiet
  /\ UNCHANGED <<data, locked, pc, call>>

(* A process is created by q and inherits some of its descriptors          *)
(* (clone_fd_range: all of them or the first three), or by a process that  *)
(* does not know the pipe.                                                 *)
SpawnUncounted(p, q) ==   \* mutant: inherited ends are not counted
  /\ ~Alive(p) /\ ends[p] = {} /\ ~locked
  /\ \A t \in Task : pc[t] # "marked"
  /\ \E S \in SUBSET ends[q] : ends' = [ends EXCEPT ![p] = S]
  /\ state' = [t \in Task |-> IF t \in Members(p) THEN "READY" ELSE state[t]]
  /\ Quiet
  /\ UNCHANGED <<pipe, data, locked, pc, call>>

Spawn(p, q) ==
  /\ ~Alive(p) /\ ends[p] = {} /\ ~locked
  /\ \A t \in Task : pc[t] # "marked"
  /\ \E S \in SUBSET ends[q] :
       /\ S = {} \/ \E t \in Members(q) : Runs(t) /\ pc[t] = "user"
       /\ ends' = [ends EXCEPT ![p] = S]
       /\ pipe' = [pipe EXCEPT !.readers = @ + Cardinality(S \cap {"r"}),
                               !.writers = @ + Cardinality(S \cap {"w"})]
  /\ state' = [t \in Task |-> IF t \in Members(p) THEN "READY" ELSE state[t]]
  /\ Quiet
  /\ UNCHANGED <<data, locked, pc, call>>

Next ==
  \/ \E t \in Task : \/ Open(t) \/ Enter(t) \/ Unlock(t) \/ Preempt(t) \/ Relock(t)
                     \/ \E e \in {"r", "w"} : Close(t, e)
                     \/ \E n \in Reads : Call(t, "read", n)
                     \/ \E n \in Writes : Call(t, "write", n)
  \/ \E p \in Proc : Die(p) \/ Reap(p) \/ \E q \in Proc : Spawn(p, q)

(* Every task in a call goes on, and its turns do not all come while the   *)
(* lock is taken.  A task is at one place at a time, so fairness of the    *)
(* three steps together is fairness of each.                               *)
Spec ==
  /\ Init /\ [][Next]_vars
  /\ \A t \in Task : SF_vars(Enter(t) \/ Unlock(t) \/ Relock(t))

-----------------------------------------------------------------------------
(* The variables stay in their ranges; count is the distance from tail to  *)
(* head.                                                                   *)
TypeOK ==
  /\ pipe \in [used : BOOLEAN, readers : 0 .. Cardinality(Proc), writers : 0 .. Cardinality(Proc),
               head : 0 .. Capacity - 1, tail : 0 .. Capacity - 1, count : 0 .. Capacity,
               read_waiters : SUBSET Task, write_waiters : SUBSET Task]
  /\ (pipe.head - pipe.tail - pipe.count) % Capacity = 0
  /\ data \in [0 .. Capacity - 1 -> Byte \cup {Stale}]
  /\ ends \in [Proc -> SUBSET {"r", "w"}]
  /\ locked \in BOOLEAN
  /\ state \in [Task -> {"READY", "BLOCKED", "DEAD"}]
  /\ pc \in [Task -> {"user", "call", "marked", "off", "wait"}]
  /\ \A t \in Task : call[t].done \in 0 .. call[t].count

(* The counts of ends are the descriptors that exist, through inheritance, *)
(* closing, dying and reaping: an end is neither leaked (no end of file    *)
(* ever) nor closed twice (end of file too early).                         *)
EndsCounted ==
  /\ pipe.readers = Cardinality({p \in Proc : "r" \in ends[p]})
  /\ pipe.writers = Cardinality({p \in Proc : "w" \in ends[p]})
  /\ pipe.used <=> \E p \in Proc : ends[p] # {}

(* Nobody sleeps on a pipe that is ready for him: a blocked reader finds   *)
(* it empty with a writer left, a blocked writer full with a reader left.  *)
NoLostWake ==
  \A t \in Task : state[t] = "BLOCKED" =>
    /\ pipe.used
    /\ call[t].op = "read" => pipe.count = 0 /\ pipe.writers > 0 /\ t \in pipe.read_waiters
    /\ call[t].op = "write" =>
         pipe.count = Capacity /\ pipe.readers > 0 /\ t \in pipe.write_waiters

(* Once the last writer is gone a read ends, unless a new pipe is made of  *)
(* the entry first, or a task is stopped for good while it holds the lock. *)
Reading(t) == pc[t] # "user" /\ call[t].op = "read"
LockLost == locked /\ \A t \in Task : pc[t] # "marked"
EndOfFile ==
  \A t \in Task : (Reading(t) /\ pipe.writers = 0) ~> (~Reading(t) \/ pipe.writers > 0 \/ LockLost)

(* A read ends or goes on waiting, and a write that has been called while  *)
(* it waits is carried out: "blocks until data arrives" (docs/ipc.md).     *)
Offered(t) == pc[t] = "call" /\ call[t].op = "write"
DataArrives == \A t, u \in Task : (Reading(t) /\ Offered(u)) ~> (~Reading(t) \/ ~Offered(u))

(***************************************************************************)
(* The ring, its waiters and the lock implement the abstract channel.      *)
(***************************************************************************)
Contents == IF pipe.used THEN [i \in 1 .. pipe.count |-> data[(pipe.tail + i - 1) % Capacity]]
                         ELSE <<>>
Abstract == INSTANCE Channel WITH
  queue <- Contents, readers <- pipe.readers, writers <- pipe.writers,
  accepted <- [t \in Task |-> call[t].done]

ImplementsChannel == Abstract!Spec
=============================================================================
