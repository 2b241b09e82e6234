------------------------------ MODULE Channel ------------------------------
(***************************************************************************)
(* What a pipe promises (docs/ipc.md).  Bytes come out in the order in     *)
(* which they went in, each once; at most Capacity of them are inside.  A  *)
(* read answers at least one byte, or 0 when none is left and no writer    *)
(* is.  A write answers all of its bytes, or fewer (-1 for none) when the  *)
(* last reader has gone.                                                   *)
(***************************************************************************)
EXTENDS Integers, Sequences

CONSTANTS Task, Byte, Capacity

VARIABLES queue, readers, writers,
          accepted,  \* accepted[t]: bytes taken so far from the write t is in
          answer     \* what the call that has just ended answered, and to whom

vars == <<queue, readers, writers, accepted, answer>>

Silence == [call |-> "none", task |-> <<>>, code |-> 0, bytes |-> <<>>]
Answers(c, t, code, bytes) ==
  answer' = [call |-> c, task |-> <<t>>, code |-> code, bytes |-> bytes]

Strings == UNION {[1 .. n -> Byte] : n \in 1 .. Capacity}

Init ==
  /\ queue = <<>> /\ readers = 0 /\ writers = 0
  /\ accepted = [t \in Task |-> 0]
  /\ answer = Silence

Open ==
  /\ readers = 0 /\ writers = 0
  /\ readers' = 1 /\ writers' = 1
  /\ answer' = Silence
  /\ UNCHANGED <<queue, accepted>>

(* Ends are inherited and closed; what nobody can read any more is gone.   *)
EndsChange ==
  /\ readers + writers > 0
  /\ readers' \in Nat /\ writers' \in Nat
  /\ queue' = IF readers' + writers' = 0 THEN <<>> ELSE queue
  /\ answer' = Silence
  /\ UNCHANGED accepted

Read(t) ==
  /\ \E n \in 1 .. Len(queue) :
       /\ Answers("read", t, n, SubSeq(queue, 1, n))
       /\ queue' = SubSeq(queue, n + 1, Len(queue))
  /\ UNCHANGED <<readers, writers, accepted>>

EndOfFile(t) ==
  /\ queue = <<>> /\ writers = 0
  /\ Answers("read", t, 0, <<>>)
  /\ UNCHANGED <<queue, readers, writers, accepted>>

Write(t) ==
  /\ readers > 0
  /\ \E s \in Strings :
       /\ Len(queue) + Len(s) <= Capacity
       /\ queue' = queue \o s
       /\ \/ /\ accepted' = [accepted EXCEPT ![t] = @ + Len(s)]
             /\ answer' = Silence
          \/ /\ accepted' = [accepted EXCEPT ![t] = 0]
             /\ Answers("write", t, accepted[t] + Len(s), <<>>)
  /\ UNCHANGED <<readers, writers>>

(* The readers have gone.                                                  *)
Broken(t) ==
  /\ readers = 0
  /\ Answers("write", t, IF accepted[t] = 0 THEN -1 ELSE accepted[t], <<>>)
  /\ accepted' = [accepted EXCEPT ![t] = 0]
  /\ UNCHANGED <<queue, readers, writers>>

(* A call on a descriptor that is not open.                                *)
Refused(t) ==
  /\ accepted[t] = 0
  /\ Answers("read", t, -1, <<>>) \/ Answers("write", t, -1, <<>>)
  /\ UNCHANGED <<queue, readers, writers, accepted>>

Die(S) ==
  /\ accepted' = [t \in Task |-> IF t \in S THEN 0 ELSE accepted[t]]
  /\ answer' = Silence
  /\ UNCHANGED <<queue, readers, writers>>

Next ==
  \/ Open \/ EndsChange
  \/ \E t \in Task : Read(t) \/ EndOfFile(t) \/ Write(t) \/ Broken(t) \/ Refused(t)
  \/ \E S \in SUBSET Task : Die(S)

Spec == Init /\ [][Next]_vars
=============================================================================
