----------------------------- MODULE WaitQueue -----------------------------
(***************************************************************************)
(* What the futex calls promise.  A task that calls futex_wait joins the   *)
(* queue of an address, unless it returns at once: the value is not the    *)
(* expected one (0), its time is already up (-2) or the table is full      *)
(* (-1), and it is full only while that many tasks are in a call.          *)
(* futex_wake takes count tasks out of that queue, all of them when count  *)
(* is 0 or fewer are there, and answers how many; every task it has taken  *)
(* returns 0, unless it is killed first.  A task may also give up: the     *)
(* value has changed (0) or its time is up (-2).                           *)
(***************************************************************************)
EXTENDS Integers, FiniteSets

CONSTANTS Task, Addr, NoAddr, Capacity, Counts

VARIABLES queue,     \* queue[t]: the address t waits at, or NoAddr
          signalled, \* tasks taken out by a wake, on their way back
          answer     \* what the call that has just ended answered, and to whom

vars == <<queue, signalled, answer>>

Silence == [call |-> "none", arg |-> <<>>, code |-> 0]
WaitAnswers(t, code) == answer' = [call |-> "wait", arg |-> <<t>>, code |-> code]
WakeAnswers(a, n, code) == answer' = [call |-> "wake", arg |-> <<a, n>>, code |-> code]

At(a) == {t \in Task : queue[t] = a}
Inside == {t \in Task : queue[t] # NoAddr} \cup signalled

Init == queue = [t \in Task |-> NoAddr] /\ signalled = {} /\ answer = Silence

Join(t) ==
  /\ t \notin Inside /\ Cardinality(Inside) < Capacity
  /\ \E a \in Addr : queue' = [queue EXCEPT ![t] = a]
  /\ answer' = Silence
  /\ UNCHANGED signalled

Refuse(t) ==
  /\ t \notin Inside
  /\ \/ WaitAnswers(t, 0)
     \/ Cardinality(Inside) < Capacity /\ WaitAnswers(t, -2)
     \/ Cardinality(Inside) = Capacity /\ WaitAnswers(t, -1)
  /\ UNCHANGED <<queue, signalled>>

Wake(a, n) ==
  \E S \in SUBSET At(a) :
    /\ IF n = 0 \/ Cardinality(At(a)) <= n THEN S = At(a) ELSE Cardinality(S) = n
    /\ queue' = [t \in Task |-> IF t \in S THEN NoAddr ELSE queue[t]]
    /\ signalled' = signalled \cup S
    /\ WakeAnswers(a, n, Cardinality(S))

Return(t) ==
  /\ t \in signalled
  /\ signalled' = signalled \ {t}
  /\ WaitAnswers(t, 0)
  /\ UNCHANGED queue

GiveUp(t) ==
  /\ queue[t] # NoAddr
  /\ queue' = [queue EXCEPT ![t] = NoAddr]
  /\ WaitAnswers(t, 0) \/ WaitAnswers(t, -2)
  /\ UNCHANGED signalled

Die(S) ==   \* the tasks of a process are killed (or nothing happens)
  /\ queue' = [t \in Task |-> IF t \in S THEN NoAddr ELSE queue[t]]
  /\ signalled' = signalled \ S
  /\ answer' = Silence

Next ==
  \/ \E t \in Task : Join(t) \/ Refuse(t) \/ Return(t) \/ GiveUp(t)
  \/ \E a \in Addr, n \in Counts : Wake(a, n)
  \/ \E S \in SUBSET Task : Die(S)

Gone(t) == Return(t) \/ (t \in signalled /\ \E S \in SUBSET Task : t \in S /\ Die(S))

Spec == Init /\ [][Next]_vars /\ \A t \in Task : WF_vars(Gone(t))
=============================================================================
