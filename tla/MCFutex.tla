------------------------------ MODULE MCFutex ------------------------------
(* TLC instances of Futex: two tasks of one process and one of another.    *)
EXTENDS Futex, TLC
CONSTANTS t1, t2, t3, p, q, a, b
TwoAndOne == [t \in {t1, t2, t3} |-> IF t = t3 THEN q ELSE p]
TwoThreads == [t \in {t1, t2} |-> p]
NoOrTwoTicks == {NoTimeout, 2}
(* Addresses are alike, and so are two threads of one process.             *)
Alike == Permutations({a, b}) \cup Permutations({t1, t2})
OnlyZero == {0}
NeverTimed == {NoTimeout}
=============================================================================
