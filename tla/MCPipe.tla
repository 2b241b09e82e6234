------------------------------- MODULE MCPipe -------------------------------
(* TLC instances of Pipe: a process with two threads, and its child.       *)
EXTENDS Pipe
CONSTANTS t1, t2, t3, parent, child
Family == [t \in {t1, t2, t3} |-> IF t = t3 THEN child ELSE parent]
Alternating == [n \in Writes |-> [i \in 1 .. n |-> i % 2]]
=============================================================================
