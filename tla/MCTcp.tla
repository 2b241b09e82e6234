------------------------------- MODULE MCTcp -------------------------------
(* A TLC instance of Tcp: two threads, and numbers that wrap around.       *)
EXTENDS Tcp
CONSTANTS t1, t2
=============================================================================
