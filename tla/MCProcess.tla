----------------------------- MODULE MCProcess -----------------------------
(* TLC instances of Process.                                               *)
EXTENDS Process

(* Programs wait for any child.                                            *)
AnyPid == {AnyChild}
=============================================================================
