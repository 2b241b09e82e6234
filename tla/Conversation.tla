---------------------------- MODULE Conversation ----------------------------
(***************************************************************************)
(* What a connected stream socket promises its process.  What recv hands   *)
(* out is what the peer wrote, each byte once and in order.  An end of     *)
(* file comes only when everything up to the end of the peer's stream is   *)
(* here, or when the connection has been broken off.  A send that answers  *)
(* its count answers it when all of its bytes have reached the peer.       *)
(***************************************************************************)
EXTENDS Integers, Sequences

VARIABLES written,   \* how many bytes the peer has written: 1, 2, 3, ...
          ended,     \* the peer has ended its stream
          arrived,   \* how many of them are here
          taken,     \* the bytes recv has handed out
          offered,   \* how many bytes send has taken from its callers
          reached,   \* how many of those the peer has
          broken,    \* the connection was broken off
          answer     \* what the call that has just ended answered

vars == <<written, ended, arrived, taken, offered, reached, broken, answer>>

Silence == [call |-> "none", code |-> 0, bytes |-> <<>>, upto |-> 0]
Quiet == answer' = Silence

Init ==
  /\ written = 0 /\ ~ended /\ arrived = 0 /\ taken = <<>>
  /\ offered = 0 /\ reached = 0 /\ ~broken
  /\ answer = Silence

PeerWrites ==
  /\ ~ended
  /\ written' = written + 1
  /\ Quiet
  /\ UNCHANGED <<ended, arrived, taken, offered, reached, broken>>

PeerEnds ==
  /\ ended' = TRUE
  /\ Quiet
  /\ UNCHANGED <<written, arrived, taken, offered, reached, broken>>

Arrive ==
  /\ arrived' \in arrived .. written
  /\ Quiet
  /\ UNCHANGED <<written, ended, taken, offered, reached, broken>>

Reach ==
  /\ reached' \in reached .. offered
  /\ Quiet
  /\ UNCHANGED <<written, ended, arrived, taken, offered, broken>>

Break ==
  /\ broken' = TRUE
  /\ Quiet
  /\ UNCHANGED <<written, ended, arrived, taken, offered, reached>>

Recv ==
  /\ \E n \in Len(taken) + 1 .. arrived :
       LET bytes == [i \in 1 .. n - Len(taken) |-> Len(taken) + i] IN
       /\ taken' = taken \o bytes
       /\ answer' = [call |-> "recv", code |-> Len(bytes), bytes |-> bytes, upto |-> 0]
  /\ UNCHANGED <<written, ended, arrived, offered, reached, broken>>

EndOfFile ==
  /\ broken \/ (ended /\ arrived = written)
  /\ answer' = [Silence EXCEPT !.call = "recv"]
  /\ UNCHANGED <<written, ended, arrived, taken, offered, reached, broken>>

(* A part of what a send was called with goes out, or the call fails.      *)
Offer ==
  /\ offered' \in Nat /\ offered' >= offered
  /\ Quiet \/ answer' = [Silence EXCEPT !.call = "send", !.code = -1]
  /\ UNCHANGED <<written, ended, arrived, taken, reached, broken>>

Sent ==
  /\ \E n \in 1 .. reached : \E upto \in n .. reached :
       answer' = [Silence EXCEPT !.call = "send", !.code = n, !.upto = upto]
  /\ UNCHANGED <<written, ended, arrived, taken, offered, reached, broken>>

Fail ==
  /\ \E c \in {"connect", "send", "recv"} : answer' = [Silence EXCEPT !.call = c, !.code = -1]
  /\ UNCHANGED <<written, ended, arrived, taken, offered, reached, broken>>

(* A new connection, or none.                                              *)
Restart ==
  /\ written' = 0 /\ ~ended' /\ arrived' = 0 /\ taken' = <<>>
  /\ offered' = 0 /\ reached' = 0 /\ ~broken'
  /\ Quiet \/ answer' = [Silence EXCEPT !.call = "connect", !.code = -1]

Connected ==
  /\ answer' = [Silence EXCEPT !.call = "connect"]
  /\ UNCHANGED <<written, ended, arrived, taken, offered, reached, broken>>

Next ==
  \/ PeerWrites \/ PeerEnds \/ Arrive \/ Reach \/ Break
  \/ Recv \/ EndOfFile \/ Offer \/ Sent \/ Fail \/ Restart \/ Connected

Spec == Init /\ [][Next]_vars
=============================================================================
