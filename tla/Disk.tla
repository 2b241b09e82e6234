-------------------------------- MODULE Disk --------------------------------
(***************************************************************************)
(* What the file system needs of a disk behind a cache: a read answers     *)
(* what was last written, a flush that succeeds leaves nothing a loss of   *)
(* power could take back, and a call that fails changes nothing that can   *)
(* be read.                                                                *)
(***************************************************************************)
EXTENDS Integers

CONSTANTS Lba,   \* the sectors
          Data   \* what a sector may hold

VARIABLES contents,   \* contents[l]: what a read of l answers
          stable,     \* stable[l]: what a loss of power may leave in l
          answer      \* what the call that has just ended answered

vars == <<contents, stable, answer>>

Silence == [call |-> "none", code |-> 0]
Answers(c, code) == answer' = [call |-> c, code |-> code]

Init ==
  /\ contents \in [Lba -> Data]
  /\ stable = [l \in Lba |-> {contents[l]}]
  /\ answer = Silence

(* Sectors reach the medium at any time and in any order.                  *)
Settle ==
  /\ stable' \in [Lba -> (SUBSET Data) \ {{}}]
  /\ \A l \in Lba : stable'[l] \subseteq stable[l] \cup {contents[l]}

Drift == Settle /\ answer' = Silence /\ UNCHANGED contents

Read(l) ==
  /\ answer' = [call |-> "read", code |-> 0, lba |-> l, data |-> contents[l]]
  /\ UNCHANGED <<contents, stable>>

Write(l, d) ==
  /\ contents' = [contents EXCEPT ![l] = d]
  /\ Answers("write", 0)
  /\ UNCHANGED stable

Flush ==
  /\ stable' = [l \in Lba |-> {contents[l]}]
  /\ Answers("flush", 0)
  /\ UNCHANGED contents

Fail ==
  /\ Settle
  /\ \E c \in {"read", "write", "flush"} : Answers(c, -1)
  /\ UNCHANGED contents

PowerLoss ==
  /\ contents' \in [Lba -> Data]
  /\ \A l \in Lba : contents'[l] \in stable[l]
  /\ stable' = [l \in Lba |-> {contents'[l]}]
  /\ answer' = Silence

Next ==
  \/ Drift \/ Flush \/ Fail \/ PowerLoss
  \/ \E l \in Lba : Read(l) \/ \E d \in Data : Write(l, d)

Spec == Init /\ [][Next]_vars
=============================================================================
