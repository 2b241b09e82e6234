------------------------------ MODULE FileTree ------------------------------
(***************************************************************************)
(* What a file system promises of its names: each call changes one name or *)
(* the size of one file, or nothing, and the names stay a tree.            *)
(***************************************************************************)
EXTENDS Integers

CONSTANTS Node, Root, Name

VARIABLES kind,    \* kind[i]: "free", "file" or "dir"
          names,   \* the names: node i is called name in directory dir
          size     \* the sizes of the files

vars == <<kind, names, size>>

Init ==
  /\ kind = [i \in Node |-> IF i = Root THEN "dir" ELSE "free"]
  /\ names = {}
  /\ size = [i \in Node |-> 0]

Named(d, n) == \E e \in names : e.dir = d /\ e.name = n

(* Node d is node i or below it.                                           *)
Below(d, i) ==
  \A S \in SUBSET Node :
    i \in S /\ (\A e \in names : e.dir \in S => e.node \in S) => d \in S

Make(d, n, i, k) ==
  /\ kind[d] = "dir" /\ ~Named(d, n)
  /\ kind[i] = "free"
  /\ kind' = [kind EXCEPT ![i] = k]
  /\ names' = names \cup {[dir |-> d, name |-> n, node |-> i]}
  /\ UNCHANGED size

Erase(e) ==
  /\ \A f \in names : f.dir # e.node
  /\ kind' = [kind EXCEPT ![e.node] = "free"]
  /\ names' = names \ {e}
  /\ size' = [size EXCEPT ![e.node] = 0]

Move(e, d, n) ==
  /\ kind[d] = "dir" /\ ~Named(d, n)
  /\ ~Below(d, e.node)
  /\ names' = (names \ {e}) \cup {[dir |-> d, name |-> n, node |-> e.node]}
  /\ UNCHANGED <<kind, size>>

Resize(i) ==
  /\ kind[i] = "file"
  /\ size' \in [Node -> Nat] /\ \A j \in Node \ {i} : size'[j] = size[j]
  /\ UNCHANGED <<kind, names>>

Next ==
  \/ \E d \in Node, n \in Name : \/ \E i \in Node, k \in {"file", "dir"} : Make(d, n, i, k)
                                 \/ \E e \in names : Move(e, d, n)
  \/ \E e \in names : Erase(e)
  \/ \E i \in Node : Resize(i)

Spec == Init /\ [][Next]_vars
=============================================================================
