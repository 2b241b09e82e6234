------------------------------ MODULE MCMinifs ------------------------------
(* TLC instances of Minifs: paths of one or two names.                     *)
EXTENDS Minifs
CONSTANTS na, nb
Shallow == {<<na>>, <<nb>>, <<na, nb>>}
=============================================================================
