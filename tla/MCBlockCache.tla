---------------------------- MODULE MCBlockCache ----------------------------
(* TLC instances of BlockCache: more sectors than entries.                 *)
EXTENDS BlockCache
=============================================================================
