---------------------------- MODULE MCScheduler ----------------------------
(***************************************************************************)
(* Model checking Scheduler: the idle task and two others, a tick counter  *)
(* that wraps after eight ticks, delays of up to two ticks and interrupts  *)
(* that account for one or two ticks, so a deadline is met, missed by a    *)
(* tick and wrapped to zero.                                               *)
(***************************************************************************)
EXTENDS Scheduler
=============================================================================
