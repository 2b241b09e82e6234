------------------------------ MODULE FairCpu ------------------------------
(***************************************************************************)
(* What the scheduler promises to the rest of the kernel.  There is one    *)
(* processor and a set of task slots.  A slot is off (unused, unfinished   *)
(* or dead), runnable, or waiting.  At every instant the processor serves  *)
(* one task.  A task stops being runnable only by its own act while it is  *)
(* being served, or because somebody killed it; others can only make it    *)
(* runnable.  The processor is never handed to a task that is not          *)
(* runnable, and no runnable task is kept off it for ever.                 *)
(*                                                                         *)
(* The other modules of this project (Process, Futex, Pipe) interleave     *)
(* the steps of runnable tasks in any order: this module is the licence to *)
(* do so, and module Scheduler is shown to implement it.                   *)
(***************************************************************************)
CONSTANT Task
VARIABLES mode,   \* mode[t]: "off", "runnable" or "waiting"
          cpu     \* the task being served

vars == <<mode, cpu>>

Mode == {"off", "runnable", "waiting"}

TypeOK == mode \in [Task -> Mode] /\ cpu \in Task

Init == /\ mode \in [Task -> Mode]
        /\ cpu \in Task
        /\ mode[cpu] = "runnable"

(* Only the task being served may give up being runnable; anybody may be   *)
(* woken, started or killed by others.                                     *)
LegalChange(t) ==
  \/ mode'[t] = mode[t]
  \/ mode'[t] = "off"
  \/ mode'[t] = "runnable"
  \/ mode[t] = "runnable" /\ t = cpu /\ mode'[t] = "waiting"

Step == /\ mode' \in [Task -> Mode]
        /\ cpu' \in Task
        /\ \A t \in Task : LegalChange(t)
        /\ cpu' # cpu => mode[cpu'] # "off" /\ mode'[cpu'] = "runnable"

(* The processor is handed to t.                                           *)
Dispatch(t) == cpu # t /\ mode[t] = "runnable" /\ Step /\ cpu' = t

Spec == Init /\ [][Step]_vars /\ \A t \in Task : WF_vars(Dispatch(t))
=============================================================================
