---------------------------- MODULE MCScheduler -----------------------------
(***************************************************************************)
(* Two CPUs, one kernel thread and two user processes.                     *)
(***************************************************************************)
EXTENDS Scheduler, TLC

CONSTANTS c1, c2, i1, i2, k1, u1, u2

MCInitThread == c1 :> i1 @@ c2 :> i2
=============================================================================
