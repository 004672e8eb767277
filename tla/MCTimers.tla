------------------------------- MODULE MCTimers -------------------------------
(***************************************************************************)
(* An instance of Timers for TLC.  Nothing tells the events apart.         *)
(***************************************************************************)
EXTENDS Timers

Symmetry == Permutations(Events)
==============================================================================
