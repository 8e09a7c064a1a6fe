---------------------------- MODULE MCEventQueue ----------------------------
(***************************************************************************)
(* Instances of EventQueue for TLC: a day of a few ticks, so that every    *)
(* order of ticks, midnights, samples and callbacks occurs.                *)
(***************************************************************************)
EXTENDS EventQueue

=============================================================================
