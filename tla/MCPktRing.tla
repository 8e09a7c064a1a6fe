----------------------------- MODULE MCPktRing -----------------------------
(***************************************************************************)
(* Instances of PktRing for TLC.  EthMax is 1, so that a frame of length 1 *)
(* fits a slot and one of length 2 does not; Word is 2, so that the drop   *)
(* counter carries and wraps.                                              *)
(***************************************************************************)
EXTENDS PktRing

=============================================================================
