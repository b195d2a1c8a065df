---------------------------- MODULE MCAutoSwitch ----------------------------
(***************************************************************************)
(* Instances of AutoSwitch for TLC.                                        *)
(***************************************************************************)
EXTENDS AutoSwitch, TLC
=============================================================================
