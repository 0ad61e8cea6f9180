------------------------------ MODULE MCStatus ------------------------------
(***************************************************************************)
(* The instance of StatusFeed for TLC.  Its run has liveness properties    *)
(* and uses no symmetry.                                                   *)
(***************************************************************************)
EXTENDS StatusFeed
=============================================================================
