---------------------------- MODULE MCEndpoints -----------------------------
(***************************************************************************)
(* The instance of Endpoints for TLC.  Its run has liveness properties and *)
(* uses no symmetry.                                                       *)
(***************************************************************************)
EXTENDS Endpoints
=============================================================================
