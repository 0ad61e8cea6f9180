------------------------------- MODULE MCMux -------------------------------
(***************************************************************************)
(* Instances of Mux for TLC.  Connections are interchangeable: nothing     *)
(* compares them, and the safety runs use that symmetry.                   *)
(***************************************************************************)
EXTENDS Mux, TLC

ClientSymmetry == Permutations(Clients)
=============================================================================
