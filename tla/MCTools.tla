------------------------------ MODULE MCTools -------------------------------
(***************************************************************************)
(* The instance of ConfigTools for TLC.  The names of the services are     *)
(* strings, as the other values of a form, and there is no symmetry.       *)
(***************************************************************************)
EXTENDS ConfigTools, TLC

Declared == Service("declared", "set")

(* A host with one service: as it should be, with a socket in the home      *)
(* directory, with an empty command and socket, and without a command.      *)
MCHostTables ==
  {"a" :> e : e \in {Declared, [Declared EXCEPT !.socket = "tilde"],
                     [Declared EXCEPT !.runs = "void", !.socket = "void"],
                     [Declared EXCEPT !.runs = "nothing"]}}

Tuned == [ManifestEntry(Declared) EXCEPT !.socket = "tuned", !.rest = "tuned"]

(* A file made by hand: two services as they should be, or one that allows  *)
(* no client and one without any key.                                       *)
MCMuxTables ==
  {"a" :> Tuned @@ "b" :> Tuned,
   "a" :> [Tuned EXCEPT !.clients = "zero"] @@ "b" :> [k \in DOMAIN Tuned |-> Absent]}
=============================================================================
