----------------------------- MODULE SocketFile -----------------------------
(***************************************************************************)
(* Daemons and the path of their socket.  run_mux removes what is at the   *)
(* path, binds its own file there, and on shutdown removes, again, what is *)
(* at the path.  Nothing locks the path: `path` names the daemon whose     *)
(* file is there, which need not be the daemon that last touched it.       *)
(*                                                                         *)
(* daemon[d]: "off", "starting", "binding" (the old file removed),         *)
(* "listening", "leaving" (out of the accept loop), "joining" (the file    *)
(* removed, the listener still open, waiting for the tray's thread), and   *)
(* "exited", "failed" or "crashed".                                        *)
(***************************************************************************)
CONSTANTS
  Daemons, \* runs of the daemon on one socket path
  NoFile   \* nothing at the path

ASSUME SocketAssumption == NoFile \notin Daemons

VARIABLES
  daemon,    \* where each daemon is in run_mux
  path,      \* whose file is at the socket path
  overlapped \* whether two daemons have run at a time (history)

socketVars == <<daemon, path, overlapped>>

Ended == {"exited", "failed", "crashed"}
Running(d) == daemon[d] \notin {"off"} \cup Ended
Listening(d) == daemon[d] \in {"listening", "leaving", "joining"}

SocketInit ==
  /\ daemon = [d \in Daemons |-> "off"]
  /\ path = NoFile
  /\ overlapped = FALSE

Becomes(d, s) == daemon' = [daemon EXCEPT ![d] = s]

Start(d) ==
  /\ daemon[d] = "off"
  /\ overlapped' = (overlapped \/ \E e \in Daemons : Running(e))
  /\ Becomes(d, "starting")
  /\ UNCHANGED path

(* Mutant: a file left by a daemon that was killed is not removed.          *)
RemoveStale_Keeps(d) ==
  /\ daemon[d] = "starting"
  /\ Becomes(d, "binding")
  /\ UNCHANGED <<path, overlapped>>

(* The result is ignored: there may be no file.  If there is one, the       *)
(* removal succeeds: it takes the right to write to the directory, without  *)
(* which the bind fails in any case.                                        *)
RemoveStale(d) ==
  /\ daemon[d] = "starting"
  /\ path' = NoFile
  /\ Becomes(d, "binding")
  /\ UNCHANGED overlapped

(* Mutant: the path is cleared after the bind, not before it.               *)
Bind_ThenRemoves(d) ==
  /\ daemon[d] = "binding"
  /\ path' = NoFile
  /\ Becomes(d, "listening")
  /\ UNCHANGED overlapped

(* Fails with EADDRINUSE if there is a file, and run_mux with it.           *)
Bind(d) ==
  /\ daemon[d] = "binding"
  /\ \/ path = NoFile /\ path' = d /\ Becomes(d, "listening")
     \/ path # NoFile /\ UNCHANGED path /\ Becomes(d, "failed")
  /\ UNCHANGED overlapped

(* Ctrl+C or "Quit mux" breaks the accept loop.                             *)
Shutdown(d) ==
  /\ daemon[d] = "listening"
  /\ Becomes(d, "leaving")
  /\ UNCHANGED <<path, overlapped>>

(* Mutant: no clean-up on the way out.                                      *)
RemoveFile_Skips(d) ==
  /\ daemon[d] = "leaving"
  /\ Becomes(d, "joining")
  /\ UNCHANGED <<path, overlapped>>

(* Whoever's file it is by now.                                             *)
RemoveFile(d) ==
  /\ daemon[d] = "leaving"
  /\ path' = NoFile
  /\ Becomes(d, "joining")
  /\ UNCHANGED overlapped

Return(d) ==
  /\ daemon[d] = "joining"
  /\ Becomes(d, "exited")
  /\ UNCHANGED <<path, overlapped>>

Crash(d) ==
  /\ Running(d)
  /\ Becomes(d, "crashed")
  /\ UNCHANGED <<path, overlapped>>

SocketStep(d) ==
  \/ Start(d) \/ RemoveStale(d) \/ Bind(d)
  \/ Shutdown(d) \/ RemoveFile(d) \/ Return(d) \/ Crash(d)

SocketNext == \E d \in Daemons : SocketStep(d)

SocketSpec == SocketInit /\ [][SocketNext]_socketVars

-----------------------------------------------------------------------------
SocketTypeOK ==
  /\ daemon \in [Daemons -> {"off", "starting", "binding", "listening",
                             "leaving", "joining"} \cup Ended]
  /\ path \in Daemons \cup {NoFile}
  /\ overlapped \in BOOLEAN

(* A file at the path belongs to a daemon that listens or was killed: no    *)
(* daemon that ended on its own leaves one, in whatever order daemons that  *)
(* share the path come and go.                                              *)
NoOrphanFile == path # NoFile => daemon[path] \in {"listening", "leaving", "crashed"}

(* As long as daemons on a path do not overlap, one that accepts clients    *)
(* can be reached.  (Two that overlap remove each other's file.)            *)
Reachable == ~overlapped => \A d \in Daemons : daemon[d] = "listening" => path = d

(* The file of a killed daemon does not keep the next one from starting.    *)
StaleFileHarmless == (\E d \in Daemons : daemon[d] = "failed") => overlapped
=============================================================================
