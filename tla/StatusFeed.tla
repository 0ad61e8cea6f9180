----------------------------- MODULE StatusFeed -----------------------------
(***************************************************************************)
(* How the state of the daemon becomes visible outside of it: tasks        *)
(* publish snapshots through a watch channel, one task writes them to the  *)
(* status file, another hands them to the tray's thread.  Over several     *)
(* lives of the daemon, since the files outlive it.                        *)
(*                                                                         *)
(* Snapshots differ only in their age: `current` numbers the states that   *)
(* the mutex has protected, and a snapshot is the number of the state it   *)
(* was taken of.                                                           *)
(*                                                                         *)
(* pub[t] is where a publishing task is: "idle", "changed" (out of its     *)
(* critical section, about to call publish_status) or "taken" (in          *)
(* publish_status, the mutex released, the snapshot not yet sent).         *)
(***************************************************************************)
EXTENDS Naturals

CONSTANTS
  Tasks,       \* tasks that change the state and publish it
  Manager,     \* the one of them that manages the child
  HasTray,     \* --tray
  Faults,      \* faults this instance explores
  MaxVersions, \* bound: states of all lives together
  MaxLives,    \* bound: starts of the daemon
  MaxErrors    \* bound: failures of a file operation, all lives together

ASSUME FeedAssumption ==
  /\ "reaper" \notin Tasks
  /\ Manager \in Tasks
  /\ HasTray \in BOOLEAN
  /\ Faults \subseteq {"crash", "shutdown", "disk_error", "tray_error", "restart_limit"}
  /\ MaxVersions \in Nat \ {0}
  /\ MaxLives \in Nat
  /\ MaxErrors \in Nat

VARIABLES
  main,      \* run_mux: "down", "running" or "joining" the tray's thread
  shutdown,  \* the CancellationToken
  held,      \* the mutex is held by a task that waits for it, for good
  birth,     \* the state this life began with
  current,   \* the state the mutex protects
  pub, snap, \* the publishing tasks
  feed,      \* the value in the watch channel
  unseen,    \* receivers that the value is new to: "writer", "tray"
  wr, wsnap, \* the status writer: "start", "waiting", "writing" or "renaming"
  file, tmp, \* the status file and its temporary file
  fwd,       \* the task that feeds the tray: "start" or "waiting"
  chan,      \* Option: bounded(1) to the tray's thread
  tray,      \* its thread: "off", "starting", "running" or "ended"
  shown,     \* Option: the snapshot the menu shows
  lives, errors

taskVars  == <<pub, snap>>
fileVars  == <<wr, wsnap, file, tmp, errors>>
trayVars  == <<fwd, chan, tray, shown>>
mainVars  == <<main, shutdown, held, birth, lives>>
feedVars  == <<mainVars, current, taskVars, feed, unseen, fileVars, trayVars>>

Versions == 1..MaxVersions
Publishers == Tasks \cup {"reaper"}
Receivers == {"writer"} \cup IF HasTray THEN {"tray"} ELSE {}

None == 0                \* no such file
Torn == MaxVersions + 1  \* a file opened for writing and not completed

Alive == main # "down"

Init ==
  /\ main = "down" /\ shutdown = FALSE /\ held = FALSE /\ birth = None /\ lives = 0
  /\ current = None
  /\ pub = [t \in Publishers |-> "idle"] /\ snap = [t \in Publishers |-> None]
  /\ feed = None /\ unseen = {}
  /\ wr = "start" /\ wsnap = None /\ file = None /\ tmp = None /\ errors = 0
  /\ fwd = "start" /\ chan = {} /\ tray = "off" /\ shown = {}

-----------------------------------------------------------------------------
(* The daemon's life.                                                       *)

(* A new state, a channel with its snapshot, and the tasks that read it.    *)
Start ==
  /\ main = "down" /\ lives < MaxLives /\ current < MaxVersions
  /\ main' = "running" /\ lives' = lives + 1
  /\ current' = current + 1 /\ birth' = current' /\ feed' = current'
  /\ tray' = IF HasTray THEN "starting" ELSE "off"
  /\ UNCHANGED <<shutdown, held, taskVars, unseen, fileVars, fwd, chan, shown>>

(* The process ends: of all this only the files are left.                   *)
ProcessEnds ==
  /\ main' = "down" /\ shutdown' = FALSE /\ held' = FALSE /\ birth' = None /\ feed' = None
  /\ unseen' = {}
  /\ pub' = [t \in Publishers |-> "idle"] /\ snap' = [t \in Publishers |-> None]
  /\ wr' = "start" /\ wsnap' = None
  /\ fwd' = "start" /\ chan' = {} /\ tray' = "off" /\ shown' = {}
  /\ UNCHANGED <<current, lives, file, tmp, errors>>

(* Ctrl+C.                                                                  *)
CtrlC ==
  /\ "shutdown" \in Faults
  /\ Alive /\ ~shutdown
  /\ shutdown' = TRUE
  /\ UNCHANGED <<main, held, birth, lives, current, taskVars, feed, unseen, fileVars, trayVars>>

(* The accept loop ends; the tray's thread is joined while tasks go on.     *)
MainLeaves ==
  /\ main = "running" /\ shutdown
  /\ main' = "joining"
  /\ UNCHANGED <<shutdown, held, birth, lives, current, taskVars, feed, unseen, fileVars, trayVars>>

(* run_mux returns; the runtime drops every task where it is.               *)
MainExits ==
  /\ main = "joining"
  /\ tray \in {"off", "ended"}
  /\ ProcessEnds

Crash ==
  /\ "crash" \in Faults
  /\ Alive
  /\ ProcessEnds

-----------------------------------------------------------------------------
(* Publishing.                                                              *)

(* A critical section that a publish_status follows.                        *)
Change(t) ==
  /\ Alive /\ ~held
  /\ pub[t] = "idle" /\ current < MaxVersions
  /\ current' = current + 1
  /\ pub' = [pub EXCEPT ![t] = "changed"]
  /\ UNCHANGED <<mainVars, snap, feed, unseen, fileVars, trayVars>>

(* One that none follows: the manager's update_queue_depth after recv().    *)
ChangeSilently ==
  /\ Alive /\ ~held
  /\ current < MaxVersions
  /\ current' = current + 1
  /\ UNCHANGED <<mainVars, taskVars, feed, unseen, fileVars, trayVars>>

(* The restart limit: the manager sets `Failed` and calls publish_status     *)
(* with the guard in its hands, which waits for the mutex.  From here on no *)
(* task gets it; the state it protects is never in a snapshot.              *)
GiveUp ==
  /\ "restart_limit" \in Faults
  /\ Alive /\ ~held
  /\ pub[Manager] = "idle" /\ current < MaxVersions
  /\ current' = current + 1
  /\ held' = TRUE
  /\ UNCHANGED <<main, shutdown, birth, lives, taskVars, feed, unseen, fileVars, trayVars>>

(* Mutant: a tick that found nothing expired does not publish.              *)
Tick_OnlyIfExpired ==
  /\ Alive /\ ~shutdown /\ ~held
  /\ pub["reaper"] = "idle" /\ current < MaxVersions
  /\ pub' = [pub EXCEPT !["reaper"] = "changed"]
  /\ current' = current + 1
  /\ UNCHANGED <<mainVars, snap, feed, unseen, fileVars, trayVars>>

(* The reaper publishes on every tick, whatever has expired.                *)
Tick ==
  /\ Alive /\ ~shutdown /\ ~held
  /\ pub["reaper"] = "idle"
  /\ pub' = [pub EXCEPT !["reaper"] = "changed"]
  /\ UNCHANGED <<mainVars, current, snap, feed, unseen, fileVars, trayVars>>

TakeSnapshot(t) ==
  /\ Alive /\ ~held
  /\ pub[t] = "changed"
  /\ snap' = [snap EXCEPT ![t] = current]
  /\ pub' = [pub EXCEPT ![t] = "taken"]
  /\ UNCHANGED <<mainVars, current, feed, unseen, fileVars, trayVars>>

(* Outside the mutex: it may overwrite the snapshot of a later state.       *)
SendSnapshot(t) ==
  /\ Alive
  /\ pub[t] = "taken"
  /\ feed' = snap[t]
  /\ unseen' = Receivers
  /\ pub' = [pub EXCEPT ![t] = "idle"]
  /\ snap' = [snap EXCEPT ![t] = None]
  /\ UNCHANGED <<mainVars, current, fileVars, trayVars>>

-----------------------------------------------------------------------------
(* The status file.                                                         *)

(* The value as it is when the writer gets to it, and the temporary file    *)
(* opened and truncated.  The first time there is nothing to wait for.      *)
WriterTakes ==
  /\ Alive
  /\ \/ wr = "start" /\ UNCHANGED unseen
     \/ wr = "waiting" /\ "writer" \in unseen /\ unseen' = unseen \ {"writer"}
  /\ wsnap' = feed
  /\ tmp' = Torn
  /\ wr' = "writing"
  /\ UNCHANGED <<mainVars, current, taskVars, feed, file, errors, trayVars>>

CompleteTmp ==
  /\ Alive
  /\ wr = "writing"
  /\ tmp' = wsnap
  /\ wr' = "renaming"
  /\ UNCHANGED <<mainVars, current, taskVars, feed, unseen, wsnap, file, errors, trayVars>>

(* Mutant: the value is marked as seen when it is in the file.              *)
RenameTmp_MarksSeen ==
  /\ Alive
  /\ wr = "renaming"
  /\ file' = tmp
  /\ tmp' = None
  /\ wr' = "waiting" /\ wsnap' = None
  /\ unseen' = unseen \ {"writer"}
  /\ UNCHANGED <<mainVars, current, taskVars, feed, errors, trayVars>>

RenameTmp ==
  /\ Alive
  /\ wr = "renaming"
  /\ file' = tmp
  /\ tmp' = None
  /\ wr' = "waiting" /\ wsnap' = None
  /\ UNCHANGED <<mainVars, current, taskVars, feed, unseen, errors, trayVars>>

(* Mutant: the rename goes ahead although the write failed.                 *)
WriteStatusFails_RenamesAnyway ==
  /\ "disk_error" \in Faults /\ errors < MaxErrors
  /\ Alive
  /\ wr \in {"writing", "renaming"}
  /\ errors' = errors + 1
  /\ wr' = IF wr = "writing" THEN "renaming" ELSE "waiting"
  /\ UNCHANGED <<mainVars, current, taskVars, feed, unseen, wsnap, file, tmp, trayVars>>

(* Logged; what was written of the temporary file stays.                    *)
WriteStatusFails ==
  /\ "disk_error" \in Faults /\ errors < MaxErrors
  /\ Alive
  /\ wr \in {"writing", "renaming"}
  /\ errors' = errors + 1
  /\ wr' = "waiting" /\ wsnap' = None
  /\ UNCHANGED <<mainVars, current, taskVars, feed, unseen, file, tmp, trayVars>>

-----------------------------------------------------------------------------
(* The tray.                                                                *)

(* send_latest: a full channel keeps the older snapshot.                    *)
SendLatest == chan' = IF chan = {} THEN {feed} ELSE chan

(* Mutant: the first snapshot is only sent when the state changes.          *)
ForwardFirst_WaitsForChange ==
  /\ HasTray /\ Alive
  /\ fwd = "start"
  /\ fwd' = "waiting"
  /\ UNCHANGED <<mainVars, current, taskVars, feed, unseen, fileVars, chan, tray, shown>>

ForwardFirst ==
  /\ HasTray /\ Alive
  /\ fwd = "start"
  /\ SendLatest
  /\ fwd' = "waiting"
  /\ UNCHANGED <<mainVars, current, taskVars, feed, unseen, fileVars, tray, shown>>

(* Mutant: the task gives up when the thread lags.                          *)
Forward_StopsWhenFull ==
  /\ HasTray /\ Alive
  /\ fwd = "waiting" /\ "tray" \in unseen
  /\ SendLatest
  /\ unseen' = unseen \ {"tray"}
  /\ fwd' = IF chan = {} THEN fwd ELSE "ended"
  /\ UNCHANGED <<mainVars, current, taskVars, feed, fileVars, tray, shown>>

Forward ==
  /\ HasTray /\ Alive
  /\ fwd = "waiting" /\ "tray" \in unseen
  /\ SendLatest
  /\ unseen' = unseen \ {"tray"}
  /\ UNCHANGED <<mainVars, current, taskVars, feed, fileVars, fwd, tray, shown>>

Shows == /\ shown' = chan
         /\ chan' = {}

(* snap_rx.recv() blocks until there is a snapshot to build the menu from.  *)
TrayStarts ==
  /\ Alive
  /\ tray = "starting" /\ chan # {}
  /\ Shows
  /\ \/ tray' = "running"
     \/ "tray_error" \in Faults /\ tray' = "ended"
  /\ UNCHANGED <<mainVars, current, taskVars, feed, unseen, fileVars, fwd>>

TrayReceives ==
  /\ Alive
  /\ tray = "running" /\ chan # {}
  /\ Shows
  /\ UNCHANGED <<mainVars, current, taskVars, feed, unseen, fileVars, fwd, tray>>

(* "Quit mux" in the menu.                                                  *)
TrayQuits ==
  /\ "shutdown" \in Faults
  /\ Alive
  /\ tray = "running"
  /\ shutdown' = TRUE
  /\ tray' = "ended"
  /\ UNCHANGED <<main, held, birth, lives, current, taskVars, feed, unseen, fileVars, fwd, chan, shown>>

(* The stop channel, filled when shutdown is cancelled.                     *)
TrayStops ==
  /\ Alive
  /\ tray = "running" /\ shutdown
  /\ tray' = "ended"
  /\ UNCHANGED <<mainVars, current, taskVars, feed, unseen, fileVars, fwd, chan, shown>>

-----------------------------------------------------------------------------
Next ==
  \/ Start \/ CtrlC \/ MainLeaves \/ MainExits \/ Crash
  \/ \E t \in Tasks : Change(t)
  \/ ChangeSilently \/ GiveUp \/ Tick
  \/ \E t \in Publishers : TakeSnapshot(t) \/ SendSnapshot(t)
  \/ WriterTakes \/ CompleteTmp \/ RenameTmp \/ WriteStatusFails
  \/ ForwardFirst \/ Forward
  \/ TrayStarts \/ TrayReceives \/ TrayQuits \/ TrayStops

Spec == Init /\ [][Next]_feedVars

(* Each task and the tray's thread runs on, and the ticker ticks, as long   *)
(* as the mutex is let go; nothing is assumed of what changes the state,    *)
(* and a disk fails MaxErrors times at most.                                *)
Fairness ==
  /\ WF_feedVars(MainLeaves \/ MainExits)
  /\ WF_feedVars(Tick)
  /\ \A t \in Publishers : WF_feedVars(TakeSnapshot(t) \/ SendSnapshot(t))
  /\ WF_feedVars(WriterTakes \/ CompleteTmp \/ RenameTmp)
  /\ WF_feedVars(ForwardFirst \/ Forward)
  /\ WF_feedVars(TrayStarts \/ TrayReceives \/ TrayStops)

FairSpec == Spec /\ Fairness

-----------------------------------------------------------------------------
(* Type invariant of the feed and the files.                                *)
TypeOK ==
  /\ main \in {"down", "running", "joining"} /\ shutdown \in BOOLEAN
  /\ held \in BOOLEAN
  /\ current \in 0..MaxVersions /\ birth \in 0..current
  /\ pub \in [Publishers -> {"idle", "changed", "taken"}]
  /\ snap \in [Publishers -> 0..current]
  /\ feed \in 0..current /\ unseen \subseteq Receivers
  /\ wr \in {"start", "waiting", "writing", "renaming"} /\ wsnap \in 0..current
  /\ file \in 0..current /\ tmp \in 0..current \cup {Torn}
  /\ fwd \in {"start", "waiting"}
  /\ chan \subseteq 0..current /\ shown \subseteq 0..current
  /\ tray \in {"off", "starting", "running", "ended"}
  /\ lives \in 0..MaxLives /\ errors \in 0..MaxErrors

(* A reader of the status file finds a complete snapshot, and once a daemon  *)
(* has replaced the file, one of its own: whatever a crash or a full disk    *)
(* left in the temporary file never gets there.                              *)
FileReplacedWhole == [][file' # file => file' \in birth..current]_feedVars

(* No snapshot is lost between a publisher and the writer: one that waits    *)
(* has the value of the channel in the file, and one that is busy has it in  *)
(* hand, or else a newer one is announced to it.  As long as no write failed. *)
NoLostUpdate ==
  Alive /\ errors = 0 /\ "writer" \notin unseen =>
    /\ wr = "waiting" => file = feed
    /\ wr \in {"writing", "renaming"} => wsnap = feed

(* Where run_mux joins the tray's thread, something is there to wake it: the *)
(* snapshot it waits for, the task that has yet to send one, or the signal.  *)
JoinWakes ==
  /\ main = "joining" => shutdown
  /\ tray = "starting" => chan # {} \/ fwd = "start"

Serving == main = "running" /\ ~shutdown

Changes == []<><<current' # current>>_current

(* A state that lasts is in the status file in the end, although snapshots   *)
(* overtake each other, changes go unpublished and writes fail: the reaper's *)
(* ticks publish it again.  But not `Failed` at the restart limit, which     *)
(* nobody can take a snapshot of: there the file keeps an older state.       *)
FileCatchesUp == Changes \/ []<>(file = current \/ held \/ ~Serving)

(* And in the tray's menu, although a full channel drops the newer snapshot; *)
(* with the same exception.                                                  *)
TrayCatchesUp ==
  Changes \/ []<>(shown = {current} \/ held \/ ~Serving \/ tray # "running")

(* run_mux waits for the tray's thread, which waits for a snapshot or a      *)
(* signal: whenever shutdown comes both end, though the mutex never be free. *)
ShutdownEnds == (Alive /\ shutdown) ~> ~Alive
=============================================================================
