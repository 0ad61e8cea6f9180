---------------------------- MODULE StatusProofs ----------------------------
(***************************************************************************)
(* The status file and the tray, for any number of tasks, states, lives of *)
(* the daemon and failures.                                                *)
(***************************************************************************)
EXTENDS StatusFeed, TLAPS

Own(v) == v \in birth..current

(* Snapshots that are on their way, in the channel or in the writer's hands *)
(* are of this life; a temporary file about to be renamed is complete.      *)
FeedInv ==
  IF Alive
  THEN /\ Own(feed)
       /\ \A t \in Publishers : pub[t] = "taken" => Own(snap[t])
       /\ wr \in {"writing", "renaming"} => Own(wsnap)
       /\ wr = "renaming" => tmp = wsnap
  ELSE /\ wr = "start"
       /\ \A t \in Publishers : pub[t] = "idle"

Inv == TypeOK /\ FeedInv

LEMMA InvInit == Init => Inv
<1>1. ASSUME Init PROVE TypeOK
  <2>1. None \in 0..current /\ current \in 0..MaxVersions
    BY <1>1, FeedAssumption DEF Init, None
  <2>2. /\ pub \in [Publishers -> {"idle", "changed", "taken"}]
        /\ snap \in [Publishers -> 0..current]
    BY <1>1, <2>1 DEF Init
  <2>3. lives \in 0..MaxLives /\ errors \in 0..MaxErrors
    BY <1>1, FeedAssumption DEF Init
  <2>4. QED BY <1>1, <2>1, <2>2, <2>3 DEF Init, TypeOK
<1>2. Init => FeedInv
  BY DEF Init, FeedInv, Alive
<1>3. QED BY <1>1, <1>2 DEF Inv

-----------------------------------------------------------------------------
(* The type invariant, by part of the daemon.                               *)
LEMMA LifeKeepsType ==
  ASSUME TypeOK, Start \/ CtrlC \/ MainLeaves \/ MainExits \/ Crash
  PROVE  TypeOK'
<1> USE FeedAssumption DEF TypeOK, mainVars, taskVars, fileVars, trayVars
<1>1. CASE Start BY <1>1 DEF Start
<1>2. CASE CtrlC BY <1>2 DEF CtrlC
<1>3. CASE MainLeaves BY <1>3 DEF MainLeaves
<1>4. CASE ProcessEnds
  <2>1. None \in 0..current BY DEF None
  <2>2. birth' \in 0..current' /\ feed' \in 0..current' /\ wsnap' \in 0..current'
    BY <1>4, <2>1 DEF ProcessEnds
  <2>3. /\ pub' \in [Publishers -> {"idle", "changed", "taken"}]
        /\ snap' \in [Publishers -> 0..current']
    BY <1>4, <2>1 DEF ProcessEnds
  <2>4. QED BY <1>4, <2>2, <2>3 DEF ProcessEnds
<1>5. QED BY <1>1, <1>2, <1>3, <1>4 DEF MainExits, Crash

LEMMA PublishingKeepsType ==
  ASSUME TypeOK,
         \/ ChangeSilently \/ GiveUp \/ Tick
         \/ \E t \in Tasks : Change(t)
         \/ \E t \in Publishers : TakeSnapshot(t) \/ SendSnapshot(t)
  PROVE  TypeOK'
<1> USE FeedAssumption DEF TypeOK, Publishers, mainVars, taskVars, fileVars, trayVars
<1>1. CASE ChangeSilently \/ GiveUp
  <2>1. current' \in 0..MaxVersions /\ 0..current \subseteq 0..current'
    BY <1>1 DEF ChangeSilently, GiveUp
  <2>2. CASE ChangeSilently BY <2>1, <2>2 DEF ChangeSilently, Receivers
  <2>3. CASE GiveUp BY <2>1, <2>3 DEF GiveUp, Receivers
  <2>4. QED BY <1>1, <2>2, <2>3
<1>2. CASE Tick BY <1>2 DEF Tick, Receivers
<1>3. ASSUME NEW t \in Tasks, Change(t) PROVE TypeOK'
  BY <1>3 DEF Change, Receivers
<1>4. ASSUME NEW t \in Publishers, TakeSnapshot(t) PROVE TypeOK'
  BY <1>4 DEF TakeSnapshot, Receivers
<1>5. ASSUME NEW t \in Publishers, SendSnapshot(t) PROVE TypeOK'
  BY <1>5 DEF SendSnapshot, None, Receivers
<1>6. QED BY <1>1, <1>2, <1>3, <1>4, <1>5

LEMMA WriterKeepsType ==
  ASSUME TypeOK, WriterTakes \/ CompleteTmp \/ (RenameTmp /\ tmp = wsnap) \/ WriteStatusFails
  PROVE  TypeOK'
<1> USE FeedAssumption DEF TypeOK, Receivers, mainVars, taskVars, trayVars
<1>1. CASE WriterTakes BY <1>1 DEF WriterTakes
<1>2. CASE CompleteTmp BY <1>2 DEF CompleteTmp
<1>3. CASE RenameTmp /\ tmp = wsnap BY <1>3 DEF RenameTmp, None
<1>4. CASE WriteStatusFails BY <1>4 DEF WriteStatusFails, None
<1>5. QED BY <1>1, <1>2, <1>3, <1>4

LEMMA TrayKeepsType ==
  ASSUME TypeOK, ForwardFirst \/ Forward \/ TrayStarts \/ TrayReceives \/ TrayQuits \/ TrayStops
  PROVE  TypeOK'
<1> USE FeedAssumption DEF TypeOK, Receivers, mainVars, taskVars, fileVars, SendLatest, Shows
<1>1. CASE ForwardFirst BY <1>1 DEF ForwardFirst
<1>2. CASE Forward BY <1>2 DEF Forward
<1>3. CASE TrayStarts BY <1>3 DEF TrayStarts
<1>4. CASE TrayReceives BY <1>4 DEF TrayReceives
<1>5. CASE TrayQuits BY <1>5 DEF TrayQuits
<1>6. CASE TrayStops BY <1>6 DEF TrayStops
<1>7. QED BY <1>1, <1>2, <1>3, <1>4, <1>5, <1>6

-----------------------------------------------------------------------------
(* Nothing a file or the tray goes through concerns the tasks, and what     *)
(* concerns them never makes a state newer than the current one.            *)
LEMMA FeedInvKept ==
  ASSUME Inv, Next
  PROVE  FeedInv'
<1> USE FeedAssumption
    DEF Inv, TypeOK, FeedInv, Own, Alive, mainVars, taskVars, fileVars, trayVars
<1>1. CASE Start BY <1>1 DEF Start
<1>2. CASE CtrlC \/ MainLeaves BY <1>2 DEF CtrlC, MainLeaves
<1>3. CASE MainExits \/ Crash BY <1>3 DEF MainExits, Crash, ProcessEnds
<1>4. CASE \E t \in Tasks : Change(t) BY <1>4 DEF Change, Publishers
<1>5. CASE ChangeSilently \/ GiveUp \/ Tick
  BY <1>5 DEF ChangeSilently, GiveUp, Tick, Publishers
<1>6. ASSUME NEW t \in Publishers, TakeSnapshot(t) PROVE FeedInv'
  BY <1>6 DEF TakeSnapshot
<1>7. ASSUME NEW t \in Publishers, SendSnapshot(t) PROVE FeedInv'
  BY <1>7 DEF SendSnapshot
<1>8. CASE WriterTakes \/ CompleteTmp \/ RenameTmp \/ WriteStatusFails
  BY <1>8 DEF WriterTakes, CompleteTmp, RenameTmp, WriteStatusFails
<1>9. CASE ForwardFirst \/ Forward \/ TrayStarts \/ TrayReceives \/ TrayQuits \/ TrayStops
  BY <1>9 DEF ForwardFirst, Forward, TrayStarts, TrayReceives, TrayQuits, TrayStops
<1>10. QED BY <1>1, <1>2, <1>3, <1>4, <1>5, <1>6, <1>7, <1>8, <1>9 DEF Next

LEMMA InvKept ==
  ASSUME Inv, [Next]_feedVars
  PROVE  Inv'
<1>1. CASE UNCHANGED feedVars
  BY <1>1 DEF Inv, TypeOK, FeedInv, Own, Alive, feedVars, mainVars, taskVars, fileVars, trayVars
<1>2. CASE Next
  <2>1. RenameTmp => tmp = wsnap
    BY DEF RenameTmp, Inv, FeedInv
  <2>2. TypeOK'
    BY <1>2, <2>1, LifeKeepsType, PublishingKeepsType, WriterKeepsType, TrayKeepsType DEF Inv, Next
  <2>3. QED BY <1>2, <2>2, FeedInvKept DEF Inv
<1>3. QED BY <1>1, <1>2

LEMMA Invariant == Spec => []Inv
<1>1. QED BY InvInit, InvKept, PTL DEF Spec

(* Every snapshot, file and counter of the feed stays in its range; that the *)
(* status file is no torn one is part of it.                                 *)
THEOREM FeedTypeCorrect == Spec => []TypeOK
<1>1. Inv => TypeOK BY DEF Inv
<1>2. QED BY <1>1, Invariant, PTL

(* Only a rename changes the file, and what it puts there is a complete      *)
(* snapshot, of a state of the daemon that renames it: never what a crash or *)
(* a full disk left in the temporary file, nor a state of an earlier life.   *)
THEOREM FilesReplacedWhole == Spec => FileReplacedWhole
<1>1. ASSUME Inv, [Next]_feedVars
      PROVE  [file' # file => file' \in birth..current]_feedVars
  <2>1. CASE RenameTmp
    BY <1>1, <2>1 DEF Inv, FeedInv, Own, RenameTmp
  <2>2. CASE Next /\ ~RenameTmp
    <3> USE DEF mainVars, taskVars, fileVars, trayVars
    <3>1. CASE Start \/ CtrlC \/ MainLeaves \/ MainExits \/ Crash
      BY <3>1 DEF Start, CtrlC, MainLeaves, MainExits, Crash, ProcessEnds
    <3>2. CASE \/ ChangeSilently \/ GiveUp \/ Tick
               \/ \E t \in Tasks : Change(t)
               \/ \E t \in Publishers : TakeSnapshot(t) \/ SendSnapshot(t)
      BY <3>2 DEF ChangeSilently, GiveUp, Tick, Change, TakeSnapshot, SendSnapshot
    <3>3. CASE WriterTakes \/ CompleteTmp \/ WriteStatusFails
      BY <3>3 DEF WriterTakes, CompleteTmp, WriteStatusFails
    <3>4. CASE ForwardFirst \/ Forward \/ TrayStarts \/ TrayReceives \/ TrayQuits \/ TrayStops
      BY <3>4 DEF ForwardFirst, Forward, TrayStarts, TrayReceives, TrayQuits, TrayStops
    <3>5. QED BY <2>2, <3>1, <3>2, <3>3, <3>4 DEF Next
  <2>3. QED BY <1>1, <2>1, <2>2
<1>2. QED BY <1>1, Invariant, PTL DEF Spec, FileReplacedWhole
-----------------------------------------------------------------------------
(* What the writer and the tray's thread are waiting for.  A life begins     *)
(* with both tasks at their start.                                           *)
WakeInv ==
  /\ NoLostUpdate
  /\ JoinWakes
  /\ ~Alive => fwd = "start" /\ tray = "off"

LEMMA InitWakes == Init => WakeInv
BY DEF Init, WakeInv, NoLostUpdate, JoinWakes, Alive

LEMMA LifeWakes ==
  ASSUME Inv, WakeInv, Start \/ CtrlC \/ MainLeaves \/ MainExits \/ Crash
  PROVE  WakeInv'
<1> USE DEF WakeInv, NoLostUpdate, JoinWakes, Alive, mainVars, taskVars, fileVars, trayVars
<1>1. CASE Start
  BY <1>1 DEF Start, Inv, FeedInv
<1>2. CASE CtrlC \/ MainLeaves
  BY <1>2 DEF CtrlC, MainLeaves
<1>3. CASE MainExits \/ Crash
  BY <1>3 DEF MainExits, Crash, ProcessEnds
<1>4. QED BY <1>1, <1>2, <1>3

LEMMA PublishingWakes ==
  ASSUME WakeInv,
         \/ ChangeSilently \/ GiveUp \/ Tick
         \/ \E t \in Tasks : Change(t)
         \/ \E t \in Publishers : TakeSnapshot(t) \/ SendSnapshot(t)
  PROVE  WakeInv'
<1> USE DEF WakeInv, NoLostUpdate, JoinWakes, Alive, mainVars, taskVars, fileVars, trayVars
<1>1. CASE ChangeSilently \/ GiveUp \/ Tick \/ \E t \in Tasks : Change(t)
  BY <1>1 DEF ChangeSilently, GiveUp, Tick, Change
<1>2. CASE \E t \in Publishers : TakeSnapshot(t)
  BY <1>2 DEF TakeSnapshot
<1>3. CASE \E t \in Publishers : SendSnapshot(t)
  <2>1. "writer" \in unseen'
    BY <1>3 DEF SendSnapshot, Receivers
  <2>2. UNCHANGED <<main, shutdown, fwd, chan, tray>>
    BY <1>3 DEF SendSnapshot
  <2>3. QED BY <2>1, <2>2
<1>4. QED BY <1>1, <1>2, <1>3

(* What the writer renames is what it took from the channel.                 *)
LEMMA WriterWakes ==
  ASSUME Inv, WakeInv, WriterTakes \/ CompleteTmp \/ RenameTmp \/ WriteStatusFails
  PROVE  WakeInv'
<1> USE DEF WakeInv, NoLostUpdate, JoinWakes, Alive, mainVars, taskVars, trayVars
<1>1. CASE WriterTakes
  BY <1>1 DEF WriterTakes
<1>2. CASE CompleteTmp
  BY <1>2 DEF CompleteTmp
<1>3. CASE RenameTmp
  BY <1>3 DEF RenameTmp, Inv, FeedInv
<1>4. CASE WriteStatusFails
  <2>1. errors' # 0
    BY <1>4 DEF WriteStatusFails, Inv, TypeOK
  <2>2. UNCHANGED <<main, shutdown, fwd, chan, tray>>
    BY <1>4 DEF WriteStatusFails
  <2>3. QED BY <2>1, <2>2
<1>5. QED BY <1>1, <1>2, <1>3, <1>4

LEMMA TrayWakes ==
  ASSUME WakeInv,
         ForwardFirst \/ Forward \/ TrayStarts \/ TrayReceives \/ TrayQuits \/ TrayStops
  PROVE  WakeInv'
<1> USE DEF WakeInv, NoLostUpdate, JoinWakes, Alive, mainVars, taskVars, fileVars, SendLatest,
        Shows
<1>1. CASE ForwardFirst BY <1>1 DEF ForwardFirst
<1>2. CASE Forward BY <1>2 DEF Forward
<1>3. CASE TrayStarts BY <1>3 DEF TrayStarts
<1>4. CASE TrayReceives BY <1>4 DEF TrayReceives
<1>5. CASE TrayQuits \/ TrayStops BY <1>5 DEF TrayQuits, TrayStops
<1>6. QED BY <1>1, <1>2, <1>3, <1>4, <1>5

LEMMA WakeInvariant == Spec => []WakeInv
<1>1. Inv /\ WakeInv /\ [Next]_feedVars => WakeInv'
  <2> SUFFICES ASSUME Inv, WakeInv, [Next]_feedVars PROVE WakeInv'
    OBVIOUS
  <2>1. CASE UNCHANGED feedVars
    BY <2>1 DEF WakeInv, NoLostUpdate, JoinWakes, Alive, feedVars, mainVars, taskVars, fileVars,
       trayVars
  <2>2. CASE Next
    BY <2>2, LifeWakes, PublishingWakes, WriterWakes, TrayWakes DEF Next
  <2>3. QED BY <2>1, <2>2
<1>2. QED BY <1>1, InitWakes, Invariant, PTL DEF Spec

(* However publishers and the status writer interleave, a snapshot put in    *)
(* the watch channel is in the file or in the writer's hands, unless a newer *)
(* one is announced (publish_status, spawn_status_writer): it is never       *)
(* marked as seen and passed over while it is written.                       *)
THEOREM UpdatesReachWriter == Spec => []NoLostUpdate
<1>1. WakeInv => NoLostUpdate BY DEF WakeInv
<1>2. QED BY <1>1, WakeInvariant, PTL

(* run_mux joins the tray's thread only after the signal that stops it, and  *)
(* while that thread waits for its first snapshot there is one in the        *)
(* channel or the task that sends it has yet to (spawn_tray, tray_loop).     *)
THEOREM TrayCanEnd == Spec => []JoinWakes
<1>1. WakeInv => JoinWakes BY DEF WakeInv
<1>2. QED BY <1>1, WakeInvariant, PTL
=============================================================================
