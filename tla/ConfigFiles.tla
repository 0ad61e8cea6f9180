---------------------------- MODULE ConfigFiles -----------------------------
(***************************************************************************)
(* The files that the command-line tools read and overwrite: a host's      *)
(* configuration ("host"), the mux configuration ("mux", whose extension   *)
(* names its syntax, and "alt", the same name with an extension the tools  *)
(* do not know), and the backups.  Every tool overwrites a file in place   *)
(* after copying it to the backup, and may stop between any two of its     *)
(* file operations: it is killed, or one of them fails.                    *)
(*                                                                         *)
(* A file that a tool has truncated is Empty until the tool writes to it,  *)
(* and stays so if it stops.                                               *)
(***************************************************************************)
EXTENDS Naturals

CONSTANTS
  Names,   \* services
  MaxRuns, \* bound: runs of all tools together
  MaxEdits \* bound: edits of a host's file by the host, and of a wizard's form

ASSUME FilesAssumption == MaxRuns \in Nat /\ MaxEdits \in Nat

VARIABLES
  disk,  \* the files
  job,   \* per tool: what it does next, the file it replaces, and by what
  runs   \* how often a tool was started

fileVars == <<disk, job, runs>>

Files == {"host", "hostbak", "mux", "alt", "muxbak"}
Tools == {"scan", "rewire", "wizard"}

Missing == [kind |-> "missing"]
Empty == [kind |-> "empty"]
Mixed == [kind |-> "mixed"] \* the one of two texts and the end of the other

(* with_extension("bak").                                                   *)
BackupOf(f) == IF f = "host" THEN "hostbak" ELSE "muxbak"

Idle == [step |-> "idle", target |-> "none", text |-> Missing]

At(t, s) == job[t].step = s
Goes(t, s) == job' = [job EXCEPT ![t].step = s]
Ends(t) == job' = [job EXCEPT ![t] = Idle]

Begins(t) == At(t, "idle") /\ runs < MaxRuns /\ runs' = runs + 1

(* The tool knows the new contents of file f.                               *)
Replaces(t, f, text) == job' = [job EXCEPT ![t] = [step |-> "backup", target |-> f, text |-> text]]

(* What a file may hold after text is written to it from its beginning,     *)
(* truncated some time ago: if another tool wrote there in the meantime,    *)
(* and wrote more, the end of that is still there.                          *)
Over(f, text) ==
  CASE disk[f] \in {Empty, text} -> {text}
    [] text = Empty -> {disk[f]}
    [] OTHER -> {text, Mixed}

Puts(f, text) == \E c \in Over(f, text) : disk' = [disk EXCEPT ![f] = c]

(* A file that is not there needs no backup.                                *)
CopyStarts(t) ==
  /\ At(t, "backup")
  /\ IF disk[job[t].target] = Missing
     THEN Goes(t, "write") /\ UNCHANGED disk
     ELSE /\ disk' = [disk EXCEPT ![BackupOf(job[t].target)] = Empty]
          /\ Goes(t, "copying")
  /\ UNCHANGED runs

CopyEnds(t) ==
  /\ At(t, "copying")
  /\ Puts(BackupOf(job[t].target), disk[job[t].target])
  /\ Goes(t, "write")
  /\ UNCHANGED runs

WriteStarts(t) ==
  /\ At(t, "write")
  /\ disk' = [disk EXCEPT ![job[t].target] = Empty]
  /\ Goes(t, "writing")
  /\ UNCHANGED runs

WriteEnds(t) ==
  /\ At(t, "writing")
  /\ Puts(job[t].target, job[t].text)
  /\ Ends(t)
  /\ UNCHANGED runs

(* Mutant: the copy is left for later, and the write goes first.            *)
Overwrites_NoBackup(t) ==
  \/ At(t, "backup") /\ Goes(t, "write") /\ UNCHANGED <<disk, runs>>
  \/ WriteStarts(t) \/ WriteEnds(t)

Overwrites(t) == CopyStarts(t) \/ CopyEnds(t) \/ WriteStarts(t) \/ WriteEnds(t)

Stops(t) ==
  /\ ~At(t, "idle")
  /\ Ends(t)
  /\ UNCHANGED <<disk, runs>>
=============================================================================
