---------------------------- MODULE ToolsProofs -----------------------------
(***************************************************************************)
(* What the command-line tools leave of a host's settings, and what they   *)
(* write for a daemon, for any services, any number of runs, each stopped  *)
(* anywhere, and any number of edits.  In this order: the shape of the     *)
(* state, the host's settings, usable services, saves of the wizard, what  *)
(* a daemon makes of them, sockets, and the types.                         *)
(***************************************************************************)
EXTENDS ConfigTools, TLAPS

USE DEF fileVars, hostVars, wizardVars, historyVars, MuxFiles

-----------------------------------------------------------------------------
(* The shape of the state.                                                  *)

IsJob(j) == j = [step |-> j.step, target |-> j.target, text |-> j.text]

IsForm(o) ==
  /\ o = [path |-> o.path, name |-> o.name, socket |-> o.socket, cmd |-> o.cmd,
          clients |-> o.clients, level |-> o.level, tray |-> o.tray]
  /\ o.path \in {"mux", "alt"}
  /\ Absent \notin {o.socket, o.cmd, o.clients, o.level, o.tray}

Shapes ==
  /\ disk = [f \in Files |-> disk[f]]
  /\ job = [t \in Tools |-> job[t]]
  /\ \A t \in Tools : IsJob(job[t])
  /\ \A t \in Tools \ {"rewire"} : job[t].target \notin {"host", "hostbak"}
  /\ \A o \in form : IsForm(o)
  /\ \A o, p \in form : o = p

(* What a tool may do to its job.                                           *)
LEMMA JobGoes ==
  ASSUME Shapes, NEW t \in Tools, NEW s, Goes(t, s)
  PROVE  /\ job' = [u \in Tools |-> job'[u]]
         /\ job'[t] = [step |-> s, target |-> job[t].target, text |-> job[t].text]
         /\ \A u \in Tools \ {t} : job'[u] = job[u]
<1>1. job' = [job EXCEPT ![t] = [job[t] EXCEPT !.step = s]]
  BY DEF Goes
<1>2. [job[t] EXCEPT !.step = s] = [step |-> s, target |-> job[t].target, text |-> job[t].text]
  BY DEF Shapes, IsJob
<1>3. QED BY <1>1, <1>2 DEF Shapes

LEMMA JobSet ==
  ASSUME Shapes, NEW t \in Tools, NEW j, job' = [job EXCEPT ![t] = j]
  PROVE  /\ job' = [u \in Tools |-> job'[u]]
         /\ job'[t] = j
         /\ \A u \in Tools \ {t} : job'[u] = job[u]
BY DEF Shapes

(* What is in a file after a text is written over it.                       *)
LEMMA Written ==
  ASSUME NEW f, NEW x, NEW c \in Over(f, x)
  PROVE  /\ disk[f] \in {Empty, x} => c = x
         /\ c \in {x, Mixed, disk[f]}
         /\ x # Empty => c \in {x, Mixed}
BY DEF Over

(* A file operation: what it leaves in the files and in the job.            *)
LEMMA FileOperation ==
  ASSUME Shapes, NEW t \in Tools, Overwrites(t)
  PROVE  /\ disk' = [f \in Files |-> disk'[f]]
         /\ job' = [u \in Tools |-> job'[u]]
         /\ \A u \in Tools \ {t} : job'[u] = job[u]
         /\ \A f \in Files \ {job[t].target, BackupOf(job[t].target)} : disk'[f] = disk[f]
         /\ \/ /\ At(t, "backup") /\ disk[job[t].target] = Missing /\ UNCHANGED disk
               /\ job'[t] = [step |-> "write", target |-> job[t].target, text |-> job[t].text]
            \/ /\ At(t, "backup") /\ disk[job[t].target] # Missing
               /\ disk' = [disk EXCEPT ![BackupOf(job[t].target)] = Empty]
               /\ job'[t] = [step |-> "copying", target |-> job[t].target, text |-> job[t].text]
            \/ /\ At(t, "copying")
               /\ Puts(BackupOf(job[t].target), disk[job[t].target])
               /\ job'[t] = [step |-> "write", target |-> job[t].target, text |-> job[t].text]
            \/ /\ At(t, "write") /\ disk' = [disk EXCEPT ![job[t].target] = Empty]
               /\ job'[t] = [step |-> "writing", target |-> job[t].target, text |-> job[t].text]
            \/ /\ At(t, "writing") /\ Puts(job[t].target, job[t].text)
               /\ job'[t] = Idle
<1>1. CASE CopyStarts(t)
  BY <1>1, JobGoes DEF CopyStarts, Shapes
<1>2. CASE CopyEnds(t)
  BY <1>2, JobGoes DEF CopyEnds, Shapes, Puts
<1>3. CASE WriteStarts(t)
  BY <1>3, JobGoes DEF WriteStarts, Shapes
<1>4. CASE WriteEnds(t)
  BY <1>4, JobSet DEF WriteEnds, Ends, Shapes, Puts
<1>5. QED BY <1>1, <1>2, <1>3, <1>4 DEF Overwrites

LEMMA IdleJob == IsJob(Idle) /\ Idle.step = "idle" /\ Idle.target = "none" /\ Idle.text = Missing
BY DEF IsJob, Idle

LEMMA FormsStart ==
  ASSUME NEW f \in {"mux", "alt"}, NEW o \in InitialForms(f)
  PROVE  IsForm(o)
BY DEF InitialForms, FormOf, IsForm, Shown, Fresh, Absent

(* The wizard goes to a step, ends, or has a file to replace.                *)
LEMMA WizardJob ==
  ASSUME Shapes, UNCHANGED disk, \A o \in form' : IsForm(o), \A o, p \in form' : o = p,
         \/ UNCHANGED job
         \/ \E s : Goes("wizard", s)
         \/ Ends("wizard")
         \/ \E f \in {"mux", "alt"} : \E x : Replaces("wizard", f, x)
  PROVE  Shapes'
<1>0. "wizard" \in Tools /\ "wizard" # "rewire"
  BY DEF Tools
<1>1. CASE UNCHANGED job
  BY <1>1 DEF Shapes
<1>2. ASSUME NEW s, Goes("wizard", s)
      PROVE  Shapes'
  <2>1. /\ job' = [u \in Tools |-> job'[u]]
        /\ job'["wizard"] = [step |-> s, target |-> job["wizard"].target,
                             text |-> job["wizard"].text]
        /\ \A u \in Tools \ {"wizard"} : job'[u] = job[u]
    BY <1>0, <1>2, JobGoes
  <2>2. IsJob(job'["wizard"]) /\ job'["wizard"].target \notin {"host", "hostbak"}
    BY <1>0, <2>1 DEF Shapes, IsJob
  <2>3. QED BY <2>1, <2>2 DEF Shapes
<1>3. ASSUME NEW j, IsJob(j), j.target \notin {"host", "hostbak"},
             job' = [job EXCEPT !["wizard"] = j]
      PROVE  Shapes'
  <2>1. /\ job' = [u \in Tools |-> job'[u]] /\ job'["wizard"] = j
        /\ \A u \in Tools \ {"wizard"} : job'[u] = job[u]
    BY <1>0, <1>3, JobSet
  <2>2. QED BY <1>3, <2>1 DEF Shapes
<1>4. CASE Ends("wizard")
  BY <1>3, <1>4, IdleJob DEF Ends
<1>5. ASSUME NEW f \in {"mux", "alt"}, NEW x, Replaces("wizard", f, x)
      PROVE  Shapes'
  BY <1>3, <1>5 DEF Replaces, IsJob
<1>6. QED BY <1>1, <1>2, <1>4, <1>5

LEMMA InitShapes == Init => Shapes
BY IdleJob DEF Init, Shapes, Files, Tools

LEMMA NextShapes ==
  ASSUME Shapes, [Next]_vars
  PROVE  Shapes'
<1>1. ASSUME NEW t \in Tools, ToolStep(t)
      PROVE  Shapes'
  <2>1. Overwrites(t) /\ \A o \in form' : o \in form
    BY <1>1 DEF ToolStep
  <2>2. /\ disk' = [f \in Files |-> disk'[f]]
        /\ job' = [u \in Tools |-> job'[u]]
        /\ \A u \in Tools \ {t} : job'[u] = job[u]
        /\ \/ \E s : job'[t] = [step |-> s, target |-> job[t].target, text |-> job[t].text]
           \/ job'[t] = Idle
    BY <2>1, FileOperation
  <2>3. IsJob(job'[t]) /\ (t # "rewire" => job'[t].target \notin {"host", "hostbak"})
    BY <2>2, IdleJob DEF Shapes, IsJob
  <2>4. QED BY <2>1, <2>2, <2>3 DEF Shapes
<1>2. ASSUME NEW t \in Tools, ToolStops(t)
      PROVE  Shapes'
  <2>1. job' = [job EXCEPT ![t] = Idle] /\ UNCHANGED disk /\ \A o \in form' : o \in form
    BY <1>2 DEF ToolStops, Stops, Ends
  <2>2. QED BY <2>1, JobSet, IdleJob DEF Shapes
<1>3. CASE ScanReads /\ UNCHANGED form
  <2>1. \/ UNCHANGED job
        \/ \E x : job' = [job EXCEPT !["scan"] =
                            [step |-> "backup", target |-> "mux", text |-> x]]
    BY <1>3 DEF ScanReads, Replaces
  <2>2. QED BY <1>3, <2>1, JobSet DEF ScanReads, Shapes, IsJob, Tools
<1>4. CASE (RewireScans \/ RewireMerges) /\ UNCHANGED form
  <2>1. \/ UNCHANGED job
        \/ \E j : IsJob(j) /\ job' = [job EXCEPT !["rewire"] = j]
    BY <1>4, IdleJob DEF RewireScans, RewireMerges, Replaces, Ends, IsJob
  <2>2. QED BY <1>4, <2>1, JobSet DEF RewireScans, RewireMerges, Shapes, Tools
<1>5. ASSUME NEW n \in Names, HostEdits(n), UNCHANGED form
      PROVE  Shapes'
  BY <1>5 DEF HostEdits, Shapes
<1>6. ASSUME NEW f \in {"mux", "alt"}, WizardOpens(f)
      PROVE  Shapes'
  <2>1. /\ UNCHANGED disk
        /\ \/ UNCHANGED <<job, form>>
           \/ Goes("wizard", "reading") /\ \E o \in InitialForms(f) : form' = {o}
    BY <1>6 DEF WizardOpens, WizardStarts
  <2>2. (\A o \in form' : IsForm(o)) /\ \A o, p \in form' : o = p
    BY <2>1, FormsStart DEF Shapes
  <2>3. QED BY <2>1, <2>2, WizardJob
<1>7. CASE WizardLoads \/ Quit \/ Save
  <2>1. UNCHANGED disk /\ \A o \in form' : o \in form
    BY <1>7 DEF WizardLoads, Quit, Save, Leaves
  <2>2. Goes("wizard", "editing") \/ Goes("wizard", "persist") \/ Ends("wizard")
    BY <1>7 DEF WizardLoads, Quit, Save
  <2>3. (\A o \in form' : IsForm(o)) /\ \A o, p \in form' : o = p
    BY <2>1 DEF Shapes
  <2>4. QED BY <2>1, <2>2, <2>3, WizardJob
<1>8. CASE Persist
  <2>1. PICK o \in form : \E x : Replaces("wizard", o.path, x)
    BY <1>8 DEF Persist
  <2>2. o.path \in {"mux", "alt"} /\ UNCHANGED <<disk, form>>
    BY <1>8 DEF Persist, Shapes, IsForm
  <2>3. (\A q \in form' : IsForm(q)) /\ \A p, q \in form' : p = q
    BY <2>2 DEF Shapes
  <2>4. QED BY <2>1, <2>2, <2>3, WizardJob
<1>9. CASE Type
  <2>1. PICK f \in editing : \E v \in Typed(f) : form' = {[o EXCEPT ![f] = v] : o \in form}
    BY <1>9 DEF Type, Editor
  <2>2. PICK v \in Typed(f) : form' = {[o EXCEPT ![f] = v] : o \in form}
    BY <2>1
  <2>3. /\ f = "path" => v \in {"mux", "alt"}
        /\ f \in {"socket", "cmd", "clients", "level", "tray"} => v # Absent
    BY <2>2 DEF Typed, Absent
  <2>4. ASSUME NEW o \in form
        PROVE  IsForm([o EXCEPT ![f] = v])
    <3> DEFINE p == [o EXCEPT ![f] = v]
    <3>1. IsForm(o)
      BY DEF Shapes
    <3>2. /\ p = [path |-> p.path, name |-> p.name, socket |-> p.socket, cmd |-> p.cmd,
                  clients |-> p.clients, level |-> p.level, tray |-> p.tray]
          /\ \A k \in DOMAIN o : p[k] = IF k = f THEN v ELSE o[k]
          /\ DOMAIN o = {"path", "name", "socket", "cmd", "clients", "level", "tray"}
      <4>1. DOMAIN o = {"path", "name", "socket", "cmd", "clients", "level", "tray"}
        BY <3>1 DEF IsForm
      <4>2. p = [k \in DOMAIN o |-> IF k = f THEN v ELSE o[k]]
        BY <3>1 DEF IsForm
      <4> HIDE DEF p
      <4>3. QED BY <4>1, <4>2
    <3> HIDE DEF p
    <3>3. p.path \in {"mux", "alt"}
      BY <2>3, <3>1, <3>2 DEF IsForm
    <3>4. p.socket # Absent /\ p.cmd # Absent /\ p.clients # Absent
          /\ p.level # Absent /\ p.tray # Absent
      BY <2>3, <3>1, <3>2 DEF IsForm
    <3>5. QED BY <3>2, <3>3, <3>4 DEF IsForm, p
  <2>5. QED BY <1>9, <2>2, <2>4 DEF Type, Editor, Shapes
<1>10. CASE ToggleTray
  <2>1. ASSUME NEW o \in form
        PROVE  IsForm([o EXCEPT !.tray = IF @ = "yes" THEN "no" ELSE "yes"])
    <3>1. IsForm(o) /\ IF o.tray = "yes" THEN "no" # Absent ELSE "yes" # Absent
      BY DEF Shapes, Absent
    <3>2. [o EXCEPT !.tray = IF @ = "yes" THEN "no" ELSE "yes"] =
            [path |-> o.path, name |-> o.name, socket |-> o.socket, cmd |-> o.cmd,
             clients |-> o.clients, level |-> o.level,
             tray |-> IF o.tray = "yes" THEN "no" ELSE "yes"]
      BY <3>1 DEF IsForm
    <3>3. QED BY <3>1, <3>2 DEF IsForm
  <2>2. QED BY <1>10, <2>1 DEF ToggleTray, Editor, Shapes
<1>11. CASE Esc \/ (\E f \in Texts : Enter(f)) \/ UNCHANGED vars
  BY <1>11 DEF Esc, Enter, Editor, Shapes, vars
<1>12. QED BY <1>1, <1>2, <1>3, <1>4, <1>5, <1>6, <1>7, <1>8, <1>9, <1>10, <1>11 DEF Next

-----------------------------------------------------------------------------
(* A host's settings.  SettingsSurvive is not inductive: it does not say     *)
(* what a rewire that is under way is about to write, and that its backup is *)
(* complete before it truncates the file.                                    *)

KeepsServices(c) == \A n \in DOMAIN quiet.services :
  n \in DOMAIN c.services /\ c.services[n].env = quiet.services[n].env

Holds(c) == IsHost(c) /\ c.other >= quiet.other /\ KeepsServices(c)

Sheltered == format = "json" \/ "rewire" \notin stopped

RewireSteps == {"idle", "merge", "backup", "copying", "write", "writing"}
Between(steps) == job["rewire"].step \in steps

HostTyped ==
  /\ IsHost(quiet) /\ quiet.other \in Nat /\ IsHost(found)
  /\ IsHost(disk["host"]) => disk["host"].other \in Nat
  /\ job["rewire"].step \in RewireSteps
  /\ ~At("rewire", "idle") => job["rewire"].target = "host"
  /\ At("rewire", "merge") => IsHost(job["rewire"].text)
  /\ At("rewire", "copying") => disk["hostbak"] = Empty
  /\ At("rewire", "writing") => disk["host"] = Empty

HostKept ==
  /\ IsHost(disk["host"]) => Holds(disk["host"])
  /\ ~IsHost(disk["host"]) =>
       /\ disk["host"] = Empty /\ Holds(disk["hostbak"])
       /\ At("rewire", "writing") \/ (format = "json" /\ At("rewire", "idle"))
  /\ At("rewire", "merge") => KeepsServices(job["rewire"].text)
  /\ Between({"backup", "copying", "write", "writing"}) => Holds(job["rewire"].text)
  /\ Between({"write", "writing"}) => Holds(disk["hostbak"]) /\ found = disk["hostbak"]
  /\ At("rewire", "copying") => found = disk["host"]
  /\ found \in {disk["host"], disk["hostbak"]}

(* A text for the host is one of a rewire, and has its settings from a file. *)
HostInv ==
  /\ HostTyped
  /\ Between({"backup", "copying", "write", "writing"}) =>
       IsHost(job["rewire"].text) /\ job["rewire"].text.other \in Nat
  /\ Sheltered => HostKept

LEMMA HostTexts ==
  ASSUME NEW n, NEW s
  PROVE  IsHost(HostText(n, s)) /\ HostText(n, s).other = n /\ HostText(n, s).services = s
BY DEF IsHost, HostText

LEMMA NoHosts == ~IsHost(Empty) /\ ~IsHost(Missing) /\ Empty # Missing
BY DEF IsHost, Empty, Missing

LEMMA InitHost == Init => HostInv
<1> SUFFICES ASSUME Init PROVE HostInv
  OBVIOUS
<1>1. PICK h \in HostTables : disk["host"] = HostText(0, h)
  BY DEF Init, Files
<1>2. quiet = disk["host"] /\ found = disk["host"] /\ job["rewire"] = Idle
  BY DEF Init, Tools
<1>3. IsHost(quiet) /\ quiet.other = 0
  BY <1>1, <1>2, HostTexts
<1>4. Holds(disk["host"])
  BY <1>2, <1>3 DEF Holds, KeepsServices
<1>5. HostTyped
  BY <1>2, <1>3, IdleJob DEF HostTyped, RewireSteps, At
<1>6. QED BY <1>2, <1>3, <1>4, <1>5, IdleJob DEF HostInv, HostKept, Between, At

(* The scan and the wizard touch neither the host's file nor its backup.     *)
LEMMA OthersKeepHost ==
  ASSUME HostInv, UNCHANGED <<format, quiet, found>>,
         job'["rewire"] = job["rewire"],
         disk'["host"] = disk["host"], disk'["hostbak"] = disk["hostbak"],
         "rewire" \in stopped => "rewire" \in stopped'
  PROVE  HostInv'
BY DEF HostInv, HostTyped, HostKept, Sheltered, Between, At, Holds, KeepsServices

LEMMA RewireWritesHost ==
  ASSUME Shapes, HostInv, Overwrites("rewire"), UNCHANGED <<format, quiet, stopped>>,
         found' = IF At("rewire", "backup") /\ IsHost(disk["host"]) THEN disk["host"] ELSE found
  PROVE  HostInv'
<1> DEFINE j == job["rewire"]
<1>0. "rewire" \in Tools /\ "host" \in Files /\ "hostbak" \in Files /\ BackupOf("host") = "hostbak"
  BY DEF Tools, Files, BackupOf
<1>1. \/ /\ At("rewire", "backup") /\ disk[j.target] = Missing /\ UNCHANGED disk
         /\ job'["rewire"] = [step |-> "write", target |-> j.target, text |-> j.text]
      \/ /\ At("rewire", "backup") /\ disk[j.target] # Missing
         /\ disk' = [disk EXCEPT ![BackupOf(j.target)] = Empty]
         /\ job'["rewire"] = [step |-> "copying", target |-> j.target, text |-> j.text]
      \/ /\ At("rewire", "copying")
         /\ Puts(BackupOf(j.target), disk[j.target])
         /\ job'["rewire"] = [step |-> "write", target |-> j.target, text |-> j.text]
      \/ /\ At("rewire", "write") /\ disk' = [disk EXCEPT ![j.target] = Empty]
         /\ job'["rewire"] = [step |-> "writing", target |-> j.target, text |-> j.text]
      \/ /\ At("rewire", "writing") /\ Puts(j.target, j.text)
         /\ job'["rewire"] = Idle
  BY <1>0, FileOperation
<1>2. j.target = "host"
  BY <1>1 DEF HostInv, HostTyped, At
<1>3. /\ DOMAIN disk = Files /\ UNCHANGED quiet
      /\ \A c : Holds(c)' <=> Holds(c)
      /\ \A c : KeepsServices(c)' <=> KeepsServices(c)
  BY DEF Shapes, Holds, KeepsServices
<1>4. CASE At("rewire", "backup") /\ disk["host"] = Missing
  <2>1. /\ UNCHANGED disk
        /\ job'["rewire"] = [step |-> "write", target |-> "host", text |-> j.text]
    BY <1>1, <1>2, <1>4 DEF At
  <2>2. ~Sheltered
    BY <1>4, NoHosts DEF HostInv, HostKept, At
  <2>3. QED BY <1>4, <2>1, <2>2 DEF HostInv, HostTyped, RewireSteps, Sheltered, Between, At
<1>5. CASE At("rewire", "backup") /\ disk["host"] # Missing
  <2>1. /\ disk'["host"] = disk["host"] /\ disk'["hostbak"] = Empty
        /\ job'["rewire"] = [step |-> "copying", target |-> "host", text |-> j.text]
    BY <1>0, <1>1, <1>2, <1>3, <1>5 DEF At
  <2>2. IsHost(found') /\ (Sheltered => IsHost(disk["host"]) /\ found' = disk["host"])
    BY <1>5 DEF HostInv, HostTyped, HostKept, At
  <2> USE <1>3, <1>5, <2>1, <2>2
  <2>3. HostTyped'
    BY DEF HostInv, HostTyped, RewireSteps, At
  <2>4. Sheltered' => HostKept'
    BY DEF HostInv, HostKept, Sheltered, Between, At
  <2>5. QED BY <2>3, <2>4 DEF HostInv, Between, At
<1>6. CASE At("rewire", "copying")
  <2>1. /\ disk'["host"] = disk["host"] /\ disk'["hostbak"] = disk["host"]
        /\ job'["rewire"] = [step |-> "write", target |-> "host", text |-> j.text]
    <3>1. disk["hostbak"] = Empty
      BY <1>6 DEF HostInv, HostTyped
    <3>2. PICK c \in Over("hostbak", disk["host"]) : disk' = [disk EXCEPT !["hostbak"] = c]
      BY <1>0, <1>1, <1>2, <1>6 DEF At, Puts
    <3>3. c = disk["host"]
      BY <3>1, <3>2, Written
    <3>4. QED BY <1>0, <1>1, <1>2, <1>3, <1>6, <3>2, <3>3 DEF At
  <2>2. QED BY <1>3, <1>6, <2>1
        DEF HostInv, HostTyped, HostKept, RewireSteps, Sheltered, Between, At
<1>7. CASE At("rewire", "write")
  <2>1. /\ disk'["host"] = Empty /\ disk'["hostbak"] = disk["hostbak"]
        /\ job'["rewire"] = [step |-> "writing", target |-> "host", text |-> j.text]
    BY <1>0, <1>1, <1>2, <1>3, <1>7 DEF At
  <2>2. QED BY <1>3, <1>7, <2>1, NoHosts
        DEF HostInv, HostTyped, HostKept, RewireSteps, Sheltered, Between, At
<1>8. CASE At("rewire", "writing")
  <2>1. /\ disk'["host"] = j.text /\ disk'["hostbak"] = disk["hostbak"]
        /\ job'["rewire"] = Idle
    <3>1. disk["host"] = Empty
      BY <1>8 DEF HostInv, HostTyped
    <3>2. PICK c \in Over("host", j.text) : disk' = [disk EXCEPT !["host"] = c]
      BY <1>0, <1>1, <1>2, <1>8 DEF At, Puts
    <3>3. c = j.text
      BY <3>1, <3>2, Written
    <3>4. QED BY <1>0, <1>1, <1>2, <1>3, <1>8, <3>2, <3>3 DEF At
  <2>2. IsHost(j.text) /\ j.text.other \in Nat
    BY <1>8 DEF HostInv, Between, At
  <2>3. QED BY <1>3, <1>8, <2>1, <2>2, IdleJob
        DEF HostInv, HostTyped, HostKept, RewireSteps, Sheltered, Between, At
<1>9. QED BY <1>1, <1>2, <1>4, <1>5, <1>6, <1>7, <1>8

LEMMA RewireStopsKeepsHost ==
  ASSUME Shapes, HostInv, Stops("rewire"), stopped' = stopped \cup {"rewire"},
         UNCHANGED <<format, quiet, found>>
  PROVE  HostInv'
<1>1. job'["rewire"] = Idle /\ UNCHANGED disk
  BY JobSet DEF Stops, Ends, Tools
<1>2. Sheltered' => Sheltered /\ format = "json"
  BY DEF Sheltered
<1>3. \A c : Holds(c)' <=> Holds(c)
  BY DEF Holds, KeepsServices
<1>4. QED BY <1>1, <1>2, <1>3, IdleJob
      DEF HostInv, HostTyped, HostKept, RewireSteps, Between, At

LEMMA SnippetKeeps ==
  ASSUME NEW c, NEW n, KeepsServices(c)
  PROVE  KeepsServices(HostText(n, Snippet(c.services)))
BY DEF KeepsServices, HostText, Snippet, ProxyEntry

LEMMA RewireScansKeepsHost ==
  ASSUME Shapes, HostInv, RewireScans, UNCHANGED stopped
  PROVE  HostInv'
<1>1. UNCHANGED <<disk, format, quiet, found>> /\ At("rewire", "idle")
  BY DEF RewireScans, Begins
<1>2. CASE UNCHANGED job
  BY <1>1, <1>2, OthersKeepHost
<1>3. CASE ~UNCHANGED job
  <2> DEFINE h == disk["host"]
             j == [step |-> "merge", target |-> "host",
                   text |-> HostText(0, Snippet(Parsed(h).services))]
  <2>1. Parses(h) /\ job' = [job EXCEPT !["rewire"] = j]
    BY <1>3 DEF RewireScans, Scans
  <2>2. job'["rewire"] = j
    BY <2>1, JobSet DEF Tools
  <2>3. Sheltered => IsHost(h) /\ Holds(h)
    BY <1>1, <2>1 DEF HostInv, HostKept, Parses, At
  <2>4. IsHost(j.text) /\ (Sheltered => KeepsServices(j.text))
    BY <2>3, SnippetKeeps, HostTexts DEF Holds, Parsed
  <2> HIDE DEF h
  <2>5. job'["rewire"].step = "merge" /\ job'["rewire"].target = "host"
        /\ job'["rewire"].text = j.text
    BY <2>2
  <2>6. \A c : (Holds(c)' <=> Holds(c)) /\ (KeepsServices(c)' <=> KeepsServices(c))
    BY <1>1 DEF Holds, KeepsServices
  <2> HIDE DEF j
  <2>7. QED BY <1>1, <2>3, <2>4, <2>5, <2>6
        DEF HostInv, HostTyped, HostKept, RewireSteps, Sheltered, Between, At, h
<1>4. QED BY <1>2, <1>3

LEMMA RewireMergesKeepsHost ==
  ASSUME Shapes, HostInv, RewireMerges, UNCHANGED stopped
  PROVE  HostInv'
<1> DEFINE h == disk["host"]
           s == job["rewire"].text.services
<1>1. UNCHANGED <<disk, format, quiet, found>> /\ At("rewire", "merge")
  BY DEF RewireMerges
<1>2. \A c : (Holds(c)' <=> Holds(c)) /\ (KeepsServices(c)' <=> KeepsServices(c))
  BY <1>1 DEF Holds, KeepsServices
<1>3. Sheltered => IsHost(h) /\ Holds(h)
  BY <1>1 DEF HostInv, HostKept, At
<1>4. CASE Parses(h)
  <2> DEFINE x == HostText(Parsed(h).other, s)
  <2>1. job'["rewire"] = [step |-> "backup", target |-> "host", text |-> x]
    BY <1>4, JobSet DEF RewireMerges, Replaces, Tools
  <2>2. IsHost(x) /\ x.other = Parsed(h).other /\ x.services = s
    BY HostTexts
  <2>3. Parsed(h).other \in Nat
    BY HostTexts DEF Parsed, HostInv, HostTyped
  <2>4. Sheltered => Holds(x)
    BY <1>1, <1>3, <2>2 DEF Holds, KeepsServices, Parsed, HostInv, HostKept, At
  <2> HIDE DEF x
  <2>5. /\ job'["rewire"].step = "backup" /\ job'["rewire"].target = "host"
        /\ job'["rewire"].text = x
    BY <2>1
  <2>6. QED BY <1>1, <1>2, <1>3, <2>2, <2>3, <2>4, <2>5
        DEF HostInv, HostTyped, HostKept, RewireSteps, Sheltered, Between, At
<1>5. CASE ~Parses(h)
  <2>1. job'["rewire"] = Idle
    BY <1>5, JobSet DEF RewireMerges, Ends, Tools
  <2>2. ~Sheltered
    BY <1>3, <1>5 DEF Parses
  <2>3. QED BY <1>1, <2>1, <2>2, IdleJob
        DEF HostInv, HostTyped, RewireSteps, Sheltered, Between, At
<1>6. QED BY <1>4, <1>5

LEMMA HostEditsKeepsHost ==
  ASSUME Shapes, HostInv, NEW n \in Names, HostEdits(n), UNCHANGED stopped
  PROVE  HostInv'
<1> DEFINE c == disk["host"]
           s == [m \in DOMAIN c.services \cup {n} |->
                   IF m = n THEN Service(NoSocket, "set") ELSE c.services[m]]
           d == HostText(c.other + 1, s)
<1>1. /\ IsHost(c) /\ n \notin DOMAIN c.services
      /\ disk'["host"] = d /\ disk'["hostbak"] = disk["hostbak"]
      /\ quiet' = (IF At("rewire", "idle") THEN d ELSE quiet)
      /\ found' = (IF At("rewire", "write") THEN found ELSE d)
      /\ UNCHANGED <<job, format>>
  BY DEF HostEdits, Shapes, Files
<1>2. IsHost(d) /\ d.other = c.other + 1 /\ d.services = s
  BY HostTexts
<1>3. c.other \in Nat /\ d.other \in Nat
  BY <1>1, <1>2 DEF HostInv, HostTyped
<1>4. CASE At("rewire", "idle")
  <2>1. quiet' = d
    BY <1>1, <1>4
  <2> HIDE DEF d
  <2>2. \A x : x = d => Holds(x)'
    BY <1>2, <1>3, <2>1 DEF Holds, KeepsServices
  <2>3. QED BY <1>1, <1>2, <1>3, <1>4, <2>1, <2>2
        DEF HostInv, HostTyped, HostKept, Sheltered, Between, At
<1>5. CASE ~At("rewire", "idle")
  <2>1. UNCHANGED quiet
    BY <1>1, <1>5
  <2>2. \A x : (Holds(x)' <=> Holds(x)) /\ (KeepsServices(x)' <=> KeepsServices(x))
    BY <2>1 DEF Holds, KeepsServices
  <2>3. KeepsServices(c) => KeepsServices(d)
    BY <1>1, <1>2 DEF KeepsServices
  <2> HIDE DEF d
  <2>4. Holds(c) => Holds(d)
    BY <1>2, <1>3, <2>3 DEF Holds, HostInv, HostTyped
  <2>5. ~At("rewire", "writing")
    BY <1>1, NoHosts DEF HostInv, HostTyped
  <2> USE <1>1, <1>2, <1>3, <1>5, <2>1, <2>5
  <2>6. HostTyped'
    BY DEF HostInv, HostTyped, At
  <2>7. Sheltered' => HostKept'
    BY <2>2, <2>4 DEF HostInv, HostKept, Sheltered, Between, At
  <2>8. QED BY <2>6, <2>7 DEF HostInv, Between, At
<1>6. QED BY <1>4, <1>5

LEMMA NextHost ==
  ASSUME Shapes, HostInv, [Next]_vars
  PROVE  HostInv'
<1>1. ASSUME NEW t \in Tools \ {"rewire"}, ToolStep(t) \/ ToolStops(t)
      PROVE  HostInv'
  <2>1. CASE ToolStep(t)
    <3>1. /\ job'["rewire"] = job["rewire"]
          /\ \A f \in Files \ {job[t].target, BackupOf(job[t].target)} : disk'[f] = disk[f]
      BY <1>1, <2>1, FileOperation DEF ToolStep, Tools
    <3>2. /\ job[t].target \notin {"host", "hostbak"}
          /\ BackupOf(job[t].target) \notin {"host", "hostbak"}
      BY <1>1 DEF Shapes, BackupOf
    <3>3. QED BY <1>1, <2>1, <3>1, <3>2, OthersKeepHost DEF ToolStep, Files
  <2>2. CASE ToolStops(t)
    <3>1. job'["rewire"] = job["rewire"]
      BY <1>1, <2>2, JobSet DEF ToolStops, Stops, Ends, Tools
    <3>2. QED BY <2>2, <3>1, OthersKeepHost DEF ToolStops, Stops
  <2>3. QED BY <1>1, <2>1, <2>2
<1>2. CASE ToolStep("rewire") \/ ToolStops("rewire")
  BY <1>2, RewireWritesHost, RewireStopsKeepsHost DEF ToolStep, ToolStops
<1>3. CASE ScanReads /\ UNCHANGED historyVars
  <2>1. job'["rewire"] = job["rewire"]
    BY <1>3, JobSet DEF ScanReads, Replaces, Tools
  <2>2. QED BY <1>3, <2>1, OthersKeepHost DEF ScanReads
<1>4. CASE (RewireScans \/ RewireMerges \/ \E n \in Names : HostEdits(n)) /\ UNCHANGED historyVars
  BY <1>4, RewireScansKeepsHost, RewireMergesKeepsHost, HostEditsKeepsHost
<1>5. CASE \/ \E f \in MuxFiles : WizardOpens(f)
           \/ (WizardLoads \/ Quit \/ Save \/ Persist) /\ UNCHANGED historyVars
  <2>1. UNCHANGED <<disk, format, quiet, found, stopped>>
    BY <1>5 DEF WizardOpens, WizardStarts, WizardLoads, Quit, Save, Leaves, Persist
  <2>2. \/ UNCHANGED job
        \/ \E s : Goes("wizard", s)
        \/ \E j : job' = [job EXCEPT !["wizard"] = j]
    BY <1>5 DEF WizardOpens, WizardStarts, WizardLoads, Quit, Save, Persist, Ends, Replaces
  <2>3. job'["rewire"] = job["rewire"]
    BY <2>2, JobGoes, JobSet DEF Tools
  <2>4. QED BY <2>1, <2>3, OthersKeepHost
<1>6. CASE \/ (ToggleTray \/ Esc \/ Type \/ \E f \in Texts : Enter(f)) /\ UNCHANGED historyVars
           \/ UNCHANGED vars
  BY <1>6, OthersKeepHost DEF ToggleTray, Esc, Type, Enter, Editor, vars
<1>7. ASSUME NEW t \in Tools, ToolStep(t) \/ ToolStops(t)
      PROVE  HostInv'
  BY <1>1, <1>2, <1>7
<1>8. QED BY <1>3, <1>4, <1>5, <1>6, <1>7 DEF Next

LEMMA HostInvariant == Spec => [](Shapes /\ HostInv)
<1>1. Shapes /\ HostInv /\ [Next]_vars => Shapes' /\ HostInv'
  BY NextShapes, NextHost
<1>2. QED BY <1>1, InitShapes, InitHost, PTL DEF Spec

(* For any number of rewires, each stopped between any two of its file       *)
(* operations, while the host goes on editing (write_with_backup,            *)
(* rewire_host): its settings, the names of its services and their           *)
(* environments are in its file or the backup at any moment; and whole, with *)
(* commands, arguments and sockets, what the last rewire found in the file   *)
(* or the host wrote since, but for the window between copy and truncation.  *)
(* A TOML file only while no rewire stopped.                                 *)
THEOREM RewireKeepsSettings == Spec => []SettingsSurvive
<1>1. HostInv => SettingsSurvive
  BY DEF HostInv, HostKept, Sheltered, Holds, KeepsServices, Keeps, SettingsSurvive
<1>2. QED BY <1>1, HostInvariant, PTL

-----------------------------------------------------------------------------
(* What a daemon is given.  Nothing unusable that is typed into a form gets  *)
(* to a file: all that a tool reads and all that it is about to write has to *)
(* be sound, and a form that is saved stays valid until it is written.       *)

Clean(servers) == \A n \in DOMAIN servers :
  /\ n # "blank"
  /\ servers[n].clients # "0"
  /\ "blank" \notin {servers[n].socket, servers[n].cmd}

Sound(c) ==
  /\ c.kind = "mux" => Clean(c.servers)
  /\ IsHost(c) => \A n \in DOMAIN c.services :
       n # "blank" /\ c.services[n].socket # "blank" /\ c.services[n].runs # "blank"

Overwriting == {"backup", "copying", "write", "writing"}

SoundInv ==
  /\ \A f \in Files : Sound(disk[f])
  /\ \A t \in Tools : /\ Sound(job[t].text)
                      /\ job[t].step \in Overwriting => job[t].target \in Files
  /\ \A c \in fromDisk : Clean(c)
  /\ tui = "saved" => ~At("wizard", "idle") /\ \A o \in form : Valid(o)

LEMMA SoundTexts ==
  /\ Sound(Missing) /\ Sound(Empty) /\ Sound(Mixed)
  /\ \A m, s : Clean(s) => Sound(MuxText(m, s))
  /\ \A n, s : (\A k \in DOMAIN s : k # "blank" /\ s[k].socket # "blank" /\ s[k].runs # "blank")
                 => Sound(HostText(n, s))
BY DEF Sound, Missing, Empty, Mixed, MuxText, HostText, IsHost

LEMMA InitSound == Init => SoundInv
<1> SUFFICES ASSUME Init PROVE SoundInv
  OBVIOUS
<1>1. PICK h \in HostTables, m \in {Missing} \cup {MuxText("toml", t) : t \in MuxTables} :
        disk = [f \in Files |-> CASE f = "host" -> HostText(0, h)
                                 [] f = "mux" -> m
                                 [] OTHER -> Missing]
  BY DEF Init
<1>2. Sound(HostText(0, h))
  <2>1. \A n \in DOMAIN h : n # "blank" /\ h[n].socket # "blank" /\ h[n].runs # "blank"
    BY ToolsAssumption DEF Serves, HostWritten, NoSocket
  <2>2. QED BY <2>1, SoundTexts
<1>3. Sound(m)
  <2>1. \A t \in MuxTables : Clean(t)
    BY ToolsAssumption DEF Clean, Serves, HandMade, Absent
  <2>2. QED BY <2>1, SoundTexts
<1>4. \A f \in Files : Sound(disk[f])
  BY <1>1, <1>2, <1>3, SoundTexts DEF Files
<1>5. \A t \in Tools : Sound(job[t].text) /\ job[t].step \notin Overwriting
  BY SoundTexts, IdleJob DEF Init, Overwriting
<1>6. QED BY <1>4, <1>5 DEF Init, SoundInv

LEMMA FilesStaySound ==
  ASSUME Shapes, SoundInv, NEW t \in Tools, Overwrites(t)
  PROVE  /\ \A f \in Files : Sound(disk'[f])
         /\ \A u \in Tools : /\ Sound(job'[u].text)
                             /\ job'[u].step \in Overwriting => job'[u].target \in Files
         /\ t = "wizard" /\ ~At("wizard", "writing") => ~At("wizard", "idle")'
         /\ t # "wizard" => job'["wizard"] = job["wizard"]
<1>1. /\ \A u \in Tools \ {t} : job'[u] = job[u]
      /\ \/ job'[t] = Idle /\ At(t, "writing")
         \/ \E s \in {"write", "copying", "writing"} :
              job'[t] = [step |-> s, target |-> job[t].target, text |-> job[t].text]
  BY FileOperation
<1>2. \A u \in Tools : Sound(job'[u].text)
  BY <1>1, IdleJob, SoundTexts DEF SoundInv
<1>3. job[t].step \in Overwriting
  BY FileOperation DEF At, Overwriting
<1>4. \A u \in Tools : job'[u].step \in Overwriting => job'[u].target \in Files
  BY <1>1, <1>3, IdleJob DEF SoundInv, Overwriting
<1>5. \/ UNCHANGED disk
      \/ \E f, c : disk' = [disk EXCEPT ![f] = c] /\ (f \in Files => Sound(c))
  <2>1. CASE UNCHANGED disk
    BY <2>1
  <2>2. CASE \E f : disk' = [disk EXCEPT ![f] = Empty]
    BY <2>2, SoundTexts
  <2>3. ASSUME NEW f, NEW x, Sound(x), Puts(f, x)
        PROVE  \E c : disk' = [disk EXCEPT ![f] = c] /\ (f \in Files => Sound(c))
    <3>1. PICK c \in Over(f, x) : disk' = [disk EXCEPT ![f] = c]
      BY <2>3 DEF Puts
    <3>2. c \in {x, Mixed, disk[f]}
      BY <3>1, Written
    <3>3. f \in Files => Sound(c)
      BY <2>3, <3>2, SoundTexts DEF SoundInv
    <3>4. QED BY <3>1, <3>3
  <2>4. job[t].target \in Files /\ Sound(job[t].text) /\ Sound(disk[job[t].target])
    BY <1>3 DEF SoundInv
  <2>5. \/ UNCHANGED disk
        \/ \E f : disk' = [disk EXCEPT ![f] = Empty]
        \/ Puts(job[t].target, job[t].text)
        \/ Puts(BackupOf(job[t].target), disk[job[t].target])
    BY FileOperation
  <2>6. QED BY <2>1, <2>2, <2>3, <2>4, <2>5
<1>6. \A f \in Files : Sound(disk'[f])
  BY <1>5 DEF SoundInv, Shapes
<1>7. QED BY <1>1, <1>2, <1>6, <1>4, IdleJob DEF At, Tools

(* The other steps leave the files, and give a tool a sound text to write.   *)
LEMMA JobsStaySound ==
  ASSUME Shapes, SoundInv, UNCHANGED disk, NEW t \in Tools,
         \/ UNCHANGED job
         \/ \E s : s \notin Overwriting /\ Goes(t, s)
         \/ \E j : Sound(j.text) /\ (j.step \in Overwriting => j.target \in Files)
                   /\ job' = [job EXCEPT ![t] = j]
  PROVE  /\ \A f \in Files : Sound(disk'[f])
         /\ \A u \in Tools : /\ Sound(job'[u].text)
                             /\ job'[u].step \in Overwriting => job'[u].target \in Files
         /\ \A u \in Tools \ {t} : job'[u] = job[u]
<1>1. CASE UNCHANGED job
  BY <1>1 DEF SoundInv
<1>2. ASSUME NEW s, s \notin Overwriting, Goes(t, s)
      PROVE  /\ \A u \in Tools : /\ Sound(job'[u].text)
                                 /\ job'[u].step \in Overwriting => job'[u].target \in Files
             /\ \A u \in Tools \ {t} : job'[u] = job[u]
  <2>1. /\ job'[t].step = s /\ job'[t].text = job[t].text
        /\ \A u \in Tools \ {t} : job'[u] = job[u]
    <3>1. /\ job'[t] = [step |-> s, target |-> job[t].target, text |-> job[t].text]
          /\ \A u \in Tools \ {t} : job'[u] = job[u]
      BY <1>2, JobGoes
    <3>2. QED BY <3>1
  <2>2. QED BY <1>2, <2>1 DEF SoundInv
<1>3. ASSUME NEW j, Sound(j.text), j.step \in Overwriting => j.target \in Files,
             job' = [job EXCEPT ![t] = j]
      PROVE  /\ \A u \in Tools : /\ Sound(job'[u].text)
                                 /\ job'[u].step \in Overwriting => job'[u].target \in Files
             /\ \A u \in Tools \ {t} : job'[u] = job[u]
  BY <1>3, JobSet DEF SoundInv
<1>4. \A f \in Files : Sound(disk'[f])
  BY DEF SoundInv
<1>5. QED BY <1>1, <1>2, <1>3, <1>4

LEMMA IdleIsNoWrite == "idle" \notin Overwriting /\ Sound(Idle.text) /\ Idle.step = "idle"
BY IdleJob, SoundTexts DEF Overwriting

LEMMA ParsedIsSound ==
  ASSUME NEW c, Sound(c)
  PROVE  \A n \in DOMAIN Parsed(c).services :
           /\ n # "blank"
           /\ Parsed(c).services[n].socket # "blank" /\ Parsed(c).services[n].runs # "blank"
<1>1. CASE IsHost(c)
  BY <1>1 DEF Sound, Parsed
<1>2. CASE ~IsHost(c)
  BY <1>2, HostTexts DEF Parsed
<1>3. QED BY <1>1, <1>2

(* build_manifest and generate_snippet keep what is sound.                   *)
LEMMA ManifestIsSound ==
  ASSUME NEW c, Sound(c)
  PROVE  Sound(BuildManifest(Parsed(c).services))
<1> DEFINE s == Parsed(c).services
           m == [n \in DOMAIN s |-> ManifestEntry(s[n])]
<1>1. \A n \in DOMAIN s : n # "blank" /\ s[n].socket # "blank" /\ s[n].runs # "blank"
  BY ParsedIsSound
<1>2. DOMAIN m = DOMAIN s /\ \A n \in DOMAIN s : m[n] = ManifestEntry(s[n])
  OBVIOUS
<1> HIDE DEF s
<1>3. \A n \in DOMAIN s : /\ ManifestEntry(s[n]).clients # "0"
                          /\ "blank" \notin {ManifestEntry(s[n]).socket, ManifestEntry(s[n]).cmd}
  BY <1>1 DEF ManifestEntry, SocketOf
<1>4. Clean(m)
  BY <1>1, <1>2, <1>3 DEF Clean
<1>5. BuildManifest(s) = MuxText("toml", m)
  BY DEF BuildManifest
<1>6. QED BY <1>4, <1>5, SoundTexts DEF s

LEMMA SnippetIsSound ==
  ASSUME NEW c, Sound(c), NEW n
  PROVE  Sound(HostText(n, Snippet(Parsed(c).services)))
<1> DEFINE s == Parsed(c).services
<1>1. \A k \in DOMAIN s : k # "blank"
  BY ParsedIsSound
<1> HIDE DEF s
<1>2. DOMAIN Snippet(s) = DOMAIN s /\ \A k \in DOMAIN s : Snippet(s)[k] = ProxyEntry(s[k])
  BY DEF Snippet
<1>3. \A k \in DOMAIN s : ProxyEntry(s[k]).socket # "blank" /\ ProxyEntry(s[k]).runs # "blank"
  BY DEF ProxyEntry, NoSocket
<1>4. QED BY <1>1, <1>2, <1>3, SoundTexts DEF s

LEMMA LoadedIsSound ==
  ASSUME SoundInv, NEW f \in Files, Loads(f), NEW c \in Loaded(f)
  PROVE  Clean(c)
BY DEF SoundInv, Loads, Loaded, Sound

LEMMA PersistedIsSound ==
  ASSUME SoundInv, NEW o \in form, Valid(o)
  PROVE  Sound(Persisted(o, fromDisk))
<1> DEFINE old == IF fromDisk = {} THEN <<>> ELSE CHOOSE c \in fromDisk : TRUE
           m == [n \in DOMAIN old \cup {o.name} |-> IF n = o.name THEN Entry(o) ELSE old[n]]
<1>1. Clean(old)
  <2>1. CASE fromDisk = {}
    BY <2>1 DEF Clean
  <2>2. CASE fromDisk # {}
    BY <2>2 DEF SoundInv
  <2>3. QED BY <2>1, <2>2
<1> HIDE DEF old
<1>2. /\ o.name # "blank" /\ Entry(o).clients # "0"
      /\ "blank" \notin {Entry(o).socket, Entry(o).cmd}
  BY DEF Valid, Entry
<1>3. Clean(m)
  BY <1>1, <1>2 DEF Clean
<1>4. Persisted(o, fromDisk) = MuxText(Writer(o.path), m)
  BY DEF Persisted, old
<1>5. QED BY <1>3, <1>4, SoundTexts

LEMMA NextSound ==
  ASSUME Shapes, HostInv, SoundInv, [Next]_vars
  PROVE  SoundInv'
<1>0. /\ "scan" \in Tools /\ "rewire" \in Tools /\ "wizard" \in Tools
      /\ {"mux", "alt", "host"} \subseteq Files
  BY DEF Tools, Files
<1>1. ASSUME NEW t \in Tools, ToolStep(t)
      PROVE  SoundInv'
  <2>1. /\ \A f \in Files : Sound(disk'[f])
        /\ \A u \in Tools : /\ Sound(job'[u].text)
                            /\ job'[u].step \in Overwriting => job'[u].target \in Files
        /\ t = "wizard" /\ ~At("wizard", "writing") => ~At("wizard", "idle")'
        /\ t # "wizard" => job'["wizard"] = job["wizard"]
    BY <1>1, FilesStaySound DEF ToolStep
  <2>2. CASE t = "wizard" /\ At("wizard", "writing")
    BY <1>1, <2>1, <2>2 DEF ToolStep, SoundInv
  <2>3. CASE ~(t = "wizard" /\ At("wizard", "writing"))
    BY <1>1, <2>1, <2>3 DEF ToolStep, SoundInv, At
  <2>4. QED BY <2>2, <2>3
<1>2. ASSUME NEW t \in Tools, ToolStops(t)
      PROVE  SoundInv'
  <2>1. job' = [job EXCEPT ![t] = Idle] /\ UNCHANGED disk
    BY <1>2 DEF ToolStops, Stops, Ends
  <2>2. /\ \A f \in Files : Sound(disk'[f])
        /\ \A u \in Tools : /\ Sound(job'[u].text)
                            /\ job'[u].step \in Overwriting => job'[u].target \in Files
        /\ \A u \in Tools \ {t} : job'[u] = job[u]
    BY <2>1, JobsStaySound, IdleIsNoWrite
  <2>3. QED BY <1>0, <1>2, <2>2 DEF ToolStops, SoundInv, At
<1>3. ASSUME NEW t \in {"scan", "rewire"}, UNCHANGED <<disk, wizardVars>>,
             \/ UNCHANGED job
             \/ \E j : Sound(j.text) /\ (j.step \in Overwriting => j.target \in Files)
                       /\ job' = [job EXCEPT ![t] = j]
      PROVE  SoundInv'
  <2>1. /\ \A f \in Files : Sound(disk'[f])
        /\ \A u \in Tools : /\ Sound(job'[u].text)
                            /\ job'[u].step \in Overwriting => job'[u].target \in Files
        /\ job'["wizard"] = job["wizard"]
    BY <1>0, <1>3, JobsStaySound
  <2>2. QED BY <1>3, <2>1 DEF SoundInv, At
<1>4. CASE ScanReads /\ UNCHANGED wizardVars
  <2>1. \/ UNCHANGED job
        \/ job' = [job EXCEPT !["scan"] = [step |-> "backup", target |-> "mux",
                                          text |-> BuildManifest(Parsed(disk["host"]).services)]]
    BY <1>4 DEF ScanReads, Replaces
  <2>2. Sound(BuildManifest(Parsed(disk["host"]).services))
    BY <1>0, ManifestIsSound DEF SoundInv
  <2>3. QED BY <1>0, <1>3, <1>4, <2>1, <2>2 DEF ScanReads
<1>5. CASE RewireScans /\ UNCHANGED wizardVars
  <2>1. \/ UNCHANGED job
        \/ job' = [job EXCEPT !["rewire"] = [step |-> "merge", target |-> "host",
                      text |-> HostText(0, Snippet(Parsed(disk["host"]).services))]]
    BY <1>5 DEF RewireScans
  <2>2. Sound(HostText(0, Snippet(Parsed(disk["host"]).services)))
    BY <1>0, SnippetIsSound DEF SoundInv
  <2>3. QED BY <1>0, <1>3, <1>5, <2>1, <2>2 DEF RewireScans
<1>6. CASE RewireMerges /\ UNCHANGED wizardVars
  <2> DEFINE x == HostText(Parsed(disk["host"]).other, job["rewire"].text.services)
  <2>1. \/ job' = [job EXCEPT !["rewire"] = Idle]
        \/ job' = [job EXCEPT !["rewire"] = [step |-> "backup", target |-> "host", text |-> x]]
    BY <1>6 DEF RewireMerges, Ends, Replaces
  <2>2. IsHost(job["rewire"].text) /\ Sound(job["rewire"].text)
    BY <1>0, <1>6 DEF RewireMerges, HostInv, HostTyped, SoundInv
  <2>3. Sound(x)
    BY <2>2, SoundTexts DEF Sound
  <2> HIDE DEF x
  <2>4. QED BY <1>0, <1>3, <1>6, <2>1, <2>3, IdleIsNoWrite DEF RewireMerges
<1>7. ASSUME NEW n \in Names, HostEdits(n), UNCHANGED wizardVars
      PROVE  SoundInv'
  <2> DEFINE c == disk["host"]
             s == [m \in DOMAIN c.services \cup {n} |->
                     IF m = n THEN Service(NoSocket, "set") ELSE c.services[m]]
  <2>1. disk' = [disk EXCEPT !["host"] = HostText(c.other + 1, s)] /\ UNCHANGED job /\ IsHost(c)
    BY <1>7 DEF HostEdits
  <2>2. \A m \in DOMAIN s : m # "blank" /\ s[m].socket # "blank" /\ s[m].runs # "blank"
    BY <1>0, <2>1, ToolsAssumption DEF SoundInv, Sound, Service, NoSocket
  <2>3. Sound(HostText(c.other + 1, s))
    BY <2>2, SoundTexts
  <2>4. \A f \in Files : Sound(disk'[f])
    BY <2>1, <2>3 DEF SoundInv, Shapes
  <2>5. QED BY <1>7, <2>1, <2>4 DEF SoundInv, At
<1>8. ASSUME UNCHANGED disk, \A c \in fromDisk' : Clean(c),
             \/ UNCHANGED job
             \/ \E s : s \notin Overwriting /\ Goes("wizard", s)
             \/ \E j : Sound(j.text) /\ (j.step \in Overwriting => j.target \in Files)
                       /\ job' = [job EXCEPT !["wizard"] = j],
             tui' = "saved" => job'["wizard"].step # "idle" /\ \A o \in form' : Valid(o)
      PROVE  SoundInv'
  <2>1. /\ \A f \in Files : Sound(disk'[f])
        /\ \A u \in Tools : /\ Sound(job'[u].text)
                            /\ job'[u].step \in Overwriting => job'[u].target \in Files
    BY <1>0, <1>8, JobsStaySound
  <2>2. QED BY <1>8, <2>1 DEF SoundInv, At
<1>9. ASSUME NEW f \in {"mux", "alt"}, WizardOpens(f)
      PROVE  SoundInv'
  <2>1. /\ UNCHANGED <<disk, fromDisk, tui>> /\ At("wizard", "idle")
        /\ UNCHANGED job \/ Goes("wizard", "reading")
    BY <1>9 DEF WizardOpens, WizardStarts, Begins
  <2>2. tui # "saved"
    BY <2>1 DEF SoundInv
  <2>3. QED BY <1>8, <2>1, <2>2 DEF SoundInv, Overwriting
<1>10. CASE WizardLoads
  <2>1. /\ UNCHANGED disk /\ Goes("wizard", "editing") /\ tui' = "on"
        /\ \E o \in form : fromDisk' = IF Loads(o.path) THEN Loaded(o.path) ELSE {}
    BY <1>10 DEF WizardLoads
  <2>2. \A c \in fromDisk' : Clean(c)
    BY <1>0, <2>1, LoadedIsSound DEF Shapes, IsForm
  <2>3. QED BY <1>8, <2>1, <2>2 DEF Overwriting
<1>11. CASE Quit
  BY <1>8, <1>11, IdleIsNoWrite DEF Quit, Leaves, Ends, SoundInv
<1>12. CASE Save
  <2>1. UNCHANGED <<disk, fromDisk>>
    BY <1>12 DEF Save, Leaves
  <2>2. CASE tui' = "saved"
    <3>1. Goes("wizard", "persist") /\ UNCHANGED form /\ \A o \in form : Valid(o)
      BY <1>12, <2>2 DEF Save, Leaves, Shapes
    <3>2. job'["wizard"].step = "persist"
      <4>1. job'["wizard"] = [step |-> "persist", target |-> job["wizard"].target,
                              text |-> job["wizard"].text]
        BY <1>0, <3>1, JobGoes
      <4>2. QED BY <4>1
    <3>3. QED BY <1>8, <2>1, <3>1, <3>2 DEF SoundInv, Overwriting
  <2>3. CASE tui' # "saved"
    <3>1. Ends("wizard")
      BY <1>12, <2>3 DEF Save, Leaves
    <3>2. QED BY <1>8, <2>1, <2>3, <3>1, IdleIsNoWrite DEF Ends, SoundInv
  <2>4. QED BY <2>2, <2>3
<1>13. CASE Persist
  <2>1. PICK o \in form : Replaces("wizard", o.path, Persisted(o, fromDisk))
    BY <1>13 DEF Persist
  <2>2. tui = "saved" /\ UNCHANGED <<disk, wizardVars>>
    BY <1>13 DEF Persist
  <2>3. Valid(o) /\ o.path \in Files
    BY <1>0, <2>2 DEF SoundInv, Shapes, IsForm
  <2>4. Sound(Persisted(o, fromDisk))
    BY <2>3, PersistedIsSound
  <2>5. job' = [job EXCEPT !["wizard"] =
                  [step |-> "backup", target |-> o.path, text |-> Persisted(o, fromDisk)]]
    BY <2>1 DEF Replaces
  <2>6. job'["wizard"].step = "backup"
    BY <1>0, <2>5, JobSet
  <2>7. QED BY <1>8, <2>2, <2>3, <2>4, <2>5, <2>6 DEF SoundInv
<1>14. CASE ToggleTray \/ Esc \/ Type \/ (\E f \in Texts : Enter(f)) \/ UNCHANGED vars
  <2>1. /\ UNCHANGED <<disk, job, fromDisk, tui>>
        /\ tui = "saved" => UNCHANGED form
    BY <1>14 DEF ToggleTray, Esc, Type, Enter, Editor, vars
  <2>2. QED BY <2>1 DEF SoundInv, At
<1>15. QED BY <1>1, <1>2, <1>4, <1>5, <1>6, <1>7, <1>9, <1>10, <1>11, <1>12, <1>13, <1>14
       DEF Next

LEMMA SoundInvariant == Spec => []SoundInv
<1>1. Shapes /\ HostInv /\ SoundInv /\ [Next]_vars => SoundInv'
  BY NextSound
<1>2. QED BY <1>1, InitSound, HostInvariant, PTL DEF Spec

(* What a save does to the other services.  As long as no scan runs, what    *)
(* the wizard read is in the file until its own write truncates it, and what *)
(* it is about to write has the other services as they were.                 *)

KeepsRest(servers) == \A o \in form : \A n \in DOMAIN opened.text.servers \ {o.name} :
  n \in DOMAIN servers /\ servers[n] = opened.text.servers[n]

Undisturbed ==
  /\ ~At("wizard", "idle") /\ ~shared
  /\ opened.path = "mux" /\ opened.text.kind = "mux"

SaveInv ==
  /\ tui = "on" => At("wizard", "editing")
  /\ ~At("wizard", "idle") /\ ~shared => job["scan"].step \in {"idle", "backup"}
  /\ Undisturbed =>
       /\ At("wizard", "reading") =>
            disk["mux"] = opened.text /\ Loads("mux") /\ \A o \in form : o.path = "mux"
       /\ job["wizard"].step \in {"editing", "persist"} => fromDisk = {opened.text.servers}
       /\ job["wizard"].step \in Overwriting =>
            job["wizard"].text.kind = "mux" /\ KeepsRest(job["wizard"].text.servers)
       /\ At("wizard", "writing") /\ job["wizard"].target = "mux" => disk["mux"] = Empty

LEMMA InitSave == Init => SaveInv
BY IdleJob DEF Init, SaveInv, Undisturbed, At, Tools

(* Steps of others that leave the mux file alone and, if they are a scan's,  *)
(* only start it.                                                            *)
LEMMA OthersKeepSave ==
  ASSUME SaveInv, job'["wizard"] = job["wizard"],
         ~At("wizard", "idle") /\ ~shared' =>
           job'["scan"].step \in {"idle", "backup"} /\ disk'["mux"] = disk["mux"],
         shared => shared',
         UNCHANGED <<opened, fromDisk, form, tui>>
  PROVE  SaveInv'
BY DEF SaveInv, Undisturbed, At, KeepsRest, Loads

LEMMA WizardWritesSave ==
  ASSUME Shapes, SaveInv, ToolStep("wizard")
  PROVE  SaveInv'
<1> DEFINE j == job["wizard"]
<1>0. "wizard" \in Tools /\ "scan" \in Tools /\ "wizard" # "scan"
      /\ j.target \notin {"host", "hostbak"} /\ DOMAIN disk = Files /\ "mux" \in Files
  BY DEF Tools, Shapes, Files
<1>1. /\ job'["scan"] = job["scan"] /\ UNCHANGED opened
      /\ shared' <=> shared
      /\ IF At("wizard", "writing") THEN tui' = "off" ELSE UNCHANGED <<form, fromDisk, tui>>
  BY <1>0, FileOperation DEF ToolStep, At
<1>2. \/ At("wizard", "writing") /\ job'["wizard"] = Idle
      \/ /\ j.step \in {"backup", "copying", "write"}
         /\ \E s \in {"copying", "write", "writing"} :
              /\ job'["wizard"] = [step |-> s, target |-> j.target, text |-> j.text]
              /\ s = "writing" => disk' = [disk EXCEPT ![j.target] = Empty]
  <2>1. Overwrites("wizard") BY DEF ToolStep
  <2>2. QED BY <1>0, <2>1, FileOperation DEF At
<1>3. CASE At("wizard", "writing") /\ job'["wizard"] = Idle
  BY <1>1, <1>3, IdleJob DEF SaveInv, Undisturbed, At
<1>4. CASE j.step \in {"backup", "copying", "write"}
  <2>1. /\ UNCHANGED <<form, fromDisk>> /\ job'["wizard"].step \in {"copying", "write", "writing"}
        /\ tui' = tui /\ tui # "on"
    BY <1>1, <1>2, <1>4 DEF At, SaveInv
  <2>2. job'["wizard"].step = "writing" /\ j.target = "mux" => disk'["mux"] = Empty
    BY <1>0, <1>2, <1>4 DEF At
  <2>3. j.step \in Overwriting /\ j.step # "idle"
    BY <1>4 DEF Overwriting
  <2>4. job'["wizard"].target = j.target /\ job'["wizard"].text = j.text
    BY <1>2, <1>4 DEF At

  <2> HIDE DEF j
  <2>5. QED BY <1>1, <2>1, <2>2, <2>3, <2>4 DEF SaveInv, Undisturbed, At, KeepsRest, j
<1>5. QED BY <1>2, <1>3, <1>4

LEMMA ToolNames == "wizard" \in Tools /\ "scan" \in Tools \ {"wizard"}
BY DEF Tools

LEMMA WizardGoes ==
  ASSUME Shapes, NEW s, Goes("wizard", s)
  PROVE  job'["wizard"].step = s /\ job'["scan"] = job["scan"]
<1>1. /\ job'["wizard"] = [step |-> s, target |-> job["wizard"].target, text |-> job["wizard"].text]
      /\ \A u \in Tools \ {"wizard"} : job'[u] = job[u]
  BY JobGoes, ToolNames
<1>2. QED BY <1>1, ToolNames

LEMMA WizardOpensSave ==
  ASSUME Shapes, SaveInv, NEW f \in {"mux", "alt"}, WizardOpens(f)
  PROVE  SaveInv'
<1>1. /\ UNCHANGED disk /\ shared' = ~At("scan", "idle") /\ At("wizard", "idle")
      /\ opened' = [path |-> f, text |-> disk[f]] /\ tui' = tui /\ tui # "on"
  BY DEF WizardOpens, WizardStarts, Begins, SaveInv, At
<1>2. CASE ~Loads(f)
  BY <1>1, <1>2 DEF WizardOpens, WizardStarts, SaveInv, Undisturbed, At
<1>3. CASE Loads(f)
  <2>1. /\ Goes("wizard", "reading")
        /\ \E o \in InitialForms(f) : form' = {o}
    BY <1>3 DEF WizardOpens, WizardStarts
  <2>2. job'["wizard"].step = "reading" /\ job'["scan"] = job["scan"]
    BY <2>1, WizardGoes
  <2>3. \A o \in form' : o.path = f
    BY <2>1 DEF InitialForms, FormOf
  <2>4. Loads(f)'
    BY <1>1, <1>3 DEF Loads
  <2>5. QED BY <1>1, <2>2, <2>3, <2>4 DEF SaveInv, Undisturbed, At, Overwriting
<1>4. QED BY <1>2, <1>3

LEMMA WizardLoadsSave ==
  ASSUME Shapes, SaveInv, WizardLoads, UNCHANGED historyVars
  PROVE  SaveInv'
<1>1. /\ UNCHANGED disk /\ At("wizard", "reading") /\ Goes("wizard", "editing")
      /\ \E o \in form : fromDisk' = IF Loads(o.path) THEN Loaded(o.path) ELSE {}
  BY DEF WizardLoads
<1>2. job'["wizard"].step = "editing" /\ job'["scan"] = job["scan"]
  BY <1>1, WizardGoes
<1>3. Undisturbed => fromDisk' = {opened.text.servers}
  BY <1>1 DEF SaveInv, Loaded, Undisturbed, Missing, At
<1>4. QED BY <1>1, <1>2, <1>3 DEF SaveInv, Undisturbed, At, Overwriting

LEMMA PersistSaves ==
  ASSUME Shapes, SaveInv, Persist, UNCHANGED historyVars
  PROVE  SaveInv'
<1>1. PICK o \in form : Replaces("wizard", o.path, Persisted(o, fromDisk))
  BY DEF Persist
<1>2. UNCHANGED <<disk, form, fromDisk, tui>> /\ At("wizard", "persist") /\ tui # "on"
  BY DEF Persist
<1> DEFINE x == Persisted(o, fromDisk)
<1>3. job'["wizard"] = [step |-> "backup", target |-> o.path, text |-> x]
      /\ job'["scan"] = job["scan"]
  BY <1>1, JobSet DEF Replaces, Tools
<1>4. ASSUME fromDisk = {opened.text.servers}
      PROVE  x.kind = "mux" /\ KeepsRest(x.servers)
  <2> DEFINE old == opened.text.servers
  <2>1. (CHOOSE c \in fromDisk : TRUE) = old /\ fromDisk # {}
    BY <1>4
  <2>2. x = MuxText("toml", [n \in DOMAIN old \cup {o.name} |->
                               IF n = o.name THEN Entry(o) ELSE old[n]])
    BY <2>1 DEF Persisted, Writer
  <2>3. x.kind = "mux" /\ x.servers = [n \in DOMAIN old \cup {o.name} |->
                                        IF n = o.name THEN Entry(o) ELSE old[n]]
    BY <2>2 DEF MuxText
  <2>4. \A p \in form : p = o
    BY DEF Shapes
  <2> HIDE DEF old, x
  <2>5. KeepsRest(x.servers)
    BY <2>3, <2>4 DEF KeepsRest, old
  <2>6. QED BY <2>3, <2>5
<1>5. /\ job'["wizard"].step = "backup" /\ job'["wizard"].text = x
  BY <1>3
<1> HIDE DEF x
<1>6. \A s : KeepsRest(s)' <=> KeepsRest(s)
  BY <1>2 DEF KeepsRest
<1>7. QED BY <1>2, <1>3, <1>4, <1>5, <1>6 DEF SaveInv, Undisturbed, At

(* A rewire leaves the mux file alone, and a scan that writes is shared.     *)
LEMMA OthersWrite ==
  ASSUME Shapes, HostInv, SaveInv, NEW t \in Tools \ {"wizard"}, ToolStep(t)
  PROVE  SaveInv' /\ (~At("wizard", "idle") /\ ~shared => disk'["mux"] = disk["mux"])
<1>1. Overwrites(t) /\ UNCHANGED <<opened, fromDisk, form, tui>>
      /\ shared' = (shared \/ (t = "scan" /\ ~At("wizard", "idle")))
  BY DEF ToolStep
<1>2. /\ \A u \in Tools \ {t} : job'[u] = job[u]
      /\ \A f \in Files \ {job[t].target, BackupOf(job[t].target)} : disk'[f] = disk[f]
      /\ job[t].step # "idle"
  BY <1>1, FileOperation DEF At
<1>3. job'["wizard"] = job["wizard"] /\ "mux" \in Files
  BY <1>2 DEF Tools, Files
<1>4. CASE t = "rewire"
  <2>1. job[t].target = "host" /\ BackupOf("host") = "hostbak" /\ job'["scan"] = job["scan"]
    BY <1>2, <1>4 DEF HostInv, HostTyped, At, BackupOf, Tools
  <2>2. disk'["mux"] = disk["mux"]
    BY <1>2, <1>3, <2>1
  <2>3. SaveInv'
    BY <1>1, <1>3, <1>4, <2>1, <2>2, OthersKeepSave DEF SaveInv
  <2>4. QED BY <2>2, <2>3
<1>5. CASE t = "scan"
  <2>1. SaveInv'
    BY <1>1, <1>3, <1>5, OthersKeepSave
  <2>2. ASSUME ~At("wizard", "idle"), ~shared
        PROVE  disk'["mux"] = disk["mux"]
    <3>1. job[t].step = "backup"
      BY <1>2, <1>5, <2>2 DEF SaveInv
    <3>2. UNCHANGED disk \/ disk' = [disk EXCEPT ![BackupOf(job[t].target)] = Empty]
      BY <1>1, <3>1, FileOperation DEF At
    <3>3. BackupOf(job[t].target) # "mux"
      BY DEF BackupOf
    <3>4. QED BY <1>3, <3>2, <3>3 DEF Shapes
  <2>3. QED BY <2>1, <2>2
<1>6. QED BY <1>4, <1>5 DEF Tools

LEMMA NextSave ==
  ASSUME Shapes, HostInv, SaveInv, [Next]_vars
  PROVE  SaveInv'
<1>1. CASE \E t \in Tools : ToolStep(t)
  BY <1>1, WizardWritesSave, OthersWrite
<1>2. ASSUME NEW t \in Tools, ToolStops(t)
      PROVE  SaveInv'
  <2>1. /\ job'[t] = Idle /\ \A u \in Tools \ {t} : job'[u] = job[u]
        /\ UNCHANGED <<disk, opened, shared>>
    BY <1>2, JobSet DEF ToolStops, Stops, Ends
  <2>2. CASE t = "wizard"
    BY <1>2, <2>1, <2>2, IdleJob DEF SaveInv, Undisturbed, At, ToolStops
  <2>3. CASE t # "wizard"
    <3>1. UNCHANGED <<form, fromDisk, tui>>
      BY <1>2, <2>3 DEF ToolStops
    <3>2. job'["wizard"] = job["wizard"] /\ (job'["scan"] = job["scan"] \/ job'["scan"] = Idle)
      BY <2>1, <2>3 DEF Tools
    <3>3. QED BY <2>1, <3>1, <3>2, IdleJob, OthersKeepSave DEF SaveInv
  <2>4. QED BY <2>2, <2>3
<1>3. CASE ScanReads /\ UNCHANGED <<wizardVars, historyVars>>
  <2>1. /\ UNCHANGED disk /\ At("scan", "idle")
        /\ \/ UNCHANGED job
           \/ \E x : job' = [job EXCEPT !["scan"] =
                               [step |-> "backup", target |-> "mux", text |-> x]]
    BY <1>3 DEF ScanReads, Replaces, Begins
  <2>2. job'["wizard"] = job["wizard"] /\ job'["scan"].step \in {"idle", "backup"}
    BY <2>1, JobSet DEF Tools, At
  <2>3. QED BY <1>3, <2>1, <2>2, OthersKeepSave
<1>4. CASE (RewireScans \/ RewireMerges) /\ UNCHANGED <<wizardVars, historyVars>>
  <2>1. /\ UNCHANGED disk
        /\ \/ UNCHANGED job
           \/ \E j : job' = [job EXCEPT !["rewire"] = j]
    BY <1>4 DEF RewireScans, RewireMerges, Replaces, Ends
  <2>2. job'["wizard"] = job["wizard"] /\ job'["scan"] = job["scan"]
    BY <2>1, JobSet DEF Tools
  <2>3. QED BY <1>4, <2>1, <2>2, OthersKeepSave DEF SaveInv
<1>5. CASE (\E n \in Names : HostEdits(n)) /\ UNCHANGED <<wizardVars, historyVars>>
  <2>1. disk'["mux"] = disk["mux"] /\ UNCHANGED job
    BY <1>5 DEF HostEdits, Shapes, Files
  <2>2. QED BY <1>5, <2>1, OthersKeepSave DEF SaveInv
<1>6. CASE \E f \in {"mux", "alt"} : WizardOpens(f)
  BY <1>6, WizardOpensSave
<1>7. CASE (WizardLoads \/ Persist) /\ UNCHANGED historyVars
  BY <1>7, WizardLoadsSave, PersistSaves
<1>8. CASE (Quit \/ Save) /\ UNCHANGED historyVars
  <2>1. UNCHANGED <<disk, fromDisk>> /\ tui' # "on" /\ At("wizard", "editing")
    BY <1>8 DEF Quit, Save, Leaves, SaveInv
  <2>2. \/ Ends("wizard")
        \/ Goes("wizard", "persist")
    BY <1>8 DEF Quit, Save
  <2>3. job'["wizard"].step \in {"idle", "persist"} /\ job'["scan"] = job["scan"]
    <3>1. CASE Goes("wizard", "persist")
      BY <3>1, WizardGoes
    <3>2. CASE Ends("wizard")
      BY <3>2, JobSet, IdleJob, ToolNames DEF Ends
    <3>3. QED BY <2>2, <3>1, <3>2
  <2>4. QED BY <1>8, <2>1, <2>3 DEF SaveInv, Undisturbed, At, Overwriting
<1>9. CASE (ToggleTray \/ Esc \/ Type \/ \E f \in Texts : Enter(f)) /\ UNCHANGED historyVars
  <2>1. At("wizard", "editing") /\ UNCHANGED <<disk, job, fromDisk>>
    BY <1>9 DEF ToggleTray, Esc, Type, Enter, Editor
  <2>2. QED BY <1>9, <2>1 DEF SaveInv, Undisturbed, At, Overwriting
<1>10. CASE UNCHANGED vars
  BY <1>10, OthersKeepSave DEF vars, SaveInv
<1>11. QED BY <1>1, <1>2, <1>3, <1>4, <1>5, <1>6, <1>7, <1>8, <1>9, <1>10 DEF Next

LEMMA SaveInvariant == Spec => [](Shapes /\ HostInv /\ SaveInv)
<1>1. Shapes /\ HostInv /\ SaveInv /\ [Next]_vars => SaveInv'
  BY NextSave
<1>2. QED BY <1>1, InitSave, HostInvariant, PTL DEF Spec

(* A save to the file that the wizard was started on keeps every service but *)
(* the one of the form as it was then, unless a scan ran meanwhile (persist  *)
(* writes back config_from_disk), whatever rewires and the host do.          *)
THEOREM SaveKeepsOthers == Spec => SaveChangesOneService
<1> DEFINE Saves ==
      (Completes("wizard", "mux") /\ disk'["mux"].kind = "mux" /\ ~shared
        /\ opened.path = "mux" /\ opened.text.kind = "mux") =>
        \A o \in form : \A n \in DOMAIN opened.text.servers \ {o.name} :
          /\ n \in DOMAIN disk'["mux"].servers
          /\ disk'["mux"].servers[n] = opened.text.servers[n]
<1>1. Shapes /\ HostInv /\ SaveInv /\ [Next]_vars => Saves
  <2> SUFFICES ASSUME Shapes, HostInv, SaveInv, [Next]_vars, Completes("wizard", "mux"),
                      disk'["mux"].kind = "mux", Undisturbed
               PROVE  KeepsRest(disk'["mux"].servers)
    BY DEF KeepsRest, Undisturbed, Completes, At
  <2>1. disk["mux"] = Empty /\ KeepsRest(job["wizard"].text.servers) /\ At("wizard", "writing")
        /\ job["wizard"].target = "mux"
    BY DEF SaveInv, Completes, Overwriting, At
  <2>2. disk'["mux"] # disk["mux"]
    BY <2>1 DEF Empty
  <2>3. ASSUME NEW t \in Tools, ToolStep(t)
        PROVE  disk'["mux"] = job["wizard"].text
    <3>1. t = "wizard"
      BY <2>2, <2>3, OthersWrite DEF Undisturbed
    <3>2. Puts("mux", job["wizard"].text)
      BY <2>1, <2>3, <3>1, FileOperation DEF ToolStep, At
    <3>3. PICK c \in Over("mux", job["wizard"].text) : disk' = [disk EXCEPT !["mux"] = c]
      BY <3>2 DEF Puts
    <3>4. c = job["wizard"].text
      BY <2>1, <3>3, Written
    <3>5. QED BY <3>3, <3>4 DEF Shapes, Files
  <2>4. ~\E n \in Names : HostEdits(n)
    BY <2>2 DEF HostEdits, Shapes, Files
  <2>5. CASE \E t \in Tools : ToolStep(t)
    BY <2>1, <2>3, <2>5
  <2>6. CASE ~\E t \in Tools : ToolStep(t)
    BY <2>2, <2>4, <2>6 DEF Next, ToolStops, Stops, ScanReads, RewireScans, RewireMerges,
       WizardOpens, WizardStarts, WizardLoads, Quit, Save, Leaves, Persist, Enter, ToggleTray,
       Esc, Type, Editor, vars
  <2>7. QED BY <2>5, <2>6
<1>2. QED BY <1>1, SaveInvariant, PTL DEF Spec, SaveChangesOneService

-----------------------------------------------------------------------------
(* What a daemon makes of a saved form.  A file that the wizard wrote, if it  *)
(* has not been mixed with a text of the scan, has the service of the form,  *)
(* and resolve_params finds it there.                                        *)

(* A file operation changes a mux file only to truncate it or to write a     *)
(* whole text over it.                                                       *)
LEMMA MuxWrites ==
  ASSUME Shapes, HostInv, NEW t \in Tools, ToolStep(t), NEW f \in MuxFiles
  PROVE  IF Completes(t, f)
         THEN t # "rewire" /\ disk'[f] \in Over(f, job[t].text) /\ job'[t] = Idle
         ELSE disk'[f] \in {disk[f], Empty}
<1>1. Overwrites(t) /\ DOMAIN disk = Files /\ f \in Files /\ BackupOf(job[t].target) # f
  BY DEF ToolStep, Shapes, Files, BackupOf
<1>2. CASE Completes(t, f)
  <2>1. Puts(f, job[t].text) /\ job'[t] = Idle
    BY <1>1, <1>2, FileOperation DEF Completes, At
  <2>2. t # "rewire"
    BY <1>2 DEF Completes, HostInv, HostTyped, At
  <2>3. QED BY <1>1, <1>2, <2>1, <2>2 DEF Puts
<1>3. CASE ~Completes(t, f)
  <2>1. \/ UNCHANGED disk
        \/ \E x : disk' = [disk EXCEPT ![BackupOf(job[t].target)] = x]
        \/ disk' = [disk EXCEPT ![job[t].target] = Empty]
        \/ At(t, "writing") /\ \E x : disk' = [disk EXCEPT ![job[t].target] = x]
    BY <1>1, FileOperation DEF Puts
  <2>2. disk'[f] \in {disk[f], Empty}
    BY <1>1, <1>3, <2>1 DEF Completes
  <2>3. QED BY <1>3, <2>2
<1>4. QED BY <1>2, <1>3

(* The other steps do not touch them.                                        *)
LEMMA OthersKeepMux ==
  ASSUME Shapes, [Next]_vars, \A t \in Tools : ~ToolStep(t)
  PROVE  disk'["mux"] = disk["mux"] /\ disk'["alt"] = disk["alt"]
         /\ UNCHANGED <<scanned, saved, rewired>>
<1>1. CASE \E n \in Names : HostEdits(n) /\ UNCHANGED historyVars
  BY <1>1 DEF HostEdits, Shapes, Files
<1>2. CASE UNCHANGED <<disk, scanned, saved, rewired>>
  BY <1>2
<1>3. CASE \E t \in Tools : ToolStops(t)
  BY <1>2, <1>3 DEF ToolStops, Stops
<1>4. CASE \/ ScanReads /\ UNCHANGED historyVars
           \/ (RewireScans \/ RewireMerges) /\ UNCHANGED historyVars
  BY <1>2, <1>4 DEF ScanReads, RewireScans, RewireMerges
<1>5. CASE \E f \in {"mux", "alt"} : WizardOpens(f)
  BY <1>2, <1>5 DEF WizardOpens, WizardStarts
<1>6. CASE (WizardLoads \/ Quit \/ Save \/ Persist) /\ UNCHANGED historyVars
  BY <1>2, <1>6 DEF WizardLoads, Quit, Save, Leaves, Persist
<1>7. CASE \/ (ToggleTray \/ Esc \/ Type \/ \E f \in Texts : Enter(f)) /\ UNCHANGED historyVars
           \/ UNCHANGED vars
  BY <1>2, <1>7 DEF ToggleTray, Esc, Type, Enter, Editor, vars
<1>8. QED BY <1>1, <1>3, <1>4, <1>5, <1>6, <1>7 DEF Next

Carries(c, forms) == \A o \in forms :
  /\ IsForm(o) /\ Valid(o)
  /\ c.kind = "mux" /\ c.syntax = "toml"
  /\ o.name \in DOMAIN c.servers /\ c.servers[o.name] = Entry(o)

FormInv ==
  /\ job["wizard"].step \in Overwriting => Carries(job["wizard"].text, form)
  /\ \A f \in MuxFiles : disk[f].kind = "mux" => Carries(disk[f], saved[f])

LEMMA InitForm == Init => FormInv
BY IdleJob DEF Init, FormInv, Tools, Overwriting, Carries

LEMMA PersistedCarries ==
  ASSUME Shapes, NEW o \in form, Valid(o)
  PROVE  Carries(Persisted(o, fromDisk), form)
<1> DEFINE old == IF fromDisk = {} THEN <<>> ELSE CHOOSE c \in fromDisk : TRUE
           s == [n \in DOMAIN old \cup {o.name} |-> IF n = o.name THEN Entry(o) ELSE old[n]]
           x == Persisted(o, fromDisk)
<1>1. x = MuxText("toml", s)
  BY DEF Persisted, Writer
<1>2. o.name \in DOMAIN s /\ s[o.name] = Entry(o)
  OBVIOUS
<1> HIDE DEF s, x
<1>3. x.kind = "mux" /\ x.syntax = "toml" /\ x.servers = s
  BY <1>1 DEF MuxText
<1>4. (\A p \in form : p = o) /\ IsForm(o)
  BY DEF Shapes
<1>5. QED BY <1>2, <1>3, <1>4 DEF Carries, x

(* What the wizard writes has its form, or is mixed.                         *)
LEMMA FormWritten ==
  ASSUME NEW f, NEW x, NEW c \in Over(f, x), Carries(x, form), c.kind = "mux"
  PROVE  Carries(c, form)
<1> SUFFICES ASSUME NEW o \in form
             PROVE  Carries(c, form)
  BY DEF Carries
<1>1. x # Empty
  BY DEF Carries, Empty
<1>2. c = x
  BY <1>1, Written DEF Mixed
<1>3. QED BY <1>2

LEMMA NextForm ==
  ASSUME Shapes, HostInv, SoundInv, SaveInv, FormInv, [Next]_vars
  PROVE  FormInv'
<1>0. "wizard" \in Tools
  BY ToolNames
<1>1. ASSUME NEW t \in Tools, ToolStep(t)
      PROVE  FormInv'
  <2>1. job'["wizard"].step \in Overwriting => Carries(job'["wizard"].text, form')
    <3>1. CASE t = "wizard"
      <4>1. \/ job'["wizard"] = Idle
            \/ /\ job["wizard"].step \in {"backup", "copying", "write"}
               /\ \E s : job'["wizard"] =
                      [step |-> s, target |-> job["wizard"].target, text |-> job["wizard"].text]
        BY <1>0, <1>1, <3>1, FileOperation DEF ToolStep, At
      <4>2. CASE job'["wizard"] = Idle
        BY <4>2, IdleJob DEF Overwriting
      <4>3. CASE job["wizard"].step \in {"backup", "copying", "write"} /\ job'["wizard"] # Idle
        <5>1. UNCHANGED form
          BY <1>1, <3>1, <4>3 DEF ToolStep, At
        <5>2. PICK s : job'["wizard"] =
                [step |-> s, target |-> job["wizard"].target, text |-> job["wizard"].text]
          BY <4>1, <4>3
        <5>3. QED BY <4>3, <5>1, <5>2 DEF FormInv, Overwriting
      <4>4. QED BY <4>1, <4>2, <4>3
    <3>2. CASE t # "wizard"
      <4>1. job'["wizard"] = job["wizard"]
        BY <1>0, <1>1, <3>2, FileOperation DEF ToolStep
      <4>2. UNCHANGED form
        BY <1>1, <3>2 DEF ToolStep
      <4>3. QED BY <4>1, <4>2 DEF FormInv
    <3>3. QED BY <3>1, <3>2
  <2>2. ASSUME NEW f \in MuxFiles, disk'[f].kind = "mux"
        PROVE  Carries(disk'[f], saved'[f])
    <3>1. saved'[f] = IF ~Completes(t, f) THEN saved[f] ELSE IF t = "wizard" THEN form ELSE {}
      BY <1>1 DEF ToolStep
    <3>2. CASE Completes(t, f) /\ t = "wizard"
      <4>1. disk'[f] \in Over(f, job[t].text) /\ Carries(job[t].text, form)
        BY <1>1, <3>2, MuxWrites DEF FormInv, Overwriting, Completes, At
      <4>2. QED BY <2>2, <3>1, <3>2, <4>1, FormWritten
    <3>3. CASE Completes(t, f) /\ t # "wizard"
      BY <3>1, <3>3 DEF Carries
    <3>4. CASE ~Completes(t, f)
      <4>1. disk'[f] \in {disk[f], Empty} /\ Empty.kind # "mux"
        BY <1>1, <3>4, MuxWrites DEF Empty
      <4>2. QED BY <2>2, <3>1, <3>4, <4>1 DEF FormInv
    <3>5. QED BY <3>2, <3>3, <3>4
  <2>3. QED BY <2>1, <2>2 DEF FormInv, Carries
<1>2. ASSUME \A t \in Tools : ~ToolStep(t)
      PROVE  FormInv'
  <2>1. disk'["mux"] = disk["mux"] /\ disk'["alt"] = disk["alt"] /\ UNCHANGED saved
    BY <1>2, OthersKeepMux
  <2> SUFFICES job'["wizard"].step \in Overwriting => Carries(job'["wizard"].text, form')
    BY <2>1 DEF FormInv, Carries
  <2>2. CASE Persist
    <3>1. PICK o \in form : Replaces("wizard", o.path, Persisted(o, fromDisk))
      BY <2>2 DEF Persist
    <3>2. job' = [job EXCEPT !["wizard"] =
                   [step |-> "backup", target |-> o.path, text |-> Persisted(o, fromDisk)]]
      BY <3>1 DEF Replaces
    <3>3. job'["wizard"].text = Persisted(o, fromDisk)
      BY <1>0, <3>2, JobSet
    <3>4. UNCHANGED form /\ Valid(o)
      BY <2>2 DEF Persist, SoundInv
    <3>5. Carries(Persisted(o, fromDisk), form)
      BY <3>4, PersistedCarries
    <3>6. QED BY <3>3, <3>4, <3>5 DEF Carries
  <2>3. CASE job'["wizard"] = job["wizard"] /\ form' = form
    BY <2>3 DEF FormInv
  <2>4. CASE job'["wizard"].step \notin Overwriting
    BY <2>4
  <2>5. ASSUME NEW t \in Tools, ToolStops(t)
        PROVE  job'["wizard"] = Idle \/ (job'["wizard"] = job["wizard"] /\ form' = form)
    <3>1. job'[t] = Idle /\ \A u \in Tools \ {t} : job'[u] = job[u]
      BY <2>5, JobSet DEF ToolStops, Stops, Ends
    <3>2. t # "wizard" => UNCHANGED form
      BY <2>5 DEF ToolStops
    <3>3. QED BY <1>0, <3>1, <3>2
  <2>6. CASE \/ (ScanReads \/ RewireScans \/ RewireMerges) /\ UNCHANGED form
             \/ (\E n \in Names : HostEdits(n)) /\ UNCHANGED form
             \/ UNCHANGED vars
    <3>1. \/ UNCHANGED job
          \/ \E u \in Tools \ {"wizard"} : \E j : job' = [job EXCEPT ![u] = j]
      BY <2>6 DEF ScanReads, RewireScans, RewireMerges, Replaces, Ends, HostEdits, Tools, vars
    <3>2. job'["wizard"] = job["wizard"]
      BY <1>0, <3>1, JobSet
    <3>3. QED BY <2>3, <2>6, <3>2 DEF vars
  <2>7. CASE \/ \E f \in {"mux", "alt"} : WizardOpens(f)
             \/ WizardLoads \/ Quit \/ Save
    <3>1. \/ UNCHANGED <<job, form>>
          \/ \E s \in {"reading", "editing", "persist"} : Goes("wizard", s)
          \/ Ends("wizard")
      BY <2>7 DEF WizardOpens, WizardStarts, WizardLoads, Quit, Save
    <3>2. ASSUME NEW s \in {"reading", "editing", "persist"}, Goes("wizard", s)
          PROVE  job'["wizard"].step \notin Overwriting
      BY <3>2, WizardGoes DEF Overwriting
    <3>3. ASSUME Ends("wizard")
          PROVE  job'["wizard"].step \notin Overwriting
      BY <1>0, <3>3, JobSet, IdleJob DEF Ends, Overwriting
    <3>4. QED BY <2>3, <2>4, <3>1, <3>2, <3>3
  <2>8. CASE ToggleTray \/ Esc \/ Type \/ \E f \in Texts : Enter(f)
    BY <2>4, <2>8 DEF ToggleTray, Esc, Type, Enter, Editor, At, Overwriting
  <2>9. QED BY <2>2, <2>3, <2>4, <2>5, <2>6, <2>7, <2>8, <1>2, IdleJob DEF Next, Overwriting
<1>3. QED BY <1>1, <1>2

LEMMA FormInvariant == Spec => []FormInv
<1>1. Shapes /\ HostInv /\ SoundInv /\ SaveInv /\ FormInv /\ [Next]_vars => FormInv'
  BY NextForm
<1>2. QED BY <1>1, InitForm, SoundInvariant, SaveInvariant, PTL DEF Spec

(* resolve_params: the service named on the command line is found, it has a  *)
(* command and a socket, and each parameter is the flag's if that is looked  *)
(* at first, and else the form's.                                            *)
LEMMA ResolvesForm ==
  ASSUME NEW o, IsForm(o), NEW cli \in Cli, NEW c, cli.service = o.name,
         \A k \in Flags : Entry(o)[k] # Absent,
         o.name \in DOMAIN c, c[o.name] = Entry(o)
  PROVE  /\ Resolves(cli, {c})
         /\ \A k \in Flags : Resolved(cli, {c})[k] =
              CASE k \in cli.flags \ {"clients", "level"} -> Given(k)
                [] k = "socket" /\ k \notin cli.flags -> Expanded(o.socket)
                [] OTHER -> Entry(o)[k]
<1>1. Chosen(cli, {c}) = {Entry(o)}
  BY DEF Chosen
<1>2. ASSUME NEW k \in Flags
      PROVE  Resolved(cli, {c})[k] =
               CASE k \in cli.flags \ {"clients", "level"} -> Given(k)
                 [] k = "socket" /\ k \notin cli.flags -> Expanded(o.socket)
                 [] OTHER -> Entry(o)[k]
  <2> DEFINE kept == {e[k] : e \in Chosen(cli, {c})} \ {Absent}
  <2>1. kept = {Entry(o)[k]}
    BY <1>1
  <2>2. Resolved(cli, {c})[k] =
          IF Prefers(cli, k) \/ kept = {} THEN FromCli(cli, k)
          ELSE IF k = "socket" THEN Expanded(CHOOSE v \in kept : TRUE)
          ELSE CHOOSE v \in kept : TRUE
    BY DEF Resolved
  <2>3. kept # {} /\ (CHOOSE v \in kept : TRUE) = Entry(o)[k]
    BY <2>1
  <2> HIDE DEF kept
  <2>4. CASE k \in cli.flags \ {"clients", "level"}
    BY <2>2, <2>4 DEF Prefers, FromCli
  <2>5. CASE k \notin cli.flags \ {"clients", "level"} /\ k = "socket"
    <3>1. Entry(o)[k] = o.socket
      BY <2>5 DEF Entry
    <3>2. QED BY <2>2, <2>3, <2>5, <3>1 DEF Prefers
  <2>6. CASE k \notin cli.flags \ {"clients", "level"} /\ k # "socket"
    BY <2>2, <2>3, <2>6 DEF Prefers
  <2>7. QED BY <2>4, <2>5, <2>6
<1>3. QED BY <1>1, <1>2 DEF Resolves, Flags

(* A daemon that is started with the service of a saved form reads it if the *)
(* extension is known, stops there if the log level of the form is none, and *)
(* otherwise every parameter is the form's or a flag's (persist,             *)
(* load_config, resolve_params, main), for any names and any command line.   *)
THEOREM SavedFormsRun == Spec => []SavedFormRuns
<1>1. ASSUME FormInv, SoundInv
      PROVE  SavedFormRuns
  <2> DEFINE shown(o) == [Entry(o) EXCEPT !.socket = Expanded(@)]
             Param(o, cli, k) == IF k \in cli.flags \ {"clients", "level"} THEN Given(k) ELSE shown(o)[k]
  <2> SUFFICES ASSUME NEW f \in MuxFiles, disk[f].kind = "mux",
                      NEW o \in saved[f], NEW cli \in Cli, cli.service = o.name
               PROVE  LET started == Loads(f) /\ Starts(cli, Loaded(f))
                      IN  /\ started <=> f = "mux" /\ o.level \in Levels
                          /\ started => \A k \in Flags :
                               Resolved(cli, Loaded(f))[k] = Param(o, cli, k)
    BY DEF SavedFormRuns
  <2> DEFINE c == disk[f].servers
  <2>1. /\ IsForm(o) /\ Valid(o) /\ disk[f].syntax = "toml"
        /\ o.name \in DOMAIN c /\ c[o.name] = Entry(o)
    BY <1>1 DEF FormInv, Carries
  <2>2. Loads(f) <=> f = "mux"
    BY <2>1 DEF Loads, Reader, Missing
  <2>3. Loaded(f) = {c}
    BY DEF Loaded, Missing
  <2>4. \A k \in Flags : Entry(o)[k] # Absent
    BY <2>1 DEF IsForm, Entry, Absent, Flags, Valid
  <2> HIDE DEF c
  <2>5. /\ Resolves(cli, {c})
        /\ \A k \in Flags : Resolved(cli, {c})[k] =
             CASE k \in cli.flags \ {"clients", "level"} -> Given(k)
               [] k = "socket" /\ k \notin cli.flags -> Expanded(o.socket)
               [] OTHER -> Entry(o)[k]
    BY <2>1, <2>4, ResolvesForm
  <2>6. shown(o).socket = Expanded(o.socket) /\ \A k \in Flags \ {"socket"} : shown(o)[k] = Entry(o)[k]
    BY DEF Entry, Flags
  <2>7. \A k \in Flags : Resolved(cli, {c})[k] = Param(o, cli, k)
    BY <2>5, <2>6
  <2>8. Resolved(cli, {c})["level"] = o.level
    BY <2>5 DEF Flags, Entry
  <2>9. QED BY <2>2, <2>3, <2>5, <2>7, <2>8 DEF Starts
<1>2. QED BY <1>1, FormInvariant, SoundInvariant, PTL

(* What no scan and no wizard writes, for any services that a host or a      *)
(* person with an editor left: a fault that was typed into a form, anywhere; *)
(* and any fault at all, theirs or a form's, in the service of a saved form  *)
(* (try_save, persist, build_manifest).                                      *)
THEOREM ToolsWriteUsable == Spec => []UsableServices
<1>1. ASSUME SoundInv, FormInv
      PROVE  UsableServices
  <2> SUFFICES ASSUME NEW f \in MuxFiles, disk[f].kind = "mux"
               PROVE  /\ Clean(disk[f].servers)
                      /\ \A o \in saved[f] :
                           /\ disk[f].servers[o.name].clients # "zero"
                           /\ {disk[f].servers[o.name].socket, disk[f].servers[o.name].cmd}
                                \cap {"void", Absent} = {}
    BY DEF UsableServices, Clean
  <2>1. Clean(disk[f].servers)
    BY <1>1 DEF SoundInv, Sound, Files
  <2>2. ASSUME NEW o \in saved[f]
        PROVE  /\ disk[f].servers[o.name].clients # "zero"
               /\ {disk[f].servers[o.name].socket, disk[f].servers[o.name].cmd}
                    \cap {"void", Absent} = {}
    <3>1. IsForm(o) /\ Valid(o) /\ disk[f].servers[o.name] = Entry(o)
      BY <1>1 DEF FormInv, Carries
    <3>2. /\ Entry(o).clients = o.clients
          /\ Entry(o).socket = o.socket /\ Entry(o).cmd = o.cmd
      BY DEF Entry
    <3>3. o.clients # "zero" /\ {o.socket, o.cmd} \cap {"void", Absent} = {}
      BY <3>1 DEF Valid, IsForm
    <3>4. QED BY <3>1, <3>2, <3>3
  <2>3. QED BY <2>1, <2>2
<1>2. QED BY <1>1, FormInvariant, SoundInvariant, PTL

-----------------------------------------------------------------------------
(* Sockets.  Until the first rewire every service has the socket that the    *)
(* host's file gave it at first (Home, with that file's services h), in that *)
(* file, in what a scan makes of it and in what a rewire is about to write;  *)
(* the write makes the two agree, and until the next one nothing but         *)
(* services that are new gets a server.  They agree as texts, before         *)
(* anything is expanded.                                                     *)

Home(h, n) == IF n \in DOMAIN h THEN SocketOf(h[n]) ELSE "default"

Original(h, c) ==
  /\ DOMAIN h \subseteq DOMAIN c.services
  /\ \A n \in DOMAIN c.services :
       c.services[n].runs # "proxy" /\ SocketOf(c.services[n]) = Home(h, n)

Pointed(h, c) == \A n \in DOMAIN c.services : c.services[n].at = Home(h, n)

AtHome(h, c) == c.kind = "mux" =>
  \A n \in DOMAIN c.servers : c.servers[n].cmd # "proxy" => c.servers[n].socket = Home(h, n)

Agree(g, c) == c.kind = "mux" /\ IsHost(g) =>
  \A n \in DOMAIN c.servers \cap DOMAIN g.services :
    c.servers[n].cmd # "proxy" /\ g.services[n].runs = "proxy" =>
      g.services[n].at = c.servers[n].socket

Fits(h, r, g, c) == /\ r = 0 => AtHome(h, c)
                    /\ r = 1 => Agree(g, c)

AgreeFor(h) ==
  /\ rewired \in Nat
  /\ rewired = 0 =>
       /\ IsHost(disk["host"]) => Original(h, disk["host"])
       /\ ~At("rewire", "idle") => Pointed(h, job["rewire"].text)
  /\ job["scan"].step \in Overwriting =>
       job["scan"].text # Empty /\ Fits(h, rewired, disk["host"], job["scan"].text)
  /\ scanned => Fits(h, rewired, disk["host"], disk["mux"])

AgreeInv == \E h \in HostTables : AgreeFor(h)

LEMMA InitAgree == Init => AgreeInv
<1> SUFFICES ASSUME Init PROVE AgreeInv
  OBVIOUS
<1>1. PICK h \in HostTables : disk["host"] = HostText(0, h)
  BY DEF Init, Files
<1>2. \A n \in DOMAIN h : h[n].runs # "proxy"
  BY ToolsAssumption DEF Serves, HostWritten
<1>3. Original(h, disk["host"])
  BY <1>1, <1>2, HostTexts DEF Original, Home
<1>4. /\ rewired = 0 /\ scanned = FALSE
      /\ job["rewire"].step = "idle" /\ job["scan"].step = "idle"
  BY IdleJob DEF Init, Tools
<1>5. AgreeFor(h)
  BY <1>3, <1>4 DEF AgreeFor, Overwriting, At
<1>6. QED BY <1>5 DEF AgreeInv

(* A file operation changes the host's file only to truncate or to replace   *)
(* it, and it is a rewire's.                                                 *)
LEMMA HostWrites ==
  ASSUME Shapes, HostInv, NEW t \in Tools, ToolStep(t)
  PROVE  IF Completes(t, "host")
         THEN t = "rewire" /\ disk'["host"] = job[t].text /\ job'[t] = Idle
         ELSE disk'["host"] \in {disk["host"], Empty}
<1>1. Overwrites(t) /\ DOMAIN disk = Files /\ "host" \in Files /\ BackupOf(job[t].target) # "host"
  BY DEF ToolStep, Shapes, Files, BackupOf
<1>2. CASE Completes(t, "host")
  <2>1. Puts("host", job[t].text) /\ job'[t] = Idle
    BY <1>1, <1>2, FileOperation DEF Completes, At
  <2>2. t = "rewire"
    BY <1>2 DEF Completes, Shapes
  <2>3. disk["host"] = Empty
    BY <1>2, <2>2 DEF Completes, HostInv, HostTyped
  <2>4. PICK c \in Over("host", job[t].text) : disk' = [disk EXCEPT !["host"] = c]
    BY <2>1 DEF Puts
  <2>5. c = job[t].text
    BY <2>3, <2>4, Written
  <2>6. QED BY <1>1, <1>2, <2>1, <2>2, <2>4, <2>5
<1>3. CASE ~Completes(t, "host")
  <2>1. \/ UNCHANGED disk
        \/ \E x : disk' = [disk EXCEPT ![BackupOf(job[t].target)] = x]
        \/ disk' = [disk EXCEPT ![job[t].target] = Empty]
        \/ At(t, "writing") /\ \E x : disk' = [disk EXCEPT ![job[t].target] = x]
    BY <1>1, FileOperation DEF Puts
  <2>2. disk'["host"] \in {disk["host"], Empty}
    BY <1>1, <1>3, <2>1 DEF Completes
  <2>3. QED BY <1>3, <2>2
<1>4. QED BY <1>2, <1>3

(* The job of a tool during its file operations.                             *)
LEMMA WritingJob ==
  ASSUME Shapes, NEW t \in Tools, ToolStep(t)
  PROVE  /\ \A u \in Tools \ {t} : job'[u] = job[u]
         /\ job[t].step \in Overwriting
         /\ job'[t] = Idle \/ (job'[t].text = job[t].text /\ ~At(t, "writing"))
<1>1. Overwrites(t)
  BY DEF ToolStep
<1>2. \/ job'[t] = Idle /\ At(t, "writing")
      \/ /\ job[t].step \in {"backup", "copying", "write"}
         /\ \E s : job'[t] = [step |-> s, target |-> job[t].target, text |-> job[t].text]
  BY <1>1, FileOperation DEF At
<1>3. \A u \in Tools \ {t} : job'[u] = job[u]
  BY <1>1, FileOperation
<1>4. CASE job'[t] = Idle /\ At(t, "writing")
  BY <1>3, <1>4 DEF Overwriting, At
<1>5. CASE /\ job[t].step \in {"backup", "copying", "write"}
           /\ \E s : job'[t] = [step |-> s, target |-> job[t].target, text |-> job[t].text]
  <2>1. PICK s : job'[t] = [step |-> s, target |-> job[t].target, text |-> job[t].text]
    BY <1>5
  <2>2. QED BY <1>3, <1>5, <2>1 DEF Overwriting, At
<1>6. QED BY <1>2, <1>4, <1>5

LEMMA RewireMakesAgree ==
  ASSUME Shapes, HostInv, NEW h, AgreeFor(h), NEW t \in Tools, ToolStep(t), Completes(t, "host")
  PROVE  AgreeFor(h)'
<1>1. /\ t = "rewire" /\ disk'["host"] = job["rewire"].text
      /\ "scan" \in Tools \ {t} /\ rewired' = rewired + 1 /\ rewired \in Nat
  BY HostWrites, ToolNames DEF ToolStep, AgreeFor
<1>2. job'["scan"] = job["scan"]
  BY <1>1, WritingJob
<1>3. ~Completes(t, "mux")
  BY DEF Completes
<1>4. disk'["mux"] \in {disk["mux"], Empty} /\ scanned' = scanned
  BY <1>3, MuxWrites DEF ToolStep
<1>5. ASSUME rewired = 0, NEW c, AtHome(h, c) \/ c = Empty
      PROVE  Agree(disk'["host"], c)
  <2>1. Pointed(h, job["rewire"].text)
    BY <1>1, <1>5 DEF AgreeFor, Completes, At
  <2>2. QED BY <1>1, <1>5, <2>1 DEF Pointed, AtHome, Agree, Empty
<1>6. \A c : Fits(h, rewired, disk["host"], c) \/ c = Empty => Fits(h, rewired', disk'["host"], c)
  BY <1>1, <1>5 DEF Fits
<1>7. job["scan"].step \in Overwriting =>
        job["scan"].text # Empty /\ Fits(h, rewired', disk'["host"], job'["scan"].text)
  BY <1>2, <1>6 DEF AgreeFor
<1>8. scanned => Fits(h, rewired', disk'["host"], disk'["mux"])
  BY <1>4, <1>6 DEF AgreeFor
<1>9. QED BY <1>1, <1>2, <1>4, <1>7, <1>8 DEF AgreeFor

LEMMA WritesKeepAgree ==
  ASSUME Shapes, HostInv, NEW h, AgreeFor(h), NEW t \in Tools, ToolStep(t), ~Completes(t, "host")
  PROVE  AgreeFor(h)'
<1>1. rewired' = rewired /\ disk'["host"] \in {disk["host"], Empty}
  BY HostWrites DEF ToolStep
<1>2. \A c : Fits(h, rewired, disk["host"], c) => Fits(h, rewired', disk'["host"], c)
  BY <1>1, NoHosts DEF Fits, Agree
<1>3. Fits(h, rewired', disk'["host"], Empty)
  BY DEF Fits, AtHome, Agree, Empty
<1>4. rewired = 0 /\ ~At("rewire", "idle")' => Pointed(h, job'["rewire"].text)
  <2>1. CASE t = "rewire"
    BY <2>1, WritingJob, IdleJob DEF AgreeFor, At, Overwriting
  <2>2. CASE t # "rewire"
    <3>1. job'["rewire"] = job["rewire"]
      BY <2>2, WritingJob DEF Tools
    <3>2. QED BY <3>1 DEF AgreeFor, At
  <2>3. QED BY <2>1, <2>2
<1>5. job'["scan"].step \in Overwriting =>
        job'["scan"].text # Empty /\ Fits(h, rewired', disk'["host"], job'["scan"].text)
  <2>1. CASE t = "scan"
    <3>1. job["scan"].step \in Overwriting
          /\ (job'["scan"] = Idle \/ job'["scan"].text = job["scan"].text)
      BY <2>1, WritingJob
    <3>2. QED BY <1>2, <3>1, IdleJob DEF AgreeFor, Overwriting
  <2>2. CASE t # "scan"
    <3>1. job'["scan"] = job["scan"]
      BY <2>2, ToolNames, WritingJob
    <3>2. QED BY <1>2, <3>1 DEF AgreeFor
  <2>3. QED BY <2>1, <2>2
<1>6. scanned' => Fits(h, rewired', disk'["host"], disk'["mux"])
  <2>1. CASE Completes(t, "mux")
    <3>1. /\ scanned' = (t = "scan") /\ disk'["mux"] \in Over("mux", job[t].text)
          /\ job[t].step \in Overwriting
      BY <2>1, MuxWrites, WritingJob DEF ToolStep
    <3>2. t = "scan" => disk'["mux"] \in {job[t].text, Mixed}
      BY <3>1, Written DEF AgreeFor
    <3>3. Fits(h, rewired', disk'["host"], Mixed)
      BY DEF Fits, AtHome, Agree, Mixed
    <3>4. QED BY <1>2, <3>1, <3>2, <3>3 DEF AgreeFor
  <2>2. CASE ~Completes(t, "mux")
    <3>1. scanned' = scanned /\ disk'["mux"] \in {disk["mux"], Empty}
      BY <2>2, MuxWrites DEF ToolStep
    <3>2. QED BY <1>2, <1>3, <3>1 DEF AgreeFor
  <2>3. QED BY <2>1, <2>2
<1>7. rewired = 0 /\ IsHost(disk'["host"]) => Original(h, disk'["host"])
  BY <1>1, NoHosts DEF AgreeFor
<1>8. QED BY <1>1, <1>4, <1>5, <1>6, <1>7 DEF AgreeFor, Original, At

LEMMA ScanAgrees ==
  ASSUME Shapes, HostInv, NEW h, AgreeFor(h), ScanReads, UNCHANGED historyVars
  PROVE  AgreeFor(h)'
<1> DEFINE g == disk["host"]
           x == BuildManifest(Parsed(g).services)
<1>1. /\ UNCHANGED <<disk, scanned, rewired>>
      /\ \A c : Fits(h, rewired', disk'["host"], c) <=> Fits(h, rewired, disk["host"], c)
  BY DEF ScanReads, Fits
<1>2. CASE UNCHANGED job
  BY <1>1, <1>2 DEF AgreeFor, At
<1>3. CASE ~UNCHANGED job
  <2>1. /\ Parses(g)
        /\ job' = [job EXCEPT !["scan"] = [step |-> "backup", target |-> "mux", text |-> x]]
    BY <1>3 DEF ScanReads, Scans, Replaces
  <2>2. job'["scan"].text = x /\ job'["rewire"] = job["rewire"]
    BY <2>1, JobSet, ToolNames DEF Tools
  <2> DEFINE s == Parsed(g).services
  <2>3. x.kind = "mux" /\ x.servers = [n \in DOMAIN s |-> ManifestEntry(s[n])]
    BY DEF BuildManifest, MuxText
  <2>4. \A n \in DOMAIN s : ManifestEntry(s[n]).cmd = s[n].runs
                         /\ ManifestEntry(s[n]).socket = SocketOf(s[n])
    BY DEF ManifestEntry
  <2>5. IsHost(g) => s = g.services
    BY DEF Parsed
  <2>6. ~IsHost(g) => DOMAIN s = {}
    BY HostTexts DEF Parsed
  <2> HIDE DEF s, x
  <2>7. AtHome(h, x) \/ rewired # 0
    BY <2>3, <2>4, <2>5, <2>6 DEF AtHome, AgreeFor, Original
  <2>8. Agree(g, x)
    BY <2>3, <2>4, <2>5, <2>6 DEF Agree
  <2>9. Fits(h, rewired, disk["host"], x) /\ x # Empty
    BY <2>3, <2>7, <2>8 DEF Fits, Empty
  <2>10. QED BY <1>1, <2>2, <2>9 DEF AgreeFor, At
<1>4. QED BY <1>2, <1>3

LEMMA RewireAgrees ==
  ASSUME Shapes, HostInv, NEW h, AgreeFor(h), RewireScans \/ RewireMerges, UNCHANGED historyVars
  PROVE  AgreeFor(h)'
<1> DEFINE g == disk["host"]
<1>1. /\ UNCHANGED <<disk, scanned, rewired>>
      /\ \A c : Fits(h, rewired', disk'["host"], c) <=> Fits(h, rewired, disk["host"], c)
  BY DEF RewireScans, RewireMerges, Fits
<1>2. \/ UNCHANGED job
      \/ \E j : job' = [job EXCEPT !["rewire"] = j]
  BY DEF RewireScans, RewireMerges, Replaces, Ends
<1>3. job'["scan"] = job["scan"] /\ "rewire" \in Tools
  BY <1>2, JobSet DEF Tools
<1> SUFFICES rewired = 0 /\ ~At("rewire", "idle")' => Pointed(h, job'["rewire"].text)
  BY <1>1, <1>3 DEF AgreeFor, Original, At
<1>4. CASE UNCHANGED job
  BY <1>4 DEF AgreeFor, At
<1>5. CASE RewireScans /\ ~UNCHANGED job
  <2> DEFINE s == Parsed(g).services
             x == HostText(0, Snippet(s))
  <2>1. /\ Parses(g)
        /\ job' = [job EXCEPT !["rewire"] = [step |-> "merge", target |-> "host", text |-> x]]
    BY <1>5 DEF RewireScans, Scans
  <2>2. job'["rewire"].text = x
    BY <1>3, <2>1, JobSet
  <2>3. x.services = [n \in DOMAIN s |-> ProxyEntry(s[n])]
    BY HostTexts DEF Snippet
  <2>4. \A n \in DOMAIN s : ProxyEntry(s[n]).at = SocketOf(s[n])
    BY DEF ProxyEntry
  <2>5. IsHost(g) => s = g.services
    BY DEF Parsed
  <2>6. ~IsHost(g) => DOMAIN s = {}
    BY HostTexts DEF Parsed
  <2> HIDE DEF s, x
  <2>7. QED BY <2>2, <2>3, <2>4, <2>5, <2>6 DEF AgreeFor, Original, Pointed
<1>6. CASE RewireMerges
  <2> DEFINE s == job["rewire"].text.services
             x == HostText(Parsed(g).other, s)
  <2>1. At("rewire", "merge")
    BY <1>6 DEF RewireMerges
  <2>2. \/ job' = [job EXCEPT !["rewire"] = [step |-> "backup", target |-> "host", text |-> x]]
        \/ job' = [job EXCEPT !["rewire"] = Idle]
    BY <1>6 DEF RewireMerges, Replaces, Ends
  <2>3. job'["rewire"].text = x \/ job'["rewire"] = Idle
    BY <1>3, <2>2, JobSet
  <2>4. x.services = s
    BY HostTexts
  <2> HIDE DEF x
  <2>5. QED BY <2>1, <2>3, <2>4, IdleJob DEF AgreeFor, Pointed, At
<1>7. QED BY <1>4, <1>5, <1>6

LEMMA HostEditsAgree ==
  ASSUME Shapes, HostInv, NEW h, AgreeFor(h), NEW m \in Names, HostEdits(m), UNCHANGED historyVars
  PROVE  AgreeFor(h)'
<1> DEFINE c == disk["host"]
           s == [n \in DOMAIN c.services \cup {m} |->
                   IF n = m THEN Service(NoSocket, "set") ELSE c.services[n]]
           d == HostText(c.other + 1, s)
<1>1. /\ IsHost(c) /\ m \notin DOMAIN c.services
      /\ disk'["host"] = d /\ disk'["mux"] = disk["mux"]
      /\ UNCHANGED <<job, scanned, rewired>>
  BY DEF HostEdits, Shapes, Files
<1>2. d.services = s
  BY HostTexts
<1>3. /\ s[m].runs = "server" /\ SocketOf(s[m]) = "default"
      /\ \A n \in DOMAIN c.services : s[n] = c.services[n]
  BY <1>1 DEF Service, SocketOf, NoSocket
<1>4. DOMAIN s = DOMAIN c.services \cup {m}
  OBVIOUS
<1> HIDE DEF s, d
<1>5. \A x : Agree(c, x) => Agree(d, x)
  BY <1>1, <1>2, <1>3, <1>4 DEF Agree
<1>6. Original(h, c) => Original(h, d)
  BY <1>1, <1>2, <1>3, <1>4 DEF Original, Home
<1>7. \A x : Fits(h, rewired, disk["host"], x) => Fits(h, rewired', disk'["host"], x)
  BY <1>1, <1>5 DEF Fits
<1>8. QED BY <1>1, <1>6, <1>7 DEF AgreeFor, At

(* The wizard, and tools that stop.                                          *)
LEMMA OthersKeepAgree ==
  ASSUME NEW h, AgreeFor(h), UNCHANGED <<disk, scanned, rewired>>,
         job'["scan"] \in {job["scan"], Idle}, job'["rewire"] \in {job["rewire"], Idle}
  PROVE  AgreeFor(h)'
<1>1. \A c : Fits(h, rewired', disk'["host"], c) <=> Fits(h, rewired, disk["host"], c)
  BY DEF Fits
<1>2. QED BY <1>1, IdleJob DEF AgreeFor, Overwriting, At

LEMMA NextAgreeFor ==
  ASSUME Shapes, HostInv, NEW h, AgreeFor(h), [Next]_vars
  PROVE  AgreeFor(h)'
<1>0. "scan" \in Tools \ {"wizard"} /\ "rewire" \in Tools \ {"wizard"} /\ "wizard" \in Tools
  BY DEF Tools
<1>1. CASE \E t \in Tools : ToolStep(t)
  BY <1>1, RewireMakesAgree, WritesKeepAgree
<1>2. ASSUME NEW t \in Tools, ToolStops(t)
      PROVE  AgreeFor(h)'
  <2>1. job'[t] = Idle /\ \A u \in Tools \ {t} : job'[u] = job[u]
    BY <1>2, JobSet DEF ToolStops, Stops, Ends
  <2>2. QED BY <1>0, <1>2, <2>1, OthersKeepAgree DEF ToolStops, Stops
<1>3. CASE (ScanReads \/ RewireScans \/ RewireMerges) /\ UNCHANGED historyVars
  BY <1>3, ScanAgrees, RewireAgrees
<1>4. CASE (\E n \in Names : HostEdits(n)) /\ UNCHANGED historyVars
  BY <1>4, HostEditsAgree
<1>5. CASE \/ \E f \in {"mux", "alt"} : WizardOpens(f)
           \/ (WizardLoads \/ Quit \/ Save \/ Persist) /\ UNCHANGED historyVars
  <2>1. UNCHANGED <<disk, scanned, rewired>>
    BY <1>5 DEF WizardOpens, WizardStarts, WizardLoads, Quit, Save, Leaves, Persist
  <2>2. \/ UNCHANGED job
        \/ \E s : Goes("wizard", s)
        \/ \E j : job' = [job EXCEPT !["wizard"] = j]
    BY <1>5 DEF WizardOpens, WizardStarts, WizardLoads, Quit, Save, Persist, Ends, Replaces
  <2>3. job'["rewire"] = job["rewire"] /\ job'["scan"] = job["scan"]
    BY <2>2, JobGoes, JobSet DEF Tools
  <2>4. QED BY <2>1, <2>3, OthersKeepAgree
<1>6. CASE \/ (ToggleTray \/ Esc \/ Type \/ \E f \in Texts : Enter(f)) /\ UNCHANGED historyVars
           \/ UNCHANGED vars
  BY <1>6, OthersKeepAgree DEF ToggleTray, Esc, Type, Enter, Editor, vars
<1>7. QED BY <1>1, <1>2, <1>3, <1>4, <1>5, <1>6 DEF Next

LEMMA NextAgree ==
  ASSUME Shapes, HostInv, AgreeInv, [Next]_vars
  PROVE  AgreeInv'
<1>1. PICK h \in HostTables : AgreeFor(h)
  BY DEF AgreeInv
<1>2. AgreeFor(h)'
  BY <1>1, NextAgreeFor
<1>3. QED BY <1>2 DEF AgreeInv

LEMMA AgreeInvariant == Spec => []AgreeInv
<1>1. Shapes /\ HostInv /\ AgreeInv /\ [Next]_vars => AgreeInv'
  BY NextAgree
<1>2. QED BY <1>1, InitAgree, HostInvariant, PTL DEF Spec

(* After a scan of a host and one rewire of it, in any interleaving of their *)
(* file operations, the proxy of a service connects to the socket that its   *)
(* daemon listens on (build_manifest, generate_snippet, load_config), for    *)
(* any services, if it does not begin with `~/`, which the daemon alone      *)
(* expands.                                                                  *)
THEOREM ScanAndRewireAgree == Spec => []SocketsAgree
<1>1. ASSUME AgreeInv
      PROVE  SocketsAgree
  <2> SUFFICES ASSUME scanned, rewired <= 1, disk["mux"].kind = "mux",
                      IsHost(disk["host"])
               PROVE  Agree(disk["host"], disk["mux"])
    BY DEF SocketsAgree, Agree, Expanded
  <2>1. PICK h \in HostTables : AgreeFor(h)
    BY <1>1 DEF AgreeInv
  <2>2. rewired = 0 \/ rewired = 1
    BY <2>1 DEF AgreeFor
  <2>3. CASE rewired = 1
    BY <2>1, <2>3 DEF AgreeFor, Fits
  <2>4. CASE rewired = 0
    BY <2>1, <2>4 DEF AgreeFor, Original, Agree
  <2>5. QED BY <2>2, <2>3, <2>4
<1>2. QED BY <1>1, AgreeInvariant, PTL

-----------------------------------------------------------------------------
(* The types.  TypeOK is not inductive: a text is written as it was found or *)
(* made earlier, so that a form, what the wizard read when it started, and   *)
(* the tool that a text belongs to have types of their own; and the rewires  *)
(* that wrote are bounded by the runs only if the one under way counts.      *)

FormTyped(o) ==
  /\ o.name \in Names \cup {"blank"}
  /\ o.socket \in {"declared", "default", "tuned", "tilde", "typed", "blank", "void"}
  /\ o.cmd \in {"server", "proxy", "npx", "typed", "blank", "void"}
  /\ o.clients \in {"5", "2", "0", "zero", "x"}
  /\ o.level \in {"info", "debug", "loud"}
  /\ o.tray \in {"yes", "no"}

FilesTyped == \A f \in Files :
  Texty(disk[f]) /\ (disk[f].kind = "host" => f \in {"host", "hostbak"})

JobTyped(t, j) ==
  /\ Texty(j.text) /\ (j.text.kind = "host" => t = "rewire")
  /\ j.target \in Files \cup {"none"}

JobsTyped == \A t \in Tools : JobTyped(t, job[t])

EditorTyped ==
  /\ tui \in {"off", "on", "saved", "aborted"} /\ editing \subseteq Texts
  /\ \A o \in form : FormTyped(o)
  /\ \A c \in fromDisk : Serves(c, MuxEntries)

HistoryTyped ==
  /\ format \in {"json", "toml"} /\ stopped \subseteq Tools /\ shared \in BOOLEAN
  /\ scanned \in BOOLEAN

Counted ==
  /\ runs \in 0..MaxRuns /\ edits \in 0..MaxEdits /\ rewired \in Nat
  /\ IF At("rewire", "idle") THEN rewired <= runs ELSE rewired < runs

TypedInv == FilesTyped /\ JobsTyped /\ EditorTyped /\ HistoryTyped /\ Counted

(* Texts of each kind, and what there is in them.                            *)
LEMMA TextsTyped ==
  /\ Texty(Missing) /\ Texty(Empty) /\ Texty(Mixed)
  /\ Missing.kind # "host" /\ Empty.kind # "host" /\ Mixed.kind # "host"
  /\ \A n \in 0..MaxEdits : \A s : Serves(s, HostEntries) => Texty(HostText(n, s))
  /\ \A s : Serves(s, MuxEntries) => Texty(MuxText("toml", s))
  /\ \A m, s : MuxText(m, s).kind = "mux"
BY DEF Texty, Missing, Empty, Mixed, HostText, MuxText

LEMMA TextsHold ==
  ASSUME NEW c, Texty(c)
  PROVE  /\ IsHost(c) => c.other \in 0..MaxEdits /\ Serves(c.services, HostEntries)
         /\ c.kind = "mux" => Serves(c.servers, MuxEntries)
BY DEF Texty, IsHost

LEMMA NothingServed == \A E : Serves(<<>>, E)
BY DEF Serves

(* A host's file is parsed to what it has, or to nothing.                    *)
LEMMA ParsedTyped ==
  ASSUME NEW c, Texty(c)
  PROVE  Parsed(c).other \in 0..MaxEdits /\ Serves(Parsed(c).services, HostEntries)
<1>1. CASE IsHost(c)
  BY <1>1, TextsHold DEF Parsed
<1>2. CASE ~IsHost(c)
  BY <1>2, HostTexts, NothingServed, FilesAssumption DEF Parsed
<1>3. QED BY <1>1, <1>2

LEMMA HostEntryFields ==
  ASSUME NEW e \in HostEntries
  PROVE  /\ e.runs \in {"server", "proxy", "void", "nothing"} /\ e.env = "set"
         /\ SocketOf(e) \in {"declared", "default", "tilde", "void"}
BY DEF HostEntries, SocketOf, NoSocket

LEMMA ManifestTyped ==
  ASSUME NEW c, Texty(c), Scans(c)
  PROVE  Texty(BuildManifest(Parsed(c).services))
<1> DEFINE s == Parsed(c).services
           m == [n \in DOMAIN s |-> ManifestEntry(s[n])]
<1>1. Serves(s, HostEntries) /\ \A n \in DOMAIN s : s[n].runs # "nothing"
  BY ParsedTyped DEF Scans
<1> HIDE DEF s
<1>2. ASSUME NEW e \in HostEntries, e.runs # "nothing"
      PROVE  ManifestEntry(e) \in MuxEntries
  BY <1>2, HostEntryFields DEF ManifestEntry, MuxEntries
<1>3. Serves(m, MuxEntries)
  BY <1>1, <1>2 DEF Serves
<1>4. BuildManifest(s) = MuxText("toml", m)
  BY DEF BuildManifest
<1>5. QED BY <1>3, <1>4, TextsTyped DEF s

LEMMA SnippetTyped ==
  ASSUME NEW s, Serves(s, HostEntries)
  PROVE  Serves(Snippet(s), HostEntries)
<1>1. ASSUME NEW e \in HostEntries
      PROVE  ProxyEntry(e) \in HostEntries
  BY HostEntryFields DEF ProxyEntry, HostEntries, NoSocket
<1>2. QED BY <1>1 DEF Serves, Snippet

LEMMA FormOfTyped ==
  ASSUME NEW f, NEW n \in Names, NEW e, e \in MuxEntries \cup {Fresh}
  PROVE  FormTyped(FormOf(f, n, e))
<1> DEFINE o == FormOf(f, n, e)
<1>1. /\ o.name = n /\ o.socket = Shown(e, "socket") /\ o.cmd = Shown(e, "cmd")
      /\ o.clients = Shown(e, "clients") /\ o.level = Shown(e, "level")
      /\ o.tray = Shown(e, "tray")
  BY DEF FormOf
<1>2. CASE e \in MuxEntries
  <2>1. /\ e.socket \in {"declared", "default", "tuned", "tilde", "typed", "blank", "void", Absent}
        /\ e.cmd \in {"server", "proxy", "npx", "typed", "blank", "void", Absent}
        /\ e.clients \in {"5", "2", "0", "zero", Absent}
        /\ e.level \in {"info", "debug", "loud", Absent} /\ e.tray \in {"yes", "no", Absent}
    BY <1>2 DEF MuxEntries
  <2>2. QED BY <1>1, <2>1 DEF FormTyped, Shown, Fresh
<1>3. CASE e = Fresh
  BY <1>1, <1>3 DEF FormTyped, Shown, Fresh
<1>4. QED BY <1>2, <1>3

LEMMA LoadedTyped ==
  ASSUME FilesTyped, NEW f \in Files, Loads(f), NEW c \in Loaded(f)
  PROVE  Serves(c, MuxEntries)
BY TextsHold DEF FilesTyped, Loads, Loaded

LEMMA FormsStartTyped ==
  ASSUME FilesTyped, NEW f \in Files, Loads(f), NEW o \in InitialForms(f)
  PROVE  FormTyped(o)
<1>1. CASE Loaded(f) = {}
  BY <1>1, FormOfTyped DEF InitialForms
<1>2. CASE Loaded(f) # {}
  <2>1. PICK c \in Loaded(f), n \in Names :
          o = FormOf(f, n, IF n \in DOMAIN c THEN c[n] ELSE Fresh)
    BY <1>2 DEF InitialForms
  <2>2. n \in DOMAIN c => c[n] \in MuxEntries
    BY LoadedTyped DEF Serves
  <2>3. QED BY <2>1, <2>2, FormOfTyped
<1>3. QED BY <1>1, <1>2

(* The tool writes a number, not just any text, for the limit on clients.    *)
LEMMA PersistedTyped ==
  ASSUME EditorTyped, NEW o \in form, Valid(o)
  PROVE  Texty(Persisted(o, fromDisk))
<1> DEFINE old == IF fromDisk = {} THEN <<>> ELSE CHOOSE c \in fromDisk : TRUE
           m == [n \in DOMAIN old \cup {o.name} |-> IF n = o.name THEN Entry(o) ELSE old[n]]
<1>1. Serves(old, MuxEntries)
  BY NothingServed DEF EditorTyped
<1> HIDE DEF old
<1>2. o.name \in Names \cup {"blank"} /\ Entry(o) \in MuxEntries
  BY DEF EditorTyped, FormTyped, Valid, Entry, MuxEntries
<1>3. Serves(m, MuxEntries)
  BY <1>1, <1>2 DEF Serves
<1>4. Persisted(o, fromDisk) = MuxText("toml", m)
  BY DEF Persisted, Writer, old
<1>5. QED BY <1>3, <1>4, TextsTyped

LEMMA InitTyped == Init => TypedInv
<1> SUFFICES ASSUME Init PROVE TypedInv
  OBVIOUS
<1>1. PICK h \in HostTables, m \in {Missing} \cup {MuxText("toml", t) : t \in MuxTables} :
        disk = [f \in Files |-> CASE f = "host" -> HostText(0, h)
                                 [] f = "mux" -> m
                                 [] OTHER -> Missing]
  BY DEF Init
<1>2. Texty(HostText(0, h))
  <2>1. HostWritten \subseteq HostEntries
    BY DEF HostWritten, HostEntries
  <2>2. Serves(h, HostEntries)
    BY <2>1, ToolsAssumption DEF Serves
  <2>3. 0 \in 0..MaxEdits
    BY FilesAssumption
  <2>4. QED BY <2>2, <2>3, TextsTyped
<1>3. Texty(m) /\ m.kind # "host"
  <2>1. HandMade \subseteq MuxEntries
    BY DEF HandMade, MuxEntries
  <2>2. \A t \in MuxTables : Serves(t, MuxEntries)
    BY <2>1, ToolsAssumption DEF Serves
  <2>3. QED BY <2>2, TextsTyped
<1>4. FilesTyped
  BY <1>1, <1>2, <1>3, TextsTyped DEF FilesTyped, Files
<1>5. JobsTyped
  BY TextsTyped, IdleJob DEF Init, JobsTyped, JobTyped
<1>6. EditorTyped /\ HistoryTyped
  BY DEF Init, EditorTyped, HistoryTyped
<1>7. Counted
  <2>1. runs = 0 /\ edits = 0 /\ rewired = 0 /\ At("rewire", "idle")
    BY IdleJob DEF Init, At, Tools
  <2>2. QED BY <2>1, FilesAssumption DEF Counted
<1>8. QED BY <1>4, <1>5, <1>6, <1>7 DEF TypedInv

(* A file operation writes what the tool has, into a file of its own.        *)
LEMMA OperationsTyped ==
  ASSUME Shapes, HostInv, SoundInv, FilesTyped, JobsTyped, NEW t \in Tools, Overwrites(t)
  PROVE  FilesTyped' /\ JobsTyped'
<1>1. /\ \A u \in Tools \ {t} : job'[u] = job[u]
      /\ \/ job'[t] = Idle
         \/ \E s : job'[t] = [step |-> s, target |-> job[t].target, text |-> job[t].text]
  BY FileOperation
<1>2. JobsTyped'
  <2>1. JobTyped(t, Idle)
    BY IdleJob, TextsTyped DEF JobTyped
  <2>2. JobTyped(t, job'[t])
    <3>1. CASE job'[t] = Idle
      BY <2>1, <3>1
    <3>2. ASSUME NEW s, job'[t] = [step |-> s, target |-> job[t].target, text |-> job[t].text]
          PROVE  JobTyped(t, job'[t])
      <4>1. job'[t].target = job[t].target /\ job'[t].text = job[t].text
        BY <3>2
      <4>2. QED BY <4>1 DEF JobsTyped, JobTyped
    <3>3. QED BY <1>1, <3>1, <3>2
  <2>3. \A u \in Tools : JobTyped(u, job'[u])
    BY <1>1, <2>2 DEF JobsTyped
  <2>4. QED BY <2>3 DEF JobsTyped, JobTyped
<1>3. /\ job[t].target \in Files
      /\ IF t = "rewire" THEN job[t].target = "host" ELSE job[t].target \notin {"host", "hostbak"}
  BY FileOperation DEF SoundInv, Shapes, HostInv, HostTyped, At, Overwriting
<1>4. \E f, c : /\ disk' = [disk EXCEPT ![f] = c] \/ UNCHANGED disk
                /\ f \in Files => Texty(c) /\ (c.kind = "host" => f \in {"host", "hostbak"})
  <2>1. CASE UNCHANGED disk
    BY <2>1, TextsTyped
  <2>2. CASE \E f : disk' = [disk EXCEPT ![f] = Empty]
    BY <2>2, TextsTyped
  <2>3. ASSUME NEW f, NEW x, Puts(f, x), Texty(x), x.kind = "host" => f \in {"host", "hostbak"}
        PROVE  \E c : /\ disk' = [disk EXCEPT ![f] = c]
                      /\ f \in Files => Texty(c) /\ (c.kind = "host" => f \in {"host", "hostbak"})
    <3>1. PICK c \in Over(f, x) : disk' = [disk EXCEPT ![f] = c]
      BY <2>3 DEF Puts
    <3>2. c \in {x, Mixed, disk[f]}
      BY <3>1, Written
    <3>3. f \in Files => Texty(c) /\ (c.kind = "host" => f \in {"host", "hostbak"})
      BY <2>3, <3>2, TextsTyped DEF FilesTyped
    <3>4. QED BY <3>1, <3>3
  <2>4. /\ Texty(job[t].text)
        /\ job[t].text.kind = "host" => job[t].target \in {"host", "hostbak"}
    BY <1>3 DEF JobsTyped, JobTyped
  <2>5. /\ Texty(disk[job[t].target])
        /\ disk[job[t].target].kind = "host" => BackupOf(job[t].target) \in {"host", "hostbak"}
    BY <1>3 DEF FilesTyped, BackupOf
  <2>6. \/ UNCHANGED disk
        \/ \E f : disk' = [disk EXCEPT ![f] = Empty]
        \/ Puts(job[t].target, job[t].text)
        \/ Puts(BackupOf(job[t].target), disk[job[t].target])
    BY FileOperation
  <2>7. QED BY <2>1, <2>2, <2>3, <2>4, <2>5, <2>6
<1>5. FilesTyped'
  BY <1>4 DEF FilesTyped, Shapes
<1>6. QED BY <1>2, <1>5

(* The other steps of a tool.                                                *)
LEMMA JobsStayTyped ==
  ASSUME Shapes, JobsTyped, NEW t \in Tools,
         \/ UNCHANGED job
         \/ \E s : Goes(t, s)
         \/ Ends(t)
         \/ \E j : JobTyped(t, j) /\ job' = [job EXCEPT ![t] = j]
  PROVE  JobsTyped'
<1>1. CASE UNCHANGED job
  BY <1>1 DEF JobsTyped
<1>2. ASSUME NEW s, Goes(t, s)
      PROVE  JobsTyped'
  <2>1. /\ job'[t].target = job[t].target /\ job'[t].text = job[t].text
        /\ \A u \in Tools \ {t} : job'[u] = job[u]
    <3>1. /\ job'[t] = [step |-> s, target |-> job[t].target, text |-> job[t].text]
          /\ \A u \in Tools \ {t} : job'[u] = job[u]
      BY <1>2, JobGoes
    <3>2. QED BY <3>1
  <2>2. QED BY <2>1 DEF JobsTyped, JobTyped
<1>3. ASSUME NEW j, JobTyped(t, j), job' = [job EXCEPT ![t] = j]
      PROVE  JobsTyped'
  BY <1>3, JobSet DEF JobsTyped
<1>4. CASE Ends(t)
  BY <1>3, <1>4, IdleJob, TextsTyped DEF Ends, JobTyped
<1>5. QED BY <1>1, <1>2, <1>3, <1>4

LEMMA NextFilesTyped ==
  ASSUME Shapes, HostInv, SoundInv, FilesTyped, JobsTyped, EditorTyped, [Next]_vars
  PROVE  FilesTyped' /\ JobsTyped'
<1>0. /\ "scan" \in Tools /\ "rewire" \in Tools /\ "wizard" \in Tools
      /\ {"mux", "alt", "host"} \subseteq Files
  BY DEF Tools, Files
<1>1. ASSUME UNCHANGED disk
      PROVE  FilesTyped'
  BY <1>1 DEF FilesTyped
<1>2. ASSUME NEW t \in Tools, ToolStep(t)
      PROVE  FilesTyped' /\ JobsTyped'
  BY <1>2, OperationsTyped DEF ToolStep
<1>3. ASSUME NEW t \in Tools, ToolStops(t)
      PROVE  FilesTyped' /\ JobsTyped'
  BY <1>1, <1>3, JobsStayTyped DEF ToolStops, Stops
<1>4. CASE ScanReads
  <2>1. ASSUME Scans(disk["host"])
        PROVE  JobTyped("scan", [step |-> "backup", target |-> "mux",
                                 text |-> BuildManifest(Parsed(disk["host"]).services)])
    <3>1. Texty(BuildManifest(Parsed(disk["host"]).services))
      BY <1>0, <2>1, ManifestTyped DEF FilesTyped
    <3>2. BuildManifest(Parsed(disk["host"]).services).kind = "mux"
      BY TextsTyped DEF BuildManifest
    <3>3. QED BY <1>0, <3>1, <3>2 DEF JobTyped
  <2>2. \/ UNCHANGED job
        \/ \E j : JobTyped("scan", j) /\ job' = [job EXCEPT !["scan"] = j]
    BY <1>4, <2>1 DEF ScanReads, Replaces
  <2>3. JobsTyped'
    BY <1>0, <2>2, JobsStayTyped
  <2>4. QED BY <1>1, <1>4, <2>3 DEF ScanReads
<1>5. CASE RewireScans
  <2> DEFINE x == HostText(0, Snippet(Parsed(disk["host"]).services))
  <2>1. Texty(x)
    <3>1. Serves(Parsed(disk["host"]).services, HostEntries)
      BY <1>0, ParsedTyped DEF FilesTyped
    <3>2. QED BY <3>1, SnippetTyped, TextsTyped, FilesAssumption
  <2>2. JobTyped("rewire", [step |-> "merge", target |-> "host", text |-> x])
    BY <1>0, <2>1 DEF JobTyped
  <2>3. \/ UNCHANGED job
        \/ \E j : JobTyped("rewire", j) /\ job' = [job EXCEPT !["rewire"] = j]
    BY <1>5, <2>2 DEF RewireScans
  <2>4. JobsTyped'
    BY <1>0, <2>3, JobsStayTyped
  <2>5. QED BY <1>1, <1>5, <2>4 DEF RewireScans
<1>6. CASE RewireMerges
  <2> DEFINE x == HostText(Parsed(disk["host"]).other, job["rewire"].text.services)
  <2>1. Texty(x)
    <3>1. Parsed(disk["host"]).other \in 0..MaxEdits
      BY <1>0, ParsedTyped DEF FilesTyped
    <3>2. Serves(job["rewire"].text.services, HostEntries)
      BY <1>0, <1>6, TextsHold DEF RewireMerges, HostInv, HostTyped, JobsTyped, JobTyped
    <3>3. QED BY <3>1, <3>2, TextsTyped
  <2>2. JobTyped("rewire", [step |-> "backup", target |-> "host", text |-> x])
    BY <1>0, <2>1 DEF JobTyped
  <2>3. \/ Ends("rewire")
        \/ \E j : JobTyped("rewire", j) /\ job' = [job EXCEPT !["rewire"] = j]
    BY <1>6, <2>2 DEF RewireMerges, Replaces
  <2>4. JobsTyped'
    BY <1>0, <2>3, JobsStayTyped
  <2>5. QED BY <1>1, <1>6, <2>4 DEF RewireMerges
<1>7. ASSUME NEW n \in Names, HostEdits(n)
      PROVE  FilesTyped' /\ JobsTyped'
  <2> DEFINE c == disk["host"]
             s == [m \in DOMAIN c.services \cup {n} |->
                     IF m = n THEN Service(NoSocket, "set") ELSE c.services[m]]
  <2>1. /\ disk' = [disk EXCEPT !["host"] = HostText(c.other + 1, s)] /\ UNCHANGED job
        /\ IsHost(c) /\ c.other < MaxEdits
    BY <1>7 DEF HostEdits
  <2>2. c.other \in 0..MaxEdits /\ Serves(c.services, HostEntries)
    BY <1>0, <2>1, TextsHold DEF FilesTyped
  <2>3. Service(NoSocket, "set") \in HostEntries
    BY DEF Service, HostEntries, NoSocket
  <2>4. Serves(s, HostEntries)
    BY <2>2, <2>3 DEF Serves
  <2>5. c.other + 1 \in 0..MaxEdits
    BY <2>1, <2>2, FilesAssumption
  <2>6. Texty(HostText(c.other + 1, s))
    BY <2>4, <2>5, TextsTyped
  <2>7. FilesTyped'
    BY <2>1, <2>6 DEF FilesTyped, Shapes
  <2>8. QED BY <2>1, <2>7 DEF JobsTyped
<1>8. CASE Persist
  <2>1. PICK o \in form : Replaces("wizard", o.path, Persisted(o, fromDisk))
    BY <1>8 DEF Persist
  <2>2. Valid(o) /\ o.path \in Files
    BY <1>0, <1>8 DEF Persist, SoundInv, Shapes, IsForm
  <2>3. Texty(Persisted(o, fromDisk)) /\ Persisted(o, fromDisk).kind = "mux"
    BY <2>2, PersistedTyped, TextsTyped DEF Persisted
  <2>4. JobTyped("wizard", [step |-> "backup", target |-> o.path,
                            text |-> Persisted(o, fromDisk)])
    BY <2>2, <2>3 DEF JobTyped
  <2>5. JobsTyped'
    BY <1>0, <2>1, <2>4, JobsStayTyped DEF Replaces
  <2>6. QED BY <1>1, <1>8, <2>5 DEF Persist
<1>9. CASE (\E f \in {"mux", "alt"} : WizardOpens(f)) \/ WizardLoads \/ Quit \/ Save
  <2>1. /\ UNCHANGED disk
        /\ UNCHANGED job \/ Ends("wizard") \/ \E s : Goes("wizard", s)
    BY <1>9 DEF WizardOpens, WizardStarts, WizardLoads, Quit, Save, Leaves
  <2>2. QED BY <1>0, <1>1, <2>1, JobsStayTyped
<1>10. CASE ToggleTray \/ Esc \/ Type \/ (\E f \in Texts : Enter(f)) \/ UNCHANGED vars
  <2>1. UNCHANGED <<disk, job>>
    BY <1>10 DEF ToggleTray, Esc, Type, Enter, Editor, vars
  <2>2. QED BY <1>1, <2>1 DEF JobsTyped
<1>11. QED BY <1>2, <1>3, <1>4, <1>5, <1>6, <1>7, <1>8, <1>9, <1>10 DEF Next

(* What is shown of a service is typed, and so is all that can be entered.   *)
LEMMA EnteredTyped ==
  ASSUME NEW o, IsForm(o), FormTyped(o), NEW f \in Texts, NEW v \in Typed(f)
  PROVE  FormTyped([o EXCEPT ![f] = v])
<1> DEFINE p == [o EXCEPT ![f] = v]
<1>1. DOMAIN o = {"path", "name", "socket", "cmd", "clients", "level", "tray"}
  BY DEF IsForm
<1>2. p[f] = v /\ \A g \in DOMAIN o \ {f} : p[g] = o[g]
  BY <1>1 DEF Texts
<1> HIDE DEF p
<1>3. CASE f \in {"path", "name"}
  BY <1>1, <1>2, <1>3 DEF FormTyped, Typed
<1>4. CASE f = "clients"
  BY <1>1, <1>2, <1>4 DEF FormTyped, Typed
<1>5. CASE f \in {"socket", "cmd", "level"}
  BY <1>1, <1>2, <1>5 DEF FormTyped, Typed
<1>6. QED BY <1>3, <1>4, <1>5 DEF Texts, p

LEMMA NextEditorTyped ==
  ASSUME Shapes, FilesTyped, EditorTyped, [Next]_vars
  PROVE  EditorTyped'
<1>1. ASSUME NEW t \in Tools, ToolStep(t) \/ ToolStops(t)
      PROVE  EditorTyped'
  <2>1. UNCHANGED wizardVars \/ (tui' = "off" /\ form' = {} /\ fromDisk' = {} /\ editing' \subseteq editing)
    BY <1>1 DEF ToolStep, ToolStops
  <2>2. QED BY <2>1 DEF EditorTyped
<1>2. CASE UNCHANGED wizardVars
  BY <1>2 DEF EditorTyped
<1>3. ASSUME NEW f \in {"mux", "alt"}, WizardOpens(f)
      PROVE  EditorTyped'
  <2>1. /\ UNCHANGED <<tui, editing, fromDisk>>
        /\ UNCHANGED form \/ (Loads(f) /\ \E o \in InitialForms(f) : form' = {o})
    BY <1>3 DEF WizardOpens, WizardStarts
  <2>2. f \in Files
    BY DEF Files
  <2>3. \A o \in form' : FormTyped(o)
    BY <2>1, <2>2, FormsStartTyped DEF EditorTyped
  <2>4. QED BY <2>1, <2>3 DEF EditorTyped
<1>4. CASE WizardLoads
  <2>1. /\ tui' = "on" /\ editing' = {} /\ UNCHANGED form
        /\ \E o \in form : fromDisk' = IF Loads(o.path) THEN Loaded(o.path) ELSE {}
    BY <1>4 DEF WizardLoads
  <2>2. \A o \in form : o.path \in Files
    BY DEF Shapes, IsForm, Files
  <2>3. \A c \in fromDisk' : Serves(c, MuxEntries)
    BY <2>1, <2>2, LoadedTyped
  <2>4. QED BY <2>1, <2>3 DEF EditorTyped
<1>5. CASE Quit \/ Save
  <2>1. /\ tui' \in {"off", "saved", "aborted"} /\ editing' = {}
        /\ form' \subseteq form /\ UNCHANGED fromDisk
    BY <1>5 DEF Quit, Save, Leaves
  <2>2. QED BY <2>1 DEF EditorTyped
<1>6. CASE ToggleTray
  <2>1. /\ form' = {[o EXCEPT !.tray = IF @ = "yes" THEN "no" ELSE "yes"] : o \in form}
        /\ UNCHANGED <<tui, editing, fromDisk>>
    BY <1>6 DEF ToggleTray, Editor
  <2>2. ASSUME NEW o \in form
        PROVE  FormTyped([o EXCEPT !.tray = IF @ = "yes" THEN "no" ELSE "yes"])
    <3> DEFINE t == IF o.tray = "yes" THEN "no" ELSE "yes"
    <3>1. IsForm(o) /\ FormTyped(o) /\ t \in {"yes", "no"}
      BY DEF Shapes, EditorTyped
    <3>2. [o EXCEPT !.tray = IF @ = "yes" THEN "no" ELSE "yes"] =
            [path |-> o.path, name |-> o.name, socket |-> o.socket, cmd |-> o.cmd,
             clients |-> o.clients, level |-> o.level, tray |-> t]
      BY <3>1 DEF IsForm
    <3> HIDE DEF t
    <3>3. QED BY <3>1, <3>2 DEF FormTyped
  <2>3. QED BY <2>1, <2>2 DEF EditorTyped
<1>7. CASE Type
  <2>1. PICK f \in editing : \E v \in Typed(f) : form' = {[o EXCEPT ![f] = v] : o \in form}
    BY <1>7 DEF Type, Editor
  <2>2. \A o \in form : IsForm(o) /\ FormTyped(o)
    BY DEF Shapes, EditorTyped
  <2>3. f \in Texts /\ UNCHANGED <<tui, editing, fromDisk>>
    BY <1>7 DEF Type, Editor, EditorTyped
  <2>4. \A o \in form' : FormTyped(o)
    BY <2>1, <2>2, <2>3, EnteredTyped
  <2>5. QED BY <2>3, <2>4 DEF EditorTyped
<1>8. CASE Esc \/ (\E f \in Texts : Enter(f)) \/ UNCHANGED vars
  <2>1. UNCHANGED <<tui, form, fromDisk>> /\ (editing' \subseteq editing \cup Texts)
    BY <1>8 DEF Esc, Enter, Editor, vars
  <2>2. QED BY <2>1 DEF EditorTyped
<1>9. CASE Persist
  BY <1>2, <1>9 DEF Persist
<1>10. QED BY <1>1, <1>2, <1>3, <1>4, <1>5, <1>6, <1>7, <1>8, <1>9 DEF Next

(* A file operation ends a rewire that is under way when it counts one.      *)
LEMMA NextCounted ==
  ASSUME Shapes, HostInv, Counted, [Next]_vars
  PROVE  Counted'
<1>0. "rewire" \in Tools /\ MaxRuns \in Nat /\ MaxEdits \in Nat
  BY FilesAssumption DEF Tools
<1>1. ASSUME NEW t \in Tools, ToolStep(t)
      PROVE  Counted'
  <2>1. UNCHANGED <<runs, edits>>
    BY <1>1 DEF ToolStep, Overwrites, CopyStarts, CopyEnds, WriteStarts, WriteEnds
  <2>2. CASE t = "rewire" /\ At("rewire", "writing")
    <3>1. job'["rewire"] = Idle /\ ~At("rewire", "idle")
      BY <1>0, <1>1, <2>2, FileOperation DEF ToolStep, At
    <3>2. rewired' \in {rewired, rewired + 1}
      BY <1>1 DEF ToolStep
    <3>3. QED BY <2>1, <3>1, <3>2, IdleJob DEF Counted, At
  <2>3. CASE ~(t = "rewire" /\ At("rewire", "writing"))
    <3>1. ~Completes(t, "host")
      BY <2>3 DEF Completes, Shapes
    <3>2. UNCHANGED rewired
      BY <1>1, <3>1 DEF ToolStep
    <3>3. At("rewire", "idle")' <=> At("rewire", "idle")
      <4>1. CASE t = "rewire"
        <5>1. /\ job["rewire"].step \in {"backup", "copying", "write"}
              /\ \E s \in {"write", "copying", "writing"} :
                   job'["rewire"] = [step |-> s, target |-> job["rewire"].target,
                                     text |-> job["rewire"].text]
          BY <1>0, <1>1, <2>3, <4>1, FileOperation DEF ToolStep, At
        <5>2. QED BY <5>1 DEF At
      <4>2. CASE t # "rewire"
        BY <1>0, <1>1, <4>2, FileOperation DEF ToolStep, At
      <4>3. QED BY <4>1, <4>2
    <3>4. QED BY <2>1, <3>2, <3>3 DEF Counted
  <2>4. QED BY <2>2, <2>3
<1>2. ASSUME UNCHANGED rewired, runs' \in {runs, runs + 1}, runs' <= MaxRuns, edits' \in 0..MaxEdits,
             job'["rewire"] = job["rewire"] \/ At("rewire", "idle")' \/ runs' = runs + 1
      PROVE  Counted'
  BY <1>0, <1>2 DEF Counted, At
<1>3. ASSUME NEW t \in Tools, ToolStops(t)
      PROVE  Counted'
  <2>1. UNCHANGED <<runs, rewired>> /\ edits' \in {edits, 0} /\ job' = [job EXCEPT ![t] = Idle]
    BY <1>3 DEF ToolStops, Stops, Ends
  <2>2. job'["rewire"] = job["rewire"] \/ At("rewire", "idle")'
    BY <1>0, <2>1, JobSet, IdleJob DEF At
  <2>3. QED BY <1>0, <1>2, <2>1, <2>2 DEF Counted
<1>4. CASE (ScanReads \/ RewireScans) /\ UNCHANGED <<wizardVars, historyVars>>
  <2>1. runs < MaxRuns /\ runs' = runs + 1
    BY <1>4 DEF ScanReads, RewireScans, Begins
  <2>2. QED BY <1>0, <1>2, <1>4, <2>1 DEF Counted
<1>5. CASE RewireMerges /\ UNCHANGED <<wizardVars, historyVars>>
  <2>1. UNCHANGED runs /\ \E j : job' = [job EXCEPT !["rewire"] = j]
    BY <1>5 DEF RewireMerges, Replaces, Ends
  <2>2. ~At("rewire", "idle")
    BY <1>5 DEF RewireMerges, At
  <2>3. QED BY <1>0, <1>5, <2>1, <2>2 DEF Counted
<1>6. CASE (\E n \in Names : HostEdits(n)) /\ UNCHANGED <<wizardVars, historyVars>>
  BY <1>0, <1>2, <1>6 DEF HostEdits, Counted
<1>7. ASSUME UNCHANGED <<rewired>>, runs' \in {runs, runs + 1}, runs' <= MaxRuns,
             edits' \in 0..MaxEdits,
             \/ UNCHANGED job
             \/ Ends("wizard")
             \/ \E s : Goes("wizard", s)
             \/ \E j : job' = [job EXCEPT !["wizard"] = j]
      PROVE  Counted'
  <2>1. job'["rewire"] = job["rewire"]
    <3>1. "wizard" \in Tools
      BY ToolNames
    <3>2. QED BY <1>0, <1>7, <3>1, JobGoes, JobSet DEF Ends
  <2>2. QED BY <1>2, <1>7, <2>1
<1>8. CASE \E f \in {"mux", "alt"} : WizardOpens(f)
  <2>1. /\ runs < MaxRuns /\ runs' = runs + 1 /\ UNCHANGED <<rewired, edits>>
        /\ UNCHANGED job \/ Goes("wizard", "reading")
    BY <1>8 DEF WizardOpens, WizardStarts, Begins
  <2>2. QED BY <1>0, <1>7, <2>1 DEF Counted
<1>9. CASE (WizardLoads \/ Quit \/ Save) /\ UNCHANGED historyVars
  <2>1. /\ UNCHANGED <<runs, rewired>> /\ edits' = 0
        /\ Ends("wizard") \/ \E s : Goes("wizard", s)
    BY <1>9 DEF WizardLoads, Quit, Save, Leaves
  <2>2. edits' \in 0..MaxEdits /\ runs' = runs /\ runs' <= MaxRuns
    BY <1>0, <2>1 DEF Counted
  <2>3. QED BY <1>7, <2>1, <2>2
<1>10. CASE Persist /\ UNCHANGED historyVars
  <2>1. UNCHANGED <<runs, rewired, edits>> /\ \E j : job' = [job EXCEPT !["wizard"] = j]
    BY <1>10 DEF Persist, Replaces
  <2>2. edits' \in 0..MaxEdits /\ runs' = runs /\ runs' <= MaxRuns
    BY <1>0, <2>1 DEF Counted
  <2>3. QED BY <1>7, <2>1, <2>2
<1>11. CASE (ToggleTray \/ Type) /\ UNCHANGED historyVars
  <2>1. UNCHANGED <<runs, rewired, job>> /\ edits < MaxEdits /\ edits' = edits + 1
    BY <1>11 DEF ToggleTray, Type, Editor
  <2>2. QED BY <1>0, <1>7, <2>1 DEF Counted
<1>12. CASE (Esc \/ (\E f \in Texts : Enter(f))) /\ UNCHANGED historyVars
  <2>1. UNCHANGED <<runs, rewired, job, edits>>
    BY <1>12 DEF Esc, Enter, Editor
  <2>2. QED BY <1>0, <1>7, <2>1 DEF Counted
<1>13. CASE UNCHANGED vars
  BY <1>13 DEF Counted, At, vars
<1>14. QED BY <1>1, <1>3, <1>4, <1>5, <1>6, <1>8, <1>9, <1>10, <1>11, <1>12, <1>13 DEF Next

LEMMA NextHistoryTyped ==
  ASSUME HostInv, HistoryTyped, [Next]_vars
  PROVE  HistoryTyped'
<1>1. ASSUME NEW t \in Tools, ToolStep(t)
      PROVE  HistoryTyped'
  BY <1>1 DEF ToolStep, HistoryTyped
<1>2. ASSUME NEW t \in Tools, ToolStops(t)
      PROVE  HistoryTyped'
  BY <1>2 DEF ToolStops, HistoryTyped
<1>3. ASSUME NEW f \in {"mux", "alt"}, WizardOpens(f)
      PROVE  HistoryTyped'
  BY <1>3 DEF WizardOpens, WizardStarts, HistoryTyped, At
<1>4. CASE UNCHANGED <<format, historyVars>>
  BY <1>4 DEF HistoryTyped
<1>5. QED BY <1>1, <1>2, <1>3, <1>4
      DEF Next, ScanReads, RewireScans, RewireMerges, HostEdits, WizardLoads, Quit, Save, Leaves,
          Persist, Enter, ToggleTray, Esc, Type, Editor, vars

LEMMA TypedInvariant == Spec => [](Shapes /\ HostInv /\ TypedInv)
<1>1. Shapes /\ HostInv /\ SoundInv /\ TypedInv /\ [Next]_vars => TypedInv'
  BY NextFilesTyped, NextEditorTyped, NextHistoryTyped, NextCounted DEF TypedInv
<1>2. QED BY <1>1, InitTyped, HostInvariant, SoundInvariant, PTL DEF Spec

(* Whatever the tools do to each other's files, a mux file and its backup    *)
(* never hold a host's document, every entry is one that the code can write  *)
(* (build_manifest, generate_snippet, persist) or that was there at first,   *)
(* with a number for its limit though the wizard's form takes any text       *)
(* (try_save), and no rewire writes the host's file more than once.          *)
THEOREM ToolsTyped == Spec => []TypeOK
<1>1. Shapes /\ HostInv /\ TypedInv => TypeOK
  <2> SUFFICES ASSUME Shapes, HostInv, TypedInv PROVE TypeOK
    OBVIOUS
  <2>1. rewired \in 0..MaxRuns
    BY FilesAssumption DEF TypedInv, Counted
  <2>2. IsHost(quiet) /\ IsHost(found)
    BY DEF HostInv, HostTyped
  <2>3. \A t \in Tools : Texty(job[t].text) /\ job[t].target \in Files \cup {"none"}
    BY DEF TypedInv, JobsTyped, JobTyped
  <2>4. QED BY <2>1, <2>2, <2>3
        DEF TypedInv, FilesTyped, EditorTyped, HistoryTyped, Counted, TypeOK
<1>2. QED BY <1>1, TypedInvariant, PTL
=============================================================================
