---------------------------- MODULE ConfigTools -----------------------------
(***************************************************************************)
(* The command-line tools at work on the same files: a scan, a rewire and  *)
(* a wizard may each run while the others do, and stop at any point.  Each *)
(* is started again only after it ended.                                   *)
(***************************************************************************)
EXTENDS Wizard

CONSTANTS
  HostTables, \* what the host may have for mcpServers at first
  MuxTables   \* what a mux file made by hand may have for servers

(* A number of services, each of the given kind.                            *)
Serves(services, E) ==
  DOMAIN services \subseteq Names \cup {"blank"} /\ \A n \in DOMAIN services : services[n] \in E

(* Entries as a host, or someone with an editor, writes them: with an empty *)
(* command or socket, without one, with no client allowed, with settings    *)
(* that no tool makes ("tuned"), with a level that is none ("loud").        *)
HostWritten == [runs : {"server", "void", "nothing"}, at : {NoSocket},
                socket : {NoSocket, "declared", "tilde", "void"}, env : {"set"}]

HandMade ==
  [socket : {"tuned", "tilde", "void", Absent}, cmd : {"server", "void", Absent},
   clients : {"5", "zero", Absent}, level : {"info", "loud", Absent},
   tray : {"yes", "no", Absent}, rest : {"tuned", Absent}]

ASSUME ToolsAssumption ==
  /\ "blank" \notin Names
  /\ \A s \in HostTables : Serves(s, HostWritten) /\ "blank" \notin DOMAIN s
  /\ \A s \in MuxTables : Serves(s, HandMade) /\ "blank" \notin DOMAIN s

VARIABLES
  stopped, \* tools that stopped before they ended (history)
  rewired, \* rewires that wrote the host's file (history)
  scanned, \* the mux file is one that a scan wrote (history)
  saved,   \* per mux file, Option: the form it was written from (history)
  opened,  \* the file the wizard was started on, and its contents (history)
  shared   \* a scan ran while the wizard did (history)

historyVars == <<stopped, rewired, scanned, saved, opened, shared>>
vars == <<fileVars, hostVars, wizardVars, historyVars>>

MuxFiles == {"mux", "alt"}

Init ==
  /\ format \in {"json", "toml"}
  /\ \E h \in HostTables, m \in {Missing} \cup {MuxText("toml", s) : s \in MuxTables} :
       disk = [f \in Files |-> CASE f = "host" -> HostText(0, h)
                                [] f = "mux" -> m
                                [] OTHER -> Missing]
  /\ quiet = disk["host"] /\ found = disk["host"]
  /\ job = [t \in Tools |-> Idle]
  /\ runs = 0
  /\ tui = "off" /\ form = {} /\ editing = {} /\ fromDisk = {} /\ edits = 0
  /\ stopped = {} /\ rewired = 0 /\ scanned = FALSE /\ shared = FALSE
  /\ saved = [f \in MuxFiles |-> {}]
  /\ opened = [path |-> "none", text |-> Missing]

Completes(t, f) == At(t, "writing") /\ job[t].target = f

(* A tool's file operations, and what the history keeps of them.            *)
ToolStep(t) ==
  /\ Overwrites(t)
  /\ found' = IF t = "rewire" /\ At(t, "backup") /\ IsHost(disk["host"]) THEN disk["host"] ELSE found
  /\ rewired' = IF Completes(t, "host") THEN rewired + 1 ELSE rewired
  /\ scanned' = IF Completes(t, "mux") THEN t = "scan" ELSE scanned
  /\ saved' = [f \in MuxFiles |-> IF ~Completes(t, f) THEN saved[f]
                                  ELSE IF t = "wizard" THEN form ELSE {}]
  /\ shared' = (shared \/ (t = "scan" /\ ~At("wizard", "idle")))
  /\ IF t = "wizard" /\ At(t, "writing")
     THEN tui' = "off" /\ form' = {} /\ fromDisk' = {} /\ UNCHANGED <<editing, edits>>
     ELSE UNCHANGED wizardVars
  /\ UNCHANGED <<format, quiet, stopped, opened>>

ToolStops(t) ==
  /\ Stops(t)
  /\ stopped' = stopped \cup {t}
  /\ IF t = "wizard"
     THEN tui' = "off" /\ form' = {} /\ editing' = {} /\ fromDisk' = {} /\ edits' = 0
     ELSE UNCHANGED wizardVars
  /\ UNCHANGED <<hostVars, rewired, scanned, saved, opened, shared>>

WizardOpens(f) ==
  /\ WizardStarts(f)
  /\ opened' = [path |-> f, text |-> disk[f]]
  /\ shared' = ~At("scan", "idle")
  /\ UNCHANGED <<stopped, rewired, scanned, saved>>

Next ==
  \/ \E t \in Tools : ToolStep(t) \/ ToolStops(t)
  \/ (ScanReads \/ RewireScans \/ RewireMerges) /\ UNCHANGED <<wizardVars, historyVars>>
  \/ (\E n \in Names : HostEdits(n)) /\ UNCHANGED <<wizardVars, historyVars>>
  \/ \E f \in MuxFiles : WizardOpens(f)
  \/ (WizardLoads \/ Quit \/ Save \/ Persist) /\ UNCHANGED historyVars
  \/ (\E f \in Texts : Enter(f)) /\ UNCHANGED historyVars
  \/ (ToggleTray \/ Esc \/ Type) /\ UNCHANGED historyVars

Spec == Init /\ [][Next]_vars

-----------------------------------------------------------------------------
MuxEntries ==
  [socket : {"declared", "default", "tuned", "tilde", "typed", "blank", "void", Absent},
   cmd : {"server", "proxy", "npx", "typed", "blank", "void", Absent},
   clients : {"5", "2", "0", "zero", Absent}, level : {"info", "debug", "loud", Absent},
   tray : {"yes", "no", Absent}, rest : {"defaults", "tuned", Absent}]

HostEntries ==
  [runs : {"server", "proxy", "void", "nothing"},
   at : {NoSocket, "declared", "default", "tilde", "void"},
   socket : {NoSocket, "declared", "tilde", "void"}, env : {"set"}]

Texty(c) ==
  CASE c.kind = "host" -> c.other \in 0..MaxEdits /\ Serves(c.services, HostEntries)
    [] c.kind = "mux" -> c.syntax = "toml" /\ Serves(c.servers, MuxEntries)
    [] OTHER -> c \in {Missing, Empty, Mixed}

(* Type invariant of the tools and their files.                             *)
TypeOK ==
  /\ format \in {"json", "toml"} /\ IsHost(quiet) /\ IsHost(found)
  /\ \A f \in Files : Texty(disk[f]) /\ (disk[f].kind = "host" => f \in {"host", "hostbak"})
  /\ \A t \in Tools : Texty(job[t].text) /\ job[t].target \in Files \cup {"none"}
  /\ runs \in 0..MaxRuns /\ edits \in 0..MaxEdits
  /\ tui \in {"off", "on", "saved", "aborted"}
  /\ editing \subseteq Texts
  /\ stopped \subseteq Tools /\ rewired \in 0..MaxRuns /\ shared \in BOOLEAN
  /\ scanned \in BOOLEAN

(* A host's file with the settings, the names of the services and their      *)
(* environments of another.                                                  *)
Keeps(c, d) == /\ IsHost(c) /\ c.other >= d.other
               /\ \A n \in DOMAIN d.services :
                    n \in DOMAIN c.services /\ c.services[n].env = d.services[n].env

(* Two things are never lost to a rewire that runs, or stops, anywhere.      *)
(* Through any number of rewires: the settings that the host wrote while     *)
(* none ran, the names of its services and their environments, in its file   *)
(* or in the backup.  Through one, and until the next copies the file:       *)
(* everything that it found there, commands, arguments and sockets too, or   *)
(* that the host wrote since; but not what the host writes between the end   *)
(* of the copy and the truncation.  A second rewire forgets the commands,    *)
(* arguments and sockets in both.  All of this of a JSON file; of a TOML     *)
(* file if none stops, since the next rewire takes a truncated one for a     *)
(* document and makes it the backup.                                         *)
SettingsSurvive ==
  (format = "json" \/ "rewire" \notin stopped) =>
    /\ Keeps(disk["host"], quiet) \/ Keeps(disk["hostbak"], quiet)
    /\ found \in {disk["host"], disk["hostbak"]}

(* After a scan of the host as it was and one rewire, in either order of     *)
(* their file operations, the daemon of a service listens where the host's   *)
(* proxy connects, unless the host's own socket is a path with `~/`: the     *)
(* daemon expands it, the proxy does not.  (A second rewire forgets a socket *)
(* of the host's own, and a scan after a rewire takes the proxy for the      *)
(* server.)                                                                  *)
SocketsAgree ==
  scanned /\ rewired <= 1 /\ disk["mux"].kind = "mux" /\ IsHost(disk["host"]) =>
    \A n \in DOMAIN disk["mux"].servers \cap DOMAIN disk["host"].services :
      LET d == disk["mux"].servers[n]
          h == disk["host"].services[n]
      IN  d.cmd # "proxy" /\ h.runs = "proxy" /\ h.at # "tilde" => h.at = Expanded(d.socket)

(* A daemon started with a saved file and the name of the form's service     *)
(* starts if its extension is known and the log level of the form is one,    *)
(* neither of which the wizard checks, whatever its command line says; and   *)
(* it runs with what the form showed, its socket expanded, but for the flags *)
(* given, of which the limit on clients and the log level have no effect.    *)
SavedFormRuns ==
  \A f \in MuxFiles : disk[f].kind = "mux" =>
    \A o \in saved[f] : \A cli \in Cli : cli.service = o.name =>
      LET started == Loads(f) /\ Starts(cli, Loaded(f))
          params == Resolved(cli, Loaded(f))
          shown == [Entry(o) EXCEPT !.socket = Expanded(@)]
      IN  /\ started <=> f = "mux" /\ o.level \in Levels
          /\ started => \A k \in Flags :
               params[k] = IF k \in cli.flags \ {"clients", "level"} THEN Given(k) ELSE shown[k]

(* The wizard makes no service that a daemon could not serve, with no name,  *)
(* permit, command or socket: the service of a saved form has none of these  *)
(* faults, and any other that has one got it from the host (scan copies an   *)
(* empty command or socket) or from someone's editor (the wizard writes it   *)
(* back), not from what was typed into a form.                               *)
UsableServices == \A f \in MuxFiles : disk[f].kind = "mux" =>
  /\ \A n \in DOMAIN disk[f].servers :
       /\ n # "blank" /\ disk[f].servers[n].clients # "0"
       /\ "blank" \notin {disk[f].servers[n].socket, disk[f].servers[n].cmd}
  /\ \A o \in saved[f] :
       /\ disk[f].servers[o.name].clients # "zero"
       /\ {disk[f].servers[o.name].socket, disk[f].servers[o.name].cmd} \cap {"void", Absent} = {}

(* The wizard changes the service of its form and no other, if it saves to   *)
(* the file it was started on and no scan ran at the time.                   *)
SaveChangesOneService ==
  [][(Completes("wizard", "mux") /\ disk'["mux"].kind = "mux" /\ ~shared
       /\ opened.path = "mux" /\ opened.text.kind = "mux") =>
       \A o \in form : \A n \in DOMAIN opened.text.servers \ {o.name} :
         /\ n \in DOMAIN disk'["mux"].servers
         /\ disk'["mux"].servers[n] = opened.text.servers[n]]_vars
=============================================================================
