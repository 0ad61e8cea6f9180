------------------------------- MODULE Wizard -------------------------------
(***************************************************************************)
(* The interactive editor of one service of a mux configuration.  Up and   *)
(* Down go round the fields, so that the cursor can be brought to any of   *)
(* them: it is left out, and a key that depends on it comes with a choice  *)
(* of the field.                                                           *)
(*                                                                         *)
(* `form` is what the fields show: "blank" stands for text that trims to   *)
(* nothing, "0" for the number 0 and "x" for text that is no number, typed *)
(* into the form; "void" and "zero" are the same, as they came from a file.*)
(***************************************************************************)
EXTENDS ConfigResolve

VARIABLES
  tui,      \* "off", "on", "saved" (left with a valid form) or "aborted" (by an
            \* error, with the terminal in raw mode)
  form,     \* Option
  editing,  \* Option: the field that keys are typed into
  fromDisk, \* Option: config_from_disk
  edits     \* number of changes of the form

wizardVars == <<tui, form, editing, fromDisk, edits>>

(* The fields with text: the args go with the command.                      *)
Texts == {"path", "name", "socket", "cmd", "clients", "level"}

Typed(f) ==
  CASE f = "path" -> {"mux", "alt"}
    [] f = "name" -> Names \cup {"blank"}
    [] f = "clients" -> {"2", "0", "x"}
    [] f = "level" -> {"debug", "loud"}
    [] OTHER -> {"typed", "blank"}

(* What the form shows of a service that is new.                            *)
Fresh == [socket |-> "tilde", cmd |-> "npx", clients |-> "5", level |-> "info", tray |-> "no"]

(* A key that an entry lacks is shown as that of a new service.             *)
Shown(e, k) == IF e[k] = Absent THEN Fresh[k] ELSE e[k]

FormOf(f, n, e) == [path |-> f, name |-> n, socket |-> Shown(e, "socket"), cmd |-> Shown(e, "cmd"),
                    clients |-> Shown(e, "clients"), level |-> Shown(e, "level"),
                    tray |-> Shown(e, "tray")]

(* load_existing: --service, or some service of the file, or none.          *)
InitialForms(f) ==
  IF Loaded(f) = {}
  THEN {FormOf(f, n, Fresh) : n \in Names}
  ELSE UNION {{FormOf(f, n, IF n \in DOMAIN c THEN c[n] ELSE Fresh) : n \in Names} :
                c \in Loaded(f)}

WizardStarts(f) ==
  /\ Begins("wizard")
  /\ IF Loads(f)
     THEN /\ Goes("wizard", "reading")
          /\ \E o \in InitialForms(f) : form' = {o}
     ELSE UNCHANGED <<job, form>>
  /\ UNCHANGED <<disk, hostVars, tui, editing, fromDisk, edits>>

(* The file is loaded a second time; an error is taken for no file.         *)
WizardLoads ==
  /\ At("wizard", "reading")
  /\ \E o \in form :
       fromDisk' = IF Loads(o.path) THEN Loaded(o.path) ELSE {}
  /\ tui' = "on" /\ editing' = {} /\ edits' = 0
  /\ Goes("wizard", "editing")
  /\ UNCHANGED <<disk, runs, hostVars, form>>

Editor(next) ==
  /\ tui = "on" /\ At("wizard", "editing")
  /\ next
  /\ UNCHANGED <<fileVars, hostVars, fromDisk>>

(* Enter.  A field stays the edited one while the cursor moves on.          *)
Enter(f) == Editor(editing' = {f} /\ UNCHANGED <<tui, form, edits>>)

(* Enter or space on the tray field, which may be while another is edited.  *)
ToggleTray == Editor(
  /\ edits < MaxEdits /\ edits' = edits + 1
  /\ form' = {[o EXCEPT !.tray = IF @ = "yes" THEN "no" ELSE "yes"] : o \in form}
  /\ UNCHANGED <<tui, editing>>)

Esc == Editor(editing' = {} /\ UNCHANGED <<tui, form, edits>>)

(* Characters and backspaces into the edited field.                         *)
Type == Editor(
  /\ edits < MaxEdits /\ edits' = edits + 1
  /\ \E f \in editing : \E v \in Typed(f) :
       form' = {[o EXCEPT ![f] = v] : o \in form}
  /\ UNCHANGED <<tui, editing>>)

Leaves(how) ==
  /\ tui' = how /\ editing' = {} /\ edits' = 0
  /\ UNCHANGED <<disk, runs, hostVars, fromDisk>>

Quit ==
  /\ tui = "on" /\ editing = {}
  /\ Leaves("off") /\ form' = {} /\ Ends("wizard")

(* Mutant: any number is good enough.                                       *)
Valid_AnyNumber(o) ==
  /\ o.clients # "x"
  /\ \A f \in {"name", "socket", "cmd"} : o[f] \notin {"blank", "void"}

(* try_save looks at the number of clients and for empty texts; not at the  *)
(* log level, nor at the extension of the path.                             *)
Valid(o) ==
  /\ o.clients \notin {"x", "0", "zero"}
  /\ \A f \in {"name", "socket", "cmd"} : o[f] \notin {"blank", "void"}

(* Ctrl+S only shows a message while a field is edited.  An error ends the  *)
(* program where it is; otherwise the editor is left at once, and persist   *)
(* follows unless this is a dry run.                                        *)
Save ==
  /\ tui = "on" /\ editing = {}
  /\ \E o \in form :
       IF Valid(o)
       THEN \/ Leaves("saved") /\ Goes("wizard", "persist") /\ UNCHANGED form
            \/ Leaves("off") /\ form' = {} /\ Ends("wizard")
       ELSE Leaves("aborted") /\ form' = {} /\ Ends("wizard")

(* What the form does not show is set to the defaults.                      *)
Entry(o) == [socket |-> o.socket, cmd |-> o.cmd, clients |-> o.clients,
             level |-> o.level, tray |-> o.tray, rest |-> "defaults"]

(* TOML for an extension it does not know.                                  *)
Writer(f) == "toml"

(* Mutant: only the edited service is written.                              *)
Persisted_Alone(o, config) == MuxText(Writer(o.path), [n \in {o.name} |-> Entry(o)])

(* The services as they were when the wizard started, of the file it        *)
(* started with, and the one of the form.                                   *)
Persisted(o, config) ==
  LET old == IF config = {} THEN <<>> ELSE CHOOSE c \in config : TRUE
  IN  MuxText(Writer(o.path), [n \in DOMAIN old \cup {o.name} |->
                                 IF n = o.name THEN Entry(o) ELSE old[n]])

Persist ==
  /\ tui = "saved" /\ At("wizard", "persist")
  /\ \E o \in form : Replaces("wizard", o.path, Persisted(o, fromDisk))
  /\ UNCHANGED <<disk, runs, hostVars, wizardVars>>
=============================================================================
