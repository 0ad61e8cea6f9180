--------------------------- MODULE ConfigResolve ----------------------------
(***************************************************************************)
(* How a daemon gets its parameters from the command line and the mux      *)
(* configuration: load_config and resolve_params.                          *)
(***************************************************************************)
EXTENDS HostConfig

(* The parser is chosen by the extension; JSON if it is none of those known.*)
Reader(f) == IF f = "mux" THEN "toml" ELSE "json"

(* `servers` is a required key: an empty document is no Config.             *)
Loads(f) == disk[f] = Missing \/ (disk[f].kind = "mux" /\ disk[f].syntax = Reader(f))

(* Option: None if there is no file.                                        *)
Loaded(f) == IF disk[f] = Missing THEN {} ELSE {disk[f].servers}

Absent == "absent" \* a key that an entry does not have

(* expand_path, of a value that is a path: its home directory for `~/`.     *)
Expanded(path) == IF path = "tilde" THEN "home" ELSE path

(* A command line: --service, and the flags given, each with a value that   *)
(* no configuration has.  `--tray` can only be turned on.                   *)
Flags == {"socket", "cmd", "clients", "level", "tray", "rest"}
Cli == [service : Names \cup {"none"}, flags : {{}, Flags} \cup {{f} : f \in Flags}]

Default(f) == CASE f = "clients" -> "5"
                [] f = "level" -> "info"
                [] f = "tray" -> "no"
                [] f = "rest" -> "defaults"
                [] OTHER -> "none"

Given(f) == IF f = "tray" THEN "yes" ELSE "flag"

(* What a LevelFilter can be parsed from.                                   *)
Levels == {"info", "debug", "flag"}

(* Mutant: a flag that clap always has a value for wins over the file.      *)
Prefers_Flag(cli, f) == f \in cli.flags \cup {"clients", "level"}

(* Whether the flag is looked at first.  --max-active-clients and           *)
(* --log-level have a default, and only count if the service has no value.  *)
Prefers(cli, f) == f \in cli.flags \ {"clients", "level"}

FromCli(cli, f) == IF f \in cli.flags THEN Given(f) ELSE Default(f)

(* With a configuration there must be a service, and it must be in it;      *)
(* without one --service is not looked at.                                  *)
Chosen(cli, config) == {s[cli.service] : s \in {c \in config : cli.service \in DOMAIN c}}

Resolves(cli, config) ==
  \/ \E e \in Chosen(cli, config) : \A f \in {"socket", "cmd"} : f \in cli.flags \/ e[f] # Absent
  \/ config = {} /\ {"socket", "cmd"} \subseteq cli.flags

(* The key of the chosen service, unless it lacks it.  A socket is expanded *)
(* there and not on the command line.                                       *)
Resolved(cli, config) ==
  [f \in Flags |->
     LET kept == {e[f] : e \in Chosen(cli, config)} \ {Absent}
         v == CHOOSE v \in kept : TRUE
     IN  IF Prefers(cli, f) \/ kept = {} THEN FromCli(cli, f)
         ELSE IF f = "socket" THEN Expanded(v) ELSE v]

(* main gives up on a log level that it cannot parse.                       *)
Starts(cli, config) == Resolves(cli, config) /\ Resolved(cli, config)["level"] \in Levels
=============================================================================
