----------------------------- MODULE HostConfig -----------------------------
(***************************************************************************)
(* The configuration of an MCP host, and the tools that read it: `scan`    *)
(* writes a mux configuration for its services, `rewire` makes the host    *)
(* start the proxy in their place.                                         *)
(*                                                                         *)
(* An entry of the host: what it runs ("server", "proxy", "void": an empty *)
(* command, or "nothing": none), the socket in the arguments of a proxy,   *)
(* the `socket` key, and its environment.  `other` is everything outside   *)
(* of mcpServers, as the number of the host's last edit of it.  A socket   *)
(* is an absolute path ("declared", "default"), one that begins with `~/`  *)
(* ("tilde"), or empty ("void").                                           *)
(***************************************************************************)
EXTENDS ConfigFiles, Functions

VARIABLES
  format, \* of the host's file: "json" or "toml"
  quiet,  \* the host's file as of its last edit while no rewire ran (history)
  found   \* what the last rewire found there when it began to copy it, or
          \* what the host wrote since, unless it did between the end of the
          \* copy and the truncation (history)

hostVars == <<format, quiet, found>>

NoSocket == "none"

HostText(n, s) == [kind |-> "host", other |-> n, services |-> s]
IsHost(c) == c.kind = "host"

Service(s, e) == [runs |-> "server", at |-> NoSocket, socket |-> s, env |-> e]

(* A truncated file is a TOML document without keys, and no JSON.           *)
Parses(c) == IsHost(c) \/ (c = Empty /\ format = "toml")
Parsed(c) == IF IsHost(c) THEN c ELSE HostText(0, <<>>)

(* Mutant: a service without a command is taken like any other.             *)
Scans_AnyCommand(c) == Parses(c)

(* scan_host_file: one service without a command fails the whole file.      *)
Scans(c) == Parses(c) /\ \A n \in DOMAIN Parsed(c).services : Parsed(c).services[n].runs # "nothing"

SocketOf(entry) == IF entry.socket = NoSocket THEN "default" ELSE entry.socket

(* build_manifest, with what it sets for every service as "defaults".  The  *)
(* socket is the host's text, whatever it begins with.                      *)
ManifestEntry(e) == [socket |-> SocketOf(e), cmd |-> e.runs, clients |-> "5",
                     level |-> "info", tray |-> "no", rest |-> "defaults"]
MuxText(syntax, s) == [kind |-> "mux", syntax |-> syntax, servers |-> s]
BuildManifest(s) == MuxText("toml", [n \in DOMAIN s |-> ManifestEntry(s[n])])

(* Mutant: the proxy is pointed at the default socket in any case.          *)
ProxyEntry_DefaultSocket(e) == [runs |-> "proxy", at |-> "default", socket |-> NoSocket, env |-> e.env]

(* Mutant: the environment is not carried over.                             *)
ProxyEntry_DropsEnv(e) == [runs |-> "proxy", at |-> SocketOf(e), socket |-> NoSocket, env |-> "none"]

(* generate_snippet: command, arguments and env, and no other key; the      *)
(* socket is the host's text here too.                                      *)
ProxyEntry(e) == [runs |-> "proxy", at |-> SocketOf(e), socket |-> NoSocket, env |-> e.env]
Snippet(s) == [n \in DOMAIN s |-> ProxyEntry(s[n])]

-----------------------------------------------------------------------------
(* scan --manifest: reads the host, never the manifest that it replaces.    *)
ScanReads ==
  /\ Begins("scan")
  /\ IF Scans(disk["host"])
     THEN Replaces("scan", "mux", BuildManifest(Parsed(disk["host"]).services))
     ELSE UNCHANGED job
  /\ UNCHANGED <<disk, hostVars>>

(* The host's file is read for its services,                                *)
RewireScans ==
  /\ Begins("rewire")
  /\ IF Scans(disk["host"])
     THEN job' = [job EXCEPT !["rewire"] =
                    [step |-> "merge", target |-> "host",
                     text |-> HostText(0, Snippet(Parsed(disk["host"]).services))]]
     ELSE UNCHANGED job
  /\ UNCHANGED <<disk, hostVars>>

(* and once more for the rest.                                              *)
RewireMerges ==
  /\ At("rewire", "merge")
  /\ IF Parses(disk["host"])
     THEN Replaces("rewire", "host", HostText(Parsed(disk["host"]).other, job["rewire"].text.services))
     ELSE Ends("rewire")
  /\ UNCHANGED <<disk, runs, hostVars>>

(* The host changes its settings, and has one more service.  It replaces    *)
(* its file in one step.                                                    *)
HostEdits(n) ==
  /\ IsHost(disk["host"]) /\ disk["host"].other < MaxEdits
  /\ n \notin DOMAIN disk["host"].services
  /\ LET c == disk["host"]
         d == HostText(c.other + 1, [m \in DOMAIN c.services \cup {n} |->
                IF m = n THEN Service(NoSocket, "set") ELSE c.services[m]])
     IN  /\ disk' = [disk EXCEPT !["host"] = d]
         /\ quiet' = IF At("rewire", "idle") THEN d ELSE quiet
         /\ found' = IF At("rewire", "write") THEN found ELSE d
  /\ UNCHANGED <<job, runs, format>>
=============================================================================
