----------------------------- MODULE Endpoints ------------------------------
(***************************************************************************)
(* Hosts that reach a daemon through a proxy process each.  The host       *)
(* writes lines to the proxy's stdin and reads its stdout; the proxy       *)
(* copies both ways between them and the daemon's socket.  There are two   *)
(* proxies: `rust-mux proxy` decodes and re-encodes each message and ends  *)
(* when either direction ends ("framed"); the `rust-mux-proxy` binary      *)
(* copies bytes, passes the end of stdin on by shutting its write half     *)
(* down, and waits for both directions ("bytes").  `rust-mux health` only  *)
(* connects and leaves; it is a client of the same daemon.                 *)
(*                                                                         *)
(* The daemon's side of a connection is what the proxies can tell of Mux:  *)
(* it reads requests, answers the ones it read in any order, and its       *)
(* connection handler ends as ClientHandler says.  Fewer clients connect   *)
(* than it has permits.                                                    *)
(***************************************************************************)
EXTENDS SocketFile, Naturals, Sequences, FiniteSets, Functions

CONSTANTS
  Framed, Bytes, \* the proxies, by kind
  Probes,        \* health checks
  Limit,         \* bound: lines a host writes
  Hosts          \* bound: processes that connect

ASSUME EndpointsAssumption ==
  /\ Framed \cap Bytes = {} /\ Probes \cap (Framed \cup Bytes) = {}
  /\ Limit \in Nat /\ Hosts \in Nat

VARIABLES
  sent,   \* lines the host has written
  stdin,  \* of them, those the proxy has not read
  open,   \* the host has not closed stdin
  garbled,\* a line was no JSON-RPC message
  stdout, \* requests the host has the answer of
  proxy,  \* "new", "copying", "copied" (end of stdin passed on, bytes only),
          \* "drained" (end of the socket, bytes only), "returned" or "ended"
  conn,   \* the daemon's end: "none", "backlog", "served", "deaf" (the reader
          \* failed and left the writer behind), "closed", or "reset" (closed
          \* before it was accepted or before everything was read)
  server, \* the daemon connected to
  up,     \* lines in the socket, towards the daemon
  upOpen, \* the proxy has not shut its write half down
  asked,  \* requests the daemon has read and not answered
  down    \* answers in the socket, towards the proxy

hostVars  == <<sent, open, garbled>>
connVars  == <<conn, server>>
proxyVars == <<hostVars, stdin, stdout, proxy, connVars, up, upOpen, asked, down>>
vars      == <<socketVars, proxyVars>>

Proxies == Framed \cup Bytes \cup Probes
Bad == 0  \* a line that is no JSON-RPC message

Init ==
  /\ SocketInit
  /\ sent = [p \in Proxies |-> 0]
  /\ stdin = [p \in Proxies |-> <<>>]
  /\ open = [p \in Proxies |-> TRUE]
  /\ garbled = [p \in Proxies |-> FALSE]
  /\ stdout = [p \in Proxies |-> {}]
  /\ proxy = [p \in Proxies |-> "new"]
  /\ conn = [p \in Proxies |-> "none"]
  /\ server = [p \in Proxies |-> NoFile]
  /\ up = [p \in Proxies |-> <<>>]
  /\ upOpen = [p \in Proxies |-> FALSE]
  /\ asked = [p \in Proxies |-> {}]
  /\ down = [p \in Proxies |-> <<>>]

Connected(p) == conn[p] \in {"backlog", "served", "deaf"}

Put(f, p, v) == [f EXCEPT ![p] = v]

-----------------------------------------------------------------------------
(* The host.                                                                *)

HostWrites(p) ==
  /\ p \notin Probes
  /\ open[p] /\ proxy[p] \notin {"new", "ended"} /\ sent[p] < Limit
  /\ sent' = Put(sent, p, sent[p] + 1)
  /\ \/ stdin' = Put(stdin, p, Append(stdin[p], sent[p] + 1)) /\ UNCHANGED garbled
     \/ stdin' = Put(stdin, p, Append(stdin[p], Bad)) /\ garbled' = Put(garbled, p, TRUE)
  /\ UNCHANGED <<socketVars, open, stdout, proxy, connVars, up, upOpen, asked, down>>

HostCloses(p) ==
  /\ p \notin Probes
  /\ open[p] /\ proxy[p] # "new"
  /\ open' = Put(open, p, FALSE)
  /\ UNCHANGED <<socketVars, sent, garbled, stdin, stdout, proxy, connVars, up, upOpen, asked, down>>

-----------------------------------------------------------------------------
(* The proxies.                                                             *)

(* A path whose daemon was killed, or no path at all, refuses.              *)
Connect(p) ==
  /\ proxy[p] = "new"
  /\ Cardinality({q \in Proxies : proxy[q] # "new"}) < Hosts
  /\ IF path # NoFile /\ daemon[path] \in {"listening", "leaving"}
     THEN /\ proxy' = Put(proxy, p, "copying")
          /\ conn' = Put(conn, p, "backlog")
          /\ server' = Put(server, p, path)
          /\ upOpen' = Put(upOpen, p, TRUE)
     ELSE /\ proxy' = Put(proxy, p, "ended")
          /\ UNCHANGED <<connVars, upOpen>>
  /\ UNCHANGED <<socketVars, hostVars, stdin, stdout, up, asked, down>>

(* run_proxy returns and its socket is closed.                              *)
Returns(p) ==
  /\ proxy' = Put(proxy, p, "returned")
  /\ upOpen' = Put(upOpen, p, FALSE)

(* health_check succeeded, and does not look at what comes back.            *)
ProbeLeaves(p) ==
  /\ p \in Probes /\ proxy[p] = "copying"
  /\ proxy' = Put(proxy, p, "ended")
  /\ upOpen' = Put(upOpen, p, FALSE)
  /\ UNCHANGED <<socketVars, hostVars, stdin, stdout, connVars, up, asked, down>>

(* One message or one buffer from stdin to the socket.  The codec stops at  *)
(* a line it cannot decode; a write to a closed connection fails.           *)
ToMux(p) ==
  /\ proxy[p] = "copying" \/ (p \in Bytes /\ proxy[p] = "drained")
  /\ stdin[p] # <<>>
  /\ stdin' = Put(stdin, p, Tail(stdin[p]))
  /\ IF Connected(p) /\ (p \in Bytes \/ Head(stdin[p]) # Bad)
     THEN /\ up' = Put(up, p, Append(up[p], Head(stdin[p])))
          /\ UNCHANGED <<proxy, upOpen>>
     ELSE /\ Returns(p)
          /\ UNCHANGED up
  /\ UNCHANGED <<socketVars, hostVars, stdout, connVars, asked, down>>

Continues(p, q) ==
  /\ proxy' = Put(proxy, p, q)
  /\ upOpen' = Put(upOpen, p, q = "drained")

(* Mutant: the end of stdin ends the byte proxy as it does the framed one.  *)
StdinEnds_EndsBoth(p) ==
  /\ ~open[p] /\ stdin[p] = <<>>
  /\ proxy[p] \in {"copying", "drained"}
  /\ Returns(p)
  /\ UNCHANGED <<socketVars, hostVars, stdin, stdout, connVars, up, asked, down>>

(* Mutant: the byte proxy does not pass the end of stdin on.                *)
StdinEnds_NoShutdown(p) ==
  /\ ~open[p] /\ stdin[p] = <<>>
  /\ proxy[p] \in {"copying", "drained"}
  /\ IF p \in Bytes /\ proxy[p] = "copying"
     THEN proxy' = Put(proxy, p, "copied") /\ UNCHANGED upOpen
     ELSE Returns(p)
  /\ UNCHANGED <<socketVars, hostVars, stdin, stdout, connVars, up, asked, down>>

(* select! drops the other direction; try_join! waits for it.               *)
StdinEnds(p) ==
  /\ ~open[p] /\ stdin[p] = <<>>
  /\ proxy[p] \in {"copying", "drained"}
  /\ IF p \in Bytes /\ proxy[p] = "copying" THEN Continues(p, "copied") ELSE Returns(p)
  /\ UNCHANGED <<socketVars, hostVars, stdin, stdout, connVars, up, asked, down>>

(* Mutant: one direction after the other.                                   *)
ToStdout_AfterStdin(p) ==
  /\ p \notin Probes /\ proxy[p] \in {"copying", "copied"}
  /\ ~open[p] /\ stdin[p] = <<>> /\ down[p] # <<>>
  /\ stdout' = Put(stdout, p, stdout[p] \cup {Head(down[p])})
  /\ down' = Put(down, p, Tail(down[p]))
  /\ UNCHANGED <<socketVars, hostVars, stdin, proxy, connVars, up, upOpen, asked>>

ToStdout(p) ==
  /\ p \notin Probes /\ proxy[p] \in {"copying", "copied"}
  /\ down[p] # <<>>
  /\ stdout' = Put(stdout, p, stdout[p] \cup {Head(down[p])})
  /\ down' = Put(down, p, Tail(down[p]))
  /\ UNCHANGED <<socketVars, hostVars, stdin, proxy, connVars, up, upOpen, asked>>

(* Mutant: the framed proxy waits for both directions too.                  *)
SocketEnds_WaitsForBoth(p) ==
  /\ conn[p] \in {"closed", "reset"} /\ down[p] = <<>>
  /\ p \notin Probes /\ proxy[p] \in {"copying", "copied"}
  /\ IF proxy[p] = "copying" THEN Continues(p, "drained") ELSE Returns(p)
  /\ UNCHANGED <<socketVars, hostVars, stdin, stdout, connVars, up, asked, down>>

(* After the answers that were still in it, the socket ends.  try_join!     *)
(* gives up on an error, and otherwise waits for the end of stdin.          *)
SocketEnds(p) ==
  /\ conn[p] \in {"closed", "reset"} /\ down[p] = <<>>
  /\ p \notin Probes /\ proxy[p] \in {"copying", "copied"}
  /\ IF p \in Bytes /\ proxy[p] = "copying" /\ conn[p] = "closed"
     THEN Continues(p, "drained")
     ELSE Returns(p)
  /\ UNCHANGED <<socketVars, hostVars, stdin, stdout, connVars, up, asked, down>>

(* The process waits for a read of stdin that is under way, and swallows    *)
(* what it reads.                                                           *)
ProcessEnds(p) ==
  /\ proxy[p] = "returned"
  /\ stdin[p] # <<>> \/ ~open[p]
  /\ proxy' = Put(proxy, p, "ended")
  /\ stdin' = Put(stdin, p, <<>>)
  /\ UNCHANGED <<socketVars, hostVars, stdout, connVars, up, upOpen, asked, down>>

-----------------------------------------------------------------------------
(* The daemon's end of a connection.                                        *)

Accept(p) ==
  /\ conn[p] = "backlog" /\ daemon[server[p]] = "listening"
  /\ conn' = Put(conn, p, "served")
  /\ UNCHANGED <<socketVars, hostVars, stdin, stdout, proxy, server, up, upOpen, asked, down>>

(* Mutant: what does not decode is handed on as a request.                  *)
MuxReads_AnyFrame(p) ==
  /\ conn[p] = "served" /\ up[p] # <<>>
  /\ up' = Put(up, p, Tail(up[p]))
  /\ asked' = Put(asked, p, asked[p] \cup {Head(up[p])})
  /\ UNCHANGED <<socketVars, hostVars, stdin, stdout, proxy, connVars, upOpen, down>>

(* Mutant: one request at a time per client.                                *)
MuxReads_OneSlot(p) ==
  /\ conn[p] = "served" /\ up[p] # <<>>
  /\ up' = Put(up, p, Tail(up[p]))
  /\ IF Head(up[p]) = Bad
     THEN conn' = Put(conn, p, "deaf") /\ UNCHANGED asked
     ELSE asked' = Put(asked, p, {Head(up[p])}) /\ UNCHANGED conn
  /\ UNCHANGED <<socketVars, hostVars, stdin, stdout, proxy, server, upOpen, down>>

(* A frame that does not decode ends handle_client at the `?`.              *)
MuxReads(p) ==
  /\ conn[p] = "served" /\ up[p] # <<>>
  /\ up' = Put(up, p, Tail(up[p]))
  /\ IF Head(up[p]) = Bad
     THEN conn' = Put(conn, p, "deaf") /\ UNCHANGED asked
     ELSE asked' = Put(asked, p, asked[p] \cup {Head(up[p])}) /\ UNCHANGED conn
  /\ UNCHANGED <<socketVars, hostVars, stdin, stdout, proxy, server, upOpen, down>>

Gone(p) == proxy[p] \in {"returned", "ended"}

AfterClose(p) == IF conn[p] = "backlog" \/ up[p] # <<>> THEN "reset" ELSE "closed"

Closes(P) ==
  /\ conn' = [p \in Proxies |-> IF p \in P /\ Connected(p) THEN AfterClose(p) ELSE conn[p]]
  /\ asked' = [p \in Proxies |-> IF p \in P THEN {} ELSE asked[p]]

(* Mutant: the end of the stream leaves the writer behind, and the client.  *)
MuxSeesEnd_Stays(p) ==
  /\ conn[p] = "served" /\ up[p] = <<>> /\ ~upOpen[p]
  /\ conn' = Put(conn, p, "deaf") /\ UNCHANGED asked
  /\ UNCHANGED <<socketVars, hostVars, stdin, stdout, proxy, server, up, upOpen, down>>

(* End of file unregisters the client and aborts its writer.  A peer that   *)
(* closed with answers unread resets the connection: a read error, and the  *)
(* writer stays.                                                            *)
MuxSeesEnd(p) ==
  /\ conn[p] = "served" /\ up[p] = <<>> /\ ~upOpen[p]
  /\ IF Gone(p) /\ down[p] # <<>>
     THEN conn' = Put(conn, p, "deaf") /\ UNCHANGED asked
     ELSE Closes({p})
  /\ UNCHANGED <<socketVars, hostVars, stdin, stdout, proxy, server, up, upOpen, down>>

(* Mutant: the entry stays, for the timeout to answer it again.             *)
MuxAnswers_Twice(p) ==
  \E r \in asked[p] :
    /\ conn[p] \in {"served", "deaf"} /\ ~Gone(p) /\ Len(down[p]) < 2
    /\ down' = Put(down, p, Append(down[p], r))
    /\ UNCHANGED <<socketVars, hostVars, stdin, stdout, proxy, connVars, up, upOpen, asked>>

(* By a child or by the timeout.  Nobody takes it if the proxy is gone: the *)
(* write fails, and with no reader left the connection closes.              *)
MuxAnswers(p) ==
  \E r \in asked[p] :
    /\ conn[p] \in {"served", "deaf"}
    /\ IF ~Gone(p)
       THEN /\ asked' = Put(asked, p, asked[p] \ {r})
            /\ down' = Put(down, p, Append(down[p], r))
            /\ UNCHANGED conn
       ELSE /\ IF conn[p] = "deaf" THEN Closes({p})
               ELSE asked' = Put(asked, p, asked[p] \ {r}) /\ UNCHANGED conn
            /\ UNCHANGED down
    /\ UNCHANGED <<socketVars, hostVars, stdin, stdout, proxy, server, up, upOpen>>

(* The cancelled token ends the reader of a client.                         *)
MuxDisconnects(p) ==
  /\ conn[p] = "served" /\ daemon[server[p]] \in {"leaving", "joining"}
  /\ Closes({p})
  /\ UNCHANGED <<socketVars, hostVars, stdin, stdout, proxy, server, up, upOpen, down>>

(* Start, remove, bind: no connection is touched.  The end of the process   *)
(* closes the ones it has, accepted or not.                                 *)
DaemonStep(d) ==
  /\ SocketStep(d)
  /\ IF daemon'[d] \in Ended
     THEN Closes({p \in Proxies : server[p] = d})
     ELSE UNCHANGED <<conn, asked>>
  /\ UNCHANGED <<hostVars, stdin, stdout, proxy, server, up, upOpen, down>>

-----------------------------------------------------------------------------
ProxyStep(p) ==
  ProbeLeaves(p) \/ ToMux(p) \/ StdinEnds(p) \/ ToStdout(p) \/ SocketEnds(p) \/ ProcessEnds(p)

MuxStep(p) ==
  Accept(p) \/ MuxReads(p) \/ MuxSeesEnd(p) \/ MuxAnswers(p) \/ MuxDisconnects(p)

Next ==
  \/ \E d \in Daemons : DaemonStep(d)
  \/ \E p \in Proxies : HostWrites(p) \/ HostCloses(p) \/ Connect(p) \/ ProxyStep(p) \/ MuxStep(p)

Spec == Init /\ [][Next]_vars

(* The proxies and the tasks of a connection run on, requests are answered  *)
(* (see EveryRequestAnswered of Mux), and a daemon neither stays in its start   *)
(* nor in its shutdown.  No host has to write or to close.                  *)
Fairness ==
  /\ \A p \in Proxies : WF_vars(ProxyStep(p)) /\ WF_vars(MuxStep(p))
  /\ \A d \in Daemons : WF_vars(DaemonStep(d) /\ daemon[d] \in {"starting", "binding", "leaving", "joining"}
                                  /\ daemon'[d] # "crashed")

FairSpec == Spec /\ Fairness

-----------------------------------------------------------------------------
Lines == 1..Limit
Input == Seq(Lines \cup {Bad})
Output == Seq(Lines)

TypeOK ==
  /\ SocketTypeOK
  /\ sent \in [Proxies -> 0..Limit] /\ open \in [Proxies -> BOOLEAN]
  /\ garbled \in [Proxies -> BOOLEAN] /\ upOpen \in [Proxies -> BOOLEAN]
  /\ stdout \in [Proxies -> SUBSET Lines] /\ asked \in [Proxies -> SUBSET Lines]
  /\ proxy \in [Proxies -> {"new", "copying", "copied", "drained", "returned", "ended"}]
  /\ conn \in [Proxies -> {"none", "backlog", "served", "deaf", "closed", "reset"}]
  /\ server \in [Proxies -> Daemons \cup {NoFile}]
  /\ stdin \in [Proxies -> Input] /\ up \in [Proxies -> Input]
  /\ down \in [Proxies -> Output]

Gives(p, r) == \E i \in 1..Len(down[p]) : down[p][i] = r

Read(p) == asked[p] \cup Range(down[p]) \cup stdout[p]
Unread(p) == Range(up[p]) \cup Range(stdin[p])

Before(x, y) == x # Bad /\ y # Bad => x < y
Precedes(X, Y) == \A x \in X, y \in Y : Before(x, y)
Ordered(s) == \A i, j \in DOMAIN s : i < j => Before(s[i], s[j])

(* Whatever the proxy is, the daemon gets a host's lines in their order and  *)
(* each at most once, and however the answers overtake each other, the host  *)
(* gets at most one for each.                                                *)
EachOnce == \A p \in Proxies :
  /\ Ordered(stdin[p]) /\ Ordered(up[p]) /\ Precedes(Range(up[p]), Range(stdin[p]))
  /\ Precedes(Read(p), Unread(p))
  /\ IsInjective(down[p])
  /\ \A r \in Read(p) : \/ r \in asked[p] \ (Range(down[p]) \cup stdout[p])
                         \/ r \in Range(down[p]) \ (asked[p] \cup stdout[p])
                         \/ r \in stdout[p] \ (asked[p] \cup Range(down[p]))

(* As long as proxy and connection are there, and only messages went through *)
(* them, every line the host wrote is somewhere between it and its answer.   *)
NoLineLost == \A p \in Proxies :
  Connected(p) /\ ~Gone(p) /\ ~garbled[p] => 1..sent[p] \subseteq Read(p) \cup Unread(p)

(* A byte proxy whose host closed stdin leaves with every answer delivered.  *)
LeavesNothing ==
  [][\A p \in Bytes :
       ~open[p] /\ stdin[p] = <<>> /\ ~Gone(p) /\ Gone(p)' => down[p] = <<>>]_vars

(* A host's request is answered on its proxy's stdout, as long as the host   *)
(* keeps stdin open, sends only messages, and the daemon stays.              *)
Answered == \A p \in Framed \cup Bytes : \A r \in Lines :
  (proxy[p] = "copying" /\ sent[p] = r /\ ~garbled[p])
    ~> (r \in stdout[p] \/ garbled[p] \/ ~open[p] \/ conn[p] \in {"closed", "reset"})

(* A host that has written everything and closed stdin still gets every      *)
(* answer the daemon wrote, if its proxy is the byte proxy.                  *)
AnswersFlushed == \A p \in Bytes : \A r \in Lines :
  (~open[p] /\ stdin[p] = <<>> /\ ~Gone(p) /\ Gives(p, r)) ~> r \in stdout[p]

(* A proxy whose host closed stdin ends, the byte proxy because the daemon   *)
(* closes the connection in turn; unless a line that does not decode went    *)
(* through it, after which the daemon does not read, and so does not see     *)
(* the end.                                                                  *)
ProxyEnds == \A p \in Framed \cup Bytes :
  (proxy[p] # "new" /\ ~open[p] /\ ~(p \in Bytes /\ garbled[p])) ~> proxy[p] = "ended"

(* The framed proxy lets go of a connection that the daemon closed, although *)
(* the host keeps stdin open.                                                *)
FramedReturns == \A p \in Framed : conn[p] \in {"closed", "reset"} ~> Gone(p)

(* The daemon is left with no connection of a proxy that is gone, if that    *)
(* one had read its answers and sent only messages.                          *)
ConnectionEnds == \A p \in Proxies :
  (Gone(p) /\ ~garbled[p]) ~> (~Connected(p) \/ down[p] # <<>>)
=============================================================================
