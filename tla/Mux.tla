-------------------------------- MODULE Mux --------------------------------
(***************************************************************************)
(* run_mux: the client handlers, the router, the reaper and the server     *)
(* manager over the state they share, and what they promise together.      *)
(***************************************************************************)
EXTENDS ClientHandler, ServerRouter, ServerManager, Functions

vars == <<handlerVars, routerVars, managerVars, muxVars, queueVars, events, replies, mainVars>>

Init ==
  /\ MuxStateInit /\ ChannelsInit
  /\ HandlerInit /\ RouterInit /\ ManagerInit

(* Ctrl+C, or "Quit mux" in the tray menu.                                  *)
Shutdown ==
  /\ "shutdown" \in Env
  /\ ~shutdown
  /\ shutdown' = TRUE
  /\ UNCHANGED <<main, handlerVars, routerVars, managerVars, muxVars, queueVars, events, replies>>

(* The accept loop ends and run_mux returns without waiting for the tasks   *)
(* it spawned; the runtime drops them where they are.                       *)
MainExit ==
  /\ Running
  /\ shutdown
  /\ main' = "exited"
  /\ UNCHANGED <<shutdown, handlerVars, routerVars, managerVars, muxVars, queueVars, events, replies>>

ClientStep(c) == ClientNext(c) /\ UNCHANGED <<routerVars, managerVars>>
RouterStep == RouterNext /\ UNCHANGED <<handlerVars, managerVars>>
ReaperStep == ReaperNext /\ UNCHANGED <<handlerVars, managerVars>>
ManagerStep == ManagerNext /\ UNCHANGED <<handlerVars, routerVars>>
ChildStep(k) == ChildNext(k) /\ UNCHANGED <<handlerVars, routerVars>>

Next ==
  \/ \E c \in Clients : ClientStep(c)
  \/ RouterStep
  \/ ReaperStep
  \/ ManagerStep
  \/ \E k \in Children : ChildStep(k)
  \/ Shutdown
  \/ MainExit

Spec == Init /\ [][Next]_vars

-----------------------------------------------------------------------------
(* Fairness.  Every task is a tokio task that is polled again when it can    *)
(* go on.  The semaphore and the channel serve those waiting in FIFO order,  *)
(* hence SF where another task can take the slot away.  Peers need not send, *)
(* children need not answer, but a child reads its stdin until it dies.      *)
HandlerFairness == \A c \in Clients :
  /\ SF_vars(AcquirePermit(c) /\ UNCHANGED <<routerVars, managerVars>>)
  /\ SF_vars(EnqueueOutgoing(c) /\ UNCHANGED <<routerVars, managerVars>>)
  /\ WF_vars((Register(c) \/ ChannelClosed(c) \/ FinishClose(c))
               /\ UNCHANGED <<routerVars, managerVars>>)

ServerFairness ==
  /\ WF_vars(RouterStep)
  /\ WF_vars(ManagerStep)
  /\ \A k \in Children : WF_vars(ReaderEnds(k) /\ UNCHANGED <<handlerVars, routerVars>>)

(* The reaper finishes a tick it began ...                                   *)
SendFairness == WF_vars(SendTimeouts /\ UNCHANGED <<handlerVars, managerVars>>)

(* ... but its clock may stand still: what holds here does not rest on the   *)
(* request timeout.                                                          *)
UntimedSpec == Spec /\ HandlerFairness /\ ServerFairness /\ SendFairness

(* ... and here every pending request gets old enough in the end.            *)
ReaperFairness == WF_vars(ReaperStep)

FairSpec == UntimedSpec /\ ReaperFairness

-----------------------------------------------------------------------------
(* Type invariant of the whole daemon.                                       *)

Held == [entry : Entry, msg : Entry, child : Children, stage : {"lookup", "cache"}]

ConnStates == {"none", "accepted", "admitted", "reading", "sending",
               "closing", "closed", "aborted"}

(* The manager has a child from its launch to its cleanup.                   *)
WithChild == {"first", "serving", "writing", "cleanup", "clear"}

MgrStates == {"top", "ready", "first", "serving", "writing", "cleanup",
              "clear", "backoff", "wedged", "done"}

MuxStateTypeOK ==
  /\ clients \subseteq Clients
  /\ pending \subseteq Entry
  /\ next_global_id \in Nat \ {0}
  /\ cached_initialize \subseteq Children
  /\ init_waiting \subseteq Clients \X Lids
  /\ initializing \in BOOLEAN
  /\ server_status \in Statuses
  /\ restarts \in Nat
  /\ child_pid \subseteq Children
  /\ lock \in {"free", "server_manager"}

ChannelsTypeOK ==
  /\ queue \in Seq(Message)
  /\ queue_open \in BOOLEAN
  /\ events \in Seq(ServerEvent)
  /\ replies \in [Clients -> [Lids -> Nat]]
  /\ shutdown \in BOOLEAN
  /\ main \in {"running", "exited"}

HandlerTypeOK ==
  /\ conn \in [Clients -> ConnStates]
  /\ writer \in [Clients -> {"off", "running", "done"}]
  /\ sent \in [Clients -> 0..MaxMsgs]
  /\ outgoing \in [Clients -> SUBSET Entry]

RouterTypeOK == held \subseteq Held /\ expired \subseteq Entry

ManagerTypeOK ==
  /\ mgr \in MgrStates
  /\ gen \in 0..MaxSpawns
  /\ mgr \in WithChild => gen > 0
  /\ in_hand \subseteq Message
  /\ proc \in [Children -> {"unborn", "alive", "dead"}]
  /\ reader \in [Children -> {"off", "running", "aborting", "stopped"}]
  /\ written \in [Children -> SUBSET Message]

TypeOK ==
  /\ MuxStateTypeOK /\ ChannelsTypeOK /\ HandlerTypeOK /\ RouterTypeOK /\ ManagerTypeOK

-----------------------------------------------------------------------------
(* Routing.                                                                  *)

ResetQueued(k) == Reset(k) \in Range(events)

(* The child the manager still serves, or whose death the router will hear  *)
(* of.                                                                       *)
Attached(k) == k = gen /\ mgr \in {"first", "serving", "writing", "cleanup"}
Accounted(k) == Attached(k) \/ ResetQueued(k)

(* A response reaches the request it answers: the entry the router took out  *)
(* by id is the one whose message the child read, whatever was issued,       *)
(* dropped, reaped or reset in between.                                      *)
DemuxCorrect == \A h \in held : h.entry = h.msg

(* No request hangs on a child that is gone: one that a child has read and   *)
(* that is still pending belongs to the child being served, or to one whose  *)
(* Reset is on its way to the router.                                        *)
DeadChildSilent == \A k \in Children : \A m \in written[k] \cap pending : Accounted(k)

(* The initialize response in the cache is of the child being served, or of  *)
(* one whose Reset, which clears it, is on its way: late responses and the   *)
(* router's three critical sections never leave a stale one behind.          *)
CacheFromLiveChild == \A k \in cached_initialize : Accounted(k)

(* A pending request is on its way to a child, or read by one that is        *)
(* accounted for.                                                            *)
OnItsWay(m) ==
  \/ \E c \in Clients : m \in outgoing[c]
  \/ m \in Range(queue) \cup in_hand
  \/ \E k \in Children : m \in written[k] /\ Accounted(k)

Stranded == {m \in pending : ~OnItsWay(m)}

ResetComing == mgr = "cleanup" \/ \E k \in Children : ResetQueued(k)

(* No pending request is forgotten: whatever breaks between its handler and  *)
(* the child, either it goes on or a Reset is coming that answers it.  Only  *)
(* the timeout is left to answer what was queued when the manager returned,  *)
(* and the one message of a lazy start whose write to the new child failed.  *)
NoneStranded ==
  Stranded # {} =>
    \/ ResetComing
    \/ mgr = "done"
    \/ /\ LazyStart /\ gen = 1 /\ mgr \in {"serving", "writing"}
       /\ \E m \in Stranded : Stranded = {m}

(* Every request of a registered client has exactly one fate: it has been    *)
(* answered once, or one task still owes the answer.  Nothing is lost and    *)
(* nothing is answered twice between the critical sections of the router,    *)
(* the reaper, a reset and the handlers.                                     *)
Owing(c, n) ==
  LET Mine(S) == {p \in S : p.client = c /\ p.lid = n}
  IN Cardinality(Mine(pending)) + Cardinality(Mine(expired))
       + Cardinality(Mine({h.entry : h \in {x \in held : x.stage = "lookup"}}))
       + Cardinality(init_waiting \cap {<<c, n>>})

OneFate ==
  \A c \in clients : \A n \in 1..sent[c] : replies[c][n] + Owing(c, n) = 1

(* The children read each client's requests in the order it sent them, and   *)
(* each request at most once: no restart replays what was written.  Neither  *)
(* does the manager write, or try to, what the same child has read.          *)
OrderedAtMostOnce ==
  [][\A k \in Children : \A m \in (written'[k] \ written[k]) \cup (in_hand \ in_hand') :
       m.seq > 0 => \A j \in Children : \A x \in written[j] :
                      (x.seq > 0 /\ x.client = m.client) => x.lid < m.lid]_vars

-----------------------------------------------------------------------------
(* Refinement.  What is left when the tasks, tables and channels are hidden. *)

Standing == [c \in Clients |->
  IF c \in clients THEN "present"
  ELSE IF conn[c] \in {"none", "accepted", "admitted"} THEN "new" ELSE "gone"]

Executed == {<<m.client, m.lid>> : m \in {x \in UNION Range(written) : x.seq > 0}}

Ledger == INSTANCE RequestLedger WITH
  standing <- Standing, asked <- sent, answers <- replies, executed <- Executed

(* Every step of the daemon is one the ledger allows, or none: a request is  *)
(* answered at most once and to a client that is there, whoever answers it;  *)
(* children execute a client's requests in order and at most once, though a  *)
(* reset may have answered them before.                                      *)
ImplementsLedger == Ledger!Spec

-----------------------------------------------------------------------------
(* Limits and departure.                                                     *)

(* The table of pending requests stays within its limit however many        *)
(* handlers pass the check, and the queue within its capacity.               *)
TablesBounded == Cardinality(pending) <= MAX_PENDING /\ Len(queue) <= MAX_QUEUE

(* A registered client holds a permit, unless its reader returned on a       *)
(* decode error: leaving the loop unregisters before the permit is free.     *)
RegisteredHoldPermit ==
  /\ \A c \in clients : c \in HoldsPermit \/ conn[c] = "aborted"
  /\ Cardinality(HoldsPermit) <= MaxActiveClients

(* Once its handler has returned, nothing refers to a connection: no pending *)
(* entry to expire, no waiter to serve, no message still to enqueue.         *)
CleanClose == \A c \in Clients : conn[c] = "closed" =>
  /\ c \notin clients
  /\ writer[c] = "done"
  /\ outgoing[c] = {}
  /\ \A p \in pending : p.client # c
  /\ \A w \in init_waiting : w[1] # c

(* The status never reports the pid of a child other than the last one       *)
(* spawned, and none once the manager has given up or returned.              *)
PidIsCurrent ==
  /\ child_pid \subseteq {gen}
  /\ mgr \in {"wedged", "done"} => child_pid = {}

-----------------------------------------------------------------------------
(* Liveness.                                                                 *)

Asked(c, n) == c \in clients /\ n <= sent[c]
Answered(c, n) == replies[c][n] > 0 \/ c \notin clients

(* When the reaper's clock runs, every request is answered, by the child, by *)
(* an error or by the timeout, unless its client leaves.                     *)
EveryRequestAnswered ==
  ReaperFairness => \A c \in Clients : \A n \in Lids : Asked(c, n) ~> Answered(c, n)

(* "pending/waiting requests receive an error on reset": what a dead child   *)
(* had read is answered without waiting for the timeout.                     *)
CrashAnswered ==
  \A k \in Children : \A c \in Clients : \A n \in Lids :
    (proc[k] = "dead" /\ \E m \in written[k] \cap pending : <<m.client, m.lid>> = <<c, n>>)
      ~> Answered(c, n)

(* A handler blocked on a full queue gets on: the manager drains the queue   *)
(* across restarts, or returns and closes it.                                *)
SenderGetsOn == \A c \in Clients : conn[c] = "sending" ~> conn[c] # "sending"

-----------------------------------------------------------------------------
(* What the documentation says and the code does not do.                     *)

(* README: "`initialize` is executed once".                                  *)
InitializeOnce ==
  \A k \in Children : Cardinality({m \in written[k] : m.is_initialize}) <= 1

(* README: "One child process per service".                                  *)
OneChild == Cardinality({k \in Children : proc[k] = "alive"}) <= 1

(* --max-restarts: "Maximum restarts before marking server failed".          *)
RestartLimit == mgr = "wedged" => gen = MaxRestarts + 1

(* README: "If the child exits or write/read fails, the mux restarts it".    *)
ReadFailureRestarts ==
  \A k \in 1..MaxSpawns - 1 :
    (mgr = "serving" /\ gen = k /\ reader[k] = "stopped") ~> ~(mgr = "serving" /\ gen = k)
=============================================================================
