---------------------------- MODULE ServerRouter ----------------------------
(***************************************************************************)
(* handle_server_events with handle_server_message and reset_state, and    *)
(* reap_timeouts: the two tasks that take requests out of `pending`.       *)
(*                                                                         *)
(* Both release the mutex between taking an entry out and answering it, so *)
(* an entry in their hands is state of its own: `held` by the router,      *)
(* `expired` by the reaper.  A broadcast of a notification of the child    *)
(* changes none of the state modelled here and is left out, as is a        *)
(* response whose id the mux cannot read.                                  *)
(***************************************************************************)
EXTENDS MuxState

VARIABLES
  held,      \* Option: the entry the router took out, the response, its child
  expired    \* the entries the reaper took out

routerVars == <<held, expired>>

RouterInit == held = {} /\ expired = {}

(* The entries a response with the id of m takes out of `pending`.          *)
Matches(m) == {p \in pending : GlobalId(p) = GlobalId(m)}

(* Mutant: the entry is looked up and stays in the table.                   *)
RouteResponse_KeepsPending ==
  /\ Running /\ LockFree
  /\ held = {}
  /\ events # <<>> /\ Head(events).type = "response"
  /\ \E m \in Head(events).msg :
       held' = {[entry |-> p, msg |-> m, child |-> Head(events).child,
                 stage |-> "lookup"] : p \in Matches(m)}
  /\ events' = Tail(events)
  /\ UNCHANGED <<expired, muxVars, queueVars, replies, mainVars>>

(* First critical section: remove the entry.                                *)
RouteResponse ==
  /\ Running /\ LockFree
  /\ held = {}
  /\ events # <<>> /\ Head(events).type = "response"
  /\ \E m \in Head(events).msg :
       /\ pending' = pending \ Matches(m)
       /\ held' = {[entry |-> p, msg |-> m, child |-> Head(events).child,
                    stage |-> "lookup"] : p \in Matches(m)}
  /\ events' = Tail(events)
  /\ UNCHANGED <<expired, clients, init_waiting, next_global_id, initVars, statusVars,
                 lock, queueVars, replies, mainVars>>

(* Second: find the client's channel and answer with the local id.  The     *)
(* answer of a client that has left is dropped, and nothing is cached.      *)
DeliverResponse ==
  /\ Running /\ LockFree
  /\ \E h \in held :
       /\ h.stage = "lookup"
       /\ SendReplies({<<h.entry.client, h.entry.lid>>})
       /\ held' = IF h.entry.client \in clients /\ h.entry.is_initialize
                  THEN {[h EXCEPT !.stage = "cache"]} ELSE {}
  /\ UNCHANGED <<expired, muxVars, queueVars, events, mainVars>>

(* Mutant: the client that asked is served with those that waited.          *)
CacheInitialize_ServesTwice ==
  /\ Running /\ LockFree
  /\ \E h \in held :
       /\ h.stage = "cache"
       /\ cached_initialize' = {h.child}
       /\ SendReplies(init_waiting \cup {<<h.entry.client, h.entry.lid>>})
  /\ initializing' = FALSE
  /\ init_waiting' = {}
  /\ held' = {}
  /\ UNCHANGED <<expired, clients, pending, next_global_id, statusVars, lock,
                 queueVars, events, mainVars>>

(* Third: cache the response, answer the clients that waited for it.        *)
CacheInitialize ==
  /\ Running /\ LockFree
  /\ \E h \in held :
       /\ h.stage = "cache"
       /\ cached_initialize' = {h.child}
  /\ initializing' = FALSE
  /\ SendReplies(init_waiting)
  /\ init_waiting' = {}
  /\ held' = {}
  /\ UNCHANGED <<expired, clients, pending, next_global_id, statusVars, lock,
                 queueVars, events, mainVars>>

HandleReset ==
  /\ Running /\ LockFree
  /\ held = {}
  /\ events # <<>> /\ Head(events).type = "reset"
  /\ ResetState
  /\ events' = Tail(events)
  /\ UNCHANGED <<held, expired, clients, next_global_id, server_status, restarts, lock,
                 queueVars, mainVars>>

RouterNext == RouteResponse \/ DeliverResponse \/ CacheInitialize \/ HandleReset

-----------------------------------------------------------------------------
(* Mutant: the expired entries are dropped without being noted.             *)
ReapExpired_Forgets(k) ==
  /\ Running /\ LockFree
  /\ expired = {}
  /\ \E p \in pending : p.seq = k
  /\ pending' = {p \in pending : p.seq > k}
  /\ UNCHANGED <<held, expired, clients, init_waiting, next_global_id, initVars, statusVars,
                 lock, queueVars, events, replies, mainVars>>

(* A tick of the reaper finds expired every request issued up to the one    *)
(* numbered k: started_at is taken under the lock that numbers them.        *)
ReapExpired(k) ==
  /\ Running /\ LockFree
  /\ expired = {}
  /\ \E p \in pending : p.seq = k
  /\ expired' = {p \in pending : p.seq <= k}
  /\ pending' = pending \ expired'
  /\ UNCHANGED <<held, clients, init_waiting, next_global_id, initVars, statusVars, lock,
                 queueVars, events, replies, mainVars>>

(* "request timeout", in a critical section of its own.                     *)
SendTimeouts ==
  /\ Running /\ LockFree
  /\ expired # {}
  /\ SendReplies(Requests(expired))
  /\ expired' = {}
  /\ UNCHANGED <<held, muxVars, queueVars, events, mainVars>>

ReaperNext == (\E p \in pending : ReapExpired(p.seq)) \/ SendTimeouts
=============================================================================
