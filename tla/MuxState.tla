------------------------------ MODULE MuxState ------------------------------
(***************************************************************************)
(* The state every task of the daemon shares: struct MuxState of state.rs  *)
(* behind one tokio Mutex, the bounded channel to the child, the unbounded *)
(* channel of server events, and the answers each client has been sent.    *)
(*                                                                         *)
(* Conventions.  A section between lock() and the drop of the guard is one *)
(* step.  An Option is a set of at most one element.  A connection and its *)
(* client_id are one thing: register_client never reuses an id, so a       *)
(* reconnecting peer is another member of Clients.  A JSON-RPC message is  *)
(* the record of what routing looks at.  The n-th request a client sends   *)
(* has local id n.                                                         *)
(***************************************************************************)
EXTENDS Naturals, FiniteSets, Sequences

CONSTANTS
  Clients,           \* connections, one client_id each
  MaxActiveClients,  \* permits of the semaphore (--max-active-clients)
  MAX_QUEUE,         \* capacity of the channel to the child
  MAX_PENDING,       \* limit on pending requests
  MaxRestarts,       \* --max-restarts, 0 = unlimited
  LazyStart,         \* --lazy-start
  Kinds,             \* kinds of message the clients of this instance send
  Env,               \* faults of the environment this instance explores
  MaxMsgs,           \* bound: requests per client
  MaxSpawns,         \* bound: children spawned
  MaxEvents          \* bound: unread server events before the child pauses

AllKinds == {"request", "initialize", "notification", "oversized"}

AllFaults == {"shutdown", "client_write_error", "decode_error", "spawn_error",
              "child_write_error", "wait_error", "reader_error"}

ASSUME ConstantsAssumption ==
  /\ IsFiniteSet(Clients)
  /\ MaxActiveClients \in Nat
  /\ MAX_QUEUE \in Nat \ {0}
  /\ MAX_PENDING \in Nat \ {0}
  /\ MaxRestarts \in Nat
  /\ LazyStart \in BOOLEAN
  /\ Kinds \subseteq AllKinds
  /\ Env \subseteq AllFaults
  /\ MaxMsgs \in Nat
  /\ MaxSpawns \in Nat \ {0}
  /\ MaxEvents \in Nat \ {0}

VARIABLES
  clients,            \* keys of MuxState.clients
  pending,            \* MuxState.pending
  next_global_id,
  cached_initialize,  \* Option: the child whose answer is cached
  init_waiting,       \* as a set: no two waiters share a client and a local id
  initializing,
  server_status,
  restarts,
  child_pid,          \* Option: the child whose pid is reported
  lock,               \* who holds the mutex between steps
  queue,              \* mpsc::channel(MAX_QUEUE) to the child
  queue_open,         \* its receiver exists: server_manager has not returned
  events,             \* mpsc::unbounded_channel of ServerEvent
  replies,            \* answers put in each client's channel, per local id
  shutdown,           \* the CancellationToken
  main                \* run_mux: "running" or "exited"

-----------------------------------------------------------------------------
Lids == 1..MaxMsgs
Children == 1..MaxSpawns

(* A request that has a global id: the entry in `pending` and the message   *)
(* that travels to the child, which share these fields.                     *)
Entry == [seq : Nat \ {0}, client : Clients, lid : Lids,
          is_initialize : BOOLEAN]

Notification(c) == [seq |-> 0, client |-> c, lid |-> 0, is_initialize |-> FALSE]

Message == Entry \cup {Notification(c) : c \in Clients}

(* Mutant: the ids are forwarded as the clients chose them.                 *)
GlobalId_NotRewritten(m) == m.lid

(* The rewritten id "c<client>:<seq>".                                      *)
GlobalId(m) == <<m.client, m.seq>>

Response(k, m) == [type |-> "response", child |-> k, msg |-> {m}]
Reset(k)       == [type |-> "reset", child |-> k, msg |-> {}]

ServerEvent == [type : {"response", "reset"}, child : Children, msg : SUBSET Entry]

Statuses == {"Starting", "Running", "Restarting", "Failed", "Stopped"}

(* A task runs until run_mux returns and the runtime drops it; it enters a  *)
(* critical section when no other task sits in one.                         *)
Running == main = "running"
LockFree == lock = "free"

MuxStateInit ==
  /\ clients = {}
  /\ pending = {}
  /\ next_global_id = 1
  /\ cached_initialize = {}
  /\ init_waiting = {}
  /\ initializing = FALSE
  /\ server_status = "Starting"
  /\ restarts = 0
  /\ child_pid = {}
  /\ lock = "free"

ChannelsInit ==
  /\ queue = <<>>
  /\ queue_open = TRUE
  /\ events = <<>>
  /\ replies = [c \in Clients |-> [n \in Lids |-> 0]]
  /\ shutdown = FALSE
  /\ main = "running"

-----------------------------------------------------------------------------
(* Answers for the requests R, each <<client, local id>>, go into the       *)
(* channels of the clients that are still registered; the others' are lost. *)
SendReplies(R) ==
  replies' = [c \in Clients |-> [n \in Lids |->
                replies[c][n] + IF c \in clients /\ <<c, n>> \in R THEN 1 ELSE 0]]

Requests(S) == {<<p.client, p.lid>> : p \in S}

RegisterClient(c) == clients' = clients \cup {c}

(* Mutant: pending requests are left to the reaper.                         *)
UnregisterClient_KeepsPending(c) ==
  /\ clients' = clients \ {c}
  /\ init_waiting' = {w \in init_waiting : w[1] # c}
  /\ UNCHANGED pending

UnregisterClient(c) ==
  /\ clients' = clients \ {c}
  /\ pending' = {p \in pending : p.client # c}
  /\ init_waiting' = {w \in init_waiting : w[1] # c}

NextRequestId == next_global_id' = next_global_id + 1

InsertPending(p) ==
  pending' = {q \in pending : GlobalId(q) # GlobalId(p)} \cup {p}

(* Mutants: the cache survives a reset; the errors are not sent.            *)
ResetState_KeepsCache ==
  /\ pending' = {}
  /\ init_waiting' = {}
  /\ initializing' = FALSE
  /\ child_pid' = {}
  /\ SendReplies(Requests(pending) \cup init_waiting)
  /\ UNCHANGED cached_initialize

ResetState_Silent ==
  /\ pending' = {}
  /\ init_waiting' = {}
  /\ cached_initialize' = {}
  /\ initializing' = FALSE
  /\ child_pid' = {}
  /\ UNCHANGED replies

(* reset_state: every pending request and every waiting initialize is       *)
(* answered with an error, and nothing learnt from the child is kept.       *)
ResetState ==
  /\ pending' = {}
  /\ init_waiting' = {}
  /\ cached_initialize' = {}
  /\ initializing' = FALSE
  /\ child_pid' = {}
  /\ SendReplies(Requests(pending) \cup init_waiting)

-----------------------------------------------------------------------------
tableVars  == <<clients, pending, init_waiting>>
initVars   == <<cached_initialize, initializing>>
statusVars == <<server_status, restarts, child_pid>>
queueVars  == <<queue, queue_open>>
mainVars   == <<shutdown, main>>
muxVars    == <<tableVars, next_global_id, initVars, statusVars, lock>>
=============================================================================
