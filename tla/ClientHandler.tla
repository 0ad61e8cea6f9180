--------------------------- MODULE ClientHandler ---------------------------
(***************************************************************************)
(* handle_client and handle_client_message of runtime.rs: one reader task  *)
(* and one writer task per accepted connection, bounded by a semaphore.    *)
(*                                                                         *)
(* conn[c] is where the reader task is:                                    *)
(*   accepted  waiting for a permit        admitted  has it, not registered *)
(*   reading   in the select of its loop   sending   blocked in             *)
(*                                                    to_server_tx.send()   *)
(*   closing   unregistered, still holding the permit                      *)
(*   closed    returned                    aborted   returned through `?`   *)
(*                                                    on a decode error     *)
(***************************************************************************)
EXTENDS MuxState

VARIABLES
  conn,      \* state of the reader task
  writer,    \* state of the writer task
  sent,      \* requests the peer has sent so far: the last local id
  outgoing   \* Option: the message the reader is blocked sending

handlerVars == <<conn, writer, sent, outgoing>>

HandlerInit ==
  /\ conn = [c \in Clients |-> "none"]
  /\ writer = [c \in Clients |-> "off"]
  /\ sent = [c \in Clients |-> 0]
  /\ outgoing = [c \in Clients |-> {}]

HoldsPermit ==
  {c \in Clients : conn[c] \in {"admitted", "reading", "sending", "closing"}}

Goto(c, s) == conn' = [conn EXCEPT ![c] = s]

-----------------------------------------------------------------------------
(* Arrival: accept, permit, registration.                                   *)

Accept(c) ==
  /\ Running
  /\ conn[c] = "none"
  /\ Goto(c, "accepted")
  /\ UNCHANGED <<writer, sent, outgoing, muxVars, queueVars, events, replies, mainVars>>

(* Mutant: one permit too many.                                             *)
AcquirePermit_OffByOne(c) ==
  /\ Running
  /\ conn[c] = "accepted"
  /\ Cardinality(HoldsPermit) <= MaxActiveClients
  /\ Goto(c, "admitted")
  /\ UNCHANGED <<writer, sent, outgoing, muxVars, queueVars, events, replies, mainVars>>

AcquirePermit(c) ==
  /\ Running
  /\ conn[c] = "accepted"
  /\ Cardinality(HoldsPermit) < MaxActiveClients
  /\ Goto(c, "admitted")
  /\ UNCHANGED <<writer, sent, outgoing, muxVars, queueVars, events, replies, mainVars>>

Register(c) ==
  /\ Running /\ LockFree
  /\ conn[c] = "admitted"
  /\ RegisterClient(c)
  /\ writer' = [writer EXCEPT ![c] = "running"]
  /\ Goto(c, "reading")
  /\ UNCHANGED <<sent, outgoing, pending, init_waiting, next_global_id, initVars,
                 statusVars, lock, queueVars, events, replies, mainVars>>

-----------------------------------------------------------------------------
(* handle_client_message.  The peer's next request has local id n.          *)

Receives(c, kind) ==
  /\ Running /\ LockFree
  /\ conn[c] = "reading"
  /\ kind \in Kinds

NextRequest(c, n) ==
  /\ n = sent[c] + 1
  /\ n <= MaxMsgs
  /\ sent' = [sent EXCEPT ![c] = n]

(* The answer is put in the client's own channel while the lock is held.    *)
AnswerAtOnce(c, n) ==
  /\ SendReplies({<<c, n>>})
  /\ UNCHANGED <<conn, outgoing, pending, init_waiting, next_global_id>>

HandleOversized(c) == \E n \in Lids :
  /\ Receives(c, "oversized") /\ NextRequest(c, n)
  /\ AnswerAtOnce(c, n)
  /\ UNCHANGED <<writer, clients, initVars, statusVars, lock, queueVars, events, mainVars>>

(* try_send: a notification is dropped when the queue is full or closed.    *)
HandleNotification(c) ==
  /\ Receives(c, "notification")
  /\ queue' = IF queue_open /\ Len(queue) < MAX_QUEUE
              THEN Append(queue, Notification(c)) ELSE queue
  /\ UNCHANGED <<handlerVars, muxVars, queue_open, events, replies, mainVars>>

(* Mutant: the limit itself is let in.                                      *)
Overloaded_OffByOne == Cardinality(pending) > MAX_PENDING

Overloaded == Cardinality(pending) >= MAX_PENDING

(* A request that is not answered here becomes pending before it is queued. *)
Forward(c, n, is_initialize) ==
  IF Overloaded
  THEN AnswerAtOnce(c, n)
  ELSE LET p == [seq |-> next_global_id, client |-> c, lid |-> n,
                 is_initialize |-> is_initialize]
       IN /\ NextRequestId
          /\ InsertPending(p)
          /\ outgoing' = [outgoing EXCEPT ![c] = {p}]
          /\ Goto(c, "sending")
          /\ UNCHANGED <<replies, init_waiting>>

Wait(c, n) ==
  /\ init_waiting' = init_waiting \cup {<<c, n>>}
  /\ UNCHANGED <<conn, outgoing, pending, next_global_id, replies>>

HandleRequest(c) == \E n \in Lids :
  /\ Receives(c, "request") /\ NextRequest(c, n)
  /\ Forward(c, n, FALSE)
  /\ UNCHANGED <<writer, clients, initVars, statusVars, lock, queueVars, events, mainVars>>

(* Nothing in runtime.rs sets `initializing`: Wait is what the code says,   *)
(* not what it does.                                                        *)
HandleInitialize(c) == \E n \in Lids :
  /\ Receives(c, "initialize") /\ NextRequest(c, n)
  /\ IF cached_initialize # {} THEN AnswerAtOnce(c, n)
     ELSE IF initializing THEN Wait(c, n)
     ELSE Forward(c, n, TRUE)
  /\ UNCHANGED <<writer, clients, initVars, statusVars, lock, queueVars, events, mainVars>>

(* to_server_tx.send().await: blocks while the queue is full.               *)
EnqueueOutgoing(c) ==
  /\ Running
  /\ conn[c] = "sending"
  /\ queue_open /\ Len(queue) < MAX_QUEUE
  /\ \E m \in outgoing[c] : queue' = Append(queue, m)
  /\ outgoing' = [outgoing EXCEPT ![c] = {}]
  /\ Goto(c, "reading")
  /\ UNCHANGED <<writer, sent, muxVars, queue_open, events, replies, mainVars>>

(* "server channel closed": logged, the pending entry stays.                *)
ChannelClosed(c) ==
  /\ Running
  /\ conn[c] = "sending"
  /\ ~queue_open
  /\ outgoing' = [outgoing EXCEPT ![c] = {}]
  /\ Goto(c, "reading")
  /\ UNCHANGED <<writer, sent, muxVars, queueVars, events, replies, mainVars>>

-----------------------------------------------------------------------------
(* Departure.                                                               *)

(* The peer closed its side, or shutdown was cancelled.                     *)
LeaveLoop(c) ==
  /\ Running /\ LockFree
  /\ conn[c] = "reading"
  /\ UnregisterClient(c)
  /\ Goto(c, "closing")
  /\ UNCHANGED <<writer, sent, outgoing, next_global_id, initVars, statusVars, lock,
                 queueVars, events, replies, mainVars>>

(* writer_handle.abort(); the permit is dropped on return.                  *)
FinishClose(c) ==
  /\ Running /\ LockFree
  /\ conn[c] = "closing"
  /\ writer' = [writer EXCEPT ![c] = "done"]
  /\ Goto(c, "closed")
  /\ UNCHANGED <<sent, outgoing, muxVars, queueVars, events, replies, mainVars>>

(* `let msg = frame?`: returns without unregister_client.                   *)
DecodeError(c) ==
  /\ "decode_error" \in Env
  /\ Running
  /\ conn[c] = "reading"
  /\ Goto(c, "aborted")
  /\ UNCHANGED <<writer, sent, outgoing, muxVars, queueVars, events, replies, mainVars>>

(* The writer task ends on a write error or when its channel is closed.     *)
WriterEnds(c) ==
  /\ Running /\ LockFree
  /\ writer[c] = "running"
  /\ "client_write_error" \in Env \/ c \notin clients
  /\ UnregisterClient(c)
  /\ writer' = [writer EXCEPT ![c] = "done"]
  /\ UNCHANGED <<conn, sent, outgoing, next_global_id, initVars, statusVars, lock,
                 queueVars, events, replies, mainVars>>

-----------------------------------------------------------------------------
ClientNext(c) ==
  \/ Accept(c) \/ AcquirePermit(c) \/ Register(c)
  \/ HandleOversized(c) \/ HandleNotification(c)
  \/ HandleRequest(c) \/ HandleInitialize(c)
  \/ EnqueueOutgoing(c) \/ ChannelClosed(c)
  \/ LeaveLoop(c) \/ FinishClose(c) \/ DecodeError(c) \/ WriterEnds(c)
=============================================================================
