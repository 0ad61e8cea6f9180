----------------------------- MODULE MuxProofs -----------------------------
(***************************************************************************)
(* Proofs about Mux, for every set of clients, every limit and every bound. *)
(***************************************************************************)
EXTENDS Mux, SequenceTheorems, TLAPS

(* Every variable a step leaves alone is in one of these tuples.            *)
USE DEF handlerVars, routerVars, managerVars, muxVars, tableVars, initVars,
        statusVars, queueVars, mainVars

-----------------------------------------------------------------------------
(* The operators of MuxState keep the types of what they assign.            *)

LEMMA SendRepliesType ==
  ASSUME TypeOK, NEW R, SendReplies(R)
  PROVE  replies' \in [Clients -> [Lids -> Nat]]
  BY DEF TypeOK, ChannelsTypeOK, SendReplies

LEMMA UnregisterType ==
  ASSUME TypeOK, NEW c \in Clients, UnregisterClient(c)
  PROVE  /\ clients' \subseteq Clients
         /\ pending' \subseteq Entry
         /\ init_waiting' \subseteq Clients \X Lids
  BY DEF TypeOK, MuxStateTypeOK, UnregisterClient

LEMMA NewEntryType ==
  ASSUME TypeOK, NEW c \in Clients, NEW n \in Lids, NEW i \in BOOLEAN
  PROVE  [seq |-> next_global_id, client |-> c, lid |-> n, is_initialize |-> i] \in Entry
  BY DEF TypeOK, MuxStateTypeOK, Entry

(* Whatever of the three handle_client_message does with a request.         *)
LEMMA AnswerType ==
  ASSUME TypeOK, NEW c \in Clients, NEW n \in Lids, AnswerAtOnce(c, n)
  PROVE  /\ replies' \in [Clients -> [Lids -> Nat]]
         /\ UNCHANGED <<conn, outgoing, pending, init_waiting, next_global_id>>
  BY SendRepliesType DEF AnswerAtOnce

LEMMA ForwardType ==
  ASSUME TypeOK, NEW c \in Clients, NEW n \in Lids, NEW i \in BOOLEAN, Forward(c, n, i)
  PROVE  /\ replies' \in [Clients -> [Lids -> Nat]]
         /\ conn' \in [Clients -> ConnStates]
         /\ outgoing' \in [Clients -> SUBSET Entry]
         /\ pending' \subseteq Entry
         /\ init_waiting' = init_waiting
         /\ next_global_id' \in Nat \ {0}
  <1>1. CASE Overloaded
    BY <1>1, AnswerType DEF Forward, TypeOK, MuxStateTypeOK, HandlerTypeOK
  <1>2. CASE ~Overloaded
    <2> DEFINE p == [seq |-> next_global_id, client |-> c, lid |-> n, is_initialize |-> i]
    <2>1. p \in Entry
      BY NewEntryType
    <2>2. /\ next_global_id' = next_global_id + 1
          /\ pending' = {q \in pending : GlobalId(q) # GlobalId(p)} \cup {p}
          /\ outgoing' = [outgoing EXCEPT ![c] = {p}]
          /\ conn' = [conn EXCEPT ![c] = "sending"]
          /\ UNCHANGED <<replies, init_waiting>>
      BY <1>2 DEF Forward, NextRequestId, InsertPending, Goto
    <2> QED
      BY <2>1, <2>2 DEF TypeOK, MuxStateTypeOK, HandlerTypeOK, ChannelsTypeOK, ConnStates
  <1> QED BY <1>1, <1>2

LEMMA ReceiveType ==
  ASSUME TypeOK, NEW c \in Clients, NEW n \in Lids, NextRequest(c, n)
  PROVE  sent' \in [Clients -> 0..MaxMsgs]
  BY ConstantsAssumption DEF TypeOK, HandlerTypeOK, NextRequest, Lids

-----------------------------------------------------------------------------
(* Type correctness.                                                        *)

LEMMA InitType == Init => TypeOK
  <1> SUFFICES ASSUME Init PROVE TypeOK
    OBVIOUS
  <1> USE ConstantsAssumption DEF Init
  <1>1. MuxStateTypeOK
    <2>1. initializing \in BOOLEAN /\ init_waiting \subseteq Clients \X Lids
      BY DEF MuxStateInit
    <2> QED BY <2>1 DEF MuxStateInit, MuxStateTypeOK, Statuses
  <1>2. ChannelsTypeOK
    <2>1. queue \in Seq(Message) /\ events \in Seq(ServerEvent)
      BY DEF ChannelsInit
    <2>2. queue_open \in BOOLEAN /\ shutdown \in BOOLEAN
      BY DEF ChannelsInit
    <2> QED BY <2>1, <2>2 DEF ChannelsInit, ChannelsTypeOK
  <1>3. HandlerTypeOK
    BY DEF HandlerInit, HandlerTypeOK, ConnStates
  <1>4. RouterTypeOK
    BY DEF RouterInit, RouterTypeOK
  <1>5. ManagerTypeOK
    BY DEF ManagerInit, ManagerTypeOK, MgrStates, WithChild
  <1> QED BY <1>1, <1>2, <1>3, <1>4, <1>5 DEF TypeOK

LEMMA ClientType ==
  ASSUME TypeOK, NEW c \in Clients, ClientStep(c)
  PROVE  TypeOK'
  <1> USE ConstantsAssumption DEF TypeOK, MuxStateTypeOK, ChannelsTypeOK, HandlerTypeOK,
         RouterTypeOK, ManagerTypeOK, Goto, ConnStates
  <1>0. UNCHANGED <<routerVars, managerVars>>
    BY DEF ClientStep
  <1>1. CASE Accept(c)
    BY <1>0, <1>1 DEF Accept
  <1>2. CASE AcquirePermit(c)
    BY <1>0, <1>2 DEF AcquirePermit
  <1>3. CASE Register(c)
    BY <1>0, <1>3 DEF Register, RegisterClient
  <1>4. CASE HandleOversized(c)
    <2>1. PICK n \in Lids :
            /\ NextRequest(c, n)
            /\ AnswerAtOnce(c, n)
            /\ UNCHANGED <<writer, clients, initVars, statusVars, lock, queueVars, events, mainVars>>
      BY <1>4 DEF HandleOversized
    <2>2. sent' \in [Clients -> 0..MaxMsgs]
      BY <2>1, ReceiveType
    <2> QED BY <1>0, <2>1, <2>2, AnswerType
  <1>5. CASE HandleNotification(c)
    <2>1. Notification(c) \in Message
      BY DEF Message
    <2> QED BY <1>0, <1>5, <2>1 DEF HandleNotification
  <1>6. CASE HandleRequest(c)
    <2>1. PICK n \in Lids :
            /\ NextRequest(c, n)
            /\ Forward(c, n, FALSE)
            /\ UNCHANGED <<writer, clients, initVars, statusVars, lock, queueVars, events, mainVars>>
      BY <1>6 DEF HandleRequest
    <2>2. sent' \in [Clients -> 0..MaxMsgs]
      BY <2>1, ReceiveType
    <2> QED BY <1>0, <2>1, <2>2, ForwardType
  <1>7. CASE HandleInitialize(c)
    <2>1. PICK n \in Lids :
            /\ NextRequest(c, n)
            /\ \/ AnswerAtOnce(c, n) \/ Wait(c, n) \/ Forward(c, n, TRUE)
            /\ UNCHANGED <<writer, clients, initVars, statusVars, lock, queueVars, events, mainVars>>
      BY <1>7 DEF HandleInitialize
    <2>2. sent' \in [Clients -> 0..MaxMsgs]
      BY <2>1, ReceiveType
    <2>3. CASE AnswerAtOnce(c, n)
      BY <1>0, <2>1, <2>2, <2>3, AnswerType
    <2>4. CASE Wait(c, n)
      BY <1>0, <2>1, <2>2, <2>4 DEF Wait
    <2>5. CASE Forward(c, n, TRUE)
      BY <1>0, <2>1, <2>2, <2>5, ForwardType
    <2> QED BY <2>1, <2>3, <2>4, <2>5
  <1>8. CASE EnqueueOutgoing(c)
    <2>1. \A m \in outgoing[c] : m \in Message
      BY DEF Message
    <2> QED BY <1>0, <1>8, <2>1 DEF EnqueueOutgoing
  <1>9. CASE ChannelClosed(c)
    BY <1>0, <1>9 DEF ChannelClosed
  <1>10. CASE LeaveLoop(c)
    BY <1>0, <1>10, UnregisterType DEF LeaveLoop
  <1>11. CASE FinishClose(c)
    BY <1>0, <1>11 DEF FinishClose
  <1>12. CASE DecodeError(c)
    BY <1>0, <1>12 DEF DecodeError
  <1>13. CASE WriterEnds(c)
    BY <1>0, <1>13, UnregisterType DEF WriterEnds
  <1> QED
    BY <1>1, <1>2, <1>3, <1>4, <1>5, <1>6, <1>7,
       <1>8, <1>9, <1>10, <1>11, <1>12, <1>13
    DEF ClientStep, ClientNext

(* An event of the child carries an entry; taking it leaves a sequence.     *)
LEMMA HeadType ==
  ASSUME TypeOK, events # <<>>
  PROVE  /\ Head(events) \in ServerEvent
         /\ Tail(events) \in Seq(ServerEvent)
  BY DEF TypeOK, ChannelsTypeOK

LEMMA RouterType ==
  ASSUME TypeOK, RouterStep
  PROVE  TypeOK'
  <1> USE DEF TypeOK, MuxStateTypeOK, ChannelsTypeOK, HandlerTypeOK,
         RouterTypeOK, ManagerTypeOK
  <1>0. UNCHANGED <<handlerVars, managerVars>>
    BY DEF RouterStep
  <1>1. CASE RouteResponse
    <2>1. PICK m \in Head(events).msg :
            held' = {[entry |-> p, msg |-> m, child |-> Head(events).child,
                      stage |-> "lookup"] : p \in Matches(m)}
      BY <1>1 DEF RouteResponse
    <2>2. m \in Entry /\ Head(events).child \in Children
      BY <1>1, HeadType DEF RouteResponse, ServerEvent
    <2>3. held' \subseteq Held
      BY <2>1, <2>2 DEF Matches, Held
    <2> QED
      BY <1>0, <1>1, <2>3, HeadType DEF RouteResponse
  <1>2. CASE DeliverResponse
    <2>1. PICK h \in held :
            /\ SendReplies({<<h.entry.client, h.entry.lid>>})
            /\ held' = IF h.entry.client \in clients /\ h.entry.is_initialize
                       THEN {[h EXCEPT !.stage = "cache"]} ELSE {}
      BY <1>2 DEF DeliverResponse
    <2>2. held' \subseteq Held
      BY <2>1 DEF Held
    <2>3. replies' \in [Clients -> [Lids -> Nat]]
      BY <2>1, SendRepliesType
    <2> QED
      BY <1>0, <1>2, <2>2, <2>3 DEF DeliverResponse
  <1>3. CASE CacheInitialize
    <2>1. cached_initialize' \subseteq Children
      BY <1>3 DEF CacheInitialize, Held
    <2>2. replies' \in [Clients -> [Lids -> Nat]]
      BY <1>3, SendRepliesType DEF CacheInitialize
    <2> QED
      BY <1>0, <1>3, <2>1, <2>2 DEF CacheInitialize
  <1>4. CASE HandleReset
    <2>1. replies' \in [Clients -> [Lids -> Nat]]
      BY <1>4, SendRepliesType DEF HandleReset, ResetState
    <2> QED
      BY <1>0, <1>4, <2>1, HeadType DEF HandleReset, ResetState
  <1> QED BY <1>1, <1>2, <1>3, <1>4 DEF RouterStep, RouterNext

LEMMA ReaperType ==
  ASSUME TypeOK, ReaperStep
  PROVE  TypeOK'
  <1> USE DEF TypeOK, MuxStateTypeOK, ChannelsTypeOK, HandlerTypeOK,
         RouterTypeOK, ManagerTypeOK
  <1>0. UNCHANGED <<handlerVars, managerVars>>
    BY DEF ReaperStep
  <1>1. CASE \E p \in pending : ReapExpired(p.seq)
    BY <1>0, <1>1 DEF ReapExpired
  <1>2. CASE SendTimeouts
    <2>1. replies' \in [Clients -> [Lids -> Nat]]
      BY <1>2, SendRepliesType DEF SendTimeouts
    <2> QED BY <1>0, <1>2, <2>1 DEF SendTimeouts
  <1> QED BY <1>1, <1>2 DEF ReaperStep, ReaperNext

LEMMA QueueHeadType ==
  ASSUME TypeOK, queue # <<>>
  PROVE  {Head(queue)} \subseteq Message /\ Tail(queue) \in Seq(Message)
  BY DEF TypeOK, ChannelsTypeOK

LEMMA NoMessages == <<>> \in Seq(Message)
  OBVIOUS

LEMMA ManagerType ==
  ASSUME TypeOK, ManagerStep
  PROVE  TypeOK'
  <1> USE ConstantsAssumption DEF TypeOK, MuxStateTypeOK, ChannelsTypeOK, HandlerTypeOK,
         RouterTypeOK, ManagerTypeOK, MgrStates, WithChild, ManagerReturns, InnerLoop
  <1>0. UNCHANGED <<handlerVars, routerVars>>
    BY DEF ManagerStep
  <1>1. CASE StopAtTop
    BY <1>0, <1>1, NoMessages DEF StopAtTop
  <1>2. CASE TakeFirst
    BY <1>0, <1>2, QueueHeadType DEF TakeFirst
  <1>3. CASE GiveUp
    BY <1>0, <1>3 DEF GiveUp, Statuses
  <1>4. CASE Launch
    BY <1>0, <1>4 DEF Launch, MayLaunch, Statuses, Children
  <1>5. CASE SpawnFails
    BY <1>0, <1>5, NoMessages DEF SpawnFails, MayLaunch
  <1>6. CASE TakeMessage
    BY <1>0, <1>6, QueueHeadType DEF TakeMessage
  <1>7. CASE WriteMessage
    BY <1>0, <1>7 DEF WriteMessage
  <1>8. CASE WriteFirstFails
    BY <1>0, <1>8 DEF WriteFirstFails
  <1>9. CASE WriteFails
    BY <1>0, <1>9 DEF WriteFails, Statuses
  <1>10. CASE ChildWaitDone
    BY <1>0, <1>10 DEF ChildWaitDone
  <1>11. CASE WaitFails
    BY <1>0, <1>11 DEF WaitFails, Statuses
  <1>12. CASE StopServing
    BY <1>0, <1>12 DEF StopServing
  <1>13. CASE Cleanup
    <2>1. Reset(gen) \in ServerEvent
      BY <1>13 DEF Cleanup, Reset, ServerEvent, Children
    <2>2. events' \in Seq(ServerEvent)
      BY <1>13, <2>1 DEF Cleanup
    <2>3. reader' \in [Children -> {"off", "running", "aborting", "stopped"}]
      BY <1>13 DEF Cleanup
    <2> QED BY <1>0, <1>13, <2>2, <2>3 DEF Cleanup
  <1>14. CASE Clear
    <2>1. queue' \in Seq(Message) /\ queue_open' \in BOOLEAN
      BY <1>14, NoMessages DEF Clear
    <2>2. mgr' \in {"done", "backoff"} /\ server_status' \in Statuses /\ restarts' \in Nat
      BY <1>14 DEF Clear, Statuses
    <2>3. initializing' \in BOOLEAN
      BY <1>14 DEF Clear
    <2> QED BY <1>0, <1>14, <2>1, <2>2, <2>3 DEF Clear
  <1>15. CASE SleepBackoff
    BY <1>0, <1>15 DEF SleepBackoff
  <1>16. CASE PassCheck
    BY <1>0, <1>16 DEF PassCheck
  <1> QED
    BY <1>1, <1>2, <1>3, <1>4, <1>5, <1>6, <1>7, <1>8,
       <1>9, <1>10, <1>11, <1>12, <1>13, <1>14, <1>15, <1>16
    DEF ManagerStep, ManagerNext

LEMMA ChildType ==
  ASSUME TypeOK, NEW k \in Children, ChildStep(k)
  PROVE  TypeOK'
  <1> USE DEF TypeOK, MuxStateTypeOK, ChannelsTypeOK, HandlerTypeOK,
         RouterTypeOK, ManagerTypeOK
  <1>0. UNCHANGED <<handlerVars, routerVars>>
    BY DEF ChildStep
  <1>1. CASE ChildExits(k)
    BY <1>0, <1>1 DEF ChildExits
  <1>2. ASSUME NEW m \in written[k], ChildResponds(k, m)
        PROVE  TypeOK'
    <2>1. m \in Entry
      BY <1>2 DEF ChildResponds, Message, Notification
    <2>2. Response(k, m) \in ServerEvent
      BY <2>1 DEF Response, ServerEvent
    <2> QED BY <1>0, <1>2, <2>2 DEF ChildResponds
  <1>3. CASE ReaderEnds(k)
    BY <1>0, <1>3 DEF ReaderEnds
  <1> QED BY <1>1, <1>2, <1>3 DEF ChildStep, ChildNext

LEMMA NextType == TypeOK /\ [Next]_vars => TypeOK'
  <1> SUFFICES ASSUME TypeOK, [Next]_vars PROVE TypeOK'
    OBVIOUS
  <1> USE DEF TypeOK, MuxStateTypeOK, ChannelsTypeOK, HandlerTypeOK,
         RouterTypeOK, ManagerTypeOK
  <1>1. CASE Shutdown
    BY <1>1 DEF Shutdown
  <1>2. CASE MainExit
    BY <1>2 DEF MainExit
  <1>3. CASE UNCHANGED vars
    BY <1>3 DEF vars
  <1> QED
    BY <1>1, <1>2, <1>3, ClientType, RouterType, ReaperType, ManagerType, ChildType DEF Next

(* Every variable of the daemon keeps its type, and the manager acts on a    *)
(* child only between its launch and its cleanup (server_manager).           *)
THEOREM TypeCorrect == Spec => []TypeOK
  BY InitType, NextType, PTL DEF Spec

-----------------------------------------------------------------------------
(* Elements of the two queues.                                              *)

LEMMA AppendRange ==
  ASSUME NEW S, NEW s \in Seq(S), NEW e \in S
  PROVE  Range(Append(s, e)) = Range(s) \cup {e}
  BY AppendProperties DEF Range

LEMMA TailRange ==
  ASSUME NEW S, NEW s \in Seq(S), s # <<>>
  PROVE  Range(s) = {Head(s)} \cup Range(Tail(s))
  <1>1. \A i \in DOMAIN Tail(s) : i + 1 \in DOMAIN s /\ Tail(s)[i] = s[i + 1]
    OBVIOUS
  <1>2. \A i \in DOMAIN s : i # 1 => i - 1 \in DOMAIN Tail(s) /\ Tail(s)[i - 1] = s[i]
    OBVIOUS
  <1>3. 1 \in DOMAIN s /\ Head(s) = s[1]
    OBVIOUS
  <1>4. \A x \in Range(s) : x = Head(s) \/ x \in Range(Tail(s))
    BY <1>2, <1>3 DEF Range
  <1>5. \A x : x = Head(s) \/ x \in Range(Tail(s)) => x \in Range(s)
    BY <1>1, <1>3 DEF Range
  <1> QED BY <1>4, <1>5

-----------------------------------------------------------------------------
(* Global ids.  Travelling is every message with a global id that can still  *)
(* be matched: in the table, on its way to a child, read by one, or in a     *)
(* response.                                                                 *)

Blocked == UNION {outgoing[c] : c \in Clients}
Read == UNION {written[k] : k \in Children}
Responses == UNION {e.msg : e \in Range(events)}

Travelling == pending \cup Blocked \cup Range(queue) \cup in_hand \cup Read \cup Responses

(* A sequence number is issued once, so it names one message.                *)
IdsUnique ==
  /\ \A m \in Travelling : m.seq < next_global_id
  /\ \A m, n \in Travelling : m.seq = n.seq /\ m.seq > 0 => m = n

(* What a step adds is new: a notification, or the entry it just numbered.   *)
Carried == /\ next_global_id' = next_global_id
           /\ \A m \in Travelling' : m \in Travelling \/ m.seq = 0

Issued(p) == /\ p.seq = next_global_id
             /\ next_global_id' = next_global_id + 1
             /\ \A m \in Travelling' : m \in Travelling \/ m = p

LEMMA TravellingSeq == TypeOK => \A m \in Travelling : m.seq \in Nat
  <1> SUFFICES ASSUME TypeOK, NEW m \in Travelling PROVE m.seq \in Nat
    OBVIOUS
  <1>1. Travelling \subseteq Message
    <2>1. pending \subseteq Message
      BY DEF TypeOK, Message, MuxStateTypeOK
    <2>2. Blocked \subseteq Message
      BY DEF Blocked, TypeOK, Message, HandlerTypeOK
    <2>3. Range(queue) \subseteq Message
      BY RangeOfSeq DEF TypeOK, ChannelsTypeOK
    <2>4. in_hand \subseteq Message /\ Read \subseteq Message
      BY DEF Read, TypeOK, ManagerTypeOK
    <2>5. Range(events) \subseteq ServerEvent
      BY RangeOfSeq DEF TypeOK, ChannelsTypeOK
    <2>6. Responses \subseteq Message
      BY <2>5 DEF Responses, ServerEvent, Message
    <2> QED BY <2>1, <2>2, <2>3, <2>4, <2>6 DEF Travelling
  <1> QED BY <1>1 DEF Message, Entry, Notification

LEMMA KeepsIds ==
  ASSUME TypeOK, IdsUnique, \/ Carried \/ \E p : Issued(p)
  PROVE  IdsUnique'
  <1> USE TravellingSeq DEF IdsUnique
  <1>0. next_global_id \in Nat \ {0}
    BY DEF TypeOK, MuxStateTypeOK
  <1>1. CASE Carried
    BY <1>0, <1>1 DEF Carried
  <1>2. ASSUME NEW p, Issued(p) PROVE IdsUnique'
    BY <1>0, <1>2 DEF Issued
  <1> QED BY <1>1, <1>2

(* How each container of messages may change.                                *)
LEMMA ReadGrows ==
  ASSUME TypeOK, NEW M, written' = [written EXCEPT ![gen] = @ \cup M]
  PROVE  \A m \in Read' : m \in Read \/ m \in M
  BY DEF Read, TypeOK, ManagerTypeOK

LEMMA EventTaken ==
  ASSUME TypeOK, events # <<>>, events' = Tail(events)
  PROVE  /\ Range(events) = {Head(events)} \cup Range(events')
         /\ Responses' \subseteq Responses
  BY TailRange DEF Responses, TypeOK, ChannelsTypeOK

LEMMA EventSent ==
  ASSUME TypeOK, NEW e \in ServerEvent, events' = Append(events, e)
  PROVE  /\ Range(events') = Range(events) \cup {e}
         /\ Responses' = Responses \cup e.msg
  BY AppendRange DEF Responses, TypeOK, ChannelsTypeOK

LEMMA MessageTaken ==
  ASSUME TypeOK, queue # <<>>, queue' = Tail(queue)
  PROVE  Range(queue) = {Head(queue)} \cup Range(queue')
  BY TailRange DEF TypeOK, ChannelsTypeOK

LEMMA MessageQueued ==
  ASSUME TypeOK, NEW m \in Message, queue' = Append(queue, m)
  PROVE  Range(queue') = Range(queue) \cup {m}
  BY AppendRange DEF TypeOK, ChannelsTypeOK

LEMMA NothingQueued == Range(<<>>) = {}
  BY DEF Range

-----------------------------------------------------------------------------
LEMMA ClientIds ==
  ASSUME TypeOK, NEW c \in Clients, ClientStep(c)
  PROVE  Carried \/ \E p : Issued(p)
  <1>0. UNCHANGED <<in_hand, written, events>> /\ Read' = Read /\ Responses' = Responses
    BY DEF ClientStep, ClientNext, Accept, AcquirePermit, Register, HandleOversized,
       HandleNotification, HandleRequest, HandleInitialize, EnqueueOutgoing, ChannelClosed,
       LeaveLoop, FinishClose, DecodeError, WriterEnds, Read, Responses
  <1>1. CASE /\ UNCHANGED <<outgoing, queue, next_global_id>>
             /\ pending' \subseteq pending
    <2>1. Blocked' = Blocked
      BY <1>1 DEF Blocked
    <2> QED BY <1>0, <1>1, <2>1 DEF Carried, Travelling
  <1>2. CASE HandleNotification(c)
    <2>1. UNCHANGED <<outgoing, pending, next_global_id>> /\ Blocked' = Blocked
      BY <1>2 DEF HandleNotification, Blocked
    <2>2. Notification(c) \in Message /\ Notification(c).seq = 0
      BY DEF Message, Notification
    <2>3. \A m \in Range(queue') : m \in Range(queue) \/ m.seq = 0
      BY <1>2, <2>2, MessageQueued DEF HandleNotification
    <2> QED BY <1>0, <2>1, <2>3 DEF Carried, Travelling
  <1>3. ASSUME NEW n \in Lids, NEW i \in BOOLEAN, Forward(c, n, i), ~Overloaded,
               UNCHANGED queue
        PROVE  \E p : Issued(p)
    <2> DEFINE p == [seq |-> next_global_id, client |-> c, lid |-> n, is_initialize |-> i]
    <2>1. /\ next_global_id' = next_global_id + 1
          /\ pending' = {q \in pending : GlobalId(q) # GlobalId(p)} \cup {p}
          /\ outgoing' = [outgoing EXCEPT ![c] = {p}]
      BY <1>3 DEF Forward, NextRequestId, InsertPending
    <2>2. \A m \in Blocked' : m \in Blocked \/ m = p
      BY <2>1 DEF Blocked, TypeOK, HandlerTypeOK
    <2>3. Issued(p)
      BY <1>0, <1>3, <2>1, <2>2 DEF Issued, Travelling
    <2> QED BY <2>3
  <1>4. CASE EnqueueOutgoing(c)
    <2>1. PICK m \in outgoing[c] : queue' = Append(queue, m)
      BY <1>4 DEF EnqueueOutgoing
    <2>2. m \in Message /\ m \in Blocked
      BY DEF Blocked, Message, TypeOK, HandlerTypeOK
    <2>3. Range(queue') = Range(queue) \cup {m}
      BY <2>1, <2>2, MessageQueued
    <2>4. \A x \in Blocked' : x \in Blocked
      BY <1>4 DEF EnqueueOutgoing, Blocked, TypeOK, HandlerTypeOK
    <2> QED BY <1>0, <1>4, <2>2, <2>3, <2>4 DEF EnqueueOutgoing, Carried, Travelling
  <1>5. CASE ChannelClosed(c)
    <2>1. \A x \in Blocked' : x \in Blocked
      BY <1>5 DEF ChannelClosed, Blocked, TypeOK, HandlerTypeOK
    <2> QED BY <1>0, <1>5, <2>1 DEF ChannelClosed, Carried, Travelling
  <1>6. CASE HandleRequest(c)
    BY <1>1, <1>3, <1>6 DEF HandleRequest, Forward, AnswerAtOnce
  <1>7. CASE HandleInitialize(c)
    BY <1>1, <1>3, <1>7 DEF HandleInitialize, Forward, AnswerAtOnce, Wait
  <1>8. CASE Register(c) \/ HandleOversized(c) \/ LeaveLoop(c) \/ WriterEnds(c)
    BY <1>1, <1>8 DEF Register, HandleOversized, AnswerAtOnce, LeaveLoop, WriterEnds,
       UnregisterClient
  <1>9. CASE Accept(c) \/ AcquirePermit(c) \/ FinishClose(c) \/ DecodeError(c)
    BY <1>1, <1>9 DEF Accept, AcquirePermit, FinishClose, DecodeError
  <1> QED
    BY <1>2, <1>4, <1>5, <1>6, <1>7, <1>8, <1>9 DEF ClientStep, ClientNext

LEMMA RouterIds ==
  ASSUME TypeOK, RouterStep \/ ReaperStep
  PROVE  Carried
  <1>1. UNCHANGED <<outgoing, queue, in_hand, written, next_global_id>>
    BY DEF RouterStep, RouterNext, RouteResponse, DeliverResponse, CacheInitialize,
       HandleReset, ReaperStep, ReaperNext, ReapExpired, SendTimeouts
  <1>2. pending' \subseteq pending
    BY DEF RouterStep, RouterNext, RouteResponse, DeliverResponse, CacheInitialize,
       HandleReset, ResetState, ReaperStep, ReaperNext, ReapExpired, SendTimeouts
  <1>3. events' = events \/ (events # <<>> /\ events' = Tail(events))
    BY DEF RouterStep, RouterNext, RouteResponse, DeliverResponse, CacheInitialize,
       HandleReset, ReaperStep, ReaperNext, ReapExpired, SendTimeouts
  <1>4. Responses' \subseteq Responses
    BY <1>3, EventTaken DEF Responses
  <1>5. Blocked' = Blocked /\ Read' = Read
    BY <1>1 DEF Blocked, Read
  <1> QED BY <1>1, <1>2, <1>4, <1>5 DEF Carried, Travelling

LEMMA ManagerIds ==
  ASSUME TypeOK, ManagerStep
  PROVE  Carried
  <1>1. UNCHANGED <<outgoing, pending, next_global_id>> /\ Blocked' = Blocked
    BY DEF ManagerStep, ManagerNext, StopAtTop, TakeFirst, PassCheck, GiveUp, Launch,
       SpawnFails,
       TakeMessage, WriteMessage, WriteFirstFails, WriteFails, ChildWaitDone, WaitFails,
       StopServing, Cleanup, Clear, SleepBackoff, Blocked
  <1>2. CASE TakeFirst \/ TakeMessage
    <2>1. /\ queue # <<>> /\ queue' = Tail(queue) /\ in_hand' = {Head(queue)}
          /\ UNCHANGED <<written, events>>
      BY <1>2 DEF TakeFirst, TakeMessage
    <2>2. Range(queue) = {Head(queue)} \cup Range(queue')
      BY <2>1, MessageTaken
    <2>3. Read' = Read /\ Responses' = Responses
      BY <2>1 DEF Read, Responses
    <2> QED BY <1>1, <2>1, <2>2, <2>3 DEF Carried, Travelling
  <1>3. CASE WriteMessage
    <2>1. \A m \in Read' : m \in Read \/ m \in in_hand
      BY <1>3, ReadGrows DEF WriteMessage
    <2>2. in_hand' = {} /\ UNCHANGED <<queue, events>> /\ Responses' = Responses
      BY <1>3 DEF WriteMessage, Responses
    <2> QED BY <1>1, <2>1, <2>2 DEF Carried, Travelling
  <1>4. CASE Cleanup
    <2>1. Reset(gen) \in ServerEvent /\ Reset(gen).msg = {}
      BY <1>4 DEF Cleanup, Reset, ServerEvent, Children, TypeOK, ManagerTypeOK, WithChild
    <2>2. Responses' = Responses
      BY <1>4, <2>1, EventSent DEF Cleanup
    <2>3. UNCHANGED <<queue, in_hand, written>> /\ Read' = Read
      BY <1>4 DEF Cleanup, Read
    <2> QED BY <1>1, <2>2, <2>3 DEF Carried, Travelling
  <1>5. CASE StopAtTop \/ SpawnFails \/ Clear
    <2>1. UNCHANGED <<written, events>> /\ Read' = Read /\ Responses' = Responses
      BY <1>5 DEF StopAtTop, SpawnFails, Clear, Read, Responses
    <2>2. queue' = queue \/ queue' = <<>>
      BY <1>5 DEF StopAtTop, SpawnFails, Clear, ManagerReturns
    <2>3. in_hand' = in_hand \/ in_hand' = {}
      BY <1>5 DEF StopAtTop, SpawnFails, Clear
    <2>4. \A m \in Range(queue') : m \in Range(queue)
      BY <2>2, NothingQueued
    <2> QED BY <1>1, <2>1, <2>3, <2>4 DEF Carried, Travelling
  <1>6. CASE PassCheck \/ GiveUp \/ Launch \/ ChildWaitDone \/ WaitFails \/ StopServing \/ SleepBackoff
             \/ WriteFirstFails \/ WriteFails
    <2>1. UNCHANGED <<queue, written, events>> /\ Read' = Read /\ Responses' = Responses
      BY <1>6 DEF PassCheck, GiveUp, Launch, ChildWaitDone, WaitFails, StopServing, SleepBackoff,
         WriteFirstFails, WriteFails, Read, Responses
    <2>2. in_hand' = in_hand \/ in_hand' = {}
      BY <1>6 DEF PassCheck, GiveUp, Launch, ChildWaitDone, WaitFails, StopServing, SleepBackoff,
         WriteFirstFails, WriteFails
    <2> QED BY <1>1, <2>1, <2>2 DEF Carried, Travelling
  <1> QED BY <1>2, <1>3, <1>4, <1>5, <1>6 DEF ManagerStep, ManagerNext

LEMMA ChildIds ==
  ASSUME TypeOK, NEW k \in Children, ChildStep(k)
  PROVE  Carried
  <1>1. /\ UNCHANGED <<outgoing, queue, in_hand, written, pending, next_global_id>>
        /\ Blocked' = Blocked /\ Read' = Read
    BY DEF ChildStep, ChildNext, ChildExits, ChildResponds, ReaderEnds, Blocked, Read
  <1>2. ASSUME NEW m \in written[k], ChildResponds(k, m)
        PROVE  \A x \in Responses' : x \in Responses \/ x \in Read
    <2>1. m \in Entry /\ m \in Read
      BY <1>2 DEF ChildResponds, Read, Message, Notification, TypeOK, ManagerTypeOK
    <2>2. Response(k, m) \in ServerEvent /\ Response(k, m).msg = {m}
      BY <2>1 DEF Response, ServerEvent
    <2> QED BY <1>2, <2>1, <2>2, EventSent DEF ChildResponds
  <1>3. CASE ChildExits(k) \/ ReaderEnds(k)
    BY <1>1, <1>3 DEF ChildExits, ReaderEnds, Responses, Carried, Travelling
  <1> QED BY <1>1, <1>2, <1>3 DEF ChildStep, ChildNext, Carried, Travelling

LEMMA InitIds == Init => IdsUnique
  BY NothingQueued DEF Init, MuxStateInit, ChannelsInit, HandlerInit, ManagerInit, IdsUnique,
     Travelling, Blocked, Read, Responses

LEMMA NextIds == TypeOK /\ IdsUnique /\ [Next]_vars => IdsUnique'
  <1> SUFFICES ASSUME TypeOK, IdsUnique, [Next]_vars PROVE IdsUnique'
    OBVIOUS
  <1>1. CASE Shutdown \/ MainExit \/ UNCHANGED vars
    BY <1>1 DEF Shutdown, MainExit, vars, IdsUnique, Travelling, Blocked, Read, Responses
  <1> QED
    BY <1>1, ClientIds, RouterIds, ManagerIds, ChildIds, KeepsIds DEF Next

-----------------------------------------------------------------------------
(* The inductive invariant behind the routing properties.  Beyond what they  *)
(* state, the child whose answer the router holds is accounted for until the *)
(* answer is cached, and a response is for a message its child has read.     *)

RoutingInv ==
  /\ DemuxCorrect
  /\ DeadChildSilent
  /\ CacheFromLiveChild
  /\ \A h \in held : Accounted(h.child)
  /\ \A e \in Range(events) : e.type = "response" => e.msg \subseteq written[e.child]

LEMMA InitRouting == Init => RoutingInv
  BY NothingQueued DEF Init, MuxStateInit, ChannelsInit, RouterInit, ManagerInit, RoutingInv,
     DemuxCorrect, DeadChildSilent, CacheFromLiveChild

(* Removing by id finds the request a response was written for.              *)
LEMMA MatchIsSelf ==
  ASSUME TypeOK, IdsUnique, NEW m \in Travelling, NEW p \in Matches(m)
  PROVE  p = m
  <1>1. p \in Travelling /\ p.seq > 0 /\ p.seq = m.seq
    BY DEF Matches, Travelling, GlobalId, TypeOK, MuxStateTypeOK, Entry
  <1> QED BY <1>1 DEF IdsUnique

LEMMA ClientRouting ==
  ASSUME TypeOK, IdsUnique, RoutingInv, NEW c \in Clients, ClientStep(c)
  PROVE  RoutingInv'
  <1>1. UNCHANGED <<held, cached_initialize, events, written, mgr, gen>>
    BY DEF ClientStep, ClientNext, Accept, AcquirePermit, Register, HandleOversized,
       HandleNotification, HandleRequest, HandleInitialize, EnqueueOutgoing, ChannelClosed,
       LeaveLoop, FinishClose, DecodeError, WriterEnds
  <1>2. \A m \in pending' : m \in pending \/ m.seq = next_global_id
    <2>1. ASSUME NEW n \in Lids, NEW i \in BOOLEAN, Forward(c, n, i)
          PROVE  \A m \in pending' : m \in pending \/ m.seq = next_global_id
      BY <2>1 DEF Forward, AnswerAtOnce, InsertPending
    <2>2. CASE HandleRequest(c) \/ HandleInitialize(c)
      BY <2>1, <2>2 DEF HandleRequest, HandleInitialize, AnswerAtOnce, Wait
    <2>3. CASE Register(c) \/ HandleOversized(c) \/ LeaveLoop(c) \/ WriterEnds(c)
      BY <2>3 DEF Register, HandleOversized, AnswerAtOnce, LeaveLoop, WriterEnds,
         UnregisterClient
    <2>4. CASE Accept(c) \/ AcquirePermit(c) \/ HandleNotification(c) \/ EnqueueOutgoing(c)
               \/ ChannelClosed(c) \/ FinishClose(c) \/ DecodeError(c)
      BY <2>4 DEF Accept, AcquirePermit, HandleNotification, EnqueueOutgoing, ChannelClosed,
         FinishClose, DecodeError
    <2> QED BY <2>2, <2>3, <2>4 DEF ClientStep, ClientNext
  <1>3. \A k \in Children : \A m \in written[k] : m.seq # next_global_id
    <2> SUFFICES ASSUME NEW k \in Children, NEW m \in written[k]
                 PROVE  m.seq # next_global_id
      OBVIOUS
    <2>1. m \in Travelling
      BY DEF Travelling, Read
    <2> QED BY <2>1, TravellingSeq DEF IdsUnique, TypeOK, MuxStateTypeOK
  <1>4. \A k : Accounted(k)' <=> Accounted(k)
    BY <1>1 DEF Accounted, Attached, ResetQueued
  <1> QED
    BY <1>1, <1>2, <1>3, <1>4
    DEF RoutingInv, DemuxCorrect, DeadChildSilent, CacheFromLiveChild

LEMMA RouterRouting ==
  ASSUME TypeOK, IdsUnique, RoutingInv, RouterStep
  PROVE  RoutingInv'
  <1>0. UNCHANGED <<written, mgr, gen>>
    BY DEF RouterStep
  <1>1. CASE RouteResponse
    <2>1. PICK m \in Head(events).msg :
            held' = {[entry |-> p, msg |-> m, child |-> Head(events).child,
                      stage |-> "lookup"] : p \in Matches(m)}
      BY <1>1 DEF RouteResponse
    <2> DEFINE k == Head(events).child
    <2>2. events # <<>> /\ events' = Tail(events) /\ Head(events).type = "response"
      BY <1>1 DEF RouteResponse
    <2>3. Range(events) = {Head(events)} \cup Range(events')
      BY <2>2, EventTaken
    <2>4. k \in Children /\ m \in written[k]
      BY <2>2, <2>3, HeadType DEF RoutingInv, ServerEvent
    <2>5. m \in Travelling
      BY <2>4 DEF Travelling, Read
    <2>6. \A x : Accounted(x) => Accounted(x)'
      BY <1>0, <2>2, <2>3 DEF Accounted, Attached, ResetQueued, Reset
    <2>7. \A p \in Matches(m) : p = m /\ Accounted(k)
      BY <2>4, <2>5, MatchIsSelf DEF RoutingInv, DeadChildSilent, Matches
    <2>8. DemuxCorrect' /\ \A h \in held' : Accounted(h.child)'
      BY <2>1, <2>6, <2>7 DEF DemuxCorrect
    <2>9. UNCHANGED cached_initialize /\ pending' \subseteq pending
      BY <1>1 DEF RouteResponse
    <2> QED
      BY <1>0, <2>3, <2>6, <2>8, <2>9 DEF RoutingInv, DeadChildSilent, CacheFromLiveChild
  <1>2. CASE DeliverResponse
    <2>1. PICK h \in held : held' = IF h.entry.client \in clients /\ h.entry.is_initialize
                                    THEN {[h EXCEPT !.stage = "cache"]} ELSE {}
      BY <1>2 DEF DeliverResponse
    <2>2. \A g \in held' : g.entry = h.entry /\ g.msg = h.msg /\ g.child = h.child
      BY <2>1 DEF TypeOK, RouterTypeOK, Held
    <2>3. UNCHANGED <<cached_initialize, pending, events>>
      BY <1>2 DEF DeliverResponse
    <2>4. \A x : Accounted(x)' <=> Accounted(x)
      BY <1>0, <2>3 DEF Accounted, Attached, ResetQueued
    <2> QED
      BY <1>0, <2>2, <2>3, <2>4 DEF RoutingInv, DemuxCorrect, DeadChildSilent, CacheFromLiveChild
  <1>3. CASE CacheInitialize
    <2>1. PICK h \in held : cached_initialize' = {h.child}
      BY <1>3 DEF CacheInitialize
    <2>2. held' = {} /\ UNCHANGED <<pending, events>>
      BY <1>3 DEF CacheInitialize
    <2>3. \A x : Accounted(x)' <=> Accounted(x)
      BY <1>0, <2>2 DEF Accounted, Attached, ResetQueued
    <2> QED
      BY <1>0, <2>1, <2>2, <2>3 DEF RoutingInv, DemuxCorrect, DeadChildSilent, CacheFromLiveChild
  <1>4. CASE HandleReset
    <2>1. /\ held' = {} /\ cached_initialize' = {} /\ pending' = {}
          /\ events # <<>> /\ events' = Tail(events)
      BY <1>4 DEF HandleReset, ResetState
    <2>2. Range(events') \subseteq Range(events)
      BY <2>1, EventTaken
    <2> QED
      BY <1>0, <2>1, <2>2 DEF RoutingInv, DemuxCorrect, DeadChildSilent, CacheFromLiveChild
  <1> QED BY <1>1, <1>2, <1>3, <1>4 DEF RouterStep, RouterNext

LEMMA ReaperRouting ==
  ASSUME TypeOK, RoutingInv, ReaperStep
  PROVE  RoutingInv'
  <1>1. UNCHANGED <<held, cached_initialize, events, written, mgr, gen>>
    BY DEF ReaperStep, ReaperNext, ReapExpired, SendTimeouts
  <1>2. pending' \subseteq pending
    BY DEF ReaperStep, ReaperNext, ReapExpired, SendTimeouts
  <1>3. \A k : Accounted(k)' <=> Accounted(k)
    BY <1>1 DEF Accounted, Attached, ResetQueued
  <1> QED
    BY <1>1, <1>2, <1>3 DEF RoutingInv, DemuxCorrect, DeadChildSilent, CacheFromLiveChild

(* The manager lets go of a child only by sending its Reset.                 *)
LEMMA ManagerAccounts ==
  ASSUME TypeOK, ManagerStep
  PROVE  /\ \A k : Accounted(k) => Accounted(k)'
         /\ \A e \in Range(events') : e \in Range(events) \/ e.type = "reset"
  <1>1. CASE Cleanup
    <2>1. Reset(gen) \in ServerEvent
      BY <1>1 DEF Cleanup, Reset, ServerEvent, Children, TypeOK, ManagerTypeOK, WithChild
    <2>2. Range(events') = Range(events) \cup {Reset(gen)}
      BY <1>1, <2>1, EventSent DEF Cleanup
    <2>3. \A e \in Range(events') : e \in Range(events) \/ e.type = "reset"
      BY <2>2 DEF Reset
    <2>4. ASSUME NEW k, Accounted(k) PROVE ResetQueued(k)'
      <3>1. Reset(k) \in Range(events) \/ k = gen
        BY <2>4 DEF Accounted, Attached, ResetQueued
      <3> QED BY <2>2, <3>1 DEF ResetQueued, Reset
    <2> QED BY <2>3, <2>4 DEF Accounted
  <1>2. CASE StopAtTop \/ TakeFirst \/ PassCheck \/ GiveUp \/ Launch \/ SpawnFails \/ Clear \/ SleepBackoff
    BY <1>2 DEF StopAtTop, TakeFirst, PassCheck, GiveUp, Launch, SpawnFails, MayLaunch, Clear,
       SleepBackoff, Accounted, Attached, ResetQueued
  <1>3. CASE TakeMessage \/ WriteMessage \/ WriteFirstFails \/ WriteFails \/ ChildWaitDone
             \/ WaitFails \/ StopServing
    BY <1>3 DEF TakeMessage, WriteMessage, WriteFirstFails, WriteFails, ChildWaitDone,
       WaitFails, StopServing, InnerLoop, Accounted, Attached, ResetQueued
  <1> QED BY <1>1, <1>2, <1>3 DEF ManagerStep, ManagerNext

LEMMA ManagerRouting ==
  ASSUME TypeOK, RoutingInv, ManagerStep
  PROVE  RoutingInv'
  <1>1. UNCHANGED <<held, pending>>
    BY DEF ManagerStep, ManagerNext, StopAtTop, TakeFirst, PassCheck, GiveUp, Launch,
       SpawnFails,
       TakeMessage, WriteMessage, WriteFirstFails, WriteFails, ChildWaitDone, WaitFails,
       StopServing, Cleanup, Clear, SleepBackoff
  <1>2. cached_initialize' \subseteq cached_initialize
    BY DEF ManagerStep, ManagerNext, StopAtTop, TakeFirst, PassCheck, GiveUp, Launch,
       SpawnFails,
       TakeMessage, WriteMessage, WriteFirstFails, WriteFails, ChildWaitDone, WaitFails,
       StopServing, Cleanup, Clear, SleepBackoff
  <1>3. \A k \in Children : written'[k] = written[k] \/ Attached(k)'
    <2>1. CASE WriteMessage
      BY <2>1 DEF WriteMessage, InnerLoop, Attached, TypeOK, ManagerTypeOK
    <2>2. CASE ~WriteMessage
      BY <2>2 DEF ManagerStep, ManagerNext, StopAtTop, TakeFirst, PassCheck, GiveUp, Launch,
         SpawnFails,
         TakeMessage, WriteFirstFails, WriteFails, ChildWaitDone, WaitFails, StopServing,
         Cleanup, Clear, SleepBackoff
    <2> QED BY <2>1, <2>2
  <1>4. \A k \in Children : \A m \in written'[k] \cap pending : Accounted(k)'
    <2> SUFFICES ASSUME NEW k \in Children, NEW m \in written'[k] \cap pending
                 PROVE  Accounted(k)'
      OBVIOUS
    <2>1. CASE Attached(k)'
      BY <2>1 DEF Accounted
    <2>2. CASE written'[k] = written[k]
      BY <2>2, ManagerAccounts DEF RoutingInv, DeadChildSilent
    <2> QED BY <1>3, <2>1, <2>2
  <1>5. \A e \in Range(events') : e.type = "response" => e.msg \subseteq written'[e.child]
    <2> SUFFICES ASSUME NEW e \in Range(events'), e.type = "response"
                 PROVE  e.msg \subseteq written'[e.child]
      OBVIOUS
    <2>1. e \in Range(events)
      BY ManagerAccounts
    <2>2. e.msg \subseteq written[e.child]
      BY <2>1 DEF RoutingInv
    <2>3. Range(events) \subseteq ServerEvent
      BY RangeOfSeq DEF TypeOK, ChannelsTypeOK
    <2>4. e.child \in Children
      BY <2>1, <2>3 DEF ServerEvent
    <2>5. \A k \in Children : written[k] \subseteq written'[k]
      BY DEF ManagerStep, ManagerNext, StopAtTop, TakeFirst, PassCheck, GiveUp, Launch,
         SpawnFails,
         TakeMessage, WriteMessage, WriteFirstFails, WriteFails, ChildWaitDone, WaitFails,
         StopServing, Cleanup, Clear, SleepBackoff, TypeOK, ManagerTypeOK
    <2> QED BY <2>2, <2>4, <2>5
  <1> QED
    BY <1>1, <1>2, <1>4, <1>5, ManagerAccounts
    DEF RoutingInv, DemuxCorrect, DeadChildSilent, CacheFromLiveChild

LEMMA ChildRouting ==
  ASSUME TypeOK, RoutingInv, NEW k \in Children, ChildStep(k)
  PROVE  RoutingInv'
  <1>1. UNCHANGED <<held, cached_initialize, pending, written, mgr, gen>>
    BY DEF ChildStep, ChildNext, ChildExits, ChildResponds, ReaderEnds
  <1>2. ASSUME NEW m \in written[k], ChildResponds(k, m)
        PROVE  Range(events') = Range(events) \cup {Response(k, m)}
    <2>1. m \in Entry
      BY <1>2 DEF ChildResponds, Message, Notification, TypeOK, ManagerTypeOK
    <2>2. Response(k, m) \in ServerEvent
      BY <2>1 DEF Response, ServerEvent
    <2> QED BY <1>2, <2>2, EventSent DEF ChildResponds
  <1>3. \/ events' = events
        \/ \E m \in written[k] : Range(events') = Range(events) \cup {Response(k, m)}
    BY <1>2 DEF ChildStep, ChildNext, ChildExits, ReaderEnds
  <1>4. \A x : Accounted(x) => Accounted(x)'
    BY <1>1, <1>3 DEF Accounted, Attached, ResetQueued
  <1>5. \A e \in Range(events') : e.type = "response" => e.msg \subseteq written[e.child]
    BY <1>3 DEF RoutingInv, Response
  <1> QED
    BY <1>1, <1>4, <1>5 DEF RoutingInv, DemuxCorrect, DeadChildSilent, CacheFromLiveChild

LEMMA NextRouting == TypeOK /\ IdsUnique /\ RoutingInv /\ [Next]_vars => RoutingInv'
  <1> SUFFICES ASSUME TypeOK, IdsUnique, RoutingInv, [Next]_vars PROVE RoutingInv'
    OBVIOUS
  <1>1. CASE Shutdown \/ MainExit \/ UNCHANGED vars
    BY <1>1 DEF Shutdown, MainExit, vars, RoutingInv, DemuxCorrect, DeadChildSilent,
       CacheFromLiveChild, Accounted, Attached, ResetQueued
  <1> QED
    BY <1>1, ClientRouting, RouterRouting, ReaperRouting, ManagerRouting, ChildRouting DEF Next

LEMMA RoutingInvariant == Spec => [](TypeOK /\ IdsUnique /\ RoutingInv)
  <1>1. Init => TypeOK /\ IdsUnique /\ RoutingInv
    BY InitType, InitIds, InitRouting
  <1>2. TypeOK /\ IdsUnique /\ RoutingInv /\ [Next]_vars => (TypeOK /\ IdsUnique /\ RoutingInv)'
    BY NextType, NextIds, NextRouting
  <1> QED BY <1>1, <1>2, PTL DEF Spec

(* A response reaches the request it answers, whatever ids were issued and    *)
(* whatever was dropped, reaped or reset meanwhile (next_request_id, the      *)
(* removal by id in handle_server_message).                                   *)
THEOREM ResponsesReachTheirRequest == Spec => []DemuxCorrect
  <1>1. RoutingInv => DemuxCorrect
    BY DEF RoutingInv
  <1> QED BY <1>1, RoutingInvariant, PTL

(* No pending request hangs on a child that is gone: every request a child    *)
(* has read is that of the child being served or of one whose Reset is queued *)
(* (server_manager, reset_state).                                             *)
THEOREM NoRequestHangsOnDeadChild == Spec => []DeadChildSilent
  <1>1. RoutingInv => DeadChildSilent
    BY DEF RoutingInv
  <1> QED BY <1>1, RoutingInvariant, PTL

(* The cached initialize response is of the child being served or of one      *)
(* whose Reset, which clears it, is queued (handle_server_message, the        *)
(* cleanup of server_manager).                                                *)
THEOREM CacheIsOfLiveChild == Spec => []CacheFromLiveChild
  <1>1. RoutingInv => CacheFromLiveChild
    BY DEF RoutingInv
  <1> QED BY <1>1, RoutingInvariant, PTL
=============================================================================
