---------------------------- MODULE OrderProofs -----------------------------
(***************************************************************************)
(* The order in which the children read a client's requests, for every set *)
(* of clients, every limit and any number of children.                     *)
(*                                                                         *)
(* A message goes from the hands of its handler (Blocked) through the      *)
(* queue and the manager's hand (in_hand) to a child (Read).  No step puts *)
(* one back, so the requests of a client are in the order of their local   *)
(* ids along that way, whatever is dropped on it.  And what is dropped is  *)
(* answered: a pending request is on that way, or a Reset is coming, but   *)
(* for the cases NoneStranded names.                                       *)
(***************************************************************************)
EXTENDS LimitProofs

USE DEF handlerVars, routerVars, managerVars, muxVars, tableVars, initVars,
        statusVars, queueVars, mainVars

Before(x, y) == x.seq > 0 /\ y.seq > 0 /\ x.client = y.client => x.lid < y.lid

Underway == Blocked \cup Range(queue) \cup in_hand \cup Read

OrderInv ==
  /\ \A c \in Clients : \A m \in outgoing[c] : m.client = c
  /\ \A m \in Underway : m.seq > 0 => m.lid <= sent[m.client]
  /\ \A x \in Read : \A y \in in_hand \cup Range(queue) \cup Blocked : Before(x, y)
  /\ \A x, y \in in_hand : x = y
  /\ \A x \in in_hand : \A y \in Range(queue) \cup Blocked : Before(x, y)
  /\ \A x \in Range(queue) : \A y \in Blocked : Before(x, y)
  /\ \A i, j \in DOMAIN queue : i < j => Before(queue[i], queue[j])

LEMMA InitOrder == Init => OrderInv
BY NothingQueued DEF Init, ChannelsInit, HandlerInit, ManagerInit, OrderInv, Underway,
   Blocked, Read

LEMMA UnderwayType ==
  ASSUME TypeOK
  PROVE  /\ Underway \subseteq Message
         /\ \A m \in Message : /\ m.client \in Clients
                               /\ m.lid \in Nat /\ m.seq \in Nat
<1>1. Blocked \subseteq Message
  BY DEF Blocked, TypeOK, Message, HandlerTypeOK
<1>2. Range(queue) \subseteq Message
  BY RangeOfSeq DEF TypeOK, ChannelsTypeOK
<1>3. in_hand \subseteq Message /\ Read \subseteq Message
  BY DEF Read, TypeOK, ManagerTypeOK
<1>4. \A m \in Message : m.client \in Clients /\ m.lid \in Nat /\ m.seq \in Nat
  BY ConstantsAssumption DEF Message, Entry, Notification, Lids
<1>5. QED BY <1>1, <1>2, <1>3, <1>4 DEF Underway

-----------------------------------------------------------------------------
(* Sequences.                                                               *)

LEMMA QueuedInOrder ==
  ASSUME TypeOK, OrderInv, NEW m \in Message, queue' = Append(queue, m),
         \A x \in Range(queue) : Before(x, m)
  PROVE  \A i, j \in DOMAIN queue' : i < j => Before(queue'[i], queue'[j])
<1>1. queue \in Seq(Message)
  BY DEF TypeOK, ChannelsTypeOK
<1>2. /\ DOMAIN queue' = 1..Len(queue) + 1 /\ DOMAIN queue = 1..Len(queue)
      /\ \A i \in 1..Len(queue) : queue'[i] = queue[i]
      /\ queue'[Len(queue) + 1] = m /\ Len(queue) \in Nat
  BY <1>1
<1>3. \A i \in 1..Len(queue) : queue[i] \in Range(queue)
  BY <1>2 DEF Range
<1>4. QED BY <1>2, <1>3 DEF OrderInv

LEMMA TakenInOrder ==
  ASSUME TypeOK, OrderInv, queue # <<>>, queue' = Tail(queue)
  PROVE  /\ \A i, j \in DOMAIN queue' : i < j => Before(queue'[i], queue'[j])
         /\ \A y \in Range(queue') : Before(Head(queue), y)
<1>1. queue \in Seq(Message)
  BY DEF TypeOK, ChannelsTypeOK
<1>2. /\ DOMAIN queue' = 1..Len(queue) - 1 /\ DOMAIN queue = 1..Len(queue)
      /\ \A i \in 1..Len(queue) - 1 : queue'[i] = queue[i + 1]
      /\ Head(queue) = queue[1] /\ Len(queue) \in Nat /\ Len(queue) > 0
  BY <1>1
<1>3. QED BY <1>2 DEF OrderInv, Range

-----------------------------------------------------------------------------
(* Most steps only drop messages, and let clients send.                     *)
LEMMA DroppingKeepsOrder ==
  ASSUME TypeOK, TypeOK', OrderInv,
         UNCHANGED <<outgoing, written>>,
         in_hand' \subseteq in_hand, queue' \in {queue, <<>>},
         \A c \in Clients : sent[c] <= sent'[c]
  PROVE  OrderInv'
<1>1. Blocked' = Blocked /\ Read' = Read
  BY DEF Blocked, Read
<1>2. Range(queue') \subseteq Range(queue)
  BY NothingQueued
<1>3. \A c \in Clients : sent[c] \in Nat /\ sent'[c] \in Nat
  BY DEF TypeOK, HandlerTypeOK
<1>4. Underway' \subseteq Underway
  BY <1>1, <1>2 DEF Underway
<1>5. \A m \in Underway' : m.seq > 0 => m.lid <= sent'[m.client]
  BY <1>3, <1>4, UnderwayType DEF OrderInv
<1>6. \A i, j \in DOMAIN queue' : i < j => Before(queue'[i], queue'[j])
  BY DEF OrderInv
<1>7. QED BY <1>1, <1>2, <1>5, <1>6 DEF OrderInv

LEMMA ForwardKeepsOrder ==
  ASSUME TypeOK, OrderInv, NEW c \in Clients, NEW n \in Lids, NEW i \in BOOLEAN,
         Forward(c, n, i), ~Overloaded, NextRequest(c, n),
         UNCHANGED <<queue, in_hand, written>>
  PROVE  OrderInv'
<1> DEFINE p == [seq |-> next_global_id, client |-> c, lid |-> n, is_initialize |-> i]
<1>1. outgoing' = [outgoing EXCEPT ![c] = {p}]
  BY DEF Forward
<1>2. \A m \in Blocked' : m \in Blocked \/ m = p
  BY <1>1 DEF Blocked, TypeOK, HandlerTypeOK
<1>3. /\ p.client = c /\ p.lid = sent[c] + 1 /\ sent'[c] = sent[c] + 1
      /\ \A d \in Clients : sent[d] \in Nat /\ sent[d] <= sent'[d] /\ sent'[d] \in Nat
  BY DEF NextRequest, TypeOK, HandlerTypeOK
<1>4. Read' = Read
  BY DEF Read
<1>5. \A x \in Underway : Before(x, p)
  BY <1>3, UnderwayType DEF OrderInv, Before
<1>6. \A m \in Underway' : m \in Underway \/ m = p
  BY <1>2, <1>4 DEF Underway
<1>7. \A m \in Underway' : m.seq > 0 => m.lid <= sent'[m.client]
  <2> SUFFICES ASSUME NEW m \in Underway', m.seq > 0
               PROVE  m.lid <= sent'[m.client]
    OBVIOUS
  <2>1. CASE m = p BY <1>3, <2>1
  <2>2. CASE m \in Underway BY <1>3, <2>2, UnderwayType DEF OrderInv
  <2>3. QED BY <1>6, <2>1, <2>2
<1>8. \A d \in Clients : \A m \in outgoing'[d] : m.client = d
  BY <1>1, <1>3 DEF OrderInv, TypeOK, HandlerTypeOK
<1>9. QED BY <1>2, <1>4, <1>5, <1>7, <1>8 DEF OrderInv, Underway

LEMMA EnqueueKeepsOrder ==
  ASSUME TypeOK, OrderInv, NEW c \in Clients, EnqueueOutgoing(c),
         UNCHANGED <<in_hand, written>>
  PROVE  OrderInv'
<1>1. PICK m \in outgoing[c] : queue' = Append(queue, m)
  BY DEF EnqueueOutgoing
<1>2. m \in Message /\ m \in Blocked /\ m.client = c
  BY DEF Blocked, Message, TypeOK, HandlerTypeOK, OrderInv
<1>3. Range(queue') = Range(queue) \cup {m}
  BY <1>1, <1>2, MessageQueued
<1>4. \A y \in Blocked' : y \in Blocked /\ y.client # c
  BY DEF EnqueueOutgoing, Blocked, TypeOK, HandlerTypeOK, OrderInv
<1>5. \A x \in Read \cup in_hand \cup Range(queue) : Before(x, m)
  BY <1>2 DEF OrderInv
<1>6. \A i, j \in DOMAIN queue' : i < j => Before(queue'[i], queue'[j])
  BY <1>1, <1>2, <1>5, QueuedInOrder
<1>7. Read' = Read /\ in_hand' = in_hand /\ sent' = sent
  BY DEF Read, EnqueueOutgoing
<1>8. \A y \in Blocked' : Before(m, y)
  BY <1>2, <1>4 DEF Before
<1>9. \A d \in Clients : \A o \in outgoing'[d] : o.client = d
  BY DEF EnqueueOutgoing, OrderInv, TypeOK, HandlerTypeOK
<1>10. \A x \in Underway' : x \in Underway
  BY <1>2, <1>3, <1>4, <1>7 DEF Underway
<1>11. QED BY <1>3, <1>4, <1>5, <1>6, <1>7, <1>8, <1>9, <1>10 DEF OrderInv

LEMMA ClientKeepsOrder ==
  ASSUME TypeOK, TypeOK', HandlerInv, OrderInv, NEW c \in Clients, ClientStep(c)
  PROVE  OrderInv'
<1>0. UNCHANGED <<in_hand, written>>
  BY DEF ClientStep
<1>1. CASE HandleOversized(c) \/ HandleRequest(c) \/ HandleInitialize(c)
  <2>1. PICK n \in Lids :
          /\ NextRequest(c, n)
          /\ \/ AnswerAtOnce(c, n) \/ Wait(c, n)
             \/ \E i \in BOOLEAN : Forward(c, n, i) /\ ~Overloaded
    BY <1>1, RequestSteps
  <2>2. queue' = queue
    BY <1>1, RequestSteps
  <2>3. CASE AnswerAtOnce(c, n) \/ Wait(c, n)
    <3>1. UNCHANGED <<outgoing, queue, in_hand, written>>
      BY <1>0, <2>2, <2>3 DEF AnswerAtOnce, Wait
    <3>2. \A d \in Clients : sent[d] <= sent'[d]
      BY <2>1 DEF NextRequest, TypeOK, HandlerTypeOK
    <3>3. QED BY <3>1, <3>2, DroppingKeepsOrder
  <2>4. QED BY <1>0, <2>1, <2>2, <2>3, ForwardKeepsOrder
<1>2. CASE HandleNotification(c)
  <2>1. Notification(c) \in Message /\ Notification(c).seq = 0
    BY DEF Message, Notification
  <2>2. UNCHANGED <<outgoing, sent>> /\ Blocked' = Blocked /\ Read' = Read
    BY <1>0, <1>2 DEF HandleNotification, Blocked, Read
  <2>3. \A x : Before(x, Notification(c)) /\ Before(Notification(c), x)
    BY <2>1 DEF Before
  <2>4. CASE queue' = Append(queue, Notification(c))
    <3>1. Range(queue') = Range(queue) \cup {Notification(c)}
      BY <2>1, <2>4, MessageQueued
    <3>2. \A i, j \in DOMAIN queue' : i < j => Before(queue'[i], queue'[j])
      BY <2>1, <2>3, <2>4, QueuedInOrder
    <3>3. QED BY <1>0, <2>1, <2>2, <2>3, <3>1, <3>2 DEF OrderInv, Underway
  <2>5. CASE queue' = queue
    BY <1>0, <2>2, <2>5 DEF OrderInv, Underway
  <2>6. QED BY <1>2, <2>4, <2>5 DEF HandleNotification
<1>3. CASE EnqueueOutgoing(c)
  BY <1>0, <1>3, EnqueueKeepsOrder
<1>4. CASE ChannelClosed(c)
  <2>1. \A m \in Blocked' : m \in Blocked
    BY <1>4 DEF ChannelClosed, Blocked, TypeOK, HandlerTypeOK
  <2>2. \A d \in Clients : outgoing'[d] \subseteq outgoing[d]
    BY <1>4 DEF ChannelClosed, TypeOK, HandlerTypeOK
  <2>3. UNCHANGED <<queue, sent>> /\ Read' = Read
    BY <1>0, <1>4 DEF ChannelClosed, Read
  <2>4. QED BY <1>0, <2>1, <2>2, <2>3 DEF OrderInv, Underway
<1>5. CASE Accept(c) \/ AcquirePermit(c) \/ Register(c) \/ LeaveLoop(c) \/ FinishClose(c)
           \/ DecodeError(c) \/ WriterEnds(c)
  <2>1. UNCHANGED <<outgoing, queue, sent>>
    BY <1>5 DEF Accept, AcquirePermit, Register, LeaveLoop, FinishClose, DecodeError, WriterEnds
  <2>2. \A d \in Clients : sent[d] <= sent'[d]
    BY <2>1 DEF TypeOK, HandlerTypeOK
  <2>3. QED BY <1>0, <2>1, <2>2, DroppingKeepsOrder
<1>6. QED BY <1>1, <1>2, <1>3, <1>4, <1>5 DEF ClientStep, ClientNext

LEMMA ManagerKeepsOrder ==
  ASSUME TypeOK, TypeOK', OrderInv, ManagerStep
  PROVE  OrderInv'
<1>0. UNCHANGED <<outgoing, sent>> /\ Blocked' = Blocked
  BY DEF ManagerStep, Blocked
<1>1. CASE TakeFirst \/ TakeMessage
  <2>1. /\ queue # <<>> /\ queue' = Tail(queue) /\ in_hand' = {Head(queue)}
        /\ UNCHANGED written
    BY <1>1 DEF TakeFirst, TakeMessage
  <2>2. Range(queue) = {Head(queue)} \cup Range(queue')
    BY <2>1, MessageTaken
  <2>3. Read' = Read
    BY <2>1 DEF Read
  <2>4. QED BY <1>0, <2>1, <2>2, <2>3, TakenInOrder DEF OrderInv, Underway
<1>2. CASE WriteMessage
  <2>1. \A m \in Read' : m \in Read \/ m \in in_hand
    BY <1>2, ReadGrows DEF WriteMessage
  <2>2. in_hand' = {} /\ UNCHANGED queue
    BY <1>2 DEF WriteMessage
  <2>3. QED BY <1>0, <2>1, <2>2 DEF OrderInv, Underway
<1>3. CASE ~TakeFirst /\ ~TakeMessage /\ ~WriteMessage
  <2>1. UNCHANGED written /\ in_hand' \subseteq in_hand /\ queue' \in {queue, <<>>}
    BY <1>3 DEF ManagerStep, ManagerNext, StopAtTop, PassCheck, GiveUp, Launch, SpawnFails,
       WriteFirstFails, WriteFails, ChildWaitDone, WaitFails, StopServing, Cleanup, Clear,
       SleepBackoff, ManagerReturns
  <2>2. \A d \in Clients : sent[d] <= sent'[d]
    BY <1>0 DEF TypeOK, HandlerTypeOK
  <2>3. QED BY <1>0, <2>1, <2>2, DroppingKeepsOrder
<1>4. QED BY <1>1, <1>2, <1>3

LEMMA NextOrder ==
  ASSUME TypeOK, TypeOK', HandlerInv, OrderInv, [Next]_vars
  PROVE  OrderInv'
<1>1. ASSUME UNCHANGED <<outgoing, queue, in_hand, written, sent>>
      PROVE  OrderInv'
  BY <1>1 DEF OrderInv, Underway, Blocked, Read
<1>2. CASE RouterStep \/ ReaperStep
  BY <1>1, <1>2 DEF RouterStep, RouterNext, RouteResponse, DeliverResponse, CacheInitialize,
     HandleReset, ReaperStep, ReaperNext, ReapExpired, SendTimeouts
<1>3. CASE (\E k \in Children : ChildStep(k)) \/ Shutdown \/ MainExit \/ UNCHANGED vars
  BY <1>1, <1>3 DEF ChildStep, ChildNext, ChildExits, ChildResponds, ReaderEnds, Shutdown,
     MainExit, vars
<1>4. QED BY <1>2, <1>3, ClientKeepsOrder, ManagerKeepsOrder DEF Next

LEMMA OrderInvariant == Spec => [](TypeOK /\ HandlerInv /\ OrderInv)
<1>1. TypeOK /\ HandlerInv /\ OrderInv /\ [Next]_vars => OrderInv'
  BY NextType, NextOrder
<1>2. QED BY <1>1, InitOrder, HandlerInvariant, PTL DEF Spec

(* Only the manager's write adds to what a child has read, and what it adds  *)
(* was in its hand.                                                          *)
LEMMA OnlyWritesRead ==
  ASSUME TypeOK, [Next]_vars
  PROVE  \/ UNCHANGED written
         \/ WriteMessage /\ \A k \in Children : written'[k] \subseteq written[k] \cup in_hand
<1>1. CASE ManagerStep
  <2>1. WriteMessage => \A k \in Children : written'[k] \subseteq written[k] \cup in_hand
    BY DEF WriteMessage, TypeOK, ManagerTypeOK
  <2>2. ~WriteMessage => UNCHANGED written
    BY <1>1 DEF ManagerStep, ManagerNext, StopAtTop, TakeFirst, PassCheck, GiveUp, Launch,
       SpawnFails,
       TakeMessage, WriteFirstFails, WriteFails, ChildWaitDone, WaitFails, StopServing,
       Cleanup, Clear, SleepBackoff
  <2>3. QED BY <2>1, <2>2
<1>2. CASE RouterStep \/ ReaperStep \/ (\E c \in Clients : ClientStep(c))
  BY <1>2 DEF RouterStep, ReaperStep, ClientStep
<1>3. CASE (\E k \in Children : ChildStep(k)) \/ Shutdown \/ MainExit \/ UNCHANGED vars
  BY <1>3 DEF ChildStep, ChildNext, ChildExits, ChildResponds, ReaderEnds, Shutdown,
     MainExit, vars
<1>4. QED BY <1>1, <1>2, <1>3 DEF Next

(* What a child reads next of a client was sent after everything any child   *)
(* has read of it: no restart, failed write or lost message makes a request  *)
(* be read twice or overtaken (to_server_tx, server_manager).                *)
THEOREM ReadInOrder == Spec => OrderedAtMostOnce
<1>1. ASSUME TypeOK, OrderInv, [Next]_vars
      PROVE  [\A k \in Children : \A m \in (written'[k] \ written[k]) \cup (in_hand \ in_hand') :
                m.seq > 0 => \A j \in Children : \A x \in written[j] :
                               (x.seq > 0 /\ x.client = m.client) => x.lid < m.lid]_vars
  <2> SUFFICES ASSUME NEW k \in Children,
                      NEW m \in (written'[k] \ written[k]) \cup (in_hand \ in_hand'),
                      m.seq > 0,
                      NEW j \in Children, NEW x \in written[j], x.seq > 0, x.client = m.client
               PROVE  x.lid < m.lid
    OBVIOUS
  <2>1. m \in in_hand
    BY <1>1, OnlyWritesRead
  <2>2. x \in Read
    BY DEF Read
  <2>3. QED BY <1>1, <2>1, <2>2 DEF OrderInv, Before
<1>2. QED BY <1>1, OrderInvariant, PTL DEF Spec, OrderedAtMostOnce

-----------------------------------------------------------------------------
(* Nothing is stranded.  A handler has one message in its hands, and the    *)
(* manager has one only before its child is there, while it writes the      *)
(* first message to it, or later one from the queue.  The first message is  *)
(* that of a lazy start, and of the first child.                            *)
WayInv ==
  /\ \A c \in Clients : \A x, y \in outgoing[c] : x = y
  /\ ~queue_open => mgr = "done"
  /\ in_hand # {} => mgr \in {"top", "ready", "first", "writing"}
  /\ in_hand # {} /\ mgr \in {"top", "ready"} => LazyStart /\ restarts = 0
  /\ restarts = 0 /\ mgr \in {"top", "ready"} => gen = 0
  /\ mgr = "backoff" => restarts > 0
  /\ mgr = "first" => LazyStart /\ gen = 1

LEMMA InitWay == Init => WayInv
BY DEF Init, MuxStateInit, ChannelsInit, HandlerInit, ManagerInit, WayInv

LEMMA ClientWay ==
  ASSUME TypeOK, WayInv, NEW c \in Clients, ClientStep(c)
  PROVE  WayInv'
<1>1. UNCHANGED <<queue_open, mgr, gen, in_hand, restarts>>
  BY DEF ClientStep, ClientNext, Accept, AcquirePermit, Register, HandleOversized,
     HandleNotification, HandleRequest, HandleInitialize, EnqueueOutgoing, ChannelClosed,
     LeaveLoop, FinishClose, DecodeError, WriterEnds
<1>2. \A d \in Clients : \A x, y \in outgoing'[d] : x = y
  <2>1. CASE HandleOversized(c) \/ HandleRequest(c) \/ HandleInitialize(c)
    <3>1. PICK n \in Lids :
            \/ AnswerAtOnce(c, n) \/ Wait(c, n)
            \/ \E i \in BOOLEAN : Forward(c, n, i) /\ ~Overloaded
      BY <2>1, RequestSteps
    <3>2. CASE AnswerAtOnce(c, n) \/ Wait(c, n)
      BY <3>2 DEF AnswerAtOnce, Wait, WayInv
    <3>3. CASE \E i \in BOOLEAN : Forward(c, n, i) /\ ~Overloaded
      <4>1. PICK p : outgoing' = [outgoing EXCEPT ![c] = {p}]
        BY <3>3 DEF Forward
      <4>2. QED BY <4>1 DEF WayInv, TypeOK, HandlerTypeOK
    <3>4. QED BY <3>1, <3>2, <3>3
  <2>2. CASE EnqueueOutgoing(c) \/ ChannelClosed(c)
    BY <2>2 DEF EnqueueOutgoing, ChannelClosed, WayInv, TypeOK, HandlerTypeOK
  <2>3. CASE \/ Accept(c) \/ AcquirePermit(c) \/ Register(c) \/ HandleNotification(c)
             \/ LeaveLoop(c) \/ FinishClose(c) \/ DecodeError(c) \/ WriterEnds(c)
    BY <2>3 DEF Accept, AcquirePermit, Register, HandleNotification, LeaveLoop, FinishClose,
       DecodeError, WriterEnds, WayInv
  <2>4. QED BY <2>1, <2>2, <2>3 DEF ClientStep, ClientNext
<1>3. QED BY <1>1, <1>2 DEF WayInv

LEMMA ManagerWay ==
  ASSUME TypeOK, WayInv, ManagerStep
  PROVE  WayInv'
<1>0. UNCHANGED outgoing /\ restarts \in Nat /\ gen \in Nat
  BY DEF ManagerStep, TypeOK, MuxStateTypeOK, ManagerTypeOK
<1> USE DEF WayInv, ManagerReturns
<1>1. CASE StopAtTop \/ SpawnFails
  BY <1>0, <1>1 DEF StopAtTop, SpawnFails
<1>2. CASE TakeFirst
  BY <1>0, <1>2 DEF TakeFirst, AwaitsFirst
<1>3. CASE PassCheck \/ GiveUp
  BY <1>0, <1>3, ConstantsAssumption DEF PassCheck, GiveUp
<1>4. CASE Launch
  BY <1>0, <1>4 DEF Launch, MayLaunch, InnerLoop
<1>5. CASE TakeMessage \/ WriteMessage \/ WriteFirstFails \/ WriteFails
  BY <1>0, <1>5 DEF TakeMessage, WriteMessage, WriteFirstFails, WriteFails, InnerLoop
<1>6. CASE ChildWaitDone \/ WaitFails \/ StopServing \/ Cleanup
  BY <1>0, <1>6 DEF ChildWaitDone, WaitFails, StopServing, Cleanup
<1>7. CASE Clear \/ SleepBackoff
  BY <1>0, <1>7 DEF Clear, SleepBackoff
<1>8. QED BY <1>1, <1>2, <1>3, <1>4, <1>5, <1>6, <1>7 DEF ManagerStep, ManagerNext

LEMMA NextWay ==
  ASSUME TypeOK, WayInv, [Next]_vars
  PROVE  WayInv'
<1>1. CASE \/ RouterStep \/ ReaperStep \/ (\E k \in Children : ChildStep(k))
           \/ Shutdown \/ MainExit \/ UNCHANGED vars
  <2>1. UNCHANGED <<outgoing, queue_open, mgr, gen, in_hand, restarts>>
    BY <1>1 DEF RouterStep, RouterNext, RouteResponse, DeliverResponse, CacheInitialize,
       HandleReset, ReaperStep, ReaperNext, ReapExpired, SendTimeouts, ChildStep, ChildNext,
       ChildExits, ChildResponds, ReaderEnds, Shutdown, MainExit, vars
  <2>2. QED BY <2>1 DEF WayInv
<1>2. QED BY <1>1, ClientWay, ManagerWay DEF Next

-----------------------------------------------------------------------------
(* Where there is an excuse for a request that is stranded, there stays one. *)
FirstLost == LazyStart /\ gen = 1 /\ mgr \in {"serving", "writing"}

LEMMA ExcuseStays ==
  ASSUME NoneStranded, Stranded' \subseteq Stranded,
         ResetComing => ResetComing' \/ Stranded' = {},
         mgr = "done" => mgr' = "done",
         FirstLost => FirstLost' \/ ResetComing' \/ mgr' = "done"
  PROVE  NoneStranded'
<1> SUFFICES ASSUME Stranded' # {}, ~ResetComing', mgr' # "done"
             PROVE  FirstLost' /\ \E m \in Stranded' : Stranded' = {m}
  BY DEF NoneStranded, FirstLost
<1>1. Stranded # {} /\ ~ResetComing /\ mgr # "done"
  OBVIOUS
<1>2. FirstLost /\ \E m \in Stranded : Stranded = {m}
  BY <1>1 DEF NoneStranded, FirstLost
<1>3. QED BY <1>2

LEMMA ClientCarries ==
  ASSUME TypeOK, HandlerInv, WayInv, NEW c \in Clients, ClientStep(c), mgr # "done"
  PROVE  Stranded' \subseteq Stranded
<1>0. UNCHANGED <<in_hand, written, events, mgr, gen>>
  BY DEF ClientStep, ClientNext, Accept, AcquirePermit, Register, HandleOversized,
     HandleNotification, HandleRequest, HandleInitialize, EnqueueOutgoing, ChannelClosed,
     LeaveLoop, FinishClose, DecodeError, WriterEnds
<1>1. \A k : Accounted(k)' <=> Accounted(k)
  BY <1>0 DEF Accounted, Attached, ResetQueued
<1>2. ASSUME NEW p, outgoing' = [outgoing EXCEPT ![c] = {p}], outgoing[c] = {},
             \A m \in pending' : m \in pending \/ m = p, UNCHANGED queue
      PROVE  Stranded' \subseteq Stranded
  <2>1. /\ \A d \in Clients : outgoing[d] \subseteq outgoing'[d]
        /\ p \in outgoing'[c]
    BY <1>2 DEF TypeOK, HandlerTypeOK
  <2>2. QED BY <1>0, <1>1, <1>2, <2>1 DEF Stranded, OnItsWay
<1>3. CASE HandleOversized(c) \/ HandleRequest(c) \/ HandleInitialize(c)
  <2>1. conn[c] = "reading" /\ UNCHANGED queue /\ outgoing[c] = {}
    BY <1>3, RequestSteps DEF HandlerInv
  <2>2. \/ UNCHANGED <<pending, outgoing>>
        \/ \E p : /\ outgoing' = [outgoing EXCEPT ![c] = {p}]
                  /\ \A m \in pending' : m \in pending \/ m = p
    BY <1>3, RequestSteps DEF AnswerAtOnce, Wait, Forward, InsertPending
  <2>3. CASE UNCHANGED <<pending, outgoing>>
    BY <1>0, <1>1, <2>1, <2>3 DEF Stranded, OnItsWay
  <2>4. QED BY <1>2, <2>1, <2>2, <2>3
<1>4. CASE HandleNotification(c)
  <2>1. Notification(c) \in Message
    BY DEF Message
  <2>2. Range(queue) \subseteq Range(queue')
    BY <1>4, <2>1, MessageQueued DEF HandleNotification
  <2>3. UNCHANGED <<pending, outgoing>>
    BY <1>4 DEF HandleNotification
  <2>4. QED BY <1>0, <1>1, <2>2, <2>3 DEF Stranded, OnItsWay
<1>5. CASE EnqueueOutgoing(c)
  <2>1. PICK m \in outgoing[c] : queue' = Append(queue, m)
    BY <1>5 DEF EnqueueOutgoing
  <2>2. m \in Message
    BY DEF Message, TypeOK, HandlerTypeOK
  <2>3. Range(queue') = Range(queue) \cup {m}
    BY <2>1, <2>2, MessageQueued
  <2>4. \A d \in Clients : \A x \in outgoing[d] : x \in outgoing'[d] \/ x = m
    BY <1>5 DEF EnqueueOutgoing, WayInv, TypeOK, HandlerTypeOK
  <2>5. UNCHANGED pending
    BY <1>5 DEF EnqueueOutgoing
  <2>6. QED BY <1>0, <1>1, <2>3, <2>4, <2>5 DEF Stranded, OnItsWay
<1>6. CASE ChannelClosed(c)
  BY <1>6 DEF ChannelClosed, WayInv
<1>7. CASE \/ Accept(c) \/ AcquirePermit(c) \/ Register(c) \/ LeaveLoop(c) \/ FinishClose(c)
           \/ DecodeError(c) \/ WriterEnds(c)
  <2>1. UNCHANGED <<outgoing, queue>> /\ pending' \subseteq pending
    BY <1>7 DEF Accept, AcquirePermit, Register, LeaveLoop, FinishClose, DecodeError,
       WriterEnds, UnregisterClient
  <2>2. QED BY <1>0, <1>1, <2>1 DEF Stranded, OnItsWay
<1>8. QED BY <1>3, <1>4, <1>5, <1>6, <1>7 DEF ClientStep, ClientNext

(* The router, the reaper, the children and main leave the messages where    *)
(* they are; only the reset itself, which answers what is pending, is taken  *)
(* from the events.                                                          *)
LEMMA OthersCarry ==
  ASSUME NoneStranded, UNCHANGED <<outgoing, queue, in_hand, written, mgr, gen>>,
         pending' \subseteq pending, \A k : ResetQueued(k) => ResetQueued(k)'
  PROVE  NoneStranded'
<1>1. \A k : Accounted(k) => Accounted(k)'
  BY DEF Accounted, Attached
<1>2. Stranded' \subseteq Stranded
  BY <1>1 DEF Stranded, OnItsWay
<1>3. ResetComing => ResetComing'
  BY DEF ResetComing
<1>4. QED BY <1>2, <1>3, ExcuseStays DEF FirstLost

LEMMA RouterStrandsNone ==
  ASSUME TypeOK, NoneStranded, RouterStep
  PROVE  NoneStranded'
<1>1. UNCHANGED <<outgoing, queue, in_hand, written, mgr, gen>>
  BY DEF RouterStep, RouterNext, RouteResponse, DeliverResponse, CacheInitialize, HandleReset
<1>2. pending' \subseteq pending
  BY OthersOnlyTake
<1>3. CASE RouteResponse
  <2>1. events # <<>> /\ events' = Tail(events) /\ Head(events).type = "response"
    BY <1>3 DEF RouteResponse
  <2>2. Range(events) = {Head(events)} \cup Range(events')
    BY <2>1, EventTaken
  <2>3. \A k : ResetQueued(k) => ResetQueued(k)'
    BY <2>1, <2>2 DEF ResetQueued, Reset
  <2>4. QED BY <1>1, <1>2, <2>3, OthersCarry
<1>4. CASE DeliverResponse \/ CacheInitialize
  BY <1>1, <1>2, <1>4, OthersCarry DEF DeliverResponse, CacheInitialize, ResetQueued
<1>5. CASE HandleReset
  BY <1>5 DEF HandleReset, ResetState, NoneStranded, Stranded
<1>6. QED BY <1>3, <1>4, <1>5 DEF RouterStep, RouterNext

LEMMA ChildStrandsNone ==
  ASSUME TypeOK, NoneStranded, NEW k \in Children, ChildStep(k)
  PROVE  NoneStranded'
<1>1. UNCHANGED <<outgoing, queue, in_hand, written, mgr, gen, pending>>
  BY DEF ChildStep, ChildNext, ChildExits, ChildResponds, ReaderEnds
<1>2. ASSUME NEW m \in written[k], ChildResponds(k, m)
      PROVE  Range(events) \subseteq Range(events')
  <2>1. m \in Entry
    BY <1>2 DEF ChildResponds, Message, Notification, TypeOK, ManagerTypeOK
  <2>2. Response(k, m) \in ServerEvent
    BY <2>1 DEF Response, ServerEvent
  <2>3. QED BY <1>2, <2>2, EventSent DEF ChildResponds
<1>3. Range(events) \subseteq Range(events')
  BY <1>2 DEF ChildStep, ChildNext, ChildExits, ReaderEnds
<1>4. QED BY <1>1, <1>3, OthersCarry DEF ResetQueued

LEMMA ManagerStrandsNone ==
  ASSUME TypeOK, OrderInv, WayInv, NoneStranded, ManagerStep
  PROVE  NoneStranded'
<1>0. UNCHANGED <<outgoing, pending>> /\ \A k : Accounted(k) => Accounted(k)'
  BY ManagerAccounts DEF ManagerStep, ManagerNext, StopAtTop, TakeFirst, PassCheck, GiveUp, Launch,
     SpawnFails, TakeMessage, WriteMessage, WriteFirstFails, WriteFails, ChildWaitDone,
     WaitFails, StopServing, Cleanup, Clear, SleepBackoff
<1>1. CASE TakeFirst \/ TakeMessage
  <2>1. /\ queue # <<>> /\ queue' = Tail(queue) /\ in_hand' = {Head(queue)}
        /\ UNCHANGED <<written, events, gen>>
    BY <1>1 DEF TakeFirst, TakeMessage
  <2>2. Range(queue) = {Head(queue)} \cup Range(queue')
    BY <2>1, MessageTaken
  <2>3. in_hand = {}
    BY <1>1 DEF TakeFirst, TakeMessage, AwaitsFirst, WayInv
  <2>4. Stranded' \subseteq Stranded
    BY <1>0, <2>1, <2>2, <2>3 DEF Stranded, OnItsWay
  <2>5. mgr \in {"top", "serving"} /\ mgr' = IF mgr = "top" THEN "top" ELSE "writing"
    BY <1>1 DEF TakeFirst, TakeMessage
  <2>6. ResetComing => ResetComing'
    BY <2>1, <2>5 DEF ResetComing, ResetQueued
  <2>7. QED BY <2>1, <2>4, <2>5, <2>6, ExcuseStays DEF FirstLost
<1>2. CASE WriteMessage
  <2>1. /\ mgr \in {"first", "writing"} /\ mgr' \in {"serving", "cleanup"}
        /\ UNCHANGED <<gen, queue, events>> /\ in_hand' = {} /\ gen \in Children
    BY <1>2 DEF WriteMessage, InnerLoop, TypeOK, ManagerTypeOK, WithChild, Children
  <2>2. /\ in_hand \subseteq written'[gen]
        /\ \A k \in Children : written[k] \subseteq written'[k]
    BY <1>2, <2>1 DEF WriteMessage, TypeOK, ManagerTypeOK
  <2>3. Accounted(gen)'
    BY <2>1 DEF Accounted, Attached
  <2>4. Stranded' \subseteq Stranded
    <3> SUFFICES ASSUME NEW m \in pending, OnItsWay(m) PROVE OnItsWay(m)'
      BY <1>0 DEF Stranded
    <3>1. CASE (\E c \in Clients : m \in outgoing[c]) \/ m \in Range(queue)
      BY <1>0, <2>1, <3>1 DEF OnItsWay
    <3>2. CASE m \in in_hand
      BY <2>1, <2>2, <2>3, <3>2 DEF OnItsWay
    <3>3. CASE \E k \in Children : m \in written[k] /\ Accounted(k)
      BY <1>0, <2>2, <3>3 DEF OnItsWay
    <3>4. QED BY <3>1, <3>2, <3>3 DEF OnItsWay
  <2>5. ResetComing => ResetComing'
    BY <2>1 DEF ResetComing, ResetQueued
  <2>6. FirstLost => FirstLost' \/ ResetComing'
    BY <2>1 DEF FirstLost, ResetComing
  <2>7. QED BY <2>1, <2>4, <2>5, <2>6, ExcuseStays
<1>3. CASE WriteFirstFails
  <2>1. /\ mgr = "first" /\ mgr' \in {"serving", "cleanup"}
        /\ UNCHANGED <<gen, queue, events, written>> /\ in_hand' = {}
    BY <1>3 DEF WriteFirstFails, InnerLoop
  <2>2. LazyStart /\ gen = 1
    BY <2>1 DEF WayInv
  <2>3. CASE ResetComing
    BY <2>1, <2>3 DEF ResetComing, ResetQueued, NoneStranded
  <2>4. CASE ~ResetComing
    <3>1. Stranded = {}
      BY <2>1, <2>4 DEF NoneStranded
    <3>2. Stranded' \subseteq in_hand
      BY <1>0, <2>1, <3>1 DEF Stranded, OnItsWay
    <3>3. \A x, y \in Stranded' : x = y
      BY <3>2 DEF OrderInv
    <3>4. QED BY <2>1, <2>2, <3>3 DEF NoneStranded, ResetComing
  <2>5. QED BY <2>3, <2>4
<1>4. CASE WriteFails \/ ChildWaitDone \/ WaitFails \/ StopServing
  BY <1>4 DEF WriteFails, ChildWaitDone, WaitFails, StopServing, NoneStranded, ResetComing
<1>5. CASE StopAtTop \/ SpawnFails
  BY <1>5 DEF StopAtTop, SpawnFails, ManagerReturns, NoneStranded
<1>6. CASE Cleanup
  <2>1. gen \in Children /\ events' = Append(events, Reset(gen)) /\ gen' = gen
    BY <1>6 DEF Cleanup, TypeOK, ManagerTypeOK, WithChild, Children
  <2>2. Reset(gen) \in ServerEvent
    BY <2>1 DEF Reset, ServerEvent
  <2>3. ResetQueued(gen)'
    BY <2>1, <2>2, EventSent DEF ResetQueued
  <2>4. QED BY <2>1, <2>3 DEF NoneStranded, ResetComing
<1>7. CASE PassCheck \/ GiveUp \/ Launch \/ Clear \/ SleepBackoff
  <2>1. /\ mgr \in {"top", "ready", "clear", "backoff"} /\ UNCHANGED <<in_hand, written, events>>
        /\ mgr' = "done" \/ UNCHANGED queue
    BY <1>7 DEF PassCheck, GiveUp, Launch, MayLaunch, Clear, ManagerReturns, SleepBackoff
  <2>2. ResetComing => ResetComing'
    BY <2>1 DEF ResetComing, ResetQueued
  <2>3. CASE UNCHANGED queue
    <3>1. Stranded' \subseteq Stranded
      BY <1>0, <2>1, <2>3 DEF Stranded, OnItsWay
    <3>2. QED BY <2>1, <2>2, <3>1, ExcuseStays DEF FirstLost
  <2>4. QED BY <2>1, <2>3 DEF NoneStranded
<1>8. QED BY <1>1, <1>2, <1>3, <1>4, <1>5, <1>6, <1>7 DEF ManagerStep, ManagerNext

LEMMA NextStrandsNone ==
  ASSUME TypeOK, HandlerInv, OrderInv, WayInv, NoneStranded, [Next]_vars
  PROVE  NoneStranded'
<1>1. ASSUME NEW c \in Clients, ClientStep(c) PROVE NoneStranded'
  <2>1. UNCHANGED <<mgr, gen, events>>
    BY <1>1 DEF ClientStep, ClientNext, Accept, AcquirePermit, Register, HandleOversized,
       HandleNotification, HandleRequest, HandleInitialize, EnqueueOutgoing, ChannelClosed,
       LeaveLoop, FinishClose, DecodeError, WriterEnds
  <2>2. CASE mgr = "done"
    BY <2>1, <2>2 DEF NoneStranded
  <2>3. CASE mgr # "done"
    <3>1. Stranded' \subseteq Stranded
      BY <1>1, <2>3, ClientCarries
    <3>2. ResetComing => ResetComing'
      BY <2>1 DEF ResetComing, ResetQueued
    <3>3. QED BY <2>1, <3>1, <3>2, ExcuseStays DEF FirstLost
  <2>4. QED BY <2>2, <2>3
<1>2. CASE ReaperStep \/ Shutdown \/ MainExit \/ UNCHANGED vars
  <2>1. UNCHANGED <<outgoing, queue, in_hand, written, mgr, gen, events>>
    BY <1>2 DEF ReaperStep, ReaperNext, ReapExpired, SendTimeouts, Shutdown, MainExit, vars
  <2>2. pending' \subseteq pending
    BY <1>2, OthersOnlyTake
  <2>3. QED BY <2>1, <2>2, OthersCarry DEF ResetQueued
<1>3. QED
  BY <1>1, <1>2, RouterStrandsNone, ChildStrandsNone, ManagerStrandsNone DEF Next

LEMMA InitStrandsNone == Init => NoneStranded
BY DEF Init, MuxStateInit, NoneStranded, Stranded

LEMMA StrandedInvariant == Spec => [](TypeOK /\ HandlerInv /\ OrderInv /\ WayInv /\ NoneStranded)
<1>1. /\ TypeOK /\ HandlerInv /\ OrderInv /\ WayInv /\ NoneStranded
      /\ [Next]_vars
      => WayInv' /\ NoneStranded'
  BY NextWay, NextStrandsNone
<1>2. QED BY <1>1, InitWay, InitStrandsNone, OrderInvariant, PTL DEF Spec

(* No pending request is forgotten on its way from its handler to a child,   *)
(* whatever breaks between them: it goes on, or a Reset that answers it is   *)
(* coming, but for what is queued when the manager returns and for the       *)
(* message of a lazy start whose write failed (server_manager).              *)
THEOREM NoRequestForgotten == Spec => []NoneStranded
BY StrandedInvariant, PTL
=============================================================================
