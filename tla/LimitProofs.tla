---------------------------- MODULE LimitProofs -----------------------------
(***************************************************************************)
(* The limits of the daemon, what is left of a connection that ended, and  *)
(* the pid it reports, for every set of clients and every limit.           *)
(***************************************************************************)
EXTENDS MuxProofs, FiniteSetTheorems

USE DEF handlerVars, routerVars, managerVars, muxVars, tableVars, initVars,
        statusVars, queueVars, mainVars

-----------------------------------------------------------------------------
(* Connections.  What the departure properties say of a closed connection   *)
(* holds, but for the writer, from the moment its reader left the loop; and *)
(* a reader has a message to send only while it is blocked.                 *)

Forgotten(c) ==
  /\ \A p \in pending : p.client # c
  /\ \A w \in init_waiting : w[1] # c

HandlerInv ==
  \A c \in Clients :
    /\ c \in clients => conn[c] \in {"reading", "sending", "aborted"}
    /\ conn[c] # "sending" => outgoing[c] = {}
    /\ conn[c] \in {"closing", "closed"} => Forgotten(c)
    /\ conn[c] = "closed" => writer[c] = "done"

LEMMA InitHandler == Init => HandlerInv
BY DEF Init, MuxStateInit, HandlerInit, HandlerInv

(* The tasks behind the handlers only take entries and waiters away.        *)
LEMMA OthersOnlyTake ==
  ASSUME TypeOK,
         \/ RouterStep \/ ReaperStep \/ ManagerStep \/ (\E k \in Children : ChildStep(k))
         \/ Shutdown \/ MainExit \/ UNCHANGED vars
  PROVE  /\ UNCHANGED <<clients, conn, writer, outgoing, sent>>
         /\ pending' \subseteq pending /\ init_waiting' \subseteq init_waiting
<1>1. CASE RouterStep \/ ReaperStep
  BY <1>1 DEF RouterStep, RouterNext, RouteResponse, DeliverResponse, CacheInitialize,
     HandleReset, ResetState, ReaperStep, ReaperNext, ReapExpired, SendTimeouts
<1>2. CASE ManagerStep
  BY <1>2 DEF ManagerStep, ManagerNext, StopAtTop, TakeFirst, PassCheck, GiveUp, Launch,
     SpawnFails,
     TakeMessage, WriteMessage, WriteFirstFails, WriteFails, ChildWaitDone, WaitFails,
     StopServing, Cleanup, Clear, SleepBackoff
<1>3. ASSUME NEW k \in Children, ChildStep(k)
      PROVE  UNCHANGED <<clients, conn, writer, outgoing, sent, pending, init_waiting>>
  BY <1>3 DEF ChildStep, ChildNext, ChildExits, ChildResponds, ReaderEnds
<1>4. CASE Shutdown \/ MainExit \/ UNCHANGED vars
  BY <1>4 DEF Shutdown, MainExit, vars
<1>5. QED BY <1>1, <1>2, <1>3, <1>4

(* What a handler does with a request it reads: answer, wait or forward.    *)
LEMMA RequestSteps ==
  ASSUME NEW c \in Clients, HandleOversized(c) \/ HandleRequest(c) \/ HandleInitialize(c)
  PROVE  /\ LockFree /\ conn[c] = "reading"
         /\ UNCHANGED <<writer, clients, cached_initialize, queue, queue_open, events>>
         /\ UNCHANGED <<initializing, lock>>
         /\ \E n \in Lids :
              /\ NextRequest(c, n)
              /\ \/ AnswerAtOnce(c, n)
                 \/ Wait(c, n)
                 \/ \E i \in BOOLEAN : Forward(c, n, i) /\ ~Overloaded
<1>1. CASE HandleOversized(c)
  BY <1>1 DEF HandleOversized, Receives
<1>2. CASE HandleRequest(c)
  BY <1>2 DEF HandleRequest, Receives, Forward
<1>3. CASE HandleInitialize(c)
  BY <1>3 DEF HandleInitialize, Receives, Forward
<1>4. QED BY <1>1, <1>2, <1>3

LEMMA RequestKeepsHandler ==
  ASSUME TypeOK, HandlerInv, NEW c \in Clients,
         HandleOversized(c) \/ HandleRequest(c) \/ HandleInitialize(c)
  PROVE  HandlerInv'
<1>1. PICK n \in Lids :
        \/ AnswerAtOnce(c, n)
        \/ Wait(c, n)
        \/ \E i \in BOOLEAN : Forward(c, n, i) /\ ~Overloaded
  BY RequestSteps
<1>2. conn[c] = "reading" /\ UNCHANGED <<writer, clients>>
  BY RequestSteps
<1> USE DEF HandlerInv, Forgotten, TypeOK, HandlerTypeOK
<1>3. CASE AnswerAtOnce(c, n)
  BY <1>2, <1>3 DEF AnswerAtOnce
<1>4. CASE Wait(c, n)
  BY <1>2, <1>4 DEF Wait
<1>5. ASSUME NEW i \in BOOLEAN, Forward(c, n, i), ~Overloaded
      PROVE  HandlerInv'
  BY <1>2, <1>5 DEF Forward, InsertPending, Goto
<1>6. QED BY <1>1, <1>3, <1>4, <1>5

LEMMA ClientKeepsHandler ==
  ASSUME TypeOK, HandlerInv, NEW c \in Clients, ClientStep(c)
  PROVE  HandlerInv'
<1> USE DEF HandlerInv, Forgotten, TypeOK, HandlerTypeOK, Goto
<1>1. CASE Accept(c) \/ AcquirePermit(c) \/ DecodeError(c) \/ HandleNotification(c)
  BY <1>1 DEF Accept, AcquirePermit, DecodeError, HandleNotification
<1>2. CASE Register(c)
  BY <1>2 DEF Register, RegisterClient
<1>3. CASE HandleOversized(c) \/ HandleRequest(c) \/ HandleInitialize(c)
  BY <1>3, RequestKeepsHandler
<1>4. CASE EnqueueOutgoing(c) \/ ChannelClosed(c)
  BY <1>4 DEF EnqueueOutgoing, ChannelClosed
<1>5. CASE LeaveLoop(c)
  BY <1>5 DEF LeaveLoop, UnregisterClient
<1>6. CASE FinishClose(c)
  BY <1>6 DEF FinishClose
<1>7. CASE WriterEnds(c)
  BY <1>7 DEF WriterEnds, UnregisterClient
<1>8. QED BY <1>1, <1>2, <1>3, <1>4, <1>5, <1>6, <1>7 DEF ClientStep, ClientNext

LEMMA NextHandler ==
  ASSUME TypeOK, HandlerInv, [Next]_vars
  PROVE  HandlerInv'
<1>1. CASE \E c \in Clients : ClientStep(c)
  BY <1>1, ClientKeepsHandler
<1>2. CASE ~(\E c \in Clients : ClientStep(c))
  <2>1. /\ UNCHANGED <<clients, conn, writer, outgoing, sent>>
        /\ pending' \subseteq pending /\ init_waiting' \subseteq init_waiting
    BY <1>2, OthersOnlyTake DEF Next
  <2>2. QED BY <2>1 DEF HandlerInv, Forgotten
<1>3. QED BY <1>1, <1>2

LEMMA HandlerInvariant == Spec => [](TypeOK /\ HandlerInv)
<1>1. Init => TypeOK /\ HandlerInv
  BY InitType, InitHandler
<1>2. TypeOK /\ HandlerInv /\ [Next]_vars => (TypeOK /\ HandlerInv)'
  BY NextType, NextHandler
<1>3. QED BY <1>1, <1>2, PTL DEF Spec

(* Once a connection's handler has returned, no entry, waiter, message or    *)
(* writer of it is left, whatever the reaper, the router and a reset did in  *)
(* between (unregister_client by the reader or the writer, whichever is      *)
(* first).                                                                   *)
THEOREM ClosedLeaveNothing == Spec => []CleanClose
<1>1. TypeOK /\ HandlerInv => CleanClose
  BY DEF HandlerInv, Forgotten, CleanClose, TypeOK, MuxStateTypeOK
<1>2. QED BY <1>1, HandlerInvariant, PTL

-----------------------------------------------------------------------------
(* Permits.                                                                 *)

PermitsBounded == IsFiniteSet(HoldsPermit) /\ Cardinality(HoldsPermit) <= MaxActiveClients

LEMMA InitPermits == Init => PermitsBounded
<1>1. Init => HoldsPermit = {}
  BY DEF Init, HandlerInit, HoldsPermit
<1>2. QED BY <1>1, FS_EmptySet, ConstantsAssumption DEF PermitsBounded

LEMMA NextPermits ==
  ASSUME TypeOK, PermitsBounded, [Next]_vars
  PROVE  PermitsBounded'
<1>1. ASSUME NEW c \in Clients, AcquirePermit(c)
      PROVE  PermitsBounded'
  <2>1. HoldsPermit' = HoldsPermit \cup {c} /\ c \notin HoldsPermit
    BY <1>1 DEF AcquirePermit, HoldsPermit, Goto, TypeOK, HandlerTypeOK
  <2>2. /\ IsFiniteSet(HoldsPermit \cup {c})
        /\ Cardinality(HoldsPermit \cup {c}) = Cardinality(HoldsPermit) + 1
    BY <2>1, FS_AddElement DEF PermitsBounded
  <2>3. Cardinality(HoldsPermit) \in Nat
    BY FS_CardinalityType DEF PermitsBounded
  <2>4. QED BY <1>1, <2>1, <2>2, <2>3, ConstantsAssumption DEF AcquirePermit, PermitsBounded
<1>2. ASSUME HoldsPermit' \subseteq HoldsPermit
      PROVE  PermitsBounded'
  <2>1. /\ IsFiniteSet(HoldsPermit')
        /\ Cardinality(HoldsPermit') <= Cardinality(HoldsPermit)
    BY <1>2, FS_Subset DEF PermitsBounded
  <2>2. Cardinality(HoldsPermit) \in Nat /\ Cardinality(HoldsPermit') \in Nat
    BY <2>1, FS_CardinalityType DEF PermitsBounded
  <2>3. QED BY <2>1, <2>2, ConstantsAssumption DEF PermitsBounded
<1>3. ASSUME NEW c \in Clients, ClientStep(c), ~AcquirePermit(c)
      PROVE  HoldsPermit' \subseteq HoldsPermit
  <2> USE DEF HoldsPermit, Goto, TypeOK, HandlerTypeOK
  <2>1. CASE Accept(c) \/ Register(c) \/ HandleNotification(c)
    BY <2>1 DEF Accept, Register, HandleNotification
  <2>2. CASE HandleOversized(c) \/ HandleRequest(c) \/ HandleInitialize(c)
    <3>1. conn[c] = "reading" /\ (conn' = conn \/ conn' = [conn EXCEPT ![c] = "sending"])
      BY <2>2, RequestSteps DEF AnswerAtOnce, Wait, Forward
    <3>2. QED BY <3>1
  <2>3. CASE EnqueueOutgoing(c) \/ ChannelClosed(c)
    BY <2>3 DEF EnqueueOutgoing, ChannelClosed
  <2>4. CASE LeaveLoop(c) \/ FinishClose(c) \/ DecodeError(c) \/ WriterEnds(c)
    BY <2>4 DEF LeaveLoop, FinishClose, DecodeError, WriterEnds
  <2>5. QED BY <1>3, <2>1, <2>2, <2>3, <2>4 DEF ClientStep, ClientNext
<1>4. CASE ~(\E c \in Clients : ClientStep(c))
  BY <1>2, <1>4, OthersOnlyTake DEF Next, HoldsPermit
<1>5. QED BY <1>1, <1>2, <1>3, <1>4

(* However many connections wait, register and leave, at most as many as the *)
(* semaphore has permits hold one, and every registered client is among them *)
(* unless its reader returned on a decode error (handle_client).             *)
THEOREM RegisteredClientsHoldPermits == Spec => []RegisteredHoldPermit
<1>1. TypeOK /\ HandlerInv /\ PermitsBounded => RegisteredHoldPermit
  BY DEF HandlerInv, PermitsBounded, RegisteredHoldPermit, HoldsPermit, TypeOK, MuxStateTypeOK
<1>2. TypeOK /\ PermitsBounded /\ [Next]_vars => PermitsBounded'
  BY NextPermits
<1>3. QED BY <1>1, <1>2, InitPermits, HandlerInvariant, PTL DEF Spec

-----------------------------------------------------------------------------
(* Tables.                                                                  *)

TablesInv ==
  /\ IsFiniteSet(pending) /\ Cardinality(pending) <= MAX_PENDING
  /\ Len(queue) <= MAX_QUEUE

LEMMA InitTables == Init => TablesInv
BY FS_EmptySet, ConstantsAssumption DEF Init, MuxStateInit, ChannelsInit, TablesInv

LEMMA NextTables ==
  ASSUME TypeOK, TablesInv, [Next]_vars
  PROVE  TablesInv'
<1>1. IsFiniteSet(pending') /\ Cardinality(pending') <= MAX_PENDING
  <2>1. ASSUME pending' \subseteq pending
        PROVE  IsFiniteSet(pending') /\ Cardinality(pending') <= MAX_PENDING
    <3>1. IsFiniteSet(pending') /\ Cardinality(pending') <= Cardinality(pending)
      BY <2>1, FS_Subset DEF TablesInv
    <3>2. Cardinality(pending) \in Nat /\ Cardinality(pending') \in Nat
      BY <3>1, FS_CardinalityType DEF TablesInv
    <3>3. QED BY <3>1, <3>2, ConstantsAssumption DEF TablesInv
  <2>2. ASSUME NEW p, NEW kept, kept \subseteq pending, pending' = kept \cup {p}, ~Overloaded
        PROVE  IsFiniteSet(pending') /\ Cardinality(pending') <= MAX_PENDING
    <3>1. /\ IsFiniteSet(kept) /\ Cardinality(kept) <= Cardinality(pending)
          /\ Cardinality(kept) \in Nat /\ Cardinality(pending) \in Nat
      BY <2>2, FS_Subset, FS_CardinalityType DEF TablesInv
    <3>2. /\ IsFiniteSet(pending')
          /\ Cardinality(pending') \in {Cardinality(kept), Cardinality(kept) + 1}
      BY <2>2, <3>1, FS_AddElement
    <3>3. Cardinality(pending) < MAX_PENDING
      BY <2>2, <3>1, ConstantsAssumption DEF Overloaded
    <3>4. QED BY <3>1, <3>2, <3>3, ConstantsAssumption
  <2>3. ASSUME NEW c \in Clients, ClientStep(c)
        PROVE  IsFiniteSet(pending') /\ Cardinality(pending') <= MAX_PENDING
    <3>1. CASE HandleOversized(c) \/ HandleRequest(c) \/ HandleInitialize(c)
      <4>1. \/ pending' = pending
            \/ ~Overloaded /\ \E p : InsertPending(p)
        BY <3>1, RequestSteps DEF AnswerAtOnce, Wait, Forward
      <4>2. QED BY <2>1, <2>2, <4>1 DEF InsertPending
    <3>2. CASE Accept(c) \/ AcquirePermit(c) \/ Register(c) \/ HandleNotification(c)
               \/ EnqueueOutgoing(c) \/ ChannelClosed(c) \/ FinishClose(c) \/ DecodeError(c)
      BY <2>1, <3>2 DEF Accept, AcquirePermit, Register, HandleNotification, EnqueueOutgoing,
         ChannelClosed, FinishClose, DecodeError
    <3>3. CASE LeaveLoop(c) \/ WriterEnds(c)
      BY <2>1, <3>3 DEF LeaveLoop, WriterEnds, UnregisterClient
    <3>4. QED BY <2>3, <3>1, <3>2, <3>3 DEF ClientStep, ClientNext
  <2>4. CASE ~(\E c \in Clients : ClientStep(c))
    BY <2>1, <2>4, OthersOnlyTake DEF Next
  <2>5. QED BY <2>3, <2>4
<1>2. Len(queue') <= MAX_QUEUE
  <2> USE ConstantsAssumption DEF TypeOK, ChannelsTypeOK, TablesInv
  <2>1. \/ queue' = queue \/ queue' = <<>>
        \/ queue # <<>> /\ queue' = Tail(queue)
        \/ Len(queue) < MAX_QUEUE /\ \E m : queue' = Append(queue, m)
    <3>1. ASSUME NEW c \in Clients, ClientStep(c)
          PROVE  queue' = queue \/ (Len(queue) < MAX_QUEUE /\ \E m : queue' = Append(queue, m))
      <4>1. CASE HandleNotification(c) \/ EnqueueOutgoing(c)
        BY <4>1 DEF HandleNotification, EnqueueOutgoing
      <4>2. CASE HandleOversized(c) \/ HandleRequest(c) \/ HandleInitialize(c)
        BY <4>2, RequestSteps
      <4>3. CASE Accept(c) \/ AcquirePermit(c) \/ Register(c) \/ ChannelClosed(c)
                 \/ LeaveLoop(c) \/ FinishClose(c) \/ DecodeError(c) \/ WriterEnds(c)
        BY <4>3 DEF Accept, AcquirePermit, Register, ChannelClosed, LeaveLoop, FinishClose,
           DecodeError, WriterEnds
      <4>4. QED BY <3>1, <4>1, <4>2, <4>3 DEF ClientStep, ClientNext
    <3>2. CASE ManagerStep
      BY <3>2 DEF ManagerStep, ManagerNext, StopAtTop, TakeFirst, PassCheck, GiveUp, Launch,
         SpawnFails,
         TakeMessage, WriteMessage, WriteFirstFails, WriteFails, ChildWaitDone, WaitFails,
         StopServing, Cleanup, Clear, SleepBackoff, ManagerReturns
    <3>3. CASE RouterStep \/ ReaperStep
      BY <3>3 DEF RouterStep, RouterNext, RouteResponse, DeliverResponse, CacheInitialize,
         HandleReset, ReaperStep, ReaperNext, ReapExpired, SendTimeouts
    <3>4. CASE (\E k \in Children : ChildStep(k)) \/ Shutdown \/ MainExit \/ UNCHANGED vars
      BY <3>4 DEF ChildStep, ChildNext, ChildExits, ChildResponds, ReaderEnds, Shutdown,
         MainExit, vars
    <3>5. QED BY <3>1, <3>2, <3>3, <3>4 DEF Next
  <2>2. ASSUME NEW m, queue' = Append(queue, m) PROVE Len(queue') = Len(queue) + 1
    BY <2>2
  <2>3. QED BY <2>1, <2>2
<1>3. QED BY <1>1, <1>2 DEF TablesInv

(* The limit on pending requests and the capacity of the queue hold however  *)
(* many handlers check them at once: check and insertion share a critical    *)
(* section, and a blocked sender waits for its slot.                         *)
THEOREM TablesStayBounded == Spec => []TablesBounded
<1>1. TablesInv => TablesBounded
  BY DEF TablesInv, TablesBounded
<1>2. TypeOK /\ TablesInv /\ [Next]_vars => TablesInv'
  BY NextTables
<1>3. QED BY <1>1, <1>2, InitTables, TypeCorrect, PTL DEF Spec

-----------------------------------------------------------------------------
(* The pid.  No child is reported between the manager's cleanup and its     *)
(* next launch; the router's resets can only take the pid away.             *)

PidInv ==
  /\ child_pid \subseteq {gen}
  /\ mgr \in {"top", "ready", "backoff", "wedged", "done"} => child_pid = {}

LEMMA NextPid ==
  ASSUME TypeOK, PidInv, [Next]_vars
  PROVE  PidInv'
<1> USE DEF PidInv
<1>1. CASE ManagerStep
  <2> USE DEF ManagerReturns, InnerLoop
  <2>1. CASE StopAtTop \/ TakeFirst \/ PassCheck \/ GiveUp \/ SpawnFails \/ SleepBackoff
    BY <2>1 DEF StopAtTop, TakeFirst, PassCheck, GiveUp, SpawnFails, MayLaunch, SleepBackoff
  <2>2. CASE Launch
    BY <2>2 DEF Launch
  <2>3. CASE TakeMessage \/ WriteMessage \/ WriteFirstFails \/ WriteFails \/ ChildWaitDone
             \/ WaitFails \/ StopServing
    BY <2>3 DEF TakeMessage, WriteMessage, WriteFirstFails, WriteFails, ChildWaitDone,
       WaitFails, StopServing
  <2>4. CASE Cleanup \/ Clear
    BY <2>4 DEF Cleanup, Clear
  <2>5. QED BY <1>1, <2>1, <2>2, <2>3, <2>4 DEF ManagerStep, ManagerNext
<1>2. CASE RouterStep \/ ReaperStep
  BY <1>2 DEF RouterStep, RouterNext, RouteResponse, DeliverResponse, CacheInitialize,
     HandleReset, ResetState, ReaperStep, ReaperNext, ReapExpired, SendTimeouts
<1>3. CASE \E c \in Clients : ClientStep(c)
  BY <1>3 DEF ClientStep, ClientNext, Accept, AcquirePermit, Register, HandleOversized,
     HandleNotification, HandleRequest, HandleInitialize, EnqueueOutgoing, ChannelClosed,
     LeaveLoop, FinishClose, DecodeError, WriterEnds
<1>4. CASE (\E k \in Children : ChildStep(k)) \/ Shutdown \/ MainExit \/ UNCHANGED vars
  BY <1>4 DEF ChildStep, ChildNext, ChildExits, ChildResponds, ReaderEnds, Shutdown,
     MainExit, vars
<1>5. QED BY <1>1, <1>2, <1>3, <1>4 DEF Next

(* The pid in the status is of the last child launched, and there is none    *)
(* once the manager gave up or returned, however late a Reset of an earlier  *)
(* child is handled (server_manager, reset_state).                           *)
THEOREM ReportedPidIsCurrent == Spec => []PidIsCurrent
<1>1. Init => PidInv
  BY DEF Init, MuxStateInit, ManagerInit, PidInv
<1>2. PidInv => PidIsCurrent
  BY DEF PidInv, PidIsCurrent
<1>3. TypeOK /\ PidInv /\ [Next]_vars => PidInv'
  BY NextPid
<1>4. QED BY <1>1, <1>2, <1>3, TypeCorrect, PTL DEF Spec
=============================================================================
