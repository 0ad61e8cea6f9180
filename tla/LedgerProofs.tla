---------------------------- MODULE LedgerProofs ----------------------------
(***************************************************************************)
(* The daemon implements the ledger of requests, for every set of clients, *)
(* every limit and any number of children.                                 *)
(*                                                                         *)
(* A step of the daemon is a step of the ledger or changes nothing in it.  *)
(* That a request which is answered is open, and that what a child reads   *)
(* comes after all that was read, are what FateInv and OrderInv say.       *)
(***************************************************************************)
EXTENDS FateProofs

USE DEF handlerVars, routerVars, managerVars, muxVars, tableVars, initVars,
        statusVars, queueVars, mainVars

Mapped == Ledger!Next \/ UNCHANGED Ledger!ledgerVars

-----------------------------------------------------------------------------
(* The refinement mapping.                                                  *)

LEMMA ExecutedFromRead ==
  ASSUME TypeOK
  PROVE  Executed = {<<m.client, m.lid>> : m \in {x \in Read : x.seq > 0}}
<1>1. UNION Range(written) = Read
  BY DEF Range, Read, TypeOK, ManagerTypeOK
<1>2. QED BY <1>1 DEF Executed

LEMMA StandingMapped ==
  /\ Standing \in [Clients -> {"new", "present", "gone"}]
  /\ \A c \in Clients :
       Standing[c] = IF c \in clients THEN "present"
                     ELSE IF conn[c] \in {"none", "accepted", "admitted"} THEN "new" ELSE "gone"
BY DEF Standing

(* A step after which no client stands elsewhere.                           *)
LEMMA StandingKept ==
  ASSUME clients' = clients,
         \A d \in Clients : conn'[d] \in {"none", "accepted", "admitted"}
                              <=> conn[d] \in {"none", "accepted", "admitted"}
  PROVE  Standing' = Standing
BY DEF Standing

LEMMA ExecutedKept == UNCHANGED written => Executed' = Executed
BY DEF Executed

-----------------------------------------------------------------------------
LEMMA RegisterMaps ==
  ASSUME TypeOK, FateInv, NEW c \in Clients, Register(c), UNCHANGED written
  PROVE  Mapped
<1>1. /\ conn[c] = "admitted" /\ c \notin clients /\ clients' = clients \cup {c}
      /\ \A d \in Clients : d # c => conn'[d] = conn[d]
      /\ UNCHANGED <<sent, replies>>
  BY DEF Register, RegisterClient, Goto, FateInv, Settled, TypeOK, HandlerTypeOK
<1>2. Standing[c] = "new"
  BY <1>1 DEF Standing
<1>3. Standing' = [Standing EXCEPT ![c] = "present"]
  <2>1. Standing' = [d \in Clients |-> IF d = c THEN "present" ELSE Standing[d]]
    BY <1>1 DEF Standing
  <2>2. QED BY <2>1, StandingMapped
<1>4. Ledger!Join(c)
  BY <1>1, <1>2, <1>3, ExecutedKept DEF Ledger!Join
<1>5. QED BY <1>4 DEF Mapped, Ledger!Next

LEMMA LeaveMaps ==
  ASSUME TypeOK, HandlerInv, NEW c \in Clients, LeaveLoop(c) \/ WriterEnds(c),
         UNCHANGED written
  PROVE  Mapped
<1>1. /\ clients' = clients \ {c} /\ UNCHANGED <<sent, replies>>
      /\ \A d \in Clients : conn'[d] \in {"none", "accepted", "admitted"}
                              <=> conn[d] \in {"none", "accepted", "admitted"}
  BY DEF LeaveLoop, WriterEnds, UnregisterClient, Goto, TypeOK, HandlerTypeOK
<1>2. CASE c \in clients
  <2>1. conn[c] \notin {"none", "accepted", "admitted"}
    BY <1>2 DEF HandlerInv
  <2>2. Standing[c] = "present"
    BY <1>2 DEF Standing
  <2>3. Standing' = [Standing EXCEPT ![c] = "gone"]
    <3>1. Standing' = [d \in Clients |-> IF d = c THEN "gone" ELSE Standing[d]]
      BY <1>1, <2>1 DEF Standing
    <3>2. QED BY <3>1, StandingMapped
  <2>4. Ledger!Leave(c)
    BY <1>1, <2>2, <2>3, ExecutedKept DEF Ledger!Leave
  <2>5. QED BY <2>4 DEF Mapped, Ledger!Next
<1>3. CASE c \notin clients
  <2>1. clients' = clients
    BY <1>1, <1>3
  <2>2. QED BY <1>1, <2>1, StandingKept, ExecutedKept DEF Mapped, Ledger!ledgerVars
<1>4. QED BY <1>2, <1>3

(* Answers that are owed are steps of the ledger, but for those of clients  *)
(* that have left.                                                          *)
LEMMA AnsweringMaps ==
  ASSUME TypeOK, FateInv, NEW R, SendReplies(R), UNCHANGED <<clients, conn, sent, written>>,
         \A c \in clients : \A n \in Lids : <<c, n>> \in R => n <= sent[c] /\ Due(c, n)
  PROVE  Mapped
<1> DEFINE G == {r \in Clients \X Lids : r[1] \in clients /\ r \in R}
<1>1. Standing' = Standing /\ Executed' = Executed
  BY StandingKept, ExecutedKept
<1>2. replies' = Ledger!Credited(G)
  BY DEF SendReplies, Ledger!Credited
<1>3. CASE G = {}
  <2>1. \A c \in Clients : \A n \in Lids : replies'[c][n] = replies[c][n]
    <3> SUFFICES ASSUME NEW c \in Clients, NEW n \in Lids
                 PROVE  replies'[c][n] = replies[c][n]
      OBVIOUS
    <3>1. <<c, n>> \notin G /\ replies[c][n] \in Nat
      BY <1>3, OwedType
    <3>2. QED BY <1>2, <3>1 DEF Ledger!Credited
  <2>2. /\ replies \in [Clients -> [Lids -> Nat]]
        /\ replies' = [c \in Clients |-> [n \in Lids |-> replies'[c][n]]]
    BY <1>2 DEF Ledger!Credited, TypeOK, ChannelsTypeOK
  <2>3. replies' = replies
    BY <2>1, <2>2
  <2>4. QED BY <1>1, <2>3 DEF Mapped, Ledger!ledgerVars
<1>4. CASE G # {}
  <2>1. ASSUME NEW r \in G
        PROVE  Ledger!Open(r)
    <3>1. PICK c \in clients, n \in Lids : r = <<c, n>> /\ <<c, n>> \in R
      BY <2>1
    <3>2. c \in Clients /\ n <= sent[c] /\ Due(c, n)
      BY <3>1, OwedType
    <3>3. replies[c][n] = 0
      BY <3>2 DEF FateInv, Settled
    <3>4. Standing[c] = "present"
      BY <3>1, <3>2 DEF Standing
    <3>5. r[1] = c /\ r[2] = n
      BY <3>1
    <3>6. QED BY <3>2, <3>3, <3>4, <3>5 DEF Ledger!Open
  <2>2. Ledger!Answer(G)
    BY <1>1, <1>2, <1>4, <2>1 DEF Ledger!Answer
  <2>3. G \in SUBSET Ledger!Request
    BY DEF Ledger!Request
  <2>4. QED BY <2>2, <2>3 DEF Mapped, Ledger!Next
<1>5. QED BY <1>3, <1>4

LEMMA RouterMaps ==
  ASSUME TypeOK, FateInv, RouterStep \/ ReaperStep
  PROVE  Mapped
<1>0. UNCHANGED <<conn, sent, written, clients>>
  BY DEF RouterStep, ReaperStep, RouterNext, ReaperNext, RouteResponse, DeliverResponse,
     CacheInitialize, HandleReset, ResetState, ReapExpired, SendTimeouts
<1>1. ASSUME NEW R, SendReplies(R),
             \A r \in R : \/ \E p \in Owed : r = <<p.client, p.lid>>
                          \/ r \in init_waiting
      PROVE  Mapped
  <2>1. ASSUME NEW c \in clients, NEW n \in Lids, <<c, n>> \in R
        PROVE  n <= sent[c] /\ Due(c, n)
    <3>1. CASE \E p \in Owed : <<c, n>> = <<p.client, p.lid>>
      BY <3>1 DEF Due, FateInv, Debts
    <3>2. CASE <<c, n>> \in init_waiting
      BY <3>2, OwedType DEF Due, FateInv, Debts
    <3>3. QED BY <1>1, <2>1, <3>1, <3>2
  <2>2. QED BY <1>0, <1>1, <2>1, AnsweringMaps
<1>2. CASE DeliverResponse
  <2>1. PICK h \in held : h.stage = "lookup" /\ SendReplies({<<h.entry.client, h.entry.lid>>})
    BY <1>2 DEF DeliverResponse
  <2>2. h.entry \in Owed
    BY <2>1 DEF Owed, Lookups
  <2>3. QED BY <1>1, <2>1, <2>2
<1>3. CASE CacheInitialize
  BY <1>1, <1>3 DEF CacheInitialize
<1>4. CASE HandleReset
  <2>1. SendReplies(Requests(pending) \cup init_waiting)
    BY <1>4 DEF HandleReset, ResetState
  <2>2. \A r \in Requests(pending) : \E p \in Owed : r = <<p.client, p.lid>>
    BY DEF Requests, Owed
  <2>3. QED BY <1>1, <2>1, <2>2
<1>5. CASE SendTimeouts
  <2>1. SendReplies(Requests(expired))
    BY <1>5 DEF SendTimeouts
  <2>2. \A r \in Requests(expired) : \E p \in Owed : r = <<p.client, p.lid>>
    BY DEF Requests, Owed
  <2>3. QED BY <1>1, <2>1, <2>2
<1>6. CASE RouteResponse \/ (\E p \in pending : ReapExpired(p.seq))
  <2>1. UNCHANGED replies
    BY <1>6 DEF RouteResponse, ReapExpired
  <2>2. QED BY <1>0, <2>1, StandingKept, ExecutedKept DEF Mapped, Ledger!ledgerVars
<1>7. QED BY <1>2, <1>3, <1>4, <1>5, <1>6 DEF RouterStep, ReaperStep, RouterNext, ReaperNext

LEMMA RequestMaps ==
  ASSUME TypeOK, FateInv, NEW c \in Clients, UNCHANGED written,
         HandleOversized(c) \/ HandleRequest(c) \/ HandleInitialize(c)
  PROVE  Mapped
<1>1. PICK n \in Lids :
        /\ NextRequest(c, n)
        /\ \/ AnswerAtOnce(c, n)
           \/ Wait(c, n)
           \/ \E i \in BOOLEAN : Forward(c, n, i) /\ ~Overloaded
  BY RequestSteps
<1>2. conn[c] = "reading" /\ UNCHANGED clients
  BY RequestSteps
<1>3. \A d \in Clients : conn'[d] \in {"none", "accepted", "admitted"}
                           <=> conn[d] \in {"none", "accepted", "admitted"}
  BY <1>1, <1>2 DEF AnswerAtOnce, Wait, Forward, Goto, TypeOK, HandlerTypeOK
<1>4. /\ Standing' = Standing /\ Executed' = Executed
      /\ n = sent[c] + 1 /\ sent' = [sent EXCEPT ![c] = @ + 1]
  BY <1>1, <1>2, <1>3, StandingKept, ExecutedKept DEF NextRequest
<1>5. Standing[c] # "new"
  BY <1>2 DEF Standing
<1>6. ASSUME replies' = replies
      PROVE  Mapped
  <2>1. Ledger!Ask(c)
    BY <1>4, <1>5, <1>6 DEF Ledger!Ask
  <2>2. QED BY <2>1 DEF Mapped, Ledger!Next
<1>7. CASE AnswerAtOnce(c, n)
  <2>1. SendReplies({<<c, n>>})
    BY <1>7 DEF AnswerAtOnce
  <2>2. CASE c \in clients
    <3>1. replies' = Ledger!Credited({<<c, sent[c] + 1>>})
      <4>1. \A d \in Clients : \A m \in Lids :
              d \in clients /\ <<d, m>> \in {<<c, n>>} <=> <<d, m>> \in {<<c, sent[c] + 1>>}
        BY <1>4, <2>2
      <4>2. QED BY <2>1, <4>1 DEF SendReplies, Ledger!Credited
    <3>2. Standing[c] = "present"
      BY <2>2 DEF Standing
    <3>3. Ledger!AskAndAnswer(c)
      BY <1>4, <3>1, <3>2 DEF Ledger!AskAndAnswer
    <3>4. QED BY <3>3 DEF Mapped, Ledger!Next
  <2>3. CASE c \notin clients
    <3>1. \A d \in Clients : \A m \in Lids : ~(d \in clients /\ <<d, m>> \in {<<c, n>>})
      BY <2>3
    <3>2. \A d \in Clients : \A m \in Lids : replies'[d][m] = replies[d][m]
      BY <2>1, <3>1, OwedType DEF SendReplies
    <3>3. /\ replies \in [Clients -> [Lids -> Nat]]
          /\ replies' = [d \in Clients |-> [m \in Lids |-> replies'[d][m]]]
      BY <2>1 DEF SendReplies, TypeOK, ChannelsTypeOK
    <3>4. replies' = replies
      BY <3>2, <3>3
    <3>5. QED BY <1>6, <3>4
  <2>4. QED BY <2>2, <2>3
<1>8. CASE Wait(c, n) \/ \E i \in BOOLEAN : Forward(c, n, i) /\ ~Overloaded
  BY <1>6, <1>8 DEF Wait, Forward
<1>9. QED BY <1>1, <1>7, <1>8

LEMMA ClientMaps ==
  ASSUME TypeOK, HandlerInv, FateInv, NEW c \in Clients, ClientStep(c)
  PROVE  Mapped
<1>0. UNCHANGED written
  BY DEF ClientStep
<1>1. CASE Accept(c) \/ AcquirePermit(c) \/ FinishClose(c) \/ DecodeError(c)
           \/ HandleNotification(c) \/ EnqueueOutgoing(c) \/ ChannelClosed(c)
  <2>1. UNCHANGED <<clients, sent, replies>>
    BY <1>1 DEF Accept, AcquirePermit, FinishClose, DecodeError, HandleNotification,
       EnqueueOutgoing, ChannelClosed
  <2>2. \A d \in Clients : conn'[d] \in {"none", "accepted", "admitted"}
                             <=> conn[d] \in {"none", "accepted", "admitted"}
    BY <1>1 DEF Accept, AcquirePermit, FinishClose, DecodeError, HandleNotification,
       EnqueueOutgoing, ChannelClosed, Goto, TypeOK, HandlerTypeOK
  <2>3. QED BY <1>0, <2>1, <2>2, StandingKept, ExecutedKept DEF Mapped, Ledger!ledgerVars
<1>2. QED BY <1>0, <1>1, RegisterMaps, LeaveMaps, RequestMaps DEF ClientStep, ClientNext

(* What a child reads was asked for, and comes after what was read.         *)
LEMMA WriteMaps ==
  ASSUME TypeOK, TypeOK', OrderInv, WriteMessage, UNCHANGED <<conn, sent>>
  PROVE  Mapped
<1>1. UNCHANGED <<clients, replies>>
  BY DEF WriteMessage
<1>2. Standing' = Standing
  BY <1>1, StandingKept
<1>3. \A m : m \in Read' <=> m \in Read \/ m \in in_hand
  BY DEF WriteMessage, Read, TypeOK, ManagerTypeOK
<1>4. Executed' = {<<m.client, m.lid>> : m \in {x \in Read' : x.seq > 0}}
  <2>1. UNION Range(written') = Read'
    BY DEF Range, Read, TypeOK, ManagerTypeOK
  <2>2. QED BY <2>1 DEF Executed
<1>5. CASE \A m \in in_hand : ~(m.seq > 0)
  <2>1. {x \in Read' : x.seq > 0} = {x \in Read : x.seq > 0}
    BY <1>3, <1>5
  <2>2. Executed' = Executed
    BY <1>4, <2>1, ExecutedFromRead
  <2>3. QED BY <1>1, <1>2, <2>2 DEF Mapped, Ledger!ledgerVars
<1>6. ASSUME NEW m \in in_hand, m.seq > 0
      PROVE  Mapped
  <2> DEFINE r == <<m.client, m.lid>>
  <2>1. r[1] = m.client /\ r[2] = m.lid
    OBVIOUS
  <2>2. \A x : x \in Read' <=> x \in Read \/ x = m
    BY <1>3, <1>6 DEF OrderInv
  <2>3. Executed' = Executed \cup {r}
    <3>1. {x \in Read' : x.seq > 0} = {x \in Read : x.seq > 0} \cup {m}
      BY <1>6, <2>2
    <3>2. QED BY <1>4, <3>1, ExecutedFromRead
  <2>4. m.lid <= sent[m.client]
    BY <1>6 DEF OrderInv, Underway
  <2>5. \A x \in Executed : x[1] = m.client => x[2] < m.lid
    <3> SUFFICES ASSUME NEW x \in Executed, x[1] = m.client
                 PROVE  x[2] < m.lid
      OBVIOUS
    <3>1. PICK o \in Read : o.seq > 0 /\ x = <<o.client, o.lid>>
      BY ExecutedFromRead
    <3>2. Before(o, m)
      BY <1>6 DEF OrderInv
    <3>3. QED BY <1>6, <3>1, <3>2 DEF Before
  <2>6. r \in Ledger!Request
    BY <1>6 DEF Ledger!Request, TypeOK, ManagerTypeOK, Message, Entry, Notification
  <2>7. Ledger!Execute(r)
    BY <1>1, <1>2, <2>1, <2>3, <2>4, <2>5 DEF Ledger!Execute
  <2>8. QED BY <2>6, <2>7 DEF Mapped, Ledger!Next
<1>7. QED BY <1>5, <1>6

LEMMA InitMaps == Init => Ledger!Init
<1> SUFFICES ASSUME Init PROVE Ledger!Init
  OBVIOUS
<1>1. Standing = [c \in Clients |-> "new"]
  BY DEF Init, MuxStateInit, HandlerInit, Standing
<1>2. sent = [c \in Clients |-> 0] /\ replies = [c \in Clients |-> [n \in Lids |-> 0]]
  BY DEF Init, ChannelsInit, HandlerInit
<1>3. Executed = {}
  BY DEF Init, ManagerInit, Executed, Range
<1>4. QED BY <1>1, <1>2, <1>3 DEF Ledger!Init

LEMMA NextMaps ==
  ASSUME TypeOK, TypeOK', HandlerInv, FateInv, OrderInv, [Next]_vars
  PROVE  Mapped
<1>1. CASE ManagerStep
  <2>1. UNCHANGED <<conn, sent>>
    BY <1>1 DEF ManagerStep
  <2>2. CASE ~WriteMessage
    <3>1. UNCHANGED <<clients, replies, written>>
      BY <1>1, <2>2 DEF ManagerStep, ManagerNext, StopAtTop, TakeFirst, PassCheck, GiveUp, Launch,
         SpawnFails, TakeMessage, WriteFirstFails, WriteFails, ChildWaitDone, WaitFails,
         StopServing, Cleanup, Clear, SleepBackoff
    <3>2. QED BY <2>1, <3>1, StandingKept, ExecutedKept DEF Mapped, Ledger!ledgerVars
  <2>3. QED BY <2>1, <2>2, WriteMaps
<1>2. CASE (\E k \in Children : ChildStep(k)) \/ Shutdown \/ MainExit \/ UNCHANGED vars
  <2>1. UNCHANGED <<clients, conn, sent, replies, written>>
    BY <1>2 DEF ChildStep, ChildNext, ChildExits, ChildResponds, ReaderEnds, Shutdown,
       MainExit, vars
  <2>2. QED BY <2>1, StandingKept, ExecutedKept DEF Mapped, Ledger!ledgerVars
<1>3. QED BY <1>1, <1>2, ClientMaps, RouterMaps DEF Next

(* Whatever the tasks of run_mux do, in whatever order, is a behaviour of    *)
(* the ledger: requests are answered at most once and to clients that are    *)
(* there, and executed in order and at most once, through every reset,       *)
(* restart, timeout and departure.                                           *)
THEOREM MuxImplementsLedger == Spec => ImplementsLedger
<1>1. TypeOK /\ HandlerInv /\ FateInv /\ OrderInv /\ TypeOK' /\ [Next]_vars
        => [Ledger!Next]_Ledger!ledgerVars
  BY NextMaps DEF Mapped
<1>2. QED BY <1>1, InitMaps, TypeCorrect, FateInvariant, OrderInvariant, PTL
      DEF Spec, ImplementsLedger, Ledger!Spec

-----------------------------------------------------------------------------
(* What the ledger says of clients that left as well, of which FateInv says  *)
(* nothing.                                                                  *)
AnsweredOnce == \A c \in Clients :
  /\ sent[c] \in Nat
  /\ \A n \in Lids : /\ replies[c][n] \in {0, 1}
                     /\ replies[c][n] = 1 => n <= sent[c]

(* Only requests without an answer are credited with one.                   *)
LEMMA CreditsOnce ==
  ASSUME NEW R, replies' = Ledger!Credited(R), AnsweredOnce,
         \A c \in Clients : \A n \in Lids : <<c, n>> \in R => replies[c][n] = 0 /\ n <= sent'[c],
         \A c \in Clients : sent'[c] \in Nat /\ sent'[c] >= sent[c]
  PROVE  AnsweredOnce'
<1> SUFFICES ASSUME NEW c \in Clients, NEW n \in Lids
             PROVE  replies'[c][n] \in {0, 1} /\ (replies'[c][n] = 1 => n <= sent'[c])
  BY DEF AnsweredOnce
<1>1. replies'[c][n] = replies[c][n] + IF <<c, n>> \in R THEN 1 ELSE 0
  BY DEF Ledger!Credited
<1>2. n \in Nat /\ sent[c] \in Nat
  BY ConstantsAssumption DEF AnsweredOnce, Lids
<1>3. QED BY <1>1, <1>2 DEF AnsweredOnce

LEMMA LedgerAnswersOnce ==
  ASSUME TypeOK, AnsweredOnce, Ledger!Next
  PROVE  AnsweredOnce'
<1>1. DOMAIN sent = Clients
  BY DEF TypeOK, HandlerTypeOK
<1>2. ASSUME NEW c \in Clients, Ledger!Join(c) \/ Ledger!Leave(c)
      PROVE  AnsweredOnce'
  BY <1>2 DEF Ledger!Join, Ledger!Leave, AnsweredOnce
<1>3. ASSUME NEW c \in Clients, Ledger!Ask(c)
      PROVE  AnsweredOnce'
  <2>1. sent' = [sent EXCEPT ![c] = @ + 1] /\ UNCHANGED replies
    BY <1>3 DEF Ledger!Ask
  <2>2. \A d \in Clients : sent'[d] \in Nat /\ sent'[d] >= sent[d]
    BY <1>1, <2>1 DEF AnsweredOnce
  <2>3. \A n \in Lids : n \in Nat
    BY ConstantsAssumption DEF Lids
  <2>4. QED BY <2>1, <2>2, <2>3 DEF AnsweredOnce
<1>4. ASSUME NEW c \in Clients, Ledger!AskAndAnswer(c)
      PROVE  AnsweredOnce'
  <2>1. /\ sent' = [sent EXCEPT ![c] = @ + 1]
        /\ replies' = Ledger!Credited({<<c, sent[c] + 1>>})
    BY <1>4 DEF Ledger!AskAndAnswer
  <2>2. /\ \A d \in Clients : sent'[d] \in Nat /\ sent'[d] >= sent[d]
        /\ sent'[c] = sent[c] + 1
    BY <1>1, <2>1 DEF AnsweredOnce
  <2>3. ASSUME NEW d \in Clients, NEW n \in Lids, <<d, n>> \in {<<c, sent[c] + 1>>}
        PROVE  replies[d][n] = 0 /\ n <= sent'[d]
    <3>1. d = c /\ n = sent[c] + 1 /\ sent[c] \in Nat
      BY <2>3 DEF AnsweredOnce
    <3>2. ~(n <= sent[c])
      BY <3>1
    <3>3. QED BY <2>2, <3>1, <3>2 DEF AnsweredOnce
  <2>4. QED BY <2>1, <2>2, <2>3, CreditsOnce
<1>5. ASSUME NEW R \in SUBSET Ledger!Request, Ledger!Answer(R)
      PROVE  AnsweredOnce'
  <2>1. replies' = Ledger!Credited(R) /\ UNCHANGED sent /\ \A r \in R : Ledger!Open(r)
    BY <1>5 DEF Ledger!Answer
  <2>2. ASSUME NEW d \in Clients, NEW n \in Lids, <<d, n>> \in R
        PROVE  replies[d][n] = 0 /\ n <= sent'[d]
    BY <2>1, <2>2 DEF Ledger!Open
  <2>3. QED BY <2>1, <2>2, CreditsOnce DEF AnsweredOnce
<1>6. ASSUME NEW r, Ledger!Execute(r)
      PROVE  AnsweredOnce'
  BY <1>6 DEF Ledger!Execute, AnsweredOnce
<1>7. QED BY <1>2, <1>3, <1>4, <1>5, <1>6 DEF Ledger!Next

(* No request is ever answered a second time, or before it was sent: not by  *)
(* the reaper, a reset or the router after one of the others was first, nor  *)
(* when its client leaves meanwhile.  This follows from the ledger, and so   *)
(* from nothing in the daemon but that it implements it.                     *)
THEOREM AnsweredAtMostOnce == Spec => []AnsweredOnce
<1>1. Ledger!Init => AnsweredOnce
  BY DEF Ledger!Init, AnsweredOnce
<1>2. TypeOK /\ AnsweredOnce /\ [Ledger!Next]_Ledger!ledgerVars => AnsweredOnce'
  <2>1. CASE UNCHANGED Ledger!ledgerVars
    BY <2>1 DEF Ledger!ledgerVars, AnsweredOnce
  <2>2. QED BY <2>1, LedgerAnswersOnce
<1>3. QED BY <1>1, <1>2, MuxImplementsLedger, TypeCorrect, PTL DEF ImplementsLedger, Ledger!Spec
=============================================================================
