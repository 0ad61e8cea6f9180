----------------------------- MODULE FateProofs -----------------------------
(***************************************************************************)
(* What becomes of a request, for every set of clients, every limit and    *)
(* any number of children: it is answered once or owed by one task, and    *)
(* never both.                                                             *)
(*                                                                         *)
(* An answer is owed from the table of pending requests, from the reaper's *)
(* and the router's hands, or to a waiting initialize.  The count of       *)
(* OneFate is not inductive.  What is: no two of these owe the same        *)
(* request (Debts), and what a registered client has been given is         *)
(* determined by what is owed to it (Settled).                             *)
(***************************************************************************)
EXTENDS OrderProofs

USE DEF handlerVars, routerVars, managerVars, muxVars, tableVars, initVars,
        statusVars, queueVars, mainVars

Lookups == {h.entry : h \in {x \in held : x.stage = "lookup"}}
Owed == pending \cup expired \cup Lookups

Due(c, n) == \/ \E p \in Owed : p.client = c /\ p.lid = n
             \/ <<c, n>> \in init_waiting

Debts ==
  /\ \A g, h \in held : g = h
  /\ pending \cap expired = {} /\ pending \cap Lookups = {} /\ expired \cap Lookups = {}
  /\ \A p, q \in Owed : p.client = q.client /\ p.lid = q.lid => p = q
  /\ \A p \in Owed : /\ <<p.client, p.lid>> \notin init_waiting
                     /\ p.lid <= sent[p.client]
  /\ \A c \in Clients : \A n \in Lids : <<c, n>> \in init_waiting => n <= sent[c]

Settled ==
  /\ \A c \in clients : \A n \in Lids :
       replies[c][n] = IF n <= sent[c] /\ ~Due(c, n) THEN 1 ELSE 0
  /\ \A c \in Clients : conn[c] \in {"none", "accepted", "admitted"} =>
       /\ c \notin clients /\ sent[c] = 0
       /\ \A n \in Lids : replies[c][n] = 0

FateInv == Debts /\ Settled

LEMMA InitFate == Init => FateInv
BY DEF Init, MuxStateInit, ChannelsInit, HandlerInit, RouterInit, FateInv, Debts, Settled,
   Owed, Lookups

LEMMA OwedType ==
  ASSUME TypeOK
  PROVE  /\ Owed \subseteq Entry /\ clients \subseteq Clients
         /\ \A p \in Entry : p.client \in Clients /\ p.lid \in Lids /\ p.seq \in Nat \ {0}
         /\ \A n \in Lids : n \in Nat
         /\ \A c \in Clients : /\ sent[c] \in Nat
                               /\ \A n \in Lids : replies[c][n] \in Nat
<1>1. Lookups \subseteq Entry
  BY DEF Lookups, TypeOK, RouterTypeOK, Held
<1>2. Owed \subseteq Entry /\ clients \subseteq Clients
  BY <1>1 DEF Owed, TypeOK, MuxStateTypeOK, RouterTypeOK
<1>3. \A p \in Entry : p.client \in Clients /\ p.lid \in Lids /\ p.seq \in Nat \ {0}
  BY DEF Entry
<1>4. \A n \in Lids : n \in Nat
  BY ConstantsAssumption DEF Lids
<1>5. \A c \in Clients : sent[c] \in Nat /\ \A n \in Lids : replies[c][n] \in Nat
  BY DEF TypeOK, HandlerTypeOK, ChannelsTypeOK
<1>6. QED BY <1>2, <1>3, <1>4, <1>5

-----------------------------------------------------------------------------
(* Answering.  A task that answers the requests R, which are owed, and owes  *)
(* them no longer, keeps the account.                                        *)
LEMMA AnsweringSettles ==
  ASSUME TypeOK, Settled, NEW R, SendReplies(R),
         UNCHANGED <<clients, conn, sent>>,
         \A c \in clients : \A n \in Lids : <<c, n>> \in R => n <= sent[c] /\ Due(c, n),
         \A c \in clients : \A n \in Lids : Due(c, n)' <=> Due(c, n) /\ <<c, n>> \notin R
  PROVE  Settled'
<1>1. \A c \in Clients : \A n \in Lids :
        replies'[c][n] = IF c \in clients /\ <<c, n>> \in R
                         THEN replies[c][n] + 1 ELSE replies[c][n]
  <2> SUFFICES ASSUME NEW c \in Clients, NEW n \in Lids
               PROVE  replies'[c][n] = IF c \in clients /\ <<c, n>> \in R
                                       THEN replies[c][n] + 1 ELSE replies[c][n]
    OBVIOUS
  <2>1. replies'[c][n] = replies[c][n] + IF c \in clients /\ <<c, n>> \in R THEN 1 ELSE 0
    BY DEF SendReplies
  <2>2. replies[c][n] \in Nat
    BY OwedType
  <2>3. CASE c \in clients /\ <<c, n>> \in R
    BY <2>1, <2>3
  <2>4. CASE ~(c \in clients /\ <<c, n>> \in R)
    BY <2>1, <2>2, <2>4
  <2>5. QED BY <2>3, <2>4
<1>2. ASSUME NEW c \in clients, NEW n \in Lids
      PROVE  replies'[c][n] = IF n <= sent'[c] /\ ~Due(c, n)' THEN 1 ELSE 0
  <2>1. replies[c][n] = IF n <= sent[c] /\ ~Due(c, n) THEN 1 ELSE 0
    BY DEF Settled
  <2>2. c \in Clients /\ replies[c][n] \in Nat
    BY OwedType
  <2>3. CASE <<c, n>> \in R
    BY <1>1, <2>1, <2>2, <2>3
  <2>4. CASE <<c, n>> \notin R
    BY <1>1, <2>1, <2>2, <2>4
  <2>5. QED BY <2>3, <2>4
<1>3. ASSUME NEW c \in Clients, conn[c] \in {"none", "accepted", "admitted"}
      PROVE  /\ c \notin clients /\ sent[c] = 0
             /\ \A n \in Lids : replies'[c][n] = 0
  <2>1. c \notin clients /\ sent[c] = 0 /\ \A n \in Lids : replies[c][n] = 0
    BY <1>3 DEF Settled
  <2>2. \A n \in Lids : replies'[c][n] = replies[c][n]
    BY <1>1, <2>1
  <2>3. QED BY <2>1, <2>2
<1>4. QED BY <1>2, <1>3 DEF Settled

(* A step that moves debts, and answers nothing.                             *)
LEMMA MovingSettles ==
  ASSUME TypeOK, FateInv, UNCHANGED <<clients, conn, sent, replies, init_waiting>>,
         Owed' = Owed
  PROVE  Settled'
<1>1. \A c, n : Due(c, n)' <=> Due(c, n)
  BY DEF Due
<1>2. QED BY <1>1 DEF FateInv, Settled

LEMMA NothingMoved ==
  ASSUME FateInv, UNCHANGED <<clients, sent, replies, init_waiting, pending, expired, held>>,
         \A c \in Clients : conn'[c] \in {"none", "accepted", "admitted"} =>
                              conn[c] \in {"none", "accepted", "admitted"}
  PROVE  FateInv'
<1>1. Owed' = Owed /\ Lookups' = Lookups
  BY DEF Owed, Lookups
<1>2. \A c, n : Due(c, n)' <=> Due(c, n)
  BY <1>1 DEF Due
<1>3. Debts'
  BY <1>1 DEF FateInv, Debts
<1>4. Settled'
  BY <1>2 DEF FateInv, Settled
<1>5. QED BY <1>3, <1>4 DEF FateInv

-----------------------------------------------------------------------------
(* The router.                                                              *)

LEMMA RouteKeepsFate ==
  ASSUME TypeOK, IdsUnique, FateInv, RouteResponse, UNCHANGED <<conn, sent>>
  PROVE  FateInv'
<1>1. PICK m \in Head(events).msg :
        /\ pending' = pending \ Matches(m)
        /\ held' = {[entry |-> p, msg |-> m, child |-> Head(events).child,
                     stage |-> "lookup"] : p \in Matches(m)}
  BY DEF RouteResponse
<1>2. held = {} /\ UNCHANGED <<clients, replies, init_waiting, expired>>
  BY DEF RouteResponse
<1>3. m \in Travelling
  <2>1. events # <<>> /\ events' = Tail(events)
    BY DEF RouteResponse
  <2>2. Head(events) \in Range(events)
    BY <2>1, EventTaken
  <2>3. m \in Responses
    BY <2>2 DEF Responses
  <2>4. QED BY <2>3 DEF Travelling
<1>4. \A p \in Matches(m) : p = m
  BY <1>3, MatchIsSelf
<1>5. Lookups = {} /\ Lookups' = Matches(m)
  <2>1. \A g \in held' : g.stage = "lookup" /\ g.entry \in Matches(m)
    BY <1>1
  <2>2. ASSUME NEW p \in Matches(m)
        PROVE  \E g \in held' : g.stage = "lookup" /\ g.entry = p
    <3> DEFINE g == [entry |-> p, msg |-> m, child |-> Head(events).child, stage |-> "lookup"]
    <3>1. g \in held' /\ g.stage = "lookup" /\ g.entry = p
      BY <1>1
    <3>2. QED BY <3>1
  <2>3. QED BY <1>2, <2>1, <2>2 DEF Lookups
<1>6. Matches(m) \subseteq pending
  BY DEF Matches
<1>7. Owed' = Owed
  BY <1>1, <1>2, <1>5, <1>6 DEF Owed
<1>8. Debts'
  BY <1>1, <1>2, <1>4, <1>5, <1>6, <1>7 DEF FateInv, Debts
<1>9. QED BY <1>2, <1>7, <1>8, MovingSettles DEF FateInv

LEMMA DeliverKeepsFate ==
  ASSUME TypeOK, FateInv, DeliverResponse, UNCHANGED <<conn, sent>>
  PROVE  FateInv'
<1>1. PICK h \in held :
        /\ h.stage = "lookup"
        /\ SendReplies({<<h.entry.client, h.entry.lid>>})
        /\ held' = IF h.entry.client \in clients /\ h.entry.is_initialize
                   THEN {[h EXCEPT !.stage = "cache"]} ELSE {}
  BY DEF DeliverResponse
<1> DEFINE e == h.entry
<1>2. UNCHANGED <<clients, init_waiting, expired, pending>>
  BY DEF DeliverResponse
<1>3. Lookups = {e}
  BY <1>1 DEF FateInv, Debts, Lookups
<1>4. Lookups' = {}
  <2>1. \A g \in held' : g.stage = "cache"
    BY <1>1 DEF TypeOK, RouterTypeOK, Held
  <2>2. QED BY <2>1 DEF Lookups
<1>5. \A p \in Owed' : p \in Owed /\ p # e
  BY <1>2, <1>3, <1>4 DEF Owed, FateInv, Debts
<1>6. \A p \in Owed : p \in Owed' \/ p = e
  BY <1>2, <1>3, <1>4 DEF Owed
<1>7. e \in Owed /\ e \in Entry
  BY <1>3, OwedType DEF Owed
<1>8. Debts'
  <2>1. \A f, g \in held' : f = g
    BY <1>1
  <2>2. QED BY <1>2, <1>4, <1>5, <2>1 DEF FateInv, Debts
<1>9. \A c, n : Due(c, n)' <=> Due(c, n) /\ <<c, n>> # <<e.client, e.lid>>
  BY <1>2, <1>5, <1>6, <1>7 DEF Due, FateInv, Debts
<1>10. Due(e.client, e.lid) /\ e.lid <= sent[e.client]
  BY <1>7 DEF Due, FateInv, Debts
<1>11. Settled'
  BY <1>1, <1>2, <1>9, <1>10, AnsweringSettles DEF FateInv
<1>12. QED BY <1>8, <1>11 DEF FateInv

LEMMA CacheKeepsFate ==
  ASSUME TypeOK, FateInv, CacheInitialize, UNCHANGED <<conn, sent>>
  PROVE  FateInv'
<1>1. /\ \E h \in held : h.stage = "cache"
      /\ SendReplies(init_waiting) /\ init_waiting' = {} /\ held' = {}
      /\ UNCHANGED <<clients, pending, expired>>
  BY DEF CacheInitialize
<1>2. Lookups = {} /\ Lookups' = {}
  BY <1>1 DEF Lookups, FateInv, Debts
<1>3. Owed' = Owed
  BY <1>1, <1>2 DEF Owed
<1>4. Debts'
  BY <1>1, <1>2, <1>3 DEF FateInv, Debts
<1>5. \A c, n : Due(c, n)' <=> Due(c, n) /\ <<c, n>> \notin init_waiting
  BY <1>1, <1>3 DEF Due, FateInv, Debts
<1>6. \A c \in clients : \A n \in Lids : <<c, n>> \in init_waiting => n <= sent[c] /\ Due(c, n)
  BY OwedType DEF Due, FateInv, Debts
<1>7. Settled'
  BY <1>1, <1>5, <1>6, AnsweringSettles DEF FateInv
<1>8. QED BY <1>4, <1>7 DEF FateInv

LEMMA ResetKeepsFate ==
  ASSUME TypeOK, FateInv, HandleReset, UNCHANGED <<conn, sent>>
  PROVE  FateInv'
<1> DEFINE R == Requests(pending) \cup init_waiting
<1>1. /\ SendReplies(R) /\ pending' = {} /\ init_waiting' = {} /\ held = {}
      /\ UNCHANGED <<clients, expired, held>>
  BY DEF HandleReset, ResetState
<1>2. Lookups = {} /\ Lookups' = {}
  BY <1>1 DEF Lookups
<1>3. Owed = pending \cup expired /\ Owed' = expired
  BY <1>1, <1>2 DEF Owed
<1>4. Debts'
  BY <1>1, <1>2, <1>3 DEF FateInv, Debts
<1>5. \A c, n : <<c, n>> \in R <=> (\E p \in pending : p.client = c /\ p.lid = n)
                                    \/ <<c, n>> \in init_waiting
  BY DEF Requests
<1>6. ASSUME NEW c, NEW n
      PROVE  Due(c, n)' <=> Due(c, n) /\ <<c, n>> \notin R
  <2>1. Due(c, n)' <=> \E p \in expired : p.client = c /\ p.lid = n
    BY <1>1, <1>3 DEF Due
  <2>2. ASSUME NEW p \in expired, p.client = c, p.lid = n
        PROVE  <<c, n>> \notin R
    <3>1. <<c, n>> \notin init_waiting
      BY <1>3, <2>2 DEF FateInv, Debts
    <3>2. \A q \in pending : ~(q.client = c /\ q.lid = n)
      BY <1>3, <2>2 DEF FateInv, Debts
    <3>3. QED BY <1>5, <3>1, <3>2
  <2>3. Due(c, n) <=> (\E p \in expired : p.client = c /\ p.lid = n) \/ <<c, n>> \in R
    BY <1>3, <1>5 DEF Due
  <2>4. QED BY <2>1, <2>2, <2>3
<1>7. \A c \in clients : \A n \in Lids : <<c, n>> \in R => n <= sent[c] /\ Due(c, n)
  BY <1>3, <1>5, OwedType DEF Due, FateInv, Debts
<1>8. Settled'
  BY <1>1, <1>6, <1>7, AnsweringSettles DEF FateInv
<1>9. QED BY <1>4, <1>8 DEF FateInv

-----------------------------------------------------------------------------
(* The reaper.                                                              *)

LEMMA ReapKeepsFate ==
  ASSUME TypeOK, FateInv, NEW k, ReapExpired(k), UNCHANGED <<conn, sent>>
  PROVE  FateInv'
<1>1. /\ expired = {} /\ expired' \subseteq pending /\ pending' = pending \ expired'
      /\ UNCHANGED <<held, clients, init_waiting, replies>>
  BY DEF ReapExpired
<1>2. Lookups' = Lookups
  BY <1>1 DEF Lookups
<1>3. Owed' = Owed
  BY <1>1, <1>2 DEF Owed
<1>4. Debts'
  BY <1>1, <1>2, <1>3 DEF FateInv, Debts
<1>5. QED BY <1>1, <1>3, <1>4, MovingSettles DEF FateInv

LEMMA TimeoutKeepsFate ==
  ASSUME TypeOK, FateInv, SendTimeouts, UNCHANGED <<conn, sent>>
  PROVE  FateInv'
<1> DEFINE R == Requests(expired)
<1>1. /\ SendReplies(R) /\ expired' = {}
      /\ UNCHANGED <<held, clients, pending, init_waiting>>
  BY DEF SendTimeouts
<1>2. Lookups' = Lookups
  BY <1>1 DEF Lookups
<1>3. Owed' = pending \cup Lookups
  BY <1>1, <1>2 DEF Owed
<1>4. Debts'
  BY <1>1, <1>2, <1>3 DEF FateInv, Debts, Owed
<1>5. \A c, n : <<c, n>> \in R <=> \E p \in expired : p.client = c /\ p.lid = n
  BY DEF Requests
<1>6. ASSUME NEW c, NEW n
      PROVE  Due(c, n)' <=> Due(c, n) /\ <<c, n>> \notin R
  <2>1. Due(c, n)' <=> \/ \E p \in pending \cup Lookups : p.client = c /\ p.lid = n
                       \/ <<c, n>> \in init_waiting
    BY <1>1, <1>3 DEF Due
  <2>2. Due(c, n) <=> Due(c, n)' \/ <<c, n>> \in R
    BY <1>5, <2>1 DEF Due, Owed
  <2>3. ASSUME NEW p \in expired, p.client = c, p.lid = n
        PROVE  ~Due(c, n)'
    <3>1. <<c, n>> \notin init_waiting
      BY <2>3 DEF FateInv, Debts, Owed
    <3>2. \A q \in pending \cup Lookups : ~(q.client = c /\ q.lid = n)
      BY <2>3 DEF FateInv, Debts, Owed
    <3>3. QED BY <2>1, <3>1, <3>2
  <2>4. QED BY <1>5, <2>2, <2>3
<1>7. \A c \in clients : \A n \in Lids : <<c, n>> \in R => n <= sent[c] /\ Due(c, n)
  BY <1>5, OwedType DEF Due, Owed, FateInv, Debts
<1>8. Settled'
  BY <1>1, <1>6, <1>7, AnsweringSettles DEF FateInv
<1>9. QED BY <1>4, <1>8 DEF FateInv

-----------------------------------------------------------------------------
(* The handlers.  The request that is read has a local id that nobody owes. *)

LEMMA ReadingIsNew ==
  ASSUME TypeOK, FateInv, NEW c \in Clients, NEW n \in Lids, NextRequest(c, n)
  PROVE  /\ n = sent[c] + 1 /\ ~Due(c, n)
         /\ \A d \in Clients : sent'[d] = IF d = c THEN n ELSE sent[d]
         /\ c \in clients => replies[c][n] = 0
<1>1. n = sent[c] + 1 /\ sent' = [sent EXCEPT ![c] = n]
  BY DEF NextRequest
<1>2. sent[c] \in Nat
  BY OwedType
<1>3. ~(n <= sent[c])
  BY <1>1, <1>2
<1>4. ~Due(c, n)
  BY <1>3 DEF Due, FateInv, Debts
<1>5. c \in clients => replies[c][n] = 0
  BY <1>3 DEF FateInv, Settled
<1>6. QED BY <1>1, <1>4, <1>5 DEF TypeOK, HandlerTypeOK

LEMMA RequestKeepsFate ==
  ASSUME TypeOK, IdsUnique, FateInv, NEW c \in Clients,
         HandleOversized(c) \/ HandleRequest(c) \/ HandleInitialize(c),
         UNCHANGED <<held, expired>>
  PROVE  FateInv'
<1>1. PICK n \in Lids :
        /\ NextRequest(c, n)
        /\ \/ AnswerAtOnce(c, n)
           \/ Wait(c, n)
           \/ \E i \in BOOLEAN : Forward(c, n, i) /\ ~Overloaded
  BY RequestSteps
<1>2. conn[c] = "reading" /\ UNCHANGED clients /\ Lookups' = Lookups
  BY RequestSteps DEF Lookups
<1>3. /\ n = sent[c] + 1 /\ ~Due(c, n)
      /\ \A d \in Clients : sent'[d] = IF d = c THEN n ELSE sent[d]
      /\ c \in clients => replies[c][n] = 0
  BY <1>1, ReadingIsNew
<1>4. \A d \in Clients : sent[d] \in Nat /\ sent[d] <= sent'[d]
  BY <1>3, OwedType
<1>5. \A d \in Clients : \A m \in Lids :
        m <= sent'[d] <=> m <= sent[d] \/ (d = c /\ m = n)
  BY <1>3, OwedType
<1>6. ASSUME NEW p \in Owed
       PROVE  p.lid <= sent'[p.client] /\ <<p.client, p.lid>> # <<c, n>>
  <2>1. p.client \in Clients /\ p.lid \in Nat /\ p.lid <= sent[p.client]
    BY OwedType DEF FateInv, Debts
  <2>2. sent[p.client] \in Nat /\ sent[p.client] <= sent'[p.client] /\ sent'[p.client] \in Nat
    BY <1>3, <1>4, <2>1
  <2>3. ~(p.client = c /\ p.lid = n)
    BY <1>3 DEF Due
  <2>4. QED BY <2>1, <2>2, <2>3
<1>7. ASSUME UNCHANGED <<pending, init_waiting>>
      PROVE  Debts' /\ \A d, m : Due(d, m)' <=> Due(d, m)
  <2>1. Owed' = Owed
    BY <1>2, <1>7 DEF Owed
  <2>3. \A p \in Owed : p.lid <= sent'[p.client]
    BY <1>6
  <2>4. \A d \in Clients : \A m \in Lids : <<d, m>> \in init_waiting => m <= sent'[d]
    BY <1>5 DEF FateInv, Debts
  <2>5. Debts'
    BY <1>2, <1>7, <2>1, <2>3, <2>4 DEF FateInv, Debts
  <2>6. QED BY <1>7, <2>1, <2>5 DEF Due
<1>8. CASE AnswerAtOnce(c, n)
  <2>1. UNCHANGED <<conn, pending, init_waiting>>
    BY <1>8 DEF AnswerAtOnce
  <2>2. Debts' /\ \A d, m : Due(d, m)' <=> Due(d, m)
    BY <1>7, <2>1
  <2>3. \A d \in Clients : \A m \in Lids :
          replies'[d][m] = replies[d][m] + IF d \in clients /\ d = c /\ m = n THEN 1 ELSE 0
    BY <1>8 DEF AnswerAtOnce, SendReplies
  <2>4. ASSUME NEW d \in clients, NEW m \in Lids
        PROVE  replies'[d][m] = IF m <= sent'[d] /\ ~Due(d, m)' THEN 1 ELSE 0
    <3>1. d \in Clients /\ replies[d][m] \in Nat
      BY OwedType
    <3>2. CASE d = c /\ m = n
      <4>1. replies'[d][m] = 1 /\ m <= sent'[d] /\ ~Due(d, m)'
        BY <1>3, <1>5, <2>2, <2>3, <3>1, <3>2
      <4>2. QED BY <4>1
    <3>3. CASE ~(d = c /\ m = n)
      BY <1>5, <2>2, <2>3, <3>1, <3>3 DEF FateInv, Settled
    <3>4. QED BY <3>2, <3>3
  <2>5. ASSUME NEW d \in Clients, conn[d] \in {"none", "accepted", "admitted"}
        PROVE  d \notin clients /\ sent'[d] = 0 /\ \A m \in Lids : replies'[d][m] = 0
    BY <1>2, <1>3, <2>3, <2>5 DEF FateInv, Settled
  <2>6. QED BY <1>2, <2>1, <2>2, <2>4, <2>5 DEF FateInv, Settled
<1>9. ASSUME \A d \in Clients : \A m \in Lids : Due(d, m)' <=> Due(d, m) \/ (d = c /\ m = n),
             UNCHANGED replies,
             \A d \in Clients : d # c => conn'[d] = conn[d],
             conn'[c] \in {"reading", "sending"}
      PROVE  Settled'
  <2>1. ASSUME NEW d \in clients, NEW m \in Lids
        PROVE  replies[d][m] = IF m <= sent'[d] /\ ~Due(d, m)' THEN 1 ELSE 0
    <3>1. d \in Clients
      BY OwedType
    <3>2. CASE d = c /\ m = n
      BY <1>3, <1>9, <3>1, <3>2
    <3>3. CASE ~(d = c /\ m = n)
      BY <1>5, <1>9, <3>1, <3>3 DEF FateInv, Settled
    <3>4. QED BY <3>2, <3>3
  <2>2. ASSUME NEW d \in Clients, conn'[d] \in {"none", "accepted", "admitted"}
        PROVE  d \notin clients /\ sent'[d] = 0 /\ \A m \in Lids : replies[d][m] = 0
    BY <1>3, <1>9, <2>2 DEF FateInv, Settled
  <2>3. QED BY <1>2, <1>9, <2>1, <2>2 DEF Settled
<1>10. CASE Wait(c, n)
  <2>1. init_waiting' = init_waiting \cup {<<c, n>>} /\ UNCHANGED <<conn, pending, replies>>
    BY <1>10 DEF Wait
  <2>2. Owed' = Owed
    BY <1>2, <2>1 DEF Owed
  <2>3. \A d, m : Due(d, m)' <=> Due(d, m) \/ (d = c /\ m = n)
    BY <2>1, <2>2 DEF Due
  <2>5. \A p \in Owed : p.lid <= sent'[p.client] /\ <<p.client, p.lid>> \notin init_waiting'
    BY <1>6, <2>1 DEF FateInv, Debts
  <2>6. \A d \in Clients : \A m \in Lids : <<d, m>> \in init_waiting' => m <= sent'[d]
    BY <1>5, <2>1 DEF FateInv, Debts
  <2>7. Debts'
    BY <1>2, <2>1, <2>2, <2>5, <2>6 DEF FateInv, Debts
  <2>8. QED BY <1>2, <1>9, <2>1, <2>3, <2>7 DEF FateInv
<1>11. ASSUME NEW i \in BOOLEAN, Forward(c, n, i), ~Overloaded
       PROVE  FateInv'
  <2> DEFINE p == [seq |-> next_global_id, client |-> c, lid |-> n, is_initialize |-> i]
  <2>1. /\ pending' = {q \in pending : GlobalId(q) # GlobalId(p)} \cup {p}
        /\ conn' = [conn EXCEPT ![c] = "sending"]
        /\ UNCHANGED <<replies, init_waiting>>
    BY <1>11 DEF Forward, InsertPending, Goto
  <2>2. pending' = pending \cup {p}
    <3>1. \A q \in pending : q.seq < next_global_id /\ q.seq \in Nat /\ next_global_id \in Nat
      BY TravellingSeq DEF IdsUnique, Travelling, TypeOK, MuxStateTypeOK
    <3>2. \A q \in pending : GlobalId(q) # GlobalId(p)
      BY <3>1 DEF GlobalId
    <3>3. QED BY <2>1, <3>2
  <2>3. Owed' = Owed \cup {p}
    BY <1>2, <2>2 DEF Owed
  <2>4. \A q \in Owed : ~(q.client = c /\ q.lid = n)
    BY <1>3 DEF Due
  <2>5. \A d, m : Due(d, m)' <=> Due(d, m) \/ (d = c /\ m = n)
    BY <2>1, <2>3 DEF Due
  <2>6. /\ p.lid <= sent'[p.client]
        /\ <<p.client, p.lid>> \notin init_waiting'
    BY <1>3, <2>1, OwedType DEF Due
  <2>7. \A q \in Owed' : q.lid <= sent'[q.client] /\ <<q.client, q.lid>> \notin init_waiting'
    BY <1>6, <2>1, <2>3, <2>6 DEF FateInv, Debts
  <2>8. \A d \in Clients : \A m \in Lids : <<d, m>> \in init_waiting' => m <= sent'[d]
    BY <1>5, <2>1 DEF FateInv, Debts
  <2>9. p \notin Owed
    BY <2>4
  <2>10. /\ pending' \cap expired' = {} /\ pending' \cap Lookups' = {}
         /\ expired' \cap Lookups' = {}
    BY <1>2, <2>2, <2>9 DEF FateInv, Debts, Owed
  <2>11. \A q, r \in Owed' : q.client = r.client /\ q.lid = r.lid => q = r
    BY <2>3, <2>4 DEF FateInv, Debts
  <2>12. Debts'
    BY <2>7, <2>8, <2>10, <2>11 DEF FateInv, Debts
  <2>13. \A d \in Clients : d # c => conn'[d] = conn[d]
    BY <2>1 DEF TypeOK, HandlerTypeOK
  <2>14. conn'[c] = "sending"
    BY <2>1 DEF TypeOK, HandlerTypeOK
  <2>15. QED BY <1>9, <2>1, <2>5, <2>12, <2>13, <2>14 DEF FateInv
<1>12. QED BY <1>1, <1>8, <1>10, <1>11

(* A client that leaves takes its own debts along, and no other's.          *)
LEMMA LeavingKeepsFate ==
  ASSUME TypeOK, FateInv, NEW c \in Clients, UnregisterClient(c),
         UNCHANGED <<held, expired, sent, replies>>,
         \A d \in Clients : conn'[d] \in {"none", "accepted", "admitted"} =>
                              conn[d] \in {"none", "accepted", "admitted"}
  PROVE  FateInv'
<1>1. /\ clients' = clients \ {c} /\ pending' \subseteq pending
      /\ pending' = {p \in pending : p.client # c}
      /\ init_waiting' = {w \in init_waiting : w[1] # c}
  BY DEF UnregisterClient
<1>2. Lookups' = Lookups
  BY DEF Lookups
<1>3. Owed' \subseteq Owed /\ \A p \in Owed : p.client # c => p \in Owed'
  BY <1>1, <1>2 DEF Owed
<1>4. \A d, n : d # c => (Due(d, n)' <=> Due(d, n))
  BY <1>1, <1>3 DEF Due
<1>5. init_waiting' \subseteq init_waiting
  BY <1>1
<1>6. Debts'
  BY <1>1, <1>2, <1>3, <1>5 DEF FateInv, Debts
<1>7. Settled'
  BY <1>1, <1>4 DEF FateInv, Settled
<1>8. QED BY <1>6, <1>7 DEF FateInv

LEMMA ClientKeepsFate ==
  ASSUME TypeOK, IdsUnique, HandlerInv, FateInv, NEW c \in Clients, ClientStep(c)
  PROVE  FateInv'
<1>0. UNCHANGED <<held, expired>>
  BY DEF ClientStep
<1>1. CASE HandleOversized(c) \/ HandleRequest(c) \/ HandleInitialize(c)
  BY <1>0, <1>1, RequestKeepsFate
<1>2. CASE Register(c)
  <2>1. /\ clients' = clients \cup {c} /\ conn[c] = "admitted"
        /\ conn' = [conn EXCEPT ![c] = "reading"]
        /\ UNCHANGED <<sent, replies, pending, init_waiting>>
    BY <1>2 DEF Register, RegisterClient, Goto
  <2>2. Owed' = Owed /\ Lookups' = Lookups
    BY <1>0, <2>1 DEF Owed, Lookups
  <2>3. \A d, n : Due(d, n)' <=> Due(d, n)
    BY <2>1, <2>2 DEF Due
  <2>4. Debts'
    BY <1>0, <2>1, <2>2 DEF FateInv, Debts
  <2>5. \A n \in Lids : replies[c][n] = 0 /\ ~(n <= sent[c])
    BY <2>1, ConstantsAssumption DEF FateInv, Settled, Lids
  <2>6. Settled'
    BY <2>1, <2>3, <2>5 DEF FateInv, Settled, TypeOK, HandlerTypeOK
  <2>7. QED BY <2>4, <2>6 DEF FateInv
<1>3. CASE LeaveLoop(c) \/ WriterEnds(c)
  <2>1. UnregisterClient(c) /\ UNCHANGED <<sent, replies>>
    BY <1>3 DEF LeaveLoop, WriterEnds
  <2>2. \A d \in Clients : conn'[d] \in {"none", "accepted", "admitted"} =>
                             conn[d] \in {"none", "accepted", "admitted"}
    BY <1>3 DEF LeaveLoop, WriterEnds, Goto, TypeOK, HandlerTypeOK
  <2>3. QED BY <1>0, <2>1, <2>2, LeavingKeepsFate
<1>4. CASE Accept(c) \/ AcquirePermit(c) \/ FinishClose(c) \/ DecodeError(c)
           \/ HandleNotification(c) \/ EnqueueOutgoing(c) \/ ChannelClosed(c)
  <2>1. UNCHANGED <<clients, sent, replies, init_waiting, pending>>
    BY <1>4 DEF Accept, AcquirePermit, FinishClose, DecodeError, HandleNotification,
       EnqueueOutgoing, ChannelClosed
  <2>2. \A d \in Clients : conn'[d] \in {"none", "accepted", "admitted"} =>
                             conn[d] \in {"none", "accepted", "admitted"}
    BY <1>4 DEF Accept, AcquirePermit, FinishClose, DecodeError, HandleNotification,
       EnqueueOutgoing, ChannelClosed, Goto, TypeOK, HandlerTypeOK
  <2>3. QED BY <1>0, <2>1, <2>2, NothingMoved
<1>5. QED BY <1>1, <1>2, <1>3, <1>4 DEF ClientStep, ClientNext

LEMMA NextFate ==
  ASSUME TypeOK, IdsUnique, HandlerInv, FateInv, [Next]_vars
  PROVE  FateInv'
<1>1. CASE RouterStep
  BY <1>1, RouteKeepsFate, DeliverKeepsFate, CacheKeepsFate, ResetKeepsFate
  DEF RouterStep, RouterNext
<1>2. CASE ReaperStep
  BY <1>2, ReapKeepsFate, TimeoutKeepsFate DEF ReaperStep, ReaperNext
<1>3. CASE ManagerStep \/ (\E k \in Children : ChildStep(k)) \/ Shutdown \/ MainExit
           \/ UNCHANGED vars
  <2>1. UNCHANGED <<clients, sent, replies, init_waiting, pending, expired, held, conn>>
    BY <1>3 DEF ManagerStep, ManagerNext, StopAtTop, TakeFirst, PassCheck, GiveUp, Launch,
       SpawnFails,
       TakeMessage, WriteMessage, WriteFirstFails, WriteFails, ChildWaitDone, WaitFails,
       StopServing, Cleanup, Clear, SleepBackoff, ChildStep, ChildNext, ChildExits,
       ChildResponds, ReaderEnds, Shutdown, MainExit, vars
  <2>2. QED BY <2>1, NothingMoved
<1>4. QED BY <1>1, <1>2, <1>3, ClientKeepsFate DEF Next

LEMMA FateInvariant == Spec => [](TypeOK /\ HandlerInv /\ FateInv)
<1>1. TypeOK /\ IdsUnique /\ HandlerInv /\ FateInv /\ [Next]_vars => FateInv'
  BY NextFate
<1>2. QED BY <1>1, InitFate, HandlerInvariant, RoutingInvariant, PTL DEF Spec

-----------------------------------------------------------------------------
(* Every request of a registered client has been answered once, or exactly   *)
(* one of the pending table, the reaper, the router and the waiting list     *)
(* still owes the answer: nothing is lost and nothing answered twice, in     *)
(* whatever order the critical sections of handle_server_message,            *)
(* reap_timeouts, reset_state and the handlers come.                         *)
THEOREM EveryRequestHasOneFate == Spec => []OneFate
<1>1. ASSUME TypeOK, FateInv
      PROVE  OneFate
  <2> SUFFICES ASSUME NEW c \in clients, NEW n \in 1..sent[c]
               PROVE  replies[c][n] + Owing(c, n) = 1
    BY DEF OneFate
  <2> DEFINE Mine(S) == {p \in S : p.client = c /\ p.lid = n}
             Waits == init_waiting \cap {<<c, n>>}
  <2>1. c \in Clients /\ n \in Lids /\ n <= sent[c]
    BY <1>1, OwedType, ConstantsAssumption DEF TypeOK, HandlerTypeOK, Lids
  <2>2. Owing(c, n) = Cardinality(Mine(pending)) + Cardinality(Mine(expired))
                        + Cardinality(Mine(Lookups)) + Cardinality(Waits)
    BY DEF Owing, Lookups
  <2> HIDE DEF Mine, Waits
  <2>3. replies[c][n] = IF ~Due(c, n) THEN 1 ELSE 0
    BY <1>1, <2>1 DEF FateInv, Settled
  <2>4. Cardinality({}) = 0 /\ \A x : Cardinality({x}) = 1
    BY FS_EmptySet, FS_Singleton
  <2>5. CASE ~Due(c, n)
    <3>1. Mine(pending) = {} /\ Mine(expired) = {} /\ Mine(Lookups) = {} /\ Waits = {}
      BY <2>5 DEF Due, Owed, Mine, Waits
    <3>2. QED BY <2>2, <2>3, <2>4, <2>5, <3>1
  <2>6. CASE <<c, n>> \in init_waiting
    <3>1. Mine(pending) = {} /\ Mine(expired) = {} /\ Mine(Lookups) = {}
      BY <1>1, <2>6 DEF FateInv, Debts, Owed, Mine
    <3>2. Waits = {<<c, n>>}
      BY <2>6 DEF Waits
    <3>3. Due(c, n)
      BY <2>6 DEF Due
    <3>4. /\ Cardinality(Mine(pending)) = 0 /\ Cardinality(Mine(expired)) = 0
          /\ Cardinality(Mine(Lookups)) = 0 /\ Cardinality(Waits) = 1
      BY <2>4, <3>1, <3>2
    <3>5. replies[c][n] = 0
      BY <2>3, <3>3
    <3>6. QED BY <2>2, <3>4, <3>5
  <2>7. ASSUME NEW p \in Owed, p.client = c, p.lid = n
        PROVE  replies[c][n] + Owing(c, n) = 1
    <3>1. Due(c, n) /\ Waits = {}
      BY <1>1, <2>7 DEF Due, FateInv, Debts, Waits
    <3>0. replies[c][n] = 0 /\ Cardinality(Waits) = 0
      <4>1. replies[c][n] = 0
        BY <2>3, <3>1
      <4>2. Cardinality(Waits) = 0
        BY <2>4, <3>1
      <4>3. QED BY <4>1, <4>2
    <3>2. \A q \in Owed : q.client = c /\ q.lid = n => q = p
      BY <1>1, <2>7 DEF FateInv, Debts
    <3>3. CASE p \in pending
      <4>1. Mine(pending) = {p} /\ Mine(expired) = {} /\ Mine(Lookups) = {}
        BY <1>1, <2>7, <3>2, <3>3 DEF FateInv, Debts, Owed, Mine
      <4>2. /\ Cardinality(Mine(pending)) = 1 /\ Cardinality(Mine(expired)) = 0
            /\ Cardinality(Mine(Lookups)) = 0
        BY <2>4, <4>1
      <4>3. QED BY <2>2, <3>0, <4>2
    <3>4. CASE p \in expired
      <4>1. Mine(pending) = {} /\ Mine(expired) = {p} /\ Mine(Lookups) = {}
        BY <1>1, <2>7, <3>2, <3>4 DEF FateInv, Debts, Owed, Mine
      <4>2. /\ Cardinality(Mine(pending)) = 0 /\ Cardinality(Mine(expired)) = 1
            /\ Cardinality(Mine(Lookups)) = 0
        BY <2>4, <4>1
      <4>3. QED BY <2>2, <3>0, <4>2
    <3>5. CASE p \in Lookups
      <4>1. Mine(pending) = {} /\ Mine(expired) = {} /\ Mine(Lookups) = {p}
        BY <1>1, <2>7, <3>2, <3>5 DEF FateInv, Debts, Owed, Mine
      <4>2. /\ Cardinality(Mine(pending)) = 0 /\ Cardinality(Mine(expired)) = 0
            /\ Cardinality(Mine(Lookups)) = 1
        BY <2>4, <4>1
      <4>3. QED BY <2>2, <3>0, <4>2
    <3>6. QED BY <2>7, <3>3, <3>4, <3>5 DEF Owed
  <2>8. QED BY <2>5, <2>6, <2>7 DEF Due
<1>2. QED BY <1>1, FateInvariant, PTL
=============================================================================
