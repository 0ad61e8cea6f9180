---------------------------- MODULE SocketProofs ----------------------------
(***************************************************************************)
(* What daemons that share a socket path can rely on, for any number of    *)
(* them, and that hosts, proxies and health checks do not change it; and   *)
(* what becomes of a host's lines on their way through a proxy.            *)
(***************************************************************************)
EXTENDS Endpoints, SequenceTheorems, TLAPS

(* A daemon that runs, unless two did at a time, runs alone; while it binds *)
(* the path is free, and while it listens the file there is its own.        *)
Alone == ~overlapped =>
  /\ \A d, e \in Daemons : Running(d) /\ Running(e) => d = e
  /\ \A d \in Daemons :
       /\ daemon[d] = "binding" => path = NoFile
       /\ daemon[d] \in {"listening", "leaving"} => path = d
       /\ daemon[d] # "failed"

SocketInv == SocketTypeOK /\ NoOrphanFile /\ Alone

LEMMA SocketInvInit == SocketInit => SocketInv
BY SocketAssumption
   DEF SocketInit, SocketInv, SocketTypeOK, NoOrphanFile, Alone, Running, Ended

(* Every step but a start keeps `overlapped`; each moves one daemon.        *)
LEMMA SocketInvKept ==
  ASSUME SocketInv, [SocketNext]_socketVars
  PROVE  SocketInv'
<1> USE SocketAssumption DEF Ended
<1>1. SocketTypeOK'
  <2>1. CASE UNCHANGED socketVars
    BY <2>1 DEF SocketInv, SocketTypeOK, socketVars
  <2>2. ASSUME NEW d \in Daemons, SocketStep(d)
        PROVE  SocketTypeOK'
    BY <2>2 DEF SocketInv, SocketTypeOK, SocketStep, Start, RemoveStale, Bind, Shutdown,
                RemoveFile, Return, Crash, Becomes
  <2>3. QED BY <2>1, <2>2 DEF SocketNext
<1>2. CASE UNCHANGED socketVars
  BY <1>1, <1>2 DEF SocketInv, SocketTypeOK, NoOrphanFile, Alone, Running, socketVars
<1>3. ASSUME NEW d \in Daemons, SocketStep(d)
      PROVE  NoOrphanFile' /\ Alone'
  <2> USE DEF SocketInv, SocketTypeOK, NoOrphanFile, Alone, Running, Becomes
  <2>1. CASE Start(d) BY <2>1 DEF Start
  <2>2. CASE RemoveStale(d) BY <2>2 DEF RemoveStale
  <2>3. CASE Bind(d) BY <2>3 DEF Bind
  <2>4. CASE Shutdown(d) BY <2>4 DEF Shutdown
  <2>5. CASE RemoveFile(d) BY <2>5 DEF RemoveFile
  <2>6. CASE Return(d) BY <2>6 DEF Return
  <2>7. CASE Crash(d) BY <2>7 DEF Crash
  <2>8. QED BY <1>3, <2>1, <2>2, <2>3, <2>4, <2>5, <2>6, <2>7 DEF SocketStep
<1>4. QED BY <1>1, <1>2, <1>3 DEF SocketInv, SocketNext

LEMMA SocketInvariant == SocketSpec => []SocketInv
<1>1. SocketInit => SocketInv BY SocketInvInit
<1>2. SocketInv /\ [SocketNext]_socketVars => SocketInv' BY SocketInvKept
<1>3. QED BY <1>1, <1>2, PTL DEF SocketSpec

-----------------------------------------------------------------------------
(* No daemon that ended on its own leaves its file at the path: what is      *)
(* there is of one that accepts clients, is about to remove it, or was       *)
(* killed.                                                                   *)
THEOREM FilesHaveOwners == SocketSpec => []NoOrphanFile
<1>1. SocketInv => NoOrphanFile BY DEF SocketInv
<1>2. QED BY <1>1, SocketInvariant, PTL

(* Daemons that follow each other on a path can be reached, whatever the one *)
(* before left there.                                                        *)
THEOREM ListenersReachable == SocketSpec => []Reachable
<1>1. SocketInv => Reachable BY DEF SocketInv, Alone, Reachable
<1>2. QED BY <1>1, SocketInvariant, PTL

(* A daemon fails to bind only if another one runs: never because of a file  *)
(* that a killed one left.                                                   *)
THEOREM LeftoverFileHarmless == SocketSpec => []StaleFileHarmless
<1>1. SocketInv => StaleFileHarmless BY DEF SocketInv, Alone, StaleFileHarmless
<1>2. QED BY <1>1, SocketInvariant, PTL

(* The daemons of Endpoints are those of SocketFile: no step of a host, a    *)
(* proxy or a connection changes them or the path.  So the three theorems    *)
(* hold of the composition too.                                              *)
THEOREM EndpointsKeepsSocket == Spec => SocketSpec
<1>1. Init => SocketInit BY DEF Init
<1>2. [Next]_vars => [SocketNext]_socketVars
  <2>1. ASSUME NEW d \in Daemons, DaemonStep(d)
        PROVE  SocketNext
    BY <2>1 DEF DaemonStep, SocketNext
  <2>2. ASSUME NEW p \in Proxies,
               HostWrites(p) \/ HostCloses(p) \/ Connect(p) \/ ProxyStep(p) \/ MuxStep(p)
        PROVE  UNCHANGED socketVars
    <3>1. CASE HostWrites(p) \/ HostCloses(p) \/ Connect(p)
      BY <3>1 DEF HostWrites, HostCloses, Connect, socketVars
    <3>2. CASE ProxyStep(p)
      BY <3>2 DEF ProxyStep, ProbeLeaves, ToMux, StdinEnds, ToStdout, SocketEnds, ProcessEnds, socketVars
    <3>3. CASE MuxStep(p)
      BY <3>3 DEF MuxStep, Accept, MuxReads, MuxSeesEnd, MuxAnswers, MuxDisconnects, socketVars
    <3>4. QED BY <2>2, <3>1, <3>2, <3>3
  <2>3. CASE UNCHANGED vars BY <2>3 DEF vars
  <2>4. QED BY <2>1, <2>2, <2>3 DEF Next
<1>3. QED BY <1>1, <1>2, PTL DEF Spec, SocketSpec

-----------------------------------------------------------------------------
(* Types of the composition.                                                *)

LEMMA Streams == <<>> \in Input /\ <<>> \in Output
BY DEF Input, Output

LEMMA InputSteps ==
  ASSUME NEW q \in Input
  PROVE  /\ \A x \in Lines \cup {Bad} : Append(q, x) \in Input
         /\ q # <<>> => Head(q) \in Lines \cup {Bad} /\ Tail(q) \in Input
<1> DEFINE S == Lines \cup {Bad}
<1> HIDE DEF S
<1>1. q \in Seq(S)
  BY DEF Input, S
<1>2. /\ \A x \in S : Append(q, x) \in Seq(S)
      /\ q # <<>> => Head(q) \in S /\ Tail(q) \in Seq(S)
  BY <1>1
<1>3. QED BY <1>2 DEF Input, S

LEMMA OutputSteps ==
  ASSUME NEW q \in Output
  PROVE  /\ \A x \in Lines : Append(q, x) \in Output
         /\ q # <<>> => Head(q) \in Lines /\ Tail(q) \in Output
<1>1. q \in Seq(Lines)
  BY DEF Output
<1>2. /\ \A x \in Lines : Append(q, x) \in Seq(Lines)
      /\ q # <<>> => Head(q) \in Lines /\ Tail(q) \in Seq(Lines)
  BY <1>1
<1>3. QED BY <1>2 DEF Output

LEMMA TypeInit == Init => TypeOK
<1>1. <<>> \in Output /\ <<>> \in Input
  BY Streams
<1>2. Init => SocketTypeOK
  BY SocketInvInit DEF Init, SocketInv
<1>3. QED BY <1>1, <1>2, EndpointsAssumption DEF Init, TypeOK

LEMMA HostTypes ==
  ASSUME TypeOK, NEW p \in Proxies, HostWrites(p) \/ HostCloses(p)
  PROVE  /\ sent' \in [Proxies -> 0..Limit] /\ open' \in [Proxies -> BOOLEAN]
         /\ garbled' \in [Proxies -> BOOLEAN]
         /\ stdin' \in [Proxies -> Input]
         /\ UNCHANGED <<socketVars, stdout, proxy, connVars, up, upOpen, asked, down>>
<1>1. CASE HostWrites(p)
  <2>1. sent[p] + 1 \in 0..Limit /\ sent[p] + 1 \in Lines
    BY <1>1, EndpointsAssumption DEF HostWrites, TypeOK, Lines
  <2>2. sent' \in [Proxies -> 0..Limit]
    BY <1>1, <2>1 DEF Put, HostWrites, TypeOK
  <2>3. stdin[p] \in Input
    BY DEF TypeOK
  <2>4. /\ Append(stdin[p], sent[p] + 1) \in Input
        /\ Append(stdin[p], Bad) \in Input
    <3>1. \A x \in Lines \cup {Bad} : Append(stdin[p], x) \in Input
      BY <2>3, InputSteps
    <3>2. QED BY <2>1, <3>1
  <2>5. stdin' \in [Proxies -> Input]
    BY <1>1, <2>4 DEF Put, HostWrites, TypeOK
  <2>6. garbled' \in [Proxies -> BOOLEAN]
    BY <1>1 DEF Put, HostWrites, TypeOK
  <2>7. QED BY <1>1, <2>2, <2>5, <2>6 DEF HostWrites, TypeOK
<1>2. CASE HostCloses(p)
  BY <1>2 DEF Put, HostCloses, TypeOK, hostVars
<1>3. QED BY <1>1, <1>2

ProxyTypes ==
  /\ proxy \in [Proxies -> {"new", "copying", "copied", "drained", "returned", "ended"}]
  /\ upOpen \in [Proxies -> BOOLEAN]
  /\ stdout \in [Proxies -> SUBSET Lines]
  /\ stdin \in [Proxies -> Input]
  /\ up \in [Proxies -> Input]
  /\ down \in [Proxies -> Output]

LEMMA ProxyStepTypes ==
  ASSUME TypeOK, NEW p \in Proxies, ProxyStep(p)
  PROVE  ProxyTypes' /\ UNCHANGED <<socketVars, hostVars, connVars, asked>>
<1>1. ProxyTypes
  BY DEF TypeOK, ProxyTypes
<1>2. CASE ProbeLeaves(p)
  BY <1>1, <1>2 DEF Put, ProbeLeaves, ProxyTypes
<1>3. CASE ToMux(p)
  <2>1. /\ Head(stdin[p]) \in Lines \cup {Bad} /\ Tail(stdin[p]) \in Input
        /\ Append(up[p], Head(stdin[p])) \in Input
    <3>1. stdin[p] \in Input /\ up[p] \in Input /\ stdin[p] # <<>>
      BY <1>1, <1>3 DEF ToMux, ProxyTypes
    <3>2. Head(stdin[p]) \in Lines \cup {Bad} /\ Tail(stdin[p]) \in Input
      BY <3>1, InputSteps
    <3>3. \A x \in Lines \cup {Bad} : Append(up[p], x) \in Input
      BY <3>1, InputSteps
    <3>4. QED BY <3>2, <3>3
  <2>2. stdin' \in [Proxies -> Input]
    BY <1>1, <1>3, <2>1 DEF Put, ToMux, ProxyTypes
  <2>3. up' \in [Proxies -> Input]
    BY <1>1, <1>3, <2>1 DEF Put, ToMux, ProxyTypes
  <2>4. /\ proxy' \in [Proxies -> {"new", "copying", "copied", "drained", "returned", "ended"}]
        /\ upOpen' \in [Proxies -> BOOLEAN]
    BY <1>1, <1>3 DEF Put, ToMux, Returns, ProxyTypes
  <2>5. QED BY <1>1, <1>3, <2>2, <2>3, <2>4 DEF ToMux, ProxyTypes
<1>4. CASE StdinEnds(p) \/ SocketEnds(p)
  <2>1. /\ proxy' \in [Proxies -> {"new", "copying", "copied", "drained", "returned", "ended"}]
        /\ upOpen' \in [Proxies -> BOOLEAN]
    BY <1>1, <1>4 DEF Put, StdinEnds, SocketEnds, Continues, Returns, ProxyTypes
  <2>2. QED BY <1>1, <1>4, <2>1 DEF StdinEnds, SocketEnds, ProxyTypes
<1>5. CASE ToStdout(p)
  <2>1. Head(down[p]) \in Lines /\ Tail(down[p]) \in Output
    <3>1. down[p] \in Output /\ down[p] # <<>>
      BY <1>1, <1>5 DEF ToStdout, ProxyTypes
    <3>2. QED BY <3>1, OutputSteps
  <2>2. stdout[p] \cup {Head(down[p])} \in SUBSET Lines
    BY <1>1, <2>1 DEF ProxyTypes
  <2>3. stdout' \in [Proxies -> SUBSET Lines]
    BY <1>1, <1>5, <2>2 DEF Put, ToStdout, ProxyTypes
  <2>4. down' \in [Proxies -> Output]
    BY <1>1, <1>5, <2>1 DEF Put, ToStdout, ProxyTypes
  <2>5. QED BY <1>1, <1>5, <2>3, <2>4 DEF ToStdout, ProxyTypes
<1>6. CASE ProcessEnds(p)
  <2>1. <<>> \in Input
    BY Streams
  <2>2. stdin' \in [Proxies -> Input]
    BY <1>1, <1>6, <2>1 DEF Put, ProcessEnds, ProxyTypes
  <2>3. proxy' \in [Proxies -> {"new", "copying", "copied", "drained", "returned", "ended"}]
    BY <1>1, <1>6 DEF Put, ProcessEnds, ProxyTypes
  <2>4. QED BY <1>1, <1>6, <2>2, <2>3 DEF ProcessEnds, ProxyTypes
<1>7. ProxyTypes'
  BY <1>2, <1>3, <1>4, <1>5, <1>6 DEF ProxyStep
<1>8. UNCHANGED <<socketVars, hostVars, connVars, asked>>
  BY DEF ProxyStep, ProbeLeaves, ToMux, StdinEnds, ToStdout, SocketEnds, ProcessEnds
<1>9. QED BY <1>7, <1>8

MuxTypes ==
  /\ conn \in [Proxies -> {"none", "backlog", "served", "deaf", "closed", "reset"}]
  /\ asked \in [Proxies -> SUBSET Lines]
  /\ up \in [Proxies -> Input]
  /\ down \in [Proxies -> Output]

LEMMA ClosesTypes ==
  ASSUME TypeOK, NEW P, Closes(P)
  PROVE  /\ conn' \in [Proxies -> {"none", "backlog", "served", "deaf", "closed", "reset"}]
         /\ asked' \in [Proxies -> SUBSET Lines]
BY DEF Closes, AfterClose, TypeOK

LEMMA MuxStepTypes ==
  ASSUME TypeOK, NEW p \in Proxies, MuxStep(p)
  PROVE  MuxTypes' /\ UNCHANGED <<socketVars, hostVars, stdin, stdout, proxy, server, upOpen>>
<1>1. MuxTypes
  BY DEF TypeOK, MuxTypes
<1>2. CASE Accept(p)
  BY <1>1, <1>2 DEF Put, Accept, MuxTypes
<1>3. CASE MuxReads(p)
  <2>1. Head(up[p]) \in Lines \cup {Bad} /\ Tail(up[p]) \in Input
    <3>1. up[p] \in Input /\ up[p] # <<>>
      BY <1>1, <1>3 DEF MuxReads, MuxTypes
    <3>2. QED BY <3>1, InputSteps
  <2>2. up' \in [Proxies -> Input]
    BY <1>1, <1>3, <2>1 DEF Put, MuxReads, MuxTypes
  <2>3. conn' \in [Proxies -> {"none", "backlog", "served", "deaf", "closed", "reset"}]
    BY <1>1, <1>3 DEF Put, MuxReads, MuxTypes
  <2>4. Head(up[p]) # Bad => asked[p] \cup {Head(up[p])} \in SUBSET Lines
    BY <1>1, <2>1 DEF MuxTypes
  <2>5. asked' \in [Proxies -> SUBSET Lines]
    BY <1>1, <1>3, <2>4 DEF Put, MuxReads, MuxTypes
  <2>6. QED BY <1>1, <1>3, <2>2, <2>3, <2>5 DEF MuxReads, MuxTypes
<1>4. ASSUME MuxSeesEnd(p) \/ MuxDisconnects(p)
      PROVE  MuxTypes'
  <2>1. UNCHANGED <<up, down>>
    BY <1>4 DEF MuxSeesEnd, MuxDisconnects
  <2>2. Closes({p}) \/ (conn' = Put(conn, p, "deaf") /\ UNCHANGED asked)
    BY <1>4 DEF MuxSeesEnd, MuxDisconnects
  <2>3. CASE Closes({p})
    BY <1>1, <2>1, <2>3, ClosesTypes DEF MuxTypes
  <2>4. CASE conn' = Put(conn, p, "deaf") /\ UNCHANGED asked
    BY <1>1, <2>1, <2>4 DEF Put, MuxTypes
  <2>5. QED BY <2>2, <2>3, <2>4
<1>5. ASSUME NEW r \in asked[p],
             \/ /\ asked' = Put(asked, p, asked[p] \ {r})
                /\ down' = Put(down, p, Append(down[p], r)) \/ UNCHANGED down
                /\ UNCHANGED conn
             \/ Closes({p}) /\ UNCHANGED down,
             UNCHANGED up
      PROVE  MuxTypes'
  <2>1. /\ asked[p] \ {r} \in SUBSET Lines
        /\ Append(down[p], r) \in Output
    <3>1. down[p] \in Output /\ r \in Lines
      BY <1>1, <1>5 DEF MuxTypes
    <3>2. Append(down[p], r) \in Output
      BY <3>1, OutputSteps
    <3>3. QED BY <1>1, <3>2 DEF MuxTypes
  <2>2. CASE Closes({p}) /\ UNCHANGED down
    BY <1>1, <1>5, <2>2, ClosesTypes DEF MuxTypes
  <2>3. CASE /\ asked' = Put(asked, p, asked[p] \ {r})
             /\ down' = Put(down, p, Append(down[p], r)) \/ UNCHANGED down
             /\ UNCHANGED conn
    <3>1. asked' \in [Proxies -> SUBSET Lines]
      BY <1>1, <2>1, <2>3 DEF Put, MuxTypes
    <3>2. down' \in [Proxies -> Output]
      BY <1>1, <2>1, <2>3 DEF Put, MuxTypes
    <3>3. QED BY <1>1, <1>5, <2>3, <3>1, <3>2 DEF MuxTypes
  <2>4. QED BY <1>5, <2>2, <2>3
<1>6. CASE MuxAnswers(p)
  BY <1>5, <1>6 DEF MuxAnswers
<1>7. MuxTypes'
  BY <1>2, <1>3, <1>4, <1>6 DEF MuxStep
<1>8. UNCHANGED <<socketVars, hostVars, stdin, stdout, proxy, server, upOpen>>
  BY DEF MuxStep, Accept, MuxReads, MuxSeesEnd, MuxAnswers, MuxDisconnects, connVars
<1>9. QED BY <1>7, <1>8

LEMMA TypeKept ==
  ASSUME TypeOK, SocketInv, [Next]_vars
  PROVE  TypeOK'
<1>1. ASSUME NEW d \in Daemons, DaemonStep(d)
      PROVE  TypeOK'
  <2>1. SocketTypeOK'
    BY <1>1, SocketInvKept DEF DaemonStep, SocketNext, SocketInv
  <2>2. UNCHANGED <<hostVars, stdin, stdout, proxy, server, up, upOpen, down>>
    BY <1>1 DEF DaemonStep
  <2>3. (\E P : Closes(P)) \/ UNCHANGED <<conn, asked>>
    BY <1>1 DEF DaemonStep
  <2>4. /\ conn' \in [Proxies -> {"none", "backlog", "served", "deaf", "closed", "reset"}]
        /\ asked' \in [Proxies -> SUBSET Lines]
    BY <2>3, ClosesTypes DEF TypeOK
  <2>5. QED BY <2>1, <2>2, <2>4 DEF TypeOK, hostVars
<1>2. ASSUME NEW p \in Proxies, HostWrites(p) \/ HostCloses(p)
      PROVE  TypeOK'
  BY <1>2, HostTypes DEF TypeOK, SocketTypeOK, socketVars, connVars
<1>3. ASSUME NEW p \in Proxies, Connect(p)
      PROVE  TypeOK'
  <2>1. UNCHANGED <<socketVars, hostVars, stdin, stdout, up, asked, down>>
    BY <1>3 DEF Connect
  <2>2. path \in Daemons \cup {NoFile}
    BY DEF SocketInv, SocketTypeOK
  <2>3. /\ proxy' \in [Proxies -> {"new", "copying", "copied", "drained", "returned", "ended"}]
        /\ conn' \in [Proxies -> {"none", "backlog", "served", "deaf", "closed", "reset"}]
        /\ server' \in [Proxies -> Daemons \cup {NoFile}]
        /\ upOpen' \in [Proxies -> BOOLEAN]
    <3>1. \/ /\ proxy' = Put(proxy, p, "copying") /\ conn' = Put(conn, p, "backlog")
             /\ server' = Put(server, p, path) /\ upOpen' = Put(upOpen, p, TRUE)
          \/ proxy' = Put(proxy, p, "ended") /\ UNCHANGED <<conn, server, upOpen>>
      BY <1>3 DEF Connect, connVars
    <3>2. /\ Put(proxy, p, "copying") \in
               [Proxies -> {"new", "copying", "copied", "drained", "returned", "ended"}]
          /\ Put(proxy, p, "ended") \in
               [Proxies -> {"new", "copying", "copied", "drained", "returned", "ended"}]
      BY <1>3 DEF Put, TypeOK
    <3>3. Put(conn, p, "backlog") \in
            [Proxies -> {"none", "backlog", "served", "deaf", "closed", "reset"}]
      BY <1>3 DEF Put, TypeOK
    <3>4. Put(server, p, path) \in [Proxies -> Daemons \cup {NoFile}]
      BY <1>3, <2>2 DEF Put, TypeOK
    <3>5. Put(upOpen, p, TRUE) \in [Proxies -> BOOLEAN]
      BY <1>3 DEF Put, TypeOK
    <3>6. QED BY <3>1, <3>2, <3>3, <3>4, <3>5 DEF TypeOK
  <2>4. QED BY <2>1, <2>3 DEF TypeOK, SocketTypeOK, socketVars, hostVars
<1>4. ASSUME NEW p \in Proxies, ProxyStep(p)
      PROVE  TypeOK'
  BY <1>4, ProxyStepTypes
     DEF TypeOK, ProxyTypes, SocketTypeOK, socketVars, hostVars, connVars
<1>5. ASSUME NEW p \in Proxies, MuxStep(p)
      PROVE  TypeOK'
  BY <1>5, MuxStepTypes DEF TypeOK, MuxTypes, SocketTypeOK, socketVars, hostVars
<1>6. CASE UNCHANGED vars
  BY <1>6 DEF TypeOK, SocketTypeOK, vars, socketVars, proxyVars, hostVars, connVars
<1>7. QED BY <1>1, <1>2, <1>3, <1>4, <1>5, <1>6 DEF Next

(* Every variable of the daemons, hosts, proxies and connections keeps its   *)
(* type, for any number of each and any number of lines.                     *)
THEOREM EndpointsTypeCorrect == Spec => []TypeOK
<1>1. Init => TypeOK BY TypeInit
<1>2. TypeOK /\ SocketInv /\ [Next]_vars => TypeOK' BY TypeKept
<1>3. QED BY <1>1, <1>2, EndpointsKeepsSocket, SocketInvariant, PTL DEF Spec

-----------------------------------------------------------------------------
(* Streams.  A line put at the end of one comes after all before it, and    *)
(* the first is before all others.                                          *)

LEMMA RangeGrows ==
  ASSUME NEW S, NEW q \in Seq(S), NEW x \in S
  PROVE  Range(Append(q, x)) = Range(q) \cup {x}
BY AppendProperties DEF Range

LEMMA RangeShrinks ==
  ASSUME NEW S, NEW q \in Seq(S), q # <<>>
  PROVE  Range(q) = {Head(q)} \cup Range(Tail(q))
<1>1. \A i \in DOMAIN Tail(q) : i + 1 \in DOMAIN q /\ Tail(q)[i] = q[i + 1]
  OBVIOUS
<1>2. \A i \in DOMAIN q : i # 1 => i - 1 \in DOMAIN Tail(q) /\ Tail(q)[i - 1] = q[i]
  OBVIOUS
<1>3. 1 \in DOMAIN q /\ Head(q) = q[1]
  OBVIOUS
<1>4. \A x \in Range(q) : x = Head(q) \/ x \in Range(Tail(q))
  BY <1>2, <1>3 DEF Range
<1>5. \A x : x = Head(q) \/ x \in Range(Tail(q)) => x \in Range(q)
  BY <1>1, <1>3 DEF Range
<1>6. QED BY <1>4, <1>5

LEMMA PutLast ==
  ASSUME NEW q \in Input, NEW x \in Lines \cup {Bad}, Ordered(q), Precedes(Range(q), {x})
  PROVE  Ordered(Append(q, x)) /\ Range(Append(q, x)) = Range(q) \cup {x}
<1> DEFINE S == Lines \cup {Bad}
<1> HIDE DEF S
<1>1. q \in Seq(S) /\ x \in S
  BY DEF Input, S
<1>2. /\ DOMAIN Append(q, x) = 1..Len(q) + 1 /\ DOMAIN q = 1..Len(q) /\ Len(q) \in Nat
      /\ \A i \in 1..Len(q) : Append(q, x)[i] = q[i]
      /\ Append(q, x)[Len(q) + 1] = x
  BY <1>1
<1>3. \A i \in 1..Len(q) : Before(q[i], x)
  BY <1>2 DEF Precedes, Range
<1>4. Ordered(Append(q, x))
  BY <1>2, <1>3 DEF Ordered
<1>5. QED BY <1>1, <1>4, RangeGrows

LEMMA TakeFirst ==
  ASSUME NEW q \in Input, q # <<>>, Ordered(q)
  PROVE  /\ Ordered(Tail(q)) /\ Precedes({Head(q)}, Range(Tail(q)))
         /\ Range(q) = {Head(q)} \cup Range(Tail(q))
         /\ Head(q) \in Lines \cup {Bad} /\ Tail(q) \in Input
<1> DEFINE S == Lines \cup {Bad}
<1> HIDE DEF S
<1>1. q \in Seq(S)
  BY DEF Input, S
<1>2. /\ DOMAIN Tail(q) = 1..Len(q) - 1 /\ DOMAIN q = 1..Len(q)
      /\ \A i \in 1..Len(q) - 1 : Tail(q)[i] = q[i + 1]
      /\ Head(q) = q[1] /\ Len(q) \in Nat /\ Len(q) > 0
  BY <1>1
<1>3. Ordered(Tail(q))
  BY <1>2 DEF Ordered
<1>4. \A i \in DOMAIN Tail(q) : Before(Head(q), Tail(q)[i])
  BY <1>2 DEF Ordered
<1>5. Precedes({Head(q)}, Range(Tail(q)))
  BY <1>4 DEF Precedes, Range
<1>6. QED BY <1>1, <1>3, <1>5, RangeShrinks, InputSteps

LEMMA AnswerPut ==
  ASSUME NEW q \in Output, NEW r \in Lines, IsInjective(q), r \notin Range(q)
  PROVE  IsInjective(Append(q, r)) /\ Range(Append(q, r)) = Range(q) \cup {r}
<1>1. q \in Seq(Lines)
  BY DEF Output
<1>2. /\ DOMAIN Append(q, r) = 1..Len(q) + 1 /\ DOMAIN q = 1..Len(q) /\ Len(q) \in Nat
      /\ \A i \in 1..Len(q) : Append(q, r)[i] = q[i]
      /\ Append(q, r)[Len(q) + 1] = r
  BY <1>1
<1>3. \A i \in 1..Len(q) : q[i] # r
  BY <1>2 DEF Range
<1>4. IsInjective(Append(q, r))
  BY <1>2, <1>3 DEF IsInjective
<1>5. QED BY <1>1, <1>4, RangeGrows

LEMMA AnswerTaken ==
  ASSUME NEW q \in Output, q # <<>>, IsInjective(q)
  PROVE  /\ IsInjective(Tail(q)) /\ Head(q) \notin Range(Tail(q))
         /\ Range(q) = {Head(q)} \cup Range(Tail(q))
<1>1. q \in Seq(Lines)
  BY DEF Output
<1>2. /\ DOMAIN Tail(q) = 1..Len(q) - 1 /\ DOMAIN q = 1..Len(q)
      /\ \A i \in 1..Len(q) - 1 : Tail(q)[i] = q[i + 1]
      /\ Head(q) = q[1] /\ Len(q) \in Nat /\ Len(q) > 0
  BY <1>1
<1>3. IsInjective(Tail(q))
  BY <1>2 DEF IsInjective
<1>4. Head(q) \notin Range(Tail(q))
  BY <1>2 DEF IsInjective, Range
<1>5. QED BY <1>1, <1>3, <1>4, RangeShrinks

-----------------------------------------------------------------------------
(* What is in the streams of one proxy: of n lines written, s on stdin, u in *)
(* the socket, a asked, d answered and o on stdout.  No line is newer than   *)
(* the last, none is ahead of an older one, and none is in two places.       *)
Seen(a, d, o) == a \cup Range(d) \cup o

Flow(n, s, u, a, d, o) ==
  /\ \A x \in (Range(s) \cup Range(u) \cup Seen(a, d, o)) \ {Bad} : x <= n
  /\ Ordered(s) /\ Ordered(u)
  /\ Precedes(Range(u), Range(s))
  /\ Precedes(Seen(a, d, o), Range(u) \cup Range(s))
  /\ IsInjective(d)
  /\ a \cap Range(d) = {} /\ a \cap o = {} /\ Range(d) \cap o = {}

Contents(n, s, u, a, d, o) ==
  /\ n \in Nat /\ s \in Input /\ u \in Input /\ d \in Output
  /\ a \subseteq Lines /\ o \subseteq Lines

LEMMA Elements ==
  ASSUME NEW n, NEW s, NEW u, NEW a, NEW d, NEW o, Contents(n, s, u, a, d, o)
  PROVE  /\ Range(s) \subseteq Lines \cup {Bad} /\ Range(u) \subseteq Lines \cup {Bad}
         /\ Range(d) \subseteq Lines /\ Lines \subseteq Nat
<1>1. /\ \A i \in DOMAIN s : s[i] \in Lines \cup {Bad}
      /\ \A i \in DOMAIN u : u[i] \in Lines \cup {Bad}
      /\ \A i \in DOMAIN d : d[i] \in Lines
  BY DEF Contents, Input, Output
<1>2. QED BY <1>1, EndpointsAssumption DEF Range, Lines

LEMMA FlowWrites ==
  ASSUME NEW n, NEW s, NEW u, NEW a, NEW d, NEW o, Contents(n, s, u, a, d, o),
         Flow(n, s, u, a, d, o), NEW x \in {n + 1, Bad}, x \in Lines \cup {Bad}
  PROVE  Flow(n + 1, Append(s, x), u, a, d, o)
<1>1. s \in Input /\ n \in Nat
  BY DEF Contents
<1> DEFINE E == Range(s) \cup Range(u) \cup Seen(a, d, o)
<1>0. E \subseteq Nat \cup {Bad}
  BY Elements DEF Seen, Contents
<1>2. \A y \in E : Before(y, x)
  <2> SUFFICES ASSUME NEW y \in E, y # Bad, x # Bad PROVE y < x
    BY DEF Before
  <2>1. y \in Nat /\ y <= n /\ x = n + 1
    BY <1>0 DEF Flow
  <2>2. QED BY <1>1, <2>1
<1>3. Ordered(Append(s, x)) /\ Range(Append(s, x)) = Range(s) \cup {x}
  BY <1>1, <1>2, PutLast DEF Flow, Precedes
<1>4. Precedes(Range(u), Range(s) \cup {x})
  BY <1>2 DEF Flow, Precedes
<1>5. Precedes(Seen(a, d, o), Range(u) \cup Range(s) \cup {x})
  BY <1>2 DEF Flow, Precedes
<1>6. \A y \in (E \cup {x}) \ {Bad} : y <= n + 1
  <2> SUFFICES ASSUME NEW y \in E, y # Bad PROVE y <= n + 1
    BY <1>1
  <2>1. y \in Nat /\ y <= n
    BY <1>0 DEF Flow
  <2>2. QED BY <1>1, <2>1
<1>7. QED BY <1>3, <1>4, <1>5, <1>6 DEF Flow

LEMMA FlowSends ==
  ASSUME NEW n, NEW s, NEW u, NEW a, NEW d, NEW o, Contents(n, s, u, a, d, o),
         Flow(n, s, u, a, d, o), s # <<>>
  PROVE  Flow(n, Tail(s), Append(u, Head(s)), a, d, o) /\ Flow(n, Tail(s), u, a, d, o)
<1>1. /\ Ordered(Tail(s)) /\ Precedes({Head(s)}, Range(Tail(s)))
      /\ Range(s) = {Head(s)} \cup Range(Tail(s)) /\ Head(s) \in Lines \cup {Bad}
  BY TakeFirst DEF Flow, Contents
<1>2. Precedes(Range(u), {Head(s)})
  BY <1>1 DEF Flow, Precedes
<1>3. Ordered(Append(u, Head(s))) /\ Range(Append(u, Head(s))) = Range(u) \cup {Head(s)}
  BY <1>1, <1>2, PutLast DEF Flow, Contents
<1>4. Precedes(Range(u) \cup {Head(s)}, Range(Tail(s))) /\ Precedes(Range(u), Range(Tail(s)))
  BY <1>1 DEF Flow, Precedes
<1>5. Precedes(Seen(a, d, o), Range(u) \cup Range(Tail(s)))
  BY <1>1 DEF Flow, Precedes
<1>6. QED BY <1>1, <1>3, <1>4, <1>5 DEF Flow

LEMMA FlowReads ==
  ASSUME NEW n, NEW s, NEW u, NEW a, NEW d, NEW o, Contents(n, s, u, a, d, o),
         Flow(n, s, u, a, d, o), u # <<>>
  PROVE  /\ Flow(n, s, Tail(u), a, d, o)
         /\ Head(u) # Bad => Flow(n, s, Tail(u), a \cup {Head(u)}, d, o)
<1> DEFINE h == Head(u)
<1>1. /\ Ordered(Tail(u)) /\ Precedes({h}, Range(Tail(u)))
      /\ Range(u) = {h} \cup Range(Tail(u)) /\ h \in Lines \cup {Bad}
  BY TakeFirst DEF Flow, Contents
<1>2. Precedes(Range(Tail(u)), Range(s)) /\ Precedes(Seen(a, d, o), Range(Tail(u)) \cup Range(s))
  BY <1>1 DEF Flow, Precedes
<1>3. Flow(n, s, Tail(u), a, d, o)
  BY <1>1, <1>2 DEF Flow
<1>4. ASSUME h # Bad PROVE Flow(n, s, Tail(u), a \cup {h}, d, o)
  <2>1. Precedes({h}, Range(Tail(u)) \cup Range(s))
    BY <1>1 DEF Flow, Precedes
  <2>2. h \notin Seen(a, d, o)
    <3>1. h \in Nat /\ (h \in Seen(a, d, o) => h < h)
      BY <1>1, <1>4, Elements DEF Flow, Precedes, Before, Contents
    <3>2. QED BY <3>1
  <2>3. Seen(a \cup {h}, d, o) = Seen(a, d, o) \cup {h}
    BY DEF Seen
  <2>4. Precedes(Seen(a, d, o) \cup {h}, Range(Tail(u)) \cup Range(s))
    BY <1>2, <2>1 DEF Precedes
  <2>5. (a \cup {h}) \cap Range(d) = {} /\ (a \cup {h}) \cap o = {}
    BY <2>2 DEF Flow, Seen
  <2>6. QED BY <1>1, <1>2, <2>3, <2>4, <2>5 DEF Flow
<1>5. QED BY <1>3, <1>4

LEMMA FlowForgets ==
  ASSUME NEW n, NEW s, NEW u, NEW a, NEW d, NEW o, NEW b, b \subseteq a,
         Flow(n, s, u, a, d, o)
  PROVE  Flow(n, s, u, b, d, o) /\ (s = <<>> \/ Flow(n, <<>>, u, b, d, o))
<1>1. Seen(b, d, o) \subseteq Seen(a, d, o)
  BY DEF Seen
<1>2. Flow(n, s, u, b, d, o)
  BY <1>1 DEF Flow, Precedes
<1>3. Range(<<>>) = {} /\ Ordered(<<>>)
  BY DEF Range, Ordered
<1>4. Flow(n, <<>>, u, b, d, o)
  BY <1>2, <1>3 DEF Flow, Precedes
<1>5. QED BY <1>2, <1>4

LEMMA FlowAnswers ==
  ASSUME NEW n, NEW s, NEW u, NEW a, NEW d, NEW o, Contents(n, s, u, a, d, o),
         Flow(n, s, u, a, d, o), NEW r \in a
  PROVE  Flow(n, s, u, a \ {r}, Append(d, r), o)
<1>1. r \in Lines /\ r \notin Range(d) /\ r \notin o /\ d \in Output
  BY DEF Flow, Contents
<1>2. IsInjective(Append(d, r)) /\ Range(Append(d, r)) = Range(d) \cup {r}
  BY <1>1, AnswerPut DEF Flow
<1>3. Seen(a \ {r}, Append(d, r), o) = Seen(a, d, o)
  BY <1>2 DEF Seen
<1>4. QED BY <1>1, <1>2, <1>3 DEF Flow

LEMMA FlowDelivers ==
  ASSUME NEW n, NEW s, NEW u, NEW a, NEW d, NEW o, Contents(n, s, u, a, d, o),
         Flow(n, s, u, a, d, o), d # <<>>
  PROVE  Flow(n, s, u, a, Tail(d), o \cup {Head(d)})
<1>1. /\ IsInjective(Tail(d)) /\ Head(d) \notin Range(Tail(d))
      /\ Range(d) = {Head(d)} \cup Range(Tail(d))
  BY AnswerTaken DEF Flow, Contents
<1>2. Seen(a, Tail(d), o \cup {Head(d)}) = Seen(a, d, o)
  BY <1>1 DEF Seen
<1>3. QED BY <1>1, <1>2 DEF Flow

-----------------------------------------------------------------------------
(* The streams of every proxy flow like that; a step at one proxy leaves the *)
(* others alone, and the end of a daemon only forgets what it was asked.     *)
FlowAt(p) == Flow(sent[p], stdin[p], up[p], asked[p], down[p], stdout[p])

HostStep(p) == HostWrites(p) \/ HostCloses(p) \/ Connect(p)

Same(p) ==
  /\ sent'[p] = sent[p] /\ open'[p] = open[p] /\ garbled'[p] = garbled[p]
  /\ stdin'[p] = stdin[p] /\ up'[p] = up[p] /\ down'[p] = down[p]
  /\ stdout'[p] = stdout[p] /\ proxy'[p] = proxy[p]

LEMMA ContentsAt ==
  ASSUME TypeOK, NEW p \in Proxies
  PROVE  Contents(sent[p], stdin[p], up[p], asked[p], down[p], stdout[p])
BY EndpointsAssumption DEF TypeOK, Contents

LEMMA Elsewhere ==
  ASSUME TypeOK, NEW p \in Proxies, HostStep(p) \/ ProxyStep(p) \/ MuxStep(p),
         NEW q \in Proxies, q # p
  PROVE  Same(q) /\ asked'[q] = asked[q] /\ conn'[q] = conn[q]
<1> USE DEF TypeOK, Same, Put, hostVars, connVars
<1>1. CASE HostStep(p)
  BY <1>1 DEF HostStep, HostWrites, HostCloses, Connect
<1>2. CASE ProbeLeaves(p) \/ ToMux(p) \/ StdinEnds(p)
  BY <1>2 DEF ProbeLeaves, ToMux, StdinEnds, Continues, Returns
<1>3. CASE ToStdout(p) \/ SocketEnds(p) \/ ProcessEnds(p)
  BY <1>3 DEF ToStdout, SocketEnds, Continues, Returns, ProcessEnds
<1>4. CASE Accept(p) \/ MuxReads(p)
  BY <1>4 DEF Accept, MuxReads
<1>5. CASE MuxSeesEnd(p) \/ MuxAnswers(p) \/ MuxDisconnects(p)
  BY <1>5 DEF MuxSeesEnd, MuxAnswers, MuxDisconnects, Closes
<1>6. QED BY <1>1, <1>2, <1>3, <1>4, <1>5 DEF ProxyStep, MuxStep

LEMMA AtDaemon ==
  ASSUME TypeOK, NEW d \in Daemons, DaemonStep(d), NEW q \in Proxies
  PROVE  /\ Same(q) /\ asked'[q] \subseteq asked[q]
         /\ \/ conn'[q] = conn[q] /\ asked'[q] = asked[q]
            \/ ~Connected(q)'
BY DEF DaemonStep, Closes, AfterClose, Connected, Same, TypeOK, hostVars

LEMMA CloseForgets ==
  ASSUME TypeOK, NEW P, Closes(P), NEW q \in Proxies
  PROVE  asked'[q] \subseteq asked[q] /\ (q \in P => ~Connected(q)')
BY DEF Closes, AfterClose, Connected, TypeOK

LEMMA FlowKeptAt ==
  ASSUME TypeOK, NEW p \in Proxies, FlowAt(p), HostStep(p) \/ ProxyStep(p) \/ MuxStep(p)
  PROVE  FlowAt(p)'
<1> USE ContentsAt DEF FlowAt, Put, hostVars, connVars
<1>0. /\ sent \in [Proxies -> Nat]
      /\ \A f \in {stdin, up, asked, down, stdout} : DOMAIN f = Proxies
  BY EndpointsAssumption DEF TypeOK
<1>1. CASE HostWrites(p)
  <2>1. PICK x \in {sent[p] + 1, Bad} : stdin' = [stdin EXCEPT ![p] = Append(stdin[p], x)]
    BY <1>1 DEF HostWrites
  <2>2. sent'[p] = sent[p] + 1 /\ sent[p] + 1 \in Lines
    BY <1>0, <1>1, EndpointsAssumption DEF HostWrites, Lines, TypeOK
  <2>3. Flow(sent[p] + 1, Append(stdin[p], x), up[p], asked[p], down[p], stdout[p])
    BY <2>2, FlowWrites
  <2>4. stdin'[p] = Append(stdin[p], x) /\ UNCHANGED <<up, asked, down, stdout>>
    BY <1>0, <1>1, <2>1 DEF HostWrites
  <2>5. QED BY <2>2, <2>3, <2>4
<1>2. CASE HostCloses(p) \/ Connect(p) \/ ProbeLeaves(p) \/ StdinEnds(p) \/ SocketEnds(p) \/ Accept(p)
  BY <1>2 DEF HostCloses, Connect, ProbeLeaves, StdinEnds, SocketEnds, Accept
<1>3. CASE ToMux(p)
  <2>1. /\ stdin[p] # <<>> /\ stdin'[p] = Tail(stdin[p])
        /\ up'[p] = Append(up[p], Head(stdin[p])) \/ up'[p] = up[p]
        /\ UNCHANGED <<sent, asked, down, stdout>>
    BY <1>0, <1>3 DEF ToMux
  <2>2. /\ Flow(sent[p], Tail(stdin[p]), Append(up[p], Head(stdin[p])), asked[p], down[p], stdout[p])
        /\ Flow(sent[p], Tail(stdin[p]), up[p], asked[p], down[p], stdout[p])
    BY <2>1, FlowSends
  <2>3. QED BY <2>1, <2>2
<1>4. CASE ToStdout(p)
  <2>1. /\ down[p] # <<>> /\ down'[p] = Tail(down[p])
        /\ stdout'[p] = stdout[p] \cup {Head(down[p])}
        /\ UNCHANGED <<sent, stdin, up, asked>>
    BY <1>0, <1>4 DEF ToStdout
  <2>2. Flow(sent[p], stdin[p], up[p], asked[p], Tail(down[p]), stdout[p] \cup {Head(down[p])})
    BY <2>1, FlowDelivers
  <2>3. QED BY <2>1, <2>2
<1>5. CASE ProcessEnds(p)
  <2>1. stdin'[p] = <<>> /\ UNCHANGED <<sent, up, asked, down, stdout>>
    BY <1>0, <1>5 DEF ProcessEnds
  <2>2. stdin[p] = <<>> \/ Flow(sent[p], <<>>, up[p], asked[p], down[p], stdout[p])
    BY FlowForgets
  <2>3. QED BY <2>1, <2>2
<1>6. CASE MuxReads(p)
  <2>1. /\ up[p] # <<>> /\ up'[p] = Tail(up[p])
        /\ \/ asked'[p] = asked[p]
           \/ Head(up[p]) # Bad /\ asked'[p] = asked[p] \cup {Head(up[p])}
        /\ UNCHANGED <<sent, stdin, down, stdout>>
    BY <1>0, <1>6 DEF MuxReads
  <2>2. /\ Flow(sent[p], stdin[p], Tail(up[p]), asked[p], down[p], stdout[p])
        /\ Head(up[p]) # Bad =>
             Flow(sent[p], stdin[p], Tail(up[p]), asked[p] \cup {Head(up[p])}, down[p], stdout[p])
    BY <2>1, FlowReads
  <2>3. QED BY <2>1, <2>2
<1>7. ASSUME asked'[p] \subseteq asked[p], UNCHANGED <<sent, stdin, up, down, stdout>>
      PROVE  FlowAt(p)'
  <2>1. Flow(sent[p], stdin[p], up[p], asked'[p], down[p], stdout[p])
    BY <1>7, FlowForgets
  <2>2. QED BY <1>7, <2>1
<1>8. CASE MuxSeesEnd(p) \/ MuxDisconnects(p)
  <2>1. asked'[p] \subseteq asked[p]
    BY <1>8, CloseForgets DEF MuxSeesEnd, MuxDisconnects
  <2>2. QED BY <1>7, <1>8, <2>1 DEF MuxSeesEnd, MuxDisconnects
<1>9. CASE MuxAnswers(p)
  <2>1. PICK r \in asked[p] :
          \/ /\ asked' = [asked EXCEPT ![p] = asked[p] \ {r}]
             /\ down' = [down EXCEPT ![p] = Append(down[p], r)]
          \/ Closes({p}) /\ UNCHANGED down
          \/ asked' = [asked EXCEPT ![p] = asked[p] \ {r}] /\ UNCHANGED down
    BY <1>9 DEF MuxAnswers
  <2>2. UNCHANGED <<sent, stdin, up, stdout>>
    BY <1>9 DEF MuxAnswers
  <2>3. CASE /\ asked' = [asked EXCEPT ![p] = asked[p] \ {r}]
             /\ down' = [down EXCEPT ![p] = Append(down[p], r)]
    <3>1. Flow(sent[p], stdin[p], up[p], asked[p] \ {r}, Append(down[p], r), stdout[p])
      BY FlowAnswers
    <3>2. asked'[p] = asked[p] \ {r} /\ down'[p] = Append(down[p], r)
      BY <1>0, <2>3
    <3>3. QED BY <2>2, <3>1, <3>2
  <2>4. CASE (Closes({p}) \/ asked' = [asked EXCEPT ![p] = asked[p] \ {r}]) /\ UNCHANGED down
    <3>1. asked'[p] \subseteq asked[p]
      BY <1>0, <2>4, CloseForgets
    <3>2. QED BY <1>7, <2>2, <2>4, <3>1
  <2>5. QED BY <2>1, <2>3, <2>4
<1>10. QED
  BY <1>1, <1>2, <1>3, <1>4, <1>5, <1>6, <1>8, <1>9 DEF HostStep, ProxyStep, MuxStep

LineInv == \A p \in Proxies : FlowAt(p)

LEMMA LineInit == Init => LineInv
BY DEF Init, LineInv, FlowAt, Flow, Seen, Range, Ordered, Precedes, IsInjective

LEMMA LineKept == TypeOK /\ LineInv /\ [Next]_vars => LineInv'
<1> SUFFICES ASSUME TypeOK, LineInv, [Next]_vars, NEW q \in Proxies
             PROVE  FlowAt(q)'
  BY DEF LineInv
<1>0. FlowAt(q)
  BY DEF LineInv
<1>1. ASSUME NEW d \in Daemons, DaemonStep(d) PROVE FlowAt(q)'
  <2>1. Same(q) /\ asked'[q] \subseteq asked[q]
    BY <1>1, AtDaemon
  <2>2. Flow(sent[q], stdin[q], up[q], asked'[q], down[q], stdout[q])
    BY <1>0, <2>1, FlowForgets DEF FlowAt
  <2>3. QED BY <2>1, <2>2 DEF FlowAt, Same
<1>2. ASSUME NEW p \in Proxies, HostStep(p) \/ ProxyStep(p) \/ MuxStep(p)
      PROVE  FlowAt(q)'
  <2>1. CASE q = p
    BY <1>0, <1>2, <2>1, FlowKeptAt
  <2>2. CASE q # p
    <3>1. Same(q) /\ asked'[q] = asked[q]
      BY <1>2, <2>2, Elsewhere
    <3>2. QED BY <1>0, <3>1 DEF FlowAt, Same
  <2>3. QED BY <2>1, <2>2
<1>3. CASE UNCHANGED vars
  BY <1>0, <1>3 DEF FlowAt, vars, proxyVars, hostVars
<1>4. QED BY <1>1, <1>2, <1>3 DEF Next, HostStep

(* A host's lines reach the daemon in their order and each at most once, and *)
(* each is answered at most once, whichever proxy copies them, however the   *)
(* answers overtake each other and whoever ends first (run_proxy and the     *)
(* rust-mux-proxy binary).                                                   *)
THEOREM LinesInOrderOnce == Spec => []EachOnce
<1>1. ASSUME LineInv PROVE EachOnce
  <2> SUFFICES ASSUME NEW p \in Proxies, FlowAt(p)
               PROVE  /\ Ordered(stdin[p]) /\ Ordered(up[p])
                      /\ Precedes(Range(up[p]), Range(stdin[p]))
                      /\ Precedes(Read(p), Unread(p))
                      /\ IsInjective(down[p])
                      /\ \A r \in Read(p) :
                           \/ r \in asked[p] \ (Range(down[p]) \cup stdout[p])
                           \/ r \in Range(down[p]) \ (asked[p] \cup stdout[p])
                           \/ r \in stdout[p] \ (asked[p] \cup Range(down[p]))
    BY <1>1 DEF LineInv, EachOnce
  <2>1. Read(p) = Seen(asked[p], down[p], stdout[p]) /\ Unread(p) = Range(up[p]) \cup Range(stdin[p])
    BY DEF Read, Seen, Unread
  <2>2. QED BY <2>1 DEF FlowAt, Flow, Seen
<1>2. QED BY <1>1, LineInit, LineKept, EndpointsTypeCorrect, PTL DEF Spec

-----------------------------------------------------------------------------
(* A proxy begins with nothing written and stdin open, and the byte proxy    *)
(* that is left with stdin only has read all of a connection that ended      *)
(* well.                                                                     *)
StageInv == \A p \in Proxies :
  /\ proxy[p] = "new" => sent[p] = 0 /\ open[p]
  /\ proxy[p] = "drained" => p \in Bytes /\ conn[p] = "closed" /\ down[p] = <<>>

LEMMA StageInit == Init => StageInv
BY DEF Init, StageInv

LEMMA StageKept == TypeOK /\ StageInv /\ [Next]_vars => StageInv'
<1> DEFINE Stage(q) ==
      /\ proxy[q] = "new" => sent[q] = 0 /\ open[q]
      /\ proxy[q] = "drained" => q \in Bytes /\ conn[q] = "closed" /\ down[q] = <<>>
<1> SUFFICES ASSUME TypeOK, StageInv, [Next]_vars, NEW q \in Proxies PROVE Stage(q)'
  BY DEF StageInv
<1>0. Stage(q)
  BY DEF StageInv
<1>1. ASSUME NEW d \in Daemons, DaemonStep(d) PROVE Stage(q)'
  <2>1. Same(q) /\ (conn[q] = "closed" => conn'[q] = "closed")
    BY <1>1, AtDaemon DEF DaemonStep, Closes, Connected, TypeOK
  <2>2. QED BY <1>0, <2>1 DEF Same
<1>2. ASSUME HostStep(q) \/ ProxyStep(q) PROVE Stage(q)'
  <2> USE <1>0 DEF Put, TypeOK, hostVars, connVars
  <2>1. CASE HostWrites(q) \/ HostCloses(q) BY <2>1 DEF HostWrites, HostCloses
  <2>2. CASE Connect(q) BY <2>2 DEF Connect
  <2>3. CASE ProbeLeaves(q) \/ ToMux(q) BY <2>3 DEF ProbeLeaves, ToMux, Returns
  <2>4. CASE StdinEnds(q) BY <2>4 DEF StdinEnds, Continues, Returns
  <2>5. CASE SocketEnds(q) BY <2>5 DEF SocketEnds, Continues, Returns
  <2>6. CASE ToStdout(q) \/ ProcessEnds(q) BY <2>6 DEF ToStdout, ProcessEnds
  <2>7. QED BY <1>2, <2>1, <2>2, <2>3, <2>4, <2>5, <2>6 DEF HostStep, ProxyStep
<1>3. ASSUME MuxStep(q) PROVE Stage(q)'
  <2>1. UNCHANGED <<proxy, sent, open>>
    BY <1>3 DEF MuxStep, Accept, MuxReads, MuxSeesEnd, MuxAnswers, MuxDisconnects, hostVars
  <2>2. conn[q] # "closed"
    BY <1>3 DEF MuxStep, Accept, MuxReads, MuxSeesEnd, MuxAnswers, MuxDisconnects
  <2>3. QED BY <1>0, <2>1, <2>2
<1>4. ASSUME NEW p \in Proxies, p # q, HostStep(p) \/ ProxyStep(p) \/ MuxStep(p)
      PROVE  Stage(q)'
  <2>1. Same(q) /\ conn'[q] = conn[q]
    BY <1>4, Elsewhere
  <2>2. QED BY <1>0, <2>1 DEF Same
<1>5. CASE UNCHANGED vars
  BY <1>0, <1>5 DEF vars, proxyVars, hostVars, connVars
<1>6. QED BY <1>1, <1>2, <1>3, <1>4, <1>5 DEF Next, HostStep

(* Which steps take a proxy out of its copying.                              *)
LEMMA ProxyGoes ==
  ASSUME TypeOK, NEW p \in Proxies, NEW q \in Proxies, ~Gone(q), Gone(q)',
         HostStep(p) \/ ProxyStep(p) \/ MuxStep(p)
  PROVE  p = q /\ (Connect(q) \/ ProbeLeaves(q) \/ ToMux(q) \/ StdinEnds(q) \/ SocketEnds(q))
<1>1. proxy'[q] # proxy[q]
  BY DEF Gone
<1>2. p = q
  BY <1>1, Elsewhere DEF Same
<1>3. ~(HostWrites(p) \/ HostCloses(p) \/ ToStdout(p) \/ MuxStep(p))
  BY <1>1 DEF HostWrites, HostCloses, ToStdout, MuxStep, Accept, MuxReads, MuxSeesEnd,
     MuxAnswers, MuxDisconnects
<1>4. ~ProcessEnds(q)
  BY DEF ProcessEnds, Gone
<1>5. QED BY <1>2, <1>3, <1>4 DEF HostStep, ProxyStep

(* The byte proxy does not leave answers in the socket: once its host has    *)
(* closed stdin and every line is passed on, it goes only when the socket    *)
(* has ended and is read out (try_join! of rust_mux_proxy.rs).               *)
THEOREM ByteProxyLeavesNothing == Spec => LeavesNothing
<1>1. ASSUME TypeOK, StageInv, [Next]_vars, NEW p \in Bytes,
             ~open[p], stdin[p] = <<>>, ~Gone(p), Gone(p)'
      PROVE  down[p] = <<>>
  <2>1. p \in Proxies /\ p \notin Probes
    BY EndpointsAssumption DEF Proxies
  <2>2. proxy'[p] # proxy[p]
    BY <1>1 DEF Gone
  <2>3. Connect(p) \/ ProbeLeaves(p) \/ ToMux(p) \/ StdinEnds(p) \/ SocketEnds(p)
    <3>1. \A d \in Daemons : ~DaemonStep(d)
      BY <2>1, <2>2, <1>1, AtDaemon DEF Same
    <3>2. ~UNCHANGED vars
      BY <2>2 DEF vars, proxyVars
    <3>3. QED BY <1>1, <2>1, <3>1, <3>2, ProxyGoes DEF Next, HostStep
  <2>4. CASE StdinEnds(p)
    <3>1. proxy[p] = "drained"
      BY <1>1, <2>1, <2>4 DEF StdinEnds, Continues, Put, Gone, TypeOK
    <3>2. QED BY <1>1, <2>1, <3>1 DEF StageInv
  <2>5. CASE SocketEnds(p)
    BY <2>5 DEF SocketEnds
  <2>6. ~Connect(p) /\ ~ProbeLeaves(p) /\ ~ToMux(p)
    BY <1>1, <2>1 DEF Connect, ProbeLeaves, ToMux, StageInv
  <2>7. QED BY <2>3, <2>4, <2>5, <2>6
<1>2. TypeOK /\ StageInv /\ [Next]_vars =>
        [\A p \in Bytes :
           ~open[p] /\ stdin[p] = <<>> /\ ~Gone(p) /\ Gone(p)' => down[p] = <<>>]_vars
  BY <1>1
<1>3. QED BY <1>2, StageInit, StageKept, EndpointsTypeCorrect, PTL DEF Spec, LeavesNothing

-----------------------------------------------------------------------------
(* No line disappears between the host and its answer.  What does not decode *)
(* is in a stream only if the host wrote it.                                 *)
Serving(q) == Connected(q) /\ ~Gone(q)
Whole(q) ==
  /\ ~garbled[q] => Bad \notin Unread(q)
  /\ Serving(q) /\ ~garbled[q] => 1..sent[q] \subseteq Read(q) \cup Unread(q)

WholeInv == \A q \in Proxies : Whole(q)

LEMMA WholeInit == Init => WholeInv
BY DEF Init, WholeInv, Whole, Unread, Serving, Connected, Range

(* Lines that move on stay, as long as someone is there to take them.        *)
LEMMA MovesOn ==
  ASSUME NEW q \in Proxies, Whole(q), sent'[q] = sent[q], garbled'[q] = garbled[q],
         Unread(q)' \subseteq Unread(q),
         Serving(q)' /\ ~garbled[q] =>
           Serving(q) /\ Read(q) \cup Unread(q) \subseteq Read(q)' \cup Unread(q)'
  PROVE  Whole(q)'
BY DEF Whole

LEMMA HostKeepsWhole ==
  ASSUME TypeOK, StageInv, NEW q \in Proxies, Whole(q), HostStep(q)
  PROVE  Whole(q)'
<1> USE DEF Put, hostVars, connVars, TypeOK
<1>1. CASE HostWrites(q)
  <2>1. UNCHANGED <<stdout, proxy, conn, up, asked, down>> /\ sent'[q] = sent[q] + 1
    BY <1>1 DEF HostWrites
  <2>2. CASE garbled'[q]
    BY <2>2 DEF Whole
  <2>3. CASE ~garbled'[q]
    <3>1. stdin'[q] = Append(stdin[q], sent[q] + 1) /\ ~garbled[q]
      BY <1>1, <2>3 DEF HostWrites
    <3>2. stdin[q] \in Seq(Lines \cup {Bad}) /\ sent[q] + 1 \in Lines /\ sent[q] \in Nat
      BY <1>1, EndpointsAssumption DEF HostWrites, Input, Lines
    <3>3. Range(stdin'[q]) = Range(stdin[q]) \cup {sent[q] + 1}
      <4> DEFINE S == Lines \cup {Bad}
                 x == sent[q] + 1
      <4>1. stdin[q] \in Seq(S) /\ x \in S /\ stdin'[q] = Append(stdin[q], x)
        BY <3>1, <3>2
      <4> HIDE DEF S, x
      <4>2. Range(stdin'[q]) = Range(stdin[q]) \cup {x}
        BY <4>1, RangeGrows
      <4>3. QED BY <4>2 DEF x
    <3>4. Unread(q)' = Unread(q) \cup {sent[q] + 1} /\ Read(q)' = Read(q)
      BY <2>1, <3>3 DEF Unread, Read
    <3>5. Serving(q)' = Serving(q)
      BY <2>1 DEF Serving, Connected, Gone
    <3>6. sent[q] + 1 # Bad
      BY <3>2 DEF Bad
    <3>7. 1..sent[q] + 1 = 1..sent[q] \cup {sent[q] + 1}
      BY <3>2
    <3>8. QED BY <2>1, <3>1, <3>4, <3>5, <3>6, <3>7 DEF Whole
  <2>4. QED BY <2>2, <2>3
<1>2. CASE HostCloses(q)
  BY <1>2, MovesOn DEF HostCloses, Unread, Read, Serving, Connected, Gone
<1>3. CASE Connect(q)
  <2>1. sent[q] = 0 /\ sent' = sent /\ garbled' = garbled /\ Unread(q)' = Unread(q)
    BY <1>3 DEF Connect, StageInv, Unread
  <2>2. 1..sent'[q] = {}
    BY <2>1
  <2>3. QED BY <2>1, <2>2 DEF Whole
<1>4. QED BY <1>1, <1>2, <1>3 DEF HostStep

LEMMA ProxyKeepsWhole ==
  ASSUME TypeOK, NEW q \in Proxies, Whole(q), ProxyStep(q)
  PROVE  Whole(q)'
<1> USE DEF Put, hostVars, connVars, TypeOK
<1>0. UNCHANGED <<sent, garbled, conn, asked>>
  BY DEF ProxyStep, ProbeLeaves, ToMux, StdinEnds, ToStdout, SocketEnds, ProcessEnds
<1>1. CASE ProbeLeaves(q) \/ StdinEnds(q) \/ SocketEnds(q)
  <2>1. UNCHANGED <<stdin, stdout, up, down>> /\ ~Gone(q)
    BY <1>1 DEF ProbeLeaves, StdinEnds, SocketEnds, Gone
  <2>2. QED BY <1>0, <2>1, MovesOn DEF Unread, Read, Serving, Connected
<1>2. CASE ToMux(q)
  <2>1. /\ stdin[q] # <<>> /\ stdin'[q] = Tail(stdin[q]) /\ UNCHANGED <<stdout, down>>
        /\ ~Gone(q)
        /\ \/ up'[q] = Append(up[q], Head(stdin[q]))
           \/ up'[q] = up[q] /\ Gone(q)'
    BY <1>2 DEF ToMux, Returns, Gone
  <2>2. /\ stdin[q] \in Seq(Lines \cup {Bad}) /\ up[q] \in Seq(Lines \cup {Bad})
        /\ Head(stdin[q]) \in Lines \cup {Bad}
    BY <2>1, InputSteps DEF Input
  <2>3. Range(stdin[q]) = {Head(stdin[q])} \cup Range(stdin'[q])
    BY <2>1, <2>2, RangeShrinks
  <2>4. CASE up'[q] = Append(up[q], Head(stdin[q]))
    <3>1. Range(up'[q]) = Range(up[q]) \cup {Head(stdin[q])}
      BY <2>2, <2>4, RangeGrows
    <3>2. Unread(q)' = Unread(q) /\ Read(q)' = Read(q)
      BY <1>0, <2>1, <2>3, <3>1 DEF Unread, Read
    <3>3. QED BY <1>0, <2>1, <3>2, MovesOn DEF Serving, Connected
  <2>5. CASE up'[q] = up[q] /\ Gone(q)'
    <3>1. Unread(q)' \subseteq Unread(q)
      BY <2>3, <2>5 DEF Unread
    <3>2. QED BY <1>0, <2>5, <3>1, MovesOn DEF Serving
  <2>6. QED BY <2>1, <2>4, <2>5
<1>3. CASE ToStdout(q)
  <2>1. /\ down[q] # <<>> /\ down'[q] = Tail(down[q])
        /\ stdout'[q] = stdout[q] \cup {Head(down[q])} /\ UNCHANGED <<stdin, up, proxy>>
    BY <1>3 DEF ToStdout
  <2>2. down[q] \in Seq(Lines)
    BY DEF Output
  <2>3. Range(down[q]) = {Head(down[q])} \cup Range(down'[q])
    BY <2>1, <2>2, RangeShrinks
  <2>4. Unread(q)' = Unread(q) /\ Read(q)' = Read(q)
    BY <1>0, <2>1, <2>3 DEF Unread, Read
  <2>5. QED BY <1>0, <2>1, <2>4, MovesOn DEF Serving, Connected, Gone
<1>4. CASE ProcessEnds(q)
  <2>1. stdin'[q] = <<>> /\ UNCHANGED <<stdout, up, down>> /\ Gone(q)'
    BY <1>4 DEF ProcessEnds, Gone
  <2>2. Unread(q)' \subseteq Unread(q)
    BY <2>1 DEF Unread, Range
  <2>3. QED BY <1>0, <2>1, <2>2, MovesOn DEF Serving
<1>5. QED BY <1>1, <1>2, <1>3, <1>4 DEF ProxyStep

LEMMA MuxKeepsWhole ==
  ASSUME TypeOK, NEW q \in Proxies, Whole(q), MuxStep(q)
  PROVE  Whole(q)'
<1> USE DEF Put, hostVars, connVars, TypeOK
<1>0. UNCHANGED <<sent, garbled, stdin, stdout, proxy>>
  BY DEF MuxStep, Accept, MuxReads, MuxSeesEnd, MuxAnswers, MuxDisconnects
<1>1. CASE Accept(q)
  <2>1. UNCHANGED <<up, asked, down>> /\ Connected(q)
    BY <1>1 DEF Accept, Connected
  <2>2. QED BY <1>0, <2>1, MovesOn DEF Unread, Read, Serving, Gone
<1>2. CASE MuxReads(q)
  <2>1. /\ up[q] # <<>> /\ up'[q] = Tail(up[q]) /\ UNCHANGED down /\ Connected(q)
        /\ Head(up[q]) # Bad => asked'[q] = asked[q] \cup {Head(up[q])}
    BY <1>2 DEF MuxReads, Connected
  <2>2. up[q] \in Seq(Lines \cup {Bad})
    BY DEF Input
  <2>3. Range(up[q]) = {Head(up[q])} \cup Range(up'[q])
    BY <2>1, <2>2, RangeShrinks
  <2>4. Unread(q)' \subseteq Unread(q)
    BY <1>0, <2>3 DEF Unread
  <2>5. ~garbled[q] => Read(q) \cup Unread(q) \subseteq Read(q)' \cup Unread(q)'
    BY <1>0, <2>1, <2>3 DEF Whole, Unread, Read
  <2>6. QED BY <1>0, <2>1, <2>4, <2>5, MovesOn DEF Serving, Gone
<1>3. ASSUME UNCHANGED <<up, down>>, ~Serving(q)' PROVE Whole(q)'
  BY <1>0, <1>3, MovesOn DEF Unread
<1>4. CASE MuxSeesEnd(q) \/ MuxDisconnects(q)
  <2>1. Gone(q) \/ ~Connected(q)'
    BY <1>4, CloseForgets DEF MuxSeesEnd, MuxDisconnects
  <2>2. UNCHANGED <<up, down>>
    BY <1>4 DEF MuxSeesEnd, MuxDisconnects
  <2>3. QED BY <1>0, <1>3, <2>1, <2>2 DEF Serving, Gone
<1>5. CASE MuxAnswers(q)
  <2>1. CASE Gone(q)
    <3>1. UNCHANGED <<up, down>>
      BY <1>5, <2>1 DEF MuxAnswers
    <3>2. QED BY <1>0, <1>3, <2>1, <3>1 DEF Serving, Gone
  <2>2. CASE ~Gone(q)
    <3>1. PICK r \in asked[q] :
            /\ asked'[q] = asked[q] \ {r} /\ down'[q] = Append(down[q], r)
            /\ UNCHANGED <<conn, up>>
      BY <1>5, <2>2 DEF MuxAnswers
    <3>2. down[q] \in Seq(Lines) /\ r \in Lines
      BY DEF Output
    <3>3. Range(down'[q]) = Range(down[q]) \cup {r}
      BY <3>1, <3>2, RangeGrows
    <3>4. Unread(q)' = Unread(q) /\ Read(q)' = Read(q)
      BY <1>0, <3>1, <3>3 DEF Unread, Read
    <3>5. QED BY <1>0, <3>1, <3>4, MovesOn DEF Serving, Connected, Gone
  <2>3. QED BY <2>1, <2>2
<1>6. QED BY <1>1, <1>2, <1>4, <1>5 DEF MuxStep

LEMMA WholeKept == TypeOK /\ StageInv /\ WholeInv /\ [Next]_vars => WholeInv'
<1> SUFFICES ASSUME TypeOK, StageInv, WholeInv, [Next]_vars, NEW q \in Proxies
             PROVE  Whole(q)'
  BY DEF WholeInv
<1>0. Whole(q)
  BY DEF WholeInv
<1>1. ASSUME Same(q), (conn'[q] = conn[q] /\ asked'[q] = asked[q]) \/ ~Connected(q)'
      PROVE  Whole(q)'
  BY <1>0, <1>1, MovesOn DEF Same, Unread, Read, Serving, Connected, Gone
<1>2. ASSUME NEW d \in Daemons, DaemonStep(d) PROVE Whole(q)'
  BY <1>1, <1>2, AtDaemon
<1>3. ASSUME NEW p \in Proxies, p # q, HostStep(p) \/ ProxyStep(p) \/ MuxStep(p)
      PROVE  Whole(q)'
  BY <1>1, <1>3, Elsewhere
<1>4. CASE HostStep(q) \/ ProxyStep(q) \/ MuxStep(q)
  BY <1>0, <1>4, HostKeepsWhole, ProxyKeepsWhole, MuxKeepsWhole
<1>5. CASE UNCHANGED vars
  BY <1>1, <1>5 DEF vars, proxyVars, hostVars, connVars, Same
<1>6. QED BY <1>2, <1>3, <1>4, <1>5 DEF Next, HostStep

(* While a proxy and its connection last and the host wrote only messages,   *)
(* every line of the host is on stdin, in the socket, with the daemon, or    *)
(* its answer is in the socket or on stdout: none is dropped on the way,     *)
(* whichever proxy copies it.                                                *)
THEOREM LinesKept == Spec => []NoLineLost
<1>1. WholeInv => NoLineLost
  BY DEF WholeInv, Whole, NoLineLost, Serving
<1>2. QED
  BY <1>1, WholeInit, WholeKept, StageInit, StageKept, EndpointsTypeCorrect, PTL DEF Spec
=============================================================================
