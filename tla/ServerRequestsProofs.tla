------------------------ MODULE ServerRequestsProofs ------------------------
(***************************************************************************)
(* Proofs about ServerRequests for any sets of connections, requests and   *)
(* names: a handler is told about the connection its own request came on,  *)
(* and the SNI validation of one request does not speak for another.       *)
(***************************************************************************)
EXTENDS ServerRequests, TLAPS

\* What the make-service layers capture of the connection c.
Captured(c) == [info |-> info(c), rx |-> recv(c)]

\* What was captured stays with the future that makes the service, and then with
\* the service, which hyper only ever calls clones of.
ServicesCaptured ==
    \A c \in Conns :
        /\ stage[c] = "making" => making[c] = Captured(c)
        /\ stage[c] = "serving" => service[c] = Captured(c)

\* A request was read from a connection that serves or served, whose handshake is
\* over and whose service is no longer replaced.
RequestsAnchored ==
    \A r \in Reqs :
        progress[r] # "none" =>
            /\ request[r].conn \in Conns
            /\ stage[request[r].conn] \in {"serving", "closed"}
            /\ service[request[r].conn] = Captured(request[r].conn)
            /\ tls => handshake[request[r].conn] = "done"
            /\ ext[r].info = request[r].conn

\* The inductive invariant.
IInv ==
    /\ TypeOK
    /\ ServicesCaptured
    /\ RequestsAnchored
    /\ TlsInfoOfOwnConnection
    /\ SniValidated

-----------------------------------------------------------------------------
\* No request, no connection: the invariant holds at the start.
LEMMA InitIInv == Init => IInv
<1> SUFFICES ASSUME Init PROVE IInv
    OBVIOUS
<1>1. TypeOK
    BY DEF Init, TypeOK, MaybeName, NoService, NoExt, NoRequest, NoTls
<1>2. ServicesCaptured /\ RequestsAnchored /\ TlsInfoOfOwnConnection /\ SniValidated
    BY DEF Init, ServicesCaptured, RequestsAnchored, TlsInfoOfOwnConnection, SniValidated
<1> QED BY <1>1, <1>2 DEF IInv

\* Marking TLS information leaves the rest of it alone.
LEMMA Marked ==
    ASSUME NEW c, NEW n, NEW mark
    PROVE  [[of |-> c, name |-> n, validated |-> FALSE] EXCEPT !.validated = mark]
               = [of |-> c, name |-> n, validated |-> mark]
OBVIOUS

\* What handle of sni.rs makes of the information of a connection with TLS: a
\* request passes only when the client sent a server name, and then it is marked
\* exactly when it names that host.
LEMMA HandleTls ==
    ASSUME NEW q, NEW c, c # NoInfo, NEW n,
           NEW v, v = handle(q, [of |-> c, name |-> n, validated |-> FALSE])
    PROVE  /\ v.tls.of = c /\ v.tls.name = n
           /\ v.tls = [of |-> c, name |-> n, validated |-> v.tls.validated]
           /\ v.tls.validated \in BOOLEAN
           /\ ~v.error => /\ n # NoName
                          /\ v.tls.validated <=> RequestHost(q) = n
                          /\ ~v.tls.validated => RequestHost(q) = NoName
<1> DEFINE t == [of |-> c, name |-> n, validated |-> FALSE]
<1>1. t # NoTls /\ t.name = n
    BY DEF NoTls
<1>2. [t EXCEPT !.validated = TRUE] = [of |-> c, name |-> n, validated |-> TRUE]
    BY Marked, Zenon
<1> HIDE DEF t
<1>3. /\ v.error <=> ~(t = NoTls \/ (n # NoName /\ RequestHost(q) = n)
                                  \/ (n # NoName /\ RequestHost(q) = NoName))
      /\ v.tls = IF n # NoName /\ RequestHost(q) = n
                 THEN [t EXCEPT !.validated = TRUE] ELSE t
    <2>1. v = handle(q, t)
        BY DEF t
    <2> DEFINE e == ~(t = NoTls \/ (t.name # NoName /\ RequestHost(q) = t.name)
                                \/ (t.name # NoName /\ RequestHost(q) = NoName))
               u == IF t.name # NoName /\ RequestHost(q) = t.name
                    THEN [t EXCEPT !.validated = TRUE] ELSE t
    <2>2. v = [error |-> e, tls |-> u]
        BY <2>1 DEF handle
    <2>3. v.error = e /\ v.tls = u
        <3> HIDE DEF e, u
        <3> QED BY <2>2
    <2> QED BY <1>1, <2>3, Zenon
<1>4. CASE n # NoName /\ RequestHost(q) = n
    BY <1>2, <1>3, <1>4
<1>5. CASE ~(n # NoName /\ RequestHost(q) = n)
    <2>1. v.tls = [of |-> c, name |-> n, validated |-> FALSE]
        BY <1>3, <1>5 DEF t
    <2>2. ~v.error => n # NoName /\ RequestHost(q) = NoName
        BY <1>1, <1>3, <1>5
    <2>3. v.tls.of = c /\ v.tls.name = n /\ v.tls.validated = FALSE
        BY <2>1
    <2> QED BY <2>1, <2>2, <2>3, <1>5
<1> QED BY <1>4, <1>5

\* Without TLS handle has nothing to check and leaves nothing behind.
LEMMA HandlePlain ==
    ASSUME NEW q
    PROVE  handle(q, NoTls).tls = NoTls
BY DEF handle, NoTls

-----------------------------------------------------------------------------
\* The steps of a connection that reads no request: accepting, making the service,
\* handing it over, closing.
LEMMA ConnectionIInv ==
    ASSUME IInv, NEW c \in Conns,
           Accept(c) \/ MakeService(c) \/ Made(c) \/ Close(c)
    PROVE  IInv'
<1> USE DEF IInv
<1>1. /\ UNCHANGED <<tls, handshake, sni, request, progress, ext>>
      /\ stage' \in [Conns -> {"new", "accepted", "making", "serving", "closed"}]
      /\ \A d \in Conns : d # c => /\ stage'[d] = stage[d] /\ making'[d] = making[d]
                                   /\ service'[d] = service[d]
    BY DEF TypeOK, Accept, MakeService, Made, Close
<1>2. \A d \in Conns : Captured(d)' = Captured(d)
    BY <1>1 DEF Captured, info, recv
<1>3. \A d \in Conns : Captured(d) \in [info : Conns \cup {NoInfo}, rx : Conns \cup {NoInfo}]
    BY DEF Captured, info, recv
<1>4. TypeOK'
    <2> DEFINE Infos == [info : Conns \cup {NoInfo}, rx : Conns \cup {NoInfo}]
    <2>1. NoService \in Infos /\ [info |-> info(c), rx |-> MakeServiceTls(c)] \in Infos
        BY <1>3 DEF NoService, Captured, MakeServiceTls
    <2>2. making \in [Conns -> Infos] /\ service \in [Conns -> Infos]
        BY DEF TypeOK
    <2> HIDE DEF Infos
    <2>3. making' \in [Conns -> Infos] /\ service' \in [Conns -> Infos]
        BY <2>1, <2>2 DEF Accept, MakeService, Made, Close
    <2> QED BY <1>1, <2>3 DEF TypeOK, MaybeName, Infos
<1>5. ServicesCaptured'
    <2>1. /\ stage'[c] = "making" => making'[c] = Captured(c)
          /\ stage'[c] = "serving" => service'[c] = Captured(c)
        BY DEF TypeOK, ServicesCaptured, Captured, MakeServiceTls, Accept, MakeService,
               Made, Close
    <2> QED BY <1>1, <1>2, <2>1 DEF ServicesCaptured
<1>6. RequestsAnchored'
    <2>1. ASSUME NEW r \in Reqs, progress[r] # "none"
          PROVE  LET d == request[r].conn
                 IN  stage'[d] \in {"serving", "closed"} /\ service'[d] = service[d]
        <3>1. request[r].conn \in Conns /\ stage[request[r].conn] \in {"serving", "closed"}
            BY <2>1 DEF RequestsAnchored
        <3> QED BY <1>1, <3>1 DEF TypeOK, Accept, MakeService, Made, Close
    <2> QED BY <1>1, <1>2, <2>1 DEF RequestsAnchored
<1>7. TlsInfoOfOwnConnection' /\ SniValidated'
    BY <1>1 DEF TlsInfoOfOwnConnection, SniValidated
<1> QED BY <1>4, <1>5, <1>6, <1>7

\* A handshake settles the server name of a connection no request has come on.
LEMMA HandshakeIInv ==
    ASSUME IInv, NEW c \in Conns, NEW n \in MaybeName, Handshake(c, n)
    PROVE  IInv'
<1> USE DEF IInv
<1>1. /\ UNCHANGED <<tls, stage, making, service, request, progress, ext>>
      /\ handshake' = [handshake EXCEPT ![c] = "done"] /\ sni' = [sni EXCEPT ![c] = n]
      /\ tls /\ handshake[c] = "pending"
    BY DEF Handshake
<1>2. TypeOK'
    BY <1>1 DEF TypeOK, MaybeName
<1>3. \A d : Captured(d)' = Captured(d)
    BY <1>1 DEF Captured, info, recv
<1>4. ServicesCaptured'
    BY <1>1, <1>3 DEF ServicesCaptured
<1>5. ASSUME NEW r \in Reqs, progress[r] # "none"
      PROVE  LET d == request[r].conn IN d # c /\ sni'[d] = sni[d] /\ handshake'[d] = handshake[d]
    BY <1>1, <1>5 DEF RequestsAnchored, TypeOK
<1>6. RequestsAnchored'
    BY <1>1, <1>3, <1>5 DEF RequestsAnchored
<1>7. TlsInfoOfOwnConnection'
    BY <1>1, <1>5 DEF TlsInfoOfOwnConnection
<1>8. SniValidated'
    BY <1>1, <1>5 DEF SniValidated
<1> QED BY <1>2, <1>4, <1>6, <1>7, <1>8

\* A request gets the information of the service of its connection.
LEMMA CallIInv ==
    ASSUME IInv, NEW r \in Reqs, NEW c \in Conns, NEW v \in {"HTTP_11", "HTTP_2"},
           NEW a \in MaybeName, NEW h \in MaybeName, Call(r, c, v, a, h)
    PROVE  IInv'
<1> USE DEF IInv
<1> DEFINE q == [conn |-> c, version |-> v, authority |-> a, host |-> h]
<1>1. /\ UNCHANGED <<tls, stage, handshake, sni, making>>
      /\ request' = [request EXCEPT ![r] = q]
      /\ ext' = [ext EXCEPT ![r].info = service[c].info]
      /\ progress' = [progress EXCEPT ![r] = "waiting"]
      /\ stage[c] = "serving" /\ (tls => handshake[c] = "done")
    BY DEF Call
<1>2. service' = service
    BY DEF Call, ServiceAfterCall, TypeOK
<1>3. TypeOK'
    <2> DEFINE Queries == [conn : Conns \cup {NoInfo}, version : {"HTTP_11", "HTTP_2"},
                           authority : MaybeName, host : MaybeName]
               Infos == Conns \cup {NoInfo}
               Tls == [of : Infos, name : MaybeName, validated : BOOLEAN]
    <2>1. /\ request \in [Reqs -> Queries] /\ q \in Queries
          /\ ext \in [Reqs -> [info : Infos, tls : Tls]] /\ service[c].info \in Infos
        BY DEF TypeOK
    <2>2. progress' \in [Reqs -> {"none", "waiting", "handler", "rejected"}]
        BY <1>1 DEF TypeOK
    <2> HIDE DEF q, Queries, Infos, Tls
    <2>3. request' \in [Reqs -> Queries] /\ ext' \in [Reqs -> [info : Infos, tls : Tls]]
        BY <1>1, <2>1
    <2> QED BY <1>1, <1>2, <2>2, <2>3 DEF TypeOK, MaybeName, Queries, Infos, Tls
<1>4. \A d : Captured(d)' = Captured(d)
    BY <1>1 DEF Captured, info, recv
<1>5. ServicesCaptured'
    BY <1>1, <1>2, <1>4 DEF ServicesCaptured
<1>6. /\ request'[r] = q /\ progress'[r] = "waiting" /\ ext'[r].info = service[c].info
      /\ \A s \in Reqs : s # r => /\ request'[s] = request[s] /\ progress'[s] = progress[s]
                                  /\ ext'[s] = ext[s]
    BY <1>1 DEF TypeOK
<1>7. service[c] = Captured(c) /\ service[c].info = c
    BY <1>1 DEF ServicesCaptured, Captured, info
<1>8. RequestsAnchored'
    BY <1>1, <1>2, <1>4, <1>6, <1>7 DEF RequestsAnchored
<1>9. TlsInfoOfOwnConnection' /\ SniValidated'
    BY <1>1, <1>6 DEF TlsInfoOfOwnConnection, SniValidated
<1> QED BY <1>3, <1>5, <1>8, <1>9

\* A request goes on with the TLS information of its own connection and the verdict
\* about its own host.
LEMMA ProceedIInv ==
    ASSUME IInv, NEW r \in Reqs, Proceed(r)
    PROVE  IInv'
<1> USE DEF IInv
<1> DEFINE c == request[r].conn
           verdict == handle(request[r], Received(service[c].rx))
<1>1. /\ UNCHANGED <<tls, stage, handshake, sni, making, service, request>>
      /\ progress[r] = "waiting"
      /\ ext' = [ext EXCEPT ![r].tls = verdict.tls]
      /\ progress' = [progress EXCEPT ![r] = ValidateSNIService(verdict)]
    BY DEF Proceed
<1>2. c \in Conns /\ service[c].rx = recv(c) /\ c # NoInfo /\ sni[c] \in MaybeName
    <2>1. c \in Conns /\ service[c] = Captured(c)
        BY <1>1 DEF RequestsAnchored
    <2> QED BY <2>1, ServerRequestsAssumption DEF Captured, TypeOK
<1>3. /\ ext'[r].info = ext[r].info /\ ext'[r].tls = verdict.tls
      /\ progress'[r] = ValidateSNIService(verdict)
      /\ \A s \in Reqs : s # r => progress'[s] = progress[s] /\ ext'[s] = ext[s]
    BY <1>1 DEF TypeOK
<1>4. ASSUME tls
      PROVE  /\ TlsInfoOfOwnConnection' /\ SniValidated'
             /\ verdict.tls \in [of : Conns \cup {NoInfo}, name : MaybeName, validated : BOOLEAN]
    <2>1. verdict = handle(request[r], [of |-> c, name |-> sni[c], validated |-> FALSE])
        BY <1>2, <1>4 DEF recv, Received
    <2>2. /\ verdict.tls.of = c /\ verdict.tls.name = sni[c]
          /\ verdict.tls = [of |-> c, name |-> sni[c], validated |-> verdict.tls.validated]
          /\ verdict.tls.validated \in BOOLEAN
          /\ ~verdict.error => /\ sni[c] # NoName
                               /\ verdict.tls.validated <=> RequestHost(request[r]) = sni[c]
                               /\ ~verdict.tls.validated => RequestHost(request[r]) = NoName
        <3> HIDE DEF verdict, c
        <3> QED BY <1>2, <2>1, HandleTls
    <2> HIDE DEF verdict
    <2>3. TlsInfoOfOwnConnection'
        BY <1>1, <1>3, <1>4, <2>2 DEF TlsInfoOfOwnConnection
    <2>4. SniValidated'
        BY <1>1, <1>3, <1>4, <2>2 DEF SniValidated, ValidateSNIService, RequestHost
    <2>5. verdict.tls \in [of : Conns \cup {NoInfo}, name : MaybeName, validated : BOOLEAN]
        BY <1>2, <2>2
    <2> QED BY <2>3, <2>4, <2>5
<1>5. ASSUME ~tls
      PROVE  /\ TlsInfoOfOwnConnection' /\ SniValidated'
             /\ verdict.tls \in [of : Conns \cup {NoInfo}, name : MaybeName, validated : BOOLEAN]
    <2>1. verdict.tls = NoTls
        BY <1>2, <1>5, HandlePlain DEF recv, Received
    <2>2. TlsInfoOfOwnConnection' /\ SniValidated'
        BY <1>1, <1>3, <1>5, <2>1 DEF TlsInfoOfOwnConnection, SniValidated
    <2>3. verdict.tls \in [of : Conns \cup {NoInfo}, name : MaybeName, validated : BOOLEAN]
        BY <2>1 DEF NoTls, MaybeName
    <2> QED BY <2>2, <2>3
<1>6. /\ TlsInfoOfOwnConnection' /\ SniValidated'
      /\ verdict.tls \in [of : Conns \cup {NoInfo}, name : MaybeName, validated : BOOLEAN]
    BY <1>4, <1>5
<1>7. TypeOK'
    <2>1. ValidateSNIService(verdict) \in {"handler", "rejected"}
        BY DEF ValidateSNIService
    <2> HIDE DEF verdict
    <2> DEFINE Infos == Conns \cup {NoInfo}
               Tls == [of : Infos, name : MaybeName, validated : BOOLEAN]
    <2>2. ext \in [Reqs -> [info : Infos, tls : Tls]] /\ verdict.tls \in Tls
        BY <1>6 DEF TypeOK
    <2>3. progress' \in [Reqs -> {"none", "waiting", "handler", "rejected"}]
        BY <1>1, <2>1 DEF TypeOK
    <2> HIDE DEF Infos, Tls
    <2>4. ext' \in [Reqs -> [info : Infos, tls : Tls]]
        BY <1>1, <2>2
    <2> QED BY <1>1, <2>3, <2>4 DEF TypeOK, MaybeName, Infos, Tls
<1>8. \A d : Captured(d)' = Captured(d)
    BY <1>1 DEF Captured, info, recv
<1>9. ServicesCaptured'
    BY <1>1, <1>8 DEF ServicesCaptured
<1>10. RequestsAnchored'
    BY <1>1, <1>3, <1>8 DEF RequestsAnchored
<1> QED BY <1>6, <1>7, <1>9, <1>10

\* Every step of the server keeps the invariant.
LEMMA NextIInv == IInv /\ [Next]_vars => IInv'
<1>1. ASSUME IInv, UNCHANGED vars PROVE IInv'
    BY <1>1 DEF IInv, vars, TypeOK, MaybeName, ServicesCaptured, RequestsAnchored, Captured,
                info, recv, TlsInfoOfOwnConnection, SniValidated
<1> QED BY <1>1, ConnectionIInv, HandshakeIInv, CallIInv, ProceedIInv DEF Next

-----------------------------------------------------------------------------
\* The invariant holds in every reachable state.
THEOREM IInvInvariant == Spec => []IInv
BY InitIInv, NextIInv, PTL DEF Spec

\* Type correctness of what the layers of info.rs, tls/info.rs and sni.rs keep of
\* connections and requests.
THEOREM TypeCorrect == Spec => []TypeOK
BY IInvInvariant, PTL DEF IInv

\* Every request reaches the handler with the information of its own connection,
\* however many connections are made and served side by side and however many
\* requests a connection carries (ConnectionWithInfo::call, TowerHyperService::call).
THEOREM InfoAlwaysOwn == Spec => []InfoOfOwnConnection
<1>1. IInv => InfoOfOwnConnection
    BY DEF IInv, RequestsAnchored, InfoOfOwnConnection
<1> QED BY <1>1, IInvInvariant, PTL

\* With TLS it carries the result of that connection's own handshake, without TLS
\* none (ConnectionWithTlsInfo::call awaits the receiver it was made with).
THEOREM TlsInfoAlwaysOwn == Spec => []TlsInfoOfOwnConnection
BY IInvInvariant, PTL DEF IInv

\* A request is marked as validated exactly when it names the server name of its
\* own connection, and over TLS reaches the handler without the mark only when it
\* names no host (ValidateSNIService::call and handle of sni.rs).
THEOREM SniAlwaysValidated == Spec => []SniValidated
BY IInvInvariant, PTL DEF IInv

=============================================================================
