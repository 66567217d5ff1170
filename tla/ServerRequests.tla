--------------------------- MODULE ServerRequests ---------------------------
(***************************************************************************)
(* What the server tells a handler about the connection its request came   *)
(* on: src/src/server/conn/info.rs (connection information and TLS         *)
(* information as make-service layers), src/src/server/conn/tls/sni.rs     *)
(* (the SNI validation of SniValidation), src/src/server/conn/acceptor.rs  *)
(* and stream.rs (where the information comes from) and                    *)
(* src/src/bridge/service.rs (the adapter through which hyper calls the    *)
(* service).                                                               *)
(*                                                                         *)
(* Connections are accepted, made and served side by side and carry many   *)
(* requests, several at once on HTTP/2.  hyper, the accept loop (chateau)  *)
(* and rustls are external.  The information about a connection is named   *)
(* by the connection it is about.                                          *)
(***************************************************************************)
EXTENDS SniValidation

CONSTANTS Conns,   \* connections
          Reqs,    \* requests, by identity
          Names    \* host names

ASSUME ServerRequestsAssumption ==
    /\ NoInfo \notin Conns
    /\ NoName \notin Names

VARIABLES
    tls,       \* does the acceptor wrap connections in TLS?
    stage,     \* of each connection: "new", "accepted", "making", "serving" or "closed"
    handshake, \* of each connection: "pending" or "done"
    sni,       \* of each connection: the server name the client asked for
    making,    \* the make-service futures: info and rx they hold
    service,   \* the service of each connection, of which hyper gets clones
    request,   \* each request: its connection and the names in it
    progress,  \* of each request: "none", "waiting", "handler" or "rejected"
    ext        \* the extensions of each request

vars == <<tls, stage, handshake, sni, making, service, request, progress, ext>>

MaybeName == Names \cup {NoName}
NoService == [info |-> NoInfo, rx |-> NoInfo]
NoExt == [info |-> NoInfo, tls |-> NoTls]
NoRequest == [conn |-> NoInfo, version |-> "HTTP_11", authority |-> NoName,
              host |-> NoName]

Init ==
    /\ tls \in BOOLEAN
    /\ stage = [c \in Conns |-> "new"]
    /\ handshake = [c \in Conns |-> "pending"]
    /\ sni = [c \in Conns |-> NoName]
    /\ making = [c \in Conns |-> NoService]
    /\ service = [c \in Conns |-> NoService]
    /\ request = [r \in Reqs |-> NoRequest]
    /\ progress = [r \in Reqs |-> "none"]
    /\ ext = [r \in Reqs |-> NoExt]

-----------------------------------------------------------------------------
\* Mistaken forms of recv: never a channel, and always one.
recv_empty(c) == NoInfo
recv_always(c) == c

\* Stream::recv: the channel on which the TLS stream publishes its information,
\* or an empty one for a stream without TLS.
recv(c) == IF tls THEN c ELSE NoInfo

\* Acceptor::poll_accept yields a stream, with TLS or without.  The TLS handshake
\* is not waited for.
Accept(c) ==
    /\ stage[c] = "new"
    /\ stage' = [stage EXCEPT ![c] = "accepted"]
    /\ UNCHANGED <<tls, handshake, sni, making, service, request, progress, ext>>

\* Stream::info: what Stream::new or From took from the socket.
info(c) == c

\* MakeServiceTlsConnectionInfoService::call, whose future keeps the receiver for
\* the service it makes.
MakeServiceTls(c) == recv(c)

\* The make-service layers are called with the accepted stream: they capture its
\* information and the receiver before the stream is handed on.
MakeService(c) ==
    /\ stage[c] = "accepted"
    /\ stage' = [stage EXCEPT ![c] = "making"]
    /\ making' = [making EXCEPT ![c] = [info |-> info(c), rx |-> MakeServiceTls(c)]]
    /\ UNCHANGED <<tls, handshake, sni, service, request, progress, ext>>

\* MakeServiceConnectionInfoFuture and MakeServiceTlsConnectionInfoFuture: the
\* inner service is ready and takes what they captured.
Made(c) ==
    /\ stage[c] = "making"
    /\ service' = [service EXCEPT ![c] = making[c]]
    /\ making' = [making EXCEPT ![c] = NoService]
    /\ stage' = [stage EXCEPT ![c] = "serving"]
    /\ UNCHANGED <<tls, handshake, sni, request, progress, ext>>

\* The inner make-service fails, the handshake fails, or the connection ends.
Close(c) ==
    /\ stage[c] \in {"accepted", "making", "serving"}
    /\ stage' = [stage EXCEPT ![c] = "closed"]
    /\ UNCHANGED <<tls, handshake, sni, making, service, request, progress, ext>>

\* The TLS handshake, driven by the reads of the served connection, completes
\* and publishes its result to every receiver.
Handshake(c, n) ==
    /\ tls /\ stage[c] = "serving" /\ handshake[c] = "pending"
    /\ handshake' = [handshake EXCEPT ![c] = "done"]
    /\ sni' = [sni EXCEPT ![c] = n]
    /\ UNCHANGED <<tls, stage, making, service, request, progress, ext>>

\* Mistaken form of ServiceAfterCall: hyper's call reaches the service itself.
TakesInfo(s) == [s EXCEPT !.info = NoInfo]

\* ConnectionWithInfo::call takes the information out of the service it is
\* called on.  TowerHyperService::call makes that a clone, one per request, and
\* the service of the connection keeps what it holds.
ServiceAfterCall(s) == s

\* hyper has read a request: the service is called up to the await of the TLS
\* information in ConnectionWithTlsInfo::call.
Call(r, c, v, authority, host) ==
    /\ progress[r] = "none"
    /\ stage[c] = "serving" /\ (tls => handshake[c] = "done")
    /\ request' = [request EXCEPT ![r] = [conn |-> c, version |-> v,
                                          authority |-> authority, host |-> host]]
    /\ ext' = [ext EXCEPT ![r].info = service[c].info]
    /\ service' = [service EXCEPT ![c] = ServiceAfterCall(@)]
    /\ progress' = [progress EXCEPT ![r] = "waiting"]
    /\ UNCHANGED <<tls, stage, handshake, sni, making>>

\* Mistaken form of Received: a field in the place of another.
ReceivedMixed(rx) ==
    IF rx = NoInfo THEN NoTls
    ELSE [of |-> rx, name |-> rx, validated |-> FALSE]

\* What the receiver yields: a copy of the information, or nothing.
Received(rx) ==
    IF rx = NoInfo THEN NoTls
    ELSE [of |-> rx, name |-> sni[rx], validated |-> FALSE]

\* ConnectionWithTlsInfo::call after the await, and ValidateSNIService::call:
\* the request goes to the handler or is answered with an error.
Proceed(r) ==
    LET c == request[r].conn
        rx == service[c].rx
        verdict == handle(request[r], Received(rx))
    IN  /\ progress[r] = "waiting"
        /\ rx # NoInfo => handshake[rx] = "done"
        /\ ext' = [ext EXCEPT ![r].tls = verdict.tls]
        /\ progress' = [progress EXCEPT ![r] = ValidateSNIService(verdict)]
        /\ UNCHANGED <<tls, stage, handshake, sni, making, service, request>>

Next ==
    \/ \E c \in Conns : Accept(c) \/ MakeService(c) \/ Made(c) \/ Close(c)
    \/ \E c \in Conns, n \in MaybeName : Handshake(c, n)
    \/ \E r \in Reqs, c \in Conns, v \in {"HTTP_11", "HTTP_2"}, a, h \in MaybeName :
          Call(r, c, v, a, h)
    \/ \E r \in Reqs : Proceed(r)

Spec == Init /\ [][Next]_vars

\* The executor polls the future of a request that can go on.
FairSpec == Spec /\ \A r \in Reqs : WF_vars(Proceed(r))

-----------------------------------------------------------------------------
\* Type invariant.
TypeOK ==
    /\ tls \in BOOLEAN
    /\ stage \in [Conns -> {"new", "accepted", "making", "serving", "closed"}]
    /\ handshake \in [Conns -> {"pending", "done"}]
    /\ sni \in [Conns -> MaybeName]
    /\ making \in [Conns -> [info : Conns \cup {NoInfo}, rx : Conns \cup {NoInfo}]]
    /\ service \in [Conns -> [info : Conns \cup {NoInfo}, rx : Conns \cup {NoInfo}]]
    /\ request \in [Reqs -> [conn : Conns \cup {NoInfo}, version : {"HTTP_11", "HTTP_2"},
                             authority : MaybeName, host : MaybeName]]
    /\ progress \in [Reqs -> {"none", "waiting", "handler", "rejected"}]
    /\ ext \in [Reqs -> [info : Conns \cup {NoInfo},
                         tls : [of : Conns \cup {NoInfo}, name : MaybeName,
                                validated : BOOLEAN]]]

\* Every request that reaches the handler, not just the first one of its
\* connection, carries the information of the connection it came on
\* (server/builder.rs: "available in the request extensions for each request").
InfoOfOwnConnection ==
    \A r \in Reqs :
        progress[r] = "handler" => ext[r].info = request[r].conn

\* With TLS it also carries the result of that connection's own handshake, and
\* without TLS none.
TlsInfoOfOwnConnection ==
    \A r \in Reqs :
        progress[r] = "handler" =>
            IF tls
            THEN /\ ext[r].tls.of = request[r].conn
                 /\ ext[r].tls.name = sni[request[r].conn]
            ELSE ext[r].tls = NoTls

\* A request marked as validated asks for the server name of its own
\* connection, and one that reaches the handler over TLS without the mark names
\* no host at all: requests on one connection do not validate each other.
SniValidated ==
    \A r \in Reqs :
        progress[r] = "handler" /\ tls =>
            LET host == IF request[r].version = "HTTP_2"
                        THEN request[r].authority ELSE request[r].host
            IN  /\ sni[request[r].conn] # NoName
                /\ ext[r].tls.validated <=> host = sni[request[r].conn]
                /\ ~ext[r].tls.validated => host = NoName

\* Waiting for the TLS information does not hang a request: it was read through
\* the TLS stream, so the handshake that publishes the information is done.
RequestProceeds ==
    \A r \in Reqs : progress[r] = "waiting" ~> progress[r] \in {"handler", "rejected"}

=============================================================================
