-------------------------- MODULE HttpClientProofs --------------------------
(***************************************************************************)
(* Proofs about HttpClient, and about HttpClient with a server of this     *)
(* crate (ClientServer), for any number of calls, connections, hosts,      *)
(* requests, redirects and for every setting of the Builder.               *)
(***************************************************************************)
EXTENDS ClientServer, FiniteSetTheorems, TLAPS

\* The stages in which a call has a connection, and those in which it makes it.
Making == {"resolving", "connecting", "handshaking"}
Using == Making \cup {"ready", "sent"}

\* A URI that has a scheme has a host.
WellFormed(r) == r.scheme # "none" => r.host # NoHost

\* An empty body has no data.
BodyOK(b) == b.inner = "Empty" => ~b.data

\* What is known of the requests: a POST still has the data its caller gave it.
RequestInv ==
    \A i \in Calls : stage[i] # "idle" =>
        /\ req[i] \in Requests /\ WellFormed(req[i]) /\ BodyOK(req[i].body)
        /\ origin[i] \in Requests
        /\ req[i].method = "POST" => req[i].body.data = origin[i].body.data

\* A connection is what the request it was opened for asked for.
OpenerInv ==
    \A c \in Conns : conn[c].phase # "free" =>
        /\ conn[c].opener \in Requests /\ WellFormed(conn[c].opener)
        /\ conn[c].key = build_key(conn[c].opener)
        /\ conn[c].tls = UsesTls(conn[c].opener)
        /\ conn[c].name = get_tls_domain(conn[c].opener)
        /\ config.protocol # "Auto" => conn[c].proto = config.protocol

\* A call uses a connection with the key of its request, and the two move on
\* together while the connection is being made.
CallInv ==
    \A i \in Calls :
        /\ on[i] = NoConn <=> stage[i] \notin Using
        /\ stage[i] \in Using => conn[on[i]].key = build_key(req[i])
        /\ stage[i] \in {"resolving", "connecting"} => conn[on[i]].phase = "transport"
        /\ stage[i] = "handshaking" => conn[on[i]].phase = "handshake"
        /\ stage[i] \in {"ready", "sent"} => conn[on[i]].phase \in {"open", "closed"}

\* Only HTTP/2 connections that are made are shared.
ExclusiveInv ==
    \A i, j \in Calls :
        i # j /\ on[i] = on[j] /\ on[i] # NoConn =>
            /\ conn[on[i]].proto = "Http2"
            /\ conn[on[i]].phase \in {"open", "closed"}

\* A connection that is not made yet has no responses, an HTTP/1 connection at most
\* one, and none when a call is about to send its request over it.
UnreadInv ==
    /\ \A c \in Conns :
          /\ conn[c].phase \in {"free", "transport", "handshake"} => unread[c] = {}
          /\ conn[c].proto = "Http1" => \A i, j \in unread[c] : i = j
    /\ \A i \in Calls :
          stage[i] = "ready" /\ conn[on[i]].proto = "Http1" => unread[on[i]] = {}

\* The request r as it goes over a connection with protocol proto.
OnWire(proto, r) == [Executor(proto, r) EXCEPT !.body = Transmitted(r.body)]

\* What hyper was given is the request as it is now, prepared for the connection.
WireInv ==
    \A i \in Calls : stage[i] = "sent" =>
        /\ wire[i] = OnWire(conn[on[i]].proto, req[i])
        /\ ~(conn[on[i]].proto = "Http2" /\ req[i].method = "CONNECT")

\* The inductive invariant.
IInv ==
    /\ TypeOK
    /\ RequestInv
    /\ OpenerInv
    /\ CallInv
    /\ ExclusiveInv
    /\ UnreadInv
    /\ WireInv

-----------------------------------------------------------------------------
(* Bodies and the executor. *)

\* Every kind of body a caller gives; the empty ones have no data.
LEMMA FromFacts ==
    ASSUME NEW source \in BodySources
    PROVE  from(source) \in Bodies /\ BodyOK(from(source))
    BY DEF BodySources, Bodies, from, empty, BodyOK

\* Body::empty
LEMMA EmptyFacts == empty \in Bodies /\ BodyOK(empty) /\ ~empty.data
    BY DEF Bodies, BodyOK, empty

\* hyper sends exactly the data that is in the body.
LEMMA TransmittedFacts ==
    ASSUME NEW b \in Bodies, BodyOK(b)
    PROVE  Transmitted(b) \in Bodies /\ Transmitted(b).data = b.data
<1>1. (~is_end_stream(b) /\ poll_frame(b)) \in BOOLEAN
    BY DEF is_end_stream, poll_frame
<1>2. (~is_end_stream(b) /\ poll_frame(b)) <=> b.data
    BY DEF Bodies, BodyOK, is_end_stream, poll_frame
<1> DEFINE d == ~is_end_stream(b) /\ poll_frame(b)
<1>3. d \in BOOLEAN /\ d = b.data
    BY <1>1, <1>2, Zenon DEF Bodies
<1> HIDE DEF d
<1>4. [b EXCEPT !.data = d] \in Bodies /\ [b EXCEPT !.data = d].data = d
    BY <1>3 DEF Bodies
<1> QED BY <1>3, <1>4 DEF Transmitted, d

\* The key of a request has the type of a key.
LEMMA KeyType ==
    ASSUME NEW r \in Requests
    PROVE  /\ build_key(r) \in Schemes \X (Hosts \cup {NoHost}) \X Ports
           /\ get_tls_domain(r) \in HostValues \cup {NoHost}
           /\ UsesTls(r) \in BOOLEAN
    BY DEF build_key, Requests, Schemes, get_tls_domain, get_host, HostValues, UsesTls

\* What goes over an HTTP/1 connection.
LEMMA OnWireHttp1 ==
    ASSUME NEW r \in Requests, WellFormed(r), BodyOK(r.body), config \in Configs,
           config.protocol # "Auto" => config.protocol = "Http1"
    PROVE  LET w == OnWire("Http1", r)
           IN  /\ w \in Requests
               /\ w.version = "HTTP_11" /\ w.scheme = "none" /\ w.method = r.method
               /\ w.body.data = r.body.data
               /\ r.host # NoHost =>
                    /\ w.hostHeader # NoHost /\ w.hostHeader.name = get_host(r).name
                    /\ r.hostHeader = NoHost => w.hostHeader.name = r.host
<1> DEFINE a == SetHostHeader("Http1", r)
           b == check_http2_request("Http1", a)
           c == check_http1_request("Http1", b)
           d == send_request("Http1", c)
<1>1. a \in Requests /\ a.scheme = r.scheme /\ a.host = r.host /\ a.method = r.method
      /\ a.body = r.body
    BY DEF SetHostHeader, set_host_header, Requests, HostValues
<1>2. r.host # NoHost =>
        /\ a.hostHeader # NoHost /\ a.hostHeader.name = get_host(r).name
        /\ r.hostHeader = NoHost => a.hostHeader.name = r.host
    <2> SUFFICES ASSUME r.host # NoHost
                 PROVE  /\ a.hostHeader # NoHost /\ a.hostHeader.name = get_host(r).name
                        /\ r.hostHeader = NoHost => a.hostHeader.name = r.host
        OBVIOUS
    <2>1. CASE r.hostHeader # NoHost
        BY <2>1 DEF SetHostHeader, set_host_header, get_host
    <2>2. CASE r.hostHeader = NoHost
        <3> DEFINE h == [name |-> r.host, port |-> r.port = "other"]
        <3>p. PICK p \in BOOLEAN : p = (r.port = "other")
            BY Zenon
        <3>1. h \in HostValues /\ h.name = r.host
            <4>1. h = [name |-> r.host, port |-> p] /\ r.host \in Hosts
                BY <3>p DEF Requests
            <4> HIDE DEF h
            <4> QED BY <4>1 DEF HostValues
        <3>2. h # NoHost
            BY <3>1, HttpClientAssumption
        <3>3. get_host(r).name = r.host
            BY <2>2 DEF get_host
        <3>4. a = [r EXCEPT !.hostHeader = h]
            BY <2>2 DEF SetHostHeader, set_host_header
        <3> HIDE DEF h
        <3>5. a.hostHeader = h
            BY <3>4 DEF Requests
        <3> QED BY <3>1, <3>2, <3>3, <3>5
    <2> QED BY <2>1, <2>2
<1> HIDE DEF a
<1>3. b = a
    BY DEF check_http2_request
<1>4. /\ c \in Requests /\ c.scheme = "none" /\ c.method = a.method /\ c.body = a.body
      /\ c.hostHeader = a.hostHeader
    <2>1. a.scheme # "none" => a.host # NoHost
        BY <1>1 DEF WellFormed
    <2>2. c = IF NeedsAbsoluteForm("Http1", a) THEN a
              ELSE IF a.method = "CONNECT" THEN authority_form(a) ELSE origin_form(a)
        BY <1>3 DEF check_http1_request
    <2>3. NeedsAbsoluteForm("Http1", a) => a.scheme = "none"
        BY <2>1 DEF NeedsAbsoluteForm
    <2>4. /\ authority_form(a) \in Requests /\ authority_form(a).scheme = "none"
          /\ authority_form(a).method = a.method /\ authority_form(a).body = a.body
          /\ authority_form(a).hostHeader = a.hostHeader
        BY <1>1 DEF authority_form, Requests, Schemes
    <2>5. /\ origin_form(a) \in Requests /\ origin_form(a).scheme = "none"
          /\ origin_form(a).method = a.method /\ origin_form(a).body = a.body
          /\ origin_form(a).hostHeader = a.hostHeader
        BY <1>1 DEF origin_form, Requests, Schemes, Ports
    <2> HIDE DEF c
    <2> QED BY <1>1, <2>2, <2>3, <2>4, <2>5
<1> HIDE DEF b, c
<1>5. /\ d \in Requests /\ d.version = "HTTP_11" /\ d.scheme = c.scheme /\ d.method = c.method
      /\ d.body = c.body /\ d.hostHeader = c.hostHeader
    <2>1. config.protocol \in {"Auto", "Http1"}
        BY DEF Configs
    <2> QED BY <1>4, <2>1
            DEF send_request, HttpConnection, Http1Connection, Requests, Versions
<1>6. Executor("Http1", r) = d
    BY DEF Executor, a, b, c
<1> HIDE DEF d
<1>7. /\ Transmitted(r.body) \in Bodies /\ Transmitted(r.body).data = r.body.data
    BY TransmittedFacts DEF Requests
<1>8. PICK t \in Bodies : t = Transmitted(r.body)
    BY <1>7
<1> DEFINE w == [d EXCEPT !.body = t]
<1>9. OnWire("Http1", r) = w
    BY <1>6, <1>8 DEF OnWire
<1>10. /\ w \in Requests /\ w.version = d.version /\ w.scheme = d.scheme
       /\ w.method = d.method /\ w.hostHeader = d.hostHeader /\ w.body = t
    BY <1>5 DEF Requests
<1> HIDE DEF w
<1> QED BY <1>1, <1>2, <1>4, <1>5, <1>7, <1>8, <1>9, <1>10

\* What goes over an HTTP/2 connection.
LEMMA OnWireHttp2 ==
    ASSUME NEW r \in Requests, BodyOK(r.body), config \in Configs,
           config.protocol # "Auto" => config.protocol = "Http2"
    PROVE  LET w == OnWire("Http2", r)
           IN  /\ w \in Requests
               /\ w.version = "HTTP_2" /\ w.method = r.method
               /\ w.scheme = r.scheme /\ w.host = r.host
               /\ w.hostHeader = NoHost /\ ~w.connHeaders
               /\ w.body.data = r.body.data
<1> DEFINE a == SetHostHeader("Http2", r)
           b == check_http2_request("Http2", a)
           c == check_http1_request("Http2", b)
           d == send_request("Http2", c)
<1>1. a = r
    BY DEF SetHostHeader
<1>2. /\ b \in Requests /\ b.version = "HTTP_2" /\ b.method = r.method /\ b.scheme = r.scheme
      /\ b.host = r.host /\ b.hostHeader = NoHost /\ b.body = r.body
      /\ ~b.connHeaders
    <2>1. PICK no \in BOOLEAN : no = FALSE
        OBVIOUS
    <2>2. b = [r EXCEPT !.version = "HTTP_2", !.connHeaders = no, !.hostHeader = NoHost]
        BY <1>1, <2>1 DEF check_http2_request
    <2> HIDE DEF b
    <2>3. /\ b \in Requests /\ b.version = "HTTP_2" /\ b.method = r.method
          /\ b.scheme = r.scheme /\ b.host = r.host /\ b.hostHeader = NoHost
          /\ b.body = r.body /\ b.connHeaders = no
        BY <2>2 DEF Requests, Versions
    <2> QED BY <2>1, <2>3
<1> HIDE DEF b
<1>3. c = b
    BY DEF check_http1_request
<1> HIDE DEF c
<1>4. /\ d \in Requests /\ d.version = "HTTP_2" /\ d.method = b.method /\ d.scheme = b.scheme
      /\ d.host = b.host /\ d.hostHeader = b.hostHeader /\ d.body = b.body
      /\ d.connHeaders = b.connHeaders
    <2>1. config.protocol \in {"Auto", "Http2"}
        BY DEF Configs
    <2> QED BY <1>2, <1>3, <2>1
            DEF send_request, HttpConnection, Http2Connection, Requests, Versions
<1>5. Executor("Http2", r) = d
    BY DEF Executor, a, b, c
<1> HIDE DEF d
<1>6. Transmitted(r.body) \in Bodies /\ Transmitted(r.body).data = r.body.data
    BY TransmittedFacts DEF Requests
<1>7. PICK t \in Bodies : t = Transmitted(r.body)
    BY <1>6
<1>8. OnWire("Http2", r) = [d EXCEPT !.body = t]
    BY <1>5, <1>7 DEF OnWire
<1>9. LET w == [d EXCEPT !.body = t]
      IN  /\ w \in Requests /\ w.version = d.version /\ w.scheme = d.scheme
          /\ w.method = d.method /\ w.hostHeader = d.hostHeader /\ w.body = t
          /\ w.host = d.host /\ w.connHeaders = d.connHeaders
    BY <1>4 DEF Requests
<1> QED BY <1>2, <1>4, <1>6, <1>7, <1>8, <1>9

-----------------------------------------------------------------------------
(* The invariants of the runs follow from the inductive one. *)

\* What holds of a call that is sent.
LEMMA SentFacts ==
    ASSUME IInv, NEW i \in Calls, stage[i] = "sent"
    PROVE  /\ on[i] \in Conns /\ conn[on[i]] \in Connections
           /\ req[i] \in Requests /\ WellFormed(req[i]) /\ BodyOK(req[i].body)
           /\ conn[on[i]].opener \in Requests /\ WellFormed(conn[on[i]].opener)
           /\ build_key(req[i]) = build_key(conn[on[i]].opener)
           /\ conn[on[i]].tls = UsesTls(conn[on[i]].opener)
           /\ conn[on[i]].name = get_tls_domain(conn[on[i]].opener)
           /\ config.protocol # "Auto" => config.protocol = conn[on[i]].proto
           /\ wire[i] = OnWire(conn[on[i]].proto, req[i])
<1>1. on[i] \in Conns
    BY DEF IInv, TypeOK, CallInv, Using
<1>2. conn[on[i]] \in Connections
    BY <1>1 DEF IInv, TypeOK
<1>3. conn[on[i]].phase # "free" /\ conn[on[i]].key = build_key(req[i])
    BY DEF IInv, CallInv, Using
<1> QED BY <1>1, <1>2, <1>3 DEF IInv, RequestInv, OpenerInv, WireInv

\* A request whose scheme asks for TLS shares a key only with others of that scheme
\* and with those that have none.
LEMMA KeyFacts ==
    ASSUME NEW r \in Requests, NEW o \in Requests, build_key(r) = build_key(o)
    PROVE  /\ r.host = o.host
           /\ r.scheme # "none" /\ o.scheme # "none" => r.scheme = o.scheme
    BY DEF build_key

\* An https or wss request of a client with TLS goes out in the clear only over a
\* connection opened for a request without a scheme.
LEMMA IInvSecure == IInv => SecureOverTls
<1> SUFFICES ASSUME IInv, NEW i \in Calls, stage[i] = "sent", config.tls,
                    req[i].scheme \in {"https", "wss"}, conn[on[i]].opener.scheme # "none"
             PROVE  conn[on[i]].tls
    BY DEF SecureOverTls
<1> DEFINE o == conn[on[i]].opener
<1>1. /\ req[i] \in Requests /\ o \in Requests /\ WellFormed(o)
      /\ build_key(req[i]) = build_key(o) /\ conn[on[i]].tls = UsesTls(o)
    BY SentFacts
<1>2. o.scheme \in {"https", "wss"}
    BY <1>1, KeyFacts
<1> HIDE DEF o
<1>3. get_host(o) # NoHost
    <2>1. o.host \in Hosts /\ o.hostHeader \in HostValues \cup {NoHost}
        BY <1>1, <1>2 DEF WellFormed, Requests
    <2>2. PICK no \in BOOLEAN : no = FALSE
        OBVIOUS
    <2>3. [name |-> o.host, port |-> no] \in HostValues
        BY <2>1 DEF HostValues
    <2> QED BY <2>1, <2>2, <2>3, HttpClientAssumption DEF get_host
<1> QED BY <1>1, <1>2, <1>3 DEF UsesTls, get_tls_domain

\* A TLS connection opened without a Host header has the name of the host.
LEMMA TlsName ==
    ASSUME IInv, NEW i \in Calls, stage[i] = "sent", conn[on[i]].tls,
           conn[on[i]].opener.hostHeader = NoHost
    PROVE  /\ conn[on[i]].name = [name |-> req[i].host, port |-> FALSE]
           /\ req[i].host \in Hosts
<1> DEFINE o == conn[on[i]].opener
<1>1. /\ req[i] \in Requests /\ o \in Requests /\ WellFormed(o)
      /\ build_key(req[i]) = build_key(o) /\ conn[on[i]].tls = UsesTls(o)
      /\ conn[on[i]].name = get_tls_domain(o)
    BY SentFacts
<1>2. req[i].host = o.host
    BY <1>1, KeyFacts
<1> HIDE DEF o
<1>3. o.scheme \in {"https", "wss"} /\ get_tls_domain(o) = get_host(o)
    BY <1>1 DEF UsesTls, get_tls_domain
<1>4. o.host # NoHost /\ o.host \in Hosts
    BY <1>1, <1>3 DEF WellFormed, Requests
<1> QED BY <1>1, <1>2, <1>3, <1>4 DEF get_host, o

\* The two wire forms and the body.
LEMMA IInvWire == IInv => Http1WireForm /\ Http2WireForm /\ BodyNotLost
<1> SUFFICES ASSUME IInv PROVE Http1WireForm /\ Http2WireForm /\ BodyNotLost
    OBVIOUS
<1>0. config \in Configs
    BY DEF IInv, TypeOK
<1>1. ASSUME NEW i \in Calls, stage[i] = "sent", conn[on[i]].proto = "Http1"
      PROVE  /\ wire[i].version = "HTTP_11" /\ wire[i].scheme = "none"
             /\ wire[i].method = req[i].method /\ wire[i].body.data = req[i].body.data
             /\ req[i].host # NoHost =>
                  wire[i].hostHeader # NoHost /\ wire[i].hostHeader.name = get_host(req[i]).name
    BY <1>0, <1>1, SentFacts, OnWireHttp1
<1>2. ASSUME NEW i \in Calls, stage[i] = "sent", conn[on[i]].proto = "Http2"
      PROVE  /\ wire[i].version = "HTTP_2" /\ wire[i].method = req[i].method
             /\ wire[i].method # "CONNECT" /\ wire[i].body.data = req[i].body.data
             /\ wire[i].scheme = req[i].scheme /\ wire[i].host = req[i].host
             /\ wire[i].hostHeader = NoHost /\ ~wire[i].connHeaders
    <2>1. req[i].method # "CONNECT"
        BY <1>2 DEF IInv, WireInv
    <2> QED BY <1>0, <1>2, <2>1, SentFacts, OnWireHttp2
<1>3. Http1WireForm /\ Http2WireForm
    BY <1>1, <1>2 DEF Http1WireForm, Http2WireForm
<1>4. ASSUME NEW i \in Calls, stage[i] = "sent", wire[i].method = "POST"
      PROVE  wire[i].body.data = origin[i].body.data
    <2>1. conn[on[i]].proto \in {"Http1", "Http2"}
        BY <1>4, SentFacts DEF Connections
    <2>2. wire[i].method = req[i].method /\ wire[i].body.data = req[i].body.data
        BY <1>1, <1>2, <1>4, <2>1
    <2> QED BY <1>4, <2>2 DEF IInv, RequestInv
<1> QED BY <1>3, <1>4 DEF BodyNotLost

\* A set all of whose elements are equal has at most one.
LEMMA AtMostOne ==
    ASSUME NEW S, \A x, y \in S : x = y
    PROVE  Cardinality(S) <= 1
<1>1. CASE S = {}
    BY <1>1, FS_EmptySet
<1>2. CASE S # {}
    <2>1. PICK x \in S : TRUE
        BY <1>2
    <2>2. S = {x}
        BY <2>1
    <2> QED BY <2>2, FS_Singleton
<1> QED BY <1>1, <1>2

\* One response at a time on an HTTP/1 connection.
LEMMA IInvExclusive == IInv => Http1Exclusive
<1> SUFFICES ASSUME IInv, NEW c \in Conns, conn[c].proto = "Http1"
             PROVE  Cardinality(unread[c]) <= 1
    BY DEF Http1Exclusive
<1>1. \A i, j \in unread[c] : i = j
    BY DEF IInv, UnreadInv
<1> QED BY <1>1, AtMostOne

\* The server's check of the name succeeds.
LEMMA IInvServer == IInv => ServerValidates
<1> SUFFICES ASSUME IInv, NEW i \in Calls, stage[i] = "sent", conn[on[i]].tls,
                    conn[on[i]].opener.hostHeader = NoHost,
                    conn[on[i]].proto = "Http1" => req[i].hostHeader = NoHost
             PROVE  LET verdict == Server!handle(Parsed(i), Recorded(on[i]))
                    IN  ~verdict.error /\ verdict.tls.validated
    BY DEF ServerValidates
<1> DEFINE q == Parsed(i)
           t == Recorded(on[i])
           m == t.name # NoHost /\ Server!RequestHost(q) = t.name
<1>1. conn[on[i]].name = [name |-> req[i].host, port |-> FALSE] /\ req[i].host \in Hosts
    BY TlsName
<1>2. t.name = req[i].host /\ t.name # NoHost
    BY <1>1, HttpClientAssumption DEF Recorded
<1>3. Server!RequestHost(q) = req[i].host
    <2>0. config \in Configs /\ req[i].host # NoHost
        BY <1>1, HttpClientAssumption DEF IInv, TypeOK
    <2>1. CASE conn[on[i]].proto = "Http1"
        <3>1. wire[i].hostHeader # NoHost /\ wire[i].hostHeader.name = req[i].host
            BY <2>0, <2>1, SentFacts, OnWireHttp1
        <3>2. q.version = "HTTP_11" /\ q.host = req[i].host
            BY <2>1, <3>1 DEF Parsed
        <3> HIDE DEF q
        <3> QED BY <3>2 DEF Server!RequestHost
    <2>2. CASE conn[on[i]].proto = "Http2"
        <3>1. wire[i].host = req[i].host
            BY <2>0, <2>2, SentFacts, OnWireHttp2
        <3>2. q.version = "HTTP_2" /\ q.authority = req[i].host
            BY <2>2, <3>1 DEF Parsed
        <3> HIDE DEF q
        <3> QED BY <3>2 DEF Server!RequestHost
    <2>3. conn[on[i]].proto \in {"Http1", "Http2"}
        BY SentFacts DEF Connections
    <2> QED BY <2>1, <2>2, <2>3
<1>4. m
    BY <1>2, <1>3
<1>5. ~Server!handle(q, t).error
    BY <1>4 DEF Server!handle
<1>6. Server!handle(q, t).tls = [t EXCEPT !.validated = TRUE]
    BY <1>4 DEF Server!handle
<1>7. [t EXCEPT !.validated = TRUE].validated
    BY DEF Recorded
<1> QED BY <1>5, <1>6, <1>7

-----------------------------------------------------------------------------
(* The steps of a call. *)

Phases == {"free", "transport", "handshake", "open", "closed"}
Answers == {"None", "Response", "Transport", "Protocol", "Connection", "RequestTimeout",
            "Dropped", "Panicked"}

\* k differs from m in the phase at most.
SameConn(k, m) ==
    /\ k.key = m.key /\ k.tls = m.tls /\ k.name = m.name
    /\ k.opener = m.opener /\ k.proto = m.proto

\* A connection moves on.
LEMMA PhaseFacts ==
    ASSUME TypeOK, NEW c \in Conns, NEW p \in Phases, conn' = [conn EXCEPT ![c].phase = p]
    PROVE  /\ conn' \in [Conns -> Connections]
           /\ conn'[c].phase = p
           /\ \A d \in Conns : d # c => conn'[d] = conn[d]
           /\ \A d \in Conns : SameConn(conn'[d], conn[d])
<1>1. conn \in [Conns -> Connections] /\ conn[c] \in Connections
    BY DEF TypeOK
<1>2. conn' = [conn EXCEPT ![c] = [conn[c] EXCEPT !.phase = p]]
    OBVIOUS
<1> DEFINE m == [conn[c] EXCEPT !.phase = p]
<1>3. m \in Connections /\ m.phase = p /\ SameConn(m, conn[c])
    BY <1>1 DEF Connections, SameConn, Phases
<1> HIDE DEF m
<1>4. conn' = [conn EXCEPT ![c] = m]
    BY <1>2 DEF m
<1>5. /\ conn' \in [Conns -> Connections] /\ conn'[c] = m
      /\ \A d \in Conns : d # c => conn'[d] = conn[d]
    BY <1>1, <1>3, <1>4
<1>6. \A d \in Conns : SameConn(conn'[d], conn[d])
    BY <1>3, <1>5 DEF SameConn
<1> QED BY <1>3, <1>5, <1>6

\* The phases and the connection of a call.
LEMMA UsingFacts ==
    ASSUME IInv, NEW i \in Calls, stage[i] \in Using
    PROVE  /\ on[i] \in Conns /\ conn[on[i]] \in Connections
           /\ stage[i] \in Making =>
                /\ conn[on[i]].phase \in {"transport", "handshake"}
                /\ unread[on[i]] = {}
                /\ \A j \in Calls : j # i => on[j] # on[i]
<1>1. on[i] \in Conns
    BY DEF IInv, TypeOK, CallInv
<1>2. conn[on[i]] \in Connections
    BY <1>1 DEF IInv, TypeOK
<1>3. stage[i] \in Making => conn[on[i]].phase \in {"transport", "handshake"}
    BY DEF IInv, CallInv, Making
<1>4. stage[i] \in Making => unread[on[i]] = {}
    BY <1>1, <1>3 DEF IInv, UnreadInv
<1>5. ASSUME stage[i] \in Making, NEW j \in Calls, j # i PROVE on[j] # on[i]
    BY <1>1, <1>3, <1>5, HttpClientAssumption DEF IInv, ExclusiveInv
<1> QED BY <1>1, <1>2, <1>3, <1>4, <1>5

\* What was sent stays as it was while the call, its connection's protocol and the
\* Builder's settings do.
LEMMA WireKept ==
    ASSUME WireInv, UNCHANGED <<config, wire>>,
           \A j \in Calls : stage'[j] = "sent" =>
              /\ stage[j] = "sent" /\ req'[j] = req[j]
              /\ conn'[on'[j]].proto = conn[on[j]].proto
    PROVE  WireInv'
<1>1. \A p, r : OnWire(p, r)' = OnWire(p, r)
    BY DEF OnWire, Executor, send_request
<1> QED BY <1>1 DEF WireInv

\* The call i resolves; a connection it was making is closed.
Ends(i, a) ==
    /\ stage[i] # "idle"
    /\ Resolve(i, a)
    /\ \/ conn' = conn
       \/ stage[i] \in Making /\ conn' = [conn EXCEPT ![on[i]].phase = "closed"]
    /\ UNCHANGED <<config, req, wire, unread, hops, origin, asserts>>

\* Every way in which a call ends.
LEMMA EndsIInv ==
    ASSUME IInv, NEW i \in Calls, NEW a \in Answers, Ends(i, a)
    PROVE  IInv'
<1>1. /\ stage' = [stage EXCEPT ![i] = "done"] /\ answer' = [answer EXCEPT ![i] = a]
      /\ on' = [on EXCEPT ![i] = NoConn] /\ stage[i] # "idle"
      /\ UNCHANGED <<config, req, wire, unread, hops, origin, asserts>>
    BY DEF Ends, Resolve
<1>2. /\ stage'[i] = "done" /\ on'[i] = NoConn
      /\ \A j \in Calls : j # i => stage'[j] = stage[j] /\ on'[j] = on[j]
    BY <1>1 DEF IInv, TypeOK
<1>3. /\ conn' \in [Conns -> Connections]
      /\ \A c \in Conns : SameConn(conn'[c], conn[c])
      /\ \A c \in Conns : \/ conn'[c].phase = conn[c].phase
                          \/ stage[i] \in Making /\ c = on[i] /\ conn'[c].phase = "closed"
    <2>1. CASE conn' = conn
        BY <2>1 DEF IInv, TypeOK, SameConn
    <2>2. CASE stage[i] \in Making /\ conn' = [conn EXCEPT ![on[i]].phase = "closed"]
        <3>1. on[i] \in Conns
            BY <2>2, UsingFacts DEF Using
        <3> QED BY <2>2, <3>1, PhaseFacts DEF IInv, Phases
    <2> QED BY <2>1, <2>2 DEF Ends
<1>4. ASSUME NEW j \in Calls, j # i, on[j] \in Conns
      PROVE  conn'[on[j]].phase = conn[on[j]].phase
    BY <1>3, <1>4, UsingFacts DEF Using
<1>5. TypeOK'
    <2>1. stage' \in [Calls -> Active \cup {"idle", "done"}] /\ on' \in [Calls -> Conns \cup {NoConn}]
        BY <1>1 DEF IInv, TypeOK
    <2>2. answer' \in [Calls -> Answers]
        BY <1>1 DEF IInv, TypeOK, Answers
    <2> QED BY <1>1, <1>3, <2>1, <2>2 DEF IInv, TypeOK, Answers
<1>6. RequestInv'
    BY <1>1, <1>2 DEF IInv, RequestInv
<1>7. OpenerInv'
    <2>1. \A c \in Conns : conn'[c].phase # "free" => conn[c].phase # "free"
        BY <1>3, UsingFacts DEF Using
    <2> QED BY <1>1, <1>3, <2>1 DEF IInv, OpenerInv, SameConn, UsesTls
<1>8. CallInv'
    <2>1. ASSUME NEW j \in Calls, j # i, stage[j] \in Using
          PROVE  on[j] \in Conns /\ conn'[on[j]].key = conn[on[j]].key
                 /\ conn'[on[j]].phase = conn[on[j]].phase
        BY <1>3, <1>4, <2>1, UsingFacts DEF SameConn
    <2> QED BY <1>1, <1>2, <2>1 DEF IInv, CallInv, Using, Making
<1>9. ExclusiveInv'
    <2>1. SUFFICES ASSUME NEW j \in Calls, NEW k \in Calls, j # k, on'[j] = on'[k],
                          on'[j] # NoConn
                   PROVE  conn'[on'[j]].proto = "Http2" /\ conn'[on'[j]].phase \in {"open", "closed"}
        BY DEF ExclusiveInv
    <2>2. j # i /\ k # i /\ on'[j] = on[j] /\ on'[k] = on[k] /\ on[j] \in Conns
        BY <1>2, <2>1 DEF IInv, TypeOK
    <2>3. conn[on[j]].proto = "Http2" /\ conn[on[j]].phase \in {"open", "closed"}
        BY <2>1, <2>2 DEF IInv, ExclusiveInv
    <2> QED BY <1>3, <1>4, <2>2, <2>3 DEF SameConn
<1>10. UnreadInv'
    <2>1. ASSUME NEW c \in Conns
          PROVE  /\ conn'[c].phase \in {"free", "transport", "handshake"} => unread[c] = {}
                 /\ conn'[c].proto = "Http1" => \A x, y \in unread[c] : x = y
        BY <1>3 DEF IInv, UnreadInv, SameConn
    <2>2. ASSUME NEW j \in Calls, stage'[j] = "ready", conn'[on'[j]].proto = "Http1"
          PROVE  unread[on'[j]] = {}
        <3>1. j # i /\ on'[j] = on[j] /\ stage[j] = "ready"
            BY <1>2, <2>2
        <3>2. on[j] \in Conns
            BY <3>1, UsingFacts DEF Using
        <3> QED BY <1>3, <2>2, <3>1, <3>2 DEF IInv, UnreadInv, SameConn
    <2> QED BY <1>1, <2>1, <2>2 DEF UnreadInv
<1>11. WireInv'
    <2>1. ASSUME NEW j \in Calls, stage'[j] = "sent"
          PROVE  stage[j] = "sent" /\ conn'[on'[j]].proto = conn[on[j]].proto
        <3>1. j # i /\ on'[j] = on[j] /\ stage[j] = "sent"
            BY <1>2, <2>1
        <3>2. on[j] \in Conns
            BY <3>1, UsingFacts DEF Using
        <3> QED BY <1>3, <3>1, <3>2 DEF SameConn
    <2> QED BY <1>1, <2>1, WireKept DEF IInv
<1> QED BY <1>5, <1>6, <1>7, <1>8, <1>9, <1>10, <1>11 DEF IInv

\* A request as RequestInv wants it, for the caller's request o.
RequestOK(r, o) ==
    /\ r \in Requests /\ WellFormed(r) /\ BodyOK(r.body)
    /\ o \in Requests
    /\ r.method = "POST" => r.body.data = o.body.data

\* A call in stage s with request r on a connection k, as CallInv wants it.
CallOK(s, r, k) ==
    /\ k.key = build_key(r)
    /\ s \in {"resolving", "connecting"} => k.phase = "transport"
    /\ s = "handshaking" => k.phase = "handshake"
    /\ s \in {"ready", "sent"} => k.phase \in {"open", "closed"}

\* A step of the call i that leaves the connections alone and does not send.
LEMMA CallStep ==
    ASSUME IInv, TypeOK', NEW i \in Calls, UNCHANGED <<config, conn, unread, wire>>,
           \A j \in Calls : j # i => /\ stage'[j] = stage[j] /\ on'[j] = on[j]
                                     /\ req'[j] = req[j] /\ origin'[j] = origin[j],
           stage'[i] \notin {"idle", "sent"}, RequestOK(req'[i], origin'[i]),
           on'[i] = NoConn <=> stage'[i] \notin Using,
           stage'[i] \in Using => CallOK(stage'[i], req'[i], conn[on'[i]]),
           on'[i] # NoConn =>
              \A j \in Calls : j # i /\ on[j] = on'[i] =>
                 conn[on'[i]].proto = "Http2" /\ conn[on'[i]].phase \in {"open", "closed"},
           stage'[i] = "ready" /\ conn[on'[i]].proto = "Http1" => unread[on'[i]] = {}
    PROVE  IInv'
<1>1. RequestInv'
    BY DEF IInv, RequestInv, RequestOK
<1>2. OpenerInv'
    BY DEF IInv, OpenerInv, UsesTls
<1>3. CallInv'
    <2>1. ASSUME NEW j \in Calls, j # i
          PROVE  /\ on'[j] = NoConn <=> stage'[j] \notin Using
                 /\ stage'[j] \in Using => CallOK(stage'[j], req'[j], conn'[on'[j]])
        BY <2>1 DEF IInv, CallInv, CallOK
    <2>2. \A j \in Calls :
             /\ on'[j] = NoConn <=> stage'[j] \notin Using
             /\ stage'[j] \in Using => CallOK(stage'[j], req'[j], conn'[on'[j]])
        BY <2>1
    <2> QED BY <2>2 DEF CallInv, CallOK, Using, Making
<1>4. ExclusiveInv'
    <2>1. SUFFICES ASSUME NEW j \in Calls, NEW k \in Calls, j # k, on'[j] = on'[k],
                          on'[j] # NoConn
                   PROVE  conn[on'[j]].proto = "Http2" /\ conn[on'[j]].phase \in {"open", "closed"}
        BY DEF ExclusiveInv
    <2>2. CASE j = i
        BY <2>1, <2>2
    <2>3. CASE k = i
        BY <2>1, <2>3
    <2>4. CASE j # i /\ k # i
        BY <2>1, <2>4 DEF IInv, ExclusiveInv
    <2> QED BY <2>2, <2>3, <2>4
<1>5. UnreadInv'
    <2>1. ASSUME NEW j \in Calls, stage'[j] = "ready", conn[on'[j]].proto = "Http1"
          PROVE  unread[on'[j]] = {}
        <3>1. CASE j = i
            BY <2>1, <3>1
        <3>2. CASE j # i
            BY <2>1, <3>2 DEF IInv, UnreadInv
        <3> QED BY <3>1, <3>2
    <2> QED BY <2>1 DEF IInv, UnreadInv
<1>6. WireInv'
    <2>1. ASSUME NEW j \in Calls, stage'[j] = "sent"
          PROVE  stage[j] = "sent" /\ req'[j] = req[j] /\ on'[j] = on[j]
        BY <2>1
    <2> QED BY <2>1, WireKept DEF IInv
<1> QED BY <1>1, <1>2, <1>3, <1>4, <1>5, <1>6 DEF IInv

\* A step of the call i that makes the connection c and does not send.
LEMMA ConnStep ==
    ASSUME IInv, TypeOK', NEW i \in Calls, NEW c \in Conns,
           UNCHANGED <<config, unread, wire, req, origin>>,
           \A j \in Calls : j # i => stage'[j] = stage[j] /\ on'[j] = on[j] /\ on[j] # c,
           \A d \in Conns : d # c => conn'[d] = conn[d],
           stage[i] # "idle", on'[i] = c, stage'[i] \in Using \ {"sent"},
           CallOK(stage'[i], req[i], conn'[c]), unread[c] = {},
           /\ conn'[c].opener \in Requests /\ WellFormed(conn'[c].opener)
           /\ conn'[c].key = build_key(conn'[c].opener)
           /\ conn'[c].tls = UsesTls(conn'[c].opener)
           /\ conn'[c].name = get_tls_domain(conn'[c].opener)
           /\ config.protocol # "Auto" => conn'[c].proto = config.protocol
    PROVE  IInv'
<1>0. c # NoConn
    BY HttpClientAssumption
<1>a. ASSUME NEW j \in Calls, j # i, stage[j] \in Using
      PROVE  on[j] \in Conns /\ on'[j] = on[j] /\ conn'[on[j]] = conn[on[j]]
    BY <1>a, UsingFacts
<1>1. RequestInv'
    BY DEF IInv, RequestInv, Using, Making
<1>2. OpenerInv'
    BY DEF IInv, OpenerInv, UsesTls
<1>3. CallInv'
    <2>1. ASSUME NEW j \in Calls, j # i
          PROVE  /\ on'[j] = NoConn <=> stage'[j] \notin Using
                 /\ stage'[j] \in Using => CallOK(stage'[j], req'[j], conn'[on'[j]])
        BY <1>a, <2>1 DEF IInv, CallInv, CallOK
    <2>2. \A j \in Calls :
             /\ on'[j] = NoConn <=> stage'[j] \notin Using
             /\ stage'[j] \in Using => CallOK(stage'[j], req'[j], conn'[on'[j]])
        BY <1>0, <2>1
    <2> QED BY <2>2 DEF CallInv, CallOK, Using, Making
<1>4. ExclusiveInv'
    <2>1. SUFFICES ASSUME NEW j \in Calls, NEW k \in Calls, j # k, on'[j] = on'[k],
                          on'[j] # NoConn
                   PROVE  /\ conn'[on'[j]].proto = "Http2"
                          /\ conn'[on'[j]].phase \in {"open", "closed"}
        BY DEF ExclusiveInv
    <2>2. j # i /\ k # i /\ on'[j] = on[j] /\ on'[k] = on[k] /\ on[j] # c
        BY <2>1
    <2>3. on[j] \in Conns /\ conn'[on[j]] = conn[on[j]]
        BY <2>1, <2>2 DEF IInv, TypeOK
    <2>4. on[j] = on[k] /\ on[j] # NoConn
        BY <2>1, <2>2, Zenon
    <2>5. conn[on[j]].proto = "Http2" /\ conn[on[j]].phase \in {"open", "closed"}
        BY <2>1, <2>4, Zenon DEF IInv, ExclusiveInv
    <2> QED BY <2>2, <2>3, <2>5
<1>5. UnreadInv'
    <2>1. ASSUME NEW d \in Conns
          PROVE  /\ conn'[d].phase \in {"free", "transport", "handshake"} => unread[d] = {}
                 /\ conn'[d].proto = "Http1" => \A x, y \in unread[d] : x = y
        BY DEF IInv, UnreadInv
    <2>2. ASSUME NEW j \in Calls, stage'[j] = "ready", conn'[on'[j]].proto = "Http1"
          PROVE  unread[on'[j]] = {}
        <3>1. CASE j = i
            BY <3>1
        <3>2. CASE j # i
            BY <1>a, <2>2, <3>2 DEF IInv, UnreadInv, Using
        <3> QED BY <3>1, <3>2
    <2> QED BY <2>1, <2>2 DEF UnreadInv
<1>6. WireInv'
    <2>1. ASSUME NEW j \in Calls, stage'[j] = "sent"
          PROVE  stage[j] = "sent" /\ conn'[on'[j]] = conn[on[j]]
        <3>1. j # i
            BY <2>1
        <3> QED BY <1>a, <2>1, <3>1 DEF Using
    <2> QED BY <2>1, WireKept DEF IInv
<1> QED BY <1>1, <1>2, <1>3, <1>4, <1>5, <1>6 DEF IInv

\* Client::request takes up a call.
LEMMA RequestIInv ==
    ASSUME IInv, NEW i \in Calls, NEW t \in Templates, request(i, t)
    PROVE  IInv'
<1> DEFINE r == [t EXCEPT !.body = from(t.body)]
<1>1. /\ stage[i] = "idle" /\ req' = [req EXCEPT ![i] = r] /\ origin' = [origin EXCEPT ![i] = req'[i]]
      /\ stage' = [stage EXCEPT ![i] = "checkout"]
      /\ UNCHANGED <<config, on, wire, answer, conn, unread, hops, asserts>>
    BY DEF request
<1>2. t.body \in BodySources /\ (t.scheme # "none" => t.host # NoHost)
    BY HttpClientAssumption
<1>3. PICK b \in Bodies : b = from(t.body) /\ BodyOK(b)
    BY <1>2, FromFacts
<1>4. r \in Requests /\ r.scheme = t.scheme /\ r.host = t.host /\ r.body = b
    <2>1. [t EXCEPT !.body = b] \in Requests
        BY HttpClientAssumption
    <2>2. /\ DOMAIN [t EXCEPT !.body = b] = DOMAIN t
          /\ \A f \in DOMAIN t : [t EXCEPT !.body = b][f] = IF f = "body" THEN b ELSE t[f]
        OBVIOUS
    <2>3. {"scheme", "host", "body"} \subseteq DOMAIN [t EXCEPT !.body = b]
        BY <2>1 DEF Requests
    <2>4. /\ [t EXCEPT !.body = b]["scheme"] = t["scheme"]
          /\ [t EXCEPT !.body = b]["host"] = t["host"]
          /\ [t EXCEPT !.body = b]["body"] = b
        BY <2>2, <2>3
    <2> QED BY <1>3, <2>1, <2>4
<1> HIDE DEF r
<1>5. req'[i] = r /\ origin'[i] = r
    BY <1>1 DEF IInv, TypeOK
<1>6. RequestOK(r, r)
    BY <1>2, <1>3, <1>4 DEF RequestOK, WellFormed
<1>7. TypeOK'
    <2>1. /\ req' \in [Calls -> Requests \cup {NoRequest}]
          /\ origin' \in [Calls -> Requests \cup {NoRequest}]
          /\ stage' \in [Calls -> Active \cup {"idle", "done"}]
        BY <1>1, <1>4, <1>5 DEF IInv, TypeOK, Active
    <2> QED BY <1>1, <2>1 DEF IInv, TypeOK
<1>8. /\ stage'[i] = "checkout" /\ on'[i] = NoConn
      /\ \A j \in Calls : j # i => /\ stage'[j] = stage[j] /\ on'[j] = on[j]
                                   /\ req'[j] = req[j] /\ origin'[j] = origin[j]
    BY <1>1 DEF IInv, TypeOK, CallInv, Using, Making
<1>9. "checkout" \notin Using
    BY DEF Using, Making
<1> QED BY <1>1, <1>5, <1>6, <1>7, <1>8, <1>9, CallStep

\* The pool hands out a connection.
LEMMA ReuseIInv ==
    ASSUME IInv, NEW i \in Calls, NEW c \in Conns, Reuse(i, c)
    PROVE  IInv'
<1>1. /\ stage[i] = "checkout" /\ conn[c].key = build_key(req[i]) /\ is_open(c)
      /\ can_share(c) \/ \A j \in Calls : on[j] # c
      /\ on' = [on EXCEPT ![i] = c] /\ stage' = [stage EXCEPT ![i] = "ready"]
      /\ UNCHANGED <<config, req, wire, answer, conn, unread, hops, origin, asserts>>
    BY DEF Reuse
<1>2. conn[c].phase = "open" /\ (conn[c].proto = "Http1" => unread[c] = {})
    BY <1>1 DEF is_open
<1>3. (\E j \in Calls : on[j] = c) => conn[c].proto = "Http2"
    BY <1>1 DEF can_share
<1>4. /\ stage'[i] = "ready" /\ on'[i] = c /\ c # NoConn
      /\ \A j \in Calls : j # i => /\ stage'[j] = stage[j] /\ on'[j] = on[j]
                                   /\ req'[j] = req[j] /\ origin'[j] = origin[j]
    BY <1>1, HttpClientAssumption DEF IInv, TypeOK
<1>5. TypeOK'
    <2>1. /\ stage' \in [Calls -> Active \cup {"idle", "done"}]
          /\ on' \in [Calls -> Conns \cup {NoConn}]
        BY <1>1 DEF IInv, TypeOK, Active
    <2> QED BY <1>1, <2>1 DEF IInv, TypeOK
<1>6. RequestOK(req'[i], origin'[i])
    BY <1>1 DEF IInv, RequestInv, RequestOK
<1>7. CallOK("ready", req'[i], conn[c]) /\ "ready" \in Using
    BY <1>1, <1>2 DEF CallOK, Using
<1> QED BY <1>1, <1>2, <1>3, <1>4, <1>5, <1>6, <1>7, CallStep

\* The name is resolved.
LEMMA ResolvedIInv ==
    ASSUME IInv, NEW i \in Calls, Resolved(i)
    PROVE  IInv'
<1>1. /\ stage[i] = "resolving" /\ stage' = [stage EXCEPT ![i] = "connecting"]
      /\ UNCHANGED <<config, req, on, wire, answer, conn, unread, hops, origin, asserts>>
    BY DEF Resolved
<1>2. stage[i] \in Using /\ stage[i] \in Making /\ "connecting" \in Using
    BY <1>1 DEF Using, Making
<1>3. on[i] \in Conns /\ on[i] # NoConn /\ \A j \in Calls : j # i => on[j] # on[i]
    BY <1>2, UsingFacts, HttpClientAssumption
<1>4. /\ stage'[i] = "connecting" /\ on'[i] = on[i]
      /\ \A j \in Calls : j # i => /\ stage'[j] = stage[j] /\ on'[j] = on[j]
                                   /\ req'[j] = req[j] /\ origin'[j] = origin[j]
    BY <1>1 DEF IInv, TypeOK
<1>5. TypeOK'
    <2>1. stage' \in [Calls -> Active \cup {"idle", "done"}]
        BY <1>1 DEF IInv, TypeOK, Active
    <2> QED BY <1>1, <2>1 DEF IInv, TypeOK
<1>6. RequestOK(req'[i], origin'[i])
    BY <1>1 DEF IInv, RequestInv, RequestOK
<1>7. CallOK("connecting", req'[i], conn[on[i]])
    BY <1>1, <1>2 DEF IInv, CallInv, CallOK
<1> QED BY <1>1, <1>2, <1>3, <1>4, <1>5, <1>6, <1>7, CallStep

\* The redirect layer sends the request again.
LEMMA RedirectIInv ==
    ASSUME IInv, NEW i \in Calls, NEW status, NEW l \in Locations,
           FollowRedirect(i, status, l)
    PROVE  IInv'
<1> DEFINE r == req[i]
           get == BecomesGet(status, r)
<1>1. /\ stage[i] = "sent" /\ hops[i] < MaxRedirects /\ (get \/ size_hint(r.body))
      /\ hops' = [hops EXCEPT ![i] = @ + 1] /\ stage' = [stage EXCEPT ![i] = "checkout"]
      /\ on' = [on EXCEPT ![i] = NoConn]
      /\ UNCHANGED <<config, wire, answer, conn, unread, origin, asserts>>
    BY DEF FollowRedirect
<1>2. PICK header \in {r.hostHeader, NoHost}, socket \in {r.socket, NoSocket} :
          req' = [req EXCEPT ![i] = [r EXCEPT !.scheme = l.scheme, !.host = l.host,
                                              !.port = l.port,
                                              !.method = IF get THEN "GET" ELSE @,
                                              !.hostHeader = header, !.socket = socket,
                                              !.body = empty]]
    BY DEF FollowRedirect
<1>3. /\ r \in Requests /\ BodyOK(r.body) /\ origin[i] \in Requests
      /\ r.method = "POST" => r.body.data = origin[i].body.data
    BY <1>1 DEF IInv, RequestInv
<1>4. PICK m \in {"GET", "POST", "CONNECT"} :
          m = (IF get THEN "GET" ELSE r.method)
    BY <1>3 DEF Requests
<1>5. PICK b \in Bodies : b = empty /\ BodyOK(b) /\ ~b.data
    BY EmptyFacts
<1> DEFINE n == [r EXCEPT !.scheme = l.scheme, !.host = l.host, !.port = l.port, !.method = m,
                          !.hostHeader = header, !.socket = socket, !.body = b]
<1>6. /\ l.scheme \in Schemes /\ l.host \in Hosts /\ l.port \in Ports
    BY HttpClientAssumption
<1>7. /\ n \in Requests /\ n.host = l.host /\ n.method = m /\ n.body = b
    BY <1>3, <1>6 DEF Requests
<1>8. req' = [req EXCEPT ![i] = n]
    BY <1>2, <1>4, <1>5
<1> HIDE DEF n, get
<1>9. RequestOK(n, origin[i])
    <2>1. WellFormed(n)
        BY <1>6, <1>7, HttpClientAssumption DEF WellFormed
    <2>2. ASSUME m = "POST" PROVE b.data = origin[i].body.data
        <3>1. r.method = "POST" /\ size_hint(r.body)
            BY <1>1, <1>4, <2>2
        <3>2. ~r.body.data
            BY <1>3, <3>1 DEF size_hint, BodyOK
        <3>3. r.body.data \in BOOLEAN /\ b.data \in BOOLEAN
            BY <1>3 DEF Requests, Bodies
        <3> QED BY <1>3, <1>5, <3>1, <3>2, <3>3, Zenon
    <2> QED BY <1>3, <1>5, <1>7, <2>1, <2>2 DEF RequestOK
<1>10. /\ stage'[i] = "checkout" /\ on'[i] = NoConn /\ req'[i] = n
       /\ \A j \in Calls : j # i => /\ stage'[j] = stage[j] /\ on'[j] = on[j]
                                    /\ req'[j] = req[j] /\ origin'[j] = origin[j]
    BY <1>1, <1>8 DEF IInv, TypeOK
<1>11. TypeOK'
    <2>1. /\ req' \in [Calls -> Requests \cup {NoRequest}]
          /\ on' \in [Calls -> Conns \cup {NoConn}]
        BY <1>1, <1>7, <1>8 DEF IInv, TypeOK
    <2>2. stage' \in [Calls -> Active \cup {"idle", "done"}]
        BY <1>1 DEF IInv, TypeOK, Active
    <2>3. hops' \in [Calls -> 0..MaxRedirects]
        <3>1. hops[i] + 1 \in 0..MaxRedirects
            BY <1>1, HttpClientAssumption DEF IInv, TypeOK
        <3> QED BY <1>1, <3>1 DEF IInv, TypeOK
    <2> QED BY <1>1, <2>1, <2>2, <2>3 DEF IInv, TypeOK
<1>12. "checkout" \notin Using
    BY DEF Using, Making
<1> QED BY <1>1, <1>9, <1>10, <1>11, <1>12, CallStep

\* The protocol that ALPN, or the Builder, chooses.
LEMMA ProtocolFacts ==
    ASSUME config \in Configs, NEW alpn
    PROVE  /\ Protocol(alpn) \in {"Http1", "Http2"}
           /\ config.protocol # "Auto" => Protocol(alpn) = config.protocol
    BY DEF Configs, Protocol, AlpnHttpConnectionBuilder, handshake, initial_protocol,
           Http1Builder, Http2Builder

\* A connection is started for a call.
LEMMA ConnectIInv ==
    ASSUME IInv, NEW i \in Calls, NEW c \in Conns, Connect(i, c)
    PROVE  IInv'
<1> DEFINE o == req[i]
           p == Protocol("none")
           k == [phase |-> "transport", key |-> build_key(o), tls |-> UsesTls(o),
                 name |-> get_tls_domain(o), socket |-> UnixExtensionTransport(o),
                 proto |-> p, opener |-> o]
           s == IF config.transport = "Tcp" THEN "resolving" ELSE "connecting"
<1>1. /\ stage[i] = "checkout" /\ conn[c].phase = "free"
      /\ conn' = [conn EXCEPT ![c] = k] /\ on' = [on EXCEPT ![i] = c]
      /\ stage' = [stage EXCEPT ![i] = s]
      /\ UNCHANGED <<config, req, wire, answer, unread, hops, origin, asserts>>
    BY DEF Connect
<1>2. o \in Requests /\ WellFormed(o) /\ o.socket \in Sockets \cup {NoSocket}
    BY <1>1 DEF IInv, RequestInv, Requests
<1>3. /\ p \in {"Http1", "Http2"} /\ (config.protocol # "Auto" => p = config.protocol)
    BY ProtocolFacts DEF IInv, TypeOK
<1>4. /\ build_key(o) \in Schemes \X (Hosts \cup {NoHost}) \X Ports
      /\ get_tls_domain(o) \in HostValues \cup {NoHost} /\ UsesTls(o) \in BOOLEAN
    BY <1>2, KeyType
<1>5. PICK key \in Schemes \X (Hosts \cup {NoHost}) \X Ports, tls \in BOOLEAN,
           name \in HostValues \cup {NoHost} :
              key = build_key(o) /\ tls = UsesTls(o) /\ name = get_tls_domain(o)
    BY <1>4, Zenon
<1>6. k = [phase |-> "transport", key |-> key, tls |-> tls, name |-> name,
           socket |-> o.socket, proto |-> p, opener |-> o]
    BY <1>5 DEF UnixExtensionTransport
<1> HIDE DEF k, o, p, s
<1>7. /\ k \in Connections /\ k.phase = "transport" /\ k.key = key /\ k.tls = tls
      /\ k.name = name /\ k.proto = p /\ k.opener = o
    BY <1>2, <1>3, <1>6 DEF Connections
<1>8. /\ conn' \in [Conns -> Connections] /\ conn'[c] = k
      /\ \A d \in Conns : d # c => conn'[d] = conn[d]
    BY <1>1, <1>7 DEF IInv, TypeOK
<1>9. s \in {"resolving", "connecting"} /\ s \in Active /\ s \in Using \ {"sent"}
    BY DEF s, Active, Using, Making
<1>10. /\ stage'[i] = s /\ on'[i] = c
       /\ \A j \in Calls : j # i => stage'[j] = stage[j] /\ on'[j] = on[j]
    BY <1>1 DEF IInv, TypeOK
<1>11. \A j \in Calls : on[j] # c
    <2> SUFFICES ASSUME NEW j \in Calls, on[j] = c PROVE FALSE
        OBVIOUS
    <2>1. stage[j] \in Using
        BY HttpClientAssumption DEF IInv, CallInv
    <2>2. conn[c].phase # "free"
        BY <2>1 DEF IInv, CallInv, Using, Making
    <2> QED BY <1>1, <2>2
<1>12. TypeOK'
    <2>1. /\ stage' \in [Calls -> Active \cup {"idle", "done"}]
          /\ on' \in [Calls -> Conns \cup {NoConn}]
        BY <1>1, <1>9 DEF IInv, TypeOK
    <2> QED BY <1>1, <1>8, <2>1 DEF IInv, TypeOK
<1>13. CallOK(s, req[i], conn'[c])
    BY <1>5, <1>7, <1>8, <1>9 DEF CallOK, o
<1>14. unread[c] = {}
    BY <1>1 DEF IInv, UnreadInv
<1>15. /\ conn'[c].opener \in Requests /\ WellFormed(conn'[c].opener)
       /\ conn'[c].key = build_key(conn'[c].opener)
       /\ conn'[c].tls = UsesTls(conn'[c].opener)
       /\ conn'[c].name = get_tls_domain(conn'[c].opener)
       /\ config.protocol # "Auto" => conn'[c].proto = config.protocol
    BY <1>2, <1>3, <1>5, <1>7, <1>8
<1> QED BY <1>1, <1>8, <1>9, <1>10, <1>11, <1>12, <1>13, <1>14, <1>15, ConnStep

\* The transport is connected, or the HTTP handshake is done.
LEMMA MadeIInv ==
    ASSUME IInv, NEW i \in Calls, Connected(i) \/ Handshaken(i)
    PROVE  IInv'
<1>1. /\ stage[i] \in {"connecting", "handshaking"}
      /\ UNCHANGED <<config, req, on, wire, answer, unread, hops, origin, asserts>>
    BY DEF Connected, Handshaken
<1>2. stage[i] \in Using /\ stage[i] \in Making
    BY <1>1 DEF Using, Making
<1>3. PICK c \in Conns : c = on[i]
    BY <1>2, UsingFacts
<1>4. /\ conn \in [Conns -> Connections] /\ conn[c] \in Connections /\ unread[c] = {}
      /\ conn[c].phase # "free" /\ conn[c].key = build_key(req[i])
      /\ \A j \in Calls : j # i => on[j] # c
    BY <1>2, <1>3, UsingFacts DEF IInv, TypeOK, CallInv
<1>5. /\ conn[c].opener \in Requests /\ WellFormed(conn[c].opener)
      /\ conn[c].key = build_key(conn[c].opener)
      /\ conn[c].tls = UsesTls(conn[c].opener)
      /\ conn[c].name = get_tls_domain(conn[c].opener)
      /\ config.protocol # "Auto" => conn[c].proto = config.protocol
    BY <1>4 DEF IInv, OpenerInv
<1>6. PICK s \in {"handshaking", "ready"}, f \in {"handshake", "open"}, p \in {"Http1", "Http2"} :
        /\ stage' = [stage EXCEPT ![i] = s]
        /\ conn' = [conn EXCEPT ![c] = [conn[c] EXCEPT !.phase = f, !.proto = p]]
        /\ s = "handshaking" => f = "handshake"
        /\ s = "ready" => f = "open"
        /\ config.protocol # "Auto" => p = config.protocol
    <2>1. CASE Connected(i)
        <3>1. PICK alpn \in {"h2", "http/1.1", "none"} :
                  conn' = [conn EXCEPT ![on[i]].phase = "handshake",
                                       ![on[i]].proto = Protocol(tls_info(on[i], alpn))]
            BY <2>1 DEF Connected
        <3>2. PICK p \in {"Http1", "Http2"} : /\ p = Protocol(tls_info(on[i], alpn))
                                              /\ config.protocol # "Auto" => p = config.protocol
            BY ProtocolFacts DEF IInv, TypeOK
        <3>3. conn' = [conn EXCEPT ![c] = [conn[c] EXCEPT !.phase = "handshake", !.proto = p]]
            BY <1>3, <1>4, <3>1, <3>2
        <3>4. stage' = [stage EXCEPT ![i] = "handshaking"]
            BY <2>1 DEF Connected
        <3> QED BY <3>2, <3>3, <3>4
    <2>2. CASE Handshaken(i)
        <3>1. /\ conn' = [conn EXCEPT ![c].phase = "open"]
              /\ stage' = [stage EXCEPT ![i] = "ready"]
            BY <1>3, <2>2 DEF Handshaken
        <3>2. PICK p \in {"Http1", "Http2"} : p = conn[c].proto
            BY <1>4 DEF Connections
        <3>3. [conn[c] EXCEPT !.phase = "open"] = [conn[c] EXCEPT !.phase = "open", !.proto = p]
            BY <1>4, <3>2 DEF Connections
        <3>4. conn' = [conn EXCEPT ![c] = [conn[c] EXCEPT !.phase = "open", !.proto = p]]
            BY <1>4, <3>1, <3>3
        <3> QED BY <1>5, <3>1, <3>2, <3>4
    <2> QED BY <2>1, <2>2
<1> DEFINE k == [conn[c] EXCEPT !.phase = f, !.proto = p]
<1>7. /\ k \in Connections /\ k.phase = f /\ k.proto = p /\ k.opener = conn[c].opener
      /\ k.key = conn[c].key /\ k.tls = conn[c].tls /\ k.name = conn[c].name
    BY <1>4 DEF Connections
<1> HIDE DEF k
<1>8. /\ conn' \in [Conns -> Connections] /\ conn'[c] = k
      /\ \A d \in Conns : d # c => conn'[d] = conn[d]
    BY <1>4, <1>6, <1>7 DEF k
<1>9. s \in Active /\ s \in Using \ {"sent"}
    BY DEF Active, Using, Making
<1>10. /\ stage'[i] = s /\ on'[i] = c /\ stage[i] # "idle"
       /\ \A j \in Calls : j # i => stage'[j] = stage[j] /\ on'[j] = on[j]
    BY <1>1, <1>3, <1>6 DEF IInv, TypeOK
<1>11. TypeOK'
    <2>1. stage' \in [Calls -> Active \cup {"idle", "done"}]
        BY <1>6, <1>9 DEF IInv, TypeOK
    <2> QED BY <1>1, <1>8, <2>1 DEF IInv, TypeOK
<1>12. CallOK(s, req[i], conn'[c])
    BY <1>4, <1>6, <1>7, <1>8 DEF CallOK
<1>13. /\ conn'[c].opener \in Requests /\ WellFormed(conn'[c].opener)
       /\ conn'[c].key = build_key(conn'[c].opener)
       /\ conn'[c].tls = UsesTls(conn'[c].opener)
       /\ conn'[c].name = get_tls_domain(conn'[c].opener)
       /\ config.protocol # "Auto" => conn'[c].proto = config.protocol
    BY <1>5, <1>6, <1>7, <1>8
<1> QED BY <1>1, <1>4, <1>8, <1>9, <1>10, <1>11, <1>12, <1>13, ConnStep

\* The steps that touch neither a connection nor what calls ask for, and keep the
\* calls that use a connection on it or let them go.
LEMMA Kept ==
    ASSUME IInv, UNCHANGED <<config, req, origin>>,
           conn' \in [Conns -> Connections],
           \A c \in Conns : SameConn(conn'[c], conn[c]),
           \A c \in Conns : conn'[c].phase = "free" <=> conn[c].phase = "free",
           \A j \in Calls : stage'[j] = "idle" <=> stage[j] = "idle"
    PROVE  RequestInv' /\ OpenerInv'
<1>1. RequestInv'
    BY DEF IInv, RequestInv
<1>2. OpenerInv'
    BY DEF IInv, OpenerInv, SameConn, UsesTls
<1> QED BY <1>1, <1>2

\* The executor hands the request to hyper.
LEMMA SendIInv ==
    ASSUME IInv, NEW i \in Calls, Send(i)
    PROVE  IInv'
<1> DEFINE c == on[i]
           refused == conn[c].proto = "Http2" /\ req[i].method = "CONNECT"
<1>1. stage[i] = "ready" /\ UNCHANGED <<config, req, conn, hops, origin>>
    BY DEF Send
<1>2. CASE Resolve(i, "Connection") /\ UNCHANGED <<wire, unread, asserts>>
    <2>1. Ends(i, "Connection")
        BY <1>1, <1>2 DEF Ends
    <2> QED BY <2>1, EndsIInv DEF Answers
<1>a. CASE Resolve(i, "Panicked") /\ UNCHANGED <<wire, unread, asserts>>
    <2>1. Ends(i, "Panicked")
        BY <1>1, <1>a DEF Ends
    <2> QED BY <2>1, EndsIInv DEF Answers
<1>3. CASE /\ ~refused /\ conn[c].phase = "open"
           /\ wire' = [wire EXCEPT ![i] = [Executor(conn[c].proto, req[i]) EXCEPT
                                              !.body = Transmitted(req[i].body)]]
           /\ unread' = [unread EXCEPT ![c] = @ \cup {i}]
           /\ stage' = [stage EXCEPT ![i] = "sent"]
           /\ asserts' = (asserts /\ ~NeedsAbsoluteForm(conn[c].proto, req[i]))
           /\ UNCHANGED <<on, answer>>
    <2>1. /\ c \in Conns /\ conn[c] \in Connections /\ conn[c].proto \in {"Http1", "Http2"}
        BY <1>1, UsingFacts DEF Using, Connections
    <2>2. /\ req[i] \in Requests /\ WellFormed(req[i]) /\ BodyOK(req[i].body)
          /\ config \in Configs /\ (config.protocol # "Auto" => config.protocol = conn[c].proto)
        BY <1>1, <1>3, <2>1 DEF IInv, TypeOK, RequestInv, OpenerInv
    <2> DEFINE w == OnWire(conn[c].proto, req[i])
    <2>3. w \in Requests
        BY <2>1, <2>2, OnWireHttp1, OnWireHttp2
    <2>4. wire' = [wire EXCEPT ![i] = w]
        BY <1>3 DEF OnWire
    <2> HIDE DEF w
    <2>5. /\ stage'[i] = "sent" /\ wire'[i] = w /\ unread'[c] = unread[c] \cup {i}
          /\ \A j \in Calls : j # i => stage'[j] = stage[j] /\ wire'[j] = wire[j]
          /\ \A d \in Conns : d # c => unread'[d] = unread[d]
        BY <1>3, <2>1, <2>4 DEF IInv, TypeOK
    <2>6. TypeOK'
        <3>1. /\ stage' \in [Calls -> Active \cup {"idle", "done"}]
              /\ wire' \in [Calls -> Requests \cup {NoRequest}]
              /\ unread' \in [Conns -> SUBSET Calls]
            BY <1>3, <2>1, <2>3, <2>4 DEF IInv, TypeOK, Active
        <3>2. asserts' \in BOOLEAN
            BY <1>3
        <3> QED BY <1>1, <1>3, <3>1, <3>2 DEF IInv, TypeOK
    <2>7. RequestInv' /\ OpenerInv'
        <3>1. \A j \in Calls : stage'[j] = "idle" <=> stage[j] = "idle"
            BY <1>1, <2>5
        <3>2. RequestInv'
            BY <1>1, <3>1 DEF IInv, RequestInv
        <3>3. OpenerInv'
            BY <1>1 DEF IInv, OpenerInv, UsesTls
        <3> QED BY <3>2, <3>3
    <2>8. CallInv'
        BY <1>1, <1>3, <2>5 DEF IInv, CallInv, Using, Making
    <2>9. ExclusiveInv'
        BY <1>1, <1>3 DEF IInv, ExclusiveInv
    <2>10. UnreadInv'
        <3>1. conn[c].proto = "Http1" => unread[c] = {}
            BY <1>1 DEF IInv, UnreadInv
        <3>2. ASSUME NEW d \in Conns
              PROVE  /\ conn[d].phase \in {"free", "transport", "handshake"} => unread'[d] = {}
                     /\ conn[d].proto = "Http1" => \A x, y \in unread'[d] : x = y
            <4>1. CASE d = c
                BY <1>3, <2>5, <3>1, <4>1
            <4>2. CASE d # c
                BY <2>5, <4>2 DEF IInv, UnreadInv
            <4> QED BY <4>1, <4>2
        <3>3. ASSUME NEW j \in Calls, stage'[j] = "ready", conn[on[j]].proto = "Http1"
              PROVE  unread'[on[j]] = {}
            <4>1. j # i /\ stage[j] = "ready"
                BY <2>5, <3>3
            <4>2. on[j] \in Conns /\ on[j] # NoConn
                BY <4>1, UsingFacts, HttpClientAssumption DEF Using
            <4>3. on[j] # c
                BY <3>3, <4>1, <4>2 DEF IInv, ExclusiveInv
            <4> QED BY <2>5, <3>3, <4>1, <4>2, <4>3 DEF IInv, UnreadInv
        <3> QED BY <1>1, <1>3, <3>2, <3>3 DEF UnreadInv
    <2>11. WireInv'
        <3>1. ASSUME NEW j \in Calls, stage'[j] = "sent"
              PROVE  /\ wire'[j] = OnWire(conn[on[j]].proto, req[j])
                     /\ ~(conn[on[j]].proto = "Http2" /\ req[j].method = "CONNECT")
            <4>1. CASE j = i
                BY <1>3, <2>5, <4>1 DEF w
            <4>2. CASE j # i
                BY <2>5, <3>1, <4>2 DEF IInv, WireInv
            <4> QED BY <4>1, <4>2
        <3> QED BY <1>1, <1>3, <3>1 DEF WireInv, OnWire, Executor, send_request
    <2> QED BY <2>6, <2>7, <2>8, <2>9, <2>10, <2>11 DEF IInv
<1> QED BY <1>2, <1>a, <1>3 DEF Send

\* hyper is done with a response.
LEMMA DrainedIInv ==
    ASSUME IInv, NEW i \in Calls, NEW c \in Conns, Drained(c, i)
    PROVE  IInv'
<1>1. /\ unread' = [unread EXCEPT ![c] = @ \ {i}]
      /\ UNCHANGED <<config, req, stage, on, wire, answer, conn, hops, origin, asserts>>
    BY DEF Drained
<1>2. /\ unread' \in [Conns -> SUBSET Calls]
      /\ \A d \in Conns : unread'[d] \subseteq unread[d]
    BY <1>1 DEF IInv, TypeOK
<1>3. TypeOK'
    BY <1>1, <1>2 DEF IInv, TypeOK
<1>4. RequestInv' /\ CallInv' /\ ExclusiveInv'
    BY <1>1 DEF IInv, RequestInv, CallInv, ExclusiveInv
<1>5. OpenerInv'
    BY <1>1 DEF IInv, OpenerInv, UsesTls
<1>6. UnreadInv'
    <2>1. ASSUME NEW d \in Conns
          PROVE  /\ conn[d].phase \in {"free", "transport", "handshake"} => unread'[d] = {}
                 /\ conn[d].proto = "Http1" => \A x, y \in unread'[d] : x = y
        BY <1>2 DEF IInv, UnreadInv
    <2>2. ASSUME NEW j \in Calls, stage[j] = "ready", conn[on[j]].proto = "Http1"
          PROVE  unread'[on[j]] = {}
        <3>1. on[j] \in Conns /\ unread[on[j]] = {}
            BY <2>2, UsingFacts DEF IInv, UnreadInv, Using
        <3> QED BY <1>2, <3>1
    <2> QED BY <1>1, <2>1, <2>2 DEF UnreadInv
<1>7. WireInv'
    BY <1>1, WireKept DEF IInv
<1> QED BY <1>3, <1>4, <1>5, <1>6, <1>7 DEF IInv

\* A connection breaks and the calls that wait on it fail.
LEMMA ClosedIInv ==
    ASSUME IInv, NEW c \in Conns, Closed(c)
    PROVE  IInv'
<1> DEFINE failing == {i \in Calls : on[i] = c /\ stage[i] = "sent"}
<1>1. /\ conn[c].phase = "open" /\ conn' = [conn EXCEPT ![c].phase = "closed"]
      /\ unread' = [unread EXCEPT ![c] = {}]
      /\ stage' = [i \in Calls |-> IF i \in failing THEN "done" ELSE stage[i]]
      /\ answer' = [i \in Calls |-> IF i \in failing THEN "Connection" ELSE answer[i]]
      /\ on' = [i \in Calls |-> IF i \in failing THEN NoConn ELSE on[i]]
      /\ UNCHANGED <<config, req, wire, hops, origin, asserts>>
    BY DEF Closed
<1>2. /\ \A i \in Calls : i \in failing => /\ stage[i] = "sent"
                                            /\ stage'[i] = "done" /\ on'[i] = NoConn
      /\ \A i \in Calls : i \notin failing => stage'[i] = stage[i] /\ on'[i] = on[i]
    BY <1>1
<1>3. /\ conn' \in [Conns -> Connections] /\ conn'[c].phase = "closed"
      /\ \A d \in Conns : d # c => conn'[d] = conn[d]
      /\ \A d \in Conns : SameConn(conn'[d], conn[d])
    BY <1>1, PhaseFacts DEF IInv, Phases
<1>4. /\ unread' \in [Conns -> SUBSET Calls] /\ unread'[c] = {}
      /\ \A d \in Conns : d # c => unread'[d] = unread[d]
    BY <1>1 DEF IInv, TypeOK
<1>5. TypeOK'
    <2>1. /\ stage' \in [Calls -> Active \cup {"idle", "done"}]
          /\ on' \in [Calls -> Conns \cup {NoConn}]
        BY <1>1 DEF IInv, TypeOK
    <2>2. answer' \in [Calls -> Answers]
        BY <1>1 DEF IInv, TypeOK, Answers
    <2> QED BY <1>1, <1>3, <1>4, <2>1, <2>2 DEF IInv, TypeOK, Answers
<1> HIDE DEF failing
<1>6. RequestInv' /\ OpenerInv'
    <2>1. \A d \in Conns : conn'[d].phase = "free" <=> conn[d].phase = "free"
        BY <1>1, <1>3
    <2>2. \A j \in Calls : stage'[j] = "idle" <=> stage[j] = "idle"
        BY <1>2
    <2> QED BY <1>1, <1>3, <2>1, <2>2, Kept
<1>7. ASSUME NEW j \in Calls, j \notin failing, stage[j] \in Using
      PROVE  /\ on[j] \in Conns /\ conn'[on[j]].key = conn[on[j]].key
             /\ conn'[on[j]].proto = conn[on[j]].proto
             /\ \/ conn'[on[j]].phase = conn[on[j]].phase
                \/ conn[on[j]].phase = "open" /\ conn'[on[j]].phase = "closed"
    <2>1. on[j] \in Conns
        BY <1>7, UsingFacts
    <2> QED BY <1>1, <1>3, <2>1 DEF SameConn
<1>8. CallInv'
    <2>1. ASSUME NEW j \in Calls, j \in failing
          PROVE  on'[j] = NoConn /\ stage'[j] = "done" /\ stage'[j] \notin Using
        BY <1>2, <2>1 DEF Using, Making
    <2>2. ASSUME NEW j \in Calls, j \notin failing
          PROVE  /\ on'[j] = NoConn <=> stage'[j] \notin Using
                 /\ stage'[j] \in Using => CallOK(stage'[j], req[j], conn'[on'[j]])
        <3>1. on'[j] = on[j] /\ stage'[j] = stage[j]
            BY <1>2, <2>2
        <3>2. on[j] = NoConn <=> stage[j] \notin Using
            BY DEF IInv, CallInv
        <3>3. ASSUME stage[j] \in Using PROVE CallOK(stage[j], req[j], conn'[on[j]])
            <4>1. CallOK(stage[j], req[j], conn[on[j]])
                BY <3>3 DEF IInv, CallInv, CallOK
            <4> QED BY <1>7, <2>2, <3>3, <4>1 DEF CallOK
        <3> QED BY <3>1, <3>2, <3>3
    <2>3. \A j \in Calls :
             /\ on'[j] = NoConn <=> stage'[j] \notin Using
             /\ stage'[j] \in Using => CallOK(stage'[j], req'[j], conn'[on'[j]])
        BY <1>1, <2>1, <2>2
    <2> QED BY <2>3 DEF CallInv, CallOK, Using, Making
<1>9. ExclusiveInv'
    <2>1. SUFFICES ASSUME NEW j \in Calls, NEW k \in Calls, j # k, on'[j] = on'[k],
                          on'[j] # NoConn
                   PROVE  /\ conn'[on'[j]].proto = "Http2"
                          /\ conn'[on'[j]].phase \in {"open", "closed"}
        BY DEF ExclusiveInv
    <2>2. /\ j \notin failing /\ k \notin failing
          /\ on'[j] = on[j] /\ on'[k] = on[k]
        BY <1>2, <2>1
    <2>3. conn[on[j]].proto = "Http2" /\ conn[on[j]].phase \in {"open", "closed"}
        BY <2>1, <2>2 DEF IInv, ExclusiveInv
    <2>4. stage[j] \in Using
        BY <2>1, <2>2 DEF IInv, CallInv
    <2> QED BY <1>7, <2>2, <2>3, <2>4
<1>10. UnreadInv'
    <2>1. ASSUME NEW d \in Conns
          PROVE  /\ conn'[d].phase \in {"free", "transport", "handshake"} => unread'[d] = {}
                 /\ conn'[d].proto = "Http1" => \A x, y \in unread'[d] : x = y
        <3>1. CASE d = c
            BY <1>4, <3>1
        <3>2. CASE d # c
            BY <1>3, <1>4, <3>2 DEF IInv, UnreadInv
        <3> QED BY <3>1, <3>2
    <2>2. ASSUME NEW j \in Calls, stage'[j] = "ready", conn'[on'[j]].proto = "Http1"
          PROVE  unread'[on'[j]] = {}
        <3>1. j \notin failing /\ stage[j] = "ready" /\ on'[j] = on[j]
            BY <1>2, <2>2
        <3>2. on[j] \in Conns /\ conn[on[j]].proto = "Http1"
            BY <1>7, <2>2, <3>1 DEF Using
        <3>3. unread[on[j]] = {}
            BY <3>1, <3>2 DEF IInv, UnreadInv
        <3> QED BY <1>4, <3>1, <3>2, <3>3
    <2> QED BY <2>1, <2>2 DEF UnreadInv
<1>11. WireInv'
    <2>1. ASSUME NEW j \in Calls, stage'[j] = "sent"
          PROVE  stage[j] = "sent" /\ conn'[on'[j]].proto = conn[on[j]].proto
        <3>1. j \notin failing /\ stage[j] = "sent" /\ on'[j] = on[j]
            BY <1>2, <2>1
        <3> QED BY <1>7, <3>1 DEF Using
    <2> QED BY <1>1, <2>1, WireKept DEF IInv
<1> QED BY <1>5, <1>6, <1>8, <1>9, <1>10, <1>11 DEF IInv

-----------------------------------------------------------------------------
(* The theorems. *)

\* A client that was just built.
LEMMA InitIInv == Init => IInv
<1> SUFFICES ASSUME Init PROVE IInv
    OBVIOUS
<1>1. /\ config \in Builders /\ req = [i \in Calls |-> NoRequest]
      /\ stage = [i \in Calls |-> "idle"] /\ on = [i \in Calls |-> NoConn]
      /\ wire = [i \in Calls |-> NoRequest] /\ answer = [i \in Calls |-> "None"]
      /\ conn = [c \in Conns |-> FreeConn] /\ unread = [c \in Conns |-> {}]
      /\ hops = [i \in Calls |-> 0] /\ origin = [i \in Calls |-> NoRequest]
      /\ asserts = TRUE
    BY DEF Init
<1>2. FreeConn \in Connections /\ FreeConn.phase = "free"
    <2>1. PICK no \in BOOLEAN : no = FALSE
        OBVIOUS
    <2>2. PICK key \in Schemes \X (Hosts \cup {NoHost}) \X Ports : key = NoKey
        BY DEF NoKey, Schemes, Ports
    <2>3. FreeConn = [phase |-> "free", key |-> key, tls |-> no, name |-> NoHost,
                      socket |-> NoSocket, proto |-> "Http1", opener |-> NoRequest]
        BY <2>1, <2>2 DEF FreeConn
    <2> QED BY <2>3 DEF Connections
<1>3. \A c \in Conns : conn[c] \in Connections /\ conn[c].phase = "free" /\ unread[c] = {}
    BY <1>1, <1>2
<1>4. \A i \in Calls : stage[i] = "idle" /\ on[i] = NoConn
    BY <1>1
<1>5. TypeOK
    <2>1. conn \in [Conns -> Connections]
        BY <1>1, <1>2
    <2>2. config \in Configs /\ hops \in [Calls -> 0..MaxRedirects]
        BY <1>1, HttpClientAssumption
    <2>3. unread \in [Conns -> SUBSET Calls]
        BY <1>1
    <2>4. asserts \in BOOLEAN
        BY <1>1
    <2> QED BY <1>1, <2>1, <2>2, <2>3, <2>4 DEF TypeOK
<1>6. RequestInv /\ WireInv /\ CallInv
    BY <1>4 DEF RequestInv, WireInv, CallInv, Using, Making
<1>7. OpenerInv /\ ExclusiveInv
    BY <1>3, <1>4 DEF OpenerInv, ExclusiveInv
<1>8. UnreadInv
    BY <1>3, <1>4 DEF UnreadInv
<1> QED BY <1>5, <1>6, <1>7, <1>8 DEF IInv

\* Every step keeps the invariant.
LEMMA NextIInv == IInv /\ [Next]_vars => IInv'
<1> SUFFICES ASSUME IInv, [Next]_vars PROVE IInv'
    OBVIOUS
<1>1. ASSUME NEW i \in Calls, NEW t \in Templates, request(i, t) PROVE IInv'
    BY <1>1, RequestIInv
<1>2. ASSUME NEW i \in Calls, NEW c \in Conns, Reuse(i, c) \/ Connect(i, c) \/ Drained(c, i)
      PROVE  IInv'
    BY <1>2, ReuseIInv, ConnectIInv, DrainedIInv
<1>3. ASSUME NEW i \in Calls,
             Unresolvable(i) \/ ConnectFails(i) \/ Respond(i) \/ TimeoutElapsed(i) \/ Drop(i)
      PROVE  IInv'
    <2>1. \E a \in Answers : Ends(i, a)
        <3>1. CASE Unresolvable(i)
            BY <3>1 DEF Unresolvable, Ends, Answers
        <3>2. CASE ConnectFails(i)
            BY <3>2 DEF ConnectFails, Ends, Answers, Making
        <3>3. CASE Respond(i)
            BY <3>3 DEF Respond, Ends, Answers
        <3>4. ASSUME NEW a \in Answers, Abandon(i, a) PROVE Ends(i, a)
            BY <3>4 DEF Abandon, Ends, Active, Making
        <3>5. CASE TimeoutElapsed(i) \/ Drop(i)
            BY <3>4, <3>5 DEF TimeoutElapsed, Drop, Answers
        <3> QED BY <1>3, <3>1, <3>2, <3>3, <3>5
    <2> QED BY <2>1, EndsIInv
<1>4. ASSUME NEW i \in Calls, Resolved(i) \/ Connected(i) \/ Handshaken(i) \/ Send(i)
      PROVE  IInv'
    BY <1>4, ResolvedIInv, MadeIInv, SendIInv
<1>5. ASSUME NEW i \in Calls, NEW status, NEW l \in Locations, FollowRedirect(i, status, l)
      PROVE  IInv'
    BY <1>5, RedirectIInv
<1>6. ASSUME NEW c \in Conns, Closed(c) PROVE IInv'
    BY <1>6, ClosedIInv
<1>7. CASE UNCHANGED vars
    <2>1. UNCHANGED <<config, req, stage, on, wire, answer, conn, unread, hops, origin, asserts>>
        BY <1>7 DEF vars
    <2>2. TypeOK'
        BY <2>1 DEF IInv, TypeOK
    <2>3. RequestInv' /\ CallInv' /\ ExclusiveInv' /\ UnreadInv'
        BY <2>1 DEF IInv, RequestInv, CallInv, ExclusiveInv, UnreadInv
    <2>4. OpenerInv'
        BY <2>1 DEF IInv, OpenerInv, UsesTls
    <2>5. WireInv'
        BY <2>1, WireKept DEF IInv
    <2> QED BY <2>2, <2>3, <2>4, <2>5 DEF IInv
<1> QED BY <1>1, <1>2, <1>3, <1>4, <1>5, <1>6, <1>7, Zenon DEF Next

\* The inductive invariant holds in every reachable state.
THEOREM IInvInvariant == Spec => []IInv
    BY InitIInv, NextIInv, PTL DEF Spec

\* The state of the client keeps its types.
THEOREM TypeCorrect == Spec => []TypeOK
<1>1. IInv => TypeOK
    BY DEF IInv
<1> QED BY <1>1, IInvInvariant, PTL

\* However the pool shares connections, a client with TLS sends an https or wss
\* request in the clear only over a connection opened for a request that had no
\* scheme (build_key, AutoTlsTransport::call).
THEOREM AlwaysSecureOverTls == Spec => []SecureOverTls
    BY IInvSecure, IInvInvariant, PTL

\* A request goes over TLS to a server that proved the name of the host in its
\* URI, also after redirects, unless a Host header opened the connection.
THEOREM AlwaysVerifiedForHost == Spec => []VerifiedForHost
<1>1. IInv => VerifiedForHost
    BY TlsName DEF VerifiedForHost
<1> QED BY <1>1, IInvInvariant, PTL

\* No two responses are under way on an HTTP/1 connection (is_open, can_share).
THEOREM AlwaysHttp1Exclusive == Spec => []Http1Exclusive
    BY IInvExclusive, IInvInvariant, PTL

\* Whatever request the caller makes, an HTTP/1 connection gets HTTP/1.1 with a Host
\* header when the URI names a host, and no URI with a scheme (SetHostHeader,
\* check_http1_request, send_request).
THEOREM AlwaysHttp1WireForm == Spec => []Http1WireForm
    BY IInvWire, IInvInvariant, PTL

\* Whatever request the caller makes, an HTTP/2 connection gets its scheme and
\* authority, no CONNECT, no Host header and no header of an HTTP/1 connection
\* (check_http2_request, send_request).
THEOREM AlwaysHttp2WireForm == Spec => []Http2WireForm
    BY IInvWire, IInvInvariant, PTL

\* A POST is sent with the data its caller gave it, also after redirects
\* (Body::size_hint, is_end_stream, poll_frame, Default).
THEOREM BodyNeverLost == Spec => []BodyNotLost
    BY IInvWire, IInvInvariant, PTL

\* A server of this crate validates every request this client sends it over TLS,
\* with the exceptions ServerValidates names (sni.rs handle).
THEOREM ServerAlwaysValidates == Spec => []ServerValidates
    BY IInvServer, IInvInvariant, PTL

=============================================================================
