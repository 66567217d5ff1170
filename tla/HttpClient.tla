----------------------------- MODULE HttpClient -----------------------------
(***************************************************************************)
(* Requests going through the client that Builder::build_service puts      *)
(* together (src/src/client): the pool key, the choice between TLS and     *)
(* plaintext, the ALPN handshake, the middleware below the pool (Host      *)
(* header, HTTP/2 and HTTP/1 checks), redirects with the request's body    *)
(* (src/src/body) and the overall request timeout, over TCP with the       *)
(* default resolver or over Unix sockets named in the requests' extensions *)
(* (src/src/client/conn/transport/unix.rs).                                *)
(*                                                                         *)
(* The pool (chateau), the protocol connections (hyper) and the redirect   *)
(* layer (tower-http, with its standard policy) are external.  From the    *)
(* pool only this is assumed: it hands out an open connection with the key *)
(* of the request, an HTTP/1 one to nobody else meanwhile.                 *)
(* Debug assertions are compiled out, as in a release build, but recorded; *)
(* a panic that is compiled in resolves the call as "Panicked".            *)
(***************************************************************************)
EXTENDS Naturals, FiniteSets

CONSTANTS Calls,      \* the requests in flight, by identity
          Conns,      \* bound: the connections that can be made
          Hosts,      \* host names
          Sockets,    \* addresses of Unix sockets
          Builders,   \* the settings a Builder can have
          Templates,  \* the requests a caller can make
          Locations,  \* the URIs a server can redirect to
          MaxRedirects, \* the limit of the redirect policy, 20 in policy::Standard
          NoHost,     \* Option::None, for hosts and Host headers
          NoSocket,   \* no UnixAddr in the extensions
          NoConn,     \* no connection yet
          NoRequest   \* nothing called, or nothing sent, yet

Schemes == {"http", "https", "wss", "none"}
Ports == {"none", "default", "other"}
Versions == {"HTTP_11", "HTTP_2", "HTTP_3"}

\* What a URI with a host looks like in a Host header: the port is only shown
\* when it is not the default one of the scheme.
HostValues == [name : Hosts, port : BOOLEAN]

\* Body: which of the kinds of InnerBody it is, and whether there is data in it.
Bodies == [inner : {"Empty", "Full", "Incoming"}, data : BOOLEAN]
BodySources == {"nothing", "empty string", "empty bytes", "text", "incoming"}

Requests == [scheme : Schemes, host : Hosts \cup {NoHost},
             port : Ports, version : Versions, method : {"GET", "POST", "CONNECT"},
             hostHeader : HostValues \cup {NoHost}, connHeaders : BOOLEAN,
             body : Bodies, socket : Sockets \cup {NoSocket}]

\* What the Builder leaves open: is there a timeout, a TLS configuration, a pool,
\* are redirects followed, and which transport and protocol make the connections.
Configs == [timeout : BOOLEAN, tls : BOOLEAN, pool : BOOLEAN, redirect : BOOLEAN,
            transport : {"Tcp", "Unix"}, protocol : {"Auto", "Http1", "Http2"}]

ASSUME HttpClientAssumption ==
    /\ Builders \subseteq Configs
    /\ IsFiniteSet(Conns) /\ MaxRedirects \in Nat
    /\ NoConn \notin Conns /\ NoSocket \notin Sockets
    /\ NoHost \notin Hosts /\ NoHost \notin HostValues
    /\ NoRequest \notin Requests
    /\ \A t \in Templates : t.body \in BodySources
    /\ \A t \in Templates, b \in Bodies : [t EXCEPT !.body = b] \in Requests
    /\ Locations \subseteq [scheme : Schemes \ {"none"}, host : Hosts, port : Ports]
    \* http::Uri has no scheme without an authority
    /\ \A t \in Templates : t.scheme # "none" => t.host # NoHost

VARIABLES
    config,  \* the settings of the Builder
    req,     \* the request of each call: the caller's, then as redirected
    stage,   \* where the future of each call stands
    on,      \* the connection a call uses or is making
    wire,    \* the request of each call as it was handed to hyper
    answer,  \* what the call resolved to
    conn,    \* the connections
    unread,  \* hyper: the calls whose response a connection has not finished
    hops,    \* the redirects each call has followed
    \* History variables, read by the properties only.
    origin,  \* the request of each call as the caller made it
    asserts  \* have all debug assertions held so far?

vars == <<config, req, stage, on, wire, answer, conn, unread, hops, origin, asserts>>

NoKey == <<"none", NoHost, "none">>
FreeConn == [phase |-> "free", key |-> NoKey, tls |-> FALSE, name |-> NoHost,
             socket |-> NoSocket, proto |-> "Http1", opener |-> NoRequest]

Init ==
    /\ config \in Builders
    /\ req = [i \in Calls |-> NoRequest]
    /\ stage = [i \in Calls |-> "idle"]
    /\ on = [i \in Calls |-> NoConn]
    /\ wire = [i \in Calls |-> NoRequest]
    /\ answer = [i \in Calls |-> "None"]
    /\ conn = [c \in Conns |-> FreeConn]
    /\ unread = [c \in Conns |-> {}]
    /\ hops = [i \in Calls |-> 0]
    /\ origin = [i \in Calls |-> NoRequest]
    /\ asserts = TRUE

-----------------------------------------------------------------------------
(* Bodies *)

\* Body::empty and Body::default
empty == [inner |-> "Empty", data |-> FALSE]

\* Body::full and the From implementations: only an empty String becomes Empty.
from(source) ==
    CASE source \in {"nothing", "empty string"} -> empty
      [] source = "empty bytes" -> [inner |-> "Full", data |-> FALSE]
      [] source = "text" -> [inner |-> "Full", data |-> TRUE]
      [] source = "incoming" -> [inner |-> "Incoming", data |-> TRUE]

\* Mistaken form of size_hint: what is not known counts as nothing.
size_hint_lower(b) == b.inner = "Incoming" \/ ~b.data

\* Is the exact length of the body known to be zero?
size_hint(b) == b.inner = "Empty" \/ (b.inner = "Full" /\ ~b.data)

\* What hyper gets to send: it asks is_end_stream first, then for frames.
is_end_stream(b) == b.inner = "Empty" \/ (b.inner = "Full" /\ ~b.data)
poll_frame(b) == b.inner # "Empty" /\ b.data
Transmitted(b) == [b EXCEPT !.data = ~is_end_stream(b) /\ poll_frame(b)]

-----------------------------------------------------------------------------
(* Decisions taken on a request *)

\* Mistaken forms of build_key: the scheme, or the host, is left out.
build_key_host(r) == <<"none", r.host, r.port>>
build_key_scheme(r) == <<r.scheme, NoHost, r.port>>

\* UriKey::build_key: a scheme is made up for a URI that has none.
build_key(r) ==
    <<IF r.scheme # "none" THEN r.scheme
      ELSE IF r.version \in {"HTTP_2", "HTTP_3"} THEN "https" ELSE "http",
      r.host, r.port>>

\* The whole Host header if there is one, with its port, else the host of the URI.
get_host(r) ==
    IF r.hostHeader # NoHost THEN r.hostHeader
    ELSE IF r.host # NoHost THEN [name |-> r.host, port |-> FALSE]
    ELSE NoHost

get_tls_domain(r) ==
    IF r.scheme \in {"https", "wss"} THEN get_host(r) ELSE NoHost

\* AutoTlsTransport::call
UsesTls(r) == config.tls /\ get_tls_domain(r) # NoHost

\* GaiResolver fails without a host, and without a port unless the scheme has
\* a default one.
get_host_and_port(r) ==
    r.host # NoHost /\ (r.port # "none" \/ r.scheme \in {"http", "https"})

\* UnixExtensionTransport: the address is looked up in the request's extensions.
UnixExtensionTransport(r) == r.socket

\* Does the transport know where to connect to?
Addressed(r) ==
    IF config.transport = "Tcp" THEN get_host_and_port(r)
    ELSE UnixExtensionTransport(r) # NoSocket

\* client::Stream::tls_info: without TLS there is no ALPN to look at.
tls_info(c, alpn) == IF conn[c].tls THEN alpn ELSE "none"

\* AlpnHttpConnectionBuilder::handshake from the protocol it is called with.
handshake(protocol, alpn) ==
    CASE protocol = "Http2" -> "Http2"
      [] protocol = "Http1" -> IF alpn = "h2" THEN "Http2" ELSE "Http1"
      [] protocol = "Http3" -> "Unsupported"

\* Mistaken form of initial_protocol.
initial_protocol_h3 == "Http3"

\* The protocol AlpnHttpConnectionBuilder::call starts the handshake with.
initial_protocol == "Http1"

\* The three protocols: the two fixed ones take no notice of ALPN.
AlpnHttpConnectionBuilder(alpn) == handshake(initial_protocol, alpn)
Http1Builder(alpn) == "Http1"
Http2Builder(alpn) == "Http2"

Protocol(alpn) ==
    CASE config.protocol = "Auto"  -> AlpnHttpConnectionBuilder(alpn)
      [] config.protocol = "Http1" -> Http1Builder(alpn)
      [] config.protocol = "Http2" -> Http2Builder(alpn)

\* set_host_header, with get_non_default_port
set_host_header(r) ==
    IF r.host = NoHost \/ r.hostHeader # NoHost THEN r
    ELSE [r EXCEPT !.hostHeader = [name |-> r.host, port |-> r.port = "other"]]

\* Mistaken form of SetHostHeader: it goes by the version of the request.
SetHostHeaderVersion(proto, r) == IF r.version = "HTTP_11" THEN set_host_header(r) ELSE r

SetHostHeader(proto, r) == IF proto = "Http1" THEN set_host_header(r) ELSE r

\* Mistaken form of check_http2_request: the Host header stays.
check_http2_keep_host(proto, r) ==
    IF proto # "Http2" THEN r
    ELSE [r EXCEPT !.version = "HTTP_2", !.connHeaders = FALSE]

check_http2_request(proto, r) ==
    IF proto # "Http2" THEN r
    ELSE [r EXCEPT !.version = "HTTP_2", !.connHeaders = FALSE, !.hostHeader = NoHost]

\* The branch of check_http1_request that calls authority_form, whose match has
\* unreachable! for a URI without an authority.
Unreachable(proto, r) == proto = "Http1" /\ r.method = "CONNECT" /\ r.host = NoHost

authority_form(r) == [r EXCEPT !.scheme = "none"]
origin_form(r) == [r EXCEPT !.scheme = "none", !.host = NoHost, !.port = "none"]

\* The branch of check_http1_request that calls absolute_form, which asserts
\* that both parts are there and leaves the URI as it is.
NeedsAbsoluteForm(proto, r) ==
    proto = "Http1" /\ r.method # "CONNECT" /\ (r.scheme = "none" \/ r.host = NoHost)

check_http1_request(proto, r) ==
    IF proto # "Http1" \/ NeedsAbsoluteForm(proto, r) THEN r
    ELSE IF r.method = "CONNECT" THEN authority_form(r)
    ELSE origin_form(r)

\* What send_request of the three kinds of connections does to the request.
HttpConnection(proto, r) ==
    [r EXCEPT !.version = IF proto = "Http2" THEN "HTTP_2" ELSE "HTTP_11"]
Http1Connection(r) == [r EXCEPT !.version = "HTTP_11"]
Http2Connection(r) == r

send_request(proto, r) ==
    CASE config.protocol = "Auto"  -> HttpConnection(proto, r)
      [] config.protocol = "Http1" -> Http1Connection(r)
      [] config.protocol = "Http2" -> Http2Connection(r)

\* Mistaken form of Executor: the HTTP/1 checks come before the Host header.
ExecutorSwapped(proto, r) ==
    send_request(proto,
        SetHostHeader(proto,
            check_http1_request(proto,
                check_http2_request(proto, r))))

\* The layers of the executor in the order build_service stacks them.
Executor(proto, r) ==
    send_request(proto,
        check_http1_request(proto,
            check_http2_request(proto,
                SetHostHeader(proto, r))))

-----------------------------------------------------------------------------
(* The life of a call *)

Active == {"checkout", "resolving", "connecting", "handshaking", "ready", "sent"}

\* The call i resolves to a and lets go of its connection.
Resolve(i, a) ==
    /\ stage' = [stage EXCEPT ![i] = "done"]
    /\ answer' = [answer EXCEPT ![i] = a]
    /\ on' = [on EXCEPT ![i] = NoConn]

\* Client::request: the pool service computes the key and starts a checkout.  Only
\* over Unix sockets do callers put an address on their requests.
request(i, t) ==
    /\ stage[i] = "idle"
    /\ config.transport = "Tcp" => t.socket = NoSocket
    /\ req' = [req EXCEPT ![i] = [t EXCEPT !.body = from(t.body)]]
    /\ origin' = [origin EXCEPT ![i] = req'[i]]
    /\ stage' = [stage EXCEPT ![i] = "checkout"]
    /\ UNCHANGED <<config, on, wire, answer, conn, unread, hops, asserts>>

\* PoolableConnection::is_open asks hyper whether the connection is ready for
\* another request.
is_open(c) ==
    /\ conn[c].phase = "open"
    /\ conn[c].proto = "Http1" => unread[c] = {}

\* Mistaken form of can_share: an HTTP/1 connection is shared too.
can_share_all(c) == TRUE

can_share(c) == conn[c].proto = "Http2"

\* The pool hands out a connection it knows under the key of the request.
Reuse(i, c) ==
    /\ stage[i] = "checkout" /\ config.pool
    /\ conn[c].key = build_key(req[i])
    /\ is_open(c)
    /\ can_share(c) \/ \A j \in Calls : on[j] # c
    /\ on' = [on EXCEPT ![i] = c]
    /\ stage' = [stage EXCEPT ![i] = "ready"]
    /\ UNCHANGED <<config, req, wire, answer, conn, unread, hops, origin, asserts>>

\* No usable connection: AutoTlsTransport::call starts one for this request.
Connect(i, c) ==
    /\ stage[i] = "checkout" /\ conn[c].phase = "free"
    /\ Addressed(req[i])
    /\ conn' = [conn EXCEPT ![c] =
                   [phase |-> "transport", key |-> build_key(req[i]),
                    tls |-> UsesTls(req[i]), name |-> get_tls_domain(req[i]),
                    socket |-> UnixExtensionTransport(req[i]),
                    proto |-> Protocol("none"), opener |-> req[i]]]
    /\ on' = [on EXCEPT ![i] = c]
    /\ stage' = [stage EXCEPT ![i] = IF config.transport = "Tcp" THEN "resolving"
                                     ELSE "connecting"]
    /\ UNCHANGED <<config, req, wire, answer, unread, hops, origin, asserts>>

\* GaiFuture: getaddrinfo, on a blocking thread, has answered.
Resolved(i) ==
    /\ stage[i] = "resolving"
    /\ stage' = [stage EXCEPT ![i] = "connecting"]
    /\ UNCHANGED <<config, req, on, wire, answer, conn, unread, hops, origin, asserts>>

\* The resolver refuses the URI, or there is no Unix address: Error::Transport.
Unresolvable(i) ==
    /\ stage[i] = "checkout"
    /\ ~Addressed(req[i])
    /\ Resolve(i, "Transport")
    /\ UNCHANGED <<config, req, wire, conn, unread, hops, origin, asserts>>

\* The transport is there; with TLS, the server has proved its name, which cannot
\* have a port, and ALPN has chosen a protocol, of which the HTTP handshake that
\* starts now takes notice.
Connected(i) ==
    /\ stage[i] = "connecting"
    /\ conn[on[i]].tls => ~conn[on[i]].name.port
    /\ \E alpn \in {"h2", "http/1.1", "none"} :
          conn' = [conn EXCEPT ![on[i]].phase = "handshake",
                               ![on[i]].proto = Protocol(tls_info(on[i], alpn))]
    /\ stage' = [stage EXCEPT ![i] = "handshaking"]
    /\ UNCHANGED <<config, req, on, wire, answer, unread, hops, origin, asserts>>

\* The HTTP handshake is done; the connection's driver task is spawned.
Handshaken(i) ==
    /\ stage[i] = "handshaking"
    /\ conn' = [conn EXCEPT ![on[i]].phase = "open"]
    /\ stage' = [stage EXCEPT ![i] = "ready"]
    /\ UNCHANGED <<config, req, on, wire, answer, unread, hops, origin, asserts>>

\* Name resolution, the TCP or TLS connection, or the HTTP handshake fails:
\* ConnectionError::Connecting and ::Handshaking as Error::from maps them.
ConnectFails(i) ==
    /\ stage[i] \in {"resolving", "connecting", "handshaking"}
    /\ conn' = [conn EXCEPT ![on[i]].phase = "closed"]
    /\ Resolve(i, IF stage[i] = "handshaking" THEN "Protocol" ELSE "Transport")
    /\ UNCHANGED <<config, req, wire, unread, hops, origin, asserts>>

\* The executor prepares the request for the connection it got and hands it to
\* hyper.  check_http2_request refuses CONNECT over HTTP/2; that error and one of
\* hyper are both a ConnectionError::Service, which becomes Error::Connection.  A
\* panic of check_http1_request unwinds through the future, which gives back its
\* connection.
Send(i) ==
    LET c == on[i]
        proto == conn[c].proto
        refused == proto = "Http2" /\ req[i].method = "CONNECT"
    IN  /\ stage[i] = "ready"
        /\ \/ /\ Unreachable(proto, req[i])
              /\ Resolve(i, "Panicked")
              /\ UNCHANGED <<wire, unread, asserts>>
           \/ /\ ~Unreachable(proto, req[i])
              /\ refused \/ conn[c].phase # "open"
              /\ Resolve(i, "Connection")
              /\ UNCHANGED <<wire, unread, asserts>>
           \/ /\ ~Unreachable(proto, req[i]) /\ ~refused /\ conn[c].phase = "open"
              /\ wire' = [wire EXCEPT ![i] = [Executor(proto, req[i]) EXCEPT
                                                 !.body = Transmitted(req[i].body)]]
              /\ unread' = [unread EXCEPT ![c] = @ \cup {i}]
              /\ stage' = [stage EXCEPT ![i] = "sent"]
              /\ asserts' = (asserts /\ ~NeedsAbsoluteForm(proto, req[i]))
              /\ UNCHANGED <<on, answer>>
        /\ UNCHANGED <<config, req, conn, hops, origin>>

\* The head of the response arrives and resolves the call.  The connection
\* goes back to the pool while the body is still to be read.
Respond(i) ==
    /\ stage[i] = "sent"
    /\ Resolve(i, "Response")
    /\ UNCHANGED <<config, req, wire, conn, unread, hops, origin, asserts>>

\* tower-http: a redirect of this status makes a GET without a body of r.
BecomesGet(status, r) ==
    status = "SEE_OTHER" \/ (status = "FOUND" /\ r.method = "POST")

\* The response is a redirect and the FollowRedirect layer, inside the timeout and
\* above the pool, sends the request again.  Whether a Host header and the
\* extensions go along is tower-http's choice.  It needs an absolute URI to resolve
\* the location against and a body it can make again: one that was empty.  Every
\* other redirect is the caller's response.
FollowRedirect(i, status, location) ==
    LET r == req[i]
        get == BecomesGet(status, r)
    IN  /\ stage[i] = "sent" /\ config.redirect
        /\ hops[i] < MaxRedirects
        /\ r.scheme # "none"
        /\ get \/ size_hint(r.body)
        /\ \E header \in {r.hostHeader, NoHost}, socket \in {r.socket, NoSocket} :
              req' = [req EXCEPT ![i] = [r EXCEPT !.scheme = location.scheme,
                                                  !.host = location.host,
                                                  !.port = location.port,
                                                  !.method = IF get THEN "GET" ELSE @,
                                                  !.hostHeader = header,
                                                  !.socket = socket,
                                                  !.body = empty]]
        /\ hops' = [hops EXCEPT ![i] = @ + 1]
        /\ stage' = [stage EXCEPT ![i] = "checkout"]
        /\ on' = [on EXCEPT ![i] = NoConn]
        /\ UNCHANGED <<config, wire, answer, conn, unread, origin, asserts>>

\* A response has been read to its end (or its stream reset, on HTTP/2): hyper
\* is done with it.
Drained(c, i) ==
    /\ i \in unread[c] /\ ~(stage[i] = "sent" /\ on[i] = c)
    /\ unread' = [unread EXCEPT ![c] = @ \ {i}]
    /\ UNCHANGED <<config, req, stage, on, wire, answer, conn, hops, origin, asserts>>

\* A connection breaks, or hyper closes it: the calls waiting on it fail.
Closed(c) ==
    /\ conn[c].phase = "open"
    /\ conn' = [conn EXCEPT ![c].phase = "closed"]
    /\ unread' = [unread EXCEPT ![c] = {}]
    /\ LET failing == {i \in Calls : on[i] = c /\ stage[i] = "sent"}
       IN  /\ stage' = [i \in Calls |-> IF i \in failing THEN "done" ELSE stage[i]]
           /\ answer' = [i \in Calls |-> IF i \in failing THEN "Connection" ELSE answer[i]]
           /\ on' = [i \in Calls |-> IF i \in failing THEN NoConn ELSE on[i]]
    /\ UNCHANGED <<config, req, wire, hops, origin, asserts>>

\* The future of a call is dropped at an await, and with it the connection it
\* was making.  A response that is on its way stays the connection's to finish.
Abandon(i, a) ==
    /\ stage[i] \in Active
    /\ Resolve(i, a)
    /\ conn' = IF stage[i] \in {"resolving", "connecting", "handshaking"}
               THEN [conn EXCEPT ![on[i]].phase = "closed"]
               ELSE conn
    /\ UNCHANGED <<config, req, wire, unread, hops, origin, asserts>>

\* Mistaken form of TimeoutElapsed: only the response is timed.
TimeoutWhenSent(i) ==
    config.timeout /\ stage[i] = "sent" /\ Abandon(i, "RequestTimeout")

\* TimeoutFuture: the timer ends before the inner future.
TimeoutElapsed(i) == config.timeout /\ Abandon(i, "RequestTimeout")

\* The caller drops the future.
Drop(i) == Abandon(i, "Dropped")

Next ==
    \/ \E i \in Calls, t \in Templates : request(i, t)
    \/ \E i \in Calls, c \in Conns : Reuse(i, c) \/ Connect(i, c) \/ Drained(c, i)
    \/ \E i \in Calls : \/ Unresolvable(i) \/ Resolved(i) \/ Connected(i) \/ Handshaken(i)
                        \/ ConnectFails(i) \/ Send(i) \/ Respond(i)
                        \/ TimeoutElapsed(i) \/ Drop(i)
    \/ \E i \in Calls, s \in {"FOUND", "SEE_OTHER", "TEMPORARY_REDIRECT"}, l \in Locations :
          FollowRedirect(i, s, l)
    \/ \E c \in Conns : Closed(c)

Spec == Init /\ [][Next]_vars

\* The executor polls the client's futures and tokio's timers fire; the
\* network and the caller owe nothing.
FairSpec ==
    Spec /\ \A i \in Calls : WF_vars(TimeoutElapsed(i)) /\ WF_vars(Send(i))

-----------------------------------------------------------------------------
Connections ==
    [phase : {"free", "transport", "handshake", "open", "closed"},
     key : Schemes \X (Hosts \cup {NoHost}) \X Ports,
     tls : BOOLEAN, name : HostValues \cup {NoHost}, socket : Sockets \cup {NoSocket},
     proto : {"Http1", "Http2"}, opener : Requests \cup {NoRequest}]

\* Type invariant.
TypeOK ==
    /\ config \in Configs
    /\ req \in [Calls -> Requests \cup {NoRequest}]
    /\ stage \in [Calls -> Active \cup {"idle", "done"}]
    /\ on \in [Calls -> Conns \cup {NoConn}]
    /\ wire \in [Calls -> Requests \cup {NoRequest}]
    /\ answer \in [Calls -> {"None", "Response", "Transport", "Protocol", "Connection",
                             "RequestTimeout", "Dropped", "Panicked"}]
    /\ conn \in [Conns -> Connections]
    /\ unread \in [Conns -> SUBSET Calls]
    /\ hops \in [Calls -> 0..MaxRedirects]
    /\ origin \in [Calls -> Requests \cup {NoRequest}]
    /\ asserts \in BOOLEAN

\* A client that has a TLS configuration sends an https or wss request in the
\* clear only over a connection that was opened for a request without a scheme
\* and is pooled under the scheme build_key made up for it: never over one
\* opened for an http request, however the pool shares connections.
SecureOverTls ==
    \A i \in Calls :
        stage[i] = "sent" /\ config.tls /\ req[i].scheme \in {"https", "wss"} =>
            \/ conn[on[i]].tls
            \/ conn[on[i]].opener.scheme = "none"

\* A request goes over TLS only to a server that proved the name of the host in
\* its URI, also after a redirect, unless the connection was opened for a request
\* whose caller had put a Host header on it: that one names the server in the TLS
\* handshake, but is not part of the key the connection is pooled under.
VerifiedForHost ==
    \A i \in Calls :
        stage[i] = "sent" /\ conn[on[i]].tls /\ conn[on[i]].opener.hostHeader = NoHost =>
            conn[on[i]].name = [name |-> req[i].host, port |-> FALSE]

\* A request that is still a POST when it is sent, also when it was redirected,
\* carries the body its caller gave it: a body that was used up is never replaced
\* by an empty one (Body::size_hint, is_end_stream, Default).
BodyNotLost ==
    \A i \in Calls :
        stage[i] = "sent" /\ wire[i].method = "POST" =>
            wire[i].body.data = origin[i].body.data

\* No two responses are under way on one HTTP/1 connection, also when a caller
\* went away before its response was read to the end (is_open, can_share).
Http1Exclusive ==
    \A c \in Conns :
        conn[c].proto = "Http1" => Cardinality(unread[c]) <= 1

\* What reaches an HTTP/1 connection: a Host header whenever the URI names a
\* host, the caller's own if there was one, and no URI with a scheme, whatever
\* version the caller had put on the request.
Http1WireForm ==
    \A i \in Calls :
        stage[i] = "sent" /\ conn[on[i]].proto = "Http1" =>
            /\ wire[i].version = "HTTP_11"
            /\ req[i].host # NoHost =>
                  wire[i].hostHeader # NoHost /\ wire[i].hostHeader.name = get_host(req[i]).name
            /\ wire[i].scheme = "none"

\* What reaches an HTTP/2 connection: the scheme and authority of the URI, from
\* which hyper makes the pseudo-headers, and neither a Host header nor headers
\* of an HTTP/1 connection, also when the request was made as HTTP/1.1.
Http2WireForm ==
    \A i \in Calls :
        stage[i] = "sent" /\ conn[on[i]].proto = "Http2" =>
            /\ wire[i].version = "HTTP_2" /\ wire[i].method # "CONNECT"
            /\ wire[i].scheme = req[i].scheme /\ wire[i].host = req[i].host
            /\ wire[i].hostHeader = NoHost /\ ~wire[i].connHeaders

\* With a request timeout every call resolves, wherever it hangs: waiting for
\* the pool, resolving, connecting, in a handshake or for the response.
TimeoutResolves ==
    config.timeout => \A i \in Calls : stage[i] \in Active ~> stage[i] = "done"

\* The debug assertions of absolute_form (service/http.rs:232-236): "absolute_form
\* needs a scheme", "absolute_form needs an authority".
AbsoluteFormAsserts == asserts

\* What the doc comment of UnixExtensionTransport says (client/conn/transport/
\* unix.rs): it "looks up the target unix address in the request extensions".
SentToOwnSocket ==
    \A i \in Calls :
        stage[i] = "sent" /\ config.transport = "Unix" /\ hops[i] = 0 =>
            conn[on[i]].socket = req[i].socket

\* What the doc comment of AlpnHttpConnectionBuilder says (client/conn/protocol/
\* auto.rs): it "will pick the protocol based on the ALPN negotiation or the
\* request's version if ALPN is not available."
VersionPicksProtocol ==
    \A i \in Calls :
        stage[i] = "sent" /\ config.protocol = "Auto" /\ ~conn[on[i]].tls
            /\ req[i] = conn[on[i]].opener /\ req[i].version = "HTTP_2" => conn[on[i]].proto = "Http2"

=============================================================================
