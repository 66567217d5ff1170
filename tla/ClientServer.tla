---------------------------- MODULE ClientServer ----------------------------
(***************************************************************************)
(* The two halves of the crate together: the requests of HttpClient reach  *)
(* a server of this crate that validates SNI (SniValidation).  The client  *)
(* chooses the server name when it opens a connection and the Host header  *)
(* or the authority when it sends a request over whatever connection the   *)
(* pool gave it; the server compares them.                                 *)
(***************************************************************************)
EXTENDS HttpClient

Server == INSTANCE SniValidation WITH NoName <- NoHost, NoInfo <- NoConn

\* The request of call i as the server's hyper parses it.  The port in a Host
\* header plays no part: sni.rs compares Authority::host().
Parsed(i) ==
    [version |-> IF conn[on[i]].proto = "Http2" THEN "HTTP_2" ELSE "HTTP_11",
     authority |-> wire[i].host,
     host |-> IF wire[i].hostHeader = NoHost THEN NoHost ELSE wire[i].hostHeader.name]

\* What the server's TLS handshake recorded of the connection c.
Recorded(c) == [of |-> c, name |-> conn[c].name.name, validated |-> FALSE]

\* The server validates every request the client sends over TLS, on a pooled
\* connection and after a redirect too, unless a caller's own Host header named the
\* server in the TLS handshake or goes out over HTTP/1 (get_tls_domain, build_key,
\* SetHostHeader and check_http2_request of the client against handle of sni.rs).
ServerValidates ==
    \A i \in Calls :
        /\ stage[i] = "sent" /\ conn[on[i]].tls
        /\ conn[on[i]].opener.hostHeader = NoHost
        /\ conn[on[i]].proto = "Http1" => req[i].hostHeader = NoHost
        => LET verdict == Server!handle(Parsed(i), Recorded(on[i]))
           IN  ~verdict.error /\ verdict.tls.validated
=============================================================================
