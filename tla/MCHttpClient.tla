---- MODULE MCHttpClient ----
(* Requests that differ in what the client looks at. *)
EXTENDS ClientServer, TLC

CONSTANTS h1, h2, s1, s2

R(s, h, p, v, m, hh, ch, b, u) ==
    [scheme |-> s, host |-> h, port |-> p, version |-> v, method |-> m,
     hostHeader |-> hh, connHeaders |-> ch, body |-> b, socket |-> u]

Header(h, p) == [name |-> h, port |-> p]

Plain == R("http", h1, "none", "HTTP_11", "GET", NoHost, FALSE, "nothing", NoSocket)
PlainAsHttp2 == R("http", h1, "none", "HTTP_2", "POST", NoHost, TRUE, "text", NoSocket)
Secure == R("https", h1, "other", "HTTP_11", "POST", NoHost, TRUE, "incoming", NoSocket)
SecureHosted == R("https", h1, "other", "HTTP_2", "GET", Header(h2, FALSE), FALSE, "empty string", NoSocket)
SecureHostPort == R("https", h1, "other", "HTTP_11", "GET", Header(h1, TRUE), FALSE, "nothing", NoSocket)
SecureConnect == R("https", h1, "other", "HTTP_11", "CONNECT", NoHost, FALSE, "nothing", NoSocket)
AuthorityOnly == R("none", h1, "other", "HTTP_2", "POST", NoHost, FALSE, "empty bytes", NoSocket)
Relative == R("none", NoHost, "none", "HTTP_11", "GET", Header(h1, FALSE), FALSE, "nothing", NoSocket)
Socket == R("wss", h1, "none", "HTTP_11", "GET", NoHost, TRUE, "nothing", NoSocket)

LocalGet == R("http", h1, "none", "HTTP_11", "GET", NoHost, FALSE, "nothing", s1)
LocalPost == R("http", h1, "none", "HTTP_2", "POST", NoHost, FALSE, "text", s2)
LocalConnect == R("none", NoHost, "none", "HTTP_11", "CONNECT", NoHost, FALSE, "nothing", s1)

(* A timeout, a pool and redirects only add behaviours: with all three on, the *)
(* clients that lack some of them are covered too.                              *)
MCBuilders == {b \in Configs : b.timeout /\ b.pool /\ b.redirect}

MCTemplates == {Plain, PlainAsHttp2, Secure, SecureHosted, SecureHostPort, SecureConnect,
                AuthorityOnly, Relative, Socket, LocalGet, LocalPost, LocalConnect}

MCLocations == {[scheme |-> "https", host |-> h2, port |-> "other"],
                [scheme |-> "http", host |-> h1, port |-> "none"]}

Symmetry == Permutations(Calls) \cup Permutations(Conns)
====
