--------------------------- MODULE SniValidation ---------------------------
(***************************************************************************)
(* The decision of the server's ValidateSNI layer                          *)
(* (src/src/server/conn/tls/sni.rs): may a request that names a host be    *)
(* served on a connection whose client asked for a certain server name?    *)
(* A name is the host part of an authority, without a port.                *)
(***************************************************************************)
CONSTANTS NoName,  \* Option::None, for names
          NoInfo   \* Option::None, for information about a connection

\* A request without TlsConnectionInfo in its extensions.
NoTls == [of |-> NoInfo, name |-> NoName, validated |-> FALSE]

\* The host a request asks for, as sni.rs sees it.
RequestHost(q) == IF q.version = "HTTP_2" THEN q.authority ELSE q.host

\* Mistaken form of handle: a mismatch is only left unmarked.
handle_lenient(q, t) ==
    [error |-> FALSE,
     tls |-> IF t.name # NoName /\ RequestHost(q) = t.name
             THEN [t EXCEPT !.validated = TRUE] ELSE t]

\* sni.rs handle for the request q with TLS information t: is there an error, and
\* the TLS information it leaves in the request.
handle(q, t) ==
    LET matches == t.name # NoName /\ RequestHost(q) = t.name
        passes  == t.name # NoName /\ RequestHost(q) = NoName
    IN  [error |-> ~(t = NoTls \/ matches \/ passes),
         tls   |-> IF matches THEN [t EXCEPT !.validated = TRUE] ELSE t]

\* ValidateSNIService::call
ValidateSNIService(verdict) == IF verdict.error THEN "rejected" ELSE "handler"
=============================================================================
