------------------------ MODULE UpgradableConnection ------------------------
(***************************************************************************)
(* One connection of the HTTP server: the automatic protocol               *)
(* (src/src/server/conn/auto.rs: protocol detection, graceful shutdown;    *)
(* src/src/rewind.rs: giving the bytes read for detection back to the      *)
(* protocol) and the two fixed ones of src/src/server/conn/mod.rs.         *)
(*                                                                         *)
(* A byte is its position in the stream the peer sends, and all that       *)
(* matters of its value is whether it agrees with the byte of HTTP2_PREFIX *)
(* at the same position.  hyper's HTTP/1 and HTTP/2 connections are        *)
(* external: they read through Rewind, call the service and, after         *)
(* graceful_shutdown, end once they are drained.  For HTTP/1 that is at    *)
(* once when idle, else after the request it serves or whose head it has   *)
(* begun to read; for HTTP/2 after its handshake, the peer's answer to a   *)
(* PING, until which it takes new requests, and the last request.          *)
(***************************************************************************)
EXTENDS Naturals, Sequences

CONSTANTS PrefixLen,  \* HTTP2_PREFIX.len(), 24 in the code
          StreamLen,  \* bound: how many bytes the peer sends
          ReadCap     \* bound: largest buffer hyper reads into

ASSUME UpgradableConnectionAssumption ==
    /\ PrefixLen \in Nat \ {0}
    /\ StreamLen \in Nat
    /\ ReadCap \in Nat \ {0}

VARIABLES
    protocol,  \* which protocol the server was built with
    agrees,    \* does byte i of the stream equal byte i of HTTP2_PREFIX?
    sent,      \* how many bytes have arrived at the socket
    closed,    \* "open", "eof" or "error": the state of the peer's half
    taken,     \* how many bytes have been read from the socket
    state,     \* ConnectionState, or "Done" once poll returned Ready
    filled,    \* ReadVersion: bytes in buf
    version,   \* ReadVersion: the detected protocol
    cancelled, \* ReadVersion: cancel() was called
    prefix,    \* Rewind: bytes to give back; empty when the Option is None
    graceful,  \* hyper: graceful_shutdown was called on the protocol connection
    requests,  \* hyper: how many requests are being served, or (HTTP/1) wait their turn
    answered,  \* hyper: a request has been answered, so HTTP/1 is idle between two
    acked,     \* hyper: the peer has answered the PING of HTTP/2's shutdown
    stopped,   \* hyper: reads no more: not HTTP, or HTTP/1 and its last request answered
    result,    \* what poll returned
    \* History variables, read by the properties only.
    seen,      \* the bytes the protocol connection has read, in order
    asked      \* graceful_shutdown was called on this connection

vars == <<protocol, agrees, sent, closed, taken, state, filled, version, cancelled,
          prefix, graceful, requests, answered, acked, stopped, result, seen, asked>>

hyperVars == <<requests, answered, acked, stopped>>

Interval(i, j) == [k \in 1..(IF i <= j THEN j - i + 1 ELSE 0) |-> i + k - 1]
Least(i, j) == IF i <= j THEN i ELSE j

\* ReadVersion::new
new == filled = 0 /\ version = "Http2" /\ cancelled = FALSE

\* serve_connection of the automatic protocol, which starts with detection, and
\* of the fixed ones, which start with hyper and without a Rewind.
ServeAuto == protocol = "auto" /\ state = "ReadVersion"
ServeHttp1 == protocol = "http1" /\ state = "Http1"
ServeHttp2 == protocol = "http2" /\ state = "Http2"

\* with_auto_http, with_http1 or with_http2, and a connection.
Init ==
    /\ ServeAuto \/ ServeHttp1 \/ ServeHttp2
    /\ new
    /\ agrees \in [1..PrefixLen -> BOOLEAN]
    /\ sent = 0 /\ closed = "open" /\ taken = 0
    /\ prefix = <<>> /\ graceful = FALSE /\ result = "None"
    /\ requests = 0 /\ answered = FALSE /\ acked = FALSE /\ stopped = FALSE
    /\ seen = <<>> /\ asked = FALSE

-----------------------------------------------------------------------------
\* The network delivers n more bytes.
Arrive(n) ==
    /\ closed = "open" /\ sent + n <= StreamLen
    /\ sent' = sent + n
    /\ UNCHANGED <<protocol, agrees, closed, taken, state, filled, version, cancelled,
                   prefix, graceful, result, seen, asked, hyperVars>>

\* The peer closes its half of the connection, or the connection breaks.
Close(how) ==
    /\ closed = "open"
    /\ closed' = how
    /\ UNCHANGED <<protocol, agrees, sent, taken, state, filled, version, cancelled,
                   prefix, graceful, result, seen, asked, hyperVars>>

Available == sent - taken

\* Mistaken form of Reads: the cursor advances to the end of the buffer.
ReadsFull(n, cap) == n = cap

\* TokioIo::poll_read into room for cap bytes that does not return Pending: the
\* buffer advances by the n bytes the socket yields; none at the end of the stream.
Reads(n, cap) ==
    \/ n \in 1..Least(Available, cap)
    \/ n = 0 /\ Available = 0 /\ closed = "eof"

\* poll returned Ready(r).
Finish(r) == state' = "Done" /\ result' = r

\* Mistaken form of Detecting: cancel() is noticed too late.
DetectingAnyway == state = "ReadVersion"

\* ReadVersion::poll gets past its check of cancelled.
Detecting == state = "ReadVersion" /\ ~cancelled

\* ReadVersion::poll after cancel(): it fails before it reads anything.
PollCancelled ==
    /\ state = "ReadVersion" /\ cancelled
    /\ Finish("Interrupted")
    /\ UNCHANGED <<protocol, agrees, sent, closed, taken, filled, version, cancelled,
                   prefix, graceful, seen, asked, hyperVars>>

\* ReadVersion::poll when the read fails.
PollReadError ==
    /\ Detecting
    /\ Available = 0 /\ closed = "error"
    /\ Finish("IoError")
    /\ UNCHANGED <<protocol, agrees, sent, closed, taken, filled, version, cancelled,
                   prefix, graceful, seen, asked, hyperVars>>

\* Mistaken form of NotPrefix: only the length is compared.
NotPrefixLen(len, n) == len + n # PrefixLen

\* "buf.filled()[len..] != HTTP2_PREFIX[len..]" after a read that took the
\* buffer from len to len + n bytes: the bytes just read against the whole
\* remainder of the prefix.
NotPrefix(len, n) ==
    \/ len + n # PrefixLen
    \/ \E i \in len + 1 .. len + n : ~agrees[i]

\* Mistaken form of IsHttp1: the end of the stream goes unnoticed.
IsHttp1NoEof(len, n) == n # 0 /\ NotPrefix(len, n)

\* The read that took the buffer from len to len + n bytes settles for HTTP/1.
IsHttp1(len, n) == n = 0 \/ NotPrefix(len, n)

\* UpgradableConnection::poll: the protocol v takes over, through a Rewind that
\* holds the first len bytes.
TakeOver(v, len) ==
    /\ state' = v
    /\ prefix' = Interval(1, len)

\* ReadVersion::poll with one successful read of n bytes.  The loop reads on only
\* after a read that neither differs from the prefix nor completes it: never.
PollReadVersion(n) ==
    /\ Detecting
    /\ Reads(n, PrefixLen - filled)
    /\ taken' = taken + n
    /\ filled' = filled + n
    /\ version' = IF IsHttp1(filled, n) THEN "Http1" ELSE version
    /\ IF IsHttp1(filled, n) \/ filled' = PrefixLen
       THEN TakeOver(version', filled')
       ELSE UNCHANGED <<state, prefix>>
    /\ UNCHANGED <<protocol, agrees, sent, closed, cancelled, graceful,
                   result, seen, asked, hyperVars>>

\* Mistaken form of graceful_shutdown: the connection ends at once.
graceful_shutdown_at_once ==
    /\ state # "Done"
    /\ asked' = TRUE
    /\ Finish("Interrupted")
    /\ UNCHANGED <<protocol, agrees, sent, closed, taken, filled, version, cancelled,
                   prefix, graceful, seen, hyperVars>>

\* Connecting::graceful_shutdown and UpgradableConnection::graceful_shutdown; the
\* fixed protocols pass the request on to hyper at once.
graceful_shutdown ==
    /\ state # "Done"
    /\ asked' = TRUE
    /\ \/ /\ state = "ReadVersion"
          /\ cancelled' = TRUE
          /\ UNCHANGED graceful
       \/ /\ state \in {"Http1", "Http2"}
          /\ graceful' = TRUE
          /\ UNCHANGED cancelled
    /\ UNCHANGED <<protocol, agrees, sent, closed, taken, state, filled, version, prefix,
                   result, seen, hyperVars>>

-----------------------------------------------------------------------------
Serving == state \in {"Http1", "Http2"}

\* Mistaken form of RewindPrefix: what does not fit is not put back.
RewindOnce(cap) ==
    /\ prefix # <<>>
    /\ seen' = seen \o SubSeq(prefix, 1, Least(Len(prefix), cap))
    /\ prefix' = <<>>
    /\ UNCHANGED taken

\* Rewind::poll_read into room for cap bytes while the prefix lasts.
RewindPrefix(cap) ==
    LET n == Least(Len(prefix), cap)
    IN  /\ prefix # <<>>
        /\ seen' = seen \o SubSeq(prefix, 1, n)
        /\ prefix' = SubSeq(prefix, n + 1, Len(prefix))
        /\ UNCHANGED taken

\* Rewind::poll_read afterwards: the read goes to the socket.
RewindInner(cap) ==
    /\ prefix = <<>>
    /\ \E n \in 1..cap :
          /\ Reads(n, cap)
          /\ seen' = seen \o Interval(taken + 1, taken + n)
          /\ taken' = taken + n
    /\ UNCHANGED prefix

\* HTTP/2: the peer's preface has been read as far as it has to be, or differs.
Established(bytes) == Len(bytes) >= PrefixLen
WrongPreface(bytes) == \E i \in 1..Least(Len(bytes), PrefixLen) : ~agrees[i]

\* hyper was told to shut down and is done.  HTTP/1 has answered all that it took
\* up, or was told before it read anything; a first request whose head is not
\* complete yet is waited for.  HTTP/2 has the answer to its PING.
Drained ==
    /\ graceful /\ requests = 0
    /\ IF state = "Http1" THEN answered \/ seen = <<>> ELSE acked

\* hyper reads, also while it serves requests.  What it reads may complete a request,
\* which HTTP/2 takes up only between its preface and the answer to the PING of its
\* shutdown; it may be that answer; and it may break the protocol.
ConnRead(cap) ==
    /\ Serving /\ ~stopped /\ ~Drained
    /\ RewindPrefix(cap) \/ RewindInner(cap)
    /\ acked' \in {acked, state = "Http2" /\ graceful /\ Established(seen)}
    /\ acked => acked'
    /\ requests' \in requests .. requests + 1
    /\ requests' # requests => state = "Http1" \/ (Established(seen') /\ ~acked)
    /\ stopped' \in BOOLEAN
    /\ state = "Http2" /\ WrongPreface(seen') => stopped'
    /\ UNCHANGED <<protocol, agrees, sent, closed, state, filled, version, cancelled,
                   graceful, answered, result, asked>>

\* The service is done with a request.  In HTTP/1 it may be the last one (the service
\* failed, or the peer wants no keep-alive) and after graceful_shutdown it is: those
\* that wait behind it are not taken up.
Respond ==
    /\ Serving /\ requests > 0
    /\ answered' = TRUE
    /\ \E last \in (IF state = "Http2" THEN {FALSE} ELSE {TRUE, graceful}) :
          /\ requests' = IF last THEN 0 ELSE requests - 1
          /\ stopped' = (stopped \/ last)
    /\ UNCHANGED <<protocol, agrees, sent, closed, taken, state, filled, version,
                   cancelled, prefix, graceful, acked, result, seen, asked>>

\* hyper ends the connection: drained; at the end of the stream, by default also while
\* requests are being served (half_close is off); on an error of the socket; or stopped,
\* HTTP/1 after the request it serves.
ConnEnd ==
    /\ Serving
    /\ \/ Drained /\ Finish("Ok")
       \/ /\ Available = 0 /\ prefix = <<>> /\ closed = "eof"
          /\ Finish("Ok") \/ Finish("Hyper")
       \/ Available = 0 /\ prefix = <<>> /\ closed = "error" /\ Finish("Hyper")
       \/ /\ stopped /\ (state = "Http1" => requests = 0)
          /\ Finish("Ok") \/ Finish("Hyper")
    /\ UNCHANGED <<protocol, agrees, sent, closed, taken, filled, version, cancelled,
                   prefix, graceful, seen, asked, hyperVars>>

\* UpgradableConnection::poll.
poll ==
    \/ PollCancelled
    \/ PollReadError
    \/ \E n \in 0..PrefixLen : PollReadVersion(n)
    \/ \E cap \in 1..ReadCap : ConnRead(cap)
    \/ ConnEnd

Next ==
    \/ \E n \in 1..StreamLen : Arrive(n)
    \/ \E how \in {"eof", "error"} : Close(how)
    \/ graceful_shutdown
    \/ poll
    \/ Respond

Spec == Init /\ [][Next]_vars

\* The server polls the connection when it is woken and after it asked for a
\* shutdown, and handlers answer.  Nothing obliges the peer to send anything, the answer
\* to a PING included, or to close.
FairSpec == Spec /\ WF_vars(poll) /\ WF_vars(Respond)

-----------------------------------------------------------------------------
\* Type invariant: the fields of ReadVersion, Rewind and ConnectionState.
TypeOK ==
    /\ protocol \in {"auto", "http1", "http2"}
    /\ agrees \in [1..PrefixLen -> BOOLEAN]
    /\ sent \in 0..StreamLen /\ taken \in 0..sent
    /\ closed \in {"open", "eof", "error"}
    /\ state \in {"ReadVersion", "Http1", "Http2", "Done"}
    /\ filled \in 0..PrefixLen
    /\ version \in {"Http1", "Http2"}
    /\ cancelled \in BOOLEAN /\ graceful \in BOOLEAN /\ asked \in BOOLEAN
    /\ requests \in Nat
    /\ answered \in BOOLEAN /\ acked \in BOOLEAN /\ stopped \in BOOLEAN
    /\ prefix \in Seq(Nat) /\ seen \in Seq(Nat)
    /\ result \in {"None", "Ok", "Interrupted", "IoError", "Hyper"}

\* The protocol connection reads the peer's stream from its first byte, in
\* order, without loss or repetition, however detection and the later reads
\* split it: what it has read, then what Rewind still holds, is exactly what
\* left the socket (Rewind::poll_read, ReadVersion's to_vec).
StreamIntact ==
    Serving => seen \o prefix = Interval(1, taken)

\* The peer has sent the whole prefix.
PrefaceSent == sent >= PrefixLen /\ \A i \in 1..PrefixLen : agrees[i]

\* The automatic protocol speaks HTTP/2 only to a peer whose first bytes are the
\* whole prefix.
Http2HasPreface ==
    protocol = "auto" /\ state = "Http2" => PrefaceSent

\* A request for graceful shutdown is never lost in the hand-over from
\* detection to the protocol connection: once made, a protocol connection that
\* runs has been told, and none is started for it any more.
ShutdownNotLost == asked /\ Serving => graceful

\* The connection can do nothing until the peer sends: the rest of the head of its first
\* HTTP/1 request, or the rest of the HTTP/2 preface or the answer to the PING.
PeerOwes ==
    /\ closed = "open" /\ Available = 0 /\ prefix = <<>> /\ requests = 0
    /\ \/ state = "Http1" /\ ~answered /\ seen # <<>>
       \/ state = "Http2" /\ ~acked

\* A shutdown request ends the connection, in whatever state it comes, also in
\* detection that waits for a silent peer; the only thing that can keep it is a
\* peer that falls silent in the middle of a message the protocol has to have.
ShutdownEnds == asked ~> (state = "Done" \/ []PeerOwes)

\* A peer that closes its half is not kept waiting: the connection ends, also
\* when the peer closed in the middle of the prefix.
CloseEnds == closed # "open" ~> state = "Done"

\* The connection as the server that drives it sees it: still in detection, serving
\* a protocol, or over.
Served == INSTANCE ServedConnection WITH
    MaxRead <- ReadCap,
    phase <- CASE state = "ReadVersion" -> "undecided"
               [] state = "Done" -> "ended"
               [] OTHER -> state,
    delivered <- seen,
    pending <- requests,
    draining <- asked,
    link <- closed

\* All three kinds of connection implement ServedConnection: one version for good,
\* the peer's bytes from the first one on, and a shutdown (graceful_shutdown, in
\* whatever state it comes) after which no version is settled on any more and which
\* cuts no request off: only the peer does, by closing or breaking the protocol.
ImplementsServed == Served!Spec

\* What the builder says of the automatic protocol (server/builder.rs: "by
\* looking for the HTTP/2 header in the initial bytes of the connection"): a
\* peer that sends the prefix is not served HTTP/1.
PrefaceSelectsHttp2 ==
    protocol = "auto" /\ PrefaceSent => state # "Http1"

=============================================================================
