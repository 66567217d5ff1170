-------------------------- MODULE ServedConnection --------------------------
(***************************************************************************)
(* What a connection promises to the server that drives it.  It settles on *)
(* one HTTP version, unless it was asked to drain before, and stays with   *)
(* it; the protocol reads the peer's bytes from the first one on, in       *)
(* order.  A drain cuts no request off that is being served: only the peer *)
(* does, by closing its half, by a broken link or, in HTTP/2, by breaking  *)
(* the protocol.  How long a drain lasts is the protocol's matter, except  *)
(* before there is one.  UpgradableConnection is shown to implement this   *)
(* module.                                                                 *)
(***************************************************************************)
EXTENDS Naturals, Sequences

CONSTANT MaxRead  \* the largest read of the protocol

VARIABLES phase,     \* "undecided", the HTTP version, or "ended"
          delivered, \* the bytes the protocol has read, by their position
          pending,   \* how many requests are being served or wait their turn
          stopped,   \* does the protocol take nothing more from the peer?
          draining,  \* was the connection asked to end?
          link       \* "open", "eof" or "error"

vars == <<phase, delivered, pending, stopped, draining, link>>

Protocols == {"Http1", "Http2"}

Init ==
    /\ phase \in {"undecided"} \cup Protocols
    /\ delivered = <<>>
    /\ pending = 0
    /\ stopped = FALSE
    /\ draining = FALSE
    /\ link = "open"

Settle(p) ==
    /\ phase = "undecided" /\ ~draining
    /\ phase' = p
    /\ UNCHANGED <<delivered, pending, stopped, draining, link>>

\* The protocol reads the n bytes that come next; they may complete a request, and
\* they may be nothing the protocol knows.
Deliver(n) ==
    /\ phase \in Protocols /\ ~stopped
    /\ delivered' = delivered \o [k \in 1..n |-> Len(delivered) + k]
    /\ pending' \in pending .. pending + 1
    /\ stopped' \in BOOLEAN
    /\ UNCHANGED <<phase, draining, link>>

\* A request is answered.  In HTTP/1 it may be the last one: those that wait behind it
\* are given up and nothing more is read.
Answer ==
    /\ phase \in Protocols /\ pending > 0
    /\ \/ pending' = pending - 1 /\ UNCHANGED stopped
       \/ phase = "Http1" /\ pending' = 0 /\ stopped' = TRUE
    /\ UNCHANGED <<phase, delivered, draining, link>>

Drain ==
    /\ phase # "ended"
    /\ draining' = TRUE
    /\ UNCHANGED <<phase, delivered, pending, stopped, link>>

Lose(how) ==
    /\ link = "open"
    /\ link' = how
    /\ UNCHANGED <<phase, delivered, pending, stopped, draining>>

End ==
    /\ phase # "ended"
    /\ pending > 0 => link # "open" \/ (stopped /\ phase = "Http2")
    /\ phase' = "ended"
    /\ UNCHANGED <<delivered, pending, stopped, draining, link>>

\* The connection has a reason to end that nobody can take away, and nothing to do.
Conclude ==
    /\ pending = 0
    /\ link # "open" \/ (draining /\ phase = "undecided")
    /\ End

Next ==
    \/ \E p \in Protocols : Settle(p)
    \/ \E n \in 1..MaxRead : Deliver(n)
    \/ \E how \in {"eof", "error"} : Lose(how)
    \/ Answer \/ Drain \/ End

\* What the connection never does, and what it does in the end.
Safety == Init /\ [][Next]_vars
Spec == Safety /\ WF_vars(Conclude) /\ WF_vars(Answer)
=============================================================================
