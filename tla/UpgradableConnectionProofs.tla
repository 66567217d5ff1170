--------------------- MODULE UpgradableConnectionProofs ---------------------
(***************************************************************************)
(* Proofs about UpgradableConnection for any length of the prefix, of the  *)
(* peer's stream and of hyper's reads.                                     *)
(***************************************************************************)
EXTENDS UpgradableConnection, SequenceTheorems, TLAPS

\* As long as the version is not known nothing was read, nothing is kept and no
\* request runs, and cancel() has heard of every shutdown that was asked for.
DetectionInv ==
    state = "ReadVersion" =>
        /\ filled = 0 /\ taken = 0 /\ version = "Http2"
        /\ prefix = <<>> /\ seen = <<>>
        /\ requests = 0 /\ ~graceful
        /\ asked => cancelled

\* The inductive invariant.
IInv ==
    /\ TypeOK
    /\ DetectionInv
    /\ StreamIntact
    /\ Http2HasPreface
    /\ ShutdownNotLost

-----------------------------------------------------------------------------
(* Consecutive bytes. *)

\* The bytes from i on, n of them.
LEMMA IntervalFacts ==
    ASSUME NEW i \in Nat, NEW n \in Nat
    PROVE  /\ Interval(i + 1, i + n) = [k \in 1..n |-> i + k]
           /\ Interval(i + 1, i + n) \in Seq(Nat)
           /\ Len(Interval(i + 1, i + n)) = n
<1>1. (IF i + 1 <= i + n THEN (i + n) - (i + 1) + 1 ELSE 0) = n
    OBVIOUS
<1>2. \A k \in 1..n : (i + 1) + k - 1 = i + k
    OBVIOUS
<1>3. Interval(i + 1, i + n) = [k \in 1..n |-> i + k]
    BY <1>1, <1>2 DEF Interval
<1>4. \A k \in 1..n : i + k \in Nat
    OBVIOUS
<1>5. [k \in 1..n |-> i + k] \in Seq(Nat) /\ Len([k \in 1..n |-> i + k]) = n
    BY <1>4
<1> QED BY <1>3, <1>5

\* The bytes from the first one on.
LEMMA FirstBytes ==
    ASSUME NEW n \in Nat
    PROVE  /\ Interval(1, n) \in Seq(Nat) /\ Len(Interval(1, n)) = n
           /\ \A k \in 1..n : Interval(1, n)[k] = k
<1>1. 0 \in Nat /\ 0 + 1 = 1 /\ 0 + n = n /\ \A k \in 1..n : 0 + k = k
    OBVIOUS
<1>2. /\ Interval(0 + 1, 0 + n) = [k \in 1..n |-> 0 + k]
      /\ Interval(0 + 1, 0 + n) \in Seq(Nat) /\ Len(Interval(0 + 1, 0 + n)) = n
    BY IntervalFacts
<1> QED BY <1>1, <1>2

\* A read that continues where the bytes so far end.
LEMMA BytesContinue ==
    ASSUME NEW t \in Nat, NEW n \in Nat
    PROVE  Interval(1, t) \o Interval(t + 1, t + n) = Interval(1, t + n)
<1> DEFINE a == Interval(1, t)
           b == Interval(t + 1, t + n)
           c == Interval(1, t + n)
<1>1. a \in Seq(Nat) /\ Len(a) = t /\ \A k \in 1..t : a[k] = k
    BY FirstBytes
<1>2. b \in Seq(Nat) /\ Len(b) = n /\ \A k \in 1..n : b[k] = t + k
    BY IntervalFacts
<1>3. c \in Seq(Nat) /\ Len(c) = t + n /\ \A k \in 1..(t + n) : c[k] = k
    BY FirstBytes
<1> HIDE DEF a, b, c
<1>4. /\ a \o b \in Seq(Nat) /\ Len(a \o b) = t + n
      /\ \A i \in 1..(t + n) : (a \o b)[i] = IF i <= t THEN a[i] ELSE b[i - t]
    BY <1>1, <1>2, ConcatProperties
<1>5. \A i \in 1..(t + n) : (a \o b)[i] = i
    BY <1>1, <1>2, <1>4
<1>6. a \o b = c
    BY <1>3, <1>4, <1>5, SeqEqual
<1> QED BY <1>6 DEF a, b, c

\* Moving bytes from the front of one sequence to the end of another changes
\* nothing about the two together.
LEMMA MoveBytes ==
    ASSUME NEW s \in Seq(Nat), NEW p \in Seq(Nat), NEW n \in 0..Len(p)
    PROVE  /\ SubSeq(p, 1, n) \in Seq(Nat) /\ SubSeq(p, n + 1, Len(p)) \in Seq(Nat)
           /\ Len(SubSeq(p, 1, n)) = n
           /\ \A k \in 1..n : SubSeq(p, 1, n)[k] = p[k]
           /\ (s \o SubSeq(p, 1, n)) \o SubSeq(p, n + 1, Len(p)) = s \o p
<1> DEFINE b == SubSeq(p, 1, n)
           r == SubSeq(p, n + 1, Len(p))
<1>1. /\ b \in Seq(Nat) /\ r \in Seq(Nat) /\ Len(b) = n
      /\ \A k \in 1..n : b[k] = p[k]
    OBVIOUS
<1>2. b \o r = p
    <2>1. 1 \in 1..(Len(p) + 1) /\ n \in (1 - 1)..Len(p) /\ Len(p) \in n..Len(p)
        OBVIOUS
    <2>2. b \o r = SubSeq(p, 1, Len(p))
        BY <2>1, ConcatAdjacentSubSeq
    <2> QED BY <2>2, SubSeqFull
<1> HIDE DEF b, r
<1>3. (s \o b) \o r = s \o p
    <2> DEFINE sb == s \o b
               left == sb \o r
               right == s \o p
    <2>0. Len(s) \in Nat /\ Len(p) \in Nat /\ Len(r) \in Nat /\ n \in Nat
        BY <1>1
    <2>1. /\ sb \in Seq(Nat) /\ Len(sb) = Len(s) + n
          /\ \A i \in 1..(Len(s) + n) : sb[i] = IF i <= Len(s) THEN s[i] ELSE b[i - Len(s)]
        BY <1>1, ConcatProperties
    <2>2. /\ Len(p) = n + Len(r)
          /\ \A i \in 1..(n + Len(r)) : p[i] = IF i <= n THEN b[i] ELSE r[i - n]
        BY <1>1, <1>2, ConcatProperties
    <2> HIDE DEF sb
    <2>a. sb \in Seq(Nat) /\ r \in Seq(Nat)
        BY <1>1, <2>1
    <2>3. /\ left \in Seq(Nat) /\ Len(left) = Len(sb) + Len(r)
          /\ \A i \in 1..(Len(sb) + Len(r)) :
                left[i] = IF i <= Len(sb) THEN sb[i] ELSE r[i - Len(sb)]
        BY <2>a, ConcatProperties
    <2>4. /\ right \in Seq(Nat) /\ Len(right) = Len(s) + Len(p)
          /\ \A i \in 1..(Len(s) + Len(p)) :
                right[i] = IF i <= Len(s) THEN s[i] ELSE p[i - Len(s)]
        BY ConcatProperties
    <2> HIDE DEF left, right
    <2>5. Len(left) = Len(right)
        BY <2>0, <2>1, <2>2, <2>3, <2>4
    <2>6. \A i \in 1..Len(left) : left[i] = right[i]
        <3> SUFFICES ASSUME NEW i \in 1..Len(left) PROVE left[i] = right[i]
            OBVIOUS
        <3>1. /\ i \in 1..(Len(sb) + Len(r)) /\ i \in 1..(Len(s) + Len(p)) /\ i \in Nat
              /\ i <= Len(s) + n + Len(r)
            BY <2>0, <2>1, <2>2, <2>3
        <3>2. /\ left[i] = IF i <= Len(s) + n THEN sb[i] ELSE r[i - (Len(s) + n)]
              /\ right[i] = IF i <= Len(s) THEN s[i] ELSE p[i - Len(s)]
            BY <2>1, <2>3, <2>4, <3>1
        <3>3. CASE i <= Len(s)
            <4>1. i \in 1..(Len(s) + n) /\ i <= Len(s) + n
                BY <2>0, <3>1, <3>3
            <4>2. sb[i] = s[i]
                BY <2>1, <3>3, <4>1
            <4> QED BY <3>2, <3>3, <4>1, <4>2
        <3>4. CASE ~(i <= Len(s)) /\ i <= Len(s) + n
            <4>1. /\ i \in 1..(Len(s) + n) /\ i - Len(s) \in 1..(n + Len(r))
                  /\ i - Len(s) <= n
                BY <2>0, <3>1, <3>4
            <4>2. sb[i] = b[i - Len(s)]
                BY <2>1, <3>4, <4>1
            <4>3. p[i - Len(s)] = b[i - Len(s)]
                BY <2>2, <4>1
            <4> QED BY <3>2, <3>4, <4>2, <4>3
        <3>5. CASE ~(i <= Len(s) + n)
            <4>1. /\ i - Len(s) \in 1..(n + Len(r)) /\ ~(i - Len(s) <= n) /\ ~(i <= Len(s))
                  /\ (i - Len(s)) - n = i - (Len(s) + n)
                BY <2>0, <3>1, <3>5
            <4>2. p[i - Len(s)] = r[(i - Len(s)) - n]
                BY <2>2, <4>1
            <4> QED BY <3>2, <3>5, <4>1, <4>2
        <3> QED BY <3>3, <3>4, <3>5
    <2>7. left = right
        BY <2>3, <2>4, <2>5, <2>6, SeqEqual
    <2> QED BY <2>7 DEF left, right, sb
<1> QED BY <1>1, <1>3 DEF b, r

-----------------------------------------------------------------------------
(* The invariant. *)

\* A connection that has just been accepted.
LEMMA InitIInv == Init => IInv
<1> SUFFICES ASSUME Init PROVE IInv
    OBVIOUS
<1>1. TypeOK
    <2>1. /\ protocol \in {"auto", "http1", "http2"}
          /\ state \in {"ReadVersion", "Http1", "Http2", "Done"}
        BY DEF Init, ServeAuto, ServeHttp1, ServeHttp2
    <2>2. /\ sent \in 0..StreamLen /\ taken \in 0..sent /\ filled \in 0..PrefixLen
          /\ prefix \in Seq(Nat) /\ seen \in Seq(Nat)
        BY UpgradableConnectionAssumption, EmptySeq DEF Init, new
    <2>3. /\ agrees \in [1..PrefixLen -> BOOLEAN] /\ closed \in {"open", "eof", "error"}
          /\ version \in {"Http1", "Http2"} /\ cancelled \in BOOLEAN
          /\ graceful \in BOOLEAN /\ asked \in BOOLEAN /\ requests \in Nat
          /\ answered \in BOOLEAN /\ acked \in BOOLEAN /\ stopped \in BOOLEAN
          /\ result \in {"None", "Ok", "Interrupted", "IoError", "Hyper"}
        BY DEF Init, new
    <2> QED BY <2>1, <2>2, <2>3 DEF TypeOK
<1>2. DetectionInv /\ Http2HasPreface /\ ShutdownNotLost
    BY DEF Init, DetectionInv, Http2HasPreface, ShutdownNotLost, new, ServeAuto, ServeHttp1,
           ServeHttp2
<1>3. StreamIntact
    <2>1. Interval(1, 0) \in Seq(Nat) /\ Len(Interval(1, 0)) = 0
        BY FirstBytes
    <2>2. Interval(1, 0) = <<>> /\ <<>> \o <<>> = <<>>
        BY <2>1
    <2> QED BY <2>2 DEF Init, StreamIntact
<1> QED BY <1>1, <1>2, <1>3 DEF IInv

\* The steps of the network and of the server beside the poll: bytes arrive, the
\* peer closes, a shutdown is asked for, a request is answered.
LEMMA OutsideIInv ==
    ASSUME IInv,
           \/ \E n \in 1..StreamLen : Arrive(n)
           \/ \E how \in {"eof", "error"} : Close(how)
           \/ graceful_shutdown
           \/ Respond
    PROVE  IInv'
<1> USE DEF IInv
<1>1. /\ UNCHANGED <<protocol, agrees, taken, state, filled, version, prefix, result, seen>>
      /\ sent' \in sent..StreamLen
    <2>1. CASE Respond
        <3>1. /\ UNCHANGED <<protocol, agrees, taken, state, filled, version, prefix, result, seen>>
              /\ sent' = sent
            BY <2>1 DEF Respond
        <3> QED BY <3>1, UpgradableConnectionAssumption DEF TypeOK
    <2>2. CASE ~Respond
        BY <2>2, UpgradableConnectionAssumption DEF TypeOK, Arrive, Close, graceful_shutdown
    <2> QED BY <2>1, <2>2
<1>2. TypeOK'
    <2>1. sent' \in 0..StreamLen /\ taken' \in 0..sent'
        BY <1>1, UpgradableConnectionAssumption DEF TypeOK
    <2>2. /\ closed' \in {"open", "eof", "error"} /\ cancelled' \in BOOLEAN
          /\ graceful' \in BOOLEAN /\ asked' \in BOOLEAN
        BY DEF TypeOK, Arrive, Close, graceful_shutdown, Respond
    <2>3. /\ requests' \in Nat /\ answered' \in BOOLEAN /\ acked' \in BOOLEAN
          /\ stopped' \in BOOLEAN
        <3>1. CASE Respond
            <4>1. /\ requests \in Nat /\ requests > 0 /\ answered' = TRUE /\ acked' = acked
                  /\ requests' = 0 \/ requests' = requests - 1
                BY <3>1 DEF TypeOK, Respond
            <4>2. stopped' \in BOOLEAN
                BY <3>1 DEF Respond
            <4> QED BY <4>1, <4>2 DEF TypeOK
        <3>2. CASE UNCHANGED hyperVars
            BY <3>2 DEF TypeOK, hyperVars
        <3> QED BY <3>1, <3>2 DEF Arrive, Close, graceful_shutdown
    <2> QED BY <1>1, <2>1, <2>2, <2>3 DEF TypeOK
<1>3. DetectionInv'
    BY <1>1 DEF DetectionInv, Arrive, Close, graceful_shutdown, Respond, TypeOK, Serving,
                hyperVars
<1>4. StreamIntact'
    BY <1>1 DEF StreamIntact, Serving
<1>5. Http2HasPreface'
    BY <1>1, UpgradableConnectionAssumption DEF TypeOK, Http2HasPreface, PrefaceSent
<1>6. ShutdownNotLost'
    BY <1>1 DEF ShutdownNotLost, Serving, Arrive, Close, graceful_shutdown, Respond, TypeOK
<1> QED BY <1>2, <1>3, <1>4, <1>5, <1>6

\* Every way in which poll returns Ready.
LEMMA FinishIInv ==
    ASSUME IInv, PollCancelled \/ PollReadError \/ ConnEnd
    PROVE  IInv'
<1>1. /\ UNCHANGED <<protocol, agrees, sent, closed, taken, filled, version, cancelled,
                     prefix, graceful, seen, asked, requests, answered, acked, stopped>>
      /\ state' = "Done" /\ result' \in {"Ok", "Interrupted", "IoError", "Hyper"}
    BY DEF PollCancelled, PollReadError, ConnEnd, Finish, hyperVars
<1>2. TypeOK'
    BY <1>1 DEF IInv, TypeOK
<1> QED BY <1>1, <1>2
        DEF IInv, DetectionInv, StreamIntact, Serving, Http2HasPreface,
            ShutdownNotLost

\* The read of detection: the one read settles the version, HTTP/2 only if it was
\* the whole prefix, and the protocol gets back all that was read.
LEMMA DetectIInv ==
    ASSUME IInv, NEW n \in 0..PrefixLen, PollReadVersion(n)
    PROVE  IInv' /\ state' \in {"Http1", "Http2"} /\ ~asked
<1>1. /\ state = "ReadVersion" /\ ~cancelled /\ Reads(n, PrefixLen - filled)
      /\ taken' = taken + n /\ filled' = filled + n
      /\ UNCHANGED <<protocol, agrees, sent, closed, cancelled, graceful, result, seen,
                     asked, requests, answered, acked, stopped>>
    BY DEF PollReadVersion, Detecting, hyperVars
<1>2. /\ filled = 0 /\ taken = 0 /\ version = "Http2" /\ prefix = <<>> /\ seen = <<>>
      /\ requests = 0 /\ ~graceful /\ ~asked
    BY <1>1 DEF IInv, DetectionInv, TypeOK
<1>3. n <= sent /\ n \in Nat /\ sent \in Nat /\ PrefixLen \in Nat \ {0}
    BY <1>1, <1>2, UpgradableConnectionAssumption DEF IInv, TypeOK, Reads, Available, Least
<1>4. IsHttp1(filled, n) \/ filled' = PrefixLen
    BY <1>1, <1>2, <1>3 DEF IsHttp1, NotPrefix
<1>5. /\ version' = IF IsHttp1(filled, n) THEN "Http1" ELSE "Http2"
      /\ state' = version' /\ prefix' = Interval(1, n)
    BY <1>1, <1>2, <1>3, <1>4 DEF PollReadVersion, TakeOver
<1>6. prefix' \in Seq(Nat) /\ <<>> \o prefix' = prefix' /\ <<>> \in Seq(Nat)
    BY <1>3, <1>5, FirstBytes, ConcatEmptySeq, EmptySeq
<1>7. TypeOK'
    BY <1>1, <1>2, <1>3, <1>5, <1>6 DEF IInv, TypeOK
<1>8. StreamIntact'
    BY <1>1, <1>2, <1>3, <1>5, <1>6 DEF StreamIntact
<1>9. Http2HasPreface'
    <2>1. ASSUME ~IsHttp1(filled, n) PROVE n = PrefixLen /\ \A i \in 1..PrefixLen : agrees[i]
        BY <1>2, <1>3, <2>1 DEF IsHttp1, NotPrefix
    <2> QED BY <1>1, <1>3, <1>5, <2>1 DEF Http2HasPreface, PrefaceSent
<1>10. /\ DetectionInv' /\ ShutdownNotLost'
       /\ state' \in {"Http1", "Http2"}
    BY <1>1, <1>2, <1>5 DEF DetectionInv, ShutdownNotLost
<1> QED BY <1>2, <1>7, <1>8, <1>9, <1>10 DEF IInv

\* hyper reads the bytes that come next, out of Rewind first and from the socket
\* after it.
LEMMA ReadIInv ==
    ASSUME IInv, NEW cap \in 1..ReadCap, ConnRead(cap)
    PROVE  /\ IInv'
           /\ \E n \in 1..ReadCap : seen' = seen \o [k \in 1..n |-> Len(seen) + k]
<1>1. /\ Serving
      /\ UNCHANGED <<protocol, agrees, sent, closed, state, filled, version, cancelled,
                     graceful, answered, result, asked>>
    BY DEF ConnRead
<1>a. requests' \in Nat /\ acked' \in BOOLEAN /\ stopped' \in BOOLEAN
    <2>1. requests \in Nat /\ requests' \in requests .. requests + 1 /\ stopped' \in BOOLEAN
        BY DEF ConnRead, IInv, TypeOK
    <2>2. acked' \in BOOLEAN
        BY DEF ConnRead, IInv, TypeOK
    <2> QED BY <2>1, <2>2
<1>2. /\ seen \in Seq(Nat) /\ prefix \in Seq(Nat) /\ taken \in Nat /\ sent \in Nat
      /\ taken <= sent /\ seen \o prefix = Interval(1, taken)
      /\ ReadCap \in Nat /\ cap \in Nat \ {0} /\ cap <= ReadCap
    BY <1>1, UpgradableConnectionAssumption DEF IInv, TypeOK, StreamIntact
<1>3. ASSUME RewindPrefix(cap)
      PROVE  /\ seen' \in Seq(Nat) /\ prefix' \in Seq(Nat)
             /\ taken' \in 0..sent /\ seen' \o prefix' = Interval(1, taken')
             /\ \E n \in 1..ReadCap : seen' = seen \o [k \in 1..n |-> Len(seen) + k]
    <2> DEFINE n == Least(Len(prefix), cap)
    <2>1. /\ prefix # <<>> /\ taken' = taken
          /\ seen' = seen \o SubSeq(prefix, 1, n)
          /\ prefix' = SubSeq(prefix, n + 1, Len(prefix))
        BY <1>3 DEF RewindPrefix
    <2>2. Len(prefix) \in Nat /\ Len(prefix) # 0
        BY <1>2, <2>1
    <2>3. n \in 1..ReadCap /\ n \in 0..Len(prefix)
        BY <1>2, <2>2 DEF Least
    <2> HIDE DEF n
    <2>4. /\ SubSeq(prefix, 1, n) \in Seq(Nat) /\ SubSeq(prefix, n + 1, Len(prefix)) \in Seq(Nat)
          /\ Len(SubSeq(prefix, 1, n)) = n
          /\ \A k \in 1..n : SubSeq(prefix, 1, n)[k] = prefix[k]
          /\ (seen \o SubSeq(prefix, 1, n)) \o SubSeq(prefix, n + 1, Len(prefix)) = seen \o prefix
        BY <1>2, <2>3, MoveBytes
    <2>5. seen' \in Seq(Nat)
        BY <1>2, <2>1, <2>4
    <2>6. \A k \in 1..n : prefix[k] = Len(seen) + k
        <3>1. TAKE k \in 1..n
        <3>2. /\ Len(seen) \in Nat /\ Len(seen \o prefix) = Len(seen) + Len(prefix)
              /\ Len(seen) + k \in 1..Len(seen \o prefix)
              /\ (seen \o prefix)[Len(seen) + k] = prefix[k]
            BY <1>2, <2>3
        <3>3. Len(seen \o prefix) = taken /\ \A i \in 1..taken : (seen \o prefix)[i] = i
            BY <1>2, FirstBytes
        <3> QED BY <3>2, <3>3
    <2>7. SubSeq(prefix, 1, n) = [k \in 1..n |-> Len(seen) + k]
        <3> DEFINE x == SubSeq(prefix, 1, n)
                   y == [k \in 1..n |-> Len(seen) + k]
        <3>1. x \in Seq(Nat) /\ Len(x) = n
            BY <2>4
        <3>2. \A k \in 1..n : x[k] = Len(seen) + k
            BY <2>4, <2>6
        <3>3. y \in Seq(Nat) /\ Len(y) = n /\ \A k \in 1..n : y[k] = Len(seen) + k
            BY <1>2, <2>3
        <3> HIDE DEF x, y
        <3>4. x = y
            BY <3>1, <3>2, <3>3, SeqEqual
        <3> QED BY <3>4 DEF x, y
    <2>8. taken' \in 0..sent /\ seen' \o prefix' = Interval(1, taken')
        <3> HIDE DEF n
        <3>1. seen' \o prefix' = seen \o prefix
            BY <2>1, <2>4, Zenon
        <3>2. taken' = taken
            BY <2>1
        <3> QED BY <1>2, <3>1, <3>2
    <2>9. seen' = seen \o [k \in 1..n |-> Len(seen) + k]
        BY <2>1, <2>7
    <2> QED BY <2>1, <2>3, <2>4, <2>5, <2>8, <2>9
<1>4. ASSUME RewindInner(cap)
      PROVE  /\ seen' \in Seq(Nat) /\ prefix' \in Seq(Nat)
             /\ taken' \in 0..sent /\ seen' \o prefix' = Interval(1, taken')
             /\ \E n \in 1..ReadCap : seen' = seen \o [k \in 1..n |-> Len(seen) + k]
    <2>1. PICK n \in 1..cap : /\ Reads(n, cap)
                              /\ seen' = seen \o Interval(taken + 1, taken + n)
                              /\ taken' = taken + n
        BY <1>4 DEF RewindInner
    <2>2. prefix = <<>> /\ prefix' = <<>>
        BY <1>4 DEF RewindInner
    <2>3. n \in Nat /\ n \in 1..ReadCap /\ taken + n \in 0..sent
        BY <1>2, <2>1 DEF Reads, Available, Least
    <2>4. seen = Interval(1, taken) /\ Len(seen) = taken
        <3>1. seen \o <<>> = seen
            BY <1>2, ConcatEmptySeq
        <3> QED BY <1>2, <2>2, <3>1, FirstBytes
    <2>5. seen' = Interval(1, taken + n)
        BY <1>2, <2>1, <2>3, <2>4, BytesContinue
    <2>6. seen' \in Seq(Nat) /\ seen' \o <<>> = seen'
        <3>1. seen' \in Seq(Nat)
            BY <1>2, <2>3, <2>5, FirstBytes
        <3> QED BY <3>1, ConcatEmptySeq
    <2>7. Interval(taken + 1, taken + n) = [k \in 1..n |-> Len(seen) + k]
        <3>1. Interval(taken + 1, taken + n) = [k \in 1..n |-> taken + k]
            BY <1>2, <2>3, IntervalFacts
        <3> QED BY <2>4, <3>1
    <2> QED BY <1>2, <2>1, <2>2, <2>3, <2>5, <2>6, <2>7
<1>5. /\ seen' \in Seq(Nat) /\ prefix' \in Seq(Nat)
      /\ taken' \in 0..sent /\ seen' \o prefix' = Interval(1, taken')
      /\ \E n \in 1..ReadCap : seen' = seen \o [k \in 1..n |-> Len(seen) + k]
    BY <1>3, <1>4 DEF ConnRead
<1>6. TypeOK'
    BY <1>1, <1>a, <1>5 DEF IInv, TypeOK
<1>7. StreamIntact'
    BY <1>5 DEF StreamIntact
<1>8. DetectionInv' /\ Http2HasPreface' /\ ShutdownNotLost'
    BY <1>1 DEF IInv, DetectionInv, Http2HasPreface, PrefaceSent, ShutdownNotLost, Serving
<1> QED BY <1>5, <1>6, <1>7, <1>8 DEF IInv

\* Every step keeps the invariant.
LEMMA NextIInv == IInv /\ [Next]_vars => IInv'
<1> SUFFICES ASSUME IInv, [Next]_vars PROVE IInv'
    OBVIOUS
<1>1. CASE UNCHANGED vars
    BY <1>1 DEF vars, IInv, TypeOK, DetectionInv, StreamIntact, Serving, Http2HasPreface,
                PrefaceSent, ShutdownNotLost
<1>2. CASE \/ \E n \in 1..StreamLen : Arrive(n)
           \/ \E how \in {"eof", "error"} : Close(how)
           \/ graceful_shutdown
           \/ Respond
    BY <1>2, OutsideIInv
<1>3. CASE PollCancelled \/ PollReadError \/ ConnEnd
    BY <1>3, FinishIInv
<1>4. CASE \E n \in 0..PrefixLen : PollReadVersion(n)
    BY <1>4, DetectIInv
<1>5. CASE \E cap \in 1..ReadCap : ConnRead(cap)
    BY <1>5, ReadIInv
<1> QED BY <1>1, <1>2, <1>3, <1>4, <1>5, Zenon DEF Next, poll

\* The inductive invariant holds in every reachable state.
THEOREM IInvInvariant == Spec => []IInv
    BY InitIInv, NextIInv, PTL DEF Spec

\* The fields of ReadVersion, Rewind and ConnectionState keep their types.
THEOREM TypeCorrect == Spec => []TypeOK
<1>1. IInv => TypeOK
    BY DEF IInv
<1> QED BY <1>1, IInvInvariant, PTL

\* Rewind: the protocol reads the peer's stream from its first byte, nothing lost,
\* repeated or reordered, whatever the length of the prefix, of the stream, of the
\* read of detection and of hyper's buffers.
THEOREM StreamAlwaysIntact == Spec => []StreamIntact
<1>1. IInv => StreamIntact
    BY DEF IInv
<1> QED BY <1>1, IInvInvariant, PTL

\* The automatic protocol speaks HTTP/2 only after the whole prefix.
THEOREM Http2AlwaysHasPreface == Spec => []Http2HasPreface
<1>1. IInv => Http2HasPreface
    BY DEF IInv
<1> QED BY <1>1, IInvInvariant, PTL

\* A shutdown asked for in detection or while serving is known to whatever
\* protocol runs.
THEOREM ShutdownNeverLost == Spec => []ShutdownNotLost
<1>1. IInv => ShutdownNotLost
    BY DEF IInv
<1> QED BY <1>1, IInvInvariant, PTL

-----------------------------------------------------------------------------
(* UpgradableConnection implements the safety part of ServedConnection. *)

\* The phase that ServedConnection knows.
PhaseOf(s) ==
    CASE s = "ReadVersion" -> "undecided"
      [] s = "Done" -> "ended"
      [] OTHER -> s

\* The phase of each state.
LEMMA Phases ==
    /\ PhaseOf("ReadVersion") = "undecided"
    /\ PhaseOf("Done") = "ended"
    /\ PhaseOf("Http1") = "Http1"
    /\ PhaseOf("Http2") = "Http2"
    BY DEF PhaseOf

\* A connection that has just been accepted has promised nothing yet.
LEMMA InitServed == Init => Served!Init
<1> SUFFICES ASSUME Init PROVE Served!Init
    OBVIOUS
<1>1. state \in {"ReadVersion", "Http1", "Http2"}
    BY DEF Init, ServeAuto, ServeHttp1, ServeHttp2
<1>2. PhaseOf(state) \in {"undecided"} \cup {"Http1", "Http2"}
    BY <1>1, Phases
<1> QED BY <1>2 DEF Init, Served!Init, Served!Protocols, PhaseOf

\* Every step is a step of ServedConnection or leaves what it sees alone.
LEMMA NextServed == IInv /\ [Next]_vars => [Served!Next]_(Served!vars)
<1> SUFFICES ASSUME IInv, [Next]_vars PROVE Served!Next \/ UNCHANGED Served!vars
    OBVIOUS
<1> DEFINE ph == PhaseOf(state)
           phn == PhaseOf(state')
<1>1. CASE UNCHANGED vars \/ \E n \in 1..StreamLen : Arrive(n)
    <2>1. UNCHANGED <<state, seen, requests, stopped, asked, closed>>
        BY <1>1 DEF vars, Arrive, hyperVars
    <2> QED BY <2>1 DEF Served!vars
<1>2. CASE \E how \in {"eof", "error"} : Close(how)
    <2>1. PICK how \in {"eof", "error"} : Close(how)
        BY <1>2
    <2>2. Served!Lose(how)
        BY <2>1 DEF Close, Served!Lose, hyperVars
    <2> QED BY <2>2 DEF Served!Next
<1>3. CASE graceful_shutdown
    <2>1. /\ state # "Done" /\ asked' = TRUE
          /\ UNCHANGED <<state, requests, stopped, seen, closed>>
        BY <1>3 DEF graceful_shutdown, hyperVars
    <2>2. PhaseOf(state) # "ended"
        BY <2>1, Phases DEF IInv, TypeOK
    <2>3. Served!Drain
        BY <2>1, <2>2 DEF Served!Drain, PhaseOf
    <2> QED BY <2>3 DEF Served!Next
<1>4. CASE PollCancelled \/ PollReadError \/ ConnEnd
    <2>1. /\ state # "Done" /\ state' = "Done"
          /\ UNCHANGED <<requests, stopped, seen, closed, asked>>
        BY <1>4 DEF PollCancelled, PollReadError, ConnEnd, Finish, Serving, Detecting, hyperVars
    <2>2. requests > 0 => closed # "open" \/ (stopped /\ state = "Http2")
        <3>1. CASE PollCancelled \/ PollReadError
            <4>1. requests = 0
                BY <3>1 DEF PollCancelled, PollReadError, Detecting, IInv, DetectionInv
            <4> QED BY <4>1
        <3>2. CASE ConnEnd
            <4>1. state \in {"Http1", "Http2"}
                BY <3>2 DEF ConnEnd, Serving
            <4> QED BY <3>2, <4>1 DEF ConnEnd, Drained
        <3> QED BY <1>4, <3>1, <3>2
    <2>3. /\ PhaseOf(state) # "ended" /\ PhaseOf(state') = "ended"
          /\ state = "Http2" => PhaseOf(state) = "Http2"
        BY <2>1, Phases DEF IInv, TypeOK
    <2>4. Served!End
        BY <2>1, <2>2, <2>3 DEF Served!End, PhaseOf
    <2> QED BY <2>4 DEF Served!Next
<1>5. CASE \E n \in 0..PrefixLen : PollReadVersion(n)
    <2>1. PICK n \in 0..PrefixLen : PollReadVersion(n)
        BY <1>5
    <2>2. state = "ReadVersion" /\ UNCHANGED <<requests, stopped, seen, closed, asked>>
        BY <2>1 DEF PollReadVersion, Detecting, hyperVars
    <2>3. state' \in {"Http1", "Http2"} /\ ~asked
        BY <2>1, DetectIInv
    <2>4. PhaseOf(state) = "undecided" /\ PhaseOf(state') = state'
        BY <2>2, <2>3, Phases
    <2>5. Served!Settle(state')
        BY <2>2, <2>3, <2>4 DEF Served!Settle, PhaseOf
    <2> QED BY <2>3, <2>5 DEF Served!Next, Served!Protocols
<1>6. CASE \E cap \in 1..ReadCap : ConnRead(cap)
    <2>1. PICK cap \in 1..ReadCap : ConnRead(cap)
        BY <1>6
    <2>2. PICK n \in 1..ReadCap : seen' = seen \o [k \in 1..n |-> Len(seen) + k]
        BY <2>1, ReadIInv
    <2>3. /\ state \in {"Http1", "Http2"} /\ ~stopped /\ stopped' \in BOOLEAN
          /\ requests' \in requests .. requests + 1
          /\ UNCHANGED <<state, closed, asked>>
        BY <2>1 DEF ConnRead, Serving
    <2>4. PhaseOf(state) = state
        BY <2>3, Phases
    <2>5. Served!Deliver(n)
        BY <2>2, <2>3, <2>4 DEF Served!Deliver, Served!Protocols, PhaseOf
    <2> QED BY <2>5 DEF Served!Next
<1>7. CASE Respond
    <2>1. /\ state \in {"Http1", "Http2"} /\ requests > 0
          /\ UNCHANGED <<state, closed, asked, seen>>
        BY <1>7 DEF Respond, Serving
    <2>2. PhaseOf(state) = state
        BY <2>1, Phases
    <2>3. \/ requests' = requests - 1 /\ stopped' = stopped
          \/ state = "Http1" /\ requests' = 0 /\ stopped' = TRUE
        <3>1. PICK last \in (IF state = "Http2" THEN {FALSE} ELSE {TRUE, graceful}) :
                 /\ requests' = IF last THEN 0 ELSE requests - 1
                 /\ stopped' = (stopped \/ last)
            BY <1>7 DEF Respond
        <3>2. last \in BOOLEAN /\ stopped \in BOOLEAN
            BY <3>1 DEF IInv, TypeOK
        <3>3. CASE last
            BY <2>1, <3>1, <3>2, <3>3
        <3>4. CASE ~last
            BY <3>1, <3>2, <3>4
        <3> QED BY <3>2, <3>3, <3>4
    <2>4. Served!Answer
        BY <2>1, <2>2, <2>3 DEF Served!Answer, Served!Protocols, PhaseOf
    <2> QED BY <2>4 DEF Served!Next
<1> QED BY <1>1, <1>2, <1>3, <1>4, <1>5, <1>6, <1>7, Zenon DEF Next, poll

\* All three kinds of connection implement what ServedConnection says a connection
\* never does: it keeps its version, settles on none after a shutdown was asked for,
\* delivers the peer's bytes from the first one on, and ends over a request that is
\* being served only when the peer has closed, the link broke or HTTP/2 was violated.
THEOREM ImplementsServedSafety == Spec => Served!Safety
    BY InitServed, NextServed, IInvInvariant, PTL DEF Spec, Served!Safety

=============================================================================
