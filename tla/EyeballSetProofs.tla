-------------------------- MODULE EyeballSetProofs --------------------------
(***************************************************************************)
(* Proofs about EyeballSet for any set of attempts and any number of       *)
(* calls of finish().                                                      *)
(***************************************************************************)
EXTENDS EyeballSet, SequenceTheorems, FiniteSetTheorems, TLAPS

\* No element occurs twice.
Distinct(s) == \A i, j \in DOMAIN s : s[i] = s[j] => i = j

-----------------------------------------------------------------------------
(* What Elems and Distinct make of the operations on sequences. *)

\* Membership in the elements of a sequence, by position.
LEMMA ElemsMember ==
    ASSUME NEW S, NEW s \in Seq(S), NEW x
    PROVE  x \in Elems(s) <=> \E i \in 1..Len(s) : x = s[i]
<1>1. DOMAIN s = 1..Len(s)
    OBVIOUS
<1> QED BY <1>1 DEF Elems

\* The elements of a sequence are of its type.
LEMMA ElemsType ==
    ASSUME NEW S, NEW s \in Seq(S)
    PROVE  Elems(s) \subseteq S
<1>1. \A i \in 1..Len(s) : s[i] \in S
    OBVIOUS
<1> QED BY <1>1, ElemsMember

\* Appending adds one element.
LEMMA ElemsAppend ==
    ASSUME NEW S, NEW s \in Seq(S), NEW x \in S
    PROVE  /\ Append(s, x) \in Seq(S)
           /\ Elems(Append(s, x)) = Elems(s) \cup {x}
<1>1. /\ Append(s, x) \in Seq(S) /\ Len(s) \in Nat /\ Len(Append(s, x)) = Len(s) + 1
      /\ \A i \in 1..Len(s) : Append(s, x)[i] = s[i]
      /\ Append(s, x)[Len(s) + 1] = x
    OBVIOUS
<1>2. \A i : i \in 1..(Len(s) + 1) <=> i \in 1..Len(s) \/ i = Len(s) + 1
    BY <1>1
<1>3. ASSUME NEW y PROVE y \in Elems(Append(s, x)) <=> y \in Elems(s) \cup {x}
    <2> DEFINE u == Append(s, x)
    <2>1. y \in Elems(u) <=> \E i \in 1..Len(u) : y = u[i]
        <3>1. u \in Seq(S)
            OBVIOUS
        <3> HIDE DEF u
        <3> QED BY <3>1, ElemsMember
    <2>2. y \in Elems(s) <=> \E i \in 1..Len(s) : y = s[i]
        BY ElemsMember
    <2> QED BY <1>1, <1>2, <2>1, <2>2
<1> QED BY <1>1, <1>3

\* Concatenation joins the elements.
LEMMA ElemsConcat ==
    ASSUME NEW S, NEW s \in Seq(S), NEW t \in Seq(S)
    PROVE  /\ s \o t \in Seq(S)
           /\ Elems(s \o t) = Elems(s) \cup Elems(t)
<1>1. /\ s \o t \in Seq(S) /\ Len(s) \in Nat /\ Len(t) \in Nat
      /\ Len(s \o t) = Len(s) + Len(t)
      /\ \A i \in 1..Len(s) : (s \o t)[i] = s[i]
      /\ \A i \in 1..Len(t) : (s \o t)[Len(s) + i] = t[i]
    OBVIOUS
<1> DEFINE u == s \o t
<1>u. ASSUME NEW y PROVE y \in Elems(u) <=> \E i \in 1..Len(u) : y = u[i]
    <2>1. u \in Seq(S)
        BY <1>1
    <2> HIDE DEF u
    <2> QED BY <2>1, ElemsMember
<1>2. ASSUME NEW y PROVE y \in Elems(s \o t) => y \in Elems(s) \cup Elems(t)
    <2>1. SUFFICES ASSUME NEW i \in 1..(Len(s) + Len(t)), y = (s \o t)[i]
                   PROVE  y \in Elems(s) \cup Elems(t)
        BY <1>1, <1>u
    <2>2. CASE i \in 1..Len(s)
        BY <1>1, <2>1, <2>2, ElemsMember
    <2>3. CASE i \notin 1..Len(s)
        <3>1. i - Len(s) \in 1..Len(t) /\ Len(s) + (i - Len(s)) = i
            BY <1>1, <2>3
        <3>2. y = t[i - Len(s)]
            BY <1>1, <2>1, <3>1
        <3> QED BY <3>1, <3>2, ElemsMember
    <2> QED BY <2>2, <2>3
<1>3. ASSUME NEW y PROVE y \in Elems(s) => y \in Elems(s \o t)
    <2>1. SUFFICES ASSUME NEW i \in 1..Len(s), y = s[i] PROVE y \in Elems(s \o t)
        BY ElemsMember
    <2>2. i \in 1..(Len(s) + Len(t)) /\ (s \o t)[i] = y
        BY <1>1, <2>1
    <2> QED BY <1>1, <1>u, <2>2
<1>4. ASSUME NEW y PROVE y \in Elems(t) => y \in Elems(s \o t)
    <2>1. SUFFICES ASSUME NEW i \in 1..Len(t), y = t[i] PROVE y \in Elems(s \o t)
        BY ElemsMember
    <2>2. Len(s) + i \in 1..(Len(s) + Len(t)) /\ (s \o t)[Len(s) + i] = y
        BY <1>1, <2>1
    <2> QED BY <1>1, <1>u, <2>2
<1> QED BY <1>1, <1>2, <1>3, <1>4

\* A batch taken from the front of a sequence, and the rest.
LEMMA ElemsSplit ==
    ASSUME NEW S, NEW s \in Seq(S), NEW n \in 0..Len(s)
    PROVE  LET b == SubSeq(s, 1, n)
               r == SubSeq(s, n + 1, Len(s))
           IN  /\ b \in Seq(S) /\ r \in Seq(S) /\ Len(r) = Len(s) - n
               /\ Elems(s) = Elems(b) \cup Elems(r)
               /\ Distinct(s) => Distinct(r) /\ Elems(b) \cap Elems(r) = {}
<1> DEFINE b == SubSeq(s, 1, n)
           r == SubSeq(s, n + 1, Len(s))
<1>1. /\ DOMAIN s = 1..Len(s) /\ Len(s) \in Nat /\ n \in Nat /\ n <= Len(s)
      /\ b \in Seq(S) /\ r \in Seq(S)
      /\ Len(b) = n /\ Len(r) = Len(s) - n
      /\ DOMAIN r = 1..(Len(s) - n)
      /\ \A i \in 1..n : b[i] = s[i]
      /\ \A i \in 1..(Len(s) - n) : r[i] = s[n + i]
    OBVIOUS
<1> HIDE DEF b, r
<1>2. ASSUME NEW y PROVE y \in Elems(b) <=> \E i \in 1..n : y = s[i]
    <2>1. y \in Elems(b) <=> \E i \in 1..Len(b) : y = b[i]
        <3>1. b \in Seq(S)
            BY <1>1
        <3> QED BY <3>1, ElemsMember
    <2> QED BY <1>1, <2>1
<1>3. ASSUME NEW y PROVE y \in Elems(r) <=> \E i \in 1..(Len(s) - n) : y = s[n + i]
    <2>1. y \in Elems(r) <=> \E i \in 1..Len(r) : y = r[i]
        <3>1. r \in Seq(S)
            BY <1>1
        <3> QED BY <3>1, ElemsMember
    <2> QED BY <1>1, <2>1
<1>4. ASSUME NEW y PROVE y \in Elems(s) => y \in Elems(b) \cup Elems(r)
    <2>1. SUFFICES ASSUME NEW i \in 1..Len(s), y = s[i] PROVE y \in Elems(b) \cup Elems(r)
        BY ElemsMember
    <2>2. CASE i \in 1..n
        BY <1>2, <2>1, <2>2
    <2>3. CASE i \notin 1..n
        <3>1. i - n \in 1..(Len(s) - n) /\ n + (i - n) = i
            BY <1>1, <2>3
        <3> QED BY <1>3, <2>1, <3>1
    <2> QED BY <2>2, <2>3
<1>5. ASSUME NEW y PROVE y \in Elems(b) \cup Elems(r) => y \in Elems(s)
    <2>1. ASSUME NEW i \in 1..n PROVE s[i] \in Elems(s)
        BY <1>1, ElemsMember
    <2>2. ASSUME NEW i \in 1..(Len(s) - n) PROVE s[n + i] \in Elems(s)
        <3>1. PICK l \in Nat : l = Len(s)
            BY <1>1
        <3>2. n \in 0..l /\ i \in 1..(l - n)
            BY <3>1
        <3>3. n + i \in 1..l
            BY <3>2
        <3>4. n + i \in 1..Len(s)
            BY <3>1, <3>3
        <3> QED BY <3>4, ElemsMember
    <2>3. y \in Elems(b) => y \in Elems(s)
        BY <1>2, <2>1
    <2>4. y \in Elems(r) => y \in Elems(s)
        BY <1>3, <2>2
    <2> QED BY <2>3, <2>4
<1>6. ASSUME Distinct(s) PROVE Distinct(r)
    <2>1. SUFFICES ASSUME NEW i \in 1..(Len(s) - n), NEW j \in 1..(Len(s) - n), r[i] = r[j]
                   PROVE  i = j
        BY <1>1 DEF Distinct
    <2>2. n + i \in 1..Len(s) /\ n + j \in 1..Len(s) /\ s[n + i] = s[n + j]
        BY <1>1, <2>1
    <2>3. n + i = n + j
        BY <1>1, <1>6, <2>2 DEF Distinct
    <2> QED BY <1>1, <2>3
<1>7. ASSUME Distinct(s), NEW y \in Elems(b), y \in Elems(r) PROVE FALSE
    <2>1. PICK i \in 1..n : y = s[i]
        BY <1>2, <1>7
    <2>2. PICK j \in 1..(Len(s) - n) : y = s[n + j]
        BY <1>3, <1>7
    <2>3. i \in 1..Len(s) /\ n + j \in 1..Len(s) /\ i # n + j
        BY <1>1
    <2> QED BY <1>1, <1>7, <2>1, <2>2, <2>3 DEF Distinct
<1>8. Elems(s) = Elems(b) \cup Elems(r)
    BY <1>4, <1>5
<1>9. Distinct(s) => Elems(b) \cap Elems(r) = {}
    BY <1>7
<1> QED BY <1>1, <1>6, <1>8, <1>9 DEF b, r

\* Taking the first element of a sequence.
LEMMA ElemsHeadTail ==
    ASSUME NEW S, NEW s \in Seq(S), s # <<>>
    PROVE  /\ Head(s) \in S /\ Tail(s) \in Seq(S)
           /\ Elems(s) = {Head(s)} \cup Elems(Tail(s))
           /\ Distinct(s) => Distinct(Tail(s)) /\ Head(s) \notin Elems(Tail(s))
<1>1. PICK n \in 0..Len(s) : n = 1
    OBVIOUS
<1> DEFINE b == SubSeq(s, 1, n)
           r == SubSeq(s, n + 1, Len(s))
<1>2. /\ b \in Seq(S) /\ r \in Seq(S) /\ Len(r) = Len(s) - n
      /\ Elems(s) = Elems(b) \cup Elems(r)
      /\ Distinct(s) => Distinct(r) /\ Elems(b) \cap Elems(r) = {}
    BY ElemsSplit
<1>3. /\ Head(s) = s[1] /\ Head(s) \in S
      /\ Tail(s) \in Seq(S) /\ Len(Tail(s)) = Len(s) - 1
      /\ Len(b) = 1 /\ b[1] = s[1]
    BY <1>1
<1>4. \A i \in 1..(Len(s) - 1) : Tail(s)[i] = r[i]
    BY <1>1
<1> HIDE DEF b, r
<1>5. Tail(s) = r
    BY <1>1, <1>2, <1>3, <1>4, SeqEqual
<1>6. Elems(b) = {Head(s)}
    <2>1. ASSUME NEW y PROVE y \in Elems(b) <=> \E i \in 1..Len(b) : y = b[i]
        BY <1>2, ElemsMember
    <2> QED BY <1>3, <2>1
<1> QED BY <1>2, <1>3, <1>5, <1>6

\* Joining sequences that share nothing.
LEMMA DistinctConcat ==
    ASSUME NEW S, NEW s \in Seq(S), NEW t \in Seq(S),
           Distinct(s), Distinct(t), Elems(s) \cap Elems(t) = {}
    PROVE  Distinct(s \o t)
<1>1. /\ s \o t \in Seq(S) /\ Len(s) \in Nat /\ Len(t) \in Nat
      /\ DOMAIN (s \o t) = 1..(Len(s) + Len(t))
      /\ DOMAIN s = 1..Len(s) /\ DOMAIN t = 1..Len(t)
      /\ \A i \in 1..Len(s) : (s \o t)[i] = s[i]
      /\ \A i \in 1..Len(t) : (s \o t)[Len(s) + i] = t[i]
    OBVIOUS
<1>2. ASSUME NEW i \in 1..(Len(s) + Len(t)), i \notin 1..Len(s)
      PROVE  i - Len(s) \in 1..Len(t) /\ (s \o t)[i] = t[i - Len(s)]
    <2>1. i - Len(s) \in 1..Len(t) /\ Len(s) + (i - Len(s)) = i
        BY <1>1, <1>2
    <2> QED BY <1>1, <2>1
<1>3. ASSUME NEW i \in 1..Len(s), NEW j \in 1..Len(t) PROVE s[i] # t[j]
    <2>1. s[i] \in Elems(s) /\ t[j] \in Elems(t)
        BY ElemsMember
    <2> QED BY <2>1
<1>4. SUFFICES ASSUME NEW i \in 1..(Len(s) + Len(t)), NEW j \in 1..(Len(s) + Len(t)),
                      (s \o t)[i] = (s \o t)[j]
               PROVE  i = j
    BY <1>1 DEF Distinct
<1>5. CASE i \in 1..Len(s) /\ j \in 1..Len(s)
    BY <1>1, <1>4, <1>5 DEF Distinct
<1>6. CASE i \in 1..Len(s) /\ j \notin 1..Len(s)
    BY <1>1, <1>2, <1>3, <1>4, <1>6
<1>7. CASE i \notin 1..Len(s) /\ j \in 1..Len(s)
    BY <1>1, <1>2, <1>3, <1>4, <1>7
<1>8. CASE i \notin 1..Len(s) /\ j \notin 1..Len(s)
    <2>1. /\ i - Len(s) \in 1..Len(t) /\ (s \o t)[i] = t[i - Len(s)]
          /\ j - Len(s) \in 1..Len(t) /\ (s \o t)[j] = t[j - Len(s)]
        BY <1>2, <1>8
    <2>2. t[i - Len(s)] = t[j - Len(s)]
        BY <1>4, <2>1
    <2>3. \A k, l \in 1..Len(t) : t[k] = t[l] => k = l
        BY <1>1 DEF Distinct
    <2>4. i - Len(s) = j - Len(s)
        BY <2>1, <2>2, <2>3
    <2> QED BY <1>1, <2>4
<1> QED BY <1>5, <1>6, <1>7, <1>8

-----------------------------------------------------------------------------
(* The inductive invariant *)

\* The held slot is full exactly in the staggering loop, the draining loop runs
\* with an empty queue, and nothing waits in the queue twice.
QueueInv ==
    /\ Distinct(queue)
    /\ pc = "stagger" <=> future # NoAttempt
    /\ pc = "drain" => queue = <<>>

IInv == TypeOK /\ QueueInv /\ AttemptsAccounted

\* The head of the staggering loop moves the first element of the queue to the
\* held slot and disturbs nothing else.
LEMMA PopOrDrainFacts ==
    ASSUME NEW q \in Seq(Attempts), Distinct(q), PopOrDrain(q)
    PROVE  /\ queue' \in Seq(Attempts) /\ future' \in MaybeAttempt
           /\ pc' \in {"stagger", "drain"}
           /\ QueueInv'
           /\ Elems(q) = Elems(queue') \cup Held'
           /\ Elems(queue') \cap Held' = {}
<1>1. CASE q = <<>>
    <2>1. queue' = <<>> /\ future' = NoAttempt /\ pc' = "drain"
        BY <1>1 DEF PopOrDrain
    <2>2. Distinct(queue')
        BY <2>1 DEF Distinct
    <2> QED BY <1>1, <2>1, <2>2 DEF QueueInv, Held, MaybeAttempt
<1>2. CASE q # <<>>
    <2>1. queue' = Tail(q) /\ future' = Head(q) /\ pc' = "stagger"
        BY <1>2 DEF PopOrDrain
    <2>2. /\ Head(q) \in Attempts /\ Tail(q) \in Seq(Attempts)
          /\ Elems(q) = {Head(q)} \cup Elems(Tail(q))
          /\ Distinct(Tail(q)) /\ Head(q) \notin Elems(Tail(q))
        BY <1>2, ElemsHeadTail
    <2>3. Head(q) # NoAttempt
        BY <2>2, EyeballSetAssumption
    <2> QED BY <2>1, <2>2, <2>3 DEF QueueInv, Held, MaybeAttempt
<1> QED BY <1>1, <1>2

\* Starting the held attempt beside the running ones.
LEMMA StartHeldFacts ==
    ASSUME TypeOK, QueueInv, pc = "stagger",
           NEW S \in SUBSET Attempts, StartHeld(S)
    PROVE  /\ tasks' = S \cup Held /\ tasks' \subseteq Attempts
           /\ starts' \in Seq(Attempts) /\ Elems(starts') = Elems(starts) \cup Held
           /\ queue' \in Seq(Attempts) /\ future' \in MaybeAttempt
           /\ pc' \in {"stagger", "drain"}
           /\ QueueInv'
           /\ Elems(queue) = Elems(queue') \cup Held'
           /\ Elems(queue') \cap Held' = {}
<1>1. future \in Attempts /\ Held = {future}
    BY DEF QueueInv, TypeOK, MaybeAttempt, Held
<1>2. queue \in Seq(Attempts) /\ Distinct(queue) /\ starts \in Seq(Attempts)
    BY DEF TypeOK, QueueInv
<1>3. tasks' = S \cup {future} /\ starts' = Append(starts, future) /\ PopOrDrain(queue)
    BY DEF StartHeld
<1>4. starts' \in Seq(Attempts) /\ Elems(starts') = Elems(starts) \cup Held
    BY <1>1, <1>2, <1>3, ElemsAppend
<1> QED BY <1>1, <1>2, <1>3, <1>4, PopOrDrainFacts

\* Returning, or being dropped, empties the held slot into lost.
LEMMA ReturnFacts ==
    ASSUME TypeOK, QueueInv, NEW r, Return(r), UNCHANGED queue
    PROVE  /\ lost' = lost \cup Held /\ lost' \subseteq Attempts
           /\ future' \in MaybeAttempt /\ Held' = {} /\ pc' = "idle"
           /\ QueueInv'
<1>1. Held \subseteq Attempts
    BY DEF Held, TypeOK, MaybeAttempt
<1>2. lost' = lost \cup Held
    BY DEF Return, Held
<1>3. pc' = "idle" /\ future' = NoAttempt
    BY DEF Return
<1>4. QueueInv'
    BY <1>3 DEF QueueInv
<1> QED BY <1>1, <1>2, <1>3, <1>4 DEF TypeOK, Held, MaybeAttempt

\* The size of the first batch is within the queue.
LEMMA BatchSizeFacts ==
    ASSUME TypeOK
    PROVE  BatchSize \in 0..Len(queue)
<1>1. Len(queue) \in Nat
    BY DEF TypeOK
<1>2. CASE opts.initial_concurrency = Unset
    BY <1>1, <1>2 DEF BatchSize
<1>3. CASE opts.initial_concurrency # Unset
    <2>1. opts.initial_concurrency \in 0..Cardinality(Attempts)
        BY <1>3 DEF TypeOK
    <2>2. Cardinality(Attempts) \in Nat
        BY EyeballSetAssumption, FS_CardinalityType
    <2> QED BY <1>1, <1>3, <2>1, <2>2 DEF BatchSize
<1> QED BY <1>2, <1>3

LEMMA InitIInv == Init => IInv
<1> SUFFICES ASSUME Init PROVE IInv
    OBVIOUS
<1>1. Elems(<<>>) = {} /\ Distinct(<<>>)
    BY DEF Elems, Distinct
<1>2. TypeOK
    <2>1. result \in [kind : {"None", "Ok", "Error", "NoProgress", "Timeout", "Cancelled"},
                      attempt : MaybeAttempt]
        BY DEF Init, NoResult, Returned, MaybeAttempt
    <2>2. outcome \in [Attempts -> {"pending", "ok", "err"}]
        BY DEF Init
    <2>3. /\ queue \in Seq(Attempts) /\ pushed \in Seq(Attempts)
          /\ starts \in Seq(Attempts) /\ failed \in Seq(Attempts)
        BY DEF Init, new
    <2> QED BY <2>1, <2>2, <2>3 DEF Init, new, TypeOK, MaybeAttempt
<1>3. QueueInv
    BY <1>1 DEF Init, new, QueueInv
<1>4. AttemptsAccounted
    BY <1>1 DEF Init, new, AttemptsAccounted, Held
<1> QED BY <1>2, <1>3, <1>4 DEF IInv

\* Adding fresh attempts, as extend and push do.
LEMMA ExtendIInv ==
    ASSUME IInv, NEW s \in Seq(Attempts), Distinct(s), extend(s)
    PROVE  IInv'
<1>1. queue \in Seq(Attempts) /\ pushed \in Seq(Attempts)
    BY DEF IInv, TypeOK
<1>2. queue' = queue \o s /\ pushed' = pushed \o s
    BY DEF extend
<1>3. /\ queue' \in Seq(Attempts) /\ Elems(queue') = Elems(queue) \cup Elems(s)
      /\ pushed' \in Seq(Attempts) /\ Elems(pushed') = Elems(pushed) \cup Elems(s)
    BY <1>1, <1>2, ElemsConcat
<1>4. Elems(s) \cap Elems(pushed) = {}
    <2>1. \A i \in 1..Len(s) : s[i] \notin Elems(pushed)
        BY DEF extend
    <2> QED BY <2>1, ElemsMember
<1>5. Elems(s) \cap Elems(queue) = {}
    BY <1>4 DEF IInv, AttemptsAccounted
<1>6. Distinct(queue')
    BY <1>1, <1>2, <1>5, DistinctConcat DEF IInv, QueueInv
<1>7. result' \in [kind : {"None", "Ok", "Error", "NoProgress", "Timeout", "Cancelled"},
                   attempt : MaybeAttempt]
    BY DEF extend, NoResult, Returned, MaybeAttempt
<1>8. TypeOK'
    BY <1>3, <1>7 DEF extend, IInv, TypeOK, MaybeAttempt
<1>9. QueueInv'
    BY <1>6 DEF extend, IInv, QueueInv
<1>10. AttemptsAccounted'
    <2>1. /\ Held' = Held /\ tasks' = tasks /\ Elems(failed') = Elems(failed)
          /\ won' = won /\ lost' = lost
        BY DEF extend, Held
    <2> QED BY <1>3, <1>4, <2>1 DEF IInv, AttemptsAccounted
<1> QED BY <1>8, <1>9, <1>10 DEF IInv

LEMMA FinishIInv == ASSUME IInv, finish PROVE IInv'
<1> DEFINE b == SubSeq(queue, 1, BatchSize)
           r == SubSeq(queue, BatchSize + 1, Len(queue))
<1>1. queue \in Seq(Attempts) /\ starts \in Seq(Attempts) /\ BatchSize \in 0..Len(queue)
    BY BatchSizeFacts DEF IInv, TypeOK
<1>2. /\ tasks' = tasks \cup Elems(b) /\ starts' = starts \o b
      /\ PopOrDrain(r) /\ pc = "idle"
    BY DEF finish
<1>3. /\ b \in Seq(Attempts) /\ r \in Seq(Attempts)
      /\ Elems(queue) = Elems(b) \cup Elems(r)
      /\ Distinct(r) /\ Elems(b) \cap Elems(r) = {}
    BY <1>1, ElemsSplit DEF IInv, QueueInv
<1> HIDE DEF b, r
<1>4. /\ queue' \in Seq(Attempts) /\ future' \in MaybeAttempt
      /\ pc' \in {"stagger", "drain"} /\ QueueInv'
      /\ Elems(r) = Elems(queue') \cup Held' /\ Elems(queue') \cap Held' = {}
    BY <1>2, <1>3, PopOrDrainFacts
<1>5. starts' \in Seq(Attempts) /\ tasks' \subseteq Attempts
    BY <1>1, <1>2, <1>3, ElemsConcat, ElemsType DEF IInv, TypeOK
<1>6. result' \in [kind : {"None", "Ok", "Error", "NoProgress", "Timeout", "Cancelled"},
                   attempt : MaybeAttempt]
    BY DEF finish, NoResult, Returned, MaybeAttempt
<1>7. calls' \in Nat /\ started' \in BOOLEAN
    BY DEF finish, IInv, TypeOK
<1>8. TypeOK'
    BY <1>4, <1>5, <1>6, <1>7 DEF finish, IInv, TypeOK, MaybeAttempt
<1>9. AttemptsAccounted'
    <2>1. Held = {}
        BY <1>2 DEF IInv, QueueInv, Held
    <2>2. /\ Elems(pushed') = Elems(pushed) /\ Elems(failed') = Elems(failed)
          /\ won' = won /\ lost' = lost
        BY DEF finish
    <2>3. /\ Elems(pushed) = Elems(queue) \cup tasks \cup Elems(failed) \cup won \cup lost
          /\ Elems(queue) \cap (tasks \cup Elems(failed) \cup won \cup lost) = {}
          /\ tasks \cap (Elems(failed) \cup won \cup lost) = {}
          /\ Elems(failed) \cap (won \cup lost) = {}
          /\ won \cap lost = {}
        BY <2>1 DEF IInv, AttemptsAccounted
    <2> QED BY <1>2, <1>3, <1>4, <2>2, <2>3 DEF AttemptsAccounted
<1> QED BY <1>4, <1>8, <1>9 DEF IInv

\* The steps of the staggering loop that start the held attempt, leaving S of
\* the tasks and adding F to the failures.
LEMMA StartHeldAccounted ==
    ASSUME IInv, pc = "stagger", NEW S \in SUBSET tasks, StartHeld(S),
           Elems(failed') = Elems(failed) \cup (tasks \ S),
           UNCHANGED <<pushed, won, lost>>
    PROVE  AttemptsAccounted'
<1>1. S \in SUBSET Attempts
    BY DEF IInv, TypeOK
<1>2. /\ tasks' = S \cup Held
      /\ Elems(queue) = Elems(queue') \cup Held' /\ Elems(queue') \cap Held' = {}
    BY <1>1, StartHeldFacts DEF IInv
<1>3. Elems(pushed') = Elems(pushed) /\ won' = won /\ lost' = lost
    OBVIOUS
<1>4. AttemptsAccounted
    BY DEF IInv
<1> QED BY <1>2, <1>3, <1>4 DEF AttemptsAccounted

\* The steps that end finish(), settling W with a success.
LEMMA ReturnAccounted ==
    ASSUME IInv, NEW W \in SUBSET tasks, NEW r, Return(r), tasks' = tasks \ W,
           won' = won \cup W, UNCHANGED <<pushed, queue, failed>>
    PROVE  AttemptsAccounted'
<1>1. lost' = lost \cup Held /\ Held' = {}
    BY ReturnFacts DEF IInv
<1>2. /\ Elems(pushed') = Elems(pushed) /\ Elems(queue') = Elems(queue)
      /\ Elems(failed') = Elems(failed)
    OBVIOUS
<1>3. AttemptsAccounted
    BY DEF IInv
<1> QED BY <1>1, <1>2, <1>3 DEF AttemptsAccounted

ResultType == [kind : {"None", "Ok", "Error", "NoProgress", "Timeout", "Cancelled"},
               attempt : MaybeAttempt]

\* Every step preserves the invariant: one case per action.
LEMMA NextIInv == IInv /\ [Next]_vars => IInv'
<1> SUFFICES ASSUME IInv, [Next]_vars PROVE IInv'
    OBVIOUS
<1> USE DEF IInv
<1>1. ASSUME NEW a \in Attempts, push(a) PROVE IInv'
    <2>1. <<a>> \in Seq(Attempts) /\ Distinct(<<a>>)
        BY DEF Distinct
    <2> QED BY <1>1, <2>1, ExtendIInv DEF push
<1>2. ASSUME NEW a \in Attempts, NEW b \in Attempts, a # b, extend(<<a, b>>) PROVE IInv'
    <2>1. <<a, b>> \in Seq(Attempts) /\ Distinct(<<a, b>>)
        BY <1>2 DEF Distinct
    <2> QED BY <1>2, <2>1, ExtendIInv
<1>3. CASE finish
    BY <1>3, FinishIInv
<1>4. ASSUME NEW a \in Attempts, JoinOk(a) PROVE IInv'
    <2>1. /\ tasks' = tasks \ {a} /\ won' = won \cup {a} /\ {a} \subseteq tasks
          /\ Return(Returned("Ok", a)) /\ UNCHANGED <<pushed, queue, failed>>
        BY <1>4 DEF JoinOk, NextIs
    <2>2. AttemptsAccounted'
        BY <2>1, ReturnAccounted
    <2>3. /\ lost' \subseteq Attempts /\ future' \in MaybeAttempt /\ pc' = "idle" /\ QueueInv'
        BY <2>1, ReturnFacts
    <2>4. result' \in ResultType
        BY <2>1 DEF Return, Returned, ResultType, MaybeAttempt
    <2>5. TypeOK'
        BY <1>4, <2>3, <2>4 DEF JoinOk, TypeOK, ResultType, MaybeAttempt
    <2> QED BY <2>2, <2>3, <2>5
<1>5. ASSUME NEW a \in Attempts, JoinErr(a) PROVE IInv'
    <2>1. /\ failed' \in Seq(Attempts) /\ Elems(failed') = Elems(failed) \cup {a}
          /\ error' \in MaybeAttempt
        <3>1. failed \in Seq(Attempts) /\ failed' = Append(failed, a)
            BY <1>5 DEF JoinErr, TypeOK
        <3>2. error' \in MaybeAttempt
            BY <1>5 DEF JoinErr, FirstOf, TypeOK, MaybeAttempt
        <3> QED BY <3>1, <3>2, ElemsAppend
    <2>2. a \in tasks /\ tasks \ (tasks \ {a}) = {a} /\ tasks \ {a} \subseteq Attempts
          /\ UNCHANGED <<pushed, won, lost>>
        BY <1>5 DEF JoinErr, NextIs, TypeOK
    <2>3. CASE pc = "stagger"
        <3>1. StartHeld(tasks \ {a})
            BY <1>5, <2>3 DEF JoinErr
        <3>2. AttemptsAccounted'
            BY <2>1, <2>2, <2>3, <3>1, StartHeldAccounted
        <3>3. /\ tasks' \subseteq Attempts /\ starts' \in Seq(Attempts)
              /\ queue' \in Seq(Attempts) /\ future' \in MaybeAttempt
              /\ pc' \in {"stagger", "drain"} /\ QueueInv'
            BY <2>2, <2>3, <3>1, StartHeldFacts
        <3>4. TypeOK'
            BY <1>5, <2>1, <3>3 DEF JoinErr, TypeOK, MaybeAttempt
        <3> QED BY <3>2, <3>3, <3>4
    <2>4. CASE pc = "drain"
        <3>1. tasks' = tasks \ {a} /\ UNCHANGED <<queue, future, pc, starts>>
            BY <1>5, <2>4 DEF JoinErr
        <3>2. TypeOK'
            BY <1>5, <2>1, <3>1 DEF JoinErr, TypeOK, MaybeAttempt
        <3>3. QueueInv'
            BY <3>1 DEF QueueInv
        <3>4. AttemptsAccounted'
            <4>1. /\ Elems(pushed') = Elems(pushed) /\ Elems(queue') = Elems(queue)
                  /\ Held' = Held /\ won' = won /\ lost' = lost
                BY <2>2, <3>1 DEF Held
            <4> QED BY <2>1, <2>2, <3>1, <4>1 DEF AttemptsAccounted
        <3> QED BY <3>2, <3>3, <3>4
    <2> QED BY <1>5, <2>3, <2>4 DEF JoinErr
<1>6. CASE ExhaustedInStagger \/ DelayElapsed
    <2>1. pc = "stagger" /\ StartHeld(tasks) /\ UNCHANGED <<pushed, failed, won, lost>>
        BY <1>6 DEF ExhaustedInStagger, DelayElapsed
    <2>2. tasks \in SUBSET Attempts
        BY DEF TypeOK
    <2>3. AttemptsAccounted'
        BY <2>1, StartHeldAccounted
    <2>4. /\ tasks' \subseteq Attempts /\ starts' \in Seq(Attempts)
          /\ queue' \in Seq(Attempts) /\ future' \in MaybeAttempt
          /\ pc' \in {"stagger", "drain"} /\ QueueInv'
        BY <2>1, <2>2, StartHeldFacts
    <2>5. TypeOK'
        BY <1>6, <2>4 DEF ExhaustedInStagger, DelayElapsed, TypeOK, MaybeAttempt
    <2> QED BY <2>3, <2>4, <2>5
<1>7. CASE ExhaustedInDrain \/ TimeoutElapsed \/ Cancel
    <2>1. PICK r \in ResultType : Return(r)
        BY <1>7 DEF ExhaustedInDrain, TimeoutElapsed, Cancel, ResultType, Returned,
                    TypeOK, MaybeAttempt
    <2>2. /\ tasks' = tasks \ {} /\ won' = won \cup {}
          /\ UNCHANGED <<pushed, queue, failed, tasks, won>> /\ error' \in MaybeAttempt
        BY <1>7 DEF ExhaustedInDrain, TimeoutElapsed, Cancel, TypeOK, MaybeAttempt
    <2>3. AttemptsAccounted'
        BY <2>1, <2>2, ReturnAccounted
    <2>4. /\ lost' \subseteq Attempts /\ future' \in MaybeAttempt /\ pc' = "idle" /\ QueueInv'
        BY <2>1, <2>2, ReturnFacts
    <2>5. result' \in ResultType
        BY <2>1 DEF Return
    <2>6. TypeOK'
        BY <1>7, <2>2, <2>4, <2>5
           DEF ExhaustedInDrain, TimeoutElapsed, Cancel, TypeOK, ResultType, MaybeAttempt
    <2> QED BY <2>3, <2>4, <2>6
<1>8. ASSUME NEW a \in Attempts, NEW o \in {"ok", "err"}, Resolve(a, o) PROVE IInv'
    <2>1. outcome' \in [Attempts -> {"pending", "ok", "err"}]
        BY <1>8 DEF Resolve, TypeOK
    <2>2. TypeOK'
        BY <1>8, <2>1 DEF Resolve, TypeOK, MaybeAttempt
    <2>3. QueueInv' /\ AttemptsAccounted'
        BY <1>8 DEF Resolve, QueueInv, AttemptsAccounted, Held
    <2> QED BY <2>2, <2>3
<1>9. CASE UNCHANGED vars
    <2>1. TypeOK'
        BY <1>9 DEF vars, TypeOK, MaybeAttempt
    <2>2. QueueInv' /\ AttemptsAccounted'
        BY <1>9 DEF vars, QueueInv, AttemptsAccounted, Held
    <2> QED BY <2>1, <2>2
<1> QED BY <1>1, <1>2, <1>3, <1>4, <1>5, <1>6, <1>7, <1>8, <1>9 DEF Next, process_all

\* The invariant holds in every reachable state.
THEOREM IInvInvariant == Spec => []IInv
BY InitIInv, NextIInv, PTL DEF Spec

\* Type correctness of the fields of EyeballSet and the locals of process_all,
\* for any set of attempts and any number of finish() calls.
THEOREM TypeCorrect == Spec => []TypeOK
BY IInvInvariant, PTL DEF IInv

\* No interleaving of pushes, races, timeouts and dropped finish() futures
\* duplicates or forgets an attempt (queue, tasks and the local of process_all).
THEOREM AttemptsAlwaysAccounted == Spec => []AttemptsAccounted
BY IInvInvariant, PTL DEF IInv

=============================================================================
