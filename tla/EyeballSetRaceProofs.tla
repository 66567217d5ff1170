------------------------ MODULE EyeballSetRaceProofs ------------------------
(***************************************************************************)
(* What EyeballSet answers, in which order it starts the attempts and that *)
(* it implements AttemptRace: proofs for any set of attempts and any       *)
(* number of calls of finish(), on top of the accounting of                *)
(* EyeballSetProofs.                                                       *)
(***************************************************************************)
EXTENDS EyeballSetProofs

\* What was started still runs or has ended.
StartsAccounted == Elems(starts) = tasks \cup Elems(failed) \cup won

\* A finish() that still runs has not dropped its future yet.
LostBound == Cardinality(lost) + (IF pc = "idle" THEN 0 ELSE 1) <= calls

\* There is no result while finish() runs, and a failure leaves nothing behind.
ResultInv ==
    /\ pc # "idle" => result = NoResult
    /\ result.kind \in {"Error", "NoProgress"} => is_empty

\* The first call starts without an error and keeps the first one that comes.
ErrorInv ==
    /\ calls = 0 => failed = <<>> /\ error = NoAttempt /\ pc = "idle"
    /\ calls = 1 /\ pc # "idle" =>
            error = IF failed = <<>> THEN NoAttempt ELSE failed[1]
    /\ FirstErrorReported

\* q is the end of what was pushed.
Suffix(q) ==
    /\ Len(q) <= Len(pushed)
    /\ \A i \in 1..Len(q) : q[i] = pushed[Len(pushed) - Len(q) + i]

\* The queue is the end of what was pushed, and the held attempt is the one that
\* was pushed just before it.
OrderInv ==
    /\ Distinct(pushed)
    /\ Suffix(queue)
    /\ pc = "stagger" => /\ Len(queue) < Len(pushed)
                         /\ future = pushed[Len(pushed) - Len(queue)]

\* The inductive invariant, beside IInv.
RaceInv == StartsAccounted /\ LostBound /\ ResultInv /\ ErrorInv /\ OrderInv

-----------------------------------------------------------------------------
(* The steps. *)

Extends == \E s \in Seq(Attempts) : Distinct(s) /\ extend(s)
Quiet == UNCHANGED <<opts, queue, tasks, future, error, pc, result, pushed, starts, failed,
                     won, lost, calls>>

\* The kinds of steps the proofs tell apart.
Steps ==
    \/ Extends
    \/ finish
    \/ \E a \in Attempts : JoinOk(a)
    \/ \E a \in Attempts : JoinErr(a)
    \/ ExhaustedInStagger \/ DelayElapsed
    \/ ExhaustedInDrain
    \/ TimeoutElapsed \/ Cancel
    \/ Quiet

\* Every step is of one of these kinds.
LEMMA NextSteps == [Next]_vars => Steps
<1> SUFFICES ASSUME [Next]_vars PROVE Steps
    OBVIOUS
<1>1. ASSUME NEW a \in Attempts, push(a) PROVE Extends
    <2>1. <<a>> \in Seq(Attempts) /\ Distinct(<<a>>)
        BY DEF Distinct
    <2> QED BY <1>1, <2>1 DEF push, Extends
<1>2. ASSUME NEW a \in Attempts, NEW b \in Attempts, a # b, extend(<<a, b>>) PROVE Extends
    <2>1. <<a, b>> \in Seq(Attempts) /\ Distinct(<<a, b>>)
        BY <1>2 DEF Distinct
    <2> QED BY <1>2, <2>1 DEF Extends
<1>3. ASSUME NEW a \in Attempts, NEW o \in {"ok", "err"}, Resolve(a, o) PROVE Quiet
    BY <1>3 DEF Resolve, Quiet
<1>4. UNCHANGED vars => Quiet
    BY DEF vars, Quiet
<1> QED BY <1>1, <1>2, <1>3, <1>4, Zenon DEF Next, process_all, Steps

\* What the attempts that were lost, and those that were started, are.
LEMMA LostStarts ==
    ASSUME IInv, StartsAccounted
    PROVE  /\ lost \cap Elems(starts) = {}
           /\ Held \cap Elems(starts) = {}
           /\ Elems(queue) \cap Elems(starts) = {}
           /\ Elems(pushed) = Elems(queue) \cup Held \cup Elems(starts) \cup lost
    BY DEF IInv, AttemptsAccounted, StartsAccounted

\* The held slot is empty outside the staggering loop.
LEMMA HeldFacts ==
    ASSUME IInv
    PROVE  /\ pc # "stagger" => Held = {}
           /\ pc = "stagger" => future \in Attempts /\ Held = {future}
           /\ pc \in {"idle", "stagger", "drain"}
    BY DEF IInv, TypeOK, QueueInv, Held, MaybeAttempt

\* Every step starts what it moves among the tasks and settles what it takes out.
LEMMA StepStarts ==
    ASSUME IInv, StartsAccounted, Steps
    PROVE  StartsAccounted'
<1> USE DEF IInv
<1>1. CASE Extends \/ ExhaustedInDrain \/ TimeoutElapsed \/ Cancel \/ Quiet
    <2>1. UNCHANGED <<starts, tasks, failed, won>>
        BY <1>1 DEF Extends, extend, ExhaustedInDrain, TimeoutElapsed, Cancel, Quiet
    <2> QED BY <2>1 DEF StartsAccounted
<1>2. CASE finish
    <2> DEFINE b == SubSeq(queue, 1, BatchSize)
    <2>1. /\ tasks' = tasks \cup Elems(b) /\ starts' = starts \o b
          /\ UNCHANGED <<failed, won>>
        BY <1>2 DEF finish
    <2>2. b \in Seq(Attempts)
        <3>1. queue \in Seq(Attempts) /\ BatchSize \in 0..Len(queue)
            BY BatchSizeFacts DEF TypeOK
        <3> QED BY <3>1, ElemsSplit
    <2> HIDE DEF b
    <2>3. Elems(starts') = Elems(starts) \cup Elems(b)
        BY <2>1, <2>2, ElemsConcat DEF TypeOK
    <2> QED BY <2>1, <2>3 DEF StartsAccounted
<1>3. CASE \E a \in Attempts : JoinOk(a)
    <2>1. PICK a \in Attempts : JoinOk(a)
        BY <1>3
    <2>2. /\ a \in tasks /\ tasks' = tasks \ {a} /\ won' = won \cup {a}
          /\ UNCHANGED <<starts, failed>>
        BY <2>1 DEF JoinOk, NextIs
    <2> QED BY <2>2 DEF StartsAccounted
<1>4. CASE \E a \in Attempts : JoinErr(a)
    <2>1. PICK a \in Attempts : JoinErr(a)
        BY <1>4
    <2>2. a \in tasks /\ failed' = Append(failed, a) /\ won' = won
        BY <2>1 DEF JoinErr, NextIs
    <2>3. Elems(failed') = Elems(failed) \cup {a}
        BY <2>2, ElemsAppend DEF TypeOK
    <2>4. ASSUME pc = "stagger", StartHeld(tasks \ {a})
          PROVE  tasks' = (tasks \ {a}) \cup Held /\ Elems(starts') = Elems(starts) \cup Held
        <3>1. tasks \ {a} \in SUBSET Attempts
            BY DEF TypeOK
        <3> QED BY <2>4, <3>1, StartHeldFacts
    <2>5. ASSUME pc = "drain", tasks' = tasks \ {a}, UNCHANGED starts
          PROVE  StartsAccounted'
        BY <2>2, <2>3, <2>5 DEF StartsAccounted
    <2> QED BY <2>1, <2>2, <2>3, <2>4, <2>5 DEF StartsAccounted, JoinErr
<1>5. CASE ExhaustedInStagger \/ DelayElapsed
    <2>1. pc = "stagger" /\ StartHeld(tasks) /\ UNCHANGED <<failed, won>>
        BY <1>5 DEF ExhaustedInStagger, DelayElapsed
    <2>2. tasks \in SUBSET Attempts
        BY DEF TypeOK
    <2>3. tasks' = tasks \cup Held /\ Elems(starts') = Elems(starts) \cup Held
        BY <2>1, <2>2, StartHeldFacts
    <2> QED BY <2>1, <2>3 DEF StartsAccounted
<1> QED BY <1>1, <1>2, <1>3, <1>4, <1>5 DEF Steps

\* A call of finish() drops at most one future, when it ends.
LEMMA StepLost ==
    ASSUME IInv, LostBound, Steps
    PROVE  LostBound'
<1> USE DEF IInv
<1>1. /\ IsFiniteSet(lost) /\ Cardinality(lost) \in Nat /\ calls \in Nat
    <2>1. IsFiniteSet(lost)
        BY EyeballSetAssumption, FS_Subset DEF TypeOK
    <2> QED BY <2>1, FS_CardinalityType DEF TypeOK
<1>2. CASE finish
    <2>1. pc = "idle" /\ calls' = calls + 1 /\ lost' = lost
        BY <1>2 DEF finish
    <2> QED BY <1>1, <2>1 DEF LostBound
<1>3. ASSUME pc # "idle", NEW r, Return(r), calls' = calls PROVE LostBound'
    <2>1. pc' = "idle"
        BY <1>3 DEF Return
    <2>2. CASE lost' = lost
        BY <1>1, <1>3, <2>1, <2>2 DEF LostBound
    <2>3. CASE lost' = lost \cup {future}
        <3>1. Cardinality(lost') <= Cardinality(lost) + 1 /\ Cardinality(lost') \in Nat
            BY <1>1, <2>3, FS_AddElement
        <3> QED BY <1>1, <1>3, <2>1, <3>1 DEF LostBound
    <2> QED BY <1>3, <2>2, <2>3 DEF Return
<1>4. CASE \/ \E a \in Attempts : JoinOk(a)
           \/ ExhaustedInDrain \/ TimeoutElapsed \/ Cancel
    <2>1. pc # "idle" /\ calls' = calls /\ \E r : Return(r)
        BY <1>4 DEF JoinOk, NextIs, ExhaustedInDrain, TimeoutElapsed, Cancel
    <2> QED BY <1>3, <2>1
<1>5. CASE Extends \/ Quiet
    <2>1. UNCHANGED <<pc, lost, calls>>
        BY <1>5 DEF Extends, extend, Quiet
    <2> QED BY <2>1 DEF LostBound
<1>6. CASE (\E a \in Attempts : JoinErr(a)) \/ ExhaustedInStagger \/ DelayElapsed
    <2>1. pc # "idle" /\ UNCHANGED <<lost, calls>>
        BY <1>6 DEF JoinErr, NextIs, ExhaustedInStagger, DelayElapsed
    <2> QED BY <2>1, <1>1 DEF LostBound
<1> QED BY <1>2, <1>4, <1>5, <1>6 DEF Steps

\* The steps that only go on in the loops of process_all leave the result alone.
LEMMA StepResult ==
    ASSUME IInv, ResultInv, Steps
    PROVE  ResultInv'
<1> USE DEF IInv
<1>1. NoResult.kind \notin {"Error", "NoProgress"}
    BY DEF NoResult, Returned
<1>2. CASE Extends
    <2>1. pc = "idle" /\ pc' = pc /\ result' = NoResult
        BY <1>2 DEF Extends, extend
    <2> QED BY <1>1, <2>1 DEF ResultInv
<1>3. CASE finish
    <2>1. result' = NoResult
        BY <1>3 DEF finish
    <2> QED BY <1>1, <2>1 DEF ResultInv
<1>4. CASE (\E a \in Attempts : JoinErr(a)) \/ ExhaustedInStagger \/ DelayElapsed
    <2>1. pc # "idle" /\ result' = result
        BY <1>4 DEF JoinErr, NextIs, ExhaustedInStagger, DelayElapsed
    <2> QED BY <1>1, <2>1 DEF ResultInv
<1>5. CASE \E a \in Attempts : JoinOk(a)
    <2>1. PICK a \in Attempts : JoinOk(a)
        BY <1>5
    <2>2. pc' = "idle" /\ result' = Returned("Ok", a)
        BY <2>1 DEF JoinOk, Return
    <2>3. result'.kind = "Ok"
        BY <2>2 DEF Returned
    <2> QED BY <2>2, <2>3 DEF ResultInv
<1>6. CASE TimeoutElapsed \/ Cancel
    <2>1. /\ pc' = "idle"
          /\ result' \in {Returned("Timeout", NoAttempt), Returned("Cancelled", NoAttempt)}
        BY <1>6 DEF TimeoutElapsed, Cancel, Return
    <2>2. result'.kind \in {"Timeout", "Cancelled"}
        BY <2>1 DEF Returned
    <2> QED BY <2>1, <2>2 DEF ResultInv
<1>7. CASE ExhaustedInDrain
    <2>1. pc' = "idle" /\ tasks' = {} /\ queue' = <<>>
        BY <1>7 DEF ExhaustedInDrain, Return, QueueInv
    <2> QED BY <2>1 DEF ResultInv, is_empty
<1>8. CASE Quiet
    BY <1>8 DEF Quiet, ResultInv, is_empty
<1> QED BY <1>2, <1>3, <1>4, <1>5, <1>6, <1>7, <1>8 DEF Steps

\* The first call keeps the first error it meets and reports it.
LEMMA StepError ==
    ASSUME IInv, ResultInv, ErrorInv, Steps
    PROVE  ErrorInv'
<1> USE DEF IInv
<1>0. /\ NoResult.kind = "None" /\ calls \in Nat /\ failed \in Seq(Attempts)
      /\ NoAttempt \notin Attempts /\ error \in Attempts \cup {NoAttempt}
    BY EyeballSetAssumption DEF NoResult, Returned, TypeOK, MaybeAttempt
<1>1. CASE Extends
    <2>1. /\ pc = "idle" /\ pc' = pc /\ result' = NoResult
          /\ UNCHANGED <<calls, failed, error>>
        BY <1>1 DEF Extends, extend
    <2> QED BY <1>0, <2>1 DEF ErrorInv, FirstErrorReported
<1>2. CASE finish
    <2>1. /\ calls' = calls + 1 /\ result' = NoResult /\ UNCHANGED <<failed, error>>
        BY <1>2 DEF finish
    <2> QED BY <1>0, <2>1 DEF ErrorInv, FirstErrorReported
<1>3. CASE \E a \in Attempts : JoinErr(a)
    <2>1. PICK a \in Attempts : JoinErr(a)
        BY <1>3
    <2>2. /\ pc # "idle" /\ result' = result /\ calls' = calls
          /\ failed' = Append(failed, a)
          /\ error' = IF error = NoAttempt THEN a ELSE error
        BY <2>1 DEF JoinErr, NextIs, FirstOf
    <2>3. /\ failed' # <<>>
          /\ failed = <<>> => failed'[1] = a
          /\ failed # <<>> => failed'[1] = failed[1] /\ failed[1] \in Attempts
        BY <1>0, <2>2
    <2>4. calls' = 1 => error' = failed'[1]
        BY <1>0, <2>2, <2>3 DEF ErrorInv
    <2>5. calls' # 0
        BY <2>2 DEF ErrorInv
    <2>6. result'.kind = "None"
        BY <1>0, <2>2 DEF ResultInv
    <2> QED BY <2>3, <2>4, <2>5, <2>6 DEF ErrorInv, FirstErrorReported
<1>4. CASE ExhaustedInStagger \/ DelayElapsed
    <2>1. pc # "idle" /\ UNCHANGED <<result, failed, error, calls>>
        BY <1>4 DEF ExhaustedInStagger, DelayElapsed
    <2> QED BY <2>1 DEF ErrorInv, FirstErrorReported
<1>5. CASE (\E a \in Attempts : JoinOk(a)) \/ TimeoutElapsed \/ Cancel
    <2>1. /\ pc # "idle" /\ pc' = "idle" /\ UNCHANGED <<failed, error, calls>>
          /\ \E k \in {"Ok", "Timeout", "Cancelled"} : \E a : result' = Returned(k, a)
        BY <1>5 DEF JoinOk, NextIs, TimeoutElapsed, Cancel, Return
    <2>2. result'.kind \in {"Ok", "Timeout", "Cancelled"}
        BY <2>1 DEF Returned
    <2> QED BY <2>1, <2>2 DEF ErrorInv, FirstErrorReported
<1>6. CASE ExhaustedInDrain
    <2>1. /\ pc # "idle" /\ pc' = "idle" /\ UNCHANGED <<failed, calls>>
          /\ result' = IF error = NoAttempt THEN Returned("NoProgress", NoAttempt)
                                            ELSE Returned("Error", error)
        BY <1>6 DEF ExhaustedInDrain, Return
    <2>2. calls # 0
        BY <2>1 DEF ErrorInv
    <2>3. ASSUME calls = 1, failed # <<>> PROVE result' = Returned("Error", failed[1])
        <3>1. error = failed[1] /\ failed[1] \in Attempts
            BY <1>0, <2>1, <2>3 DEF ErrorInv
        <3> QED BY <1>0, <2>1, <3>1
    <2>4. Returned("Error", failed[1]).kind = "Error"
          /\ Returned("Error", failed[1]).attempt = failed[1]
        BY DEF Returned
    <2> QED BY <2>1, <2>2, <2>3, <2>4 DEF ErrorInv, FirstErrorReported
<1>7. CASE Quiet
    BY <1>7 DEF Quiet, ErrorInv, FirstErrorReported
<1> QED BY <1>1, <1>2, <1>3, <1>4, <1>5, <1>6, <1>7 DEF Steps

-----------------------------------------------------------------------------
(* The order of the attempts. *)

\* Popping a suffix of what was pushed holds the attempt pushed just before the rest.
LEMMA PopSuffix ==
    ASSUME NEW q \in Seq(Attempts), pushed \in Seq(Attempts), Suffix(q), PopOrDrain(q),
           UNCHANGED pushed
    PROVE  /\ Suffix(queue)'
           /\ pc' = "stagger" => /\ Len(queue') < Len(pushed')
                                 /\ future' = pushed'[Len(pushed') - Len(queue')]
<1>1. CASE q = <<>>
    <2>1. queue' = q /\ pc' = "drain"
        BY <1>1 DEF PopOrDrain
    <2> QED BY <2>1 DEF Suffix
<1>2. CASE q # <<>>
    <2>1. queue' = Tail(q) /\ future' = Head(q)
        BY <1>2 DEF PopOrDrain
    <2>2. /\ Len(q) \in Nat /\ Len(q) >= 1 /\ Len(pushed) \in Nat
          /\ Head(q) = q[1] /\ Len(Tail(q)) = Len(q) - 1
          /\ \A i \in 1..(Len(q) - 1) : Tail(q)[i] = q[i + 1]
        BY <1>2
    <2>3. /\ Len(queue') = Len(q) - 1 /\ future' = q[1] /\ pushed' = pushed
          /\ \A i \in 1..(Len(q) - 1) : queue'[i] = q[i + 1]
        BY <2>1, <2>2
    <2>4. Len(q) <= Len(pushed) /\ \A i \in 1..Len(q) : q[i] = pushed[Len(pushed) - Len(q) + i]
        BY DEF Suffix
    <2>5. ASSUME NEW i \in 1..(Len(q) - 1)
          PROVE  queue'[i] = pushed[Len(pushed) - (Len(q) - 1) + i]
        <3>1. /\ i + 1 \in 1..Len(q)
              /\ Len(pushed) - Len(q) + (i + 1) = Len(pushed) - (Len(q) - 1) + i
            BY <2>2
        <3> QED BY <2>3, <2>4, <3>1
    <2>6. q[1] = pushed[Len(pushed) - (Len(q) - 1)]
        <3>1. 1 \in 1..Len(q) /\ Len(pushed) - Len(q) + 1 = Len(pushed) - (Len(q) - 1)
            BY <2>2
        <3> QED BY <2>4, <3>1
    <2>7. Len(q) - 1 < Len(pushed)
        BY <2>2, <2>4
    <2> QED BY <2>2, <2>3, <2>5, <2>6, <2>7 DEF Suffix
<1> QED BY <1>1, <1>2

\* The queue stays the end of what was pushed.
LEMMA StepOrder ==
    ASSUME IInv, OrderInv, Steps
    PROVE  OrderInv'
<1> USE DEF IInv
<1>0. pushed \in Seq(Attempts) /\ queue \in Seq(Attempts) /\ Suffix(queue)
    BY DEF TypeOK, OrderInv
<1>1. CASE Extends
    <2>1. PICK s \in Seq(Attempts) : Distinct(s) /\ extend(s)
        BY <1>1 DEF Extends
    <2>2. queue' = queue \o s /\ pushed' = pushed \o s /\ pc = "idle" /\ pc' = "idle"
        BY <2>1 DEF extend
    <2>3. Distinct(pushed')
        <3>1. \A i \in 1..Len(s) : s[i] \notin Elems(pushed)
            BY <2>1 DEF extend
        <3>2. Elems(pushed) \cap Elems(s) = {}
            BY <3>1, ElemsMember
        <3> QED BY <1>0, <2>1, <2>2, <3>2, DistinctConcat DEF OrderInv
    <2>4. /\ Len(s) \in Nat /\ Len(queue) \in Nat /\ Len(pushed) \in Nat
          /\ Len(queue') = Len(queue) + Len(s) /\ Len(pushed') = Len(pushed) + Len(s)
        BY <1>0, <2>2
    <2>5. /\ \A i \in 1..(Len(queue) + Len(s)) :
                queue'[i] = IF i <= Len(queue) THEN queue[i] ELSE s[i - Len(queue)]
          /\ \A i \in 1..(Len(pushed) + Len(s)) :
                pushed'[i] = IF i <= Len(pushed) THEN pushed[i] ELSE s[i - Len(pushed)]
        BY <1>0, <2>2, ConcatProperties
    <2>6. /\ Len(queue) <= Len(pushed)
          /\ \A i \in 1..Len(queue) : queue[i] = pushed[Len(pushed) - Len(queue) + i]
        BY <1>0 DEF Suffix
    <2>7. ASSUME NEW i \in 1..Len(queue')
          PROVE  queue'[i] = pushed'[Len(pushed') - Len(queue') + i]
        <3>1. i \in Nat /\ i \in 1..(Len(queue) + Len(s))
            BY <2>4
        <3>2. /\ Len(pushed') - Len(queue') + i = Len(pushed) - Len(queue) + i
              /\ Len(pushed) - Len(queue) + i \in 1..(Len(pushed) + Len(s))
            BY <2>4, <2>6, <3>1
        <3>3. CASE i <= Len(queue)
            <4>1. /\ i \in 1..Len(queue)
                  /\ Len(pushed) - Len(queue) + i <= Len(pushed)
                BY <2>4, <3>1, <3>3
            <4> QED BY <2>5, <2>6, <3>1, <3>2, <3>3, <4>1
        <3>4. CASE ~(i <= Len(queue))
            <4>1. /\ ~(Len(pushed) - Len(queue) + i <= Len(pushed))
                  /\ (Len(pushed) - Len(queue) + i) - Len(pushed) = i - Len(queue)
                BY <2>4, <3>1, <3>4
            <4>2. queue'[i] = s[i - Len(queue)]
                BY <2>5, <3>1, <3>4
            <4>3. pushed'[Len(pushed) - Len(queue) + i]
                        = s[(Len(pushed) - Len(queue) + i) - Len(pushed)]
                BY <2>5, <3>2, <4>1
            <4> QED BY <3>2, <4>1, <4>2, <4>3
        <3> QED BY <3>3, <3>4
    <2>8. Len(queue') <= Len(pushed')
        BY <2>4, <2>6
    <2> QED BY <2>2, <2>3, <2>7, <2>8 DEF OrderInv, Suffix
<1>2. CASE finish
    <2> DEFINE r == SubSeq(queue, BatchSize + 1, Len(queue))
    <2>1. PopOrDrain(r) /\ pushed' = pushed
        BY <1>2 DEF finish
    <2>2. /\ BatchSize \in 0..Len(queue) /\ Len(queue) \in Nat /\ Len(pushed) \in Nat
        BY <1>0, BatchSizeFacts
    <2>3. PICK n \in 0..Len(queue) : n = BatchSize
        BY <2>2
    <2>4. /\ r \in Seq(Attempts) /\ Len(r) = Len(queue) - n
          /\ \A i \in 1..(Len(queue) - n) : r[i] = queue[n + i]
        BY <1>0, <2>3
    <2> HIDE DEF r
    <2>5. Suffix(r)
        <3>1. /\ Len(queue) <= Len(pushed)
              /\ \A i \in 1..Len(queue) : queue[i] = pushed[Len(pushed) - Len(queue) + i]
            BY <1>0 DEF Suffix
        <3>2. ASSUME NEW i \in 1..(Len(queue) - n)
              PROVE  r[i] = pushed[Len(pushed) - (Len(queue) - n) + i]
            <4>1. /\ n + i \in 1..Len(queue)
                  /\ Len(pushed) - Len(queue) + (n + i) = Len(pushed) - (Len(queue) - n) + i
                BY <2>2
            <4> QED BY <2>4, <3>1, <4>1
        <3>3. Len(queue) - n <= Len(pushed)
            BY <2>2, <3>1
        <3> QED BY <2>4, <3>2, <3>3 DEF Suffix
    <2> QED BY <1>0, <2>1, <2>4, <2>5, PopSuffix DEF OrderInv
<1>3. ASSUME PopOrDrain(queue), UNCHANGED pushed PROVE OrderInv'
    BY <1>0, <1>3, PopSuffix DEF OrderInv
<1>4. ASSUME NEW a \in Attempts, JoinErr(a) PROVE OrderInv'
    <2>1. CASE pc = "stagger"
        BY <1>3, <1>4, <2>1 DEF JoinErr, StartHeld
    <2>2. CASE pc = "drain"
        <3>1. UNCHANGED <<queue, pushed, future, pc>>
            BY <1>4, <2>2 DEF JoinErr
        <3> QED BY <3>1 DEF OrderInv, Suffix
    <2> QED BY <1>4, <2>1, <2>2 DEF JoinErr
<1>5. CASE ExhaustedInStagger \/ DelayElapsed
    BY <1>3, <1>5 DEF ExhaustedInStagger, DelayElapsed, StartHeld
<1>6. CASE (\E a \in Attempts : JoinOk(a)) \/ ExhaustedInDrain \/ TimeoutElapsed \/ Cancel
    <2>1. pc' = "idle" /\ UNCHANGED <<queue, pushed>>
        BY <1>6 DEF JoinOk, ExhaustedInDrain, TimeoutElapsed, Cancel, Return
    <2> QED BY <2>1 DEF OrderInv, Suffix
<1>7. CASE Quiet
    BY <1>7 DEF Quiet, OrderInv, Suffix
<1> QED BY <1>1, <1>2, <1>4, <1>5, <1>6, <1>7 DEF Steps

\* What is started was pushed before everything that waits.
LEMMA OrderPreference ==
    ASSUME IInv, StartsAccounted, OrderInv
    PROVE  PreferenceOrder
<1> USE DEF IInv
<1>1. SUFFICES ASSUME NEW i \in 1..Len(pushed), NEW j \in 1..Len(pushed), i < j,
                      pushed[j] \in Elems(starts)
               PROVE  pushed[i] \in Elems(starts) \cup lost
    BY DEF PreferenceOrder, TypeOK
<1>2. /\ pushed \in Seq(Attempts) /\ queue \in Seq(Attempts) /\ DOMAIN pushed = 1..Len(pushed)
      /\ Len(pushed) \in Nat /\ Len(queue) \in Nat /\ Len(queue) <= Len(pushed)
      /\ \A k \in 1..Len(queue) : queue[k] = pushed[Len(pushed) - Len(queue) + k]
    BY DEF TypeOK, OrderInv, Suffix
<1>3. ASSUME NEW k \in 1..Len(pushed), k > Len(pushed) - Len(queue)
      PROVE  pushed[k] \in Elems(queue)
    <2>1. /\ k - (Len(pushed) - Len(queue)) \in 1..Len(queue)
          /\ Len(pushed) - Len(queue) + (k - (Len(pushed) - Len(queue))) = k
        BY <1>2, <1>3
    <2>2. queue[k - (Len(pushed) - Len(queue))] = pushed[k]
        BY <1>2, <2>1
    <2> QED BY <1>2, <2>1, <2>2, ElemsMember
<1>4. j <= Len(pushed) - Len(queue)
    BY <1>1, <1>2, <1>3, LostStarts
<1>5. pushed[i] \notin Elems(queue)
    <2>1. SUFFICES ASSUME NEW k \in 1..Len(queue), pushed[i] = queue[k] PROVE FALSE
        BY <1>2, ElemsMember
    <2>2. /\ Len(pushed) - Len(queue) + k \in 1..Len(pushed)
          /\ i # Len(pushed) - Len(queue) + k
        BY <1>1, <1>2, <1>4
    <2>3. pushed[i] = pushed[Len(pushed) - Len(queue) + k]
        BY <1>2, <2>1
    <2> QED BY <1>2, <2>2, <2>3 DEF OrderInv, Distinct
<1>6. pushed[i] \notin Held
    <2>1. SUFFICES ASSUME pc = "stagger", pushed[i] = future PROVE FALSE
        BY HeldFacts
    <2>2. future = pushed[Len(pushed) - Len(queue)] /\ Len(pushed) - Len(queue) \in 1..Len(pushed)
        BY <1>2, <2>1 DEF OrderInv
    <2>3. i = Len(pushed) - Len(queue)
        BY <1>2, <2>1, <2>2 DEF OrderInv, Distinct
    <2> QED BY <1>1, <1>2, <1>4, <2>3
<1>7. pushed[i] \in Elems(pushed)
    BY <1>2, ElemsMember
<1> QED BY <1>5, <1>6, <1>7, LostStarts

-----------------------------------------------------------------------------
(* The invariants. *)

\* A new set.
LEMMA InitRaceInv == Init => RaceInv
<1> SUFFICES ASSUME Init PROVE RaceInv
    OBVIOUS
<1>1. /\ queue = <<>> /\ tasks = {} /\ error = NoAttempt /\ pc = "idle" /\ result = NoResult
      /\ pushed = <<>> /\ starts = <<>> /\ failed = <<>> /\ won = {} /\ lost = {} /\ calls = 0
    BY DEF Init, new
<1>2. Elems(<<>>) = {} /\ Distinct(<<>>) /\ Len(<<>>) = 0
    BY DEF Elems, Distinct
<1>3. StartsAccounted /\ OrderInv
    BY <1>1, <1>2 DEF StartsAccounted, OrderInv, Suffix
<1>4. LostBound
    BY <1>1, FS_EmptySet DEF LostBound
<1>5. ResultInv /\ ErrorInv
    BY <1>1 DEF ResultInv, ErrorInv, FirstErrorReported, NoResult, Returned
<1> QED BY <1>3, <1>4, <1>5 DEF RaceInv

\* Every step keeps the invariant.
LEMMA NextRaceInv == IInv /\ RaceInv /\ [Next]_vars => RaceInv'
<1> SUFFICES ASSUME IInv, RaceInv, [Next]_vars PROVE RaceInv'
    OBVIOUS
<1>1. Steps
    BY NextSteps
<1> QED BY <1>1, StepStarts, StepLost, StepResult, StepError, StepOrder DEF RaceInv

\* The invariant of the race holds in every reachable state.
THEOREM RaceInvInvariant == Spec => [](IInv /\ RaceInv)
    BY IInvInvariant, InitRaceInv, NextRaceInv, PTL DEF Spec

\* finish() drops at most one future a call, and never one that was started.
THEOREM OnlyUnstartedEverLost == Spec => []OnlyUnstartedLost
<1>1. IInv /\ RaceInv => OnlyUnstartedLost
    <2> SUFFICES ASSUME IInv, RaceInv PROVE OnlyUnstartedLost
        OBVIOUS
    <2>1. lost \cap Elems(starts) = {}
        BY LostStarts DEF RaceInv
    <2>2. Cardinality(lost) \in Nat /\ calls \in Nat
        BY EyeballSetAssumption, FS_Subset, FS_CardinalityType DEF IInv, TypeOK
    <2>3. Cardinality(lost) <= calls
        BY <2>2 DEF RaceInv, LostBound
    <2> QED BY <2>1, <2>3 DEF OnlyUnstartedLost
<1> QED BY <1>1, RaceInvInvariant, PTL

\* An error or NoProgress is answered only when nothing is left to try.
THEOREM FailureAlwaysComplete == Spec => []FailureIsComplete
<1>1. IInv /\ RaceInv => FailureIsComplete
    <2> SUFFICES ASSUME IInv, RaceInv, result.kind \in {"Error", "NoProgress"}
                 PROVE  is_empty /\ Elems(pushed) = Elems(failed) \cup won \cup lost
        BY DEF FailureIsComplete
    <2>1. is_empty /\ pc = "idle"
        BY DEF RaceInv, ResultInv, NoResult, Returned
    <2>2. Held = {} /\ Elems(queue) = {} /\ tasks = {}
        BY <2>1, HeldFacts DEF is_empty, Elems
    <2> QED BY <2>1, <2>2 DEF IInv, AttemptsAccounted
<1> QED BY <1>1, RaceInvInvariant, PTL

\* The first call reports the error of the attempt that failed first, and never
\* NoProgress once one has failed.
THEOREM FirstErrorAlwaysReported == Spec => []FirstErrorReported
<1>1. IInv /\ RaceInv => FirstErrorReported
    BY DEF RaceInv, ErrorInv
<1> QED BY <1>1, RaceInvInvariant, PTL

\* Attempts are started in the order in which they were pushed.
THEOREM AlwaysPreferenceOrder == Spec => []PreferenceOrder
<1>1. IInv /\ RaceInv => PreferenceOrder
    BY OrderPreference DEF RaceInv
<1> QED BY <1>1, RaceInvInvariant, PTL

-----------------------------------------------------------------------------
(* Without a stagger delay an attempt starts only in place of another. *)

\* One step of NoDelayNoGrowth.
Growth ==
    pc = "stagger" /\ ~opts.delay =>
        \/ Cardinality(tasks') <= Cardinality(tasks)
        \/ tasks = {} /\ Cardinality(tasks') = 1

\* The staggering loop replaces what ended, or starts from nothing.
LEMMA StepGrowth ==
    ASSUME IInv, Steps
    PROVE  Growth
<1> SUFFICES ASSUME pc = "stagger", ~opts.delay
             PROVE  \/ Cardinality(tasks') <= Cardinality(tasks)
                    \/ tasks = {} /\ Cardinality(tasks') = 1
    BY DEF Growth
<1> USE DEF IInv
<1>1. IsFiniteSet(tasks) /\ Cardinality(tasks) \in Nat
    <2>1. IsFiniteSet(tasks)
        BY EyeballSetAssumption, FS_Subset DEF TypeOK
    <2> QED BY <2>1, FS_CardinalityType
<1>2. ASSUME tasks' \subseteq tasks PROVE Cardinality(tasks') <= Cardinality(tasks)
    BY <1>1, <1>2, FS_Subset
<1>3. CASE \/ Extends \/ finish \/ DelayElapsed
           \/ (\E a \in Attempts : JoinOk(a)) \/ ExhaustedInDrain \/ TimeoutElapsed
           \/ Cancel \/ Quiet
    <2>1. tasks' \subseteq tasks
        BY <1>3 DEF Extends, extend, finish, DelayElapsed, JoinOk, ExhaustedInDrain,
                    TimeoutElapsed, Cancel, Quiet
    <2> QED BY <1>2, <2>1
<1>4. CASE \E a \in Attempts : JoinErr(a)
    <2>1. PICK a \in Attempts : JoinErr(a)
        BY <1>4
    <2>2. a \in tasks /\ tasks' = (tasks \ {a}) \cup {future}
        BY <2>1 DEF JoinErr, NextIs, StartHeld
    <2>3. /\ IsFiniteSet(tasks \ {a}) /\ Cardinality(tasks \ {a}) = Cardinality(tasks) - 1
        BY <1>1, <2>2, FS_RemoveElement
    <2>4. Cardinality(tasks') \in {Cardinality(tasks \ {a}), Cardinality(tasks \ {a}) + 1}
        BY <2>2, <2>3, FS_AddElement
    <2> QED BY <1>1, <2>3, <2>4
<1>5. CASE ExhaustedInStagger
    <2>1. tasks = {} /\ tasks' = {future}
        BY <1>5 DEF ExhaustedInStagger, StartHeld
    <2> QED BY <2>1, FS_Singleton
<1> QED BY <1>3, <1>4, <1>5 DEF Steps

\* Without a delay (StaggerTimeout not set) the staggering loop never adds to the
\* attempts that run: the property NoDelayNoGrowth.
THEOREM NeverGrowsWithoutDelay == Spec => NoDelayNoGrowth
<1>1. IInv /\ [Next]_vars => Growth
    BY NextSteps, StepGrowth
<1> QED BY <1>1, IInvInvariant, PTL DEF Spec, NoDelayNoGrowth, Growth

-----------------------------------------------------------------------------
(* EyeballSet implements AttemptRace. *)

\* A new set is a race that was not offered anything.
LEMMA InitRace == Init => Race!Init
<1> SUFFICES ASSUME Init PROVE Race!Init
    OBVIOUS
<1>1. /\ queue = <<>> /\ tasks = {} /\ error = NoAttempt /\ pc = "idle" /\ result = NoResult
      /\ future = NoAttempt
    BY DEF Init, new
<1>2. Elems(queue) = {} /\ Held = {}
    BY <1>1 DEF Elems, Held
<1> QED BY <1>1, <1>2 DEF Race!Init, Race!NoAnswer, Race!Answer, NoResult, Returned

\* Every step of EyeballSet is a step of the race, or one the race does not see.
LEMMA StepRace ==
    ASSUME IInv, IInv', Steps
    PROVE  Race!Next \/ UNCHANGED Race!vars
<1>0. /\ queue \in Seq(Attempts) /\ tasks \subseteq Attempts /\ Elems(queue) \subseteq Attempts
    BY ElemsType DEF IInv, TypeOK
<1>a. /\ Elems(queue) \cap Held = {} /\ Elems(queue) \cap tasks = {} /\ Held \cap tasks = {}
    BY DEF IInv, AttemptsAccounted
<1>1. CASE Extends
    <2>1. PICK s \in Seq(Attempts) : Distinct(s) /\ extend(s)
        BY <1>1 DEF Extends
    <2>2. /\ queue' = queue \o s /\ pc = "idle" /\ pc' = pc /\ result' = NoResult
          /\ UNCHANGED <<tasks, future, error>>
        BY <2>1 DEF extend
    <2>3. Elems(queue') = Elems(queue) \cup Elems(s) /\ Elems(s) \in SUBSET Attempts
        BY <1>0, <2>2, ElemsConcat, ElemsType
    <2>4. Held' = Held
        BY <2>2 DEF Held
    <2>5. Race!Offer(Elems(s))
        BY <2>2, <2>3, <2>4 DEF Race!Offer, Race!NoAnswer, Race!Answer, NoResult, Returned
    <2> QED BY <2>3, <2>5 DEF Race!Next
<1>2. CASE finish
    <2> DEFINE b == SubSeq(queue, 1, BatchSize)
               r == SubSeq(queue, BatchSize + 1, Len(queue))
    <2>1. /\ pc = "idle" /\ tasks' = tasks \cup Elems(b) /\ PopOrDrain(r)
          /\ result' = NoResult /\ error' = error
        BY <1>2 DEF finish
    <2>2. /\ r \in Seq(Attempts) /\ Distinct(r) /\ Elems(queue) = Elems(b) \cup Elems(r)
        <3>1. BatchSize \in 0..Len(queue)
            BY BatchSizeFacts DEF IInv
        <3> QED BY <1>0, <3>1, ElemsSplit DEF IInv, QueueInv
    <2> HIDE DEF b, r
    <2>3. Elems(r) = Elems(queue') \cup Held' /\ pc' \in {"stagger", "drain"}
        BY <2>1, <2>2, PopOrDrainFacts
    <2>4. Held = {}
        BY <2>1, HeldFacts
    <2>5. Elems(queue') \cup Held' \cup tasks' = Elems(queue) \cup Held \cup tasks
        BY <2>1, <2>2, <2>3, <2>4
    <2>6. Race!Begin
        BY <2>1, <2>3, <2>5 DEF Race!Begin, Race!NoAnswer, Race!Answer, NoResult, Returned
    <2> QED BY <2>6 DEF Race!Next
<1>3. ASSUME NEW S \in SUBSET (Elems(queue) \cup tasks), NEW ans, Return(ans), UNCHANGED queue,
             Elems(queue) \cup tasks' = S, pc # "idle"
      PROVE  Race!ReturnDropping(S \cup Held, ans)
    <2>1. pc' = "idle" /\ result' = ans /\ future' = NoAttempt
        BY <1>3 DEF Return
    <2>2. Held' = {}
        BY <2>1 DEF Held
    <2>3. Elems(queue') \cup Held' \cup tasks' = S
        BY <1>3, <2>2
    <2>4. \/ S = S \cup Held
          \/ \E d \in S \cup Held : S = (S \cup Held) \ {d}
        BY <1>a DEF Held
    <2> QED BY <1>3, <2>1, <2>3, <2>4 DEF Race!ReturnDropping
<1>4. CASE \E a \in Attempts : JoinOk(a)
    <2>1. PICK a \in Attempts : JoinOk(a)
        BY <1>4
    <2>2. /\ a \in tasks /\ tasks' = tasks \ {a} /\ pc # "idle"
          /\ Return(Returned("Ok", a)) /\ UNCHANGED <<queue, error>>
        BY <2>1 DEF JoinOk, NextIs
    <2>3. /\ a \in Elems(queue) \cup Held \cup tasks
          /\ (Elems(queue) \cup Held \cup tasks) \ {a} = (Elems(queue) \cup tasks') \cup Held
          /\ Elems(queue) \cup tasks' \in SUBSET (Elems(queue) \cup tasks)
        BY <1>a, <2>2
    <2>4. Race!ReturnDropping((Elems(queue) \cup tasks') \cup Held, Returned("Ok", a))
        BY <1>3, <2>2, <2>3
    <2>5. Race!Win(a)
        BY <2>2, <2>3, <2>4 DEF Race!Win, Race!Answer, Returned
    <2> QED BY <2>5 DEF Race!Next
<1>5. CASE TimeoutElapsed \/ Cancel
    <2>1. PICK k \in {"Timeout", "Cancelled"} : Return(Returned(k, NoAttempt))
        BY <1>5 DEF TimeoutElapsed, Cancel
    <2>2. pc # "idle" /\ UNCHANGED <<queue, tasks, error>>
        BY <1>5 DEF TimeoutElapsed, Cancel
    <2>3. Race!ReturnDropping((Elems(queue) \cup tasks) \cup Held, Returned(k, NoAttempt))
        BY <1>3, <2>1, <2>2
    <2>4. (Elems(queue) \cup tasks) \cup Held = Elems(queue) \cup Held \cup tasks
        OBVIOUS
    <2>5. Race!GiveUp(k)
        BY <2>2, <2>3, <2>4 DEF Race!GiveUp, Race!Answer, Returned
    <2> QED BY <2>5 DEF Race!Next
<1>6. CASE \E a \in Attempts : JoinErr(a)
    <2>1. PICK a \in Attempts : JoinErr(a)
        BY <1>6
    <2>2. /\ a \in tasks /\ pc # "idle" /\ result' = result
          /\ error' = IF error = NoAttempt THEN a ELSE error
        BY <2>1 DEF JoinErr, NextIs, FirstOf
    <2>3. /\ Elems(queue') \cup Held' \cup tasks' = (Elems(queue) \cup Held \cup tasks) \ {a}
          /\ pc' # "idle"
        <3>1. CASE pc = "stagger"
            <4>1. StartHeld(tasks \ {a}) /\ tasks \ {a} \in SUBSET Attempts
                BY <1>0, <2>1, <3>1 DEF JoinErr
            <4>2. /\ tasks' = (tasks \ {a}) \cup Held /\ pc' \in {"stagger", "drain"}
                  /\ Elems(queue) = Elems(queue') \cup Held'
                BY <3>1, <4>1, StartHeldFacts DEF IInv
            <4> QED BY <1>a, <2>2, <4>2
        <3>2. CASE pc = "drain"
            <4>1. tasks' = tasks \ {a} /\ pc' = pc /\ queue' = queue /\ Held' = Held
                BY <2>1, <3>2 DEF JoinErr, Held
            <4> QED BY <1>a, <2>2, <4>1
        <3> QED BY <2>1, <3>1, <3>2 DEF JoinErr
    <2>4. Race!Fail(a)
        BY <2>2, <2>3 DEF Race!Fail
    <2> QED BY <2>4 DEF Race!Next
<1>7. CASE ExhaustedInStagger \/ DelayElapsed
    <2>1. pc = "stagger" /\ StartHeld(tasks) /\ UNCHANGED <<result, error>>
        BY <1>7 DEF ExhaustedInStagger, DelayElapsed
    <2>2. /\ tasks' = tasks \cup Held /\ pc' \in {"stagger", "drain"}
          /\ Elems(queue) = Elems(queue') \cup Held'
        BY <1>0, <2>1, StartHeldFacts DEF IInv
    <2>3. Elems(queue') \cup Held' \cup tasks' = Elems(queue) \cup Held \cup tasks
        BY <2>2
    <2> QED BY <2>1, <2>2, <2>3 DEF Race!vars
<1>8. CASE ExhaustedInDrain
    <2>1. /\ pc = "drain" /\ tasks = {} /\ UNCHANGED <<queue, tasks>>
          /\ pc' = "idle" /\ future' = NoAttempt /\ error' = NoAttempt
          /\ result' = IF error = NoAttempt THEN Returned("NoProgress", NoAttempt)
                                            ELSE Returned("Error", error)
        BY <1>8 DEF ExhaustedInDrain, Return
    <2>2. Held = {} /\ Held' = {} /\ Elems(queue) = {}
        BY <2>1, HeldFacts DEF Held, IInv, QueueInv, Elems
    <2>3. Race!Exhaust
        BY <2>1, <2>2 DEF Race!Exhaust, Race!Answer, Returned
    <2> QED BY <2>3 DEF Race!Next
<1>9. CASE Quiet
    BY <1>9 DEF Quiet, Race!vars, Held
<1> QED BY <1>1, <1>2, <1>4, <1>5, <1>6, <1>7, <1>8, <1>9 DEF Steps

\* EyeballSet implements the race: the first winner is returned, a failure only
\* when no attempt is open and then the first one, and at most one attempt is
\* dropped however a call ends.
THEOREM RefinesRace == Spec => ImplementsRace
<1>1. IInv /\ IInv' /\ [Next]_vars => [Race!Next]_(Race!vars)
    BY NextSteps, StepRace
<1> QED BY <1>1, InitRace, IInvInvariant, PTL DEF Spec, ImplementsRace, Race!Spec

=============================================================================
