----------------------- MODULE ServiceReadinessProofs -----------------------
(***************************************************************************)
(* Proofs about ServiceReadiness for any sets of handles, allocations and  *)
(* calls, any number of permits and every stack of two layers.             *)
(***************************************************************************)
EXTENDS ServiceReadiness, FiniteSetTheorems, TLAPS

CallType == [stage : {"idle", "oneshot", "held", "running", "failed", "done"},
             leaf : BOOLEAN, promise : {"none", "ready", "shared"}, direct : BOOLEAN]

\* A future that kept the service it took across an await kept its permit.
HeldHasPermit == \A i \in Calls : call[i].stage = "held" => call[i].leaf

\* The inductive invariant.
IInv ==
    /\ TypeOK
    /\ HeldHasPermit
    /\ CalledOnlyWhenReady
    /\ WithinCapacity
    /\ PromiseKept
    /\ ReadyServiceUsed

-----------------------------------------------------------------------------
(* What calling a ready service can come to, through every layer. *)

Settled == {Outcome(FALSE, "running", TRUE), Outcome(FALSE, "failed", FALSE),
            Outcome(TRUE, "failed", FALSE)}
Outcomes == Settled \cup {Outcome(FALSE, "held", TRUE)}

\* A layer that leaves a clone changes what is left and nothing else.
LEMMA LeavesClone ==
    ASSUME NEW l, NEW s, NEW f, NEW m
    PROVE  [Outcome(l, s, f) EXCEPT !.left = m] = Outcome(m, s, f)
BY DEF Outcome

\* The layers of info.rs and unix.rs keep the outcomes among the settled ones.
LEMMA CloneOutcomes ==
    ASSUME NEW outs, outs \subseteq Settled
    PROVE  ConnectionWithInfo(outs) \subseteq Settled
           /\ UnixExtensionTransport(outs) \subseteq Settled
<1>1. ASSUME NEW o \in outs PROVE [o EXCEPT !.left = FALSE] \in Settled
    <2>1. \/ o = Outcome(FALSE, "running", TRUE) \/ o = Outcome(FALSE, "failed", FALSE)
          \/ o = Outcome(TRUE, "failed", FALSE)
        BY DEF Settled
    <2>2. PICK yes, no : yes = TRUE /\ no = FALSE
        BY Zenon
    <2>3. /\ [Outcome(no, "running", yes) EXCEPT !.left = no] = Outcome(no, "running", yes)
          /\ [Outcome(no, "failed", no) EXCEPT !.left = no] = Outcome(no, "failed", no)
          /\ [Outcome(yes, "failed", no) EXCEPT !.left = no] = Outcome(no, "failed", no)
        <3> HIDE <2>2
        <3> QED BY LeavesClone
    <2> QED BY <2>1, <2>2, <2>3, Zenon DEF Settled
<1> QED BY <1>1, Zenon DEF ConnectionWithInfo, UnixExtensionTransport, Settled

\* Whichever layer is the inner one, calling a ready service ends in a call at the
\* bottom with the permit, or in a failure whose future holds none.
LEMMA InnerOutcomes ==
    ASSUME TypeOK
    PROVE  CallInner(TRUE) \subseteq Settled
<1> DEFINE outs == Bottom(TRUE)
<1>1. outs \subseteq Settled
    BY DEF Bottom, Settled
<1>2. Delegating(outs) \subseteq Settled
    BY <1>1 DEF Delegating, Timeout, OptionService, IncomingRequestService,
                IncomingResponseService
<1>3. PreprocessService(outs, TRUE) \subseteq Settled
    BY <1>1, Zenon DEF PreprocessService, Settled
<1>4. ConnectionWithInfo(outs) \subseteq Settled /\ UnixExtensionTransport(outs) \subseteq Settled
    BY <1>1, CloneOutcomes
<1>5. stack.inner \in {"Delegating", "Preprocess", "Info", "Unix"}
    BY DEF TypeOK, Inner
<1> HIDE DEF outs
<1>6. CallInner(TRUE) = CASE stack.inner = "Delegating" -> Delegating(outs)
          [] stack.inner = "Preprocess" -> PreprocessService(outs, TRUE)
          [] stack.inner = "Info"       -> ConnectionWithInfo(outs)
          [] stack.inner = "Unix"       -> UnixExtensionTransport(outs)
    BY DEF CallInner, outs
<1> QED BY <1>2, <1>3, <1>4, <1>5, <1>6

\* The same for the stack of both layers; the outer one may keep the service it
\* took, with its permit, for later (ConnectionWithTlsInfo).
LEMMA ServiceOutcomes ==
    ASSUME TypeOK
    PROVE  CallService(TRUE) \subseteq Outcomes
<1> DEFINE outs == CallInner(TRUE)
<1>1. outs \subseteq Settled
    BY InnerOutcomes
<1> HIDE DEF outs
<1>2. Delegating(outs) \subseteq Settled
    BY <1>1 DEF Delegating, Timeout, OptionService, IncomingRequestService,
                IncomingResponseService
<1>3. PreprocessService(outs, TRUE) \subseteq Settled
    BY <1>1, Zenon DEF PreprocessService, Settled
<1>4. ConnectionWithInfo(outs) \subseteq Settled /\ UnixExtensionTransport(outs) \subseteq Settled
    BY <1>1, CloneOutcomes
<1>5. stack.outer \in {"Delegating", "Preprocess", "Info", "Unix", "TlsInfo"}
    BY DEF TypeOK, Outer, Inner
<1>6. ConnectionWithTlsInfo(TRUE) \subseteq Outcomes /\ Settled \subseteq Outcomes
    BY Zenon DEF ConnectionWithTlsInfo, Outcomes
<1>7. CallService(TRUE) = CASE stack.outer = "Delegating" -> Delegating(outs)
          [] stack.outer = "Preprocess" -> PreprocessService(outs, TRUE)
          [] stack.outer = "Info"       -> ConnectionWithInfo(outs)
          [] stack.outer = "Unix"       -> UnixExtensionTransport(outs)
          [] stack.outer = "TlsInfo"    -> ConnectionWithTlsInfo(TRUE)
    BY DEF CallService, outs
<1> HIDE DEF Outcomes, Settled
<1> QED BY <1>2, <1>3, <1>4, <1>5, <1>6, <1>7

\* The fields of an outcome: the future has the permit exactly when it called the
\* service or keeps it, and never while the called instance has one too.
LEMMA OutcomeFields ==
    ASSUME NEW o \in Outcomes
    PROVE  /\ o.left \in BOOLEAN /\ o.leaf \in BOOLEAN
           /\ o.stage \in {"running", "failed", "held"}
           /\ o.leaf <=> o.stage # "failed"
           /\ o.left => ~o.leaf
<1>1. CASE o = Outcome(FALSE, "running", TRUE)
    BY <1>1 DEF Outcome
<1>2. CASE o = Outcome(FALSE, "failed", FALSE)
    BY <1>2 DEF Outcome
<1>3. CASE o = Outcome(TRUE, "failed", FALSE)
    BY <1>3 DEF Outcome
<1>4. CASE o = Outcome(FALSE, "held", TRUE)
    BY <1>4 DEF Outcome
<1> QED BY <1>1, <1>2, <1>3, <1>4 DEF Outcomes, Settled

-----------------------------------------------------------------------------
(* Counting permits. *)

ReadyRefs == {r \in Refs : ready[r]}
LeafCalls == {i \in Calls : call[i].leaf}
RawPermit == IF raw = "ready" THEN 1 ELSE 0

\* A set within a finite set.
LEMMA CardWithin ==
    ASSUME NEW S, IsFiniteSet(S), NEW T, T \subseteq S
    PROVE  /\ IsFiniteSet(T) /\ Cardinality(T) \in Nat /\ Cardinality(S) \in Nat
           /\ Cardinality(T) <= Cardinality(S)
BY FS_Subset, FS_CardinalityType

\* At most one more element.
LEMMA CardGrow ==
    ASSUME NEW S, IsFiniteSet(S), NEW x, NEW T, T \subseteq S \cup {x}
    PROVE  Cardinality(T) <= Cardinality(S) + 1
<1>1. /\ IsFiniteSet(S \cup {x}) /\ Cardinality(S) \in Nat
      /\ Cardinality(S \cup {x}) \in {Cardinality(S), Cardinality(S) + 1}
    BY FS_AddElement, FS_CardinalityType
<1>2. Cardinality(T) <= Cardinality(S \cup {x}) /\ Cardinality(T) \in Nat
    BY <1>1, CardWithin
<1> QED BY <1>1, <1>2

\* At least one element less.
LEMMA CardShrink ==
    ASSUME NEW S, IsFiniteSet(S), NEW x \in S, NEW T, T \subseteq S \ {x}
    PROVE  Cardinality(T) <= Cardinality(S) - 1
<1>1. /\ IsFiniteSet(S \ {x}) /\ Cardinality(S) \in Nat
      /\ Cardinality(S \ {x}) = Cardinality(S) - 1
    BY FS_RemoveElement, FS_CardinalityType
<1>2. Cardinality(T) <= Cardinality(S \ {x})
    BY <1>1, CardWithin
<1> QED BY <1>1, <1>2

\* The permits that are out are those in ClientRefs, in futures and in the service
\* of a caller.
PermitsCounted ==
    /\ IsFiniteSet(ReadyRefs) /\ IsFiniteSet(LeafCalls)
    /\ Cardinality(ReadyRefs) \in Nat /\ Cardinality(LeafCalls) \in Nat
    /\ RawPermit \in {0, 1}
    /\ Reserved = Cardinality(ReadyRefs) + Cardinality(LeafCalls) + RawPermit

\* They can be counted in every state.
LEMMA ReservedSum == PermitsCounted
<1>1. ReadyRefs \subseteq Refs /\ LeafCalls \subseteq Calls
    BY DEF ReadyRefs, LeafCalls
<1>2. IsFiniteSet(Refs) /\ IsFiniteSet(Calls)
    BY ServiceReadinessAssumption
<1> QED BY <1>1, <1>2, CardWithin DEF PermitsCounted, Reserved, ReadyRefs, LeafCalls, RawPermit

\* And so in the next one.
LEMMA ReservedSumPrimed == PermitsCounted'
BY ReservedSum, PTL

\* Numbers of permits in ClientRefs, futures and the caller's service before and
\* after a step that stays within C.
Fits(R, L, P, Rp, Lp, Pp, C) ==
    \/ Rp <= R /\ Lp <= L /\ Pp <= P
    \/ R + L + P + 1 <= C /\ Pp = P /\ Lp <= L /\ Rp <= R + 1
    \/ R + L + P + 1 <= C /\ Pp = P /\ Rp <= R /\ Lp <= L + 1
    \/ R + L + P + 1 <= C /\ Rp <= R /\ Lp <= L
    \/ P = 1 /\ Pp = 0 /\ Lp <= L /\ Rp <= R + 1
    \/ P = 1 /\ Pp = 0 /\ Rp <= R /\ Lp <= L + 1
    \/ Lp <= L /\ Rp <= R - 1
    \/ Pp = P /\ Rp <= R - 1 /\ Lp <= L + 1

\* Ways a step can move permits without handing out more than there are: it takes
\* none; one more is taken and there was one to take; or one goes from one place to
\* another.
PermitStep ==
    \/ /\ ReadyRefs' \subseteq ReadyRefs /\ LeafCalls' \subseteq LeafCalls
       /\ RawPermit' <= RawPermit
    \/ /\ Available /\ RawPermit' = RawPermit /\ LeafCalls' \subseteq LeafCalls
       /\ \E r : ReadyRefs' \subseteq ReadyRefs \cup {r}
    \/ /\ Available /\ RawPermit' = RawPermit /\ ReadyRefs' \subseteq ReadyRefs
       /\ \E i : LeafCalls' \subseteq LeafCalls \cup {i}
    \/ /\ Available /\ ReadyRefs' \subseteq ReadyRefs /\ LeafCalls' \subseteq LeafCalls
    \/ /\ RawPermit = 1 /\ RawPermit' = 0 /\ LeafCalls' \subseteq LeafCalls
       /\ \E r : ReadyRefs' \subseteq ReadyRefs \cup {r}
    \/ /\ RawPermit = 1 /\ RawPermit' = 0 /\ ReadyRefs' \subseteq ReadyRefs
       /\ \E i : LeafCalls' \subseteq LeafCalls \cup {i}
    \/ /\ LeafCalls' \subseteq LeafCalls
       /\ \E r \in ReadyRefs : ReadyRefs' \subseteq ReadyRefs \ {r}
    \/ /\ RawPermit' = RawPermit
       /\ \E r \in ReadyRefs : ReadyRefs' \subseteq ReadyRefs \ {r}
       /\ \E i : LeafCalls' \subseteq LeafCalls \cup {i}

\* Such a step stays within the capacity.
LEMMA StepWithinCapacity ==
    ASSUME Reserved <= Capacity, PermitStep
    PROVE  Reserved' <= Capacity
<1> DEFINE R == Cardinality(ReadyRefs)
           L == Cardinality(LeafCalls)
           Rp == Cardinality(ReadyRefs')
           Lp == Cardinality(LeafCalls')
<1>1. /\ R \in Nat /\ L \in Nat /\ RawPermit \in {0, 1} /\ Reserved = R + L + RawPermit
      /\ IsFiniteSet(ReadyRefs) /\ IsFiniteSet(LeafCalls)
    BY ReservedSum DEF PermitsCounted
<1>2. /\ Rp \in Nat /\ Lp \in Nat /\ RawPermit' \in {0, 1} /\ Reserved' = Rp + Lp + RawPermit'
    BY ReservedSumPrimed DEF PermitsCounted
<1>3. /\ ReadyRefs' \subseteq ReadyRefs => Rp <= R
      /\ LeafCalls' \subseteq LeafCalls => Lp <= L
    BY <1>1, CardWithin
<1>4. ASSUME NEW r, ReadyRefs' \subseteq ReadyRefs \cup {r} PROVE Rp <= R + 1
    BY <1>1, <1>4, CardGrow
<1>5. ASSUME NEW i, LeafCalls' \subseteq LeafCalls \cup {i} PROVE Lp <= L + 1
    BY <1>1, <1>5, CardGrow
<1>6. ASSUME NEW r \in ReadyRefs, ReadyRefs' \subseteq ReadyRefs \ {r} PROVE Rp <= R - 1
    BY <1>1, <1>6, CardShrink
<1>7. Capacity \in Nat
    BY ServiceReadinessAssumption
<1> HIDE DEF R, L, Rp, Lp
<1>8. Available => R + L + RawPermit + 1 <= Capacity
    BY <1>1, <1>7 DEF Available
<1>9. Fits(R, L, RawPermit, Rp, Lp, RawPermit', Capacity)
    BY <1>3, <1>4, <1>5, <1>6, <1>8, Zenon DEF Fits, PermitStep
<1>10. R + L + RawPermit <= Capacity
    BY <1>1
<1>11. Rp + Lp + RawPermit' <= Capacity
    <2>1. PICK P \in {0, 1}, Pp \in {0, 1} : P = RawPermit /\ Pp = RawPermit'
        BY <1>1, <1>2
    <2>2. Fits(R, L, P, Rp, Lp, Pp, Capacity) /\ R + L + P <= Capacity
        BY <1>9, <1>10, <2>1, Zenon
    <2>3. Rp + Lp + Pp <= Capacity
        BY <1>1, <1>2, <1>7, <2>2 DEF Fits
    <2> QED BY <2>1, <2>3, Zenon
<1> QED BY <1>2, <1>11, Zenon

-----------------------------------------------------------------------------
(* Handles and the services they share. *)

ReadyLive == \A r \in Refs : ready[r] => Live(r)

\* Arc::make_mut gives h an allocation no other handle has.  A ready service that
\* it leaves behind is still someone's, and one it did not have is not ready.
LEMMA MakeMutFacts ==
    ASSUME TypeOK, ReadyLive, NEW h \in Handles, inner[h] # NoRef,
           NEW r \in Refs, make_mut(h, r)
    PROVE  /\ inner' = [inner EXCEPT ![h] = r]
           /\ inner' \in [Handles -> Refs \cup {NoRef}]
           /\ \A g \in Handles : g # h => inner[g] # r
           /\ \A s \in Refs : ready[s] /\ s # r =>
                 \E g \in Handles : g # h /\ inner[g] = s
           /\ ~Permit(h, r) => ~ready[r]
           /\ ~Shared(h) => r = inner[h]
<1>1. inner' = [inner EXCEPT ![h] = r] /\ IF Shared(h) THEN ~Live(r) ELSE r = inner[h]
    BY DEF make_mut
<1>2. CASE Shared(h)
    <2>1. ~Live(r)
        BY <1>1, <1>2
    <2>2. PICK g \in Handles : g # h /\ inner[g] = inner[h]
        BY <1>2 DEF Shared
    <2>3. ASSUME NEW s \in Refs, ready[s] PROVE \E k \in Handles : k # h /\ inner[k] = s
        <3>1. PICK k \in Handles : inner[k] = s
            BY <2>3 DEF ReadyLive, Live
        <3> QED BY <2>2, <3>1
    <2> QED BY <1>1, <1>2, <2>1, <2>3 DEF TypeOK, Live, Permit, ReadyLive
<1>3. CASE ~Shared(h)
    <2>1. r = inner[h] /\ \A g \in Handles : g # h => inner[g] # inner[h]
        BY <1>1, <1>3 DEF Shared
    <2>2. ASSUME NEW s \in Refs, ready[s], s # r PROVE \E g \in Handles : g # h /\ inner[g] = s
        <3>1. PICK k \in Handles : inner[k] = s
            BY <2>2 DEF ReadyLive, Live
        <3> QED BY <2>1, <2>2, <3>1
    <2> QED BY <1>1, <2>1, <2>2 DEF TypeOK, Permit
<1> QED BY <1>2, <1>3

\* A step that begins with make_mut and then sets what the service of h holds
\* disturbs no promise made to another handle and loses no permit.
LEMMA ExclusiveStep ==
    ASSUME TypeOK, ReadyLive, PromiseKept, NEW h \in Handles, inner[h] # NoRef,
           NEW r \in Refs, make_mut(h, r),
           NEW b \in BOOLEAN, ready' = [ready EXCEPT ![r] = b],
           NEW p \in {"none", "ready", "shared"}, promise' = [promise EXCEPT ![h] = p],
           p = "ready" => b
    PROVE  /\ inner' \in [Handles -> Refs \cup {NoRef}]
           /\ ready' \in [Refs -> BOOLEAN]
           /\ promise' \in [Handles -> {"none", "ready", "shared"}]
           /\ ReadyLive' /\ PromiseKept'
           /\ ReadyRefs' \subseteq ReadyRefs \cup {r}
           /\ ~b \/ ready[r] => ReadyRefs' \subseteq ReadyRefs
           /\ ~b => ReadyRefs' = ReadyRefs \ {r}
<1>1. /\ inner' = [inner EXCEPT ![h] = r] /\ inner' \in [Handles -> Refs \cup {NoRef}]
      /\ \A g \in Handles : g # h => inner[g] # r
      /\ \A s \in Refs : ready[s] /\ s # r => \E g \in Handles : g # h /\ inner[g] = s
    BY MakeMutFacts
<1>2. /\ ready' \in [Refs -> BOOLEAN] /\ (ready'[r] <=> b)
      /\ \A s \in Refs : s # r => (ready'[s] <=> ready[s])
    BY DEF TypeOK
<1>3. /\ promise' \in [Handles -> {"none", "ready", "shared"}] /\ promise'[h] = p
      /\ \A g \in Handles : g # h => promise'[g] = promise[g]
    BY DEF TypeOK
<1>4. inner'[h] = r /\ \A g \in Handles : g # h => inner'[g] = inner[g]
    BY <1>1 DEF TypeOK
<1>5. ReadyLive'
    BY <1>1, <1>2, <1>4 DEF ReadyLive, Live
<1>6. PromiseKept'
    <2>1. ASSUME NEW g \in Handles, promise'[g] = "ready"
          PROVE  inner'[g] # NoRef /\ ready'[inner'[g]]
                 /\ \A k \in Handles : k # g => inner'[k] # inner'[g]
        <3>1. CASE g = h
            BY <1>1, <1>2, <1>3, <1>4, <2>1, <3>1, ServiceReadinessAssumption
        <3>2. CASE g # h
            <4>1. /\ inner[g] # NoRef /\ ready[inner[g]] /\ inner[g] \in Refs
                  /\ \A k \in Handles : k # g => inner[k] # inner[g]
                BY <1>3, <2>1, <3>2 DEF PromiseKept, Shared, TypeOK
            <4> QED BY <1>1, <1>2, <1>4, <3>2, <4>1
        <3> QED BY <3>1, <3>2
    <2> QED BY <2>1 DEF PromiseKept, Shared
<1>7. /\ ReadyRefs' \subseteq ReadyRefs \cup {r}
      /\ ~b \/ ready[r] => ReadyRefs' \subseteq ReadyRefs
      /\ ~b => ReadyRefs' = ReadyRefs \ {r}
    BY <1>2 DEF ReadyRefs
<1> QED BY <1>1, <1>2, <1>3, <1>5, <1>6, <1>7

\* A handle goes away: the allocation it was the last one to have is given back.
LEMMA ReleaseFacts ==
    ASSUME TypeOK, ReadyLive, PromiseKept, NEW h \in Handles, inner[h] # NoRef, Release(h)
    PROVE  /\ inner' \in [Handles -> Refs \cup {NoRef}]
           /\ ready' \in [Refs -> BOOLEAN]
           /\ promise' \in [Handles -> {"none", "ready", "shared"}]
           /\ ReadyLive' /\ PromiseKept'
           /\ ReadyRefs' \subseteq ReadyRefs
           /\ ~Shared(h) => ReadyRefs' \subseteq ReadyRefs \ {inner[h]}
<1>1. inner[h] \in Refs /\ (Shared(h) <=> \E g \in Handles : g # h /\ inner[g] = inner[h])
    BY DEF TypeOK, Shared
<1>2. /\ inner' \in [Handles -> Refs \cup {NoRef}] /\ inner'[h] = NoRef
      /\ \A g \in Handles : g # h => inner'[g] = inner[g]
    BY DEF Release, TypeOK
<1>3. /\ ready' \in [Refs -> BOOLEAN] /\ (ready'[inner[h]] <=> Shared(h) /\ ready[inner[h]])
      /\ \A s \in Refs : s # inner[h] => (ready'[s] <=> ready[s])
    BY <1>1 DEF Release, TypeOK
<1>4. /\ promise' \in [Handles -> {"none", "ready", "shared"}] /\ promise'[h] = "none"
      /\ \A g \in Handles : g # h => promise'[g] = promise[g]
    BY DEF Release, TypeOK
<1>5. ReadyLive'
    <2>1. ASSUME NEW s \in Refs, ready'[s] PROVE \E g \in Handles : inner'[g] = s
        <3>1. PICK k \in Handles : inner[k] = s
            BY <1>1, <1>3, <2>1 DEF ReadyLive, Live
        <3> QED BY <1>1, <1>2, <1>3, <2>1, <3>1
    <2> QED BY <2>1 DEF ReadyLive, Live
<1>6. PromiseKept'
    <2>1. ASSUME NEW g \in Handles, promise'[g] = "ready"
          PROVE  inner'[g] # NoRef /\ ready'[inner'[g]]
                 /\ \A k \in Handles : k # g => inner'[k] # inner'[g]
        <3>1. g # h /\ promise[g] = "ready"
            BY <1>4, <2>1
        <3>2. /\ inner[g] # NoRef /\ ready[inner[g]] /\ inner[g] \in Refs
              /\ \A k \in Handles : k # g => inner[k] # inner[g]
            BY <3>1 DEF PromiseKept, Shared, TypeOK
        <3> QED BY <1>2, <1>3, <3>1, <3>2
    <2> QED BY <2>1 DEF PromiseKept, Shared
<1>7. /\ ReadyRefs' \subseteq ReadyRefs
      /\ ~Shared(h) => ReadyRefs' \subseteq ReadyRefs \ {inner[h]}
    BY <1>1, <1>3 DEF ReadyRefs
<1> QED BY <1>2, <1>3, <1>4, <1>5, <1>6, <1>7

-----------------------------------------------------------------------------
(* Futures. *)

\* What the invariant says of futures alone.
CallsOK ==
    /\ call \in [Calls -> CallType]
    /\ \A i \in Calls : call[i].leaf => call[i].stage \in {"oneshot", "held", "running"}
    /\ HeldHasPermit
    /\ ReadyServiceUsed

\* One future changes and stays within what is said of futures.
LEMMA OneCallChanges ==
    ASSUME CallsOK, NEW i \in Calls, NEW f \in CallType, call' = [call EXCEPT ![i] = f],
           f.leaf => f.stage \in {"oneshot", "held", "running"},
           f.stage = "held" => f.leaf,
           f.promise = "ready" => f.direct
    PROVE  /\ CallsOK'
           /\ LeafCalls' \subseteq LeafCalls \cup {i}
           /\ ~f.leaf => LeafCalls' \subseteq LeafCalls
           /\ call[i].leaf => LeafCalls' \subseteq LeafCalls
<1>1. /\ call' \in [Calls -> CallType] /\ call'[i] = f
      /\ \A j \in Calls : j # i => call'[j] = call[j]
    BY DEF CallsOK
<1>2. CallsOK'
    BY <1>1 DEF CallsOK, HeldHasPermit, ReadyServiceUsed
<1>3. /\ LeafCalls' \subseteq LeafCalls \cup {i}
      /\ ~f.leaf => LeafCalls' \subseteq LeafCalls
      /\ call[i].leaf => LeafCalls' \subseteq LeafCalls
    BY <1>1 DEF LeafCalls
<1> QED BY <1>2, <1>3

\* A future that gets to an outcome of calling a ready service has the permit with
\* it when it calls the service at the bottom.
LEMMA ProceedsFacts ==
    ASSUME CallsOK, sound, NEW i \in Calls, NEW o \in Outcomes, Proceeds(i, o)
    PROVE  /\ CallsOK' /\ sound' = TRUE
           /\ LeafCalls' \subseteq LeafCalls \cup {i}
           /\ ~o.leaf => LeafCalls' \subseteq LeafCalls
           /\ call[i].leaf => LeafCalls' \subseteq LeafCalls
<1>1. /\ o.left \in BOOLEAN /\ o.leaf \in BOOLEAN /\ o.stage \in {"running", "failed", "held"}
      /\ o.leaf <=> o.stage # "failed"
    BY OutcomeFields
<1> DEFINE f == [call[i] EXCEPT !.stage = o.stage, !.leaf = o.leaf]
<1>2. call[i] \in CallType /\ (call[i].promise = "ready" => call[i].direct)
    BY DEF CallsOK, ReadyServiceUsed
<1>3. /\ f \in CallType /\ f.stage = o.stage /\ f.leaf = o.leaf
      /\ f.promise = call[i].promise /\ f.direct = call[i].direct
    BY <1>1, <1>2 DEF CallType
<1>4. call' = [call EXCEPT ![i] = f]
    BY DEF Proceeds, CallsOK
<1>5. sound' = TRUE
    BY <1>1 DEF Proceeds
<1> HIDE DEF f
<1> QED BY <1>1, <1>2, <1>3, <1>4, <1>5, OneCallChanges

\* A future that is done lets go of its permit.
LEMMA DoneFacts ==
    ASSUME CallsOK, NEW i \in Calls, Done(i)
    PROVE  CallsOK' /\ LeafCalls' \subseteq LeafCalls
<1> DEFINE f == [call[i] EXCEPT !.stage = "done", !.leaf = FALSE]
<1>1. call[i] \in CallType /\ (call[i].promise = "ready" => call[i].direct)
    BY DEF CallsOK, ReadyServiceUsed
<1>2. /\ f \in CallType /\ f.stage = "done" /\ ~f.leaf
      /\ f.promise = call[i].promise /\ f.direct = call[i].direct
    BY <1>1 DEF CallType
<1>3. call' = [call EXCEPT ![i] = f]
    BY DEF Done, CallsOK
<1> HIDE DEF f
<1> QED BY <1>1, <1>2, <1>3, OneCallChanges

-----------------------------------------------------------------------------
(* The steps. *)

HandleTypes ==
    /\ inner \in [Handles -> Refs \cup {NoRef}]
    /\ ready \in [Refs -> BOOLEAN]
    /\ promise \in [Handles -> {"none", "ready", "shared"}]

HandlesOK == HandleTypes /\ ReadyLive /\ PromiseKept

RestTypes ==
    /\ stack \in [outer : Outer, inner : Inner]
    /\ raw \in {"none", "unready", "ready"}

\* The invariant by what a step may disturb on its own: handles, futures, the
\* number of permits.
LEMMA IInvParts ==
    IInv <=> HandlesOK /\ CallsOK /\ RestTypes /\ sound = TRUE /\ Reserved <= Capacity
<1>1. IInv => sound = TRUE
    BY DEF IInv, TypeOK, CalledOnlyWhenReady
<1>2. ASSUME HandlesOK, CallsOK, RestTypes, sound = TRUE, Reserved <= Capacity PROVE IInv
    <2>1. TypeOK
        BY <1>2 DEF TypeOK, HandlesOK, HandleTypes, CallsOK, CallType, RestTypes
    <2> QED BY <1>2, <2>1 DEF IInv, HandlesOK, CallsOK, CalledOnlyWhenReady, WithinCapacity,
                              ReadyLive
<1>3. IInv => HandlesOK /\ CallsOK /\ RestTypes /\ Reserved <= Capacity
    BY DEF IInv, TypeOK, HandlesOK, HandleTypes, CallsOK, CallType, RestTypes, WithinCapacity,
           ReadyLive
<1> QED BY <1>1, <1>2, <1>3

\* The same in the next state.
LEMMA IInvPartsPrimed ==
    ASSUME HandlesOK', CallsOK', RestTypes', sound' = TRUE, Reserved' <= Capacity
    PROVE  IInv'
<1>1. (HandlesOK /\ CallsOK /\ RestTypes /\ sound = TRUE /\ Reserved <= Capacity => IInv)'
    BY IInvParts, PTL
<1> QED BY <1>1

\* A step that leaves the futures alone.
LEMMA CallsUntouched ==
    ASSUME CallsOK, UNCHANGED call
    PROVE  CallsOK' /\ LeafCalls' = LeafCalls
BY DEF CallsOK, CallType, HeldHasPermit, ReadyServiceUsed, LeafCalls

\* A step that leaves the handles alone.
LEMMA HandlesUntouched ==
    ASSUME HandlesOK, UNCHANGED <<inner, ready, promise>>
    PROVE  HandlesOK' /\ ReadyRefs' = ReadyRefs
BY DEF HandlesOK, HandleTypes, ReadyLive, Live, PromiseKept, Shared, ReadyRefs

\* Client::new_from_service: the permit of the service moves into the ClientRef.
LEMMA NewIInv ==
    ASSUME IInv, NEW h \in Handles, new_from_service(h)
    PROVE  IInv'
<1>1. HandlesOK /\ CallsOK /\ RestTypes /\ sound = TRUE /\ Reserved <= Capacity
    BY IInvParts
<1>2. PICK r \in Refs : /\ ~Live(r) /\ inner' = [inner EXCEPT ![h] = r]
                        /\ ready' = [ready EXCEPT ![r] = (raw = "ready")]
    BY DEF new_from_service
<1>3. /\ inner[h] = NoRef /\ raw # "none" /\ raw' = "none"
      /\ UNCHANGED <<stack, call, promise, sound>>
    BY DEF new_from_service
<1>4. CallsOK' /\ LeafCalls' = LeafCalls /\ RestTypes' /\ sound' = TRUE
    BY <1>1, <1>3, CallsUntouched DEF RestTypes
<1>5. /\ inner'[h] = r /\ (ready'[r] <=> raw = "ready")
      /\ \A g \in Handles : inner[g] # r /\ (g # h => inner'[g] = inner[g])
      /\ \A s \in Refs : s # r => (ready'[s] <=> ready[s])
    BY <1>1, <1>2 DEF HandlesOK, HandleTypes, Live
<1>6. HandleTypes'
    BY <1>1, <1>2, <1>3 DEF HandlesOK, HandleTypes
<1>7. ReadyLive' /\ ~ready[r]
    BY <1>1, <1>2, <1>3, <1>5, ServiceReadinessAssumption
       DEF HandlesOK, HandleTypes, ReadyLive, Live
<1>8. PromiseKept'
    <2>1. ASSUME NEW g \in Handles, promise[g] = "ready"
          PROVE  inner'[g] # NoRef /\ ready'[inner'[g]]
                 /\ \A k \in Handles : k # g => inner'[k] # inner'[g]
        <3>1. /\ inner[g] # NoRef /\ ready[inner[g]] /\ inner[g] \in Refs /\ g # h
              /\ \A k \in Handles : k # g => inner[k] # inner[g]
            BY <1>1, <1>3, <2>1 DEF HandlesOK, HandleTypes, PromiseKept, Shared
        <3> QED BY <1>5, <3>1
    <2> QED BY <1>3, <2>1 DEF PromiseKept, Shared
<1>9. /\ ReadyRefs' \subseteq ReadyRefs \cup {r}
      /\ raw # "ready" => ReadyRefs' \subseteq ReadyRefs
    BY <1>5 DEF ReadyRefs
<1>10. PermitStep
    BY <1>3, <1>4, <1>9 DEF PermitStep, RawPermit
<1> QED BY <1>1, <1>4, <1>6, <1>7, <1>8, <1>10, StepWithinCapacity, IInvPartsPrimed DEF HandlesOK

\* Client::poll_ready: h gets a service of its own, and a permit if there is one.
LEMMA PollReadyIInv ==
    ASSUME IInv, NEW h \in Handles, poll_ready(h)
    PROVE  IInv'
<1>1. HandlesOK /\ CallsOK /\ RestTypes /\ sound = TRUE /\ Reserved <= Capacity /\ TypeOK
    BY IInvParts DEF IInv
<1>2. PICK r \in Refs, b \in BOOLEAN :
          /\ make_mut(h, r) /\ (b <=> Permit(h, r) \/ Available)
          /\ ready' = [ready EXCEPT ![r] = b]
          /\ promise' = [promise EXCEPT ![h] = IF b THEN "ready" ELSE "none"]
    BY DEF poll_ready
<1>3. inner[h] # NoRef /\ UNCHANGED <<stack, raw, call, sound>>
    BY DEF poll_ready
<1>4. CallsOK' /\ LeafCalls' = LeafCalls /\ RestTypes' /\ sound' = TRUE /\ RawPermit' = RawPermit
    BY <1>1, <1>3, CallsUntouched DEF RestTypes, RawPermit
<1> DEFINE p == IF b THEN "ready" ELSE "none"
<1>5. p \in {"none", "ready", "shared"} /\ (p = "ready" => b) /\ promise' = [promise EXCEPT ![h] = p]
    BY <1>2
<1> HIDE DEF p
<1>6. /\ HandlesOK'
      /\ ReadyRefs' \subseteq ReadyRefs \cup {r}
      /\ ~b \/ ready[r] => ReadyRefs' \subseteq ReadyRefs
    BY <1>1, <1>2, <1>3, <1>5, ExclusiveStep DEF HandlesOK, HandleTypes
<1>7. b => Available \/ ready[r]
    BY <1>2 DEF Permit
<1>8. RawPermit <= RawPermit
    BY ReservedSum DEF PermitsCounted
<1>9. PermitStep
    BY <1>4, <1>6, <1>7, <1>8, Zenon DEF PermitStep
<1> QED BY <1>1, <1>4, <1>6, <1>9, StepWithinCapacity, IInvPartsPrimed

\* ClientRef::request: the permit goes with the call.
LEMMA RequestIInv ==
    ASSUME IInv, NEW h \in Handles, NEW i \in Calls, request(h, i)
    PROVE  IInv'
<1>1. /\ HandlesOK /\ CallsOK /\ RestTypes /\ sound = TRUE /\ Reserved <= Capacity
      /\ TypeOK /\ ReadyLive /\ PromiseKept
    BY IInvParts DEF IInv, HandlesOK
<1>2. PICK r \in Refs, b \in BOOLEAN :
          /\ make_mut(h, r) /\ (b <=> Permit(h, r))
          /\ ready' = [ready EXCEPT ![r] = FALSE]
          /\ call' = [call EXCEPT ![i] = [stage |-> "oneshot", leaf |-> b,
                                          promise |-> promise[h], direct |-> b]]
    <2>1. PICK r \in Refs :
              /\ make_mut(h, r)
              /\ ready' = [ready EXCEPT ![r] = Replace(Permit(h, r)).kept]
              /\ call' = [call EXCEPT ![i] = [stage |-> "oneshot", promise |-> promise[h],
                                              leaf |-> Replace(Permit(h, r)).sent,
                                              direct |-> Replace(Permit(h, r)).sent]]
        BY DEF request
    <2> DEFINE b == Replace(Permit(h, r)).sent
    <2>2. Replace(Permit(h, r)).kept = FALSE /\ b \in BOOLEAN /\ (b <=> Permit(h, r))
        BY DEF Replace, Permit
    <2> HIDE DEF b
    <2> QED BY <2>1, <2>2 DEF b
<1>3. /\ inner[h] # NoRef /\ call[i].stage = "idle" /\ UNCHANGED <<stack, raw, sound>>
      /\ promise' = [promise EXCEPT ![h] = "none"]
    BY DEF request
<1>4. RestTypes' /\ sound' = TRUE /\ RawPermit' = RawPermit /\ RawPermit <= RawPermit
    BY <1>1, <1>3, ReservedSum DEF RestTypes, RawPermit, PermitsCounted
<1>5. /\ HandlesOK' /\ ReadyRefs' = ReadyRefs \ {r}
    <2>1. PICK no \in BOOLEAN, none \in {"none", "ready", "shared"} : no = FALSE /\ none = "none"
        OBVIOUS
    <2>2. /\ HandleTypes' /\ ReadyLive' /\ PromiseKept' /\ (~no => ReadyRefs' = ReadyRefs \ {r})
        BY <1>1, <1>2, <1>3, <2>1, ExclusiveStep DEF HandleTypes
    <2> QED BY <2>1, <2>2 DEF HandlesOK
<1>6. promise[h] = "ready" => b
    <2>1. ASSUME promise[h] = "ready" PROVE r = inner[h] /\ ready[inner[h]]
        BY <1>1, <1>2, <1>3, <2>1, MakeMutFacts DEF PromiseKept
    <2> QED BY <1>2, <2>1 DEF Permit
<1> DEFINE f == [stage |-> "oneshot", leaf |-> b, promise |-> promise[h], direct |-> b]
<1>7. /\ f \in CallType /\ f.stage = "oneshot" /\ f.leaf = b /\ f.promise = promise[h]
      /\ f.direct = b
    BY <1>1 DEF CallType, TypeOK
<1>8. /\ CallsOK' /\ LeafCalls' \subseteq LeafCalls \cup {i}
      /\ ~b => LeafCalls' \subseteq LeafCalls
    <2>1. call' = [call EXCEPT ![i] = f]
        BY <1>2
    <2> HIDE DEF f
    <2> QED BY <1>1, <1>6, <1>7, <2>1, OneCallChanges
<1>9. b => r \in ReadyRefs
    BY <1>2 DEF Permit, ReadyRefs
<1>10. PermitStep
    <2>1. ReadyRefs' \subseteq ReadyRefs
        BY <1>5
    <2> QED BY <1>4, <1>5, <1>8, <1>9, <2>1, Zenon DEF PermitStep
<1> QED BY <1>1, <1>4, <1>5, <1>8, <1>10, StepWithinCapacity, IInvPartsPrimed

\* TowerHyperService::call: the clone has no permit.
LEMMA TowerHyperIInv ==
    ASSUME IInv, NEW i \in Calls, TowerHyperService(i)
    PROVE  IInv'
<1>1. HandlesOK /\ CallsOK /\ RestTypes /\ sound = TRUE /\ Reserved <= Capacity
    BY IInvParts
<1> DEFINE f == [call[i] EXCEPT !.stage = "oneshot"]
<1>2. /\ call[i] \in CallType /\ call[i].stage = "idle"
      /\ (call[i].promise = "ready" => call[i].direct) /\ ~call[i].leaf
    BY <1>1 DEF TowerHyperService, CallsOK, ReadyServiceUsed
<1>3. /\ f \in CallType /\ f.stage = "oneshot" /\ f.leaf = call[i].leaf
      /\ f.promise = call[i].promise /\ f.direct = call[i].direct
    BY <1>2 DEF CallType
<1>4. /\ call' = [call EXCEPT ![i] = f] /\ UNCHANGED <<stack, inner, ready, raw, promise, sound>>
    BY <1>1 DEF TowerHyperService, CallsOK
<1> HIDE DEF f
<1>5. CallsOK' /\ LeafCalls' \subseteq LeafCalls
    BY <1>1, <1>2, <1>3, <1>4, OneCallChanges
<1>6. HandlesOK' /\ ReadyRefs' = ReadyRefs /\ RestTypes' /\ sound' = TRUE
    BY <1>1, <1>4, HandlesUntouched DEF RestTypes
<1>7. PermitStep
    BY <1>4, <1>5, <1>6, ReservedSum DEF PermitStep, RawPermit
<1> QED BY <1>1, <1>5, <1>6, <1>7, StepWithinCapacity, IInvPartsPrimed

\* Client::clone: the promise made to h no longer counts, and the other handles
\* are as they were.
LEMMA CloneIInv ==
    ASSUME IInv, NEW h \in Handles, NEW g \in Handles, clone(h, g)
    PROVE  IInv'
<1>1. HandlesOK /\ CallsOK /\ RestTypes /\ sound = TRUE /\ Reserved <= Capacity
    BY IInvParts
<1>2. /\ inner[h] # NoRef /\ inner[g] = NoRef /\ inner' = [inner EXCEPT ![g] = inner[h]]
      /\ UNCHANGED <<stack, ready, raw, call, sound>>
    BY DEF clone
<1>3. /\ inner'[g] = inner[h] /\ \A k \in Handles : k # g => inner'[k] = inner[k]
    BY <1>1, <1>2 DEF HandlesOK, HandleTypes
<1>4. /\ promise' \in [Handles -> {"none", "ready", "shared"}] /\ promise'[h] # "ready"
      /\ \A k \in Handles : k # h => promise'[k] = promise[k]
    BY <1>1 DEF HandlesOK, HandleTypes, clone
<1>5. HandleTypes'
    BY <1>1, <1>2, <1>4 DEF HandlesOK, HandleTypes
<1>6. ReadyLive'
    <2>1. ASSUME NEW s \in Refs, ready[s] PROVE \E k \in Handles : inner'[k] = s
        <3>1. PICK k \in Handles : inner[k] = s
            BY <1>1, <2>1 DEF HandlesOK, ReadyLive, Live
        <3> QED BY <1>2, <1>3, <3>1, ServiceReadinessAssumption
    <2> QED BY <1>2, <2>1 DEF ReadyLive, Live
<1>7. PromiseKept'
    <2>1. ASSUME NEW k \in Handles, promise'[k] = "ready"
          PROVE  inner'[k] # NoRef /\ ready[inner'[k]]
                 /\ \A j \in Handles : j # k => inner'[j] # inner'[k]
        <3>1. /\ k # h /\ inner[k] # NoRef /\ ready[inner[k]]
              /\ \A j \in Handles : j # k => inner[j] # inner[k]
            BY <1>1, <1>4, <2>1 DEF HandlesOK, PromiseKept, Shared
        <3> QED BY <1>2, <1>3, <3>1
    <2> QED BY <1>2, <2>1 DEF PromiseKept, Shared
<1>8. CallsOK' /\ LeafCalls' = LeafCalls /\ RestTypes' /\ sound' = TRUE /\ ReadyRefs' = ReadyRefs
    BY <1>1, <1>2, CallsUntouched DEF RestTypes, ReadyRefs
<1>9. PermitStep
    BY <1>2, <1>8, ReservedSum DEF PermitStep, RawPermit
<1> QED BY <1>1, <1>5, <1>6, <1>7, <1>8, <1>9, StepWithinCapacity, IInvPartsPrimed DEF HandlesOK

\* A handle is dropped, or gives up its service (Client::into_inner).
LEMMA ReleaseIInv ==
    ASSUME IInv, NEW h \in Handles, DropClient(h) \/ into_inner(h)
    PROVE  IInv'
<1>1. /\ HandlesOK /\ CallsOK /\ RestTypes /\ sound = TRUE /\ Reserved <= Capacity
      /\ TypeOK /\ ReadyLive /\ PromiseKept
    BY IInvParts DEF IInv, HandlesOK
<1>2. inner[h] # NoRef /\ Release(h) /\ UNCHANGED <<stack, call, sound>>
    BY DEF DropClient, into_inner
<1>3. /\ HandlesOK' /\ ReadyRefs' \subseteq ReadyRefs
      /\ ~Shared(h) => ReadyRefs' \subseteq ReadyRefs \ {inner[h]}
    BY <1>1, <1>2, ReleaseFacts DEF HandlesOK, HandleTypes
<1>4. CallsOK' /\ LeafCalls' = LeafCalls /\ sound' = TRUE
    BY <1>1, <1>2, CallsUntouched
<1>5. RestTypes'
    BY <1>1, <1>2 DEF RestTypes, DropClient, into_inner
<1>6. PermitStep
    <2>1. CASE RawPermit' <= RawPermit
        BY <1>3, <1>4, <2>1 DEF PermitStep
    <2>2. CASE ~(RawPermit' <= RawPermit)
        <3>1. into_inner(h)
            BY <2>2, ReservedSum DEF DropClient, RawPermit
        <3>2. ~Shared(h) /\ ready[inner[h]]
            BY <2>2, <3>1 DEF into_inner, RawPermit
        <3>3. inner[h] \in ReadyRefs
            BY <1>1, <1>2, <3>2 DEF TypeOK, ReadyRefs
        <3> QED BY <1>3, <1>4, <3>2, <3>3 DEF PermitStep
    <2> QED BY <2>1, <2>2
<1> QED BY <1>1, <1>3, <1>4, <1>5, <1>6, StepWithinCapacity, IInvPartsPrimed

\* The owner of a bare service polls it, or drops it.
LEMMA RawIInv ==
    ASSUME IInv, PollRaw \/ DropRaw
    PROVE  IInv'
<1>1. HandlesOK /\ CallsOK /\ RestTypes /\ sound = TRUE /\ Reserved <= Capacity
    BY IInvParts
<1>2. UNCHANGED <<stack, inner, ready, call, promise, sound>> /\ raw' \in {"none", "ready"}
    BY DEF PollRaw, DropRaw
<1>3. HandlesOK' /\ ReadyRefs' = ReadyRefs /\ CallsOK' /\ LeafCalls' = LeafCalls
    BY <1>1, <1>2, HandlesUntouched, CallsUntouched
<1>4. RestTypes' /\ sound' = TRUE
    BY <1>1, <1>2 DEF RestTypes
<1>5. PermitStep
    BY <1>3, ReservedSum DEF PermitStep, PollRaw, DropRaw, RawPermit
<1> QED BY <1>1, <1>3, <1>4, <1>5, StepWithinCapacity, IInvPartsPrimed

\* It calls the service when it is ready: the permit goes into the future or stays.
LEMMA CallRawIInv ==
    ASSUME IInv, NEW i \in Calls, CallRaw(i)
    PROVE  IInv'
<1>1. /\ HandlesOK /\ CallsOK /\ RestTypes /\ sound = TRUE /\ Reserved <= Capacity /\ TypeOK
    BY IInvParts DEF IInv
<1>2. PICK o \in Outcomes : Proceeds(i, o) /\ raw' = IF o.left THEN "ready" ELSE "unready"
    BY <1>1, ServiceOutcomes DEF CallRaw
<1>3. raw = "ready" /\ UNCHANGED <<stack, inner, ready, promise>>
    BY DEF CallRaw
<1>4. /\ CallsOK' /\ sound' = TRUE /\ LeafCalls' \subseteq LeafCalls \cup {i}
      /\ ~o.leaf => LeafCalls' \subseteq LeafCalls
    BY <1>1, <1>2, ProceedsFacts
<1>5. HandlesOK' /\ ReadyRefs' = ReadyRefs
    BY <1>1, <1>3, HandlesUntouched
<1>6. RestTypes'
    BY <1>1, <1>2, <1>3 DEF RestTypes
<1>7. PermitStep
    <2>1. o.left \in BOOLEAN /\ (o.left => ~o.leaf)
        BY OutcomeFields
    <2>2. CASE o.left
        <3>1. RawPermit' <= RawPermit
            BY <1>2, <1>3, <2>2 DEF RawPermit
        <3> QED BY <1>4, <1>5, <2>1, <2>2, <3>1 DEF PermitStep
    <2>3. CASE ~o.left
        <3>1. RawPermit = 1 /\ RawPermit' = 0
            BY <1>2, <1>3, <2>3 DEF RawPermit
        <3> QED BY <1>4, <1>5, <3>1 DEF PermitStep
    <2> QED BY <2>2, <2>3
<1> QED BY <1>1, <1>4, <1>5, <1>6, <1>7, StepWithinCapacity, IInvPartsPrimed

\* A Oneshot calls the service in the poll in which it is ready, and
\* ConnectionWithTlsInfo's future the one it kept, with the permit it kept.
LEMMA FutureProceedsIInv ==
    ASSUME IInv, NEW i \in Calls, PollOneshot(i) \/ Awaited(i)
    PROVE  IInv'
<1>1. /\ HandlesOK /\ CallsOK /\ RestTypes /\ sound = TRUE /\ Reserved <= Capacity /\ TypeOK
    BY IInvParts DEF IInv
<1>2. UNCHANGED <<stack, inner, ready, raw, promise>>
    BY DEF PollOneshot, Awaited
<1>3. (\E o \in Outcomes : Proceeds(i, o)) /\ (call[i].leaf \/ Available)
    <2>1. CASE PollOneshot(i)
        BY <1>1, <2>1, ServiceOutcomes DEF PollOneshot
    <2>2. CASE Awaited(i)
        <3>1. call[i].leaf = TRUE
            BY <1>1, <2>2 DEF Awaited, CallsOK, CallType, HeldHasPermit
        <3>2. PICK o \in CallInner(call[i].leaf) : Proceeds(i, o)
            BY <2>2 DEF Awaited
        <3>3. o \in CallInner(TRUE)
            BY <3>1, <3>2, Zenon
        <3>4. o \in Outcomes
            BY <1>1, <3>3, InnerOutcomes DEF Outcomes
        <3> QED BY <3>1, <3>2, <3>4
    <2> QED BY <2>1, <2>2
<1>4. PICK o \in Outcomes : Proceeds(i, o)
    BY <1>3
<1>5. /\ CallsOK' /\ sound' = TRUE /\ LeafCalls' \subseteq LeafCalls \cup {i}
      /\ call[i].leaf => LeafCalls' \subseteq LeafCalls
    BY <1>1, <1>4, ProceedsFacts
<1>6. HandlesOK' /\ ReadyRefs' = ReadyRefs /\ RestTypes'
    BY <1>1, <1>2, HandlesUntouched DEF RestTypes
<1>7. RawPermit' = RawPermit /\ RawPermit' <= RawPermit
    BY <1>2 DEF RawPermit
<1>8. PermitStep
    BY <1>3, <1>5, <1>6, <1>7 DEF PermitStep
<1> QED BY <1>1, <1>5, <1>6, <1>8, StepWithinCapacity, IInvPartsPrimed

\* A future resolves or is dropped.
LEMMA DoneIInv ==
    ASSUME IInv, NEW i \in Calls, Done(i)
    PROVE  IInv'
<1>1. HandlesOK /\ CallsOK /\ RestTypes /\ sound = TRUE /\ Reserved <= Capacity
    BY IInvParts
<1>2. UNCHANGED <<stack, inner, ready, raw, promise, sound>>
    BY DEF Done
<1>3. CallsOK' /\ LeafCalls' \subseteq LeafCalls
    BY <1>1, DoneFacts
<1>4. HandlesOK' /\ ReadyRefs' = ReadyRefs /\ RestTypes' /\ sound' = TRUE
    BY <1>1, <1>2, HandlesUntouched DEF RestTypes
<1>5. PermitStep
    BY <1>2, <1>3, <1>4 DEF PermitStep, RawPermit
<1> QED BY <1>1, <1>3, <1>4, <1>5, StepWithinCapacity, IInvPartsPrimed

-----------------------------------------------------------------------------
\* No handle, no call, no permit out: the invariant holds at the start.
LEMMA InitIInv == Init => IInv
<1> SUFFICES ASSUME Init PROVE IInv
    OBVIOUS
<1>1. HandlesOK
    BY DEF Init, HandlesOK, HandleTypes, ReadyLive, PromiseKept
<1>2. CallsOK
    BY DEF Init, CallsOK, CallType, NoCall, HeldHasPermit, ReadyServiceUsed
<1>3. RestTypes /\ sound = TRUE /\ RawPermit = 0
    BY DEF Init, RestTypes, RawPermit
<1>4. ReadyRefs = {} /\ LeafCalls = {}
    BY DEF Init, ReadyRefs, LeafCalls, NoCall
<1>5. Reserved <= Capacity
    BY <1>3, <1>4, ReservedSum, FS_EmptySet, ServiceReadinessAssumption DEF PermitsCounted
<1> QED BY <1>1, <1>2, <1>3, <1>5, IInvParts

\* Every step keeps the invariant.
LEMMA NextIInv == IInv /\ [Next]_vars => IInv'
<1>1. ASSUME IInv, UNCHANGED vars PROVE IInv'
    <2>1. HandlesOK /\ CallsOK /\ RestTypes /\ sound = TRUE /\ Reserved <= Capacity
        BY <1>1, IInvParts
    <2>2. HandlesOK' /\ ReadyRefs' = ReadyRefs /\ CallsOK' /\ LeafCalls' = LeafCalls
        BY <1>1, <2>1, HandlesUntouched, CallsUntouched DEF vars
    <2>3. RestTypes' /\ sound' = TRUE /\ RawPermit' <= RawPermit
        BY <1>1, <2>1 DEF vars, RestTypes, RawPermit
    <2>4. PermitStep
        BY <2>2, <2>3 DEF PermitStep
    <2> QED BY <2>1, <2>2, <2>3, <2>4, StepWithinCapacity, IInvPartsPrimed
<1>2. ASSUME IInv, NEW i \in Calls, Answer(i) \/ MaybeError(i) \/ DropCall(i) PROVE IInv'
    BY <1>2, DoneIInv DEF Answer, MaybeError, DropCall
<1> QED BY <1>1, <1>2, NewIInv, PollReadyIInv, RequestIInv, TowerHyperIInv, CloneIInv,
           ReleaseIInv, RawIInv, CallRawIInv, FutureProceedsIInv DEF Next

\* The invariant holds in every reachable state.
THEOREM IInvInvariant == Spec => []IInv
BY InitIInv, NextIInv, PTL DEF Spec

\* Type correctness, and no permit in a settled future.
THEOREM TypeCorrect == Spec => []TypeOK
BY IInvInvariant, PTL DEF IInv

\* The service at the bottom is never called without its permit, for every pair of
\* layers, however they swap, keep or skip the service they wrap.
THEOREM AlwaysCalledWhenReady == Spec => []CalledOnlyWhenReady
BY IInvInvariant, PTL DEF IInv

\* No more permits are out than there are, whatever their number, and none is in a
\* ClientRef that no handle reaches.
THEOREM AlwaysWithinCapacity == Spec => []WithinCapacity
BY IInvInvariant, PTL DEF IInv

\* A handle that was polled ready and not cloned since owns a ready service, for
\* any number of handles that share, clone, call and drop (Arc::make_mut).
THEOREM PromiseAlwaysKept == Spec => []PromiseKept
BY IInvInvariant, PTL DEF IInv

\* A call after such a poll uses that very service (mem::replace in
\* ClientRef::request).
THEOREM ReadyServiceAlwaysUsed == Spec => []ReadyServiceUsed
BY IInvInvariant, PTL DEF IInv

=============================================================================
