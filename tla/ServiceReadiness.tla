-------------------------- MODULE ServiceReadiness --------------------------
(***************************************************************************)
(* tower's readiness protocol in this crate: a service must answer         *)
(* poll_ready before it is called, and what poll_ready reserved belongs to *)
(* that one instance.  Clients clone and share services                    *)
(* (src/src/client/mod.rs), the hyper bridge clones one per request        *)
(* (src/src/bridge/service.rs), and the middleware of src/src/service,     *)
(* src/src/server/conn/info.rs and src/src/client/conn/transport/unix.rs   *)
(* passes calls on, some of it by swapping the inner service for a clone.  *)
(*                                                                         *)
(* At the bottom is an external service that can serve a limited number of *)
(* requests: poll_ready reserves a permit, a call takes it along, a clone  *)
(* has none, and dropping what holds it gives it back (such as tower's     *)
(* ConcurrencyLimit, which panics when it is called without one).          *)
(***************************************************************************)
EXTENDS Naturals, FiniteSets

CONSTANTS Handles,   \* values of type Client
          Refs,      \* bound: allocations of ClientRef
          Calls,     \* bound: calls, by identity
          Capacity,  \* permits of the service at the bottom
          NoRef      \* a Client that does not exist

ASSUME ServiceReadinessAssumption ==
    /\ IsFiniteSet(Refs) /\ IsFiniteSet(Calls)
    /\ NoRef \notin Refs
    /\ Capacity \in Nat \ {0}

VARIABLES
    stack,    \* the two layers above the service at the bottom
    inner,    \* Client::inner: the ClientRef each handle points to
    ready,    \* does the service in a ClientRef hold a permit?
    raw,      \* a service owned by a caller that polls and calls it itself
    call,     \* the futures of the calls
    \* History variables, read by the properties only.
    promise,  \* did poll_ready of a handle answer Ready, and was it cloned since?
    sound     \* was the bottom service never called without a permit?

vars == <<stack, inner, ready, raw, call, promise, sound>>

Inner == {"Delegating", "Preprocess", "Info", "Unix"}
Outer == Inner \cup {"TlsInfo"}

\* A future: where it stands, whether it holds the permit, and of the call that
\* made it: what the caller had been promised and whether it got a ready service.
NoCall == [stage |-> "idle", leaf |-> FALSE, promise |-> "none", direct |-> FALSE]

Init ==
    /\ stack \in [outer : Outer, inner : Inner]
    /\ inner = [h \in Handles |-> NoRef]
    /\ ready = [r \in Refs |-> FALSE]
    /\ raw = "unready"
    /\ call = [i \in Calls |-> NoCall]
    /\ promise = [h \in Handles |-> "none"]
    /\ sound = TRUE

-----------------------------------------------------------------------------
(* What calling a service makes of it.  An outcome says whether the called  *)
(* instance still holds a permit (left), what its future does next (stage)  *)
(* and whether that future holds a permit (leaf).                           *)

Outcome(left, stage, leaf) == [left |-> left, stage |-> stage, leaf |-> leaf]

\* The bottom service: the permit goes with the future.
Bottom(permit) == {Outcome(FALSE, "running", permit)}

\* Layers that pass the call on to the inner service they own.  outs are the
\* outcomes of calling the inner service, permit what it holds.
Timeout(outs) == outs
OptionService(outs) == outs
IncomingRequestService(outs) == outs
IncomingResponseService(outs) == outs

Delegating(outs) ==
    Timeout(OptionService(IncomingRequestService(IncomingResponseService(outs))))

\* Mistaken form of PreprocessService: the failed future keeps the inner service.
PreprocessKeeps(outs, permit) == outs \cup {Outcome(FALSE, "failed", permit)}

\* PreprocessService::call: the preprocessor may fail, and the inner service
\* is not called and stays as it was.
PreprocessService(outs, permit) == outs \cup {Outcome(permit, "failed", FALSE)}

\* ConnectionWithInfo::call leaves a clone in place of the service it calls.
ConnectionWithInfo(outs) == {[o EXCEPT !.left = FALSE] : o \in outs}

\* UnixExtensionTransport::call does the same, and does not call the service it
\* took when the request has no address.
UnixExtensionTransport(outs) ==
    {[o EXCEPT !.left = FALSE] : o \in outs} \cup {Outcome(FALSE, "failed", FALSE)}

\* Mistaken form of ConnectionWithTlsInfo: the future gets the clone.
TlsInfoClone(permit) == {Outcome(permit, "held", FALSE)}

\* ConnectionWithTlsInfo::call leaves a clone and keeps the service it took in
\* its future, to be called when the TLS information has come.
ConnectionWithTlsInfo(permit) == {Outcome(FALSE, "held", permit)}

CallInner(permit) ==
    LET outs == Bottom(permit)
    IN  CASE stack.inner = "Delegating" -> Delegating(outs)
          [] stack.inner = "Preprocess" -> PreprocessService(outs, permit)
          [] stack.inner = "Info"       -> ConnectionWithInfo(outs)
          [] stack.inner = "Unix"       -> UnixExtensionTransport(outs)

CallService(permit) ==
    LET outs == CallInner(permit)
    IN  CASE stack.outer = "Delegating" -> Delegating(outs)
          [] stack.outer = "Preprocess" -> PreprocessService(outs, permit)
          [] stack.outer = "Info"       -> ConnectionWithInfo(outs)
          [] stack.outer = "Unix"       -> UnixExtensionTransport(outs)
          [] stack.outer = "TlsInfo"    -> ConnectionWithTlsInfo(permit)

-----------------------------------------------------------------------------
Live(r) == \E h \in Handles : inner[h] = r
Shared(h) == \E g \in Handles \ {h} : inner[g] = inner[h]

Reserved ==
    Cardinality({r \in Refs : ready[r]}) + Cardinality({i \in Calls : call[i].leaf})
        + (IF raw = "ready" THEN 1 ELSE 0)

\* The bottom service has a permit to give.
Available == Reserved < Capacity

\* Mistaken form of make_mut: the handles go on sharing one service.
make_mut_shares(h, r) == r = inner[h] /\ UNCHANGED inner

\* Arc::make_mut: h has the ClientRef r to itself afterwards, a copy if there
\* were other handles to the one it had.
make_mut(h, r) ==
    /\ IF Shared(h) THEN ~Live(r) ELSE r = inner[h]
    /\ inner' = [inner EXCEPT ![h] = r]

\* Mistaken form of Permit: the copy takes the permit along.
PermitCopied(h, r) == ready[inner[h]]

\* Does the service of h hold a permit once make_mut gave it r?  The clone in a
\* copy of the ClientRef does not.
Permit(h, r) == r = inner[h] /\ ready[r]

\* Client::new_from_service, with a service in whatever state its owner left it.
new_from_service(h) ==
    /\ inner[h] = NoRef /\ raw # "none"
    /\ \E r \in Refs :
          /\ ~Live(r)
          /\ inner' = [inner EXCEPT ![h] = r]
          /\ ready' = [ready EXCEPT ![r] = raw = "ready"]
    /\ raw' = "none"
    /\ UNCHANGED <<stack, call, promise, sound>>

\* Client::poll_ready.  The copy make_mut made stays also when it is Pending.
poll_ready(h) ==
    /\ inner[h] # NoRef
    /\ \E r \in Refs :
          /\ make_mut(h, r)
          /\ LET ok == Permit(h, r) \/ Available
             IN  /\ ready' = [ready EXCEPT ![r] = ok]
                 /\ promise' = [promise EXCEPT ![h] = IF ok THEN "ready" ELSE "none"]
    /\ UNCHANGED <<stack, raw, call, sound>>

\* Mistaken form of Replace: the clone goes into the call.
SendClone(permit) == [sent |-> FALSE, kept |-> permit]

\* ClientRef::request: the service goes into the call and a clone is kept.
Replace(permit) == [sent |-> permit, kept |-> FALSE]

\* Client::request, get and call: a Oneshot of the service.
request(h, i) ==
    /\ inner[h] # NoRef /\ call[i].stage = "idle"
    /\ \E r \in Refs :
          /\ make_mut(h, r)
          /\ LET swap == Replace(Permit(h, r))
             IN  /\ ready' = [ready EXCEPT ![r] = swap.kept]
                 /\ call' = [call EXCEPT ![i] = [stage |-> "oneshot", leaf |-> swap.sent,
                                                 promise |-> promise[h],
                                                 direct |-> swap.sent]]
    /\ promise' = [promise EXCEPT ![h] = "none"]
    /\ UNCHANGED <<stack, raw, sound>>

\* TowerHyperService::call: a Oneshot of a clone.  The service of the connection
\* is never polled itself.
TowerHyperService(i) ==
    /\ call[i].stage = "idle"
    /\ call' = [call EXCEPT ![i].stage = "oneshot"]
    /\ UNCHANGED <<stack, inner, ready, raw, promise, sound>>

\* Client::clone: g becomes another handle to the ClientRef of h.
clone(h, g) ==
    /\ inner[h] # NoRef /\ inner[g] = NoRef
    /\ inner' = [inner EXCEPT ![g] = inner[h]]
    /\ promise' = [promise EXCEPT ![h] = IF @ = "none" THEN "none" ELSE "shared"]
    /\ UNCHANGED <<stack, ready, raw, call, sound>>

\* h is gone, and with the last handle to it the ClientRef and its service.
Release(h) ==
    /\ inner' = [inner EXCEPT ![h] = NoRef]
    /\ ready' = [ready EXCEPT ![inner[h]] = Shared(h) /\ @]
    /\ promise' = [promise EXCEPT ![h] = "none"]

DropClient(h) ==
    /\ inner[h] # NoRef
    /\ Release(h)
    /\ UNCHANGED <<stack, raw, call, sound>>

\* Client::into_inner: the service itself if h is the only handle, else a clone.
into_inner(h) ==
    /\ inner[h] # NoRef /\ raw = "none"
    /\ raw' = IF ~Shared(h) /\ ready[inner[h]] THEN "ready" ELSE "unready"
    /\ Release(h)
    /\ UNCHANGED <<stack, call, sound>>

-----------------------------------------------------------------------------
\* The owner of a service (the accept loop of its make-service, or of what
\* into_inner gave) polls it and calls it when it is ready, by the book.
PollRaw ==
    /\ raw = "unready" /\ Available
    /\ raw' = "ready"
    /\ UNCHANGED <<stack, inner, ready, call, promise, sound>>

\* The future of call i gets to the outcome o of calling a service.
Proceeds(i, o) ==
    /\ call' = [call EXCEPT ![i].stage = o.stage, ![i].leaf = o.leaf]
    /\ sound' = (sound /\ (o.stage = "running" => o.leaf))

CallRaw(i) ==
    /\ raw = "ready" /\ call[i].stage = "idle"
    /\ \E o \in CallService(TRUE) :
          /\ Proceeds(i, o)
          /\ raw' = IF o.left THEN "ready" ELSE "unready"
    /\ UNCHANGED <<stack, inner, ready, promise>>

DropRaw ==
    /\ raw # "none"
    /\ raw' = "none"
    /\ UNCHANGED <<stack, inner, ready, call, promise, sound>>

\* Oneshot::poll: once its service is ready it calls it, in the same poll, and
\* drops it.
PollOneshot(i) ==
    /\ call[i].stage = "oneshot" /\ (call[i].leaf \/ Available)
    /\ \E o \in CallService(TRUE) : Proceeds(i, o)
    /\ UNCHANGED <<stack, inner, ready, raw, promise>>

\* ConnectionWithTlsInfo's future after the await: it calls the service it took.
Awaited(i) ==
    /\ call[i].stage = "held"
    /\ \E o \in CallInner(call[i].leaf) : Proceeds(i, o)
    /\ UNCHANGED <<stack, inner, ready, raw, promise>>

\* A future resolves, or is dropped, and lets go of what it holds.
Done(i) ==
    /\ call' = [call EXCEPT ![i].stage = "done", ![i].leaf = FALSE]
    /\ UNCHANGED <<stack, inner, ready, raw, promise, sound>>

Answer(i) == call[i].stage = "running" /\ Done(i)

\* Mistaken form of MaybeError: the error is only logged.
MaybeErrorPending(i) == FALSE

\* MaybeErrorFuture::poll in its Error state.
MaybeError(i) == call[i].stage = "failed" /\ Done(i)

DropCall(i) == call[i].stage \in {"oneshot", "held", "running", "failed"} /\ Done(i)

Next ==
    \/ \E h \in Handles : new_from_service(h) \/ poll_ready(h) \/ DropClient(h) \/ into_inner(h)
    \/ \E h, g \in Handles : clone(h, g)
    \/ \E h \in Handles, i \in Calls : request(h, i)
    \/ \E i \in Calls : \/ TowerHyperService(i) \/ CallRaw(i) \/ PollOneshot(i) \/ Awaited(i)
                        \/ Answer(i) \/ MaybeError(i) \/ DropCall(i)
    \/ PollRaw \/ DropRaw

Spec == Init /\ [][Next]_vars

\* Futures are polled when woken; permits are given in the order they were asked
\* for (tokio's semaphore), so a Oneshot is not passed over for ever; TLS
\* information comes and the bottom service answers.
Fairness ==
    \A i \in Calls : /\ SF_vars(PollOneshot(i)) /\ WF_vars(Awaited(i))
                     /\ WF_vars(Answer(i)) /\ WF_vars(MaybeError(i))

FairSpec == Spec /\ Fairness

-----------------------------------------------------------------------------
\* Type invariant; a future that is settled holds no permit.
TypeOK ==
    /\ stack \in [outer : Outer, inner : Inner]
    /\ inner \in [Handles -> Refs \cup {NoRef}]
    /\ ready \in [Refs -> BOOLEAN]
    /\ raw \in {"none", "unready", "ready"}
    /\ call \in [Calls -> [stage : {"idle", "oneshot", "held", "running", "failed", "done"},
                           leaf : BOOLEAN, promise : {"none", "ready", "shared"},
                           direct : BOOLEAN]]
    /\ \A i \in Calls : call[i].leaf => call[i].stage \in {"oneshot", "held", "running"}
    /\ promise \in [Handles -> {"none", "ready", "shared"}]
    /\ sound \in BOOLEAN

\* The service at the bottom is never called without the permit its poll_ready
\* reserved, whichever layers swap it for a clone, keep it across an await or
\* skip it, and however clients share it.
CalledOnlyWhenReady == sound

\* Permits are neither copied with a service nor forgotten: no more are out than
\* there are, and none is held by a ClientRef that no handle reaches.
WithinCapacity ==
    /\ Reserved <= Capacity
    /\ \A r \in Refs : ready[r] => Live(r)

\* A handle whose poll_ready answered Ready and that was not cloned since owns a
\* ready service, whatever the other handles of the client do (Arc::make_mut).
PromiseKept ==
    \A h \in Handles :
        promise[h] = "ready" => inner[h] # NoRef /\ ~Shared(h) /\ ready[inner[h]]

\* Then a call uses that ready service (mem::replace in ClientRef::request).
ReadyServiceUsed ==
    \A i \in Calls : call[i].promise = "ready" => call[i].direct

\* A reservation that sits in a service nobody calls.
Parked == raw = "ready" \/ \E r \in Refs : ready[r]

\* Every call resolves, also when a layer failed it, unless a caller keeps a
\* reservation it does not use.
CallResolves ==
    []<>~Parked =>
        \A i \in Calls : call[i].stage # "idle" ~> call[i].stage = "done"

\* What CHANGELOG.md says of the client (line 93): "Ensure that services polled to
\* readiness are used directly".
PolledServiceUsed ==
    \A i \in Calls : call[i].promise # "none" => call[i].direct

=============================================================================
