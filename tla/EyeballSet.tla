----------------------------- MODULE EyeballSet -----------------------------
(***************************************************************************)
(* The Happy Eyeballs set of src/src/happy_eyeballs.rs.  Connection        *)
(* attempts (futures) are pushed on a queue; finish() starts a first batch *)
(* together, then starts one more each time an attempt fails or the        *)
(* stagger delay elapses, and returns the first success.                   *)
(*                                                                         *)
(* One action is the code between two suspension points (awaits) of        *)
(* process_all, or an event of the environment: an attempt becoming ready, *)
(* a timer, or the caller dropping the future that finish() returned.      *)
(* finish() takes &mut self, so one runs at a time and push() happens only *)
(* between two of them; a later finish() resumes with what is left.        *)
(***************************************************************************)
EXTENDS Naturals, FiniteSets, Sequences

CONSTANTS Attempts,   \* the futures a caller can push
          NoAttempt,  \* Option::None, for futures and errors
          Unset,      \* Option::None, for initial_concurrency
          MaxFinish   \* bound: how many times the caller calls finish()

ASSUME EyeballSetAssumption ==
    /\ IsFiniteSet(Attempts)
    /\ NoAttempt \notin Attempts
    /\ Unset \notin 0..Cardinality(Attempts)
    /\ MaxFinish \in Nat

VARIABLES
    opts,     \* delay, timeout: is the Duration set?  initial_concurrency: batch size
    queue,    \* attempts not started yet, in the order of push
    tasks,    \* attempts in the FuturesUnordered
    future,   \* the attempt process_all popped and holds across an await
    error,    \* the first error seen, named by its attempt
    started,  \* is the instant of the first join_next recorded?
    pc,       \* where finish() is suspended, "idle" when none runs
    result,   \* what the last finish() returned; cleared by the next call
    outcome,  \* what polling an attempt yields: "pending", "ok" or "err"
    \* History variables, read by the properties only.
    pushed,   \* every attempt pushed, in order
    starts,   \* every attempt moved to tasks, in order
    failed,   \* failures consumed by join_next, in order
    won,      \* attempts finish() returned
    lost,     \* futures dropped from the held slot, never started
    calls     \* number of finish() calls

vars == <<opts, queue, tasks, future, error, started, pc, result, outcome,
          pushed, starts, failed, won, lost, calls>>

Elems(s) == {s[i] : i \in DOMAIN s}

Returned(k, a) == [kind |-> k, attempt |-> a]
NoResult == Returned("None", NoAttempt)

\* EyeballSet::new, for every combination of its three options.  A batch
\* larger than the number of attempts behaves as one of that size.
new ==
    /\ opts \in [delay : BOOLEAN, timeout : BOOLEAN,
                 initial_concurrency : 0..Cardinality(Attempts) \cup {Unset}]
    /\ queue = <<>> /\ tasks = {}
    /\ started = FALSE
    /\ error = NoAttempt

Init ==
    /\ new
    /\ future = NoAttempt /\ pc = "idle" /\ result = NoResult
    /\ outcome = [a \in Attempts |-> "pending"]
    /\ pushed = <<>> /\ starts = <<>> /\ failed = <<>>
    /\ won = {} /\ lost = {} /\ calls = 0

-----------------------------------------------------------------------------
is_empty == tasks = {} /\ queue = <<>>

\* Extend::extend appends a sequence of futures to the queue.
extend(s) ==
    /\ pc = "idle"
    /\ \A i \in DOMAIN s : s[i] \notin Elems(pushed)
    /\ queue' = queue \o s
    /\ pushed' = pushed \o s
    /\ result' = NoResult
    /\ UNCHANGED <<opts, tasks, future, error, started, pc, outcome, starts,
                   failed, won, lost, calls>>

push(a) == extend(<<a>>)

\* Mistaken forms of PopOrDrain: front() or pop_back() in place of pop_front().
FrontOrDrain(q) ==
    IF q = <<>>
    THEN /\ queue' = q /\ future' = NoAttempt /\ pc' = "drain"
    ELSE /\ queue' = q /\ future' = Head(q) /\ pc' = "stagger"

BackOrDrain(q) ==
    IF q = <<>>
    THEN /\ queue' = q /\ future' = NoAttempt /\ pc' = "drain"
    ELSE /\ queue' = SubSeq(q, 1, Len(q) - 1) /\ future' = q[Len(q)] /\ pc' = "stagger"

\* The head of the loop "while let Some(future) = queue.pop_front()" over the
\* queue q: it takes the next attempt into the local variable, where it stays
\* until the following await ends, or falls through to the draining loop.
PopOrDrain(q) ==
    IF q = <<>>
    THEN /\ queue' = q /\ future' = NoAttempt /\ pc' = "drain"
    ELSE /\ queue' = Tail(q) /\ future' = Head(q) /\ pc' = "stagger"

BatchSize ==
    IF opts.initial_concurrency = Unset \/ opts.initial_concurrency > Len(queue)
    THEN Len(queue)
    ELSE opts.initial_concurrency

\* finish() up to the first await of process_all: the initial batch moves from
\* the queue to the tasks, and join_next records the starting instant.
finish ==
    LET batch == SubSeq(queue, 1, BatchSize)
    IN  /\ pc = "idle"
        /\ calls < MaxFinish
        /\ calls' = calls + 1
        /\ tasks' = tasks \cup Elems(batch)
        /\ starts' = starts \o batch
        /\ PopOrDrain(SubSeq(queue, BatchSize + 1, Len(queue)))
        /\ started' = TRUE
        /\ result' = NoResult
        /\ UNCHANGED <<opts, error, outcome, pushed, failed, won, lost>>

\* finish() returns r, or its future is dropped: the local of process_all goes
\* with it.
Return(r) ==
    /\ pc' = "idle"
    /\ result' = r
    /\ lost' = IF future = NoAttempt THEN lost ELSE lost \cup {future}
    /\ future' = NoAttempt

\* tasks.next() in join_next yields the attempt a, with outcome o.
NextIs(a, o) == pc # "idle" /\ a \in tasks /\ outcome[a] = o

\* join_next yields Ok: both loops of process_all return it.
JoinOk(a) ==
    /\ NextIs(a, "ok")
    /\ tasks' = tasks \ {a}
    /\ won' = won \cup {a}
    /\ Return(Returned("Ok", a))
    /\ UNCHANGED <<opts, queue, error, started, outcome, pushed, starts,
                   failed, calls>>

\* What the staggering loop does with every other outcome: start the held
\* attempt beside the tasks in S and pop the next one.
StartHeld(S) ==
    /\ tasks' = S \cup {future}
    /\ starts' = Append(starts, future)
    /\ PopOrDrain(queue)

\* Mistaken form of FirstOf: the latest error replaces the one that is kept.
LatestOf(a) == a

\* join_next keeps an error only while it has none.
FirstOf(a) == IF error = NoAttempt THEN a ELSE error

\* Mistaken form of JoinErr: the draining loop pushes a future too.
JoinErrStarts(a) ==
    /\ NextIs(a, "err")
    /\ error' = FirstOf(a)
    /\ failed' = Append(failed, a)
    /\ StartHeld(tasks \ {a})
    /\ UNCHANGED <<opts, started, result, outcome, pushed, won, lost, calls>>

\* join_next yields Err: only the first error is kept.
JoinErr(a) ==
    /\ NextIs(a, "err")
    /\ error' = FirstOf(a)
    /\ failed' = Append(failed, a)
    /\ \/ /\ pc = "stagger"
          /\ StartHeld(tasks \ {a})
       \/ /\ pc = "drain"
          /\ tasks' = tasks \ {a}
          /\ UNCHANGED <<queue, future, pc, starts>>
    /\ UNCHANGED <<opts, started, result, outcome, pushed, won, lost, calls>>

\* Mistaken form of ExhaustedInStagger: the loop ends when no attempt runs.
ExhaustedReturns ==
    /\ pc = "stagger" /\ tasks = {}
    /\ Return(Returned("NoProgress", NoAttempt))
    /\ UNCHANGED <<opts, queue, tasks, error, started, outcome, pushed, starts, failed,
                   won, calls>>

\* join_next yields Exhausted to the staggering loop.
ExhaustedInStagger ==
    /\ pc = "stagger" /\ tasks = {}
    /\ StartHeld(tasks)
    /\ UNCHANGED <<opts, error, started, result, outcome, pushed, failed, won,
                   lost, calls>>

\* join_next yields Exhausted to the draining loop: error.take() or NoProgress.
ExhaustedInDrain ==
    /\ pc = "drain" /\ tasks = {}
    /\ Return(IF error = NoAttempt THEN Returned("NoProgress", NoAttempt)
                                   ELSE Returned("Error", error))
    /\ error' = NoAttempt
    /\ UNCHANGED <<opts, queue, tasks, started, outcome, pushed, starts, failed,
                   won, calls>>

\* tokio's timeout polls the future it wraps before its timer, so a timer only
\* counts when every task is pending.
AllPending == tasks # {} /\ \A a \in tasks : outcome[a] = "pending"

\* Mistaken forms of DelayElapsed: without a look at the option, and never.
DelayAlways ==
    /\ pc = "stagger" /\ AllPending
    /\ StartHeld(tasks)
    /\ UNCHANGED <<opts, error, started, result, outcome, pushed, failed, won,
                   lost, calls>>

DelayNever == FALSE

\* join_next_with_timeout: the stagger delay elapses.
DelayElapsed ==
    /\ pc = "stagger" /\ opts.delay /\ AllPending
    /\ StartHeld(tasks)
    /\ UNCHANGED <<opts, error, started, result, outcome, pushed, failed, won,
                   lost, calls>>

\* Mistaken form of TimeoutElapsed: the timeout covers the staggering loop only.
TimeoutInStagger ==
    /\ pc = "stagger" /\ opts.timeout /\ AllPending
    /\ Return(Returned("Timeout", NoAttempt))
    /\ UNCHANGED <<opts, queue, tasks, error, started, outcome, pushed, starts,
                   failed, won, calls>>

\* Mistaken form of TimeoutElapsed: the timer is looked at before the tasks.
TimeoutFirst ==
    /\ pc # "idle" /\ opts.timeout /\ tasks # {}
    /\ Return(Returned("Timeout", NoAttempt))
    /\ UNCHANGED <<opts, queue, tasks, error, started, outcome, pushed, starts,
                   failed, won, calls>>

\* finish: the overall timeout elapses and process_all is dropped.
TimeoutElapsed ==
    /\ pc # "idle" /\ opts.timeout /\ AllPending
    /\ Return(Returned("Timeout", NoAttempt))
    /\ UNCHANGED <<opts, queue, tasks, error, started, outcome, pushed, starts,
                   failed, won, calls>>

\* The caller drops the future of finish() at an await (which exists only
\* while there is a task to wait for).
Cancel ==
    /\ pc # "idle" /\ tasks # {}
    /\ Return(Returned("Cancelled", NoAttempt))
    /\ UNCHANGED <<opts, queue, tasks, error, started, outcome, pushed, starts,
                   failed, won, calls>>

\* An attempt becomes ready.  Nothing can tell an attempt that resolves before
\* it is polled again from one that resolves in that poll.
Resolve(a, o) ==
    /\ a \in tasks /\ outcome[a] = "pending"
    /\ outcome' = [outcome EXCEPT ![a] = o]
    /\ UNCHANGED <<opts, queue, tasks, future, error, started, pc, result,
                   pushed, starts, failed, won, lost, calls>>

process_all ==
    \/ \E a \in Attempts : JoinOk(a) \/ JoinErr(a)
    \/ ExhaustedInStagger
    \/ ExhaustedInDrain

Next ==
    \/ \E a \in Attempts : push(a)
    \/ \E a, b \in Attempts : a # b /\ extend(<<a, b>>)
    \/ finish
    \/ process_all
    \/ DelayElapsed
    \/ TimeoutElapsed
    \/ Cancel
    \/ \E a \in Attempts, o \in {"ok", "err"} : Resolve(a, o)

Spec == Init /\ [][Next]_vars

\* The executor polls a woken task and tokio's timers fire.  Nothing obliges an
\* attempt to resolve, nor the caller to push, to call or to drop.
Fairness == WF_vars(process_all) /\ WF_vars(DelayElapsed) /\ WF_vars(TimeoutElapsed)

FairSpec == Spec /\ Fairness

-----------------------------------------------------------------------------
MaybeAttempt == Attempts \cup {NoAttempt}

\* Type invariant: the fields of EyeballSet and the locals of process_all.
TypeOK ==
    /\ opts \in [delay : BOOLEAN, timeout : BOOLEAN,
                 initial_concurrency : 0..Cardinality(Attempts) \cup {Unset}]
    /\ queue \in Seq(Attempts)
    /\ tasks \subseteq Attempts
    /\ future \in MaybeAttempt
    /\ error \in MaybeAttempt
    /\ started \in BOOLEAN
    /\ pc \in {"idle", "stagger", "drain"}
    /\ result \in [kind : {"None", "Ok", "Error", "NoProgress", "Timeout", "Cancelled"},
                   attempt : MaybeAttempt]
    /\ outcome \in [Attempts -> {"pending", "ok", "err"}]
    /\ pushed \in Seq(Attempts) /\ starts \in Seq(Attempts) /\ failed \in Seq(Attempts)
    /\ won \subseteq Attempts /\ lost \subseteq Attempts
    /\ calls \in Nat

Held == IF future = NoAttempt THEN {} ELSE {future}

\* Every attempt ever pushed is in exactly one place: waiting in the queue,
\* held by process_all, running, settled by a failure or a success, or dropped
\* with the held slot.  No interleaving of pushes, races, timeouts and dropped
\* finish() futures duplicates or forgets one.
AttemptsAccounted ==
    /\ Elems(pushed) = Elems(queue) \cup Held \cup tasks \cup Elems(failed) \cup won \cup lost
    /\ Elems(queue) \cap (Held \cup tasks \cup Elems(failed) \cup won \cup lost) = {}
    /\ Held \cap (tasks \cup Elems(failed) \cup won \cup lost) = {}
    /\ tasks \cap (Elems(failed) \cup won \cup lost) = {}
    /\ Elems(failed) \cap (won \cup lost) = {}
    /\ won \cap lost = {}

\* finish() drops an attempt only before that attempt was started, at most one
\* per call: a connection that is being made, or is made, survives in the set
\* (process_all pops one future and holds it across the await).
OnlyUnstartedLost ==
    /\ lost \cap Elems(starts) = {}
    /\ Cardinality(lost) <= calls

\* finish() answers with an error or NoProgress only after every attempt ever
\* pushed has failed, was returned by an earlier call, or was dropped unstarted:
\* no attempt that could still connect is left behind.
FailureIsComplete ==
    result.kind \in {"Error", "NoProgress"} =>
        /\ is_empty
        /\ Elems(pushed) = Elems(failed) \cup won \cup lost

\* The error returned is the first one, as HappyEyeballsError documents
\* (happy_eyeballs.rs:22-23).  Stated for the first finish() of a set, the only
\* one when the set is awaited through IntoFuture: once an attempt has failed
\* the answer is never NoProgress, and an error is that of the attempt that
\* failed first, in whatever order the others end.
FirstErrorReported ==
    calls = 1 /\ failed # <<>> =>
        /\ result.kind # "NoProgress"
        /\ result.kind = "Error" => result.attempt = failed[1]

\* Attempts are started in the order they were pushed (the order of preference
\* of the addresses): one that was started has no earlier one still waiting.
PreferenceOrder ==
    \A i, j \in DOMAIN pushed :
        i < j /\ pushed[j] \in Elems(starts) =>
            pushed[i] \in Elems(starts) \cup lost

\* Without a stagger delay the staggering loop starts an attempt only in place
\* of one that ended: the number of running attempts grows only in the first
\* batch, or from zero to one.
NoDelayNoGrowth ==
    [][pc = "stagger" /\ ~opts.delay =>
            \/ Cardinality(tasks') <= Cardinality(tasks)
            \/ tasks = {} /\ Cardinality(tasks') = 1]_vars

\* With a stagger delay a hung attempt never keeps the next one waiting for
\* ever: the staggering loop always comes to its end.
StaggerProgress == opts.delay => (pc = "stagger" ~> pc # "stagger")

\* With an overall timeout, finish() returns, whatever the attempts do.
TimeoutReturns == opts.timeout => (pc # "idle" ~> pc = "idle")

\* A success that is ready while finish() runs makes it return with a success,
\* unless the caller drops it: neither the other attempts nor a timer that fires
\* at the same moment win over it (join_next and timeout poll the tasks first).
SuccessReturns ==
    \A a \in Attempts :
        (pc # "idle" /\ a \in tasks /\ outcome[a] = "ok") ~>
            (pc = "idle" /\ result.kind \in {"Ok", "Cancelled"})

\* What the doc comment of EyeballSet says (happy_eyeballs.rs:71-72): "When the
\* `timeout` is not set, the algorithm will attempt to connect to only one
\* address at a time."
OneAtATimeWithoutTimeout ==
    ~opts.timeout /\ ~opts.delay => Cardinality(tasks) <= 1

\* The set implements the abstract race: the attempts that are open are those
\* queued, held or running.
Race == INSTANCE AttemptRace WITH
            open <- Elems(queue) \cup Held \cup tasks,
            firstFailure <- error,
            running <- pc # "idle",
            answer <- result

\* Every step of the set is a step of the race or changes nothing the caller
\* can see; in particular an error is answered only when no attempt is open.
ImplementsRace == Race!Spec

=============================================================================
