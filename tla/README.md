# Verification of hyperdriver

hyperdriver is a library of building blocks for HTTP clients and servers on
tokio, hyper and tower. This directory holds TLA+ models of the parts of it that
have state, timing or interleaving of their own, TLC configurations that check
them on small instances, and TLAPS proofs for every instance.

Paths below are relative to the repository (`src/happy_eyeballs.rs` and so on).
`PROJECT.json` has the exact correspondence of definitions and source lines.

## Inventory

| Component | State | Operations | What is hard | What makes it correct |
|---|---|---|---|---|
| Happy Eyeballs set (`happy_eyeballs.rs`) | queue, running tasks, first error, start instant, options; the local future of `process_all` | `push`, `extend`, `finish` / `IntoFuture`, two timers, dropping the future | cancellation at an await with a future held in a local; failures in any order; timers against results; repeated `finish()` | no attempt lost track of, first error, no failure while something can still connect, progress past a hung attempt |
| Automatic server protocol (`server/conn/auto.rs`, `connecting.rs`) | `ConnectionState`, the read buffer of `ReadVersion`, `cancelled` | `poll`, `graceful_shutdown` | splitting of the prefix over reads; shutdown in each state and between them; silent peers | detection, hand-over of the bytes, shutdown never lost, the connection ends |
| `Rewind` (`rewind.rs`) | bytes to give back | `poll_read` | small buffers | the stream is read once, in order |
| Connection and TLS information (`server/conn/info.rs`), SNI validation (`server/conn/tls/sni.rs`), acceptor and stream (`acceptor.rs`, `stream.rs`), bridge (`bridge/service.rs`) | an `Option` of information and a receiver per service, extensions per request | make-service call, its future, service call, `handle` | many connections and many requests on each; `Option::take` in a service that is called repeatedly; waiting for the handshake | information of the right connection on every request, validation against that connection's name, no hang |
| Client stack (`client/builder.rs`, `client/mod.rs`), TLS transport (`client/conn/tls.rs`), resolver (`dns.rs`), protocol (`protocol/auto.rs`), checks (`service/http.rs`, `service/host.rs`), timeout (`service/timeout.rs`) | pooled connections, calls in flight | request, reuse, connect, handshake, send, respond, time out, drop | the pool key and the TLS decision look at different parts of a request; layers depend on their order; calls go away half way | TLS when asked for, HTTP/1 connections exclusive, the server verified for the host that is asked, right form of the request for the protocol, bodies not lost in redirects, calls resolve |
| Fixed-version protocols (`client/conn/protocol/mod.rs`, `connection.rs`, `server/conn/mod.rs`) | none of their own | `call`, `send_request`, `serve_connection`, `graceful_shutdown` | they must keep the promises of the automatic ones although each prepares requests in its own way | the same properties, whichever protocol is configured |
| Readiness: `Client` (`client/mod.rs`), bridge (`bridge/service.rs`), middleware (`service/option.rs`, `error.rs`, `incoming.rs`, `timeout.rs`, `info.rs`, `transport/unix.rs`) | an `Arc` shared by clones of a client; in each service what its `poll_ready` reserved | `poll_ready`, `call`, `request`, `clone`, `into_inner`, dropping, futures | clones share a service that was polled; layers swap the polled service for a clone, keep it across an await or skip it | no call without readiness, no reservation copied or forgotten, calls resolve |
| Bodies (`body/mod.rs`) | the kind of body | `From`, `size_hint`, `is_end_stream`, `poll_frame` | a body is used up by sending, and a redirect sends again | no body replaced by an empty one |
| Client streams | none, delegated | `tls_info` | | what ALPN chose reaches the protocol |

The components meet as follows. A server's accept loop (crate chateau) takes
streams from the acceptor, calls the make-service layers with a reference to each
and hands stream and service to the protocol, which detects HTTP/1 or HTTP/2,
rewinds the bytes it read and lets hyper call the service through the bridge. A
client request goes through timeout, redirect and header layers to the pool
(chateau), which asks for a connection by key or has one made by transport and
protocol; below the pool the Host header and the HTTP/2 and HTTP/1 checks adapt
the request to the connection it got. `EyeballSet` is self-contained: the crate
compiles it and tests it, but no transport uses it.

## Modules

| Module | Models | Notes |
|---|---|---|
| `AttemptRace` | what a race of attempts promises | abstract, no code of its own |
| `EyeballSet` | `happy_eyeballs.rs` | implements `AttemptRace` |
| `EyeballSetProofs` | | proofs about `EyeballSet`: types and accounting |
| `EyeballSetRaceProofs` | | proofs about `EyeballSet`: results, order, the refinement; extends `EyeballSetProofs` |
| `ServedConnection` | what a connection promises to the server | abstract, no code of its own |
| `UpgradableConnection` | `server/conn/auto.rs`, `rewind.rs`, the fixed protocols of `server/conn/mod.rs` and reads through `bridge/io.rs`, composed | implements `ServedConnection`; hyper external |
| `UpgradableConnectionProofs` | | proofs about `UpgradableConnection` |
| `SniValidation` | the decision of `sni.rs` | operators only |
| `ServerRequests` | `info.rs`, `stream.rs`, `acceptor.rs`, `bridge/service.rs`, composed with `SniValidation` | hyper, chateau, rustls external |
| `ServerRequestsProofs` | | proofs about `ServerRequests` |
| `HttpClient` | the client stack composed | pool, redirect layer and hyper external |
| `ClientServer` | `HttpClient` composed with `SniValidation` | the two halves of the crate against each other |
| `HttpClientProofs` | | proofs about `HttpClient` and `ClientServer` |
| `ServiceReadiness` | `client/mod.rs`, `bridge/service.rs` and the middleware, two layers deep, composed | tower's `Oneshot` and the service at the bottom external |
| `ServiceReadinessProofs` | | proofs about `ServiceReadiness` |
| `MC*` | | instances for TLC |

Each module also holds a few *mistaken forms* of its definitions (a guard left
out, two steps swapped). No specification uses them: they are put in the place of
the definition they follow to confirm that each property would notice.

### EyeballSet

An action is the code between two awaits of `process_all`, or an event outside
it. `queue`, `tasks`, `error`, `started` and `opts` are the fields of the struct.
`future` is the local that the staggering loop pops and keeps during the await,
and `pc` tells which await `finish()` is suspended in: `stagger` (the `while let`
loop) or `drain` (the final loop). `JoinOk`, `JoinErr` and `Exhausted...` are the
outcomes of `join_next` in the two loops, `DelayElapsed` and `TimeoutElapsed` the
two timers, `Cancel` the caller dropping the future. An attempt resolves at any
time while it is in `tasks`, or never. tokio's `timeout` polls its future before
its timer, so a timer counts only when no task is ready (`AllPending`).
`pushed`, `starts`, `failed`, `won`, `lost` and `calls` record history.

### UpgradableConnection

The peer's stream is a sequence of positions; of a byte the model keeps whether
it agrees with the HTTP/2 prefix at its place, for all 2^PrefixLen patterns. Any
number of bytes arrives at a time and a read takes any number of those available,
up to its buffer. `protocol` is the one the server was built with; the fixed ones
start in `Http1` or `Http2`, without detection and with nothing to give back.
`PollReadVersion` is one read of `ReadVersion::poll` with the comparison the code
makes (`IsHttp1`) and the switch to the protocol (`TakeOver`). After it hyper reads
through `RewindPrefix` and `RewindInner`. `graceful_shutdown` sets `cancelled` or
tells hyper, depending on the state.

hyper's connections are external and are given no more than what hyper does with
the settings the builders leave (no half-close, no timer):

- They read also while they serve requests (`ConnRead`). `requests` counts those
  being served and, in HTTP/1, those that wait behind the one being served; a read
  completes at most one.
- A shutdown drains them (`Drained`). HTTP/1 ends at once when it has read nothing
  or is idle between two requests; it finishes the request it serves, dropping those
  behind it (`Respond`); and it waits for the rest of a first head it has begun to
  read. HTTP/2 waits for the rest of its preface if that has not come, then sends a
  PING and takes new requests until the answer (`acked`), then serves those it has.
- They end over a request that is being served (`ConnEnd`) when the peer closes its
  half, on an error of the socket and, in HTTP/2, when the peer breaks the protocol.
- `stopped`: what was read is not HTTP, or HTTP/1 has answered its last request: the
  first after the shutdown, one without keep-alive, or one the service failed. Nothing more is read.

So a shutdown need not end a connection whose peer has fallen silent. `PeerOwes` says
when: the link is open, nothing is left to read or to serve, and what is missing is
the rest of a first HTTP/1 head, the rest of the HTTP/2 preface or the answer to the
PING. `ShutdownEnds` says that this is the only way, and in detection not even that.

`ServedConnection` is the view of the server that drives a connection: a version
that is settled once, and not after a drain was asked for; bytes delivered from the
first one on; and a request that is cut off only by the peer, never by the drain. How
long a protocol drains is not in it, except that a connection without a protocol
yet, or without a peer, ends. The refinement maps detection to `undecided`, `seen`
to the bytes delivered, `requests` to what is pending, `asked` to draining and the
peer's half to the link. Its specification is `Safety`, which is proved to be
implemented, with fairness, which is checked.

### ServerRequests

Information about a connection is named by that connection. `Accept` yields the
stream, `MakeService` captures what it knows, `Made` moves it to the service, `Call` copies it to a request
up to the wait for TLS information, `Proceed` is the rest including the verdict
of `handle`. `ServiceAfterCall` is what a call leaves in the connection's service:
everything, since the bridge calls a clone.

### HttpClient

A request is a record of what the code looks at: scheme, host, port, version,
method, Host header, whether it carries connection headers, its body and the Unix
address in its extensions. The operators
`build_key`, `get_tls_domain`, `get_host_and_port`, `handshake`,
`check_http2_request`, `check_http1_request`, `set_host_header` and
`send_request` translate the functions of those names, `Executor` their order in
`build_service`. `config` holds the settings of the builder, the protocol among
them: `Protocol` and `send_request` tell the automatic and the two fixed ones
apart, `Addressed` the TCP transport with its resolver and the Unix one. Each call
moves through `checkout`, `resolving`, `connecting`, `handshaking`, `ready` and
`sent`, and can be timed out or dropped in each. A connection records the name
its server proved in the TLS handshake: the whole Host header value if there is
one, so that with a port in it the handshake cannot succeed (`Connected`). A CONNECT
without an authority panics in `authority_form` over HTTP/1 (`Unreachable`).

`FollowRedirect` is tower-http's layer with its standard policy, at the place
`build_service` gives it. It takes the call back to `checkout` with the new URI.
A GET made of a POST loses its body; otherwise the request is only sent again
when `size_hint` says that the body was empty, since a body that was sent is used
up. Whether a Host header and the extensions are taken along is left open.

`unread` is what
hyper still has to read of a response after its call is gone. Of the pool it is
assumed that it hands out a connection that is open and has the key of the
request, and one that cannot be shared to one call at a time.

### ClientServer

`HttpClient` against a server of this crate with the `ValidateSNI` layer.
`Parsed` is what the server's hyper makes of the request on the wire, `Recorded`
what its TLS handshake recorded, and `Server!handle` the same operator that
`ServerRequests` uses.

### ServiceReadiness

At the bottom is a service with a limited number of permits: `poll_ready` reserves
one, a call takes it along and a clone has none. A layer is an operator from the
outcomes of calling its inner service to the outcomes of calling it: what the
called instance is left with, what the future does next, and whether the future
holds the permit. `Timeout`, `OptionService` and the two `Incoming` services pass
the call on; `ConnectionWithInfo` and `UnixExtensionTransport` call the service
they took and leave a clone; `ConnectionWithTlsInfo` keeps it in its future;
`PreprocessService` may not call it at all. `stack` chooses two layers. Above them
are `Client` handles that share a `ClientRef` (`inner`, `make_mut`), the bridge,
and an owner that polls and calls a bare service by tower's rules. `promise` and
the fields `promise` and `direct` of a call record history.

## Runs

| Run | Properties | Bounds |
|---|---|---|
| `eyeball` | `AttemptsAccounted`, `OnlyUnstartedLost`, `FailureIsComplete`, `FirstErrorReported`, `PreferenceOrder`, `NoDelayNoGrowth`, `ImplementsRace`, `StaggerProgress`, `TimeoutReturns`, `SuccessReturns`, `TypeOK` | 3 attempts, 3 `finish()` calls, all options |
| `eyeball_one_at_a_time` | `OneAtATimeWithoutTimeout`, violated | 2 attempts |
| `upgradable` | `StreamIntact`, `Http2HasPreface`, `ShutdownNotLost`, `ShutdownEnds`, `CloseEnds`, `ImplementsServed`, `TypeOK` | all three protocols, prefix of 4 bytes, stream of 6, hyper reads up to 2 |
| `upgradable_preface` | `PrefaceSelectsHttp2`, violated | prefix of 3 bytes, stream of 5 |
| `client_safety` | `SecureOverTls`, `VerifiedForHost`, `ServerValidates`, `BodyNotLost`, `Http1Exclusive`, `Http1WireForm`, `Http2WireForm`, `TypeOK` | 2 calls, 2 connections, 12 requests, 1 redirect per call to 2 places, 12 configurations, symmetry |
| `client_liveness` | `TimeoutResolves` | 2 calls, 1 connection |
| `client_unix_socket` | `SentToOwnSocket`, violated | 2 calls, 1 connection |
| `client_absolute_form` | `AbsoluteFormAsserts`, violated | 1 call |
| `client_request_version` | `VersionPicksProtocol`, violated | 1 call |
| `server_requests` | `InfoOfOwnConnection`, `TlsInfoOfOwnConnection`, `SniValidated`, `RequestProceeds`, `TypeOK` | 2 connections, 2 requests, 2 names |
| `service_readiness` | `CalledOnlyWhenReady`, `WithinCapacity`, `PromiseKept`, `ReadyServiceUsed`, `CallResolves`, `TypeOK` | 2 handles, 2 `ClientRef`s, 2 calls, 1 permit, all 20 stacks of two layers |
| `readiness_changelog` | `PolledServiceUsed`, violated | the same |

The bounds are the smallest at which the interesting cases meet. Three attempts
allow one to run, one to be held and one to wait at once; three calls of
`finish()` allow one to inherit from a call that itself inherited. A prefix of
four bytes can be split in first, middle and last parts, two more bytes follow
it (for HTTP/2, a request and the answer to the PING, in either order), and a read
of two leaves a remainder of the prefix; the length of the real
prefix, 24, only adds more ways of the same kinds to split it. Two calls and two
connections are what sharing and mixing up need. A timeout, a pool and redirects
only add steps to a client, so the client runs have all three on and vary TLS,
transport and protocol. One redirect reaches the second host or scheme; a further
one starts from the same states. Two handles share or do not, and with one permit
and two calls one has to wait for what the other holds. All runs switch deadlock
checking off, as the systems stop when the caller has no more requests or the
bound on calls is reached; what must not stop is stated as liveness.

What the six violations show:

- Concurrency of `EyeballSet` does not depend on `timeout`, contrary to its doc
  comment: without timeout and delay the whole queue runs at once.
- `ReadVersion::poll` compares the bytes of one read with all of the remaining
  prefix. A peer whose prefix arrives in two segments is served HTTP/1. The other
  direction (`Http2HasPreface`) holds.
- `check_http1_request` calls `absolute_form` exactly when its assertions fail.
- Without ALPN an HTTP/2 request is sent as HTTP/1.1; the request's version has no
  influence on the protocol, contrary to the doc comment of the builder.
- The Unix address of a request is not part of the pool key. A client with a pool
  sends a request over a connection to the socket of another request; the test of
  that transport uses a client without a pool.
- A client that is cloned between `poll_ready` and the call uses a fresh clone of
  its service, not the one it polled, contrary to the changelog entry (a TODO in
  the code asks the same question). `CalledOnlyWhenReady` still holds, since the
  `Oneshot` polls again; but the reservation stays behind in the shared
  `ClientRef`, which is why `CallResolves` is stated for callers that do not keep
  a reservation unused: with one permit such a call waits for ever.

The client runs also reach a panic that is compiled in: `check_http1_request` calls
`authority_form` for every CONNECT, over a Unix socket a URI without an authority gets
that far, and the arm for it is `unreachable!` (`Unreachable`, answered `"Panicked"`).

`SecureOverTls` records one more observation. `build_key` makes up a scheme for a
URI that has none, `https` for an HTTP/2 request, while the TLS decision treats
the missing scheme as plaintext. A connection opened for such a request is
plaintext and pooled under `https`, so the property has to except connections
opened for a request without a scheme. `VerifiedForHost` and `ServerValidates` need
an exception of the same kind: a Host header set by the caller names the server in
the TLS handshake but is not part of the key, so a later request for the same URI
without that header goes over a connection that was verified for another name.

### Fairness

`EyeballSet`: weak fairness of `process_all` and of the two timers, since an
executor polls a woken task and tokio fires timers. Nothing makes an attempt
resolve. `UpgradableConnection`: the connection is polled when it is woken, and
after `graceful_shutdown`, which chateau's server calls from the poll of the same
task; handlers answer. Nothing makes the peer send (the answer to a PING included) or
close. `HttpClient`: timers
fire and a ready request is sent; nothing is assumed of the network. `ServerRequests`:
a request that can go on is polled. `ServiceReadiness`: futures are polled when
woken, the service at the bottom answers and TLS information comes; a `Oneshot`
has strong fairness, since permits are given in the order they were asked for
(tokio's semaphore) and it is not passed over for ever. Nothing makes the owner of
a client poll, call or drop it.

## Proofs

Every invariant that a passing run checks, the action property `NoDelayNoGrowth`,
the refinement of `AttemptRace` and the safety part of the refinement of
`ServedConnection` are proved for every value of the constants. Each module of
proofs has the same shape: lemmas about the operators of the model, an inductive
invariant `IInv`, `InitIInv`, one lemma per action or group of like actions,
`NextIInv`, and theorems that follow from `Spec => []IInv`. The only assumptions
are the named ones on the constants in the modules themselves, which TLC evaluates
in the runs: placeholders such as `NoConn` are not members of the sets they stand
outside of, sets whose members are counted are finite, lengths and capacities are
natural numbers, and the requests a caller can make are well formed.

### EyeballSetProofs, EyeballSetRaceProofs

For any finite set of attempts and any number of calls of `finish()`:

| Theorem | States |
|---|---|
| `TypeCorrect`, `AttemptsAlwaysAccounted` | `TypeOK`, `AttemptsAccounted` |
| `OnlyUnstartedEverLost` | `OnlyUnstartedLost` |
| `FailureAlwaysComplete` | `FailureIsComplete` |
| `FirstErrorAlwaysReported` | `FirstErrorReported` |
| `AlwaysPreferenceOrder` | `PreferenceOrder` |
| `NeverGrowsWithoutDelay` | `NoDelayNoGrowth` |
| `RefinesRace` | `ImplementsRace` |

`AttemptsAccounted` is not inductive. Popping an attempt keeps it in one place
only if it is not in the queue twice, and returning empties the held slot into
`lost` correctly only if the slot is full exactly in the staggering loop. The
inductive invariant `IInv` adds `QueueInv`: the queue has no repetition, the held
slot is full exactly when `pc = "stagger"`, and the draining loop runs with an
empty queue. `PopOrDrainFacts`, `StartHeldFacts` and `ReturnFacts` state what the
shared steps do, and they rest on lemmas about the elements of concatenated, split
and extended sequences.

For the rest `RaceInv` holds beside it. `StartsAccounted`: what was started runs,
failed or won, so an attempt in `lost` was not started. `LostBound` counts the
call under way as one that may still drop an attempt; without it the count would
not survive the return. `ResultInv`: there is no result while a call runs, and
after an error or `NoProgress` nothing is queued, held or running. `ErrorInv`: in the first call the error kept is that of the first
failure. `OrderInv`: the queue is the end of the sequence of all pushes and the
held attempt is the one just before it, which is what keeps a later attempt from
being started first. `Steps` sorts the steps of `Next` into the kinds that have to
be told apart; each part of the invariant, the bound on growth and the refinement
go through these. The refinement maps queue, held slot and tasks
together to the open attempts; the stagger delay, a start and a pop are stutters.

### UpgradableConnectionProofs

For every length of the prefix, of the peer's stream and of the protocol's buffers:
`TypeCorrect`, `StreamAlwaysIntact`, `Http2AlwaysHasPreface`, `ShutdownNeverLost`
(the invariants `TypeOK`, `StreamIntact`, `Http2HasPreface`, `ShutdownNotLost`) and
`ImplementsServedSafety`. With them the bounds of the run (a prefix of 4 bytes for
the real one of 24) no longer matter for these. The three properties speak of the
protocol once it runs, and say too little of the time before; `DetectionInv` adds
that in `ReadVersion` nothing was handed over or taken by the protocol, nothing is
served, and a shutdown asked for is in `cancelled`. In the
refinement, the end of a connection that serves a request is a case distinction on
`ConnEnd`: drained means that there is none, and what is left are the peer's three
ways to cut it off.
`DetectionInv` also says `filled = 0`: no
detection survives a read of part of the prefix, the proof's view of what the run
`upgradable_preface` shows.

### ServerRequestsProofs

For any sets of connections, requests and names: `TypeCorrect`, `InfoAlwaysOwn`,
`TlsInfoAlwaysOwn` and `SniAlwaysValidated` (`TypeOK`, `InfoOfOwnConnection`,
`TlsInfoOfOwnConnection`, `SniValidated`). A request is right because its service
was, and that because its maker was. `ServicesCaptured` says that what a maker and
then a service hold is what the connection's stream knew; `RequestsAnchored` says
that a request under way belongs to a connection that was made, whose service
still holds all of it after any number of calls, and whose handshake is over if it
has one. The last is what makes the wait for TLS information end with a value
that can no longer change.

### ServiceReadinessProofs

For any number of handles, `ClientRef`s, calls and permits and all stacks of two
layers: `TypeCorrect`, `AlwaysCalledWhenReady`, `AlwaysWithinCapacity`,
`PromiseAlwaysKept` and `ReadyServiceAlwaysUsed` (`TypeOK`, `CalledOnlyWhenReady`,
`WithinCapacity`, `PromiseKept`, `ReadyServiceUsed`). The properties support one
another and need one addition, `HeldHasPermit`: a future that keeps the polled
service across an await has its permit, so that the call it makes later is a call
of a ready service. The layers are treated once, by lemmas on the outcomes of calling a
ready service through them (`InnerOutcomes`, `ServiceOutcomes`); `MakeMutFacts` does
the same for `Arc::make_mut`. `PermitStep` lists the ways a step may move permits,
and the counting behind `WithinCapacity` is done from that on finite sets.

### HttpClientProofs

For every set of configurations, requests, places to be redirected to, calls and
connections and any number of redirects:

| Theorem | States |
|---|---|
| `TypeCorrect` | `TypeOK` |
| `AlwaysSecureOverTls`, `AlwaysVerifiedForHost` | `SecureOverTls`, `VerifiedForHost` |
| `AlwaysHttp1Exclusive` | `Http1Exclusive` |
| `AlwaysHttp1WireForm`, `AlwaysHttp2WireForm` | `Http1WireForm`, `Http2WireForm` |
| `BodyNeverLost` | `BodyNotLost` |
| `ServerAlwaysValidates` | `ServerValidates`, of the composition `ClientServer` |

None of these is inductive: they speak of requests that were sent, and depend on
what happened in the pool before. `OpenerInv` ties a connection to the request that
opened it (its key, whether it uses TLS, the name that was verified), `CallInv` a
call to its connection by the same key, so that a property of the opener carries
over to whoever reuses the connection: equal keys mean equal hosts, and equal
schemes except for the scheme that `build_key` makes up. This is where the
exceptions of `SecureOverTls` and `VerifiedForHost` come from, and the proof shows
that no other is needed. `ExclusiveInv` and `UnreadInv` say that only an
established HTTP/2 connection has two users and that an HTTP/1 connection about to
be used has nothing left to read. `RequestInv` follows the request and its body
through redirects to what the caller gave, `WireInv` says that what is on the wire
is that request after the layers below the pool. TLC checked `IInv` on the instance
of `client_safety` before it was proved.

The proof needed two things from `HttpClient`: a type for the connection records
in `TypeOK`, and the assumption that the placeholder `NoHost` is not the value of a
Host header.

### Only model-checked

- Liveness: `StaggerProgress`, `TimeoutReturns`, `SuccessReturns`, `ShutdownEnds`,
  `CloseEnds`, `TimeoutResolves`, `RequestProceeds`, `CallResolves` and the fairness
  in `ImplementsServed`. The prover has no rules for fairness and `ENABLED`.
- That the six violated statements are violated; each counterexample is a behaviour
  of one instance.
- That the model of the pool, of hyper and of the redirect layer is right is an
  assumption of both.

## Not modelled

hyper, tokio, rustls and the crate chateau (pool, accept loop, TCP transport) are
external and appear only as the assumptions above. Durations are reduced to the
order in which timers may fire. The User-Agent header, the user's own layers and
the conversion of body types (`as_boxed`, axum) do not touch the properties;
`Body::try_clone` has no caller. `FirstAddrResolver` keeps the first address of a
list, and addresses are not in the model. The address and protocol types of
`info/mod.rs` are conversions without state. The mocks, the examples and the
fixtures in `lib.rs` are not the library. `service/client.rs`, `make.rs`, `shared.rs` and
`serviceref.rs` are not part of the module tree. Streams and the writing half of
the bridges delegate to one inner object.

## Plan

1. Done: `AttemptRace`, `EyeballSet`, `UpgradableConnection`, `ServerRequests`,
   `HttpClient`, with their runs; type correctness and accounting of `EyeballSet`.
2. Done: `ServiceReadiness`; redirects, bodies, server names and Unix sockets in
   `HttpClient`; `ServedConnection` and its refinement; `ClientServer`.
3. Done: all invariants, `NoDelayNoGrowth`, the refinement of `AttemptRace` and the
   safety part of the refinement of `ServedConnection`.
4. Proofs: action properties worth stating for every instance (a connection's
   version and key are settled once, a validated request keeps its verdict, a
   permit goes only to the call or handle that asked for it).
