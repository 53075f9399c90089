# opengemini-client-cpp: TLA+ models and proofs

Specifications of the openGemini C++ client in `src/include/opengemini`. Paths
below are relative to `src/include/opengemini/impl` unless they say otherwise.

## The system

A `Client` owns a `ClientImpl`, which owns three things: a `Context` (an
`io_context` and the threads that run it), an HTTP or HTTPS client, and a
`LoadBalancer`. Every operation (`Ping`, `Query`, `Write`, ...) is spawned on the
context as a coroutine; it picks a server from the load balancer, sends one HTTP
request through the HTTP client, interprets the response and invokes the caller's
completion token. All threads of the context run such coroutines concurrently.

| component | state | operations | interacts with |
|---|---|---|---|
| Load balancer (`lb/`) | `good` flag per server, shared counter `nextIdx_`, timer | `PickAvailableServer`, `PickServer`, `StartHealthCheck`, `StopHealthCheck`, the health-check coroutine | pings through the HTTP client; called by every operation |
| HTTP transport (`http/`) | per endpoint a queue of idle connections, `used` per connection | `SendRequest`, `Retrieve`, `CreateConnection`, `Push` | servers over TCP/TLS; called by operations and the health check |
| Context (`comm/Context.cpp`) | `io_context`, work guard, threads | constructor, `Shutdown` | runs every coroutine and handler |
| Client facade (`ClientImpl.*`, `Client.ipp`, `CompletionToken.tpp`) | the three members above | constructor, destructor, `Spawn`, nine operations, the `Sync` token | all of the above |
| Operation functors (`cli/`) | none | argument checks, target URL, status and body of the response | load balancer, HTTP client |
| Line protocol encoder (`enc/`) | none | `Encode` | called by `RunWrite` |
| Errors (`util/ErrorHandling.hpp`, `ErrorCode.cpp`) | none | `ConvertError`, `ConvertException` | health check, `Spawn` |
| Configuration (`ClientConfigBuilder`) | the configuration under construction | setters, `Finalize` | constructors |
| Results, utilities | plain data | JSON decoding, Base64, durations | functors, constructors |

What is hard, and what would make each component correct:

* **Load balancer.** `PickAvailableServer` takes turns from an atomic counter
  without a lock, then puts the counter back into `0 .. size - 1` with a CAS loop
  that reuses the variable `idx`. Correct means: the rotation neither skips nor
  repeats servers, a call returns a server it found good, it fails only when no
  server was good, and the loop cannot livelock. The health check reuses one
  `Error` object and can be cancelled only while it waits for its timer.
* **HTTP transport.** Coroutines on several threads share the pool; servers close
  idle connections, die and answer late; a failed attempt on a used connection is
  repeated. Correct means: a connection has one owner, what is in the pool is
  usable and quiet, no request reads another's response, stale connections do not
  fail requests, repeated execution is explained by retries, and every request
  ends.
* **Context and client.** Handlers throw, launch operations or block in `Sync`
  calls; the destructor stops the context and joins its threads at any moment.
  Correct means: no thread is lost, nothing runs after the destructor, the
  destructor returns and operations complete (up to handlers that block).
* **Functors** are coroutines: other operations and the cluster move while they wait.
  Correct means: success means that the cluster obeyed, an error tells whether
  anything was sent, and no error in a response is lost.
* **Encoder, targets, credentials** are sequential; a server must read back what
  the user gave. Their hazards are at boundaries (a timestamp that rounds to zero,
  separators inside names, lengths of paddings).
* **Configuration.** Setters come in any order, construction may fail half-way.
  Correct means: a client has the last value of each setting and needs no more than that.

`PROJECT.json` lists the hazards at their lines, with the properties that cover
each, or why none does yet. Some properties mark a boundary: they hold on one side of it,
and a condition in them, which the hazard's note names, excludes or permits what happens on the
other (ampersands in names, backslashes at their ends, times that round to zero or overflow,
handlers that block in `Sync` calls).

## Modules

How they are composed: `Operations` calls `Transport` (INSTANCE), which `HttpClient`
is shown to implement, and reads responses with the operators of `QueryResponse`;
`LoadBalancer` is shown to implement `RoundRobin`; `ClientConfiguration` makes the
`Authorization` field with `BasicAuth`; `ResponseHandling` runs the functors of `QueryResponse`
on their own; `LineProtocol` takes its timestamps from
`Timestamps`. `ClientLifecycle` runs coroutines without looking into them.

| module | models |
|---|---|
| `LoadBalancer` | `lb/LoadBalancer.cpp`: one action per access to an atomic, the health check, start and stop |
| `LoadBalancerHistory` | the same with history variables per call: servers good throughout, servers good at some moment, the first turn, whether another caller got in between |
| `RoundRobin` | the abstract specification: one turn, passed on by one server per offer |
| `HttpClient` | `http/`: `SendRequest` over the pool, `CreateConnection`, and the servers' end of each connection |
| `Transport` | the abstract specification of `SendRequest`: what returns was executed, what throws may have been, anything may be executed late or again |
| `ClientLifecycle` | `comm/Context.cpp`, `ClientImpl.*`, `CompletionToken.tpp`: threads, queue of handlers, coroutines, handlers, construction and destruction |
| `Operations` | the nine functors of `cli/` from the call to the token, over `Transport`, with a cluster that keeps databases, policies and points |
| `QueryResponse` | `cli/` and `Query.ipp`: what a functor makes of a response; conversion of exceptions |
| `ResponseHandling` | one functor interprets one response: the state machine for the properties of `QueryResponse` alone |
| `Loops` | the loop that appends what it selects, used by `QueryResponse` |
| `QueryTarget` | the targets of `/query` and `/write`, and how a server reads them |
| `LineProtocol`, `Timestamps` | `enc/LineProtocolEncoder.cpp` with a reader of the protocol; rounding of times |
| `ClientConfiguration`, `BasicAuth` | `ClientConfigBuilder`, what the constructors make of a configuration, the header fields of a request; Base64 |
| `...Proofs` | the theorems, one module per component (those of `QueryResponse` and `ResponseHandling` are at the end of `OperationsProofs`) |
| `SequenceLemmas` | lemmas about sequences, functions defined by recursion over numbers, queues without repetitions, and `FlattenSeq` |
| `MC...` | model values, symmetry and inputs for the configurations of the same names |

**LoadBalancer.** `good`, `nextIdx` are the members; `cnt`, `idx`, `slot` the
locals of each caller (`slot` is the server that the structured binding of line 71
refers to, reset when it is out of scope). `FetchAdd` is line 70, `LoadGood` and
`LoadBad` line 72, `CasSucceeds` and `CasFails` lines 74-79. The coroutine of the
health check is `hc` (`expired` is the time between the expiry of the timer and the
resumption, when `cancel()` has no effect), `hcIdx` (its inner loop) and `hcError`
(the `Error` object). `Ping` is the call of `Get`, which clears the
error, then fails or returns a status (`hcRsp`), and `StoreGood` the store to the flag. Atomics are sequentially
consistent here; the code uses `memory_order_relaxed`, which for the single atomic
`nextIdx_` gives the same total order of its modifications, and for the flags only
delays when a store is seen.

**HttpClient.** A call of `SendRequest` creates at most one connection (a failure
on a new connection throws), so connections are named after the request that
created them. `RetrievePooled`/`RetrieveNone` are what happens under the mutex;
`Resolve`, `Connect`, `Handshake` are `CreateConnection`; `OnError` is
`ShouldRetry` with the `continue` or `throw` that follows. `Shutdown` may throw
although the response was read, as in the code. A write that is reported as failed
may have delivered its request; a read may fail whatever the server does (timeout).
`out` and `in` are what is under way on a connection. The servers respond once per
request and in order; they may close at any time, execute without responding, and
execute after the client has given up. That a server never sends a response nobody
asked for is assumed. `reused` is a history variable. The refinement maps `pc` to
`Transport`'s `phase` and keeps `executed`.

**ClientLifecycle.** `phase` follows the thread that destroys the client: construction, `~ClientImpl`
(`Destroy`, which is `StopHealthCheck`), then `Shutdown` (`ResetGuard`,
`StopContext`, `Joined`). A handler may destroy the client too (`DestroyInHandler`);
`join()` then meets the thread it is called on, throws out of a destructor, and the
process ends (`Terminate`). `queue` is the handler queue of the `io_context`,
`thr`/`task` what each thread executes, `waitsFor` the operation whose future a
handler waits for. All asynchronous calls of an operation are taken as one
(`awaited`); an operation that awaits nothing (a `Write` of no points) is included.
`Abandon` is the destruction of the `io_context` with the coroutines left in it.

**Operations.** A functor runs from one asynchronous call to the next, so that the
model has one step up to the sending of the request and one after the response.
`InvalidArguments` collects the tests of all functors and of the encoder;
`RejectArguments`, `NothingToWrite`, `NoServer`, `SendRequest` are how the first step
can end, `Respond` and `Throw` the second. `PickAvailableServer` may find no server at any time
(`NoServer`); when it does so is the subject of `LoadBalancerHistory`. `Complete` is
`Spawn` with `ConvertException`. The cluster (`Obey`, `Refuse`) is external: it may
execute a request up to `MaxExecutions` times, refuse it, answer with another status
or an unreadable body after having obeyed, take a part of a write it then refuses.
It never sends a readable body without results: that it can end the program
(`Crashes`) is the subject of `ResponseHandling` and its two runs.
`accepted`, `seen` and `before` are history variables.

**QueryResponse.** Rows are abstracted to what the loops over them tell apart
(complete, mistyped, short). `front()` of an empty vector is undefined: it ends the
program with a hardened standard library, and has no effect without; both outcomes
are in the model (`Crashes`). The loops over rows are `Collect` of `Loops`, a recursive function
over the number of rows seen, on the rows before the first that ends the loop (`Before`).

**QueryTarget.** Escapes are those of `boost::url::set_query`, which leaves `&`, `=` and
`+` alone; the server splits at `&` and at the first `=` and decodes.

**LineProtocol.** One action per point (`EncodeNext`, `EncodeThrows`), then a reader that
takes one character per step, written from the line protocol's rules and not from the encoder. Numbers
are single tokens, as the encoder has printed them: that the suffixes `i` and `u` and the digits
stand for what the user gave is a condition of `RoundTrip`. In `Timestamps` an overflow of `std::chrono::round` may give any time.

**ClientConfiguration.** One action per setter; `asked` is a history variable with the
last argument of each. `ConstructionErrors` has the tests of the constructors in their order.
A certificate is good or bad; `sslv2` stands for what OpenSSL refuses.

Operators written just before an action or helper whose name they vary
(`StaleNewVal`, `CasDoesNotReload`, `OnErrorPutsBack`, ...) are plausible defects.
They are not part of any specification: each property has one that violates it.

## Runs

| run | question | bounds |
|---|---|---|
| `lb_history` | what may a call return or throw while others interleave? does the CAS loop ever move the rotation? is the counter in range? | 2 callers, 2 servers, counter of 3 values: not a multiple of 2, so that overflow shows, and reached when all servers are bad |
| `lb_live` | do calls keep completing, do flags follow pings, is it a round robin? | 2 callers, 2 servers, 4 values (a multiple, as the refinement needs) |
| `lb_unavailable` | does a call fail only when no server is good throughout, as the concurrent test expects? It does not: see below | 2 callers, 2 servers, 8 values |
| `http_pool` | ownership, pool, responses, repeated execution | 3 requests, 2 endpoints, room for one idle connection each, TLS |
| `http_live` | does every request end? is what callers see `Transport`? | 3 requests, 1 endpoint, room for two, plain HTTP |
| `lifecycle` | one thread per coroutine, quiet after destruction, no thread lost; does the destructor return, do operations complete? | 2 threads, 3 operations |
| `operations` | what do success and each error say about the cluster? what may a show return? | 2 operations of any kind, with every argument good and empty, 2 executions each, an empty cluster and one with a database and a policy |
| `query_response` | do errors surface, are lists exact? | 2 results, 2 series, 3 rows |
| `query_response_empty` | is an empty response an empty list, as a test says? It need not be: see below | the same |
| `line_protocol` | does a server read what was written? | strings of 3 characters over all separators in each position, batches of 3 points, units 1, 4, 6 in a range of 30 |
| `query_target` | do names and commands arrive? | commands of 2 characters, six names |
| `configuration` | do clients have what was asked for? can a server read the credentials? | 4 calls of setters, 1 client, names of 0 to 2 bytes |

Two callers are enough for every pairwise race on the counter and the flags (a
step involves one caller and shared state only). `IdxMod` stands for 2^64, small enough that it overflows.
Three requests give two that compete for a pooled connection and one that left it;
one idle connection per endpoint makes the pool full and empty. Three operations give
a handler that waits for one while another is queued. Two operations are enough for a
show to overlap, follow or precede a creation or a late drop. Four calls of setters suffice for an
address, `EnableTLS` and two of the setters that share the TLS configuration; a client
copies what it needs in its constructor, so that one client per builder is enough. The credentials
have one to five bytes with the colon, every length modulo three. That a time can be rounded matters near both ends of the range and ties
only for even units, hence 4 and 6. Each request is
sent once and each operation launched once, which bounds the state space;
`CHECK_DEADLOCK FALSE` in those configurations is for the end of the last one.

**Two disagreements.** `lb_unavailable` shows a call of `PickAvailableServer` that
throws `NoAvailableServer` although a server is good throughout: a call makes
`size` attempts, but other callers advance the same counter, so that all its
attempts can land on the same bad server. `test/unit/impl/lb/LoadBalancer_Test.cpp:158-166`
calls it concurrently with some servers bad and expects every call to return a good one.
`SweepIsComplete` is what does hold: an undisturbed call that throws has tried
every server.

`query_response_empty` shows that `RunShowDatabase` takes `front()` of the results
before it tests them for being empty, while `test/unit/impl/cli/Database_Test.cpp:147-155`
expects an empty list for a body without results.

Three boundaries that no run disputes, because the properties name them as
conditions: a command or name with `&` is cut off there (`Separable` in `QueryTarget`); a name or
tag that ends with a backslash or contains a line feed is not escaped (`Clean` in `LineProtocol`);
`gzipEnabled` and `batchConfig` are stored and read by nothing, so that nothing in
`Construct` depends on them.

## Fairness

* `LoadBalancer`: weak fairness per caller inside `PickAvailableServer` (a thread
  keeps running) and of the health check (the timer expires, every ping ends because
  streams have timeouts). Calls, start and stop are never forced. A spurious failure
  of `compare_exchange_weak` is a stuttering step, so that fairness excludes an endless
  series of them.
* `HttpClient`: weak fairness per request: every asynchronous call ends, because
  `expires_after` bounds connect, handshake, write and read (name resolution is
  bounded by the operating system only). Servers owe nothing.
  Termination is for a finite number of requests: other requests that keep
  returning connections that go stale could keep one retrying.
* `ClientLifecycle`: weak fairness per thread, of I/O, and of the destructor once
  it has begun. `DestructorReturns` and `OperationsComplete` name the case that the
  code leaves open: handlers that block in `Sync` calls.

The other specifications state no fairness: their properties are about safety.

## Proofs

`tlapm` proves the following for all values of the constants that satisfy the named assumptions.

`LoadBalancer` (any callers, `N > 0` servers, any counter with more than `N` values):

* `TypeCorrect`: `TypeOK` is inductive.
* `RotationCorrect`: `RotationAdvances`, from `TypeOK` and `(x % N) % N = x % N`.
* `RefinesRoundRobin`: if `N` divides the number of counter values, `Spec => RR!Spec`. A caller's
  offer is its `slot` from the `fetch_add` on; `FetchAdd` maps to `Take`, `LoadBad` and
  the next `Call` to `Drop`, everything else to a stutter. For other `N` the
  refinement fails at the overflow of the counter, and only there (`RotationAdvances`).
* `ReturnedWasGoodCorrect`: the invariant is not inductive; `HistoryInv` adds
  that what is good now has been seen by every call in progress, from which the
  load of the flag puts `slot` into `seen`.
* `SweepCorrect`: `SweepInv` adds that an undisturbed call in round `cnt` has
  tried the `cnt` servers from `first` on and that the turn is at the next one; with
  `HistoryInv` a bad load removes one server
  from those that can have been good throughout, and after `N` rounds none is left.
  The steps of others keep the turn by `RotationOfStep`.

They rest on lemmas about remainders (`ModOfSum`, `ModSucc`, `ModBeforeMultiple`), since
successors modulo `N` are not linear arithmetic.

`ClientLifecycle` (any threads and operations): `TypeCorrect`, `OneThreadPerTaskCorrect`,
`QuietAfterDestructionCorrect`, `ThreadsSurviveCorrect`. `IInv` adds `Order` (which
phases the flags of the context belong to, that threads leave only when it is stopped, that the health check
starts after construction) and `SyncInHandler` (what waits is a handler): without the
first a thread could leave early, without the second `SyncReturns` could resume what
is not on the thread.

`HttpClient` (any requests, endpoints, size of the pool, with and without TLS): type correctness, `OneOwner`, `PooledIsQuiet`,
`PoolBounded`, `OwnResponse`, `StaleNeverFails` and `TransportImplemented`. `IInv` is these
with `Opened` (a connection is named after the request that opened it, used only when
that request has succeeded, and leads where its owner wants to go), `Exchange` (what is
under way between a request's write and its read) and `Answered` (what was read is one's own and was executed).
`OwnStep` is the lemma for the steps that touch the variables of one request only. Under
the refinement a server's step maps to `Execute`, the step to `ok` to `Return` because of
`Answered`, and retries, connections and the pool to stutters.

`ExecutionsBoundedCorrect` stands at the end of the same module, on top of `IInv`. `EInv` adds
`Accounted` (the connections a request was given, less those it has yet to write to or
on which it is still under way, are at least as many as its executions, by the library's
cardinality theorems), `NeverAgain` (a connection that failed under a request does not
come back to it, without which taking one would not be one more) and `OneUnderWay`
(a connection carries one request, so that an execution uses one up).

`Operations` (any operations, calls, names, servers, executions): `SuccessMeansAcceptedCorrect`,
`ErrorTellsWhatWasSentCorrect`, `TokenSeesLibraryErrorsCorrect`. `IInv` adds `Agreed`
(coroutine and transport agree on whether a request is under way; nothing unsent is
executed) and `Replied` (a response that a functor takes for a success means that
the cluster obeyed while the caller waits), with the part of the types that steps depend on (`Shape`).
On top of it stand `TypeCorrect`, `ShowIsSnapshotCorrect` and `ReadYourCreatesCorrect`. `SInv` adds
that the store is one of those that each caller under way has seen (`Watched`), that a table which may still be read
was made from one of them (`Answers`), and that a database that was created and that nobody drops
is in the store (`CreatedStays`) and in all that later callers see (`CreatedIsSeen`, with `Earlier`). The cluster
turns a set into a table in some order; that a functor reads the same set back is `TableIsRead`,
from the lemmas about `Collect`.

`ResponseHandling` (responses of any size): `ErrorsSurfaceCorrect`, `DatabasesExactCorrect`,
`PoliciesExactCorrect`. A functor runs once, so that the invariant (`Interpreted`) is that the outcome
is one of those its functor can have; the substance is in the lemmas about the loops: `Before` is a
prefix, and `Collected` says that the n-th element of `Collect` belongs to the n-th selected row.

`ClientConfiguration` (any endpoints, settings, numbers of calls and clients): `ClientMatchesCallsCorrect`,
`ServersAreDistinctCorrect`, `ThreadsAreEnoughCorrect`, `RequestsCarryCredentialsCorrect`, `CredentialsArriveCorrect`.
The properties speak of clients only; `IInv` adds that the builder at every moment has what
was asked for last (`Configured`), which each setter keeps for its own setting and, where
several share the TLS configuration, for those of the others. `ServersCount` shows that the
tests of `ConstructServers` find exactly the lists with a missing or repeated endpoint, by the
library's theorem about surjections. `CredentialsArriveCorrect` rests on `EncodedSize` and `DecodeEncode`:
for bytes of any number, an encoding is well formed and decodes to what was encoded (`FirstOfThree`,
`SecondOfThree`, `ThirdOfThree` for the place of a byte in its group), and on `SplitAtColon`.
`NotSetAssumption` is used throughout: `std::nullopt` is no value of a setting.

`QueryTarget` (names and commands of any length): `SeparableArriveCorrect`. A run sends one target,
so that the invariant (`TargetInv`) says what a target is made of and the substance is in the lemmas: what is
encoded has none of the separators and decodes to what it was (`DecodeSetQuery`), a server that splits at them
gets the parameters one by one (`ValueFound`), each the value of its own key.

`LineProtocol` (batches, points and names of any length, any precisions): `NoPartialBatchCorrect` and
`RoundTripCorrect`. For the first the invariant (`EncoderInv`) adds `Passed`: every point before
the next one is valid, so that an encoder that has come to the end has found all of them valid.
For the second, `RoundTripInv` says, for batches of clean names, what the text is in every state: while the encoder
works, the lines of the points so far (`Encoding`); while the server reads, that the first `k` points have been read
and that what is left of the text is the rest of the line the reader is in and all later lines (`Reading`). `InLine`
says that for each place of the reader: which part of the name or value it has read, what is left of it in escaped form, what
follows (`TagsText`, `FieldsText`, `FieldEnd`, `TimeText`), and what the point put together so far has. The argument
has three parts. `FieldsLayout` and `TagsLayout` take a line apart into names and separators. `WordGoesOn` is about one
character: the next one is read as itself, escaped or not. It is here that names must be clean, because a backslash that is not
escaped is an ordinary character only if none of the meaningful ones follows it. `MeasurementStep` to `TimeStep`
then show, place by place, that the only step the reader can take leads to the next place of `InLine` or to the end of the
line with the point that was written (`InLineStep`); in particular it never fails.
`TimeTokenAssumption` is used: a timestamp in decimal has none of the characters with a meaning.
`Timestamps` (any units and range): `RoundedToTheNearest`, from a lemma about the two
neighbours of a time, and `NanosecondsAreExact`; they are in `LineProtocolProofs` too, and `SameTimeRead` is
what `RoundTripCorrect` takes from them.

The library's induction theorems take an operator as a parameter, which the installed provers cannot
instantiate. Where a proof needs induction over numbers, `SequenceLemmas` goes by sets instead: a set of numbers has a least element
(`LeastNumber`, from the library's `WFMin`), hence a set with zero and successors has all (`InductionUpTo`);
`PrimitiveRecursion` shows from it that a function defined by recursion exists, without which
nothing could be said of `Collect`. The same goes for `FlattenSeq`, of which the encoder and the targets are made:
`FlattensExists` finds the function it is defined by, `FlattenConcat` and `FromProperties` are what the proofs use
of it (a text may be taken apart anywhere between two of its pieces). `Cat` is the concatenation of two texts under a name,
since the provers lose their way in expressions with several of them.

Only model-checked is liveness (`LockFree`, `FlagsFollow`, `EveryRequestEnds`, `DestructorReturns`,
`OperationsComplete`), which is out of the prover's reach. Every other property of a passing run is stated by a theorem.

## Not modelled

* Deferred tokens and moves of `Client`: lifetimes of C++ objects. A deferred operation, once
  started, is what any other is; one that outlives its client, or a call on a
  moved-from client, is undefined behaviour.
* The bytes of TLS, HTTP framing, DNS; JSON decoding of a well-formed body (nlohmann::json);
  of `RetentionPolicy` everything but the name.
* Digits of numbers, texts of errors, printing, comparison. A double is written with six significant
  digits (`enc/LineProtocolEncoder.cpp:158`; the test expects it), so that one with more
  comes back as another number: it is in the list of hazards, and outside `RoundTrip`.
* The data race of `timer_.cancel()` with the coroutine on another thread
  (`lb/LoadBalancer.cpp:52`), whose outcome boost::asio does not define, and the
  `catch (...)` that swallows the unwinding of a coroutine (`http/IHttpClient.cpp:61`).
  Both are in the list of hazards.
* That a plus sign in a target is read as a space by servers that decode forms:
  nothing in the repository says which kind the server is.

## Plan

1. A composition of `LoadBalancer` with `Operations`, so that `NoServer` happens only when
   the load balancer says so, and of `LoadBalancer`'s health check with `ClientLifecycle`.
2. Deferred tokens in `ClientLifecycle`, with operations that are started after the destruction.
