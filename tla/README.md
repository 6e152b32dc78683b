# A verification project for PowerSync on Lynx

TLA+ specifications of the concurrent parts of this repository, the TLC runs that
check them, and theorems that TLAPS checks. Paths below are relative to the
repository; `sync/…`, `adapter/…` and `web-host/…` are under its `src/`.

## The system and its parts

The library gives a Lynx application the PowerSync client. JavaScript runs on a
background thread; SQLite and the sync HTTP stream live in a native module
(Android, iOS, Lynxtron) or, on the web, in the page that hosts the view.

| Part | State | Operations | Talks to |
| --- | --- | --- | --- |
| SQLite adapter, `adapter/LynxDBAdapter.ts` | `initialized`, the two semaphores, the abort controller | init, readLock, writeLock, executeBatch, refreshSchema, close | native SQL, or the page |
| Native SQL engine, `shared/ps_sql.cc` | job queue, `dbs`, a mutex and a handle per connection | open, execute, executeBatch, close, destructor | SQLite; callbacks to JavaScript |
| Page RPC, `web-host/page-rpc.ts` | `files` with reference counts and stashed tables, `connections` with a queue and a held lease | open, execute, executeBatch, close | WASQLite; every view's adapter |
| JavaScript stream, `sync/transport/events.ts`, `NativeHttpFetch.ts` | early events, handlers, retired names; per reader a queue and flags | fetch, signal abort, Callback, event, read, cancel | native HTTP by Callback and events |
| Native HTTP session, `shared/sync_http_session.h` | three atomics: headers sent, terminal claimed, aborted | on_headers, on_data, on_end, on_error, abort | decides effects for the two hosts |
| Android HTTP, `NativeSyncHttp.java`, `StreamingHttp.java` | `activeStreams`, the connection, the UTF-8 carry | fetch, streaming I/O on an executor thread, abort | events and Callback to JavaScript |
| iOS HTTP, `NativeSyncHttp.mm`, `StreamingHttp.mm` | the table of sessions, a serial queue, the carry | fetch, delegate calls, cancel, abort | the same |
| Idle-complete HTTP, `IdleCompleteHttp.*` | the collected body; on iOS a serial queue, an idle timer, a semaphore | one request, answered in one Callback | the Callback to JavaScript |
| Responses, `sync/transport/response.ts`, `bytes.ts`, `sync/gunzip.ts`, `text-decoder.ts` | a reader's chunks, the bytes held back, the inflater's bit position and tables | read, text, json, decode | hosts hand over bytes; the SDK asks for text or JSON |
| Streaming sync and remote, `sync/*.ts`, `PowerSyncDatabase.ts` | the registry of locks by identifier | initLocks, obtainLock, fetch | the SDK, a transport |
| Transports and look-ups, `sync/transport/*.ts`, `host.ts` | the signal's listeners, requests whose Callback is due | pick a transport, fetch, abort, look up modules | native HTTP, LynxFetchModule, the host's fetch |
| Bindings and hop, `adapter/native.ts`, `web-host/attach.ts`, `factory.ts`, `cloneable.ts` | the view's handlers and module map, calls under way | bind, encode, hop, decode, attach, detach | native SQL, page RPC |
| UTF-8 hold, `shared/utf8_hold.h` | none (a scan) | incomplete tail of a chunk | the stream hosts |
| Native bindings, policies, tooling | - | conversions, constants | - |

What is hard, and what would make each part correct:

* **Streams.** An abort, the body's end, its failure and its data race on different
  threads; effects are decided in one place and applied in another. JavaScript
  must see one Callback, headers before data, one terminal event and nothing after
  it; the handle must leave the table; the last bytes must not be held for ever.
  On the JavaScript side events run before the Callback that announces them, the
  early buffer overflows, and cancelled names must not come to life again.
* **Page RPC.** Awaits between looking a file up and using it; a BEGIN keeps the
  adapter's only write lock across calls; closes, duplicate closes and failures
  move a reference count; update hooks are drained before anybody reads them.
* **Engine.** A connection is looked up under one mutex and used under another;
  jobs of one connection overtake each other; the destructor meets queued jobs.
* **Adapter.** `close()` at any time, also twice, and its partial failure.
* **Reconnects.** An implementation on its way out and its successor want the same
  locks, while the request that holds one is aborted before, during or after its
  answer, by a Promise that must settle once and take its listener with it.
* **Bodies and values.** The same bytes arrive in half a dozen shapes, cut anywhere,
  perhaps compressed; each host and each end of the hop converts values its own way.
  These are sequential, but their boundaries are hard to test one by one.

`PROJECT.json` lists these one by one, at their lines, as hazards.

## Modules

| Module | Models | Proofs |
| --- | --- | --- |
| `StreamContract` | what a native host promises per stream: an abstract specification | target of `Implements` |
| `SyncHttpSession` | the effect decisions and the order of effects | used by the two below |
| `AndroidStream` | one request: `StreamingIo` (the executor thread) and the abort thread | `AndroidStreamProofs` |
| `IosStream` | one request: start, delegate calls, blocks of the serial queue, abort | `IosStreamProofs` |
| `SyncStream` | `StreamContract` composed with the JavaScript transport | `SyncStreamProofs` |
| `IdleComplete` | one request of the fallback, on either host, up to the Response | `IdleCompleteProofs` |
| `PageRpc` (`MCPageRpc`) | page RPC on one file, with WASQLite's lock, transaction and hooks | `PageRpcProofs` |
| `NativeCall` | one SQL call from `nativeSql` to SQLite and back, on every host, and the view it crosses on the Web | `NativeSqlProofs` |
| `SyncTransport` (`MCSyncTransport`), EXTENDS `LynxHost` | the locks of the sync implementations, the choice of a transport, and how a request settles | `SyncTransportProofs` |
| `LynxHost` | `host.ts`: look-ups, as operators on a host | used by `SyncTransport` |
| `ResponseBody` (`MCResponseBody`), EXTENDS `Inflate` | from the bytes a host hands over to text, lines or JSON | - |
| `Inflate` | `gunzip.ts`, one action per symbol, code length or block | - |
| `PsSqlEngine` | the native engine | `PsSqlEngineProofs` |
| `LynxDBAdapter` | the adapter, with the SDK's semaphore | `NativeSqlProofs` |
| `MCClient`, EXTENDS `NativeCall`, `LynxDBAdapter`, `MCResponseBody` | those three in one run: a behaviour is one of one of them | - |

The composition is by contract. `AndroidStream` and `IosStream` each implement
`StreamContract` (property `ContractSpec`, a refinement mapping); `SyncStream`
EXTENDS `StreamContract` and so is checked against everything either host may do.
`PageRpc`'s clients keep the discipline of `LynxDBAdapter`, and `LynxDBAdapter`
rests on native calls being answered (`EveryCallAnswered` of the engine,
`NoCallForgotten` of the page, `CallsSettle` of the hop between them).
`SyncTransport` counts a stream as open or not and leaves its chunks to `SyncStream`;
`ResponseBody` leaves the order of the chunks to `SyncStream` and reads their bytes.

How state and actions correspond to the code:

* **AndroidStream.** `io` is the line the executor thread is at; `effects` are the
  bits it has still to apply. `SyncHttpSession`'s Java methods are synchronized, so
  a decision is one step; each effect (`Emit`, `Drop`) is another, and the abort
  thread (`AbortLookup`, `AbortSession`, `AbortCancelIo`) comes in between.
  `disconnect()` only makes the next blocking call fail sooner, which it may do
  anyway. Of the body only its length matters; `ReadBytes` chooses how many bytes
  are held back as an incomplete character. A `SocketTimeoutException` while
  reading ends the stream in order and drops what is held, as in the code.
* **IosStream.** The delegate calls put blocks on a serial queue (`Dispatch`) that
  runs them one at a time. Only `cancel` goes through the queue: `abort` touches the
  session's atomics from another thread, so `on_end` (`OnEndClaim`, `OnEndDecide`)
  and `abort` (`AbortStore`, `AbortLoad`) are two steps each. Held bytes are never
  emitted at the end of the body, as in the code. Where the body is no valid UTF-8
  (`utf8`), a slice of it that NSString refuses is gone without an event; `lost` counts
  it, and `CompleteBody` says that nothing else is. A module without an event sender,
  which drops every event, is left out.
* **SyncStream.** `answer`, `events` and `abortReq` are what is on its way between
  the threads, events in order. `Remember`, `Retire`, `Forget` are `rememberEarly`,
  `retireStream`, `releaseStream`; a `DeliverEvent` remembers twice when a slot
  listener exists without a handler, as the code does. While the Promise is pending
  an abort cannot know the stream's id (docs/adr/0003), so it is the late Callback
  that aborts.
* **IdleComplete.** On Android one thread reads until the end, an exception or a
  timeout (`ReadQuiet`). On iOS `queue` holds the blocks of `syncQueue`: the delegate
  calls put them there, the idle timer's handler comes as one (`TimerDue`) and is
  cancelled when the timer is set again (`RunArm`); the calling thread waits on the
  semaphore until its deadline and then goes through the queue itself, once to finish
  and once to collect. A read of 0 bytes stands for bytes past the bound, and turns
  `trickle` over. Of the body its length matters; its characters are `ResponseBody`'s.
* **PageRpc.** The page has one event loop. A call arrives, or WASQLite answers, when
  no continuation is left (`Quiet`); `ready` is the queue of continuations, so an
  await takes its place among the others. `lease` and `holder` are the held write
  lock, `queue` the promise chain of `enqueueConnection`. A call's one `entry` is the
  file entry it awaits, or the one whose adapter it took, never both. WASQLite is
  external: one write lock, a transaction left open is rolled back at the next grant,
  hooks are drained at release. The statement that stashes them may fail (`told`), which
  the code swallows: those names nobody learns.
* **NativeCall.** `calls[k].wire` is what is on the wire in the form it has there,
  tags included; `Bound` and `Cell` are what wa-sqlite and the native engines do with
  a bind and a column. `frames` is every handler that was put on the view with what
  it saved of the one before; `current` is the one installed. A detach that is not
  that of the current handler has no effect, as in the code. Each call binds one value
  and its statement returns it: which value is all that the conversions can spoil.
* **SyncTransport.** `LOCKS` and `locks` are the registry and the map that each
  implementation took from it; a lock is its queue. `pc[j]` is where a job's Promise
  is, `listeners`, `calls`, `streams` what the request has hung onto others. The
  SDK's mutex and loops are external, and so is a host's fetch. A module may be
  registered at any time, since `host.ts` looks everything up when it is used. `threw`
  remembers the requests whose `httpFetch` threw instead of taking the Callback.
* **ResponseBody, Inflate.** `body` is a document with its bytes in one of the shapes a
  host uses, and the reader `pc` takes it apart. `Inflate` keeps the position of the
  bit reader, that is source index, bit count and tag at once: `Ahead` is how many
  bytes `readBits` has taken before they were needed, which is what the stored block
  must give back. Code tables are built as in the code and symbols decoded bit by
  bit. `parseString`, `inflateString` and `AskText` are the ways of `decodeIdentifierJson`
  round a `json()` whose string does not parse: `text()`, and `{data:{}}` where the host
  has none. `ToUint8` is the one recursive operator of the project (an array around a value).
* **PsSqlEngine.** `thread[t].at` is where a pool thread is in its job; the window
  between `Lookup` and `Lock` is the one between `map_mu` and `Connection::mu`.
  Clients are not disciplined here: calls overlap as they like. `tx[c]` is the call
  that began the transaction, so a batch knows its own (`started_tx`). A job may end by
  an exception (`thrown`: the engine allocates for every row and every message), which
  the catch around it answers as a failure; what the job had done then stays. Left out:
  a statement that such an exception leaves unfinalised keeps its locks, and its handle
  becomes a zombie at `sqlite3_close_v2`; and SQLite itself rolls back after some severe
  errors (a full disk, no memory), after which a batch's ROLLBACK finds nothing to do.
* **LynxDBAdapter.** A step is what runs between two awaits. `sems` are the semaphores
  by name, a close that keeps readers being the name of theirs; the semaphore
  itself is external (FIFO, `requestAll` collects what comes free; `Release` gives the
  items of a lease to the queue in one expression, first to the calls at the front that
  want one, then to the first that wants all). The callbacks
  passed to the locks end, well or badly, and are otherwise opaque; the statement
  retries of `init` are part of an init that succeeds or fails.

## Runs

Every passing run gives its bounds in the cfg; each property has a mutant, an
operator beside the one it replaces, that TLC finds to violate it.

| Run | Bounds | Shows |
| --- | --- | --- |
| `android` | 3 bytes, reads of up to 2 | `StreamGrammar`, `RequestInvariant` (`TypeOK`, `NoLeakedHandle`, `CompleteBody`), `ContractSpec`; `EveryFetchAnswered` and `AbortStopsStream` under fairness |
| `ios` | 2 bytes, chunks of up to 2, 3 blocks queued | the same promises: `RequestInvariant`, `ContractSpec` (which rules out what `StreamGrammar` does), `EveryFetchAnswered`, `AbortStopsStream` |
| `js` | 1 stream of 5 chunks, early buffer of 3, 1 retired name kept | `ReaderInvariant` (`TypeOK`, `InOrder`, `DoneMeansComplete`) although other streams evict its name; `ReleasedLeavesNothing`; `NoHangAfterEnd`, `GivingUpEndsNative` |
| `client`, adapter | 3 calls, 2 readers | `LockInvariant` (`TypeOK`, `LocksExclusive`, `CallbackOnOpen`), `CloseReachesAll` (`NoOrphan`, `CloseMeansClosed`), `EveryCallSettles` |
| `client`, hop | 1 call, 11 values, 3 handlers ever | `AnswersSurvive`, `MapFollowsHandler`; `CallsSettle` |
| `client`, body | 8 deflate streams of up to 4 blocks behind 2 headers, in every shape a host hands over; 11 bytes of characters cut in three at every pair of places; 9 damaged members | `WhatTheServerSent`: the document, or a failure; `DecodersInStep`: no chunk is decoded inside a character, and the inflater stands between two tokens |
| `body_sync_flush` | one member | violation: `WhatTheServerSent` |
| `transport` | 2 implementations of one database, 3 hosts | `LocksExclude`, `SettledLeavesNothing`, `BodyReadOnce`; `AbortFreesLock` |
| `page` | 2 clients, 3 calls in flight, 3 connections and 6 statements ever, symmetry | `OneFactory`, `RefCountExact`, `Isolation`, `NoDeadLease`, `NoUpdateLost`, `NoCallForgotten` |
| `page_two_factories` | 3 clients | violation: `OneFactory` |
| `page_shared_stash` | 2 clients | violation: `OwnGetReports` |
| `engine` | 2 threads, 3 calls, 2 dbIds | `HandleInvariant` (`TypeOK`, `NoHandleLeak`, `NoUseAfterClose`), `NoStrayTransaction`, `CloseIsFinal`, `CallersTransactionKept`, `AnsweredOnce`; `EveryCallAnswered` |
| `idle_complete` | 4 bytes, reads of up to 2, 3 blocks queued | `AnswerInvariant` (`TypeOK`, `CutOnlyWhenLongLived`), `FirstFinishSettles`; `EveryRequestAnswered` |
| `idle_answers` | the same | violation: `AnswerAsDocumented` |

Invariants that are checked together are conjunctions of named parts, the module's type
invariant first.

Why the bounds are enough. A body of three bytes has a first, a middle and a last
read and a character cut in two. Three
blocks let a block wait behind a cancel that waits behind another. An early buffer
of three has a place behind the two terminal events that an overflow leaves in it, and
five chunks overflow it and go on after the name was evicted. For the nine modules
with proofs the theorems remove these bounds from the safety properties they state;
where a run's bound still matters is said in the last paragraph of "Proofs". Three calls on the page
are a close with an open that waits for it and one more behind that; two
connections and a duplicate close take the count through zero, and six statements
are a transaction of each client with a write and a get. Three calls on the
engine are an open, a close and what races with it, or an open, a BEGIN and a batch
inside it, or a batch that throws and one after it. Three calls on the adapter are
a close that fails in part and two locks; two readers tell "one" from "all".
For idle-complete, four bytes are at least two reads, and two reads are one before and one
after whatever the timer, the deadline and the delegate do. Two implementations are an
old one and its successor; the three hosts have both modules in one table,
one in each of two tables, and the SQL module alone. Calls do not meet in `NativeCall` (they meet in `PageRpc`), so one
suffices; three handlers are two attaches with a handler of the page between (for `MapFollowsHandler`
and `AnswersSurvive` the theorems take any number).
The bodies of `MCResponseBody` have each kind of block, a dynamic code whose repeats
run from the literal into the distance lengths, copies that overlap what they write,
headers with every optional field, and characters of one to four bytes; a body of
lines is cut at every pair of places. A string of `json()` is well formed or damaged,
with a `text()` that gives the document, throws or does not exist.

`ReleasedLeavesNothing` is about names that were not evicted: the code keeps 1024
retired names, and a stream whose name was evicted while the host still posts its last
events may leave a small buffer behind. `OtherRetires` stands for the other streams,
which share nothing with this one but the list of retired names; `evicted` remembers
that they pushed this name out. The data do not suffer from that.

`NoCallForgotten` says of the page what a liveness property would, as an invariant: a
call in flight is in somebody's hands - it is ready, waits for an answer of the
adapter, or stands in a queue whose head is.

`client` checks three modules that share no variable: `part` says which one a behaviour
is of, the other two rest in an initial state, and each has its own fairness. `HopStops` is
where the hop may come to rest; that a body is always decoded to an end, and that
no call of the adapter gets stuck, deadlock checking sees.

Deadlock is checked except in `transport` and the two runs of `IdleComplete`, where the
system really stops: the jobs are done or a host does not answer; the one request is
answered.

### What the violations mean

* `body_sync_flush`: before a stored block the inflater gives back whole bytes only
  while more than 8 bits are left, so when a block header ends on a byte boundary it
  keeps one byte too many and throws on a valid member (`gunzip.ts:289`, against
  `test/lynx-remote-stream.test.ts:1334`). Servers that flush write such blocks; the
  headers of other blocks end elsewhere, and the run `client` shows those to be read well.
* `page_two_factories`: two opens wait for the same last close. Both resume, and each
  makes a factory, because `openFile` does not look for a pending entry again after
  its await (`page-rpc.ts:293`, against `docs/spec.md:386`). With two clients it
  cannot happen (`page`).
* `page_shared_stash`: tables are stashed per file, and a get empties the stash. View a
  writes, view b asks for update hooks and is told a's tables, and a's own get brings
  nothing, so its watch does not refresh (`page-rpc.ts:506`, against `docs/spec.md:388`).
  What does hold, `NoUpdateLost`, is that a name stays stashed until some get takes it;
  names that `stashUpdateHooks` failed to ask for (`page-rpc.ts:493`) are excepted.
* `idle_answers`: on iOS the response arms the idle timer, whose handler does not look at
  the buffer, so a long-lived body that stays quiet is answered ok and empty
  (`IdleCompleteHttp.mm:184`, against "after bytes" in `docs/spec.md:191` and "once any
  bytes have arrived" in `sync_http_policy.h:78`). That is the trace TLC shows. A longer
  one is a transfer that breaks after its first byte and is answered ok with what there
  is (`IdleCompleteHttp.mm:232`, against `docs/spec.md:193`, which gives both hosts one
  failure envelope). Android does neither. `CutOnlyWhenLongLived` claims only what holds
  of both hosts, and so excepts these two cases by name.

### Observed and not checked by a run

The models allow the following, and the properties make room for it.

* An exception between a batch's BEGIN and its ROLLBACK (`std::bad_alloc` while rows are
  collected or a failure is described) is answered as a failure with the transaction open
  and its earlier rows in it (`ps_sql.cc:647`, against "executeBatch rolls back earlier
  rows on first error", `shared/tests/ps_sql_test.cc:184`). A later batch takes it for
  the caller's and neither commits nor rolls it back. `NoStrayTransaction` excepts just
  these batches, `NoHandleLeak` the opens that throw with their handle open.
* After an abort before the Callback, the late Callback aborts the native stream but
  does not retire its name; its last events are kept for a reader that never comes
  (`NativeHttpFetch.ts:188`, against the comment at `events.ts:12`).
* Creating the reader fails on a host without an emitter after native opened the
  stream, and nothing ends it (`NativeHttpFetch.ts:64`; excepted in
  `SettledLeavesNothing`). An `httpFetch` that throws leaves `onAbort` on the signal
  (`NativeHttpFetch.ts:171-177`; excepted there too).
* A `json()` that gives a string which does not parse is answered with `{data:{}}` when
  the host has no `text()` to ask (`response.ts:169-184`); `WhatTheServerSent` allows it.
* A slice of a body that is no UTF-8 is dropped on iOS and the stream ends well all the
  same (`StreamingHttp.mm:188`; excepted in `CompleteBody`).
* A second `close()` that starts while the first is closing waits for the writer and
  closes everything again, which native refuses (`LynxDBAdapter.ts:137`, against
  `test/adapter.test.ts:498`). `CloseReachesAll` holds all the same.
* The LynxFetchModule transport ignores the signal (excepted in `AbortFreesLock`).
* An envelope without `ok` passes for a success (`native.ts:98`), so a foreign handler
  that answers an object ends a call well with nothing in it.
* Deflate data that stops early inside a member with a trailer is read as zeros; the
  standard decoder drops a U+FEFF at the start of any chunk; what a boolean bind
  becomes depends on the host. The inputs of `client` leave these three out.

### Where the hosts differ

Besides what `idle_answers` shows: when the deadline passes iOS answers
`ok` with the bytes it has, and no deadline bounds a body on Android. (Not in the model: a
body cut inside a character reaches the SDK unharmed from iOS, as `bodyBase64`; from
Android the cut character is a replacement.)

### Fairness

* Android: weak fairness on the executor thread's steps. The pool is a cached one, so
  every request has a thread, and every blocking call has a timeout. The server may
  go on sending for ever: nothing says that a body ends.
* iOS: weak fairness on the serial queue, and on an answer to the request, which
  NSURLSession's request timeout brings; none on the end of the body.
* JavaScript: posted calls and microtasks run; the host answers, emits what it has
  settled, and ends an aborted stream, which is what the host modules show. A stream
  that nobody aborts may go on for ever, so a reader may wait for ever.
* Idle-complete: threads and the queue run; connecting, and every read, returns or
  times out; the semaphore's wait has a deadline. Nothing says that a body ends, so
  `EveryRequestAnswered` excepts a body that keeps coming.
* Page: none is needed (`NoCallForgotten` is an invariant).
* Hop: a delivered call reaches its handler, handlers and SQLite answer, promise
  callbacks run. A call sent while the page has no handler at all stays with Lynx.
* Transport: promise callbacks run, a host's fetch that was given a signal rejects when
  it is aborted, and the SDK works through a response whose signal is aborted. Nothing
  is assumed of a host that has not answered.
* Engine: the pool's threads run. SQLite's calls return.
* Adapter: microtasks run, native calls are answered, callbacks end. A callback that
  takes a lock of its own inside is outside the model.

## Proofs

Nine modules have theorems, each in its `<Module>Proofs`; those about `NativeCall` and
`LynxDBAdapter` are both in `NativeSqlProofs`. All are
built alike: an inductive invariant `IInv` (`AdapterInv`), which TLC checked before it was
proved; `InitIInv` and one lemma per action or group of actions, which give `Inductive`
(`Spec => []IInv`); and a theorem per property. Where the table says "any", the bound
of the run is a constant of which nothing is assumed, or that it is a natural number.

| Module | Theorem | States | For |
| --- | --- | --- | --- |
| `AndroidStream` | `Grammar`, `Settled`, `Implements` | `StreamGrammar`, `RequestInvariant`, `ContractSpec` | any body and read size |
| `IosStream` | `Settled`, `Implements` | `RequestInvariant`, `ContractSpec` | any body, chunk and number of queued blocks |
| `SyncStream` | `WholeBody`, `NothingLeft` | `ReaderInvariant`, `ReleasedLeavesNothing` | any streams, bodies and sizes of the two buffers |
| `IdleComplete` | `NeverCutWithoutReason`, `FirstSettles` | `AnswerInvariant`, `FirstFinishSettles` | any body, chunk and number of queued blocks |
| `PageRpc` | `TypeCorrect`, `Isolated`, `NoDeadHolder` | `TypeOK`, `Isolation`, `NoDeadLease` | any clients, connections, calls, statements |
| | `OneFactoryHolds`, `RefCountHolds`, `UpdatesHold`, `CallsHold` | `OneFactory`, `RefCountExact`, `NoUpdateLost`, `NoCallForgotten` | the same, as long as no two calls wait for one file (`OneWaits`) |
| | `TwoClientsWait`, `TwoClientsSafe` | `OneWaits`, and with it the four above | two clients, any connections, calls, statements |
| `PsSqlEngine` | `Handles`, `NoStray`, `CallersKept`, `CloseFinal`, `AnswersStand` | `HandleInvariant`, `NoStrayTransaction`, `CallersTransactionKept`, `CloseIsFinal`, `AnsweredOnce` | any threads, calls, connections |
| `SyncTransport` | `TypeCorrect`, `Exclusion`, `NothingLeft`, `ReadOnce` | `TypeOK`, `LocksExclude`, `SettledLeavesNothing`, `BodyReadOnce` | any implementations, identifiers, hosts |
| `NativeCall` | `MapRight`, `Survive` | `MapFollowsHandler`, `AnswersSurvive` | any calls, handlers, values of any content |
| `LynxDBAdapter` | `LocksHold`, `CloseComplete` | `LockInvariant`, `CloseReachesAll` | any calls and readers |

### Assumptions

Only the named assumptions on constants, which TLC evaluates in every run:
`BoundsAssumption` of the stream modules, `IdleComplete` and `PageRpc` and
`LimitsAssumption` of `SyncStream` say that bounds are natural numbers, some of them not
zero (`SyncStream`'s buffer has room for the two events an overflow puts there, as the
code's has, and no stream is called "another", the name that stands for the rest);
`EngineAssumption` and `PageRpc`'s say which calls, statements and answers there are;
`BindsAssumption` says that a bound value is one of JavaScript's types with bytes or
characters in it; `HostAssumption` that a host's module tables are sets of modules;
`AdapterAssumption` that there is a reader, and what names a call may have. Two kinds of
theorem have one hypothesis more, which is part of what they state: the four under
`OneWaits`, and `TwoClients`.

### Arguments

* **AndroidStream.** That nothing follows the terminal event says nothing about
  effects that are decided and not yet applied. So `Shape` says which effects can be
  outstanding at which line of the thread, and what the session's flags then are;
  `Accounts`, that the bytes received are those delivered, about to be emitted and
  held. The refinement takes the enabling conditions of the contract's steps from it.
* **IosStream.** The same with `on_end` in two halves (`Deciding`), and with the blocks
  still queued: the response is one block, before any data (`Order`). An abort between
  the halves rules the clean ending out, which is the contract's `Settle` guard.
* **SyncStream.** The events of a stream are one sequence. `Total` of them were sent and
  `Seen` have run; what is on its way is the rest of it (`Wire`). Until a reader exists
  the early buffer is the part that has run (`Intact`), or it overflowed (`Overflown`)
  and the reader will fail; after that the reader's queue and what it returned
  are the chunks that have run (`Whole`), unless it failed. Other streams only evict
  a name (`Spares`), so the argument is about one stream at a time.
* **IdleComplete.** Until somebody finishes, the bytes collected and those in the
  blocks of the queue add up to the bytes sent (`Totals`). No sum over the queue is
  defined, which would need induction: the totals after each block are a function, and
  a block that runs or is appended cuts or extends it. Only one block of each of
  the timer, the deadline and the caller is queued, and only in its phase.
* **PageRpc.** `Places`: where a call may be and what it then refers to. `Lines`: a
  connection's queue has its calls, each once, and a call past "queued" is its head.
  `Waits`: who waits for an entry sleeps. `Locks`: what a call holds at each step, that
  a lease is its adapter's lock, and that a holder has the lock as a lease or for the
  one call at its statement. `Discipline` carries what the client knew when it sent a
  call (the mode of its connection) to where it runs. Nothing needs `OneFactory`:
  isolation holds for each adapter even where a file gets two of them.
  The file's own door is `Doors`: at most one call has an opening or a closing pending on
  it (`OnePending`) and everybody else at it waits; an entry that is open is the one in
  the map (`Current`), its count is the number of connections that use it (`Counted`, with
  `FiniteSetTheorems` for the counting), and who waits is awake or has somebody to wake
  it (`Alert`, `Awake`). It is inductive as long as no two calls wait together
  (`OneWaits`), which is what `openFile` relies on: after its await it looks at the map
  again but not at what is pending, so two that wake together would both make an entry.
  With three clients that happens (`page_two_factories`); that two clients cannot bring
  it about is a second induction (`NextTwo`): a client opens one connection at a time, so
  two that wait leave nobody whose call they could wait for.
* **PsSqlEngine.** A posted call is in one slot of the queue or with one thread
  (`OnePlace`), and each step of a thread says what it may rely on (`Stages`): between
  `Lock` and the answer the handle is open and its mutex is the call's. The owner of a
  mutex is a thread at those steps, and that of a transaction is a client's BEGIN, a
  batch at its rows or COMMIT, or a call that threw (`Owners`); what was closed has left
  the map, and later calls know it (`ClosedGone`).
* **SyncTransport.** Implementations of one identifier share the registered locks
  (`LockMaps`), a lock's queue has the jobs that want it, each once, its holder first
  (`Queues`); what a request has with native belongs to the step it is at
  (`Requests`).
* **NativeCall.** Every handler saved the map that was right for the one before it
  (`Frames`); the handlers a call reaches depend on older ones only, so a new handler,
  and a detach of the current one, keep that. The wire is a function of
  the value bound and of the step (`Wires`), and what comes back is shown type by type.
* **LynxDBAdapter.** A close has either both semaphores of `init` or what another close
  left of them (`Drain`). In the first case it has every item when it starts to close, so
  nobody is in a callback or about to be, since the abort has turned away all who still
  waited (`OwnerOf`); in the second an earlier close had. No lock is given after the
  abort, so from then on there are no callbacks, and before it every connection is open.
  Every open connection is in the semaphores of the moment and in those of every close
  that is under way (`Reach`): a close that fails in part puts its readers into a
  semaphore nobody could know before (`Fresh`). Of the SDK's semaphore the argument needs
  only that a step of one call takes nothing from the others and queues nobody else
  (`Moves`), which `RequestFacts`, `ReleaseFacts` and `LeaveFacts` show of its operators.

What the attempts taught. `InOrder` was wrong for buffers larger than the run's: after an
overflow whose name is evicted, later chunks go on behind the two terminal events and
reach the failed reader's queue with a gap. No `read` returns them; the
property now says so, and the run's buffer is large enough for it to happen. `Chain`,
the data of `OnEvents`, and the semaphore's `Release` and `Leave` were recursive or
filtered sequences or a fold, and are now a closure, enumerations and a closed form, with
the same values. The attempt to prove `OneFactory` ended in `OneWaits`: it is what was
found to be missing, and exactly what the violation shows to fail.

### Model-checked only

* Liveness under fairness, and ENABLED, are out of the prover's reach.
* `WhatTheServerSent` and `DecodersInStep`: what the decoders compute is by induction
  over data; and `ResponseBody` holds the project's one RECURSIVE operator (`ToUint8`).
* That no two calls wait for one file of the page is a theorem for two clients and a
  hypothesis for more: with three views TLC refutes it, and with it each of `OneFactory`,
  `RefCountExact`, `NoUpdateLost` and `NoCallForgotten`. They are what a second factory
  brings with it (`page_two_factories`): the counts are then of one adapter and the users
  of two, and a call may wait for the lock of an adapter that is closed under it.

For the first two the bounds of "Why the bounds are enough" are what they rest on.

## Plan

In order of importance; the first four groups are done but for what is named in the fourth.

1. Streams: contract, Android, iOS, JavaScript; Android's proofs; idle-complete HTTP.
2. SQL: page RPC, native engine, adapter, the call between them.
3. Sync: locks and transports; bodies, gunzip and UTF-8.
4. Proofs of safety for the streams, idle-complete HTTP, page RPC, the engine, the hop,
   the transports and the adapter (done). Left: an abstract specification of the page (one
   write lock and one open transaction per file) that `PageRpc` implements.
5. More model: connections that read on the page (a readLock beside the held lease), a
   missing sender on iOS, and what a statement left unfinalised holds in the engine.

## Not modelled, and why

* The native UTF-8 scan (`shared/utf8_hold.h`) beyond its TypeScript twin, which
  `ResponseBody` models: the stream modules take from it only how much is held.
* The JNI, N-API and Objective-C bindings, which convert arguments one by one.
* Policies and their code generator: constants, which the models use as fairness.
* On the page, read connections and the open options; `AbortSignal.timeout`, the
  WebSocket support that is imported lazily, the copying of headers, the user agent:
  each hands something through.
* The Lynxtron entry, examples, hosts for tests, lint rules and build scripts hold no
  run-time state of the program.
