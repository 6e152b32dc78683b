---------------------------- MODULE SyncTransport ----------------------------
(***************************************************************************)
(* The sync requests of one JavaScript context, from the locks of the sync *)
(* implementations to the transports (src/sync): which implementation may  *)
(* stream or upload, which transport a request takes, how a request ends   *)
(* when its signal is aborted before, while or after the host answers, and *)
(* what it leaves behind.  A host may register its modules late.           *)
(*                                                                         *)
(* The SDK that takes the locks and makes the requests, its Mutex and the  *)
(* host's own HTTP are not in the repository: they do what the code in     *)
(* src/ relies on.  The chunks of a stream are SyncStream's subject.       *)
(***************************************************************************)
EXTENDS LynxHost, FiniteSets

CONSTANTS
    Impls,          \* sync implementations, one for each connect()
    Identifier,     \* the identifier option of each; NoIdentifier when empty
    NoIdentifier,
    Hosts           \* the hosts a run may start on

(* What the proofs rely on: the places of a host are tables of modules. *)
ASSUME HostAssumption ==
    \A h \in Hosts :
        /\ h = [modules |-> h.modules, httpFetch |-> h.httpFetch, runtime |-> h.runtime,
                platform |-> h.platform, fetch |-> h.fetch, emitters |-> h.emitters]
        /\ h.modules \in [ToSet(Places) -> SUBSET Modules]

LockTypes == {"SYNC", "CRUD"}
Jobs == Impls \X LockTypes      \* the work an implementation does under a lock
Streaming(j) == j[2] = "SYNC"   \* /sync/stream; CRUD asks for a checkpoint

VARIABLES
    host,       \* what is bound where
    LOCKS,      \* whose lock map each identifier has in the registry
    locks,      \* whose lock map each implementation uses; {} before it exists
    queue,      \* the jobs waiting for, and first of all holding, each lock
    pc,         \* where each job is
    via,        \* the transport a job's request took
    aborted,    \* the signal of each implementation
    listeners,  \* the native requests whose onAbort is on a signal
    calls,      \* httpFetch calls whose callback has not come
    streams,    \* native streams that are open
    threw,      \* history: the requests whose httpFetch threw on the spot
    response,   \* what the host's Response has been made into
    bodyReads   \* how often the body getter of the host's Response was read

vars == <<host, LOCKS, locks, queue, pc, via, aborted, listeners, calls,
          streams, threw, response, bodyReads>>

lockVars == <<LOCKS, locks, queue>>
nativeVars == <<listeners, calls, streams, threw>>
hostVars == <<response, bodyReads>>

TypeOK ==
    /\ LOCKS \in [{Identifier[i] : i \in Impls} -> SUBSET Impls]
    /\ locks \in [Impls -> SUBSET Impls]
    /\ queue \in [Jobs -> Seq(Jobs)]
    /\ pc \in [Jobs -> {"idle", "queued", "locked", "waiting", "body",
                        "failed", "done"}]
    /\ via \in [Jobs -> {"none", "native-http", "lynx-fetch-module", "host-fetch"}]
    /\ aborted \in [Impls -> BOOLEAN]
    /\ listeners \subseteq Jobs /\ calls \subseteq Jobs /\ streams \subseteq Jobs
    /\ threw \subseteq Jobs
    /\ response \in [Jobs -> {"none", "raw", "stable", "empty"}]
    /\ bodyReads \in [Jobs -> 0..3]

Init ==
    /\ host \in Hosts
    /\ LOCKS = [id \in {Identifier[i] : i \in Impls} |-> {}]
    /\ locks = [i \in Impls |-> {}]
    /\ queue = [l \in Jobs |-> <<>>]
    /\ pc = [j \in Jobs |-> "idle"]
    /\ via = [j \in Jobs |-> "none"]
    /\ aborted = [i \in Impls |-> FALSE]
    /\ listeners = {} /\ calls = {} /\ streams = {} /\ threw = {}
    /\ response = [j \in Jobs |-> "none"]
    /\ bodyReads = [j \in Jobs |-> 0]

(* The lock a job needs: the one of that type in its implementation's map. *)
LockOf(j) == <<CHOOSE owner \in locks[j[1]] : TRUE, j[2]>>

Goto(j, state) == pc' = [pc EXCEPT ![j] = state]

-----------------------------------------------------------------------------
(* The host *)

(* Autolink registers a module while the client is already running. *)
RegisterModule(module) ==
    /\ module \notin host.modules["bare"]
    /\ host' = [host EXCEPT !.modules["bare"] = @ \cup {module}]
    /\ UNCHANGED <<lockVars, pc, via, aborted, nativeVars, hostVars>>

-----------------------------------------------------------------------------
(* LynxStreamingSyncImplementation *)

(* mutant: the registry is written but never read *)
InitLocksM(i) ==
    /\ locks' = [locks EXCEPT ![i] = {i}]
    /\ LOCKS' = [LOCKS EXCEPT ![Identifier[i]] = {i}]

(* initLocks: the registered map of the identifier, or a new one. *)
InitLocks(i) ==
    IF Identifier[i] # NoIdentifier /\ LOCKS[Identifier[i]] # {}
    THEN /\ locks' = [locks EXCEPT ![i] = LOCKS[Identifier[i]]]
         /\ UNCHANGED LOCKS
    ELSE /\ locks' = [locks EXCEPT ![i] = {i}]
         /\ LOCKS' = IF Identifier[i] = NoIdentifier THEN LOCKS
                     ELSE [LOCKS EXCEPT ![Identifier[i]] = {i}]

(* generateSyncStreamImplementation: connect() makes a remote and an
   implementation; the one before it may still be on its way out.           *)
GenerateSyncStreamImplementation(i) ==
    /\ locks[i] = {}
    /\ InitLocks(i)
    /\ UNCHANGED <<host, queue, pc, via, aborted, nativeVars, hostVars>>

(* obtainLock: runExclusive of the SDK's Mutex, which serves its callers in
   order and lets a caller whose signal aborts leave the queue.             *)
ObtainLock(j) ==
    /\ locks[j[1]] # {}
    /\ pc[j] = "idle"
    /\ queue' = [queue EXCEPT ![LockOf(j)] = Append(@, j)]
    /\ Goto(j, "queued")
    /\ UNCHANGED <<host, LOCKS, locks, via, aborted, nativeVars, hostVars>>

LockGranted(j) ==
    /\ pc[j] = "queued"
    /\ Head(queue[LockOf(j)]) = j
    /\ ~aborted[j[1]]
    /\ Goto(j, "locked")
    /\ UNCHANGED <<host, lockVars, via, aborted, nativeVars, hostVars>>

LockAbandoned(j) ==
    /\ pc[j] = "queued"
    /\ aborted[j[1]]
    /\ \E n \in DOMAIN queue[LockOf(j)] :
           /\ queue[LockOf(j)][n] = j
           /\ queue' = [queue EXCEPT ![LockOf(j)] = RemoveAt(@, n)]
    /\ Goto(j, "done")
    /\ UNCHANGED <<host, LOCKS, locks, via, aborted, nativeVars, hostVars>>

(* The callback's promise has settled and runExclusive gives up the lock. *)
Unlock(j) == queue' = [queue EXCEPT ![LockOf(j)] = Tail(@)]

Release(j) ==
    /\ pc[j] = "failed"
    /\ Unlock(j)
    /\ Goto(j, "done")
    /\ UNCHANGED <<host, LOCKS, locks, via, aborted, nativeVars, hostVars>>

-----------------------------------------------------------------------------
(* LynxRemote.fetch *)

(* lookupNativeSyncHttp: the module has httpFetch except on desktop. *)
NativeHttpFetchAvailable ==
    "NativePowerSyncModule" \in NativeModules(host) /\ host.httpFetch

LynxFetchModuleAvailable ==
    HostIsAndroid(host) /\ "LynxFetchModule" \in NativeModules(host)

PickSyncStreamTransport(j) ==
    CASE Streaming(j) /\ NativeHttpFetchAvailable -> "native-http"
      [] ~Streaming(j) /\ LynxFetchModuleAvailable -> "lynx-fetch-module"
      [] OTHER -> "host-fetch"

(* fetchViaNativeHttp up to its return.  When httpFetch throws the Promise is
   rejected by its constructor, not by settleReject: onAbort stays.         *)
FetchViaNativeHttp(j) ==
    \/ /\ aborted[j[1]]
       /\ Goto(j, "failed")
       /\ UNCHANGED nativeVars
    \/ /\ ~aborted[j[1]]
       /\ listeners' = listeners \cup {j}
       /\ \/ /\ calls' = calls \cup {j}
             /\ Goto(j, "waiting")
             /\ UNCHANGED threw
          \/ /\ threw' = threw \cup {j}
             /\ Goto(j, "failed")
             /\ UNCHANGED calls
       /\ UNCHANGED streams

(* fetchViaLynxModule: the signal is not looked at. *)
FetchViaLynxModule(j) == Goto(j, "waiting") /\ UNCHANGED nativeVars

FetchViaHost(j) ==
    /\ Goto(j, IF FetchImpl(host) = {} THEN "failed" ELSE "waiting")
    /\ UNCHANGED nativeVars

Fetch(j) ==
    /\ pc[j] = "locked"
    /\ via' = [via EXCEPT ![j] = PickSyncStreamTransport(j)]
    /\ \/ via'[j] = "native-http" /\ FetchViaNativeHttp(j)
       \/ via'[j] = "lynx-fetch-module" /\ FetchViaLynxModule(j)
       \/ via'[j] = "host-fetch" /\ FetchViaHost(j)
    /\ UNCHANGED <<host, lockVars, aborted, hostVars>>

-----------------------------------------------------------------------------
(* What the transports do with the answer *)

(* mutant: resolving does not take the listener off the signal *)
SettleM(j) == UNCHANGED listeners

(* settleResolve and settleReject take onAbort off the signal. *)
Settle(j) == listeners' = listeners \ {j}

(* The httpFetch callback.  After an abort all it does is ask native to end
   the stream; with no emitter to read from it rejects.                     *)
NativeStarts(j) ==
    /\ j \in calls
    /\ calls' = calls \ {j}
    /\ \/ /\ pc[j] # "waiting"
          /\ UNCHANGED <<pc, listeners, streams>>
       \/ /\ pc[j] = "waiting"
          /\ Settle(j)
          /\ streams' = streams \cup {j}
          /\ Goto(j, IF GlobalEventEmitters(host) = {} THEN "failed" ELSE "body")
    /\ UNCHANGED <<host, lockVars, via, aborted, threw, hostVars>>

NativeFails(j) ==
    /\ j \in calls
    /\ calls' = calls \ {j}
    /\ \/ pc[j] # "waiting" /\ UNCHANGED <<pc, listeners>>
       \/ pc[j] = "waiting" /\ Settle(j) /\ Goto(j, "failed")
    /\ UNCHANGED <<host, lockVars, via, aborted, streams, threw, hostVars>>

LynxFetchAnswers(j) ==
    /\ pc[j] = "waiting"
    /\ via[j] = "lynx-fetch-module"
    /\ Goto(j, "body") \/ Goto(j, "failed")
    /\ UNCHANGED <<host, lockVars, via, aborted, nativeVars, hostVars>>

(* mutant: the response of the host is passed on as it is *)
HostStreamingResponseM(captured) == "raw"

(* hostStreamingResponse reads the body getter once and keeps what it gave;
   a getter that throws, and a body without a reader, make it empty.        *)
HostStreamingResponse(captured) ==
    IF captured = "reader" THEN "stable" ELSE "empty"

HostAnswers(j) ==
    /\ pc[j] = "waiting"
    /\ via[j] = "host-fetch"
    /\ \/ /\ Streaming(j)
          /\ \E captured \in {"reader", "no reader", "throws"} :
                 response' = [response EXCEPT ![j] = HostStreamingResponse(captured)]
          /\ bodyReads' = [bodyReads EXCEPT ![j] = @ + 1]
       \/ /\ ~Streaming(j)
          /\ response' = [response EXCEPT ![j] = "stable"]
          /\ UNCHANGED bodyReads
    /\ Goto(j, "body")
    /\ UNCHANGED <<host, lockVars, via, aborted, nativeVars>>

HostFails(j) ==
    /\ pc[j] = "waiting"
    /\ via[j] = "host-fetch"
    /\ Goto(j, "failed")
    /\ UNCHANGED <<host, lockVars, via, aborted, nativeVars, hostVars>>

(* The SDK reads the response to its end: it tests res.body and then calls
   res.body.getReader(), or calls json().  Its callback then returns.       *)
ReadBody(j) ==
    /\ pc[j] = "body"
    /\ bodyReads' = [bodyReads EXCEPT ![j] =
                        IF response[j] = "raw" /\ Streaming(j) THEN @ + 2 ELSE @]
    /\ streams' = streams \ {j}
    /\ Unlock(j)
    /\ Goto(j, "done")
    /\ UNCHANGED <<host, LOCKS, locks, via, aborted, listeners, calls, threw,
                   response>>

-----------------------------------------------------------------------------
(* The signal of an implementation *)

(* mutant: an aborted request waits for native to confirm *)
AbortM(i) ==
    /\ locks[i] # {}
    /\ ~aborted[i]
    /\ aborted' = [aborted EXCEPT ![i] = TRUE]
    /\ listeners' = {j \in listeners : j[1] # i}
    /\ UNCHANGED <<host, lockVars, pc, via, calls, streams, threw, hostVars>>

(* AbortSignalPolyfill._abort: each listener once, and only the first time.
   onAbort rejects, unless the Promise is rejected already; native cannot be
   told yet, as its streamingId is only known from the callback.            *)
Abort(i) ==
    LET mine == {j \in listeners : j[1] = i}
    IN  /\ locks[i] # {}
        /\ ~aborted[i]
        /\ aborted' = [aborted EXCEPT ![i] = TRUE]
        /\ pc' = [j \in Jobs |-> IF j \in mine /\ pc[j] = "waiting"
                                    THEN "failed" ELSE pc[j]]
        /\ listeners' = listeners \ mine
        /\ UNCHANGED <<host, lockVars, via, calls, streams, threw, hostVars>>

(* The host's fetch was given the signal, and rejects. *)
HostAborts(j) == aborted[j[1]] /\ HostFails(j)

-----------------------------------------------------------------------------
ClientStep(j) ==
    \/ ObtainLock(j)
    \/ LockGranted(j)
    \/ LockAbandoned(j)
    \/ Release(j)
    \/ Fetch(j)
    \/ ReadBody(j)

HostStep(j) ==
    \/ NativeStarts(j)
    \/ NativeFails(j)
    \/ LynxFetchAnswers(j)
    \/ HostAnswers(j)
    \/ HostFails(j)

Next ==
    \/ \E module \in Modules : RegisterModule(module)
    \/ \E i \in Impls : GenerateSyncStreamImplementation(i) \/ Abort(i)
    \/ \E j \in Jobs : ClientStep(j) \/ HostStep(j)

Spec == Init /\ [][Next]_vars

(* Promise callbacks run; the SDK works through a response it has, for a
   stream because SyncStream's reader ends when it is aborted; and a host
   fetch that was given a signal rejects when it is aborted.  Nothing is
   assumed of a host that has not answered yet.                             *)
FairSpec ==
    /\ Spec
    /\ \A j \in Jobs :
           /\ WF_vars(LockGranted(j)) /\ WF_vars(LockAbandoned(j))
           /\ WF_vars(Release(j)) /\ WF_vars(Fetch(j))
           /\ WF_vars(aborted[j[1]] /\ ReadBody(j)) /\ WF_vars(HostAborts(j))

-----------------------------------------------------------------------------
(* Properties *)

UnderLock(j) == pc[j] \in {"locked", "waiting", "body", "failed"}

(* Two implementations of one identifier, an old one that is still on its way
   out and its successor, never stream or upload at the same time.          *)
LocksExclude ==
    \A j, k \in Jobs :
        /\ j # k /\ j[2] = k[2]
        /\ Identifier[j[1]] = Identifier[k[1]]
        /\ Identifier[j[1]] # NoIdentifier
        => ~(UnderLock(j) /\ UnderLock(k))

(* What has settled leaves nothing behind.  A signal that lives as long as a
   connection collects no onAbort of settled requests - but for those whose
   httpFetch threw on the spot - and native keeps no stream open that nobody
   reads - but for one that finds no emitter to read from, which
   fetchViaNativeHttp rejects without ending it.                            *)
SettledLeavesNothing ==
    /\ \A j \in listeners : ~aborted[j[1]]
    /\ \A j \in listeners \ threw : pc[j] = "waiting" /\ j \in calls
    /\ \A j \in streams : pc[j] = "body" \/ GlobalEventEmitters(host) = {}

(* The one-shot body of the host's Response is read once for a stream, and
   not at all when JSON is read from it, whoever asks for res.body how often. *)
BodyReadOnce == \A j \in Jobs : bodyReads[j] <= IF Streaming(j) THEN 1 ELSE 0

(* An aborted stream gives up its lock even when the host never answers; so
   does every request but one of LynxFetchModule, which ignores the signal. *)
AbortFreesLock ==
    \A j \in Jobs :
        (aborted[j[1]] /\ UnderLock(j) /\ via[j] # "lynx-fetch-module")
            ~> (~UnderLock(j) \/ via[j] = "lynx-fetch-module")
=============================================================================
