--------------------------- MODULE LynxDBAdapter ---------------------------
(***************************************************************************)
(* The SQLite adapter (src/adapter/LynxDBAdapter.ts): one write connection *)
(* and some read connections, each handed out by a semaphore.  Everything  *)
(* runs on one JavaScript thread; a step is what runs between two awaits.  *)
(* close() takes every connection first, closes them in parallel, and keeps*)
(* those whose close failed in a semaphore of their own, so that it can be *)
(* called again.                                                           *)
(***************************************************************************)
EXTENDS Naturals, Sequences, FiniteSets

CONSTANTS
  AppCalls,  \* bound: calls ever made on the adapter
  Ops,       \* the calls the application makes
  Readers,   \* READ_CONNECTIONS
  NoCall     \* no call

ASSUME AdapterAssumption ==
  /\ Readers \in Nat \ {0} /\ NoCall \notin AppCalls
  /\ Ops \subseteq {"read", "write", "refresh", "close"}
  /\ AppCalls \cap {"none", "writer", "readers"} = {}

Writer == 0
Conns == 0 .. Readers
Names == {"writer", "readers"} \cup AppCalls  \* a close that keeps readers names theirs

VARIABLES
  init,      \* initialized: opening, ready or failed
  opened,    \* how many connections init has opened
  stuck,     \* connections that init failed to close again
  db,        \* db[c]: the native connection (external)
  writeConnection, readConnections, \* the name of a semaphore, or "none"
  sems,      \* sems[n]: a semaphore of @powersync/shared-internals (external)
  aborted,   \* abortController
  call       \* call[k]: a call on the adapter

adapterVars == <<init, opened, stuck, db, writeConnection, readConnections, sems,
                 aborted, call>>
pool == <<init, opened, stuck, db, writeConnection, readConnections, aborted>>

Uncalled == [op |-> "none", at |-> "none", ok |-> TRUE, w |-> "none", r |-> "none",
             left |-> {}, failed |-> {}]
Empty == [items |-> {}, owner |-> [c \in Conns |-> NoCall], queue |-> <<>>]

Waiting == {"lock", "writer", "readers"}
Stages == Waiting \cup {"none", "init", "fn", "get", "next", "refresh", "closing",
                        "resolved", "rejected"}

TypeOK ==
  /\ init \in {"opening", "ready", "failed"} /\ opened \in 0 .. Readers + 1
  /\ stuck \subseteq Conns /\ aborted \in BOOLEAN
  /\ db \in [Conns -> {"none", "open", "closed"}]
  /\ writeConnection \in {"none", "writer"}
  /\ readConnections \in Names \cup {"none"}
  /\ sems \in [Names -> [items : SUBSET Conns, owner : [Conns -> AppCalls \cup {NoCall}],
                         queue : Seq(AppCalls)]]
  /\ \A n \in Names \ {"writer"} : Writer \notin sems[n].items
  /\ call \in [AppCalls -> [op : Ops \cup {"none"}, at : Stages, ok : BOOLEAN,
       w : Names \cup {"none"}, r : Names \cup {"none"},
       left : SUBSET Conns, failed : SUBSET Conns]]
  /\ \A n \in Names : \A i \in DOMAIN sems[n].queue : call[sems[n].queue[i]].at \in Waiting

AdapterInit ==
  /\ init = "opening" /\ opened = 0 /\ stuck = {} /\ aborted = FALSE
  /\ db = [c \in Conns |-> "none"]
  /\ writeConnection = "none" /\ readConnections = "none"
  /\ sems = [n \in Names |-> Empty]
  /\ call = [k \in AppCalls |-> Uncalled]

-----------------------------------------------------------------------------
(* The semaphore: items that are free or owned, and a queue of calls that  *)
(* wait for one item or for all of them; a free item goes to the first.    *)
WantsAll(k) == call[k].op = "close" \/ call[k].at \in {"next", "readers"}

Owned(sem, k) == {c \in sem.items : sem.owner[c] = k}
Satisfied(sem, k) ==
  Owned(sem, k) # {} /\ (WantsAll(k) => Owned(sem, k) = sem.items)

Request(sem, k) ==
  LET free == Owned(sem, NoCall)
      mine == IF WantsAll(k) \/ free = {} THEN free ELSE {CHOOSE c \in free : TRUE}
      took == [sem EXCEPT !.owner =
                 [c \in Conns |-> IF c \in mine THEN k ELSE sem.owner[c]]]
  IN IF Satisfied(took, k) THEN took ELSE [took EXCEPT !.queue = Append(@, k)]

(* The items that k had go to the calls at the front one by one, as they   *)
(* queue, until one comes first that wants all; it keeps what is left, and *)
(* its place too until it has them all.  What nobody waits for is free.    *)
Release(sem, k) ==
  LET back     == Owned(sem, k)
      q        == sem.queue
      singles  == Cardinality({i \in DOMAIN q : \A j \in 1 .. i : ~WantsAll(q[j])})
      place(n) == IF n <= singles THEN n ELSE singles + 1  \* of who gets the nth item
      to(c)    == place(Cardinality({d \in back : d <= c}))
      given    == [sem EXCEPT !.owner = [c \in Conns |->
                     IF c \notin back THEN sem.owner[c]
                     ELSE IF to(c) \in DOMAIN q THEN q[to(c)] ELSE NoCall]]
      last     == place(Cardinality(back))
      first    == IF last \in DOMAIN q /\ ~Satisfied(given, q[last]) THEN last ELSE last + 1
  IN [given EXCEPT !.queue = SubSeq(q, first, Len(q))]

Holds(k, n) == n # "none" /\ Satisfied(sems[n], k)
             /\ \A i \in DOMAIN sems[n].queue : sems[n].queue[i] # k

-----------------------------------------------------------------------------
(* init(): the writer and its statements, then the readers and theirs.  A  *)
(* statement that finds the database locked is retried, 30 times at most.  *)
InitOpen ==
  /\ init = "opening" /\ opened <= Readers
  /\ db' = [db EXCEPT ![opened] = "open"]
  /\ opened' = opened + 1
  /\ UNCHANGED <<init, stuck, writeConnection, readConnections, sems, aborted, call>>

InitDone ==
  /\ init = "opening" /\ opened = Readers + 1
  /\ init' = "ready"
  /\ writeConnection' = "writer" /\ readConnections' = "readers"
  /\ sems' = [sems EXCEPT !["writer"].items = {Writer},
                          !["readers"].items = Conns \ {Writer}]
  /\ UNCHANGED <<opened, stuck, db, aborted, call>>

(* An open or a statement fails: what was opened is closed, and every call *)
(* that awaits initialized fails.  Nobody else has these connections, so   *)
(* the closes are one step.                                                *)
InitFails ==
  /\ init = "opening"
  /\ init' = "failed"
  /\ \E bad \in SUBSET {c \in Conns : db[c] = "open"} :
       /\ stuck' = bad
       /\ db' = [c \in Conns |-> IF db[c] = "open" /\ c \notin bad THEN "closed" ELSE db[c]]
  /\ UNCHANGED <<opened, writeConnection, readConnections, sems, aborted, call>>

-----------------------------------------------------------------------------
GoTo(k, at) == call' = [call EXCEPT ![k].at = at]
Settled(k, ok) == [call EXCEPT ![k].at = IF ok THEN "resolved" ELSE "rejected"]
Answer(k, ok) == call' = Settled(k, ok)

Invoke(k, op) ==
  /\ call[k] = Uncalled
  /\ call' = [call EXCEPT ![k].op = op, ![k].at = "init"]
  /\ UNCHANGED <<pool, sems>>

(* readLock and writeLock after their await of initialized; refreshSchema  *)
(* goes through writeLock.                                                 *)
Lock(k) ==
  LET n == IF call[k].op = "read" THEN readConnections ELSE writeConnection IN
  /\ call[k].at = "init" /\ call[k].op # "close" /\ init # "opening"
  /\ IF init = "failed" \/ n = "none" \/ aborted
     THEN Answer(k, FALSE) /\ UNCHANGED sems
     ELSE /\ sems' = [sems EXCEPT ![n] = Request(@, k)]
          /\ call' = [call EXCEPT ![k].at = "lock", ![k].w = n]
  /\ UNCHANGED pool

(* The queue without these calls, whose signals abort.                     *)
Leave(sem, gone) ==
  LET kept     == {i \in DOMAIN sem.queue : sem.queue[i] \notin gone}
      place(j) == CHOOSE i \in kept : Cardinality(kept \cap 1 .. i) = j
  IN [sem EXCEPT !.queue = [j \in 1 .. Cardinality(kept) |-> sem.queue[place(j)]]]

(* timeoutMs runs out before the semaphore has an item for the call.       *)
Timeout(k) ==
  /\ call[k].at = "lock" /\ call[k].op # "refresh" /\ ~Holds(k, call[k].w)
  /\ sems' = [sems EXCEPT ![call[k].w] = Leave(@, {k})]
  /\ Answer(k, FALSE)
  /\ UNCHANGED pool

Enter(k) ==
  /\ call[k].at = "lock" /\ Holds(k, call[k].w)
  /\ GoTo(k, "fn")
  /\ UNCHANGED <<pool, sems>>

(* The callback ends: readLock releases, writeLock asks for update hooks   *)
(* first, whatever became of its callback.                                 *)
ReadEnds(k) ==
  /\ call[k].at = "fn" /\ call[k].op = "read"
  /\ sems' = [sems EXCEPT ![call[k].w] = Release(@, k)]
  /\ \E ok \in BOOLEAN : Answer(k, ok)
  /\ UNCHANGED pool

WriteEnds(k) ==
  /\ call[k].at = "fn" /\ call[k].op # "read"
  /\ \E ok \in BOOLEAN : call' = [call EXCEPT ![k].at = "get", ![k].ok = ok]
  /\ UNCHANGED <<pool, sems>>

(* Mutant: the connection goes back only if the get succeeds.              *)
GetEndsUnreleased(k) ==
  /\ call[k].at = "get"
  /\ \E got \in BOOLEAN :
       LET ok == call[k].ok /\ got IN
       /\ sems' = [sems EXCEPT ![call[k].w] = IF got THEN Release(@, k) ELSE @]
       /\ IF ok /\ call[k].op = "refresh" THEN GoTo(k, "next") ELSE Answer(k, ok)
  /\ UNCHANGED pool

GetEnds(k) ==
  /\ call[k].at = "get"
  /\ sems' = [sems EXCEPT ![call[k].w] = Release(@, k)]
  /\ \E got \in BOOLEAN :
       LET ok == call[k].ok /\ got IN
       IF ok /\ call[k].op = "refresh" THEN GoTo(k, "next") ELSE Answer(k, ok)
  /\ UNCHANGED pool

(* refreshSchema: then all the readers, without an abort signal.           *)
RefreshReaders(k) ==
  /\ call[k].at = "next"
  /\ IF readConnections = "none" THEN Answer(k, FALSE) /\ UNCHANGED sems
     ELSE /\ sems' = [sems EXCEPT ![readConnections] = Request(@, k)]
          /\ call' = [call EXCEPT ![k].at = "readers", ![k].r = readConnections]
  /\ UNCHANGED pool

RefreshEnter(k) ==
  /\ call[k].at = "readers" /\ call[k].op = "refresh" /\ Holds(k, call[k].r)
  /\ GoTo(k, "refresh")
  /\ UNCHANGED <<pool, sems>>

RefreshEnds(k) ==
  /\ call[k].at = "refresh"
  /\ sems' = [sems EXCEPT ![call[k].r] = Release(@, k)]
  /\ \E ok \in BOOLEAN :
       /\ ok => \A c \in Owned(sems[call[k].r], k) : db[c] = "open"
       /\ Answer(k, ok)
  /\ UNCHANGED pool

-----------------------------------------------------------------------------
(* abortController.abort(): the locks that still wait are rejected.        *)
Waiters == {k \in AppCalls : call[k].at = "lock" /\ ~Holds(k, call[k].w)}

(* close() after its await of initialized.  It remembers the semaphores of *)
(* this moment.  Mutant: the waiting locks are not aborted.                *)
CloseUnaborted(k) ==
  /\ call[k].at = "init" /\ call[k].op = "close" /\ init # "opening"
  /\ IF init = "failed" \/ (writeConnection = "none" /\ readConnections = "none")
     THEN Answer(k, FALSE) /\ UNCHANGED sems
     ELSE LET first == IF writeConnection # "none" THEN writeConnection ELSE readConnections
          IN /\ sems' = [sems EXCEPT ![first] = Request(@, k)]
             /\ call' = [call EXCEPT ![k].w = writeConnection, ![k].r = readConnections,
                  ![k].at = IF writeConnection # "none" THEN "writer" ELSE "readers"]
  /\ UNCHANGED pool

Close(k) ==
  /\ call[k].at = "init" /\ call[k].op = "close" /\ init # "opening"
  /\ IF init = "failed"
     THEN Answer(k, FALSE) /\ UNCHANGED <<sems, aborted>>
     ELSE LET none  == writeConnection = "none" /\ readConnections = "none"
              first == IF writeConnection # "none" THEN writeConnection ELSE readConnections
              left  == [n \in Names |-> Leave(sems[n], Waiters)]
          IN /\ aborted' = TRUE
             /\ sems' = IF none THEN left ELSE [left EXCEPT ![first] = Request(@, k)]
             /\ call' = [j \in AppCalls |->
                  IF j \in Waiters \/ (j = k /\ none) THEN [call[j] EXCEPT !.at = "rejected"]
                  ELSE IF j = k
                  THEN [call[j] EXCEPT !.w = writeConnection, !.r = readConnections,
                         !.at = IF writeConnection # "none" THEN "writer" ELSE "readers"]
                  ELSE call[j]]
  /\ UNCHANGED <<init, opened, stuck, db, writeConnection, readConnections>>

CloseReaders(k) ==
  /\ call[k].at = "writer" /\ Holds(k, call[k].w)
  /\ IF call[k].r # "none"
     THEN /\ sems' = [sems EXCEPT ![call[k].r] = Request(@, k)]
          /\ GoTo(k, "readers")
     ELSE /\ call' = [call EXCEPT ![k].at = "closing", ![k].left = sems[call[k].w].items]
          /\ UNCHANGED sems
  /\ UNCHANGED pool

ToClose(k) == UNION {sems[n].items : n \in {call[k].w, call[k].r} \ {"none"}}

(* Mutant: the readers are closed without waiting for their callbacks.     *)
CloseStartAtOnce(k) ==
  /\ call[k].at = "readers" /\ call[k].op = "close"
  /\ call' = [call EXCEPT ![k].at = "closing", ![k].left = ToClose(k)]
  /\ UNCHANGED <<pool, sems>>

CloseStart(k) ==
  /\ call[k].at = "readers" /\ call[k].op = "close" /\ Holds(k, call[k].r)
  /\ call' = [call EXCEPT ![k].at = "closing", ![k].left = ToClose(k)]
  /\ UNCHANGED <<pool, sems>>

(* A native close answers: it fails for a dbId that is closed, and may fail*)
(* for one that is open.                                                   *)
NativeClose(k, c) ==
  /\ call[k].at = "closing" /\ c \in call[k].left
  /\ \E ok \in BOOLEAN :
       /\ ok => db[c] = "open"
       /\ db' = [db EXCEPT ![c] = IF ok THEN "closed" ELSE @]
       /\ call' = [call EXCEPT ![k].left = @ \ {c},
                               ![k].failed = IF ok THEN @ ELSE @ \cup {c}]
  /\ UNCHANGED <<init, opened, stuck, writeConnection, readConnections, sems, aborted>>

ReleaseBoth(k) ==
  [n \in Names |-> IF n \in {call[k].w, call[k].r} THEN Release(sems[n], k) ELSE sems[n]]

(* Mutants: every connection is forgotten; the error is not thrown.        *)
CloseFinishForgets(k) ==
  /\ call[k].at = "closing" /\ call[k].left = {}
  /\ writeConnection' = "none" /\ readConnections' = "none"
  /\ sems' = ReleaseBoth(k)
  /\ Answer(k, call[k].failed = {})
  /\ UNCHANGED <<init, opened, stuck, db, aborted>>

Keeps(k, remaining) ==
  /\ readConnections' = IF remaining = {} THEN "none" ELSE k
  /\ sems' = [ReleaseBoth(k) EXCEPT ![k].items = remaining]
  /\ UNCHANGED <<init, opened, stuck, db, aborted>>

CloseFinishSwallows(k) ==
  /\ call[k].at = "closing" /\ call[k].left = {}
  /\ writeConnection' = IF Writer \in call[k].failed THEN call[k].w ELSE "none"
  /\ Keeps(k, call[k].failed \ {Writer})
  /\ Answer(k, TRUE)

(* close(), the finally block: keep what failed, give everything back.     *)
CloseFinish(k) ==
  /\ call[k].at = "closing" /\ call[k].left = {}
  /\ writeConnection' = IF Writer \in call[k].failed THEN call[k].w ELSE "none"
  /\ Keeps(k, call[k].failed \ {Writer})
  /\ Answer(k, call[k].failed = {})

-----------------------------------------------------------------------------
InitStep == InitOpen \/ InitDone \/ InitFails

Step(k) ==
  \/ Lock(k) \/ Enter(k) \/ ReadEnds(k) \/ WriteEnds(k) \/ GetEnds(k)
  \/ RefreshReaders(k) \/ RefreshEnter(k) \/ RefreshEnds(k)
  \/ Close(k) \/ CloseReaders(k) \/ CloseStart(k)
  \/ (\E c \in Conns : NativeClose(k, c))
  \/ CloseFinish(k)

Finished ==
  /\ init # "opening" /\ \A k \in AppCalls : call[k].at \in {"resolved", "rejected"}
  /\ UNCHANGED adapterVars

AdapterNext ==
  \/ InitStep
  \/ \E k \in AppCalls : Step(k) \/ Timeout(k) \/ \E op \in Ops : Invoke(k, op)
  \/ Finished

AdapterSpec == AdapterInit /\ [][AdapterNext]_adapterVars

(* Microtasks run, native calls are answered (EveryCallAnswered of         *)
(* PsSqlEngine) and callbacks end.                                         *)
AdapterFairSpec ==
  /\ AdapterSpec /\ WF_adapterVars(InitStep)
  /\ \A k \in AppCalls : WF_adapterVars(Step(k))

-----------------------------------------------------------------------------
InCallback(k) == call[k].at \in {"fn", "get"}

(* No two callbacks of readLock, writeLock or executeBatch use a connection*)
(* at the same time, also when a close that failed in part has put the     *)
(* connection into a second semaphore while calls queue at the first.      *)
LocksExclusive ==
  \A j, k \in AppCalls :
    j # k /\ InCallback(j) /\ InCallback(k) =>
      Owned(sems[call[j].w], j) \cap Owned(sems[call[k].w], k) = {}

(* A callback and the get that follows it never run on a connection that   *)
(* is closed, though close() may be called at any time.                    *)
CallbackOnOpen ==
  \A k \in AppCalls : InCallback(k) => \A c \in Owned(sems[call[k].w], k) : db[c] = "open"

(* The state is well typed - each semaphore's items and queue included -   *)
(* and a callback has its connection to itself and finds it open.          *)
LockInvariant == TypeOK /\ LocksExclusive /\ CallbackOnOpen

(* A connection that is open is never out of reach: when no close is under *)
(* way, writeConnection and readConnections hold it for the next close.    *)
(* What is left of a failed init are the closes that native refused.       *)
Reachable == UNION {sems[n].items : n \in {writeConnection, readConnections} \ {"none"}}

NoOrphan ==
  \A c \in Conns :
    db[c] = "open" /\ init # "opening"
      /\ (\A k \in AppCalls : call[k].op = "close" => call[k].at \notin Waiting \cup {"closing"})
    => c \in Reachable \cup stuck

(* A close() that resolves has closed every connection.                    *)
CloseMeansClosed ==
  \A k \in AppCalls : call[k].op = "close" /\ call[k].at = "resolved" =>
    \A c \in Conns : db[c] = "closed"

(* close() reaches every connection: it has closed them all if it resolves,*)
(* and those it could not close are still there for the next close.        *)
CloseReachesAll == NoOrphan /\ CloseMeansClosed

(* Every call settles: locks, refreshes and closes that want one or all of *)
(* the connections never wait on each other for good, and a callback or a  *)
(* get that fails still gives its connection back.                         *)
EveryCallSettles ==
  \A k \in AppCalls : call[k].at = "init" ~> call[k].at \in {"resolved", "rejected"}
=============================================================================
