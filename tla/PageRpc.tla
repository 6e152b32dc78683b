------------------------------ MODULE PageRpc ------------------------------
(***************************************************************************)
(* The page side of the Web host helper (src/web-host/page-rpc.ts): SQL    *)
(* calls from background threads, mapped onto one WASQLite adapter per     *)
(* file.  The page runs on one event loop.  A call arrives, or the adapter *)
(* answers one of the helper's own calls, only when no continuation is     *)
(* left to run (Quiet); continuations run one at a time, in the order in   *)
(* which what they await was resolved (ready).                             *)
(*                                                                         *)
(* One file key.  A client is one LynxDBAdapter on that file, one per      *)
(* <lynx-view>; it opens its connections one after the other, sends a      *)
(* statement only on a connection it has not closed, and closes when none  *)
(* of its statements is in flight.  Connections are writers: a readOnly    *)
(* one takes readLock instead of writeLock and stashes nothing.            *)
(***************************************************************************)
EXTENDS Integers, Sequences, FiniteSets, SequencesExt

CONSTANTS
  Clients,      \* the LynxDBAdapters on the file
  Calls,        \* bound: calls in flight
  PerClient,    \* bound: calls one client has in flight
  Statements,   \* kinds of statement the clients send
  OpenResults,  \* what factory.openDB() may answer
  ClientConns,  \* bound: connections one client has open
  MaxConns,     \* bound: connections and entries ever made, each
  MaxExecs      \* bound: statements the clients send

ASSUME BoundsAssumption ==
  /\ PerClient \in Nat /\ ClientConns \in Nat /\ MaxConns \in Nat /\ MaxExecs \in Nat
  /\ Statements \subseteq {"begin", "end", "write", "get"}
  /\ OpenResults \subseteq {"adapter", "nothing", "failure"}

VARIABLES
  file,      \* files.get(key): index of the current FileEntry, 0 for none
  entries,   \* every FileEntry ever made
  adapters,  \* the WASQLite adapter of each entry (external)
  conns,     \* every ConnectionEntry ever made; live while in connections
  calls,     \* the calls in flight
  ready,     \* the calls whose continuations are to run, in order
  closing,   \* clients that have begun to close their connections
  sent,      \* how many statements the clients have sent
  unseen     \* history: clients with committed writes, told of, no get reported

page    == <<file, entries, adapters, conns, calls, ready>>
clients == <<closing, sent>>
vars    == <<page, clients, unseen>>

Idle == [op |-> "idle", at |-> "idle", client |-> "none", conn |-> 0,
         entry |-> 0, inTx |-> FALSE, ok |-> TRUE]

Entry == [refs : Int, adapter : BOOLEAN,
          pending : {"none", "opening", "closing"},
          waiters : Seq(Calls), tables : SUBSET Clients]

(* holder and tx are connections, 0 for none: who has the write lock, and  *)
(* whose BEGIN opened the transaction; dirty: writers of the tables that   *)
(* powersync_update_hooks('get') would name.                               *)
Adapter == [state : {"opening", "open", "closed"}, holder : Nat, tx : Nat,
            dirty : SUBSET Clients]

(* lease is the entry whose adapter the connection holds locked, 0 for none;*)
(* mode is what the client knows of its transaction; "failed" after a      *)
(* COMMIT that failed, which it follows with ROLLBACK.                     *)
Conn == [owner : Clients, live : BOOLEAN, lease : Nat, queue : Seq(Calls),
         mode : {"auto", "tx", "failed"}]

Call == [op : {"idle", "open", "close", "begin", "end", "write", "get"},
         at : {"idle", "waiting", "opening", "opened", "queued",
               "rolling", "drop", "closing", "lock", "stmt"},
         client : Clients \cup {"none"}, conn : Nat, entry : Nat,
         inTx : BOOLEAN, ok : BOOLEAN]

TypeOK ==
  /\ file \in 0..Len(entries) /\ Len(adapters) = Len(entries)
  /\ entries \in Seq(Entry) /\ adapters \in Seq(Adapter) /\ conns \in Seq(Conn)
  /\ ready \in Seq(Calls)
  /\ calls \in [Calls -> Call]
  /\ \A k \in Calls : calls[k].conn \in 0..Len(conns) /\ calls[k].entry \in 0..Len(entries)
  /\ closing \subseteq Clients /\ unseen \subseteq Clients
  /\ sent \in 0..MaxExecs

Init ==
  /\ file = 0 /\ entries = <<>> /\ adapters = <<>> /\ conns = <<>>
  /\ calls = [k \in Calls |-> Idle] /\ ready = <<>>
  /\ closing = {} /\ sent = 0 /\ unseen = {}

-----------------------------------------------------------------------------
Quiet == ready = <<>>

InFlight(cl)  == {k \in Calls : calls[k].client = cl}
MayCall(k, cl) == Quiet /\ calls[k] = Idle /\ Cardinality(InFlight(cl)) < PerClient
On(c)         == {k \in Calls : calls[k].conn = c}
LiveConns(cl) == {c \in DOMAIN conns : conns[c].owner = cl /\ conns[c].live}

(* The continuation of call k is the next to run, at the step it reached.  *)
Resumes(k, at) == ready # <<>> /\ Head(ready) = k /\ calls[k].at = at

Answer(k) == calls' = [calls EXCEPT ![k] = Idle]

MoveTo(k, at) == calls' = [calls EXCEPT ![k].at = at]

(* Mutant: a call does not release the queue for the next one.             *)
NextUpNever(c) == <<>>

(* releaseQueue of enqueueConnection: the next call on c may run.          *)
NextUp(c) == IF Len(conns[c].queue) > 1 THEN <<conns[c].queue[2]>> ELSE <<>>

-----------------------------------------------------------------------------
(* openFile from its second look at the map on: share the adapter, or make *)
(* a new entry, whatever entry there may be, and start opening.            *)
FindOrCreate(k, call, rest) ==
  IF file # 0 /\ entries[file].adapter
  THEN /\ entries' = [entries EXCEPT ![file].refs = @ + 1]
       /\ calls' = [calls EXCEPT ![k] = [call EXCEPT !.at = "opened", !.entry = file]]
       /\ ready' = Append(rest, k)
       /\ UNCHANGED <<file, adapters>>
  ELSE /\ entries' = Append(entries, [refs |-> 0, adapter |-> FALSE,
            pending |-> "opening", waiters |-> <<>>, tables |-> {}])
       /\ adapters' = Append(adapters,
            [state |-> "opening", holder |-> 0, tx |-> 0, dirty |-> {}])
       /\ file' = Len(entries) + 1
       /\ calls' = [calls EXCEPT ![k] =
                      [call EXCEPT !.at = "opening", !.entry = Len(entries) + 1]]
       /\ ready' = rest

(* Mutant: openFile does not wait for what is pending on the file.         *)
OpenFileAtOnce(k, call) == FindOrCreate(k, call, <<>>)

(* openFile: wait for an opening or a closing that is under way.           *)
OpenFile(k, call) ==
  IF file # 0 /\ entries[file].pending # "none"
  THEN /\ entries' = [entries EXCEPT ![file].waiters = Append(@, k)]
       /\ calls' = [calls EXCEPT ![k] = [call EXCEPT !.at = "waiting", !.entry = file]]
       /\ UNCHANGED <<file, adapters, ready>>
  ELSE FindOrCreate(k, call, <<>>)

(* An open call arrives.  A client that has closed all its connections may *)
(* open again.                                                             *)
Open(k, cl) ==
  /\ MayCall(k, cl)
  /\ Len(entries) < MaxConns /\ Len(conns) < MaxConns
  /\ \A j \in InFlight(cl) : calls[j].op # "open"
  /\ Cardinality(LiveConns(cl)) < ClientConns
  /\ cl \in closing => LiveConns(cl) = {} /\ InFlight(cl) = {}
  /\ closing' = closing \ {cl}
  /\ OpenFile(k, [Idle EXCEPT !.op = "open", !.client = cl])
  /\ UNCHANGED <<conns, sent, unseen>>

(* factory.openDB() answers: an adapter, nothing, or a failure.  The opener*)
(* awaits it first, then those who found the entry pending.                *)
OpenDone(k, result) ==
  LET e == calls[k].entry
      w == entries[e].waiters
  IN
  /\ Quiet /\ calls[k].at = "opening"
  /\ adapters' = [adapters EXCEPT ![e].state =
                    IF result = "adapter" THEN "open" ELSE "closed"]
  /\ entries' = [entries EXCEPT ![e].adapter = (result = "adapter"),
                                ![e].waiters = <<>>]
  /\ calls' = [j \in Calls |->
                 IF j = k \/ Contains(w, j)
                 THEN [calls[j] EXCEPT !.ok = (result # "failure")] ELSE calls[j]]
  /\ ready' = <<k>> \o w
  /\ UNCHANGED <<file, conns, clients, unseen>>

ResumeOpening(k) ==
  LET e == calls[k].entry IN
  /\ Resumes(k, "opening")
  /\ IF calls[k].ok /\ entries[e].adapter
     THEN /\ entries' = [entries EXCEPT ![e].pending = "none", ![e].refs = @ + 1]
          /\ MoveTo(k, "opened")
          /\ ready' = Append(Tail(ready), k)
          /\ UNCHANGED file
     ELSE /\ entries' = [entries EXCEPT ![e].pending = "none"]
          /\ file' = IF file = e THEN 0 ELSE file
          /\ Answer(k)
          /\ ready' = Tail(ready)
  /\ UNCHANGED <<adapters, conns, clients, unseen>>

ResumeWaiting(k) ==
  /\ Resumes(k, "waiting")
  /\ IF calls[k].ok
     THEN FindOrCreate(k, calls[k], Tail(ready))
     ELSE Answer(k) /\ ready' = Tail(ready) /\ UNCHANGED <<file, entries, adapters>>
  /\ UNCHANGED <<conns, clients, unseen>>

(* dispatchOpen: the connection gets its dbId.                             *)
ResumeOpened(k) ==
  /\ Resumes(k, "opened")
  /\ conns' = Append(conns, [owner |-> calls[k].client, live |-> TRUE,
                lease |-> 0, queue |-> <<>>, mode |-> "auto"])
  /\ Answer(k)
  /\ ready' = Tail(ready)
  /\ UNCHANGED <<file, entries, adapters, clients, unseen>>

-----------------------------------------------------------------------------
(* enqueueConnection: run when the calls before this one are answered.     *)
Enqueue(k, c, conn) ==
  /\ conns' = [conns EXCEPT ![c] = [conn EXCEPT !.queue = Append(@, k)]]
  /\ ready' = IF conns[c].queue = <<>> THEN <<k>> ELSE <<>>

(* The call at the head of c's queue is answered.                          *)
Finish(k, c, conn) ==
  /\ conns' = [conns EXCEPT ![c] = [conn EXCEPT !.queue = Tail(@)]]
  /\ Answer(k)

(* A close call arrives, perhaps a second one for the same dbId.           *)
Close(k, cl, c) ==
  /\ MayCall(k, cl)
  /\ c \in LiveConns(cl)
  /\ \A j \in InFlight(cl) : calls[j].op = "close"
  /\ calls' = [calls EXCEPT ![k] =
       [Idle EXCEPT !.op = "close", !.at = "queued", !.client = cl, !.conn = c]]
  /\ Enqueue(k, c, conns[c])
  /\ closing' = closing \cup {cl}
  /\ UNCHANGED <<file, entries, adapters, sent, unseen>>

(* Mutant: a close forgets the lease.                                      *)
CloseRunLeased(k) ==
  /\ calls[k].op = "close" /\ Resumes(k, "queued") /\ conns[calls[k].conn].live
  /\ MoveTo(k, "drop") /\ ready' = Append(Tail(ready), k)
  /\ UNCHANGED <<file, entries, adapters, conns, clients, unseen>>

(* The close runs: first abortHeldLease, which sends ROLLBACK.             *)
CloseRun(k) ==
  LET c == calls[k].conn IN
  /\ calls[k].op = "close" /\ Resumes(k, "queued") /\ conns[c].live
  /\ conns' = [conns EXCEPT ![c].lease = 0]
  /\ IF conns[c].lease # 0
     THEN /\ calls' = [calls EXCEPT ![k].at = "rolling", ![k].entry = conns[c].lease]
          /\ ready' = Tail(ready)
     ELSE MoveTo(k, "drop") /\ ready' = Append(Tail(ready), k)
  /\ UNCHANGED <<file, entries, adapters, clients, unseen>>

(* A close before this one has already removed the dbId.                   *)
CloseGone(k) ==
  LET c == calls[k].conn IN
  /\ calls[k].op = "close" /\ Resumes(k, "queued") /\ ~conns[c].live
  /\ Finish(k, c, conns[c])
  /\ ready' = Tail(ready) \o NextUp(c)
  /\ UNCHANGED <<file, entries, adapters, clients, unseen>>

(* Mutant: a connection that shares the file is closed without its count.  *)
CloseSharedUncounted(k) ==
  LET c == calls[k].conn IN
  /\ Resumes(k, "drop") /\ (file # 0 => entries[file].refs > 1)
  /\ Finish(k, c, [conns[c] EXCEPT !.live = FALSE])
  /\ ready' = Tail(ready) \o NextUp(c)
  /\ UNCHANGED <<file, entries, adapters, clients, unseen>>

(* No entry, or others share the file: only the connection goes.           *)
CloseShared(k) ==
  LET c == calls[k].conn IN
  /\ Resumes(k, "drop") /\ (file # 0 => entries[file].refs > 1)
  /\ Finish(k, c, [conns[c] EXCEPT !.live = FALSE])
  /\ entries' = IF file = 0 THEN entries ELSE [entries EXCEPT ![file].refs = @ - 1]
  /\ ready' = Tail(ready) \o NextUp(c)
  /\ UNCHANGED <<file, adapters, clients, unseen>>

(* dropClosedFile, for the entry that was closed; nobody is left to report *)
(* updates to once the entry is gone.                                      *)
DropClosedFile(k, c, e) ==
  /\ Finish(k, c, [conns[c] EXCEPT !.live = FALSE])
  /\ entries' = [entries EXCEPT ![e].pending = IF @ = "closing" THEN "none" ELSE @,
                                ![e].refs = @ - 1, ![e].adapter = FALSE]
  /\ IF file = e /\ entries[e].refs <= 1
     THEN file' = 0 /\ unseen' = {}
     ELSE UNCHANGED <<file, unseen>>

(* The last connection: close the adapter; opens wait for that.            *)
CloseLast(k) ==
  LET c == calls[k].conn IN
  /\ Resumes(k, "drop") /\ file # 0 /\ entries[file].refs <= 1
  /\ IF entries[file].adapter
     THEN /\ entries' = [entries EXCEPT ![file].pending = "closing"]
          /\ calls' = [calls EXCEPT ![k].at = "closing", ![k].entry = file]
          /\ ready' = Tail(ready)
          /\ UNCHANGED <<file, conns, unseen>>
     ELSE DropClosedFile(k, c, file) /\ ready' = Tail(ready) \o NextUp(c)
  /\ UNCHANGED <<adapters, clients>>

(* adapter.close() answers.                                                *)
CloseDone(k, ok) ==
  LET e == calls[k].entry
      w == entries[e].waiters
  IN
  /\ Quiet /\ calls[k].at = "closing"
  /\ adapters' = [adapters EXCEPT ![e].state = IF ok THEN "closed" ELSE @]
  /\ entries' = [entries EXCEPT ![e].waiters = <<>>]
  /\ calls' = [j \in Calls |-> IF j = k \/ Contains(w, j)
                               THEN [calls[j] EXCEPT !.ok = ok] ELSE calls[j]]
  /\ ready' = <<k>> \o w
  /\ UNCHANGED <<file, conns, clients, unseen>>

(* The close is answered.  A failure keeps the connection, so that it can  *)
(* be tried again.                                                         *)
ResumeClosing(k) ==
  LET c == calls[k].conn
      e == calls[k].entry
  IN
  /\ Resumes(k, "closing")
  /\ IF calls[k].ok
     THEN DropClosedFile(k, c, e)
     ELSE /\ Finish(k, c, conns[c])
          /\ entries' = [entries EXCEPT ![e].pending = "none"]
          /\ UNCHANGED <<file, unseen>>
  /\ ready' = Tail(ready) \o NextUp(c)
  /\ UNCHANGED <<adapters, clients>>

-----------------------------------------------------------------------------
(* What a client sends next on a connection: LynxDBAdapter holds its own   *)
(* lock from BEGIN to the end, statements inside may overlap.              *)
MaySend(c, op) ==
  CASE op = "begin" -> conns[c].mode = "auto" /\ On(c) = {}
    [] op = "end"   -> conns[c].mode # "auto"
                         /\ \A j \in On(c) : calls[j].op = "write"
    [] op = "write" -> conns[c].mode # "failed"
                         /\ \A j \in On(c) : calls[j].op = "write"
    [] op = "get"   -> conns[c].mode = "auto" /\ On(c) = {}

(* dispatchExecute and dispatchExecuteBatch take the adapter of the entry. *)
Exec(k, cl, c, op) ==
  /\ MayCall(k, cl)
  /\ c \in LiveConns(cl) /\ cl \notin closing
  /\ sent < MaxExecs /\ MaySend(c, op)
  /\ file # 0 /\ entries[file].adapter
  /\ calls' = [calls EXCEPT ![k] =
       [Idle EXCEPT !.op = op, !.at = "queued", !.client = cl, !.conn = c,
                    !.entry = file, !.inTx = (conns[c].mode = "tx")]]
  /\ Enqueue(k, c, conns[c])
  /\ sent' = sent + 1
  /\ UNCHANGED <<file, entries, adapters, closing, unseen>>

(* executeOnHeldOrLock: on the held lease and its adapter, or under a lock *)
(* of its own.                                                             *)
ExecRun(k) ==
  LET lease == conns[calls[k].conn].lease IN
  /\ calls[k].op # "close" /\ Resumes(k, "queued")
  /\ IF lease # 0
     THEN calls' = [calls EXCEPT ![k].at = "stmt", ![k].entry = lease]
     ELSE MoveTo(k, "lock")
  /\ ready' = Tail(ready)
  /\ UNCHANGED <<file, entries, adapters, conns, clients, unseen>>

(* transactionControl: COMMIT, END and ROLLBACK end a transaction alike;    *)
(* ROLLBACK TO is a write like any other statement.                        *)
TransactionControl(op) == IF op \in {"begin", "end"} THEN op ELSE "null"

(* Mutant: a writer takes the adapter's readLock, which excludes nobody.   *)
LockGrantedShared(k) ==
  LET e == calls[k].entry IN
  /\ Quiet /\ calls[k].at = "lock"
  /\ adapters' = [adapters EXCEPT ![e].holder = calls[k].conn]
  /\ conns' = [conns EXCEPT ![calls[k].conn].lease =
                      IF TransactionControl(calls[k].op) = "begin" THEN e ELSE 0]
  /\ MoveTo(k, "stmt")
  /\ UNCHANGED <<file, entries, ready, clients, unseen>>

(* WASQLite grants its write lock, to any one who waits for it; it rolls a *)
(* transaction back that was left open.  BEGIN turns it into a held lease. *)
LockGranted(k) ==
  LET e == calls[k].entry IN
  /\ Quiet /\ calls[k].at = "lock" /\ adapters[e].holder = 0
  /\ adapters' = [adapters EXCEPT ![e].holder = calls[k].conn, ![e].tx = 0]
  /\ conns' = [conns EXCEPT ![calls[k].conn].lease =
                      IF TransactionControl(calls[k].op) = "begin" THEN e ELSE 0]
  /\ MoveTo(k, "stmt")
  /\ UNCHANGED <<file, entries, ready, clients, unseen>>

(* Mutant: the lock is given back without stashing the update hooks.       *)
UnlockedUnstashed(e, a, told) ==
  /\ adapters' = [adapters EXCEPT ![e] = [a EXCEPT !.holder = 0, !.dirty = {}]]
  /\ UNCHANGED entries

(* withLock's finally: stashUpdateHooks, then WASQLite releases the lock   *)
(* and drains what the hooks still hold.  a is the adapter after the       *)
(* statement; a transaction still open has committed nothing to report.    *)
(* Unless told, the statement that asks the hooks failed, which            *)
(* stashUpdateHooks swallows: nobody will ever name these tables.          *)
Unlocked(e, a, told) ==
  /\ entries' = [entries EXCEPT ![e].tables =
                   @ \cup (IF told /\ a.tx = 0 THEN a.dirty ELSE {})]
  /\ adapters' = [adapters EXCEPT ![e] = [a EXCEPT !.holder = 0, !.dirty = {}]]

Committed(writers, told) == unseen' = unseen \cup (IF told THEN writers ELSE {})

(* A statement was executed on the adapter and answers; the others wait.   *)
Statement(k, op) == Quiet /\ calls[k].at = "stmt" /\ calls[k].op = op

BeginDone(k) ==
  LET c == calls[k].conn
      e == calls[k].entry
  IN
  /\ Statement(k, "begin")
  /\ adapters' = [adapters EXCEPT ![e].tx = c]
  /\ Finish(k, c, [conns[c] EXCEPT !.mode = "tx"])
  /\ ready' = NextUp(c)
  /\ UNCHANGED <<file, entries, clients, unseen>>

(* BEGIN failed: abortHeldLease, as for a close.                           *)
BeginFails(k) ==
  /\ Statement(k, "begin")
  /\ conns' = [conns EXCEPT ![calls[k].conn].lease = 0]
  /\ MoveTo(k, "rolling")
  /\ UNCHANGED <<file, entries, adapters, ready, clients, unseen>>

(* abortHeldLease's ROLLBACK answers, whatever it says; the lock goes.     *)
RollbackDone(k) ==
  LET c == calls[k].conn
      e == calls[k].entry
  IN
  /\ Quiet /\ calls[k].at = "rolling"
  /\ Unlocked(e, [adapters[e] EXCEPT !.tx = 0, !.dirty = {}], TRUE)
  /\ IF calls[k].op = "close"
     THEN MoveTo(k, "drop") /\ ready' = <<k>> /\ UNCHANGED conns
     ELSE Finish(k, c, conns[c]) /\ ready' = NextUp(c)
  /\ UNCHANGED <<file, clients, unseen>>

(* COMMIT or ROLLBACK: the lease ends either way, also when it failed and  *)
(* the transaction is still open.                                          *)
EndDone(k, result, told) ==
  LET c == calls[k].conn
      e == calls[k].entry
      a == [adapters[e] EXCEPT
              !.tx    = IF result = "failed" THEN @ ELSE 0,
              !.dirty = IF result = "rolled back" THEN {} ELSE @]
  IN
  /\ Statement(k, "end")
  /\ Unlocked(e, a, told)
  /\ Finish(k, c, [conns[c] EXCEPT !.lease = 0,
       !.mode = IF result = "failed" /\ conns[c].lease # 0 THEN "failed" ELSE "auto"])
  /\ Committed(IF result = "failed" THEN {} ELSE a.dirty, told)
  /\ ready' = NextUp(c)
  /\ UNCHANGED <<file, clients>>

(* A write, or an executeBatch, which is one transaction of its own when   *)
(* it does not run on a lease.                                             *)
WriteDone(k, ok, told) ==
  LET c == calls[k].conn
      e == calls[k].entry
      a == [adapters[e] EXCEPT !.dirty = IF ok THEN @ \cup {calls[k].client} ELSE @]
  IN
  /\ Statement(k, "write")
  /\ IF conns[c].lease # 0
     THEN /\ adapters' = [adapters EXCEPT ![e] = a]
          /\ UNCHANGED <<entries, unseen>>
     ELSE Unlocked(e, a, told) /\ Committed(a.dirty, told)
  /\ Finish(k, c, conns[c])
  /\ ready' = NextUp(c)
  /\ UNCHANGED <<file, clients>>

(* powersync_update_hooks('get') names nothing new under its own lock; the *)
(* answer is what was stashed, by whomever, and the stash is emptied.      *)
GetDone(k) ==
  LET c  == calls[k].conn
      e  == calls[k].entry
      ts == entries[e].tables
  IN
  /\ Statement(k, "get")
  /\ adapters' = [adapters EXCEPT ![e].holder = 0]
  /\ entries' = [entries EXCEPT ![e].tables = {}]
  /\ unseen' = unseen \ ts
  /\ Finish(k, c, conns[c])
  /\ ready' = NextUp(c)
  /\ UNCHANGED <<file, clients>>

-----------------------------------------------------------------------------
Resume(k) ==
  \/ ResumeOpening(k) \/ ResumeWaiting(k) \/ ResumeOpened(k)
  \/ CloseRun(k) \/ CloseGone(k) \/ CloseShared(k) \/ CloseLast(k)
  \/ ResumeClosing(k) \/ ExecRun(k)

OpensCloses(k) ==
  \/ \E r \in OpenResults : OpenDone(k, r)
  \/ \E ok \in BOOLEAN : CloseDone(k, ok)
  \/ RollbackDone(k)

Executes(k) ==
  \/ LockGranted(k) \/ BeginDone(k) \/ BeginFails(k) \/ GetDone(k)
  \/ \E told \in BOOLEAN :
       \/ \E r \in {"committed", "rolled back", "failed"} : EndDone(k, r, told)
       \/ \E ok \in BOOLEAN : WriteDone(k, ok, told)

Arrives(k) ==
  \E cl \in Clients :
    \/ Open(k, cl)
    \/ \E c \in DOMAIN conns :
         Close(k, cl, c) \/ \E op \in Statements : Exec(k, cl, c, op)

Finished == (\A k \in Calls : calls[k] = Idle) /\ UNCHANGED vars

Next ==
  (\E k \in Calls : Arrives(k) \/ Resume(k) \/ OpensCloses(k) \/ Executes(k))
  \/ Finished

Spec == Init /\ [][Next]_vars

-----------------------------------------------------------------------------
(* A file has at most one WASQLite adapter that is open or being opened:   *)
(* two on one IndexedDB or OPFS file would corrupt it (docs/spec.md, "one  *)
(* instance per file").  True of two clients; three can get past openFile. *)
OneFactory ==
  Cardinality({e \in DOMAIN adapters : adapters[e].state # "closed"}) <= 1

(* refCount counts the connections in use and those about to get their     *)
(* dbId, and the file goes with the last: so the adapter is closed exactly *)
(* when nobody needs it, however opens, duplicate closes, failed closes    *)
(* and failed opens fall.                                                  *)
RefCountExact ==
  LET users == Cardinality({c \in DOMAIN conns : conns[c].live})
                 + Cardinality({k \in Calls : calls[k].at = "opened"})
  IN IF file = 0 THEN users = 0
     ELSE /\ entries[file].refs = users
          /\ users > 0 /\ entries[file].pending # "closing" => adapters[file].state = "open"

(* A statement runs in the transaction its client sent it in, and in none  *)
(* of another connection's: BEGIN, the statements and COMMIT, sent as      *)
(* separate calls, keep one lease from first to last, and calls that       *)
(* overlap keep their order.                                               *)
Isolation ==
  \A k \in Calls : calls[k].at = "stmt" /\ calls[k].op # "end" =>
    adapters[calls[k].entry].tx = IF calls[k].inTx THEN calls[k].conn ELSE 0

(* Only a live connection holds the write lock: a close, or a BEGIN that   *)
(* failed, leaves no lease behind that would lock everyone out.            *)
NoDeadLease ==
  \A e \in DOMAIN adapters :
    adapters[e].holder # 0 =>
      LET c == adapters[e].holder IN
      /\ conns[c].live
      /\ conns[c].lease = e \/ \E k \in On(c) : calls[k].at \in {"stmt", "rolling"}

(* No committed write that the hooks told of is lost for notifications:    *)
(* its table stays stashed until some get reports it, though WASQLite      *)
(* drains the hooks and entries come and go.  Whose get that is, and what  *)
(* stashUpdateHooks failed to ask for, this does not say.                  *)
NoUpdateLost == unseen # {} => file # 0 /\ unseen \subseteq entries[file].tables

(* What docs/spec.md says a get does: the names of its own view's writes   *)
(* come with it, so that this view's watch still refreshes.  In the code   *)
(* the file has one stash, and a get of any view empties it                *)
(* (takePendingTables).                                                    *)
OwnGetReports ==
  [][\A cl \in unseen \ unseen' :
       \/ file' # file
       \/ \E k \in InFlight(cl) : calls[k].op = "get" /\ calls'[k] = Idle]_vars

(* No call is forgotten: one that is not about to run waits for an answer  *)
(* of the adapter, for its lock while the adapter is open, or for another  *)
(* call that is on its way and will wake it.                               *)
NoCallForgotten ==
  \A k \in Calls : LET call == calls[k] IN
    \/ call = Idle \/ Contains(ready, k)
    \/ call.at \in {"opening", "closing", "rolling", "stmt"}
    \/ call.at = "lock" /\ adapters[call.entry].state = "open"
    \/ /\ call.at = "waiting" /\ Contains(entries[call.entry].waiters, k)
       /\ \E j \in Calls : /\ calls[j].at \in {"opening", "closing"}
                           /\ calls[j].entry = call.entry
    \/ /\ call.at = "queued" /\ Contains(Tail(conns[call.conn].queue), k)
       /\ LET first == Head(conns[call.conn].queue) IN
            \/ Contains(ready, first)
            \/ calls[first].at \in {"lock", "stmt", "rolling", "closing"}
=============================================================================
