---------------------------- MODULE PsSqlEngine ----------------------------
(***************************************************************************)
(* The native SQL engine (shared/ps_sql.cc): every call is a job on one    *)
(* queue that a pool of threads shares.  A job looks its connection up     *)
(* under map_mu, lets that go, and then takes the connection's own mutex:  *)
(* in between, another thread may close the connection.  Jobs of one       *)
(* connection exclude each other but may overtake each other.              *)
(***************************************************************************)
EXTENDS Naturals, Sequences, FiniteSets

CONSTANTS
  Threads,   \* the pool's threads
  Calls,     \* bound: calls ever posted
  Conns,     \* bound: dbIds ever handed out
  Ops,       \* kinds of call the clients post
  NoCall     \* no call, no connection

ASSUME EngineAssumption ==
  /\ Ops \subseteq {"begin", "end", "execute", "batch", "close"}
  /\ NoCall \notin Calls \cup Conns

VARIABLES
  jobs,      \* pool.jobs_
  stop,      \* pool.stop_, set by the destructor
  thread,    \* thread[t]: the call it runs and how far it is
  map,       \* dbs: the connections that have an entry
  handle,    \* handle[c]: the sqlite3 handle of the connection
  mu,        \* mu[c]: the call that holds Connection::mu
  tx,        \* tx[c]: the call that began the handle's transaction (external)
  call,      \* call[k]: what was posted and what became of it
  closed     \* history: connections some close was answered ok for

vars == <<jobs, stop, thread, map, handle, mu, tx, call, closed>>

Free == [call |-> NoCall, at |-> "wait"]
Unposted == [op |-> "none", conn |-> NoCall, state |-> "new", late |-> FALSE]

(* thrown: the catch around the job made the failure of an exception, as   *)
(* where no memory is left for a row; the engine was left as it was thrown.*)
Answers == {"ok", "failed", "thrown"}

TypeOK ==
  /\ jobs \in Seq(Calls) /\ stop \in BOOLEAN
  /\ thread \in [Threads -> [call : Calls \cup {NoCall},
       at : {"wait", "start", "opened", "lock", "stmt", "rows", "commit",
             "erase", "exited"}]]
  /\ \A t \in Threads : thread[t].call = NoCall <=> thread[t].at \in {"wait", "exited"}
  /\ map \subseteq Conns /\ closed \subseteq Conns
  /\ handle \in [Conns -> {"none", "open", "closed"}]
  /\ mu \in [Conns -> Calls \cup {NoCall}]
  /\ tx \in [Conns -> Calls \cup {NoCall}]
  /\ call \in [Calls -> [op : Ops \cup {"none", "open"}, conn : Conns \cup {NoCall},
       state : {"new", "posted"} \cup Answers, late : BOOLEAN]]

Init ==
  /\ jobs = <<>> /\ stop = FALSE
  /\ thread = [t \in Threads |-> Free]
  /\ map = {} /\ closed = {}
  /\ handle = [c \in Conns |-> "none"] /\ mu = [c \in Conns |-> NoCall]
  /\ tx = [c \in Conns |-> NoCall]
  /\ call = [k \in Calls |-> Unposted]

-----------------------------------------------------------------------------
(* A caller posts a job: the first call is an open, which is to make c; the*)
(* others name a dbId an open was answered with, also one that is closed   *)
(* or being closed.                                                        *)
Post(k, op, c) ==
  /\ ~stop /\ call[k] = Unposted
  /\ IF op = "open" THEN \A j \in Calls : call[j].conn # c
     ELSE \E j \in Calls : call[j].op = "open" /\ call[j].conn = c /\ call[j].state = "ok"
  /\ call' = [call EXCEPT ![k] =
                [op |-> op, conn |-> c, state |-> "posted", late |-> c \in closed]]
  /\ jobs' = Append(jobs, k)
  /\ UNCHANGED <<stop, thread, map, handle, mu, tx, closed>>

(* Mutant: the job is not popped off the queue.                            *)
TakeNotPopped(t) ==
  /\ thread[t].at = "wait" /\ jobs # <<>>
  /\ thread' = [thread EXCEPT ![t] = [call |-> Head(jobs), at |-> "start"]]
  /\ UNCHANGED <<jobs, stop, map, handle, mu, tx, call, closed>>

(* worker(): take a job; leave when the pool stops and none is left.       *)
Take(t) ==
  /\ thread[t].at = "wait" /\ jobs # <<>>
  /\ thread' = [thread EXCEPT ![t] = [call |-> Head(jobs), at |-> "start"]]
  /\ jobs' = Tail(jobs)
  /\ UNCHANGED <<stop, map, handle, mu, tx, call, closed>>

(* Mutant: a stopped pool leaves the jobs it still has.                    *)
LeaveAtOnce(t) ==
  /\ thread[t].at = "wait" /\ stop
  /\ thread' = [thread EXCEPT ![t].at = "exited"]
  /\ UNCHANGED <<jobs, stop, map, handle, mu, tx, call, closed>>

Leave(t) ==
  /\ thread[t].at = "wait" /\ stop /\ jobs = <<>>
  /\ thread' = [thread EXCEPT ![t].at = "exited"]
  /\ UNCHANGED <<jobs, stop, map, handle, mu, tx, call, closed>>

Running(t, at, ops) == thread[t].at = at /\ call[thread[t].call].op \in ops
Conn(t) == call[thread[t].call].conn
GoTo(t, at) == thread' = [thread EXCEPT ![t].at = at]

(* The job ends with its callback.                                         *)
Answer(t, how) ==
  /\ thread' = [thread EXCEPT ![t] = Free]
  /\ call' = [call EXCEPT ![thread[t].call].state = how]

-----------------------------------------------------------------------------
(* open_sync: sqlite3_open_v2, then load_extension, whose failure closes   *)
(* the handle; then the map entry.                                         *)
OpenHandle(t) ==
  /\ Running(t, "start", {"open"})
  /\ \/ Answer(t, "failed") /\ UNCHANGED handle
     \/ /\ GoTo(t, "opened")
        /\ handle' = [handle EXCEPT ![Conn(t)] = "open"]
        /\ UNCHANGED call
  /\ UNCHANGED <<jobs, stop, map, mu, tx, closed>>

(* Mutant: a failed load_extension leaves its handle open.                 *)
OpenFinishLeaking(t) ==
  /\ Running(t, "opened", {"open"})
  /\ \E how \in Answers :
       Answer(t, how) /\ map' = IF how = "ok" THEN map \cup {Conn(t)} ELSE map
  /\ UNCHANGED <<jobs, stop, handle, mu, tx, closed>>

(* An exception before the entry is made loses the handle, which is open.  *)
OpenFinish(t) ==
  /\ Running(t, "opened", {"open"})
  /\ \/ /\ Answer(t, "failed")
        /\ handle' = [handle EXCEPT ![Conn(t)] = "closed"]
        /\ UNCHANGED map
     \/ Answer(t, "thrown") /\ UNCHANGED <<handle, map>>
     \/ Answer(t, "ok") /\ map' = map \cup {Conn(t)} /\ UNCHANGED handle
  /\ UNCHANGED <<jobs, stop, mu, tx, closed>>

(* lookup, and the first block of close_sync.                              *)
Lookup(t) ==
  /\ Running(t, "start", Ops)
  /\ IF Conn(t) \in map
     THEN GoTo(t, "lock") /\ UNCHANGED call
     ELSE Answer(t, "failed")
  /\ UNCHANGED <<jobs, stop, map, handle, mu, tx, closed>>

(* close_sync under the connection's mutex.                                *)
CloseHandle(t) ==
  /\ Running(t, "lock", {"close"}) /\ mu[Conn(t)] = NoCall
  /\ handle' = [handle EXCEPT ![Conn(t)] = "closed"]
  /\ tx' = [tx EXCEPT ![Conn(t)] = NoCall]
  /\ GoTo(t, "erase")
  /\ UNCHANGED <<jobs, stop, map, mu, call, closed>>

(* Mutant: a closed connection keeps its entry.                            *)
EraseNothing(t) ==
  /\ Running(t, "erase", {"close"})
  /\ Answer(t, "ok")
  /\ closed' = closed \cup {Conn(t)}
  /\ UNCHANGED <<jobs, stop, map, handle, mu, tx>>

Erase(t) ==
  /\ Running(t, "erase", {"close"})
  /\ map' = map \ {Conn(t)}
  /\ Answer(t, "ok")
  /\ closed' = closed \cup {Conn(t)}
  /\ UNCHANGED <<jobs, stop, handle, mu, tx>>

-----------------------------------------------------------------------------
Statements == {"begin", "end", "execute", "batch"}

(* Mutant: no look at the handle once the mutex is taken.                  *)
LockUnchecked(t) ==
  /\ Running(t, "lock", Statements) /\ mu[Conn(t)] = NoCall
  /\ mu' = [mu EXCEPT ![Conn(t)] = thread[t].call]
  /\ GoTo(t, "stmt")
  /\ UNCHANGED <<jobs, stop, map, handle, tx, call, closed>>

(* execute_sync and execute_batch_sync: the connection may have been closed*)
(* since it was looked up.                                                 *)
Lock(t) ==
  /\ Running(t, "lock", Statements) /\ mu[Conn(t)] = NoCall
  /\ IF handle[Conn(t)] = "open"
     THEN /\ mu' = [mu EXCEPT ![Conn(t)] = thread[t].call]
          /\ GoTo(t, "stmt")
          /\ UNCHANGED call
     ELSE Answer(t, "failed") /\ UNCHANGED mu
  /\ UNCHANGED <<jobs, stop, map, handle, tx, closed>>

(* The call is answered, its lock_guard gone; owner is who has the         *)
(* transaction now.                                                        *)
Unlock(t, how, owner) ==
  /\ Answer(t, how)
  /\ mu' = [mu EXCEPT ![Conn(t)] = NoCall]
  /\ tx' = [tx EXCEPT ![Conn(t)] = owner]
  /\ UNCHANGED <<jobs, stop, map, handle, closed>>

(* run_statement.  BEGIN fails inside a transaction and COMMIT outside one;*)
(* any statement may fail or throw, a failed COMMIT leaves the transaction *)
(* open.                                                                   *)
RunStatement(t) ==
  /\ Running(t, "stmt", Statements \ {"batch"})
  /\ LET op == call[thread[t].call].op
         has == tx[Conn(t)]
     IN \/ Unlock(t, "failed", has)
        \/ op = "execute" /\ Unlock(t, "ok", has)
        \/ op = "begin" /\ has = NoCall /\ Unlock(t, "ok", thread[t].call)
        \/ op = "end" /\ has # NoCall /\ Unlock(t, "ok", NoCall)

(* execute_batch_sync: BEGIN IMMEDIATE, unless a transaction is open.      *)
BatchBegin(t) ==
  /\ Running(t, "stmt", {"batch"})
  /\ \/ tx[Conn(t)] = NoCall /\ Unlock(t, "failed", NoCall)
     \/ /\ GoTo(t, "rows")
        /\ tx' = [tx EXCEPT ![Conn(t)] = IF @ = NoCall THEN thread[t].call ELSE @]
        /\ UNCHANGED <<jobs, stop, map, handle, mu, call, closed>>

started_tx(t) == tx[Conn(t)] = thread[t].call

(* Mutant: a row that fails is answered without ROLLBACK.                  *)
BatchRowsUnrolled(t) ==
  /\ Running(t, "rows", {"batch"})
  /\ \/ \E how \in {"failed", "thrown"} : Unlock(t, how, tx[Conn(t)])
     \/ /\ started_tx(t) /\ GoTo(t, "commit")
        /\ UNCHANGED <<jobs, stop, map, handle, mu, tx, call, closed>>
     \/ ~started_tx(t) /\ Unlock(t, "ok", tx[Conn(t)])

(* Mutant: a row that fails rolls back whatever transaction is open.       *)
BatchRowsRollAll(t) ==
  /\ Running(t, "rows", {"batch"})
  /\ \/ Unlock(t, "failed", NoCall)
     \/ Unlock(t, "thrown", tx[Conn(t)])
     \/ /\ started_tx(t) /\ GoTo(t, "commit")
        /\ UNCHANGED <<jobs, stop, map, handle, mu, tx, call, closed>>
     \/ ~started_tx(t) /\ Unlock(t, "ok", tx[Conn(t)])

(* Preparing, binding or stepping a row may fail: ROLLBACK, but only what  *)
(* the batch itself began.  An exception while the rows are collected, or  *)
(* while the failure is described, passes every ROLLBACK by.               *)
BatchRows(t) ==
  /\ Running(t, "rows", {"batch"})
  /\ \/ Unlock(t, "failed", IF started_tx(t) THEN NoCall ELSE tx[Conn(t)])
     \/ Unlock(t, "thrown", tx[Conn(t)])
     \/ /\ started_tx(t) /\ GoTo(t, "commit")
        /\ UNCHANGED <<jobs, stop, map, handle, mu, tx, call, closed>>
     \/ ~started_tx(t) /\ Unlock(t, "ok", tx[Conn(t)])

(* COMMIT; ROLLBACK when it fails, once the failure is described.          *)
BatchCommit(t) ==
  /\ Running(t, "commit", {"batch"})
  /\ \/ \E how \in {"ok", "failed"} : Unlock(t, how, NoCall)
     \/ Unlock(t, "thrown", tx[Conn(t)])

-----------------------------------------------------------------------------
(* The destructor: stop the pool, join its threads, close what is left.    *)
Shutdown ==
  /\ ~stop
  /\ stop' = TRUE
  /\ UNCHANGED <<jobs, thread, map, handle, mu, tx, call, closed>>

CloseAll ==
  /\ stop /\ map # {} /\ \A t \in Threads : thread[t].at = "exited"
  /\ handle' = [c \in Conns |-> IF c \in map THEN "closed" ELSE handle[c]]
  /\ map' = {}
  /\ UNCHANGED <<jobs, stop, thread, mu, tx, call, closed>>

Destroyed ==
  /\ map = {} /\ \A t \in Threads : thread[t].at = "exited"
  /\ UNCHANGED vars

Worker(t) ==
  \/ Take(t) \/ Leave(t) \/ OpenHandle(t) \/ OpenFinish(t) \/ Lookup(t)
  \/ CloseHandle(t) \/ Erase(t) \/ Lock(t) \/ RunStatement(t)
  \/ BatchBegin(t) \/ BatchRows(t) \/ BatchCommit(t)

Next ==
  \/ \E k \in Calls, c \in Conns, op \in Ops \cup {"open"} : Post(k, op, c)
  \/ \E t \in Threads : Worker(t)
  \/ Shutdown \/ CloseAll \/ Destroyed

Spec == Init /\ [][Next]_vars

(* The pool's threads run.                                                 *)
FairSpec == Spec /\ \A t \in Threads : WF_vars(Worker(t))

-----------------------------------------------------------------------------
(* A statement runs on an open handle that its call has locked, though the *)
(* connection was looked up before the mutex was taken and closes run on   *)
(* other threads (execute_sync, "database is closed").                     *)
NoUseAfterClose ==
  \A t \in Threads : thread[t].at \in {"stmt", "rows", "commit"} =>
    handle[Conn(t)] = "open" /\ mu[Conn(t)] = thread[t].call

(* An open handle is one that dbs knows of or an open still works on: none *)
(* is lost, so closes and the destructor reach them all.  The code does not*)
(* claim it of an open that threw once its handle was open.                *)
NoHandleLeak ==
  \A c \in Conns : handle[c] = "open" =>
    \/ c \in map
    \/ \E t \in Threads : thread[t].at = "opened" /\ Conn(t) = c
    \/ \E k \in Calls : /\ call[k].op = "open" /\ call[k].conn = c
                        /\ call[k].state = "thrown"

(* The state is well typed, no open handle is lost and none is used once it*)
(* is closed.                                                              *)
HandleInvariant == TypeOK /\ NoUseAfterClose /\ NoHandleLeak

ClientsOwn(c) == tx[c] # NoCall /\ call[tx[c]].op = "begin"

(* A batch leaves no transaction of its own open, whichever of its         *)
(* statements fails: those that follow on the connection are not caught in *)
(* it.  Not so one that an exception ended: it is caught outside and       *)
(* answered as a failure, with the transaction open.                       *)
NoStrayTransaction ==
  \A c \in Conns : mu[c] = NoCall /\ tx[c] # NoCall =>
    ClientsOwn(c) \/ call[tx[c]].state = "thrown"

(* What a client began, only its own COMMIT or ROLLBACK or a close ends: a *)
(* batch that runs inside it, and fails there, neither rolls it back nor   *)
(* commits it, whichever thread runs what in between.                      *)
CallersTransactionKept ==
  [][\A c \in Conns : ClientsOwn(c) /\ tx'[c] # tx[c] =>
       \/ handle'[c] = "closed"
       \/ mu[c] # NoCall /\ call[mu[c]].op = "end" /\ call'[mu[c]].state = "ok"]_vars

(* Once a close is answered ok, a call on that dbId is answered with a     *)
(* failure, a second close included.                                       *)
CloseIsFinal == \A k \in Calls : call[k].late => call[k].state # "ok"

(* A call is answered once: no second thread runs its job, and nothing     *)
(* that comes after changes what its Promise was settled with.             *)
AnsweredOnce ==
  [][\A k \in Calls : call[k].state \in Answers => call'[k] = call[k]]_vars

(* Every call is answered, also when the engine is destroyed with jobs     *)
(* still queued: nobody's Promise is left pending.                         *)
EveryCallAnswered ==
  \A k \in Calls : call[k].state = "posted" ~> call[k].state \in Answers
=============================================================================
