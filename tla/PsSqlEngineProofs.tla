------------------------- MODULE PsSqlEngineProofs -------------------------
(***************************************************************************)
(* Theorems about PsSqlEngine, for all pools, calls and connections: no    *)
(* handle is used once it is closed and none is lost, a batch leaves no    *)
(* transaction of its own and keeps its caller's, a close is final.        *)
(***************************************************************************)
EXTENDS PsSqlEngine, TLAPS

Locked == {"stmt", "rows", "commit"}

(* What was posted: every call names a dbId; a dbId is made by one open,   *)
(* and the other calls know it from that open's answer.                    *)
CallsWellFormed ==
  /\ \A k \in Calls : IF call[k].state = "new" THEN call[k] = Unposted
                      ELSE call[k].op \in Ops \cup {"open"} /\ call[k].conn \in Conns
  /\ \A j, k \in Calls :
       call[j].op = "open" /\ call[k].op = "open" /\ call[j].conn = call[k].conn
         => j = k

Opened(c) == \E j \in Calls :
  call[j].op = "open" /\ call[j].conn = c /\ call[j].state = "ok"

DbIdsKnown ==
  /\ \A k \in Calls : call[k].op \in Ops => Opened(call[k].conn)
  /\ \A c \in map \cup closed : Opened(c)

(* A call is posted until it is answered, and has one place till then: one *)
(* slot of the queue or one thread.                                        *)
OnePlace ==
  /\ \A i \in 1..Len(jobs) : call[jobs[i]].state = "posted"
  /\ \A i, j \in 1..Len(jobs) : jobs[i] = jobs[j] => i = j
  /\ \A t \in Threads : thread[t].call # NoCall =>
       /\ call[thread[t].call].state = "posted"
       /\ \A i \in 1..Len(jobs) : jobs[i] # thread[t].call
  /\ \A t, u \in Threads :
       thread[t].call # NoCall /\ thread[t].call = thread[u].call => t = u

(* What a thread knows at each of its steps.                               *)
Stages ==
  \A t \in Threads :
    LET k == thread[t].call
        c == Conn(t)
    IN /\ thread[t].at = "opened" => call[k].op = "open"
       /\ thread[t].at = "lock" => call[k].op \in Ops /\ ~call[k].late
       /\ thread[t].at = "erase" =>
            call[k].op = "close" /\ ~call[k].late /\ handle[c] = "closed"
       /\ thread[t].at \in Locked =>
            /\ call[k].op \in Ops \cap Statements /\ ~call[k].late
            /\ handle[c] = "open" /\ mu[c] = k
       /\ thread[t].at \in {"rows", "commit"} => call[k].op = "batch" /\ tx[c] # NoCall
       /\ thread[t].at = "commit" => tx[c] = k

(* A mutex is held by a thread that runs on its connection; a transaction  *)
(* is a client's, that of a batch that runs, or one that an exception left.*)
Owners ==
  /\ \A c \in Conns : mu[c] # NoCall =>
       \E t \in Threads : thread[t].at \in Locked /\ thread[t].call = mu[c] /\ Conn(t) = c
  /\ \A c \in Conns : tx[c] # NoCall =>
       \/ call[tx[c]].op = "begin" \/ call[tx[c]].state = "thrown"
       \/ \E t \in Threads : /\ thread[t].at \in {"rows", "commit"}
                             /\ thread[t].call = tx[c] /\ Conn(t) = c

(* A closed dbId has no entry, and what was posted later knows it as such. *)
ClosedGone ==
  /\ closed \cap map = {}
  /\ \A k \in Calls : call[k].late =>
       call[k].conn \in closed /\ call[k].op \in Ops /\ call[k].state # "ok"

(* The two record types by name.                                           *)
ThreadRecord == [call : Calls \cup {NoCall},
  at : {"wait", "start", "opened", "lock", "stmt", "rows", "commit", "erase", "exited"}]
CallRecord == [op : Ops \cup {"none", "open"}, conn : Conns \cup {NoCall},
  state : {"new", "posted"} \cup Answers, late : BOOLEAN]

ThreadsWellTyped ==
  /\ thread \in [Threads -> ThreadRecord]
  /\ \A t \in Threads : thread[t].call = NoCall <=> thread[t].at \in {"wait", "exited"}

IInv ==
  /\ TypeOK /\ CallsWellFormed /\ DbIdsKnown /\ OnePlace /\ Stages /\ Owners
  /\ ClosedGone /\ NoHandleLeak

-----------------------------------------------------------------------------
(* The initial state satisfies the invariant.                              *)
LEMMA InitIInv == Init => IInv
<1> SUFFICES ASSUME Init PROVE IInv
  OBVIOUS
<1> USE EngineAssumption DEF Init, Free, Unposted
<1>1. TypeOK
  <2>1. Unposted \in CallRecord /\ Free \in ThreadRecord
    BY DEF CallRecord, ThreadRecord
  <2>2. call \in [Calls -> CallRecord] /\ thread \in [Threads -> ThreadRecord]
    BY <2>1
  <2>3. jobs \in Seq(Calls)
    OBVIOUS
  <2> QED
    BY <2>2, <2>3 DEF TypeOK, CallRecord, ThreadRecord
<1>2. CallsWellFormed /\ DbIdsKnown /\ ClosedGone
  BY DEF CallsWellFormed, DbIdsKnown, Opened, ClosedGone
<1>3. OnePlace /\ Stages /\ Owners /\ NoHandleLeak
  BY DEF OnePlace, Stages, Owners, NoHandleLeak, Locked
<1> QED
  BY <1>1, <1>2, <1>3 DEF IInv

(* A thread that is at work has a call of its own, posted and not queued.  *)
LEMMA AtWork ==
  ASSUME IInv, NEW t \in Threads, thread[t].at \notin {"wait", "exited"}
  PROVE  /\ thread[t].call \in Calls /\ thread[t].call # NoCall
         /\ call[thread[t].call].state = "posted"
         /\ call[thread[t].call].op \in Ops \cup {"open"}
         /\ Conn(t) \in Conns
         /\ \A u \in Threads : thread[u].call = thread[t].call => u = t
BY EngineAssumption DEF IInv, TypeOK, OnePlace, CallsWellFormed, Conn

(* A thread at these steps has a call; every call but an unposted one has a *)
(* connection.                                                             *)
LEMMA HasCall ==
  ASSUME IInv
  PROVE  /\ \A t \in Threads : thread[t].at \in Locked \cup {"opened", "lock", "erase"} =>
              thread[t].call \in Calls /\ thread[t].call # NoCall
         /\ \A k \in Calls : call[k].op \in Ops \cup {"open"} => call[k].conn \in Conns
BY EngineAssumption DEF IInv, TypeOK, CallsWellFormed, Unposted, Locked

(* Mutexes and transactions have their owners still after a step that moves*)
(* no thread holding a mutex, and forgets neither a BEGIN nor an exception.*)
LEMMA OwnersKept ==
  ASSUME IInv, UNCHANGED <<mu, tx>>,
         \A k \in Calls : /\ call[k].op = "begin" => call'[k].op = "begin"
                          /\ call[k].state = "thrown" => call'[k].state = "thrown",
         \A u \in Threads : thread[u].at \in Locked =>
           thread'[u] = thread[u] /\ Conn(u)' = Conn(u)
  PROVE  Owners'
<1>1. \A c \in Conns : mu'[c] # NoCall =>
        \E u \in Threads : thread'[u].at \in Locked /\ thread'[u].call = mu'[c] /\ Conn(u)' = c
  BY DEF IInv, Owners
<1>2. ASSUME NEW c \in Conns, tx[c] # NoCall
      PROVE  \/ call'[tx[c]].op = "begin" \/ call'[tx[c]].state = "thrown"
             \/ \E u \in Threads : /\ thread'[u].at \in {"rows", "commit"}
                                   /\ thread'[u].call = tx[c] /\ Conn(u)' = c
  <2>1. tx[c] \in Calls
    BY <1>2 DEF IInv, TypeOK
  <2>2. ASSUME NEW u \in Threads, thread[u].at \in {"rows", "commit"},
               thread[u].call = tx[c], Conn(u) = c
        PROVE  /\ thread'[u].at \in {"rows", "commit"}
               /\ thread'[u].call = tx[c] /\ Conn(u)' = c
    BY <2>2 DEF Locked
  <2>3. \/ call[tx[c]].op = "begin" \/ call[tx[c]].state = "thrown"
        \/ \E u \in Threads : /\ thread[u].at \in {"rows", "commit"}
                              /\ thread[u].call = tx[c] /\ Conn(u) = c
    BY <1>2 DEF IInv, Owners
  <2>4. CASE call[tx[c]].op = "begin" \/ call[tx[c]].state = "thrown"
    BY <2>1, <2>4
  <2>5. CASE \E u \in Threads : /\ thread[u].at \in {"rows", "commit"}
                                /\ thread[u].call = tx[c] /\ Conn(u) = c
    BY <2>2, <2>5
  <2> QED
    BY <2>3, <2>4, <2>5
<1> QED
  BY <1>1, <1>2 DEF Owners

(* No handle is lost by a step that forgets neither an entry, nor an open  *)
(* at work, nor one that threw, and opens none.                            *)
LEMMA NoLeakKept ==
  ASSUME IInv,
         \A c \in Conns : handle'[c] = "open" => handle[c] = "open" /\ (c \in map => c \in map'),
         \A k \in Calls : call[k].state = "thrown" => call'[k] = call[k],
         \A u \in Threads : thread[u].at = "opened" =>
           thread'[u] = thread[u] /\ Conn(u)' = Conn(u)
  PROVE  NoHandleLeak'
<1> SUFFICES ASSUME NEW c \in Conns, handle'[c] = "open"
             PROVE  \/ c \in map'
                    \/ \E t \in Threads : thread'[t].at = "opened" /\ Conn(t)' = c
                    \/ \E k \in Calls : /\ call'[k].op = "open" /\ call'[k].conn = c
                                        /\ call'[k].state = "thrown"
  BY DEF NoHandleLeak
<1>1. CASE c \in map
  BY <1>1
<1>2. CASE \E t \in Threads : thread[t].at = "opened" /\ Conn(t) = c
  BY <1>2
<1>3. CASE \E k \in Calls : call[k].op = "open" /\ call[k].conn = c /\ call[k].state = "thrown"
  BY <1>3
<1> QED
  BY <1>1, <1>2, <1>3 DEF IInv, NoHandleLeak

(* What answering a call does, to the thread, to the calls, and to where   *)
(* the calls are.                                                          *)
LEMMA AnswerEffect ==
  ASSUME IInv, NEW t \in Threads, thread[t].at \notin {"wait", "exited"},
         NEW how \in Answers, Answer(t, how), UNCHANGED jobs
  PROVE  /\ thread'[t] = Free
         /\ \A u \in Threads \ {t} : thread'[u] = thread[u]
         /\ \A k \in Calls : /\ call'[k].op = call[k].op
                             /\ call'[k].conn = call[k].conn
                             /\ call'[k].late = call[k].late
                             /\ k # thread[t].call => call'[k].state = call[k].state
         /\ call'[thread[t].call].state = how
         /\ \A k \in Calls : call[k].state = "thrown" => call'[k] = call[k]
         /\ \A c \in Conns : Opened(c) => Opened(c)'
         /\ ThreadsWellTyped'
         /\ call' \in [Calls -> CallRecord]
         /\ CallsWellFormed' /\ OnePlace'
         /\ \A u \in Threads \ {t} : thread[u].call # NoCall =>
              Conn(u)' = Conn(u) /\ call'[thread[u].call] = call[thread[u].call]
<1> DEFINE k0 == thread[t].call
<1>1. /\ k0 \in Calls /\ k0 # NoCall /\ call[k0].state = "posted"
      /\ \A u \in Threads : thread[u].call = k0 => u = t
  BY AtWork
<1>2. thread'[t] = Free /\ \A u \in Threads \ {t} : thread'[u] = thread[u]
  BY DEF Answer, IInv, TypeOK
<1>3. /\ \A k \in Calls : /\ call'[k].op = call[k].op
                          /\ call'[k].conn = call[k].conn
                          /\ call'[k].late = call[k].late
                          /\ k # k0 => call'[k] = call[k]
      /\ call'[k0].state = how
  BY <1>1 DEF Answer, IInv, TypeOK
<1>4. ThreadsWellTyped'
  BY DEF Answer, IInv, TypeOK, Free, ThreadsWellTyped, ThreadRecord
<1>5. call' \in [Calls -> CallRecord]
  <2>1. call \in [Calls -> CallRecord]
    BY DEF IInv, TypeOK, CallRecord
  <2>2. call[k0] \in CallRecord
    BY <1>1, <2>1
  <2>3. [call[k0] EXCEPT !.state = how] \in CallRecord
    BY <2>2 DEF CallRecord
  <2> QED
    BY <1>1, <2>1, <2>3 DEF Answer
<1>6. \A c \in Conns : Opened(c) => Opened(c)'
  BY <1>1, <1>3 DEF Opened
<1>7. CallsWellFormed'
  <2>1. \A k \in Calls : IF call'[k].state = "new" THEN call'[k] = Unposted
                      ELSE call'[k].op \in Ops \cup {"open"} /\ call'[k].conn \in Conns
    BY <1>1, <1>3 DEF IInv, CallsWellFormed, Answers
  <2> QED
    BY <1>3, <2>1 DEF IInv, CallsWellFormed
<1>8. OnePlace'
  <2>1. \A i \in 1..Len(jobs) : jobs[i] \in Calls /\ jobs[i] # k0
    BY <1>1 DEF IInv, TypeOK, OnePlace
  <2>2. \A i \in 1..Len(jobs) : call'[jobs[i]].state = "posted"
    BY <1>3, <2>1 DEF IInv, OnePlace
  <2>3. \A u \in Threads : thread'[u].call # NoCall =>
          thread[u].call \in Calls \ {k0} /\ thread'[u].call = thread[u].call
    BY <1>1, <1>2 DEF IInv, TypeOK, Free
  <2> QED
    BY <1>3, <2>2, <2>3 DEF IInv, OnePlace
<1>9. \A u \in Threads \ {t} : thread[u].call # NoCall =>
        Conn(u)' = Conn(u) /\ call'[thread[u].call] = call[thread[u].call]
  BY <1>1, <1>2, <1>3 DEF Conn, IInv, TypeOK
<1> QED
  BY <1>1, <1>2, <1>3, <1>4, <1>5, <1>6, <1>7, <1>8, <1>9

(* What going on to the next step does.                                    *)
LEMMA GoToEffect ==
  ASSUME IInv, NEW t \in Threads, thread[t].at \notin {"wait", "exited"},
         NEW at \in {"opened", "lock", "stmt", "rows", "commit", "erase"},
         GoTo(t, at), UNCHANGED <<call, jobs>>
  PROVE  /\ thread'[t] = [call |-> thread[t].call, at |-> at]
         /\ \A u \in Threads \ {t} : thread'[u] = thread[u]
         /\ \A u \in Threads : thread'[u].call = thread[u].call
         /\ ThreadsWellTyped'
         /\ CallsWellFormed' /\ OnePlace'
         /\ \A u \in Threads : Conn(u)' = Conn(u)
<1>1. thread'[t] = [call |-> thread[t].call, at |-> at]
  BY DEF GoTo, IInv, TypeOK
<1>2. \A u \in Threads \ {t} : thread'[u] = thread[u]
  BY DEF GoTo, IInv, TypeOK
<1>3. \A u \in Threads : thread'[u].call = thread[u].call
  BY <1>1, <1>2
<1>4. ThreadsWellTyped'
  BY <1>1, <1>2 DEF GoTo, IInv, TypeOK, ThreadsWellTyped, ThreadRecord
<1>5. CallsWellFormed'
  BY DEF IInv, CallsWellFormed
<1>6. OnePlace'
  BY <1>3 DEF IInv, OnePlace
<1>7. \A u \in Threads : Conn(u)' = Conn(u)
  BY <1>3 DEF Conn
<1> QED
  BY <1>1, <1>2, <1>3, <1>4, <1>5, <1>6, <1>7

-----------------------------------------------------------------------------
(* A posted call waits in the queue, and takes its thread from there.      *)
LEMMA QueueIInv ==
  ASSUME IInv,
         \/ \E k \in Calls, c \in Conns, op \in Ops \cup {"open"} : Post(k, op, c)
         \/ \E t \in Threads : Take(t) \/ Leave(t)
  PROVE  IInv'
<1> USE EngineAssumption DEF IInv
<1>1. ASSUME NEW k \in Calls, NEW c \in Conns, NEW op \in Ops \cup {"open"}, Post(k, op, c)
      PROVE IInv'
  <2> USE <1>1 DEF Post
  <2>1. /\ call'[k] = [op |-> op, conn |-> c, state |-> "posted", late |-> c \in closed]
        /\ \A j \in Calls \ {k} : call'[j] = call[j]
        /\ call[k].state = "new" /\ call[k].op = "none" /\ call[k].conn = NoCall
    BY DEF TypeOK, Unposted
  <2>2. \A i \in 1..Len(jobs) : jobs[i] \in Calls \ {k}
    BY <2>1 DEF TypeOK, OnePlace
  <2>3. /\ Len(jobs') = Len(jobs) + 1
        /\ \A i \in 1..Len(jobs) : jobs'[i] = jobs[i]
        /\ jobs'[Len(jobs) + 1] = k
        /\ jobs' \in Seq(Calls) /\ Len(jobs) \in Nat
    BY DEF TypeOK
  <2>4. \A u \in Threads : thread[u].call # NoCall =>
          /\ thread[u].call \in Calls \ {k}
          /\ Conn(u)' = Conn(u) /\ call'[thread[u].call] = call[thread[u].call]
    BY <2>1 DEF TypeOK, OnePlace, Conn
  <2>5. TypeOK'
    <3>1. call \in [Calls -> CallRecord]
      BY DEF TypeOK, CallRecord
    <3>2. call'[k] \in CallRecord
      BY <2>1 DEF CallRecord
    <3>3. call' \in [Calls -> CallRecord]
      BY <3>1, <3>2
    <3> QED
      BY <2>3, <3>3 DEF TypeOK, CallRecord
  <2>6. CallsWellFormed'
    <3>1. op = "open" => \A j \in Calls : call[j].conn # c
      OBVIOUS
    <3>2. \A j \in Calls : IF call'[j].state = "new" THEN call'[j] = Unposted
            ELSE call'[j].op \in Ops \cup {"open"} /\ call'[j].conn \in Conns
      BY <2>1 DEF CallsWellFormed
    <3> QED
      BY <2>1, <3>1, <3>2 DEF CallsWellFormed
  <2>7. DbIdsKnown'
    <3>1. \A d \in Conns : Opened(d) => Opened(d)'
      BY <2>1 DEF Opened
    <3>2. op # "open" => Opened(c)
      BY DEF Opened
    <3>3. "open" \notin Ops /\ "none" \notin Ops
      OBVIOUS
    <3>4. \A j \in Calls : call[j].op \in Ops => call[j].conn \in Conns
      BY <3>3 DEF CallsWellFormed, Unposted
    <3>5. map \cup closed \subseteq Conns
      BY DEF TypeOK
    <3> QED
      BY <2>1, <3>1, <3>2, <3>3, <3>4, <3>5 DEF DbIdsKnown
  <2>8. OnePlace'
    BY <2>1, <2>2, <2>3, <2>4 DEF OnePlace
  <2>9. Stages'
    BY <2>4 DEF Stages, Locked, TypeOK
  <2>10. Owners' /\ NoHandleLeak'
    <3>1. \A u \in Threads : thread[u].at \in Locked \cup {"opened"} => Conn(u)' = Conn(u)
      BY <2>4 DEF TypeOK, Locked
    <3>2. \A j \in Calls : call[j].state = "thrown" \/ call[j].op = "begin" => call'[j] = call[j]
      BY <2>1
    <3>3. Owners'
      BY <3>1, <3>2, OwnersKept
    <3>4. NoHandleLeak'
      BY <3>1, <3>2, NoLeakKept
    <3> QED
      BY <3>3, <3>4
  <2>11. ClosedGone'
    <3>1. c \in closed => op \in Ops
      BY DEF DbIdsKnown, Opened
    <3>2. call'[k].late = (c \in closed)
      BY <2>1
    <3>3. call'[k].conn = c /\ call'[k].op = op /\ call'[k].state # "ok"
      BY <2>1
    <3>4. \A j \in Calls \ {k} : call'[j] = call[j]
      BY <2>1
    <3>5. \A j \in Calls : call'[j].late =>
            call'[j].conn \in closed /\ call'[j].op \in Ops /\ call'[j].state # "ok"
      BY <3>1, <3>2, <3>3, <3>4 DEF ClosedGone
    <3> QED
      BY <3>5 DEF ClosedGone
  <2> QED
    BY <2>5, <2>6, <2>7, <2>8, <2>9, <2>10, <2>11
<1>2. ASSUME NEW t \in Threads, Take(t)
      PROVE IInv'
  <2> USE <1>2 DEF Take
  <2> DEFINE k == Head(jobs)
  <2>1. /\ k \in Calls /\ k = jobs[1] /\ Len(jobs) \in Nat \ {0}
        /\ jobs' \in Seq(Calls) /\ Len(jobs') = Len(jobs) - 1
        /\ \A i \in 1..Len(jobs') : jobs'[i] = jobs[i + 1] /\ i + 1 \in 2..Len(jobs)
    BY DEF TypeOK
  <2>2. /\ thread'[t] = [call |-> k, at |-> "start"]
        /\ \A u \in Threads \ {t} : thread'[u] = thread[u]
        /\ thread[t].call = NoCall
    BY DEF TypeOK
  <2>3. \A u \in Threads \ {t} : Conn(u)' = Conn(u)
    BY <2>2 DEF Conn
  <2>4. TypeOK'
    BY <2>1 DEF TypeOK
  <2>5. CallsWellFormed' /\ DbIdsKnown' /\ ClosedGone'
    BY DEF CallsWellFormed, DbIdsKnown, Opened, ClosedGone
  <2>6. OnePlace'
    <3>1. \A u \in Threads : thread[u].call # k
      BY <2>1 DEF OnePlace
    <3>2. \A i \in 1..Len(jobs') : jobs'[i] # k
      BY <2>1 DEF OnePlace
    <3> QED
      BY <2>1, <2>2, <3>1, <3>2 DEF OnePlace
  <2>7. Stages' /\ Owners' /\ NoHandleLeak'
    BY <2>2, <2>3 DEF Stages, Owners, NoHandleLeak, Locked
  <2> QED
    BY <2>4, <2>5, <2>6, <2>7
<1>3. ASSUME NEW t \in Threads, Leave(t)
      PROVE IInv'
  <2> USE <1>3 DEF Leave
  <2>1. /\ thread'[t].call = NoCall /\ thread'[t].at = "exited"
        /\ thread[t].call = NoCall
        /\ \A u \in Threads \ {t} : thread'[u] = thread[u]
    BY DEF TypeOK
  <2>2. \A u \in Threads : Conn(u)' = Conn(u)
    BY <2>1 DEF Conn
  <2>3. TypeOK'
    BY <2>1 DEF TypeOK
  <2>4. CallsWellFormed' /\ DbIdsKnown' /\ ClosedGone' /\ OnePlace'
    BY <2>1 DEF CallsWellFormed, DbIdsKnown, Opened, ClosedGone, OnePlace
  <2>5. Stages' /\ Owners' /\ NoHandleLeak'
    BY <2>1, <2>2 DEF Stages, Owners, NoHandleLeak, Locked
  <2> QED
    BY <2>3, <2>4, <2>5
<1> QED
  BY <1>1, <1>2, <1>3

-----------------------------------------------------------------------------
(* A job that is answered without a change to its connection.              *)
LEMMA AnswerIInv ==
  ASSUME IInv, NEW t \in Threads, thread[t].at \in {"start", "lock"}, Answer(t, "failed"),
         UNCHANGED <<jobs, stop, map, handle, mu, tx, closed>>
  PROVE  IInv'
<1>1. TypeOK' /\ CallsWellFormed' /\ OnePlace'
  <2>1. ThreadsWellTyped' /\ call' \in [Calls -> CallRecord] /\ CallsWellFormed' /\ OnePlace'
    BY AnswerEffect DEF Answers
  <2> QED
    BY <2>1 DEF IInv, TypeOK, ThreadsWellTyped, ThreadRecord, CallRecord
<1> DEFINE k0 == thread[t].call
<1>2. /\ thread'[t] = Free /\ k0 \in Calls /\ call'[k0].state = "failed"
      /\ \A u \in Threads \ {t} : thread'[u] = thread[u]
      /\ \A k \in Calls : /\ call'[k].op = call[k].op /\ call'[k].conn = call[k].conn
                          /\ call'[k].late = call[k].late
                          /\ k # k0 => call'[k].state = call[k].state
      /\ \A c \in Conns : Opened(c) => Opened(c)'
      /\ \A u \in Threads \ {t} : thread[u].call # NoCall =>
           Conn(u)' = Conn(u) /\ call'[thread[u].call] = call[thread[u].call]
      /\ \A k \in Calls : call[k].state = "thrown" => call'[k] = call[k]
  BY AnswerEffect, AtWork DEF Answers
<1>3. DbIdsKnown'
  BY <1>2, HasCall DEF IInv, TypeOK, DbIdsKnown
<1>4. Stages'
  BY <1>2 DEF IInv, TypeOK, Stages, Locked, Free
<1>5. Owners' /\ NoHandleLeak'
  <2>1. \A u \in Threads : thread[u].at \in Locked \cup {"opened"} =>
          thread'[u] = thread[u] /\ Conn(u)' = Conn(u)
    BY <1>2, HasCall DEF Locked
  <2>2. Owners'
    BY <1>2, <2>1, OwnersKept
  <2>3. NoHandleLeak'
    BY <1>2, <2>1, NoLeakKept
  <2> QED
    BY <2>2, <2>3
<1>6. ClosedGone'
  BY <1>2 DEF IInv, ClosedGone
<1> QED
  BY <1>1, <1>3, <1>4, <1>5, <1>6 DEF IInv

(* Opening a connection: its handle is open before dbs knows of it.        *)
LEMMA OpenIInv ==
  ASSUME IInv, NEW t \in Threads, OpenHandle(t) \/ OpenFinish(t)
  PROVE  IInv'
<1> DEFINE k0 == thread[t].call
           c0 == Conn(t)
<1>1. /\ thread[t].at \in {"start", "opened"} /\ k0 \in Calls /\ k0 # NoCall /\ c0 \in Conns
      /\ call[k0].op = "open" /\ call[k0].state = "posted"
      /\ \A u \in Threads : thread[u].call = k0 => u = t
  BY AtWork DEF OpenHandle, OpenFinish, Running
<1>2. ~Opened(c0) /\ c0 \notin map /\ c0 \notin closed
  BY <1>1 DEF IInv, CallsWellFormed, DbIdsKnown, Opened, Conn
<1>3. \A u \in Threads : thread[u].at \in Locked \cup {"erase"} => Conn(u) # c0
  BY <1>2 DEF IInv, Stages, DbIdsKnown, Locked, Conn, TypeOK
<1>4. CASE OpenHandle(t) /\ Answer(t, "failed") /\ UNCHANGED handle
  BY <1>1, <1>4, AnswerIInv DEF OpenHandle, Running
<1>5. CASE OpenHandle(t) /\ GoTo(t, "opened") /\ UNCHANGED call
           /\ handle' = [handle EXCEPT ![c0] = "open"]
  <2> USE <1>5 DEF OpenHandle
  <2>1. /\ thread'[t] = [call |-> k0, at |-> "opened"]
        /\ \A u \in Threads \ {t} : thread'[u] = thread[u]
        /\ \A u \in Threads : Conn(u)' = Conn(u)
        /\ ThreadsWellTyped' /\ CallsWellFormed' /\ OnePlace'
    BY <1>1, GoToEffect
  <2>2. handle'[c0] = "open" /\ \A c \in Conns \ {c0} : handle'[c] = handle[c]
    BY <1>1 DEF IInv, TypeOK
  <2>3. TypeOK'
    BY <2>1 DEF IInv, TypeOK, ThreadsWellTyped, ThreadRecord
  <2>4. DbIdsKnown' /\ ClosedGone'
    BY DEF IInv, DbIdsKnown, Opened, ClosedGone
  <2>5. Stages'
    BY <1>1, <1>3, <2>1, <2>2 DEF IInv, Stages, Locked
  <2>6. Owners'
    BY <1>1, <2>1 DEF IInv, Owners, Locked
  <2>7. NoHandleLeak'
    BY <1>1, <2>1, <2>2 DEF IInv, NoHandleLeak
  <2> QED
    BY <2>1, <2>3, <2>4, <2>5, <2>6, <2>7 DEF IInv
<1>6. ASSUME OpenFinish(t), NEW how \in Answers, Answer(t, how),
             handle' = IF how = "failed" THEN [handle EXCEPT ![c0] = "closed"] ELSE handle,
             map' = IF how = "ok" THEN map \cup {c0} ELSE map
      PROVE  IInv'
  <2> USE <1>6 DEF OpenFinish, Running
  <2>1. /\ thread'[t] = Free
        /\ \A u \in Threads \ {t} : thread'[u] = thread[u]
        /\ ThreadsWellTyped' /\ call' \in [Calls -> CallRecord] /\ CallsWellFormed' /\ OnePlace'
    BY <1>1, AnswerEffect
  <2>2. /\ \A k \in Calls : /\ call'[k].op = call[k].op /\ call'[k].conn = call[k].conn
                            /\ call'[k].late = call[k].late
                            /\ k # k0 => call'[k].state = call[k].state
        /\ call'[k0].state = how
        /\ \A c \in Conns : Opened(c) => Opened(c)'
        /\ \A u \in Threads \ {t} : thread[u].call # NoCall =>
             Conn(u)' = Conn(u) /\ call'[thread[u].call] = call[thread[u].call]
        /\ \A k \in Calls : call[k].state = "thrown" => call'[k] = call[k]
    BY <1>1, AnswerEffect
  <2>3. /\ handle' \in [Conns -> {"none", "open", "closed"}]
        /\ \A c \in Conns \ {c0} : handle'[c] = handle[c]
        /\ handle'[c0] = IF how = "failed" THEN "closed" ELSE handle[c0]
    BY <1>1 DEF IInv, TypeOK
  <2>4. TypeOK'
    BY <1>1, <2>1, <2>3 DEF IInv, TypeOK, ThreadsWellTyped, ThreadRecord, CallRecord
  <2>5. DbIdsKnown'
    <3>1. \A c \in Conns : how = "ok" /\ c = c0 => Opened(c)'
      BY <1>1, <2>2 DEF Opened, Conn
    <3>2. \A c \in map \cup closed : c \in Conns /\ Opened(c)
      BY DEF IInv, TypeOK, DbIdsKnown
    <3>3. \A c \in map' \cup closed' : c \in Conns /\ Opened(c)'
      BY <1>1, <2>2, <3>1, <3>2
    <3>4. \A k \in Calls : call[k].op \in Ops => call[k].conn \in Conns /\ Opened(call[k].conn)
      BY HasCall DEF IInv, DbIdsKnown
    <3>5. \A k \in Calls : call'[k].op \in Ops => Opened(call[k].conn)'
      <4> SUFFICES ASSUME NEW k \in Calls, call'[k].op \in Ops
                   PROVE  \E j \in Calls : /\ call'[j].op = "open" /\ call'[j].state = "ok"
                                           /\ call'[j].conn = call'[k].conn
        BY DEF Opened
      <4>1. Opened(call[k].conn)
        BY <2>2, <3>4
      <4> QED
        BY <1>1, <2>2, <4>1 DEF Opened
    <3> QED
      BY <3>3, <3>5, <2>2 DEF DbIdsKnown
  <2>6. ClosedGone'
    <3>1. ~call[k0].late
      BY <1>1, EngineAssumption DEF IInv, ClosedGone
    <3> QED
      BY <1>2, <2>2, <3>1 DEF IInv, ClosedGone
  <2>7. \A u \in Threads : thread'[u].at \in Locked \cup {"opened", "lock", "erase"} =>
          u # t /\ thread'[u] = thread[u] /\ Conn(u)' = Conn(u)
          /\ call'[thread[u].call] = call[thread[u].call]
    BY <2>1, <2>2, HasCall DEF Locked, Free
  <2>8. Stages'
    BY <1>3, <2>3, <2>7, HasCall DEF IInv, Stages, Locked
  <2>9. Owners'
    <3>1. \A u \in Threads : thread[u].at \in Locked =>
            thread'[u] = thread[u] /\ Conn(u)' = Conn(u)
      BY <2>1, <2>2, HasCall DEF Locked
    <3> QED
      BY <2>2, <3>1, OwnersKept
  <2>10. NoHandleLeak'
    <3> SUFFICES ASSUME NEW c \in Conns, handle'[c] = "open"
                 PROVE  \/ c \in map'
                        \/ \E u \in Threads : thread'[u].at = "opened" /\ Conn(u)' = c
                        \/ \E k \in Calls : /\ call'[k].op = "open" /\ call'[k].conn = c
                                            /\ call'[k].state = "thrown"
      BY DEF NoHandleLeak
    <3>1. CASE c = c0
      <4>1. call'[k0].op = "open" /\ call'[k0].conn = c0 /\ call'[k0].state = how
        BY <1>1, <2>2 DEF Conn
      <4> QED
        BY <1>1, <2>3, <3>1, <4>1 DEF Answers
    <3>2. CASE c # c0
      <4>1. handle[c] = "open" /\ (c \in map => c \in map')
        BY <2>3, <3>2
      <4>2. \A u \in Threads : thread[u].at = "opened" /\ Conn(u) = c =>
              thread'[u] = thread[u] /\ Conn(u)' = Conn(u)
        BY <2>1, <2>2, <3>2, HasCall
      <4> QED
        BY <2>2, <4>1, <4>2 DEF IInv, NoHandleLeak
    <3> QED
      BY <3>1, <3>2
  <2> QED
    BY <2>1, <2>4, <2>5, <2>6, <2>8, <2>9, <2>10 DEF IInv
<1> QED
  BY <1>4, <1>5, <1>6 DEF OpenHandle, OpenFinish, Answers

(* Looking a connection up, and finding it closed under its mutex, change  *)
(* only the thread or answer the call; taking the mutex of an open one     *)
(* makes the call its owner.                                               *)
LEMMA LockIInv ==
  ASSUME IInv, NEW t \in Threads, Lookup(t) \/ Lock(t)
  PROVE  IInv'
<1> DEFINE k0 == thread[t].call
           c0 == Conn(t)
<1>1. /\ thread[t].at \in {"start", "lock"} /\ k0 \in Calls /\ k0 # NoCall /\ c0 \in Conns
      /\ call[k0].op \in Ops
      /\ \A u \in Threads : thread[u].call = k0 => u = t
  BY AtWork, EngineAssumption DEF Lookup, Lock, Running, Statements
<1>2. CASE Answer(t, "failed") /\ UNCHANGED mu
  BY <1>1, <1>2, AnswerIInv DEF Lookup, Lock
<1>3. CASE Lookup(t) /\ c0 \in map /\ GoTo(t, "lock") /\ UNCHANGED call
  <2> USE <1>3 DEF Lookup
  <2>1. /\ thread'[t] = [call |-> k0, at |-> "lock"]
        /\ \A u \in Threads \ {t} : thread'[u] = thread[u]
        /\ \A u \in Threads : Conn(u)' = Conn(u)
        /\ ThreadsWellTyped' /\ CallsWellFormed' /\ OnePlace'
    BY <1>1, GoToEffect
  <2>2. TypeOK'
    BY <2>1 DEF IInv, TypeOK, ThreadsWellTyped, ThreadRecord
  <2>3. DbIdsKnown' /\ ClosedGone'
    BY DEF IInv, DbIdsKnown, Opened, ClosedGone
  <2>4. ~call[k0].late
    BY <1>1 DEF IInv, ClosedGone, Conn
  <2>5. Stages'
    BY <1>1, <2>1, <2>4 DEF IInv, Stages, Locked
  <2>6. Owners' /\ NoHandleLeak'
    BY <1>1, <2>1 DEF IInv, Owners, NoHandleLeak, Locked
  <2> QED
    BY <2>1, <2>2, <2>3, <2>5, <2>6 DEF IInv
<1>4. CASE /\ Lock(t) /\ handle[c0] = "open" /\ GoTo(t, "stmt") /\ UNCHANGED call
           /\ mu' = [mu EXCEPT ![c0] = k0]
  <2> USE <1>4 DEF Lock, Running
  <2>1. /\ thread'[t] = [call |-> k0, at |-> "stmt"]
        /\ \A u \in Threads \ {t} : thread'[u] = thread[u]
        /\ \A u \in Threads : Conn(u)' = Conn(u)
        /\ ThreadsWellTyped' /\ CallsWellFormed' /\ OnePlace'
    BY <1>1, GoToEffect
  <2>2. /\ mu'[c0] = k0 /\ \A c \in Conns \ {c0} : mu'[c] = mu[c]
        /\ mu' \in [Conns -> Calls \cup {NoCall}]
    BY <1>1 DEF IInv, TypeOK
  <2>3. TypeOK'
    BY <2>1, <2>2 DEF IInv, TypeOK, ThreadsWellTyped, ThreadRecord
  <2>4. DbIdsKnown' /\ ClosedGone'
    BY DEF IInv, DbIdsKnown, Opened, ClosedGone
  <2>5. Stages'
    <3>1. \A u \in Threads : thread[u].at \in Locked => Conn(u) # c0
      BY HasCall DEF IInv, Stages
    <3>2. \A u \in Threads : thread[u].at \in Locked => Conn(u) \in Conns
      BY AtWork DEF Locked
    <3> QED
      BY <1>1, <2>1, <2>2, <3>1, <3>2 DEF IInv, Stages, Locked
  <2>6. Owners'
    BY <1>1, <2>1, <2>2 DEF IInv, Owners, Locked
  <2>7. NoHandleLeak'
    BY <1>1, <2>1 DEF IInv, NoHandleLeak
  <2> QED
    BY <2>1, <2>3, <2>4, <2>5, <2>6, <2>7 DEF IInv
<1> QED
  BY <1>2, <1>3, <1>4 DEF Lookup, Lock

(* Closing the handle under the mutex, and then erasing the entry.         *)
LEMMA CloseIInv ==
  ASSUME IInv, NEW t \in Threads, CloseHandle(t) \/ Erase(t)
  PROVE  IInv'
<1> DEFINE k0 == thread[t].call
           c0 == Conn(t)
<1>1. /\ thread[t].at \in {"lock", "erase"} /\ k0 \in Calls /\ k0 # NoCall /\ c0 \in Conns
      /\ call[k0].op = "close" /\ "close" \in Ops /\ ~call[k0].late
      /\ \A u \in Threads : thread[u].call = k0 => u = t
  BY AtWork DEF CloseHandle, Erase, Running, IInv, Stages
<1>2. CASE CloseHandle(t)
  <2> USE <1>2 DEF CloseHandle, Running
  <2>1. /\ thread'[t] = [call |-> k0, at |-> "erase"]
        /\ \A u \in Threads \ {t} : thread'[u] = thread[u]
        /\ \A u \in Threads : Conn(u)' = Conn(u)
        /\ ThreadsWellTyped' /\ CallsWellFormed' /\ OnePlace'
    BY <1>1, GoToEffect
  <2>2. /\ handle'[c0] = "closed" /\ \A c \in Conns \ {c0} : handle'[c] = handle[c]
        /\ handle' \in [Conns -> {"none", "open", "closed"}]
        /\ tx'[c0] = NoCall /\ \A c \in Conns \ {c0} : tx'[c] = tx[c]
        /\ tx' \in [Conns -> Calls \cup {NoCall}]
    BY <1>1 DEF IInv, TypeOK
  <2>3. TypeOK'
    BY <2>1, <2>2 DEF IInv, TypeOK, ThreadsWellTyped, ThreadRecord
  <2>4. DbIdsKnown' /\ ClosedGone'
    BY DEF IInv, DbIdsKnown, Opened, ClosedGone
  <2>5. Stages'
    <3>1. \A u \in Threads : thread[u].at \in Locked => Conn(u) # c0
      BY HasCall DEF IInv, Stages
    <3>2. \A u \in Threads : thread[u].at \in Locked \cup {"erase"} => Conn(u) \in Conns
      BY AtWork DEF Locked
    <3> QED
      BY <1>1, <2>1, <2>2, <3>1, <3>2 DEF IInv, Stages, Locked
  <2>6. Owners'
    BY <1>1, <2>1, <2>2 DEF IInv, Owners, Locked
  <2>7. NoHandleLeak'
    BY <1>1, <2>1, <2>2 DEF IInv, NoHandleLeak
  <2> QED
    BY <2>1, <2>3, <2>4, <2>5, <2>6, <2>7 DEF IInv
<1>3. CASE Erase(t)
  <2> USE <1>3 DEF Erase, Running
  <2>1. /\ thread'[t] = Free
        /\ \A u \in Threads \ {t} : thread'[u] = thread[u]
        /\ ThreadsWellTyped' /\ call' \in [Calls -> CallRecord] /\ CallsWellFormed' /\ OnePlace'
    BY <1>1, AnswerEffect DEF Answers
  <2>2. /\ \A k \in Calls : /\ call'[k].op = call[k].op /\ call'[k].conn = call[k].conn
                            /\ call'[k].late = call[k].late
                            /\ k # k0 => call'[k].state = call[k].state
        /\ \A c \in Conns : Opened(c) => Opened(c)'
        /\ \A u \in Threads \ {t} : thread[u].call # NoCall =>
             Conn(u)' = Conn(u) /\ call'[thread[u].call] = call[thread[u].call]
        /\ \A k \in Calls : call[k].state = "thrown" => call'[k] = call[k]
    BY <1>1, AnswerEffect DEF Answers
  <2>3. TypeOK'
    BY <1>1, <2>1 DEF IInv, TypeOK, ThreadsWellTyped, ThreadRecord, CallRecord
  <2>4. DbIdsKnown'
    <3>1. Opened(c0)
      BY <1>1 DEF IInv, DbIdsKnown, Conn
    <3>2. \A c \in map' \cup closed' : c \in Conns /\ Opened(c)
      BY <1>1, <3>1 DEF IInv, TypeOK, DbIdsKnown
    <3>3. \A k \in Calls : call[k].op \in Ops => call[k].conn \in Conns /\ Opened(call[k].conn)
      BY HasCall DEF IInv, DbIdsKnown
    <3> QED
      BY <2>2, <3>2, <3>3 DEF DbIdsKnown
  <2>5. ClosedGone'
    BY <1>1, <2>2 DEF IInv, ClosedGone
  <2>6. \A u \in Threads : thread'[u].at \in Locked \cup {"opened", "lock", "erase"} =>
          u # t /\ thread'[u] = thread[u] /\ Conn(u)' = Conn(u)
          /\ call'[thread[u].call] = call[thread[u].call]
    BY <2>1, <2>2, HasCall DEF Locked, Free
  <2>7. \A u \in Threads : thread[u].at \in Locked \cup {"opened"} =>
          thread'[u] = thread[u] /\ Conn(u)' = Conn(u)
    BY <1>1, <2>1, <2>2, HasCall DEF Locked
  <2>8. Stages'
    BY <2>6, HasCall DEF IInv, Stages, Locked
  <2>9. Owners'
    BY <2>2, <2>7, OwnersKept
  <2>10. NoHandleLeak'
    <3>1. handle[c0] = "closed"
      BY <1>3 DEF IInv, Stages
    <3> QED
      BY <2>2, <2>7, <3>1, NoLeakKept
  <2> QED
    BY <2>1, <2>3, <2>4, <2>5, <2>8, <2>9, <2>10 DEF IInv
<1> QED
  BY <1>2, <1>3

(* A call that has the mutex is answered, and lets it go; the transaction  *)
(* is nobody's, the client's, or left by an exception.                     *)
LEMMA UnlockIInv ==
  ASSUME IInv, NEW t \in Threads, thread[t].at \in Locked, NEW how \in Answers,
         NEW owner \in Calls \cup {NoCall}, Unlock(t, how, owner),
         owner # NoCall => \/ call[owner].op = "begin" \/ call[owner].state = "thrown"
                           \/ owner = thread[t].call /\ how = "thrown"
  PROVE  IInv'
<1> DEFINE k0 == thread[t].call
           c0 == Conn(t)
<1>1. /\ k0 \in Calls /\ k0 # NoCall /\ c0 \in Conns /\ mu[c0] = k0
      /\ call[k0].op \in Ops /\ ~call[k0].late
      /\ \A u \in Threads : thread[u].call = k0 => u = t
  BY AtWork DEF Locked, IInv, Stages
<1> USE DEF Unlock
<1>2. /\ thread'[t] = Free
      /\ \A u \in Threads \ {t} : thread'[u] = thread[u]
      /\ ThreadsWellTyped' /\ call' \in [Calls -> CallRecord] /\ CallsWellFormed' /\ OnePlace'
  BY AnswerEffect DEF Locked
<1>3. /\ \A k \in Calls : /\ call'[k].op = call[k].op /\ call'[k].conn = call[k].conn
                          /\ call'[k].late = call[k].late
                          /\ k # k0 => call'[k].state = call[k].state
      /\ \A c \in Conns : Opened(c) => Opened(c)'
      /\ \A u \in Threads \ {t} : thread[u].call # NoCall =>
           Conn(u)' = Conn(u) /\ call'[thread[u].call] = call[thread[u].call]
      /\ call'[k0].state = how
      /\ \A k \in Calls : call[k].state = "thrown" => call'[k] = call[k]
  BY AnswerEffect DEF Locked
<1>4. /\ mu'[c0] = NoCall /\ \A c \in Conns \ {c0} : mu'[c] = mu[c]
      /\ mu' \in [Conns -> Calls \cup {NoCall}]
      /\ tx'[c0] = owner /\ \A c \in Conns \ {c0} : tx'[c] = tx[c]
      /\ tx' \in [Conns -> Calls \cup {NoCall}]
  BY <1>1 DEF IInv, TypeOK
<1>5. TypeOK'
  BY <1>2, <1>4 DEF IInv, TypeOK, ThreadsWellTyped, ThreadRecord, CallRecord
<1>6. DbIdsKnown'
  BY <1>3, HasCall DEF IInv, TypeOK, DbIdsKnown
<1>7. ClosedGone'
  BY <1>1, <1>3 DEF IInv, ClosedGone
<1>8. \A u \in Threads : thread'[u].at \in Locked \cup {"opened", "lock", "erase"} =>
        u # t /\ thread'[u] = thread[u] /\ Conn(u)' = Conn(u)
        /\ call'[thread[u].call] = call[thread[u].call]
  BY <1>2, <1>3, HasCall DEF Locked, Free
<1>9. \A u \in Threads : thread[u].at \in Locked \cup {"opened"} /\ u # t =>
        thread'[u] = thread[u] /\ Conn(u)' = Conn(u)
  BY <1>2, <1>3, HasCall DEF Locked
<1>10. \A u \in Threads : thread[u].at \in Locked /\ u # t =>
         Conn(u) \in Conns /\ Conn(u) # c0
  BY <1>1, AtWork DEF IInv, Stages, Locked
<1>11. Stages'
  BY <1>4, <1>8, <1>10, HasCall DEF IInv, Stages, Locked
<1>12. Owners'
  <2>1. \A c \in Conns : mu'[c] # NoCall => c # c0 /\ mu[c] = mu'[c]
    BY <1>4
  <2>2. \A c \in Conns : mu'[c] # NoCall =>
          \E u \in Threads : thread'[u].at \in Locked /\ thread'[u].call = mu'[c] /\ Conn(u)' = c
    BY <1>9, <2>1 DEF IInv, Owners, Locked
  <2>3. ASSUME NEW c \in Conns, tx'[c] # NoCall
        PROVE  \/ call'[tx'[c]].op = "begin" \/ call'[tx'[c]].state = "thrown"
               \/ \E u \in Threads : /\ thread'[u].at \in {"rows", "commit"}
                                     /\ thread'[u].call = tx'[c] /\ Conn(u)' = c
    <3>1. call[k0].state = "posted"
      BY AtWork DEF Locked
    <3>2. CASE c = c0
      BY <1>1, <1>3, <1>4, <2>3, <3>1, <3>2
    <3>3. CASE c # c0
      <4>1. tx'[c] = tx[c] /\ tx[c] \in Calls
        BY <1>4, <2>3, <3>3 DEF IInv, TypeOK
      <4>2. CASE call[tx[c]].op = "begin" \/ call[tx[c]].state = "thrown"
        BY <1>3, <3>1, <4>1, <4>2
      <4>3. ASSUME NEW u \in Threads, thread[u].at \in {"rows", "commit"},
                   thread[u].call = tx[c], Conn(u) = c
            PROVE  /\ thread'[u].at \in {"rows", "commit"}
                   /\ thread'[u].call = tx'[c] /\ Conn(u)' = c
        BY <1>9, <3>3, <4>1, <4>3 DEF Locked
      <4> QED
        BY <2>3, <4>1, <4>2, <4>3 DEF IInv, Owners
    <3> QED
      BY <3>2, <3>3
  <2> QED
    BY <2>2, <2>3 DEF Owners
<1>13. NoHandleLeak'
  BY <1>3, <1>9, NoLeakKept DEF Locked
<1> QED
  BY <1>2, <1>5, <1>6, <1>7, <1>11, <1>12, <1>13 DEF IInv

(* What a call with the mutex finds: no transaction, a client's, one that  *)
(* an exception left, or its own, but that only after its BEGIN.           *)
LEMMA TxFound ==
  ASSUME IInv, NEW t \in Threads, thread[t].at \in Locked
  PROVE  /\ tx[Conn(t)] \in Calls \cup {NoCall}
         /\ \/ tx[Conn(t)] = NoCall
            \/ call[tx[Conn(t)]].op = "begin" \/ call[tx[Conn(t)]].state = "thrown"
            \/ tx[Conn(t)] = thread[t].call /\ thread[t].at \in {"rows", "commit"}
<1>1. Conn(t) \in Conns /\ mu[Conn(t)] = thread[t].call
  BY AtWork DEF IInv, Stages, Locked
<1>2. \A u \in Threads : thread[u].at \in {"rows", "commit"} /\ Conn(u) = Conn(t) => u = t
  BY <1>1, AtWork DEF IInv, Stages, Locked
<1> QED
  BY <1>1, <1>2 DEF IInv, TypeOK, Owners

(* The statements of a call, and a batch with its BEGIN, rows and COMMIT.  *)
LEMMA StatementIInv ==
  ASSUME IInv, NEW t \in Threads,
         RunStatement(t) \/ BatchBegin(t) \/ BatchRows(t) \/ BatchCommit(t)
  PROVE  IInv'
<1> DEFINE k0 == thread[t].call
           c0 == Conn(t)
<1>1. /\ thread[t].at \in Locked /\ k0 \in Calls /\ k0 # NoCall /\ c0 \in Conns
      /\ mu[c0] = k0 /\ tx[c0] \in Calls \cup {NoCall}
      /\ \A u \in Threads : thread[u].call = k0 => u = t
  BY AtWork DEF RunStatement, BatchBegin, BatchRows, BatchCommit, Running, Locked,
    IInv, Stages, TypeOK
<1>2. ASSUME NEW how \in Answers, NEW owner \in Calls \cup {NoCall}, Unlock(t, how, owner),
             owner # NoCall => \/ call[owner].op = "begin" \/ call[owner].state = "thrown"
                               \/ owner = k0 /\ how = "thrown"
      PROVE  IInv'
  BY <1>1, <1>2, UnlockIInv
<1>3. ASSUME NEW at \in {"rows", "commit"}, NEW owner \in Calls,
             owner # tx[c0] \/ at = "commit" => owner = k0, call[k0].op = "batch",
             GoTo(t, at), tx' = [tx EXCEPT ![c0] = owner],
             UNCHANGED <<jobs, stop, map, handle, mu, call, closed>>
      PROVE  IInv'
  <2> USE <1>3
  <2>1. /\ thread'[t] = [call |-> k0, at |-> at]
        /\ \A u \in Threads \ {t} : thread'[u] = thread[u]
        /\ \A u \in Threads : Conn(u)' = Conn(u)
        /\ ThreadsWellTyped' /\ CallsWellFormed' /\ OnePlace'
    BY <1>1, GoToEffect DEF Locked
  <2>2. /\ tx'[c0] = owner /\ \A c \in Conns \ {c0} : tx'[c] = tx[c]
        /\ tx' \in [Conns -> Calls \cup {NoCall}]
    BY <1>1 DEF IInv, TypeOK
  <2>3. TypeOK'
    BY <2>1, <2>2 DEF IInv, TypeOK, ThreadsWellTyped, ThreadRecord
  <2>4. DbIdsKnown' /\ ClosedGone'
    BY DEF IInv, DbIdsKnown, Opened, ClosedGone
  <2>5. Stages'
    <3>1. \A u \in Threads \ {t} : thread[u].at \in Locked => Conn(u) \in Conns /\ Conn(u) # c0
      BY <1>1, AtWork DEF IInv, Stages, Locked
    <3>2. owner # NoCall
      BY EngineAssumption
    <3> QED
      BY <1>1, <2>1, <2>2, <3>1, <3>2 DEF IInv, Stages, Locked
  <2>6. Owners'
    <3>1. \A c \in Conns : mu'[c] # NoCall =>
            \E u \in Threads : thread'[u].at \in Locked /\ thread'[u].call = mu'[c] /\ Conn(u)' = c
      BY <1>1, <2>1 DEF IInv, Owners, Locked
    <3>2. CASE owner = tx[c0]
      <4>1. tx' = tx
        BY <1>1, <3>2 DEF IInv, TypeOK
      <4> QED
        BY <1>1, <2>1, <3>1, <4>1 DEF IInv, Owners
    <3>3. CASE owner = k0
      BY <1>1, <2>1, <2>2, <3>1, <3>3 DEF IInv, Owners
    <3> QED
      BY <3>2, <3>3
  <2>7. NoHandleLeak'
    BY <1>1, <2>1 DEF IInv, NoHandleLeak, Locked
  <2> QED
    BY <2>1, <2>3, <2>4, <2>5, <2>6, <2>7 DEF IInv
<1>4. CASE RunStatement(t)
  <2>1. thread[t].at = "stmt" /\ \E how \in Answers, owner \in {NoCall, tx[c0], k0} :
          Unlock(t, how, owner) /\ (owner = k0 => owner = tx[c0] \/ call[k0].op = "begin")
    BY <1>1, <1>4, EngineAssumption DEF RunStatement, Running, Answers
  <2>2. PICK how \in Answers, owner \in {NoCall, tx[c0], k0} :
          Unlock(t, how, owner) /\ (owner = k0 => owner = tx[c0] \/ call[k0].op = "begin")
    BY <2>1
  <2>3. owner # NoCall => call[owner].op = "begin" \/ call[owner].state = "thrown"
    BY <1>1, <2>1, <2>2, TxFound
  <2> QED
    BY <1>1, <1>2, <2>2, <2>3
<1>5. CASE BatchBegin(t)
  <2>1. CASE tx[c0] = NoCall /\ Unlock(t, "failed", NoCall)
    BY <1>2, <2>1 DEF Answers
  <2>2. CASE /\ GoTo(t, "rows")
             /\ tx' = [tx EXCEPT ![c0] = IF @ = NoCall THEN k0 ELSE @]
             /\ UNCHANGED <<jobs, stop, map, handle, mu, call, closed>>
    <3>1. tx' = [tx EXCEPT ![c0] = IF tx[c0] = NoCall THEN k0 ELSE tx[c0]]
      BY <1>1, <2>2 DEF IInv, TypeOK
    <3> QED
      BY <1>1, <1>3, <1>5, <2>2, <3>1 DEF BatchBegin, Running
  <2> QED
    BY <1>5, <2>1, <2>2 DEF BatchBegin
<1>6. CASE BatchRows(t)
  <2>1. tx[c0] = NoCall \/ tx[c0] = k0 \/ call[tx[c0]].op = "begin" \/ call[tx[c0]].state = "thrown"
    BY <1>1, TxFound
  <2>2. CASE Unlock(t, "failed", IF tx[c0] = k0 THEN NoCall ELSE tx[c0])
    BY <1>1, <1>2, <2>1, <2>2 DEF Answers
  <2>3. CASE Unlock(t, "thrown", tx[c0])
    BY <1>1, <1>2, <2>1, <2>3 DEF Answers
  <2>4. CASE tx[c0] # k0 /\ Unlock(t, "ok", tx[c0])
    BY <1>1, <1>2, <2>1, <2>4 DEF Answers
  <2>5. CASE /\ tx[c0] = k0 /\ GoTo(t, "commit")
             /\ UNCHANGED <<jobs, stop, map, handle, mu, tx, call, closed>>
    <3>1. tx' = [tx EXCEPT ![c0] = k0]
      BY <1>1, <2>5 DEF IInv, TypeOK
    <3> QED
      BY <1>1, <1>3, <1>6, <2>5, <3>1 DEF BatchRows, Running
  <2> QED
    BY <1>6, <2>2, <2>3, <2>4, <2>5 DEF BatchRows, started_tx
<1>7. CASE BatchCommit(t)
  <2>1. tx[c0] = k0
    BY <1>7 DEF BatchCommit, Running, IInv, Stages
  <2>2. CASE \E how \in {"ok", "failed"} : Unlock(t, how, NoCall)
    BY <1>2, <2>2 DEF Answers
  <2>3. CASE Unlock(t, "thrown", tx[c0])
    BY <1>1, <1>2, <2>1, <2>3 DEF Answers
  <2> QED
    BY <1>7, <2>2, <2>3 DEF BatchCommit
<1> QED
  BY <1>4, <1>5, <1>6, <1>7

(* The destructor: by then no thread is left that could use a handle.      *)
LEMMA DestructorIInv ==
  ASSUME IInv, Shutdown \/ CloseAll
  PROVE  IInv'
<1>1. UNCHANGED <<jobs, thread, mu, tx, call, closed>> /\ \A t \in Threads : Conn(t)' = Conn(t)
  BY DEF Shutdown, CloseAll, Conn
<1>2. TypeOK' /\ CallsWellFormed' /\ DbIdsKnown' /\ OnePlace' /\ Owners' /\ ClosedGone'
  <2>1. map' \subseteq map /\ handle' \in [Conns -> {"none", "open", "closed"}] /\ stop' = TRUE
    BY DEF Shutdown, CloseAll, IInv, TypeOK
  <2>2. TypeOK'
    BY <1>1, <2>1 DEF IInv, TypeOK
  <2>3. CallsWellFormed' /\ DbIdsKnown' /\ OnePlace'
    BY <1>1, <2>1 DEF IInv, CallsWellFormed, DbIdsKnown, Opened, OnePlace
  <2>4. Owners' /\ ClosedGone'
    BY <1>1, <2>1 DEF IInv, Owners, ClosedGone
  <2> QED
    BY <2>2, <2>3, <2>4
<1>3. CASE Shutdown
  BY <1>1, <1>2, <1>3 DEF Shutdown, IInv, Stages, NoHandleLeak
<1>4. CASE CloseAll
  BY <1>1, <1>2, <1>4 DEF CloseAll, IInv, TypeOK, Stages, NoHandleLeak, Locked
<1> QED
  BY <1>3, <1>4

(* A step that changes nothing.                                            *)
LEMMA StutterIInv ==
  ASSUME IInv, UNCHANGED vars
  PROVE  IInv'
BY DEF vars, IInv, TypeOK, CallsWellFormed, DbIdsKnown, Opened, OnePlace, Stages,
  Owners, ClosedGone, NoHandleLeak, Conn

(* The invariant holds in every reachable state, for any number of threads,*)
(* calls and connections.                                                  *)
THEOREM Inductive == Spec => []IInv
<1>1. Init => IInv
  BY InitIInv
<1>2. IInv /\ [Next]_vars => IInv'
  <2> SUFFICES ASSUME IInv, [Next]_vars PROVE IInv'
    OBVIOUS
  <2>1. CASE \E k \in Calls, c \in Conns, op \in Ops \cup {"open"} : Post(k, op, c)
    BY <2>1, QueueIInv
  <2>2. CASE \E t \in Threads : Worker(t)
    BY <2>2, QueueIInv, OpenIInv, LockIInv, CloseIInv, StatementIInv DEF Worker
  <2>3. CASE Shutdown \/ CloseAll
    BY <2>3, DestructorIInv
  <2>4. CASE Destroyed \/ UNCHANGED vars
    BY <2>4, StutterIInv DEF Destroyed
  <2> QED
    BY <2>1, <2>2, <2>3, <2>4 DEF Next
<1> QED
  BY <1>1, <1>2, PTL DEF Spec

-----------------------------------------------------------------------------
(* Every variable keeps its type, a statement runs only on an open handle  *)
(* that its call has locked, and no open handle is lost, whatever closes   *)
(* run on the other threads.                                               *)
THEOREM Handles == Spec => []HandleInvariant
<1>1. IInv => HandleInvariant
  BY DEF IInv, HandleInvariant, NoUseAfterClose, Stages, Locked
<1> QED
  BY <1>1, Inductive, PTL

(* Whichever statement of a batch fails, no transaction of its own outlives*)
(* the mutex, except one that an exception ended.                          *)
THEOREM NoStray == Spec => []NoStrayTransaction
<1>1. IInv => NoStrayTransaction
  <2> SUFFICES ASSUME IInv, NEW c \in Conns, mu[c] = NoCall, tx[c] # NoCall
               PROVE  ClientsOwn(c) \/ call[tx[c]].state = "thrown"
    BY DEF NoStrayTransaction
  <2>1. \A t \in Threads : thread[t].at \in {"rows", "commit"} => Conn(t) # c
    BY HasCall DEF IInv, Stages, Locked
  <2> QED
    BY <2>1 DEF IInv, Owners, ClientsOwn
<1> QED
  BY <1>1, Inductive, PTL

(* A client's transaction ends with a COMMIT or ROLLBACK that holds the    *)
(* connection's mutex, or with a close: a batch neither rolls it back nor  *)
(* commits it.                                                             *)
THEOREM CallersKept == Spec => CallersTransactionKept
<1> DEFINE Kept == \A c \in Conns : ClientsOwn(c) /\ tx'[c] # tx[c] =>
             \/ handle'[c] = "closed"
             \/ mu[c] # NoCall /\ call[mu[c]].op = "end" /\ call'[mu[c]].state = "ok"
<1>1. IInv /\ [Next]_vars => [Kept]_vars
  <2> SUFFICES ASSUME IInv, Next PROVE Kept
    OBVIOUS
  <2>1. CASE UNCHANGED tx
    BY <2>1
  <2>2. ASSUME NEW t \in Threads, CloseHandle(t)
        PROVE  Kept
    BY <2>2 DEF CloseHandle, IInv, TypeOK
  <2>3. ASSUME NEW t \in Threads, RunStatement(t) \/ BatchBegin(t) \/ BatchRows(t) \/ BatchCommit(t)
        PROVE  Kept
    <3> DEFINE k0 == thread[t].call
               c0 == Conn(t)
    <3>1. /\ thread[t].at \in Locked /\ k0 \in Calls /\ k0 # NoCall /\ c0 \in Conns
          /\ mu[c0] = k0 /\ (thread[t].at = "commit" => tx[c0] = k0)
          /\ thread[t].at \in {"rows", "commit"} => call[k0].op = "batch"
      BY <2>3, AtWork DEF RunStatement, BatchBegin, BatchRows, BatchCommit, Running, Locked,
        IInv, Stages
    <3> SUFFICES ASSUME ClientsOwn(c0), tx'[c0] # tx[c0]
                 PROVE  call[k0].op = "end" /\ call'[k0].state = "ok"
      <4>1. \A c \in Conns \ {c0} : tx'[c] = tx[c]
        BY <2>3, <3>1 DEF RunStatement, BatchBegin, BatchRows, BatchCommit, Unlock, IInv, TypeOK
      <4> QED
        BY <3>1, <4>1
    <3>2. \A how, owner : Unlock(t, how, owner) => tx'[c0] = owner /\ call'[k0].state = how
      BY <3>1 DEF Unlock, Answer, IInv, TypeOK
    <3>3. tx[c0] # NoCall /\ call[tx[c0]].op = "begin"
      BY DEF ClientsOwn
    <3>4. CASE RunStatement(t)
      BY <3>2, <3>3, <3>4 DEF RunStatement
    <3>5. CASE BatchBegin(t)
      BY <3>1, <3>3, <3>5 DEF BatchBegin, IInv, TypeOK
    <3>6. CASE BatchRows(t)
      BY <3>1, <3>2, <3>3, <3>6 DEF BatchRows, started_tx, Running
    <3>7. CASE BatchCommit(t)
      BY <3>1, <3>3, <3>7 DEF BatchCommit, Running
    <3> QED
      BY <2>3, <3>4, <3>5, <3>6, <3>7
  <2> QED
    BY <2>1, <2>2, <2>3 DEF Next, Worker, Post, Take, Leave, OpenHandle, OpenFinish, Lookup,
      Erase, Lock, Shutdown, CloseAll, Destroyed, vars
<1> QED
  BY <1>1, Inductive, PTL DEF Spec, CallersTransactionKept

(* A close that was answered ok is final: no later call on that dbId       *)
(* succeeds, on whichever thread it runs.                                  *)
THEOREM CloseFinal == Spec => []CloseIsFinal
<1>1. IInv => CloseIsFinal
  BY DEF IInv, ClosedGone, CloseIsFinal
<1> QED
  BY <1>1, Inductive, PTL

(* A call that is answered stays as it was answered: the thread that answers*)
(* a call is the only one that has it, and the queue no longer does.       *)
THEOREM AnswersStand == Spec => AnsweredOnce
<1> DEFINE Stands == \A k \in Calls : call[k].state \in Answers => call'[k] = call[k]
<1>1. IInv /\ [Next]_vars => [Stands]_vars
  <2> SUFFICES ASSUME IInv, Next PROVE Stands
    OBVIOUS
  <2>1. CASE UNCHANGED call
    BY <2>1
  <2>2. ASSUME NEW k \in Calls, NEW c \in Conns, NEW op \in Ops \cup {"open"}, Post(k, op, c)
        PROVE  Stands
    BY <2>2 DEF Post, Unposted, Answers, IInv, TypeOK
  <2>3. ASSUME NEW t \in Threads, thread[t].at \notin {"wait", "exited"},
               NEW how \in Answers, Answer(t, how)
        PROVE  Stands
    BY <2>3, AtWork DEF Answer, Answers, IInv, TypeOK
  <2>4. ASSUME NEW t \in Threads, Worker(t)
        PROVE  \/ UNCHANGED call
               \/ thread[t].at \notin {"wait", "exited"} /\ \E how \in Answers : Answer(t, how)
    BY <2>4 DEF Worker, Take, Leave, OpenHandle, OpenFinish, Lookup, CloseHandle, Erase,
      Lock, RunStatement, BatchBegin, BatchRows, BatchCommit, Unlock, Running, Answers
  <2> QED
    BY <2>1, <2>2, <2>3, <2>4 DEF Next, Shutdown, CloseAll, Destroyed, vars
<1> QED
  BY <1>1, Inductive, PTL DEF Spec, AnsweredOnce
=============================================================================
