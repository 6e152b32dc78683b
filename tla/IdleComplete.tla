---------------------------- MODULE IdleComplete ----------------------------
(***************************************************************************)
(* One idle-complete request, the fallback of httpFetch when no stream can *)
(* be started (and every request that is no sync stream): the body is      *)
(* collected and answered in one Callback.  A long-lived body never ends,  *)
(* so a quiet window ends it.                                              *)
(*                                                                         *)
(* Android reads in a loop on one thread.  On iOS the delegate calls and   *)
(* the idle timer put blocks on a serial queue, while the calling thread   *)
(* waits on a semaphore until a deadline and then goes through the queue   *)
(* itself.  The two share the request, the transfer and the answer.        *)
(***************************************************************************)
EXTENDS Naturals, Sequences, SequencesExt

CONSTANTS
  MaxBytes,   \* bound: bytes of the body the model counts
  MaxChunk,   \* bound: bytes of one read, or of one didReceiveData
  MaxQueue    \* bound: blocks the network may have waiting on the queue

ASSUME BoundsAssumption ==
  MaxBytes \in Nat /\ MaxChunk \in Nat \ {0} /\ MaxQueue \in Nat \ {0}

VARIABLES
  host,       \* "android" or "ios"
  syncStream, \* the URL is one of /sync/stream
  caller,     \* where the thread that runs the fetch is
  net,        \* the transfer: "none", "connecting", "body", "ended", "failed"
  chunked,    \* the response's headers look long-lived
  sent,       \* body bytes the HTTP stack has handed over
  trickle,    \* turns over when bytes past MaxBytes come in
  buffer,     \* body bytes collected
  queue,      \* iOS: blocks waiting on syncQueue
  arming,     \* iOS: didReceiveData has yet to call armIdleTimer
  timer,      \* iOS: idleTimer is set: "off", "armed", "due"
  signals,    \* iOS: value of the semaphore done
  by,         \* what finished the collection first ("none": not finished)
  result      \* the envelope of the Callback

transfer == <<net, chunked, sent, trickle>>
session  == <<queue, arming, timer, signals>>
vars == <<host, syncStream, caller, transfer, buffer, session, by, result>>

Block == [kind : {"data", "arm", "timer", "end", "error", "deadline", "collect"},
          bytes : 0 .. MaxChunk]
Put(k, n) == queue' = Append(queue, [kind |-> k, bytes |-> n])

None == [state |-> "none"]
Failed == [state |-> "failed"]
Envelope == [state : {"ok"}, status : BOOLEAN, body : 0 .. MaxBytes,
             idleComplete : BOOLEAN]
Answered == result # None

TypeOK ==
  /\ host \in {"android", "ios"}
  /\ caller \in {"start", "connect", "read", "wait", "expired", "sync", "again",
                 "collect", "done"}
  /\ net \in {"none", "connecting", "body", "ended", "failed"}
  /\ timer \in {"off", "armed", "due"}
  /\ {syncStream, chunked, trickle, arming} \subseteq BOOLEAN
  /\ sent \in 0 .. MaxBytes /\ buffer \in 0 .. sent /\ signals \in 0 .. 1
  /\ queue \in Seq(Block)
  /\ by \in {"none", "timer", "end", "error", "deadline"}
  /\ result \in {None, Failed} \cup Envelope

Init ==
  /\ host \in {"android", "ios"} /\ syncStream \in BOOLEAN
  /\ caller = "start" /\ net = "none"
  /\ chunked = FALSE /\ sent = 0 /\ trickle = FALSE /\ buffer = 0
  /\ queue = <<>> /\ arming = FALSE /\ timer = "off" /\ signals = 0
  /\ by = "none" /\ result = None

LongLived == syncStream \/ chunked

(* A request without a usable URL is answered before anything starts.      *)
BadRequest ==
  /\ caller = "start"
  /\ caller' = "done" /\ result' = Failed
  /\ UNCHANGED <<host, syncStream, transfer, buffer, session, by>>

Start ==
  /\ caller = "start"
  /\ caller' = IF host = "ios" THEN "wait" ELSE "connect"
  /\ net' = "connecting"
  /\ UNCHANGED <<host, syncStream, chunked, sent, trickle, buffer, session, by,
                 result>>

-----------------------------------------------------------------------------
(* Android: IdleCompleteHttp.fetch and readUntilIdleOrEof.                 *)
AndroidEnds(how, answer) ==
  /\ caller' = "done" /\ by' = how /\ result' = answer
  /\ UNCHANGED <<host, syncStream, chunked, sent, trickle, buffer, session>>

Body(status, n) == [state |-> "ok", status |-> status, body |-> n,
                    idleComplete |-> syncStream]

(* Connecting, writing the request or waiting for the status line throws.  *)
ConnectThrows ==
  /\ caller = "connect"
  /\ net' = "failed"
  /\ AndroidEnds("error", Failed)

GetResponse ==
  /\ caller = "connect"
  /\ caller' = "read" /\ net' = "body" /\ chunked' \in BOOLEAN
  /\ UNCHANGED <<host, syncStream, sent, trickle, buffer, session, by, result>>

(* An error response need not have a body.                                 *)
NoBody ==
  /\ caller = "connect"
  /\ net' = "ended"
  /\ AndroidEnds("end", Body(TRUE, 0))

(* n = 0 stands for bytes past the model's bound.                          *)
ReadBytes ==
  /\ caller = "read"
  /\ \E n \in 0 .. MaxChunk :
       /\ sent + n <= MaxBytes /\ (n = 0 => sent = MaxBytes)
       /\ sent' = sent + n /\ buffer' = buffer + n
       /\ trickle' = (trickle # (n = 0))
  /\ UNCHANGED <<host, syncStream, caller, net, chunked, session, by, result>>

(* SocketTimeoutException: the answer, but only of a body that may be left *)
(* open and only after some bytes.                                         *)
ReadQuiet ==
  /\ caller = "read"
  /\ UNCHANGED net
  /\ IF LongLived /\ buffer > 0
     THEN AndroidEnds("timer", Body(TRUE, buffer))
     ELSE AndroidEnds("error", Failed)

ReadThrows ==
  /\ caller = "read"
  /\ net' = "failed"
  /\ AndroidEnds("error", Failed)

ReadEof ==
  /\ caller = "read"
  /\ net' = "ended"
  /\ AndroidEnds("end", Body(TRUE, buffer))

AndroidConnect == ConnectThrows \/ GetResponse \/ NoBody
AndroidRead == ReadBytes \/ ReadQuiet \/ ReadThrows \/ ReadEof

-----------------------------------------------------------------------------
(* iOS: NSURLSession's delegate calls, in order, on its delegate queue.    *)
Transferring == host = "ios" /\ ~arming

DidReceiveResponse ==
  /\ Transferring /\ net = "connecting"
  /\ net' = "body" /\ chunked' \in BOOLEAN
  /\ IF syncStream \/ chunked' THEN Put("arm", 0) ELSE UNCHANGED queue
  /\ UNCHANGED <<host, syncStream, caller, sent, trickle, buffer, arming, timer,
                 signals, by, result>>

DidReceiveData ==
  /\ Transferring /\ net = "body" /\ Len(queue) < MaxQueue
  /\ \E n \in 0 .. MaxChunk :
       /\ sent + n <= MaxBytes /\ (n = 0 => sent = MaxBytes)
       /\ sent' = sent + n
       /\ Put("data", n)
  /\ arming' = LongLived
  /\ UNCHANGED <<host, syncStream, caller, net, chunked, trickle, buffer, timer,
                 signals, by, result>>

ArmIdleTimer ==
  /\ arming /\ arming' = FALSE
  /\ Put("arm", 0)
  /\ UNCHANGED <<host, syncStream, caller, transfer, buffer, timer, signals, by,
                 result>>

(* dispatch_source_cancel: the handler of the timer, of which one at most  *)
(* waits on the queue, does not run any more.                              *)
WithoutTimer(q) ==
  IF \E i \in DOMAIN q : q[i].kind = "timer"
  THEN RemoveAt(q, CHOOSE i \in DOMAIN q : q[i].kind = "timer")
  ELSE q

(* finishLockedWithError: only the first one counts; it stops the timer    *)
(* and wakes the caller.                                                   *)

(* Mutant: finished is not looked at.                                      *)
FinishLockedAgain(how, rest) ==
  /\ by' = how /\ timer' = "off" /\ signals' = signals + 1
  /\ queue' = WithoutTimer(rest)

FinishLocked(how, rest) ==
  IF by # "none"
  THEN queue' = rest /\ UNCHANGED <<by, timer, signals>>
  ELSE /\ by' = how /\ timer' = "off" /\ signals' = signals + 1
       /\ queue' = WithoutTimer(rest)

(* Mutant: the end is noted at once instead of behind the queued data.     *)
DidCompleteAtOnce ==
  /\ Transferring /\ net \in {"connecting", "body"}
  /\ \/ net = "body" /\ net' = "ended" /\ FinishLocked("end", queue)
     \/ net' = "failed" /\ FinishLocked("error", queue)
  /\ UNCHANGED <<host, syncStream, caller, chunked, sent, trickle, buffer,
                 arming, result>>

(* A transfer that never had a response can only fail; cancelling the task *)
(* after the answer is such a failure too.                                 *)
DidComplete ==
  /\ Transferring /\ net \in {"connecting", "body"}
  /\ \/ net = "body" /\ net' = "ended" /\ Put("end", 0)
     \/ net' = "failed" /\ Put("error", 0)
  /\ UNCHANGED <<host, syncStream, caller, chunked, sent, trickle, buffer,
                 arming, timer, signals, by, result>>

(* The idle window has passed: the timer's handler goes to the queue.      *)
TimerDue ==
  /\ timer = "armed" /\ timer' = "due"
  /\ Put("timer", 0)
  /\ UNCHANGED <<host, syncStream, caller, transfer, buffer, arming, signals, by,
                 result>>

-----------------------------------------------------------------------------
(* iOS: the blocks of the serial queue.                                    *)
Next1 == Head(queue).kind

(* Mutant: data that comes after the end are collected all the same.       *)
RunDataLate ==
  /\ buffer' = buffer + Head(queue).bytes
  /\ queue' = Tail(queue)
  /\ UNCHANGED <<caller, timer, signals, by, result>>

RunData ==
  /\ buffer' = IF by = "none" THEN buffer + Head(queue).bytes ELSE buffer
  /\ queue' = Tail(queue)
  /\ UNCHANGED <<caller, timer, signals, by, result>>

(* The timer is set anew; a handler of the old one that waits is cancelled.*)
RunArm ==
  /\ IF by = "none"
     THEN timer' = "armed" /\ queue' = WithoutTimer(Tail(queue))
     ELSE queue' = Tail(queue) /\ UNCHANGED timer
  /\ UNCHANGED <<caller, buffer, signals, by, result>>

RunFinish(how) ==
  /\ FinishLocked(how, Tail(queue))
  /\ caller' = IF how = "deadline" THEN "again" ELSE caller
  /\ UNCHANGED <<buffer, result>>

(* waitForResult's last dispatch_sync: an error is reported only when not a*)
(* byte was collected; otherwise what there is passes for the body.        *)
RunCollect ==
  /\ result' = IF by \in {"error", "deadline"} /\ buffer = 0 THEN Failed
               ELSE Body(net # "connecting", buffer)
  /\ caller' = "done" /\ queue' = Tail(queue)
  /\ UNCHANGED <<buffer, timer, signals, by>>

RunBlock ==
  /\ queue # <<>>
  /\ \/ Next1 = "data" /\ RunData
     \/ Next1 = "arm" /\ RunArm
     \/ Next1 \in {"timer", "end", "error", "deadline"} /\ RunFinish(Next1)
     \/ Next1 = "collect" /\ RunCollect
  /\ UNCHANGED <<host, syncStream, transfer, arming>>

-----------------------------------------------------------------------------
(* iOS: waitForResult on the calling thread.                               *)
CallerSteps == <<host, syncStream, transfer, buffer, arming, timer, by, result>>

(* Mutant: the caller goes on to wait a second time after it was woken.    *)
WokenAgain ==
  /\ caller = "wait" /\ signals = 1
  /\ signals' = 0 /\ caller' = "again"
  /\ UNCHANGED <<queue, CallerSteps>>

Woken ==
  /\ caller \in {"wait", "again"} /\ signals = 1
  /\ signals' = 0 /\ caller' = "collect"
  /\ Put("collect", 0)
  /\ UNCHANGED CallerSteps

Deadline ==
  /\ caller = "wait" /\ signals = 0
  /\ caller' = "expired"
  /\ UNCHANGED <<queue, signals, CallerSteps>>

ExpiredSync ==
  /\ caller = "expired"
  /\ caller' = "sync"
  /\ Put("deadline", 0)
  /\ UNCHANGED <<signals, CallerSteps>>

IosCaller == Woken \/ Deadline \/ ExpiredSync

-----------------------------------------------------------------------------
Network == DidReceiveResponse \/ DidReceiveData \/ ArmIdleTimer \/ DidComplete \/ TimerDue

Next ==
  \/ BadRequest \/ Start
  \/ AndroidConnect \/ AndroidRead
  \/ Network \/ RunBlock \/ IosCaller

Spec == Init /\ [][Next]_vars

(* Started threads run; the queue runs its blocks; connecting, and every   *)
(* read, returns or times out; the semaphore's wait has a deadline.        *)
Fairness ==
  /\ WF_vars(BadRequest \/ Start)
  /\ WF_vars(AndroidConnect) /\ WF_vars(AndroidRead)
  /\ WF_vars(RunBlock) /\ WF_vars(IosCaller)

FairSpec == Spec /\ Fairness

-----------------------------------------------------------------------------
(* An answer that is no failure carries the server's status - neither the  *)
(* timer nor the deadline ends a request well before its response is there *)
(* - and is the whole body of a transfer that ended, or has a reason to be *)
(* short: a long-lived body that fell quiet (on Android never before its   *)
(* first byte), or - on iOS - a transfer that broke or took too long after *)
(* its first byte.  A plain JSON body that merely pauses is never cut.     *)
(* This is what the two hosts have in common; where iOS falls short of what*)
(* is said of both, see AnswerAsDocumented.                                *)
CutOnlyWhenLongLived ==
  Answered /\ result # Failed =>
    /\ result.status
    /\ \/ by = "end" /\ result.body = sent
       \/ by = "timer" /\ LongLived /\ (host = "android" => result.body > 0)
       \/ host = "ios" /\ by \in {"error", "deadline"} /\ result.body > 0

(* What the docs say of both hosts.  A quiet window ends a body only after *)
(* bytes (docs/spec.md:191; "once any bytes have arrived",                 *)
(* shared/sync_http_policy.h:78), and a transfer that breaks is answered   *)
(* with a failure (docs/spec.md:193).  iOS keeps neither: the response arms*)
(* the timer, whose handler does not look at the buffer, and with a byte   *)
(* collected an error passes for the end.                                  *)
AnswerAsDocumented ==
  Answered /\ by \in {"timer", "error"} =>
    result = Failed \/ (by = "timer" /\ result.body > 0)

(* The state is well typed - the semaphore is signalled once - and no body *)
(* is cut without a reason.                                                *)
AnswerInvariant == TypeOK /\ CutOnlyWhenLongLived

(* Whatever the delegate, the timer and the deadline race for, the first   *)
(* one settles the body: nothing is added to it or taken from it while the *)
(* caller still has to be woken and to go through the queue.               *)
FirstFinishSettles ==
  [][by # "none" => by' = by /\ buffer' = buffer]_vars

(* Every request is answered: on iOS by the deadline if by nothing else; on*)
(* Android unless bytes keep coming in, for no deadline bounds a body.     *)
EveryRequestAnswered ==
  /\ host = "ios" => <>Answered
  /\ host = "android" => <>Answered \/ ([]<>trickle /\ []<>~trickle)
=============================================================================
