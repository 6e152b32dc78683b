----------------------------- MODULE IosStream -----------------------------
(***************************************************************************)
(* One streaming request of the iOS host: StreamingHttpSession, whose      *)
(* delegate methods and cancel all dispatch blocks to one serial queue,    *)
(* and NativeSyncHttp's abort, which runs on the thread that calls it.     *)
(* Nothing but the atomics of the session protects the two against each    *)
(* other, so on_end and abort are split at their atomic operations.        *)
(***************************************************************************)
EXTENDS SyncHttpSession, Sequences

CONSTANTS
  MaxBytes,   \* bound: bytes of the body the model counts
  MaxChunk,   \* bound: bytes of one didReceiveData
  MaxQueue    \* bound: blocks the network may have waiting on the queue

ASSUME BoundsAssumption ==
  MaxBytes \in Nat /\ MaxChunk \in Nat \ {0} /\ MaxQueue \in Nat \ {0}

VARIABLES
  active,    \* activeStreams holds the handle
  fetch,     \* where fetchStreaming is: "register", "start", "done"
  net,       \* what NSURLSession may report next
  sent,      \* body bytes NSURLSession has reported
  utf8,      \* what the server sends is valid UTF-8
  queue,     \* blocks waiting on syncQueue
  finished,  \* StreamingHttpSession.finished
  deciding,  \* on_end has claimed the terminal and not yet read aborted
  carry,     \* utf8Carry.length
  abort,     \* where the abort call is
  received,  \* history: body bytes the queue has taken in
  delivered, \* history: bytes handed to sendGlobalEvent
  tail,      \* history: bytes of an unfinished character given up at the end
  lost,      \* history: bytes of the slices NSString made no text of
  told,      \* history: the emissions so far, run through the monitor
  fate,      \* history: how the terminal was settled
  chunks,    \* history: number of counted onData events
  counted    \* history: the pending onData event carries counted bytes

bodyVars  == <<sent, utf8>>
netVars   == <<fetch, net, bodyVars>>
queueVars == <<finished, deciding, carry, received, tail, lost>>
history   == <<delivered, told, chunks>>
vars == <<session, effects, active, netVars, queue, queueVars, abort, history,
          fate, counted>>

Block == [kind : {"response", "data", "finish", "fail", "cancel"}, bytes : Nat]

TypeOK ==
  /\ headersSent \in BOOLEAN /\ terminal \in BOOLEAN /\ aborted \in BOOLEAN
  /\ effects \subseteq Effects
  /\ active \in BOOLEAN
  /\ fetch \in {"register", "start", "done"}
  /\ net \in {"none", "waiting", "held", "body", "complete"}
  /\ queue \in Seq(Block)
  /\ finished \in BOOLEAN /\ deciding \in BOOLEAN
  /\ abort \in {"idle", "store", "load", "cancel"}
  /\ utf8 \in BOOLEAN
  /\ \A n \in {sent, carry, received, delivered, tail, lost, chunks} : n \in Nat
  /\ told \in Told
  /\ fate \in {"unsettled", "refused", "clean", "broken"}
  /\ counted \in BOOLEAN

Init ==
  /\ SessionInit
  /\ active = FALSE /\ fetch = "register" /\ net = "none" /\ sent = 0
  /\ utf8 \in BOOLEAN
  /\ queue = <<>> /\ finished = FALSE /\ deciding = FALSE /\ carry = 0
  /\ abort = "idle"
  /\ received = 0 /\ delivered = 0 /\ tail = 0 /\ lost = 0 /\ chunks = 0
  /\ told = "pending" /\ fate = "unsettled" /\ counted = FALSE

-----------------------------------------------------------------------------
(* on_error: claim the terminal; its effects do not depend on aborted.     *)
OnError ==
  IF terminal
  THEN UNCHANGED <<session, effects, fate>>
  ELSE /\ terminal' = TRUE
       /\ effects' = TerminalEffects(TRUE)
       /\ fate' = FateOf(TRUE)
       /\ UNCHANGED <<headersSent, aborted>>

(* on_end, first half: the compare-exchange on terminal.                   *)
OnEndClaim ==
  /\ terminal' = TRUE
  /\ deciding' = ~terminal
  /\ UNCHANGED <<headersSent, aborted, effects, fate>>

-----------------------------------------------------------------------------
(* Mutant: start returns on a malformed URL without calling onError.       *)
StartInvalidUrlSilent ==
  /\ fetch = "start" /\ effects = {} /\ ~deciding
  /\ fetch' = "done"
  /\ UNCHANGED <<session, effects, active, net, bodyVars, queue, queueVars, abort,
                 history, fate, counted>>

(* fetchStreaming: register the handle, then start the I/O, which answers  *)
(* a malformed URL on the spot.                                            *)
Register ==
  /\ fetch = "register"
  /\ fetch' = "start"
  /\ active' = TRUE
  /\ UNCHANGED <<session, effects, net, bodyVars, queue, queueVars, abort, history,
                 fate, counted>>

Start ==
  /\ fetch = "start"
  /\ fetch' = "done"
  /\ net' = "waiting"
  /\ UNCHANGED <<session, effects, active, bodyVars, queue, queueVars, abort,
                 history, fate, counted>>

StartInvalidUrl ==
  /\ fetch = "start" /\ effects = {} /\ ~deciding
  /\ fetch' = "done"
  /\ OnError
  /\ UNCHANGED <<active, net, bodyVars, queue, queueVars, abort, history, counted>>

-----------------------------------------------------------------------------
(* The delegate methods, called in order on NSURLSession's own queue, only *)
(* enqueue.  The body waits for the completion handler of the response; a  *)
(* failure does not.                                                       *)
Dispatch(kind, bytes) == queue' = Append(queue, [kind |-> kind, bytes |-> bytes])

DidReceiveResponse ==
  /\ net = "waiting"
  /\ net' = "held"
  /\ Dispatch("response", 0)
  /\ UNCHANGED <<session, effects, active, fetch, bodyVars, queueVars, abort,
                 history, fate, counted>>

(* n = 0 stands for what the server sends after the bytes the model counts.*)
DidReceiveData ==
  /\ net = "body" /\ Len(queue) < MaxQueue
  /\ \E n \in 0..MaxChunk :
       /\ IF n = 0 THEN sent = MaxBytes ELSE sent + n <= MaxBytes
       /\ sent' = sent + n
       /\ Dispatch("data", n)
  /\ UNCHANGED <<session, effects, active, fetch, net, utf8, queueVars, abort,
                 history, fate, counted>>

DidComplete ==
  /\ \/ net = "body" /\ Dispatch("finish", 0)
     \/ net \in {"waiting", "held", "body"} /\ Dispatch("fail", 0)
  /\ net' = "complete"
  /\ UNCHANGED <<session, effects, active, fetch, bodyVars, queueVars, abort,
                 history, fate, counted>>

-----------------------------------------------------------------------------
(* The blocks, run one at a time on syncQueue.                             *)
Running(kind) ==
  /\ queue # <<>> /\ Head(queue).kind = kind
  /\ effects = {} /\ ~deciding
  /\ queue' = Tail(queue)

(* Any block but the response's finds the session finished and returns.    *)
RunStale ==
  /\ finished
  /\ \E k \in {"data", "finish", "fail", "cancel"} : Running(k)
  /\ UNCHANGED <<session, effects, active, netVars, queueVars, abort, history,
                 fate, counted>>

(* Cancelling the response makes NSURLSession complete the task.           *)
RunResponse ==
  /\ Running("response")
  /\ IF finished
     THEN /\ net' = IF net = "held" THEN "complete" ELSE net
          /\ UNCHANGED <<session, effects>>
     ELSE /\ effects' = HeadersEffects
          /\ headersSent' = (headersSent \/ HeadersEffects # {})
          /\ net' = IF net = "held" THEN "body" ELSE net
          /\ UNCHANGED <<terminal, aborted>>
  /\ UNCHANGED <<active, fetch, bodyVars, queueVars, abort, history, fate,
                 counted>>

(* n bytes are added to the carry and hold of them stay there.  The rest,  *)
(* if there is any, is the text of an onData, unless initWithData makes no *)
(* text of it, as only bytes that are no UTF-8 can make it do: then it is  *)
(* gone and nobody is told.                                                *)
TakeIn(n, hold, complete) ==
  /\ received' = received + n
  /\ counted' = (n > 0)
  /\ carry' = hold
  /\ \/ /\ effects' = IF complete THEN DataEffects ELSE {}
        /\ UNCHANGED lost
     \/ /\ complete /\ ~utf8
        /\ lost' = lost + (carry + n - hold)
        /\ UNCHANGED effects
  /\ UNCHANGED <<session, active, netVars, finished, deciding, tail, abort,
                 history, fate>>

(* Mutant: a chunk that ends inside a character is not delivered at all.   *)
RunDataWhole ==
  /\ ~finished /\ Running("data")
  /\ LET n == Head(queue).bytes IN
     \E hold \in 0..(carry + n) : TakeIn(n, hold, hold = 0)

(* hold of the bytes at hand do not complete a character.                  *)
RunData ==
  /\ ~finished /\ Running("data")
  /\ LET n == Head(queue).bytes IN
     \E hold \in 0..(carry + n) : TakeIn(n, hold, carry + n > hold \/ n = 0)

(* finishLockedWithError: the carry is no complete character, so           *)
(* initWithData gives nil for it and no onData is sent.                    *)
Finish ==
  /\ finished' = TRUE
  /\ tail' = carry
  /\ carry' = 0

RunFail ==
  /\ ~finished /\ Running("fail")
  /\ Finish
  /\ OnError
  /\ UNCHANGED <<active, netVars, deciding, received, lost, abort, history,
                 counted>>

RunFinish ==
  /\ ~finished /\ Running("finish")
  /\ Finish
  /\ OnEndClaim
  /\ UNCHANGED <<active, netVars, received, lost, abort, history, counted>>

(* Mutant: on_end that does not ask whether the session was aborted.       *)
OnEndDecideUnaborted ==
  /\ deciding
  /\ deciding' = FALSE
  /\ effects' = TerminalEffects(FALSE)
  /\ fate' = FateOf(FALSE)
  /\ UNCHANGED <<session, active, netVars, queue, finished, carry, received,
                 tail, lost, abort, history, counted>>

(* on_end, second half: the effects depend on whether an abort got in.     *)
OnEndDecide ==
  /\ deciding
  /\ deciding' = FALSE
  /\ effects' = TerminalEffects(aborted)
  /\ fate' = FateOf(aborted)
  /\ UNCHANGED <<session, active, netVars, queue, finished, carry, received,
                 tail, lost, abort, history, counted>>

(* Mutant: cancel leaves the terminal to a completion that is then stale.  *)
RunCancelSilent ==
  /\ ~finished /\ Running("cancel")
  /\ finished' = TRUE
  /\ net' = "complete"
  /\ UNCHANGED <<session, effects, fate, active, fetch, bodyVars, deciding, carry,
                 received, tail, lost, abort, history, counted>>

(* The block of StreamingHttpSession.cancel.                               *)
RunCancel ==
  /\ ~finished /\ Running("cancel")
  /\ finished' = TRUE
  /\ net' = "complete"
  /\ OnError
  /\ UNCHANGED <<active, fetch, bodyVars, deciding, carry, received, tail, lost,
                 abort, history, counted>>

(* applyEffects, one effect at a time.                                     *)
Emit ==
  \E e \in {"callback_headers", "callback_fail", "event_data",
            "event_error", "event_end"} :
    /\ IsNext(e)
    /\ effects' = effects \ {e}
    /\ told' = Advance(told, e)
    /\ IF e = "event_data"
       THEN /\ delivered' = received - carry - lost
            /\ chunks' = chunks + (IF counted THEN 1 ELSE 0)
       ELSE UNCHANGED <<delivered, chunks>>
    /\ UNCHANGED <<session, active, netVars, queue, queueVars, abort, fate,
                   counted>>

Drop ==
  /\ IsNext("drop")
  /\ effects' = effects \ {"drop"}
  /\ active' = FALSE
  /\ UNCHANGED <<session, netVars, queue, queueVars, abort, history, fate,
                 counted>>

-----------------------------------------------------------------------------
(* NativeSyncHttp abort:callback:.                                         *)
AbortStep(from, to) ==
  /\ abort = from
  /\ abort' = to
  /\ UNCHANGED <<effects, active, netVars, queueVars, history, fate, counted>>

AbortLookup ==
  /\ active
  /\ AbortStep("idle", "store")
  /\ UNCHANGED <<session, queue>>

AbortStore ==
  /\ AbortStep("store", "load")
  /\ aborted' = TRUE
  /\ UNCHANGED <<headersSent, terminal, queue>>

(* Mutant: an abort that comes before the headers cancels nothing.         *)
AbortLoadLate ==
  /\ AbortStep("load", IF terminal \/ ~headersSent THEN "idle" ELSE "cancel")
  /\ UNCHANGED <<session, queue>>

AbortLoad ==
  /\ AbortStep("load", IF terminal THEN "idle" ELSE "cancel")
  /\ UNCHANGED <<session, queue>>

AbortCancelIo ==
  /\ AbortStep("cancel", "idle")
  /\ IF \E i \in DOMAIN queue : queue[i].kind = "cancel"
     THEN UNCHANGED queue      \* a second cancel block would return at once
     ELSE Dispatch("cancel", 0)
  /\ UNCHANGED session

-----------------------------------------------------------------------------
Fetch    == Register \/ Start \/ StartInvalidUrl
Network  == DidReceiveResponse \/ DidReceiveData \/ DidComplete
RunQueue == RunStale \/ RunResponse \/ RunData \/ RunFail \/ RunFinish
              \/ OnEndDecide \/ RunCancel \/ Emit \/ Drop
AbortCall == AbortLookup \/ AbortStore \/ AbortLoad \/ AbortCancelIo

Finished ==
  /\ net \in {"none", "complete"} /\ queue = <<>> /\ effects = {}
  /\ ~deciding /\ ~active /\ abort = "idle"
  /\ UNCHANGED vars

Next == Fetch \/ Network \/ RunQueue \/ AbortCall \/ Finished

Spec == Init /\ [][Next]_vars

(* NSURLSession's request timeout: a request that gets no response fails.  *)
Answer == net = "waiting" /\ (DidReceiveResponse \/ DidComplete)

(* Dispatch queues run their blocks, the calling threads go on, and a      *)
(* request is answered or times out.  Nothing makes the body end: the      *)
(* server may talk, or keep silent for less than the timeout, forever.     *)
Fairness ==
  /\ WF_vars(Fetch)
  /\ WF_vars(Answer)
  /\ WF_vars(RunQueue)
  /\ WF_vars(AbortStore \/ AbortLoad \/ AbortCancelIo)

FairSpec == Spec /\ Fairness

-----------------------------------------------------------------------------
(* Once the I/O is finished, or the terminal claimed, and the effects are  *)
(* applied, activeStreams no longer holds the handle (applyEffects, DROP): *)
(* no way to finish, a cancel before the start included, leaves it behind. *)
NoLeakedHandle ==
  (finished \/ terminal) /\ ~deciding /\ effects = {} => ~active

(* A clean ending delivered every byte of a body that is valid UTF-8, but  *)
(* for those of a character the server never completed.  Of another body   *)
(* whole slices may be missing though it ended clean (didReceiveData sends *)
(* no onData for a slice that NSString refuses), and nothing else is.      *)
CompleteBody ==
  fate = "clean" /\ effects = {} =>
    /\ delivered + lost + tail = received
    /\ utf8 => lost = 0

(* The state is well typed, and a request that is over has left no handle  *)
(* in the table and, if it ended well, no byte of text undelivered.        *)
RequestInvariant == TypeOK /\ NoLeakedHandle /\ CompleteBody

(* Every request is answered, also one that is aborted before its headers  *)
(* or whose URL NSURL rejects: JavaScript's Promise settles.               *)
EveryFetchAnswered == <>(told # "pending")

(* An abort ends the stream although the server keeps talking: either the  *)
(* terminal is already claimed, or the cancel block reaches the queue.     *)
AbortStopsStream == [](aborted /\ active => <>~active)

(* The iOS host implements the stream contract.                            *)
Contract == INSTANCE StreamContract WITH
  Streams <- {"stream"},
  phase   <- [s \in {"stream"} |-> told],
  fate    <- [s \in {"stream"} |-> fate],
  aborted <- [s \in {"stream"} |-> aborted],
  chunks  <- [s \in {"stream"} |-> chunks]

ContractSpec == Contract!ContractSpec
=============================================================================
