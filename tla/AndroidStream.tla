--------------------------- MODULE AndroidStream ---------------------------
(***************************************************************************)
(* One streaming request of the Android host: the executor thread that     *)
(* runs NativeSyncHttp.fetchStreaming and StreamingHttp.stream, and the    *)
(* module thread that runs NativeSyncHttp.abort, on one StreamHandle.      *)
(* SyncHttpSession's methods are synchronized, so each is one step; the    *)
(* effects they return are applied after the monitor is released, one step *)
(* each, and that is where the two threads interleave.                     *)
(***************************************************************************)
EXTENDS SyncHttpSession

CONSTANTS
  MaxBytes,  \* bound: bytes of the body the model counts
  MaxRead    \* bound: bytes one in.read() returns

ASSUME BoundsAssumption == MaxBytes \in Nat /\ MaxRead \in Nat \ {0}

VARIABLES
  closed,     \* SyncHttpSession.nativeHandle == 0
  active,     \* activeStreams holds the handle
  cancelled,  \* handle.cancelled
  io,         \* where the executor thread is
  abort,      \* where the abort call on the module thread is
  received,   \* body bytes read from the socket
  carry,      \* bytes held back because they do not complete a character
  delivered,  \* bytes handed to sendGlobalEvent in onData events
  told,       \* history: the emissions so far, run through the monitor
  fate,       \* history: how the terminal was settled
  chunks,     \* history: number of counted onData events
  counted,    \* history: the pending onData event carries counted bytes
  eof         \* history: the body was read to its end

ioVars    == <<active, closed, io, received, carry, delivered>>
abortVars == <<abort, cancelled>>
history   == <<told, fate, chunks, counted, eof>>
vars      == <<session, effects, ioVars, abortVars, history>>

IoSteps == {"queued", "connect", "write", "check", "response", "headers",
            "body", "loop", "read", "eof", "end", "done"}

TypeOK ==
  /\ headersSent \in BOOLEAN /\ terminal \in BOOLEAN /\ aborted \in BOOLEAN
  /\ effects \subseteq Effects
  /\ closed \in BOOLEAN /\ active \in BOOLEAN /\ cancelled \in BOOLEAN
  /\ io \in IoSteps
  /\ abort \in {"idle", "session", "cancel"}
  /\ received \in Nat /\ carry \in Nat /\ delivered \in Nat /\ chunks \in Nat
  /\ told \in Told
  /\ fate \in {"unsettled", "refused", "clean", "broken"}
  /\ counted \in BOOLEAN /\ eof \in BOOLEAN

Init ==
  /\ SessionInit
  /\ closed = FALSE /\ active = FALSE /\ cancelled = FALSE
  /\ io = "queued" /\ abort = "idle"
  /\ received = 0 /\ carry = 0 /\ delivered = 0
  /\ told = "pending" /\ fate = "unsettled" /\ chunks = 0 /\ counted = FALSE
  /\ eof = FALSE

-----------------------------------------------------------------------------
(* The synchronized session calls of the executor thread.                  *)
At(step) == io = step /\ effects = {}

(* listener.onError / listener.onEnd; a Throwable out of stream() ends in  *)
(* fetchStreaming's catch, which is session.onError() as well.             *)
Terminate(failed) ==
  /\ io' = "done"
  /\ IF terminal \/ closed
     THEN UNCHANGED <<session, effects, fate>>
     ELSE /\ terminal' = TRUE
          /\ effects' = TerminalEffects(failed)
          /\ fate' = FateOf(failed)
          /\ UNCHANGED <<headersSent, aborted>>

(* Mutant: on_end that does not ask whether the session was aborted.       *)
OnEndUnaborted == Terminate(FALSE)

OnError == Terminate(TRUE)
OnEnd   == Terminate(aborted)

-----------------------------------------------------------------------------
(* fetchStreaming registers the handle before the I/O starts.              *)
Register ==
  /\ At("queued")
  /\ active' = TRUE
  /\ io' = "connect"
  /\ UNCHANGED <<session, effects, closed, received, carry, delivered,
                 abortVars, history>>

(* Opening the connection and writing the body: each may throw.            *)
Proceed(from, to) ==
  /\ At(from)
  /\ io' = to
  /\ UNCHANGED <<session, effects, closed, active, received, carry, delivered,
                 abortVars, history>>

Fail(from) ==
  /\ At(from)
  /\ OnError
  /\ UNCHANGED <<closed, active, received, carry, delivered, abortVars,
                 told, chunks, counted, eof>>

Connect      == Proceed("connect", "write")
WriteBody    == Proceed("write", "check")
GetResponse  == Proceed("response", "headers")
OpenBody     == Proceed("body", "loop")
IoException  == \E s \in {"connect", "write", "response", "body", "read"} : Fail(s)

(* Mutant: the read loop does not look at the flag.                        *)
CheckCancelledOnce ==
  \/ cancelled /\ Fail("check")
  \/ ~cancelled /\ Proceed("check", "response")
  \/ Proceed("loop", "read")

(* The cancelled flag is looked at once before the response, and before    *)
(* every read.                                                             *)
CheckCancelled ==
  \/ cancelled /\ (Fail("check") \/ Fail("loop"))
  \/ ~cancelled /\ (Proceed("check", "response") \/ Proceed("loop", "read"))

(* listener.onHeaders.                                                     *)
OnHeaders ==
  /\ At("headers")
  /\ io' = "body"
  /\ effects' = HeadersEffects
  /\ headersSent' = (headersSent \/ HeadersEffects # {})
  /\ UNCHANGED <<terminal, aborted, closed, active, received, carry, delivered,
                 abortVars, history>>

(* No body stream, or a read that timed out: the clean ending.             *)
EndAt(step) ==
  /\ At(step)
  /\ OnEnd
  /\ UNCHANGED <<closed, active, received, carry, delivered, abortVars,
                 told, chunks, counted, eof>>

NoBody      == EndAt("body")
ReadTimeout == EndAt("read")

(* in.read() returned n bytes; hold of carry + n do not end a character.   *)
ReadBytes(n, hold) ==
  /\ At("read")
  /\ io' = "loop"
  /\ hold <= carry + n
  /\ received' = received + n
  /\ carry' = hold
  /\ effects' = IF carry + n > hold THEN DataEffects ELSE {}
  /\ counted' = TRUE
  /\ UNCHANGED <<session, closed, active, delivered, abortVars,
                 told, fate, chunks, eof>>

Read ==
  \E n \in 1..MaxRead, hold \in 0..MaxBytes :
    received + n <= MaxBytes /\ ReadBytes(n, hold)

(* The server goes on talking after the bytes the model counts: whole      *)
(* keepalive lines, for as long as it likes.                               *)
ReadKeepalive ==
  /\ At("read") /\ received = MaxBytes /\ carry = 0
  /\ io' = "loop"
  /\ effects' = DataEffects
  /\ counted' = FALSE
  /\ UNCHANGED <<session, closed, active, received, carry, delivered,
                 abortVars, told, fate, chunks, eof>>

(* in.read() returned -1: aborted if cancelled, else flush the carry.      *)
ReadEof ==
  /\ At("read")
  /\ io' = "eof"
  /\ eof' = TRUE
  /\ UNCHANGED <<session, effects, closed, active, received, carry, delivered,
                 abortVars, told, fate, chunks, counted>>

EofCancelled == cancelled /\ Fail("eof")

(* Mutant: the bytes held back are forgotten at the end of the body.       *)
EofFlushNothing ==
  /\ At("eof") /\ ~cancelled
  /\ io' = "end"
  /\ carry' = 0
  /\ UNCHANGED <<session, effects, closed, active, received, delivered,
                 abortVars, history>>

EofFlush ==
  /\ At("eof") /\ ~cancelled
  /\ io' = "end"
  /\ effects' = IF carry > 0 THEN DataEffects ELSE {}
  /\ carry' = 0
  /\ counted' = TRUE
  /\ UNCHANGED <<session, closed, active, received, delivered, abortVars,
                 told, fate, chunks, eof>>

EofEnd == EndAt("end")

-----------------------------------------------------------------------------
(* NativeSyncHttp.apply on the executor thread, one effect at a time.      *)
Emit ==
  \E e \in {"callback_headers", "callback_fail", "event_data",
            "event_error", "event_end"} :
    /\ IsNext(e)
    /\ effects' = effects \ {e}
    /\ told' = Advance(told, e)
    /\ IF e = "event_data" /\ counted
       THEN delivered' = received - carry /\ chunks' = chunks + 1
       ELSE UNCHANGED <<delivered, chunks>>
    /\ UNCHANGED <<session, closed, active, io, received, carry, abortVars,
                   fate, counted, eof>>

(* DROP: out of activeStreams, then session.close().                       *)
Drop ==
  /\ IsNext("drop")
  /\ effects' = (effects \ {"drop"}) \cup {"close"}
  /\ active' = FALSE
  /\ UNCHANGED <<session, closed, io, received, carry, delivered, abortVars,
                 history>>

Close ==
  /\ IsNext("close")
  /\ effects' = {}
  /\ closed' = TRUE
  /\ UNCHANGED <<session, active, io, received, carry, delivered, abortVars,
                 history>>

-----------------------------------------------------------------------------
(* NativeSyncHttp.abort: look the handle up, mark the session, then apply  *)
(* CANCEL_IO.  The disconnect that follows cancelled.set(true) only makes  *)
(* the blocked call of the other thread return sooner.                     *)
AbortLookup ==
  /\ abort = "idle" /\ active
  /\ abort' = "session"
  /\ UNCHANGED <<session, effects, ioVars, cancelled, history>>

AbortSession ==
  /\ abort = "session"
  /\ aborted' = (aborted \/ ~closed)
  /\ abort' = IF closed \/ terminal THEN "idle" ELSE "cancel"
  /\ UNCHANGED <<headersSent, terminal, effects, ioVars, cancelled, history>>

AbortCancelIo ==
  /\ abort = "cancel"
  /\ cancelled' = TRUE
  /\ abort' = "idle"
  /\ UNCHANGED <<session, effects, ioVars, history>>

-----------------------------------------------------------------------------
StreamingIo ==
  \/ Register \/ Connect \/ WriteBody \/ CheckCancelled \/ GetResponse
  \/ OnHeaders \/ OpenBody \/ NoBody \/ Read \/ ReadKeepalive \/ ReadTimeout
  \/ ReadEof \/ EofCancelled \/ EofFlush \/ EofEnd \/ IoException
  \/ Emit \/ Drop \/ Close

AbortCall == AbortLookup \/ AbortSession \/ AbortCancelIo

(* The request is over; nothing is left to do.                             *)
Finished ==
  /\ io = "done" /\ effects = {} /\ abort = "idle" /\ ~active
  /\ UNCHANGED vars

Next == StreamingIo \/ AbortCall \/ Finished

Spec == Init /\ [][Next]_vars

(* The executor is a cached thread pool, so the request gets a thread, and *)
(* every blocking call of that thread has a timeout; an abort call that    *)
(* has begun runs to its end.  No abort has to be made, and the server may *)
(* talk forever.                                                           *)
Fairness == WF_vars(StreamingIo) /\ WF_vars(AbortSession \/ AbortCancelIo)

FairSpec == Spec /\ Fairness

-----------------------------------------------------------------------------
(* What the JavaScript side sees is always a beginning of one of           *)
(*   fail                       headers onData* onError? onEnd             *)
(* (shared/sync_http_session.h): the Callback fires once, events follow    *)
(* headers, nothing follows onEnd, whatever the abort call does in between.*)
StreamGrammar == told # "garbled"

(* When the executor thread is through with a request, activeStreams no    *)
(* longer holds its handle and the native session is freed (apply, DROP):  *)
(* no error path and no abort leaves a stream behind.                      *)
NoLeakedHandle == io = "done" /\ effects = {} => ~active /\ closed

(* A body read to its end that ends cleanly was delivered to its last byte,*)
(* the bytes held back for an incomplete character included.               *)
CompleteBody ==
  eof /\ fate = "clean" /\ effects = {} => delivered = received

(* The state is well typed, and a request that is over has left no handle  *)
(* and no session and, if it ended well, no byte undelivered.              *)
RequestInvariant == TypeOK /\ NoLeakedHandle /\ CompleteBody

(* Every request is answered, also one that is aborted before its headers, *)
(* whose onHeaders the session then ignores: JavaScript's Promise settles. *)
EveryFetchAnswered == <>(told # "pending")

(* An aborted stream ends and is dropped although the server keeps talking,*)
(* and although the abort may come before the connection exists.           *)
AbortStopsStream == [](aborted /\ active => <>(~active /\ closed))

(* The Android host implements the stream contract.                        *)
Contract == INSTANCE StreamContract WITH
  Streams <- {"stream"},
  phase   <- [s \in {"stream"} |-> told],
  fate    <- [s \in {"stream"} |-> fate],
  aborted <- [s \in {"stream"} |-> aborted],
  chunks  <- [s \in {"stream"} |-> chunks]

ContractSpec == Contract!ContractSpec
=============================================================================
