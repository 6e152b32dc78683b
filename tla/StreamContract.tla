--------------------------- MODULE StreamContract ---------------------------
(***************************************************************************)
(* What native HTTP promises the JavaScript side about one /sync/stream    *)
(* request (docs/adr/0003, "Stream-session contract"), without saying how: *)
(* the one-shot Callback answers with headers or with a failure, and only  *)
(* a stream that answered with headers goes on to emit                     *)
(*       onData* -> onError? -> onEnd                                      *)
(* as GlobalEventEmitter events.  An abort that comes before the fate of   *)
(* the stream is settled rules out the clean ending (onEnd without         *)
(* onError).  AndroidStream and IosStream implement this specification;    *)
(* SyncStream builds the JavaScript side on top of it.                     *)
(***************************************************************************)
EXTENDS Naturals

CONSTANT Streams            \* the streaming ids native code hands out

VARIABLES
  phase,     \* phase[s]: what the JavaScript side has been told so far
  fate,      \* fate[s]: how the stream ends, once that is settled
  aborted,   \* aborted[s]: httpFetchAbort reached the live session
  chunks     \* chunks[s]: number of onData events emitted

cvars == <<phase, fate, aborted, chunks>>

Phases == {"pending", "open", "errored", "failed", "ended"}
Fates  == {"unsettled", "refused", "clean", "broken"}

CTypeOK ==
  /\ phase   \in [Streams -> Phases]
  /\ fate    \in [Streams -> Fates]
  /\ aborted \in [Streams -> BOOLEAN]
  /\ chunks  \in [Streams -> Nat]

CInit ==
  /\ phase   = [s \in Streams |-> "pending"]
  /\ fate    = [s \in Streams |-> "unsettled"]
  /\ aborted = [s \in Streams |-> FALSE]
  /\ chunks  = [s \in Streams |-> 0]

-----------------------------------------------------------------------------
(* The one-shot Callback carries the headers: the body is now open.        *)
Respond(s) ==
  /\ phase[s] = "pending" /\ fate[s] = "unsettled"
  /\ phase' = [phase EXCEPT ![s] = "open"]
  /\ UNCHANGED <<fate, aborted, chunks>>

(* One onData event.                                                       *)
Data(s) ==
  /\ phase[s] = "open" /\ fate[s] = "unsettled"
  /\ chunks' = [chunks EXCEPT ![s] = @ + 1]
  /\ UNCHANGED <<phase, fate, aborted>>

(* The terminal is claimed, once.  Nothing was answered yet: refused.      *)
(* Otherwise the ending may be clean only if no abort got in first.        *)
Settle(s, f) ==
  /\ fate[s] = "unsettled"
  /\ \/ phase[s] = "pending" /\ f = "refused"
     \/ phase[s] = "open" /\ f = "broken"
     \/ phase[s] = "open" /\ f = "clean" /\ ~aborted[s]
  /\ fate' = [fate EXCEPT ![s] = f]
  /\ UNCHANGED <<phase, aborted, chunks>>

(* The one-shot Callback carries the pre-headers failure envelope.         *)
Refuse(s) ==
  /\ phase[s] = "pending" /\ fate[s] = "refused"
  /\ phase' = [phase EXCEPT ![s] = "failed"]
  /\ UNCHANGED <<fate, aborted, chunks>>

(* The onError event.                                                      *)
Error(s) ==
  /\ phase[s] = "open" /\ fate[s] = "broken"
  /\ phase' = [phase EXCEPT ![s] = "errored"]
  /\ UNCHANGED <<fate, aborted, chunks>>

(* The onEnd event, after onError if the stream broke.                     *)
End(s) ==
  /\ \/ phase[s] = "open" /\ fate[s] = "clean"
     \/ phase[s] = "errored"
  /\ phase' = [phase EXCEPT ![s] = "ended"]
  /\ UNCHANGED <<fate, aborted, chunks>>

(* httpFetchAbort emits nothing by itself.                                 *)
Abort(s) ==
  /\ ~aborted[s]
  /\ aborted' = [aborted EXCEPT ![s] = TRUE]
  /\ UNCHANGED <<phase, fate, chunks>>

CNext ==
  \E s \in Streams :
    \/ Respond(s) \/ Data(s) \/ Refuse(s) \/ Error(s) \/ End(s) \/ Abort(s)
    \/ \E f \in Fates : Settle(s, f)

ContractSpec == CInit /\ [][CNext]_cvars
=============================================================================
