-------------------------- MODULE SyncHttpSession --------------------------
(***************************************************************************)
(* The decision machine both native hosts share                            *)
(* (shared/sync_http_session.h): three atomics, and step functions that    *)
(* return a set of effects for the host to apply in a fixed order.  The    *)
(* hosts differ in which steps are atomic with respect to each other, so   *)
(* this module gives the decisions and AndroidStream and IosStream the     *)
(* steps.                                                                  *)
(***************************************************************************)
EXTENDS Naturals

VARIABLES
  headersSent,   \* session->headers_sent
  terminal,      \* session->terminal
  aborted,       \* session->aborted
  effects        \* effect bits returned to the I/O thread, not yet applied

session == <<headersSent, terminal, aborted>>

(* The effect bits, in the order ps_sync_http_dispatch and both hosts'     *)
(* apply functions apply them.  "close" is the second half of DROP.        *)
Rank == [callback_headers |-> 1, callback_fail |-> 2, event_data |-> 3,
         event_error |-> 4, event_end |-> 5, drop |-> 6, close |-> 7]

Effects == DOMAIN Rank

SessionInit ==
  /\ headersSent = FALSE
  /\ terminal = FALSE
  /\ aborted = FALSE
  /\ effects = {}

(* on_headers: one shot, ignored after an abort or a terminal.             *)
HeadersEffects ==
  IF aborted \/ terminal \/ headersSent THEN {} ELSE {"callback_headers"}

(* Mutant: on_data without its look at headers_sent.                       *)
DataEffectsHeaderless == IF ~terminal THEN {"event_data"} ELSE {}

(* on_data: needs headers, ignored after the terminal (not after an abort).*)
DataEffects == IF headersSent /\ ~terminal THEN {"event_data"} ELSE {}

(* Mutants: the failure before the headers forgets DROP, or the Callback.  *)
TerminalEffectsUndropped(failed) ==
  IF ~headersSent THEN {"callback_fail"}
  ELSE IF failed THEN {"event_error", "event_end", "drop"}
  ELSE {"event_end", "drop"}

TerminalEffectsUnanswered(failed) ==
  IF ~headersSent THEN {"drop"}
  ELSE IF failed THEN {"event_error", "event_end", "drop"}
  ELSE {"event_end", "drop"}

(* on_end and on_error once the terminal is claimed.                       *)
TerminalEffects(failed) ==
  IF ~headersSent THEN {"callback_fail", "drop"}
  ELSE IF failed THEN {"event_error", "event_end", "drop"}
  ELSE {"event_end", "drop"}

(* e is the effect the host applies next.                                  *)
IsNext(e) ==
  /\ e \in effects
  /\ \A d \in effects : Rank[e] <= Rank[d]

-----------------------------------------------------------------------------
(* The fate of the stream as TerminalEffects settles it.                   *)
FateOf(failed) ==
  IF ~headersSent THEN "refused" ELSE IF failed THEN "broken" ELSE "clean"

(* A monitor for the wire protocol: what the JavaScript side has been told *)
(* after one more emission; "garbled" once the order is broken.            *)
Advance(told, e) ==
  CASE told = "pending" /\ e = "callback_headers" -> "open"
    [] told = "pending" /\ e = "callback_fail"    -> "failed"
    [] told = "open"    /\ e = "event_data"       -> "open"
    [] told = "open"    /\ e = "event_error"      -> "errored"
    [] told \in {"open", "errored"} /\ e = "event_end" -> "ended"
    [] OTHER -> "garbled"

Told == {"pending", "open", "failed", "errored", "ended", "garbled"}
=============================================================================
