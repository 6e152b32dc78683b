------------------------ MODULE AndroidStreamProofs ------------------------
(***************************************************************************)
(* Theorems about AndroidStream, for all bounds: the emissions follow the  *)
(* stream grammar, no handle is leaked, a body that ends cleanly is        *)
(* complete, and the host implements StreamContract.                       *)
(***************************************************************************)
EXTENDS AndroidStream, TLAPS

(* The effects in the order in which apply goes through them.              *)
LEMMA RankOrder ==
  /\ Rank["callback_headers"] = 1 /\ Rank["callback_fail"] = 2
  /\ Rank["event_data"] = 3 /\ Rank["event_error"] = 4
  /\ Rank["event_end"] = 5 /\ Rank["drop"] = 6 /\ Rank["close"] = 7
BY DEF Rank

(* The effect bits by name.                                                *)
LEMMA EffectNames ==
  Effects = {"callback_headers", "callback_fail", "event_data",
             "event_error", "event_end", "drop", "close"}
BY DEF Effects, Rank

-----------------------------------------------------------------------------
(* Before the terminal is claimed: the effects in hand are the ones the    *)
(* emissions so far allow.                                                 *)
Running ==
  /\ ~terminal /\ ~closed /\ fate = "unsettled" /\ io # "done"
  /\ active <=> io # "queued"
  /\ \/ ~headersSent /\ told = "pending" /\ effects = {}
     \/ headersSent /\ told = "pending" /\ effects = {"callback_headers"}
     \/ headersSent /\ told = "open" /\ effects \in {{}, {"event_data"}}

(* After it: what is left to apply, down to DROP and the freed session.    *)
Winding ==
  /\ active /\ ~closed
  /\ \/ /\ fate = "refused" /\ told = "pending"
        /\ effects = {"callback_fail", "drop"}
     \/ /\ fate = "broken" /\ told = "open"
        /\ effects = {"event_error", "event_end", "drop"}
     \/ /\ fate = "broken" /\ told = "errored"
        /\ effects = {"event_end", "drop"}
     \/ /\ fate = "clean" /\ told = "open"
        /\ effects = {"event_end", "drop"}

Closing ==
  /\ told \in {"failed", "ended"} /\ fate \in {"refused", "clean", "broken"}
  /\ fate = "refused" <=> told = "failed"
  /\ \/ effects = {"drop"} /\ active /\ ~closed
     \/ effects = {"close"} /\ ~active /\ ~closed
     \/ effects = {} /\ ~active /\ closed

Over ==
  /\ terminal /\ io = "done"
  /\ fate = "refused" \/ headersSent
  /\ Winding \/ Closing

Shape == Running \/ Over

(* Before the body nothing is read; from then on, if headers were sent,    *)
(* what was delivered and what is held back make up what was read.         *)
BeforeBody == {"queued", "connect", "write", "check", "response", "headers"}

Accounts ==
  /\ io \in BeforeBody => ~headersSent /\ received = 0
  /\ io \in BeforeBody \cup {"body"} =>
       received = 0 /\ carry = 0 /\ delivered = 0 /\ "event_data" \notin effects
  /\ headersSent /\ ~("event_data" \in effects /\ counted) =>
       delivered + carry = received
  /\ carry <= received
  /\ eof => io \in {"eof", "end", "done"}
  /\ io = "end" => carry = 0
  /\ eof /\ fate = "clean" => carry = 0

IInv == TypeOK /\ Shape /\ Accounts

-----------------------------------------------------------------------------
(* The initial states satisfy the invariant.                               *)
LEMMA InitIInv == Init => IInv
<1> SUFFICES ASSUME Init PROVE IInv
  OBVIOUS
<1> USE DEF Init, SessionInit
<1>1. TypeOK
  BY DEF TypeOK, IoSteps, Told
<1>2. Shape
  BY DEF Shape, Running
<1>3. Accounts
  BY DEF Accounts, BeforeBody
<1> QED
  BY <1>1, <1>2, <1>3 DEF IInv

(* Every session call that claims the terminal keeps the invariant.        *)
LEMMA TerminateIInv ==
  ASSUME IInv, NEW failed \in BOOLEAN, effects = {}, io # "queued", io # "done",
         io = "eof" => failed,
         Terminate(failed),
         UNCHANGED <<closed, active, received, carry, delivered, abortVars,
                     told, chunks, counted, eof>>
  PROVE IInv'
<1>1. TypeOK'
  BY EffectNames DEF IInv, TypeOK, Terminate, TerminalEffects, FateOf, session,
    abortVars, IoSteps
<1>2. Shape'
  BY DEF IInv, TypeOK, Shape, Running, Over, Winding, Closing, Terminate,
    TerminalEffects, FateOf, session
<1>3. Accounts'
  BY DEF IInv, TypeOK, Accounts, BeforeBody, Shape, Running, Over,
    Terminate, TerminalEffects, FateOf, session
<1> QED BY <1>1, <1>2, <1>3 DEF IInv

(* A step that only moves the executor thread on.                          *)
LEMMA ProceedIInv ==
  ASSUME IInv, NEW from, NEW to, Proceed(from, to),
         <<from, to>> \in {<<"connect", "write">>, <<"write", "check">>,
           <<"check", "response">>, <<"response", "headers">>,
           <<"body", "loop">>, <<"loop", "read">>}
  PROVE IInv'
<1> USE DEF IInv, Proceed, At, session, abortVars, history
<1>1. TypeOK'
  BY DEF TypeOK, IoSteps
<1>2. Shape'
  BY DEF Shape, Running, Over, Winding, Closing
<1>3. Accounts'
  BY DEF Accounts, BeforeBody
<1> QED
  BY <1>1, <1>2, <1>3

-----------------------------------------------------------------------------
(* Every step of the executor thread before the body is read.              *)
LEMMA SetupIInv ==
  ASSUME IInv, Register \/ Connect \/ WriteBody \/ CheckCancelled \/ GetResponse
                 \/ OnHeaders \/ OpenBody \/ NoBody \/ IoException
  PROVE IInv'
<1> USE DEF IInv
<1>1. CASE Register
  <2> USE <1>1 DEF Register, At, session, abortVars, history
  <2>1. TypeOK'
    BY DEF TypeOK, IoSteps
  <2>2. Shape'
    BY DEF Shape, Running, Over, Winding, Closing
  <2>3. Accounts'
    BY DEF Accounts, BeforeBody
  <2> QED
    BY <2>1, <2>2, <2>3
<1>2. CASE Connect
  BY <1>2, ProceedIInv DEF Connect
<1>3. CASE WriteBody
  BY <1>3, ProceedIInv DEF WriteBody
<1>4. CASE CheckCancelled
  <2>1. CASE \E step \in {"check", "loop"} : Fail(step)
    BY <2>1, TerminateIInv DEF Fail, At, OnError
  <2>2. CASE Proceed("check", "response") \/ Proceed("loop", "read")
    BY <2>2, ProceedIInv
  <2> QED
    BY <1>4, <2>1, <2>2 DEF CheckCancelled
<1>5. CASE GetResponse
  BY <1>5, ProceedIInv DEF GetResponse
<1>6. CASE OnHeaders
  <2> USE <1>6 DEF OnHeaders, At, HeadersEffects, abortVars, history
  <2>1. TypeOK'
    BY EffectNames DEF TypeOK, IoSteps
  <2>2. Shape'
    BY DEF Shape, Running, Over, Winding, Closing, Accounts, BeforeBody, TypeOK
  <2>3. Accounts'
    BY DEF Accounts, BeforeBody, TypeOK
  <2> QED
    BY <2>1, <2>2, <2>3
<1>7. CASE OpenBody
  BY <1>7, ProceedIInv DEF OpenBody
<1>8. CASE NoBody
  BY <1>8, TerminateIInv DEF NoBody, EndAt, OnEnd, At, TypeOK
<1>9. CASE IoException
  BY <1>9, TerminateIInv DEF IoException, Fail, OnError, At
<1> QED
  BY <1>1, <1>2, <1>3, <1>4, <1>5, <1>6, <1>7, <1>8, <1>9

(* Every step of the executor thread in the read loop.                     *)
LEMMA BodyIInv ==
  ASSUME IInv, Read \/ ReadKeepalive \/ ReadTimeout \/ ReadEof
                 \/ EofCancelled \/ EofFlush \/ EofEnd
  PROVE IInv'
<1> USE DEF IInv
<1>1. CASE Read
  <2>1. PICK n \in 1..MaxRead, hold \in 0..MaxBytes : ReadBytes(n, hold)
    BY <1>1 DEF Read
  <2>2. n \in Nat /\ hold \in Nat
    BY BoundsAssumption
  <2> USE <2>1, <2>2 DEF ReadBytes, At, DataEffects, session, abortVars
  <2>3. TypeOK'
    BY EffectNames DEF TypeOK, IoSteps
  <2>4. Shape'
    BY DEF Shape, Running, Over, Winding, Closing, TypeOK
  <2>5. Accounts'
    BY DEF Accounts, BeforeBody, TypeOK, Shape, Running, Over
  <2> QED
    BY <2>3, <2>4, <2>5
<1>2. CASE ReadKeepalive
  <2> USE <1>2 DEF ReadKeepalive, At, DataEffects, session, abortVars
  <2>1. TypeOK'
    BY EffectNames DEF TypeOK, IoSteps
  <2>2. Shape'
    BY DEF Shape, Running, Over, Winding, Closing, TypeOK
  <2>3. Accounts'
    BY DEF Accounts, BeforeBody, TypeOK, Shape, Running, Over
  <2> QED
    BY <2>1, <2>2, <2>3
<1>3. CASE ReadTimeout
  BY <1>3, TerminateIInv DEF ReadTimeout, EndAt, OnEnd, At, TypeOK
<1>4. CASE ReadEof
  <2> USE <1>4 DEF ReadEof, At, session, abortVars
  <2>1. TypeOK'
    BY DEF TypeOK, IoSteps
  <2>2. Shape'
    BY DEF Shape, Running, Over, Winding, Closing
  <2>3. Accounts'
    BY DEF Accounts, BeforeBody, Shape, Running, Over
  <2> QED
    BY <2>1, <2>2, <2>3
<1>5. CASE EofCancelled
  BY <1>5, TerminateIInv DEF EofCancelled, Fail, OnError, At
<1>6. CASE EofFlush
  <2> USE <1>6 DEF EofFlush, At, DataEffects, session, abortVars
  <2>1. TypeOK'
    BY EffectNames DEF TypeOK, IoSteps
  <2>2. Shape'
    BY DEF Shape, Running, Over, Winding, Closing, TypeOK
  <2>3. Accounts'
    BY DEF Accounts, BeforeBody, TypeOK, Shape, Running, Over
  <2> QED
    BY <2>1, <2>2, <2>3
<1>7. CASE EofEnd
  BY <1>7, TerminateIInv DEF EofEnd, EndAt, OnEnd, At, TypeOK
<1> QED
  BY <1>1, <1>2, <1>3, <1>4, <1>5, <1>6, <1>7

(* Applying the effects.                                                   *)
LEMMA ApplyIInv ==
  ASSUME IInv, Emit \/ Drop \/ Close
  PROVE IInv'
<1> USE DEF IInv
<1>1. CASE Emit
  <2>1. PICK e \in {"callback_headers", "callback_fail", "event_data",
                    "event_error", "event_end"} :
          /\ IsNext(e)
          /\ effects' = effects \ {e}
          /\ told' = Advance(told, e)
          /\ IF e = "event_data" /\ counted
             THEN delivered' = received - carry /\ chunks' = chunks + 1
             ELSE UNCHANGED <<delivered, chunks>>
          /\ UNCHANGED <<session, closed, active, io, received, carry,
                         abortVars, fate, counted, eof>>
    BY <1>1 DEF Emit
  <2> USE <2>1, RankOrder DEF IsNext, session, abortVars
  <2>2. TypeOK'
    BY EffectNames DEF TypeOK, Told, Advance, Accounts, Shape, Running
  <2>3. Shape'
    BY DEF Shape, Running, Over, Winding, Closing, Advance, TypeOK
  <2>4. Accounts'
    BY DEF Accounts, BeforeBody, TypeOK, Shape, Running, Over
  <2> QED
    BY <2>2, <2>3, <2>4
<1>2. CASE Drop
  <2> USE <1>2, RankOrder DEF Drop, IsNext, session, abortVars, history
  <2>1. TypeOK'
    BY EffectNames DEF TypeOK
  <2>2. Shape'
    BY DEF Shape, Running, Over, Winding, Closing
  <2>3. Accounts'
    BY DEF Accounts, BeforeBody
  <2> QED
    BY <2>1, <2>2, <2>3
<1>3. CASE Close
  <2> USE <1>3, RankOrder DEF Close, IsNext, session, abortVars, history
  <2>1. TypeOK'
    BY DEF TypeOK
  <2>2. Shape'
    BY DEF Shape, Running, Over, Winding, Closing
  <2>3. Accounts'
    BY DEF Accounts, BeforeBody, Shape, Running, Over, Winding, Closing
  <2> QED
    BY <2>1, <2>2, <2>3
<1> QED
  BY <1>1, <1>2, <1>3

(* The abort call disturbs nothing but aborted, cancelled and its own step.*)
LEMMA AbortIInv ==
  ASSUME IInv, AbortCall
  PROVE IInv'
<1> USE DEF IInv, AbortCall, AbortLookup, AbortSession, AbortCancelIo,
            session, ioVars, history
<1>1. TypeOK'
  BY DEF TypeOK
<1>2. Shape'
  BY DEF Shape, Running, Over, Winding, Closing
<1>3. Accounts'
  BY DEF Accounts, BeforeBody
<1> QED
  BY <1>1, <1>2, <1>3

(* A step that changes nothing.                                            *)
LEMMA StutterIInv ==
  ASSUME IInv, UNCHANGED vars
  PROVE IInv'
BY DEF IInv, TypeOK, Shape, Running, Over, Winding, Closing, Accounts,
  BeforeBody, IoSteps, vars, session, ioVars, abortVars, history

(* The invariant holds in every reachable state, for all bounds.           *)
THEOREM Inductive == Spec => []IInv
<1>1. Init => IInv
  BY InitIInv
<1>2. IInv /\ [Next]_vars => IInv'
  BY SetupIInv, BodyIInv, ApplyIInv, AbortIInv, StutterIInv
     DEF Next, StreamingIo, Finished
<1> QED
  BY <1>1, <1>2, PTL DEF Spec

-----------------------------------------------------------------------------
(* Every variable keeps its type.                                          *)
THEOREM TypeCorrect == Spec => []TypeOK
<1>1. IInv => TypeOK
  BY DEF IInv
<1> QED
  BY <1>1, Inductive, PTL

(* The emissions of the Android host follow the stream grammar: nothing is *)
(* emitted before the headers or after the end, whatever abort does.       *)
THEOREM Grammar == Spec => []StreamGrammar
<1>1. IInv => StreamGrammar
  BY DEF IInv, Shape, Running, Over, Winding, Closing, StreamGrammar
<1> QED
  BY <1>1, Inductive, PTL

(* An executor thread that is through leaves no handle and no session, and *)
(* a body that ends cleanly at its end was delivered to the last byte.     *)
THEOREM Settled == Spec => []RequestInvariant
<1>1. IInv => NoLeakedHandle
  BY DEF IInv, Shape, Running, Over, Winding, Closing, NoLeakedHandle
<1>2. IInv => CompleteBody
  BY DEF IInv, TypeOK, Shape, Running, Over, Winding, Closing, Accounts,
    CompleteBody
<1>3. IInv => RequestInvariant
  BY <1>1, <1>2 DEF IInv, RequestInvariant
<1> QED
  BY <1>3, Inductive, PTL

-----------------------------------------------------------------------------
(* The refinement, step by step.  Most steps change nothing the contract   *)
(* knows of.                                                               *)
LEMMA HiddenStep ==
  ASSUME UNCHANGED <<told, fate, aborted, chunks>>
  PROVE UNCHANGED Contract!cvars
BY DEF Contract!cvars

(* Claiming the terminal settles the fate of the stream.                   *)
LEMMA TerminateSettles ==
  ASSUME IInv, NEW failed \in BOOLEAN, failed \/ ~aborted,
         effects = {}, io # "done", Terminate(failed),
         UNCHANGED <<told, chunks>>
  PROVE Contract!CNext
<1>1. /\ ~terminal /\ ~closed /\ fate = "unsettled"
      /\ IF headersSent THEN told = "open" ELSE told = "pending"
  BY DEF IInv, Shape, Running, Over
<1>2. fate' = FateOf(failed) /\ aborted' = aborted
  BY <1>1 DEF Terminate
<1>3. FateOf(failed) \in {"refused", "broken", "clean"}
  BY DEF FateOf
<1>4. Contract!Settle("stream", FateOf(failed))
  BY <1>1, <1>2 DEF Contract!Settle, FateOf
<1> QED
  BY <1>3, <1>4 DEF Contract!CNext, Contract!Fates

(* An emission is the contract's step of that name; the keepalive data the *)
(* model does not count is none.                                           *)
LEMMA EmitEmits ==
  ASSUME IInv, Emit
  PROVE Contract!CNext \/ UNCHANGED Contract!cvars
<1>1. PICK e \in {"callback_headers", "callback_fail", "event_data",
                  "event_error", "event_end"} :
        /\ IsNext(e)
        /\ told' = Advance(told, e)
        /\ IF e = "event_data" /\ counted
           THEN chunks' = chunks + 1
           ELSE UNCHANGED chunks
        /\ UNCHANGED <<fate, aborted>>
  BY DEF Emit, session
<1>2. e \in effects /\ \A d \in effects : Rank[e] <= Rank[d]
  BY <1>1 DEF IsNext
<1>3. CASE e = "callback_headers"
  <2>1. told = "pending" /\ fate = "unsettled" /\ told' = "open"
    BY <1>1, <1>2, <1>3 DEF IInv, Shape, Running, Over, Winding, Closing, Advance
  <2>2. Contract!Respond("stream")
    BY <1>1, <1>3, <2>1 DEF Contract!Respond
  <2> QED
    BY <2>2 DEF Contract!CNext
<1>4. CASE e = "callback_fail"
  <2>1. told = "pending" /\ fate = "refused" /\ told' = "failed"
    BY <1>1, <1>2, <1>4 DEF IInv, Shape, Running, Over, Winding, Closing, Advance
  <2>2. Contract!Refuse("stream")
    BY <1>1, <1>4, <2>1 DEF Contract!Refuse
  <2> QED
    BY <2>2 DEF Contract!CNext
<1>5. CASE e = "event_data"
  <2>1. told = "open" /\ fate = "unsettled" /\ told' = told
    BY <1>1, <1>2, <1>5 DEF IInv, Shape, Running, Over, Winding, Closing, Advance
  <2>2. CASE counted
    <3>1. Contract!Data("stream")
      BY <1>1, <1>5, <2>1, <2>2 DEF Contract!Data
    <3> QED
      BY <3>1 DEF Contract!CNext
  <2>3. CASE ~counted
    BY <1>1, <1>5, <2>1, <2>3, HiddenStep
  <2> QED
    BY <2>2, <2>3
<1>6. CASE e = "event_error"
  <2>1. told = "open" /\ fate = "broken" /\ told' = "errored"
    BY <1>1, <1>2, <1>6 DEF IInv, Shape, Running, Over, Winding, Closing, Advance
  <2>2. Contract!Error("stream")
    BY <1>1, <1>6, <2>1 DEF Contract!Error
  <2> QED
    BY <2>2 DEF Contract!CNext
<1>7. CASE e = "event_end"
  <2>1. /\ (told = "open" /\ fate = "clean") \/ told = "errored"
        /\ told' = "ended"
    BY <1>1, <1>2, <1>7, RankOrder
       DEF IInv, Shape, Running, Over, Winding, Closing, Advance
  <2>2. Contract!End("stream")
    BY <1>1, <1>7, <2>1 DEF Contract!End
  <2> QED
    BY <2>2 DEF Contract!CNext
<1> QED
  BY <1>3, <1>4, <1>5, <1>6, <1>7

(* A step of the executor thread either claims the terminal or is hidden.  *)
LEMMA IoSettles ==
  ASSUME IInv, StreamingIo
  PROVE Contract!CNext \/ UNCHANGED Contract!cvars
<1>1. CASE \E step \in IoSteps \ {"done"} : Fail(step)
  BY <1>1, TerminateSettles DEF Fail, OnError, At
<1>2. CASE \E step \in IoSteps \ {"done"} : EndAt(step)
  BY <1>2, TerminateSettles DEF EndAt, OnEnd, At, IInv, TypeOK
<1>3. CASE Emit
  BY <1>3, EmitEmits
<1>4. CASE UNCHANGED <<told, fate, aborted, chunks>>
  BY <1>4, HiddenStep
<1>5. \/ \E step \in IoSteps \ {"done"} : Fail(step) \/ EndAt(step)
      \/ Emit
      \/ UNCHANGED <<told, fate, aborted, chunks>>
  <2>1. CASE Register \/ Connect \/ WriteBody \/ GetResponse \/ OnHeaders \/ OpenBody
    BY <2>1 DEF Register, Connect, WriteBody, GetResponse, OnHeaders, OpenBody,
      Proceed, session, history
  <2>2. CASE CheckCancelled
    BY <2>2 DEF CheckCancelled, Proceed, session, history, IoSteps
  <2>3. CASE IoException \/ EofCancelled
    BY <2>3 DEF IoException, EofCancelled, IoSteps
  <2>4. CASE NoBody \/ ReadTimeout \/ EofEnd
    BY <2>4 DEF NoBody, ReadTimeout, EofEnd, IoSteps
  <2>5. CASE Read \/ ReadKeepalive \/ ReadEof \/ EofFlush
    BY <2>5 DEF Read, ReadBytes, ReadKeepalive, ReadEof, EofFlush, session, history
  <2>6. CASE Drop \/ Close
    BY <2>6 DEF Drop, Close, session, history
  <2> QED
    BY <2>1, <2>2, <2>3, <2>4, <2>5, <2>6 DEF StreamingIo
<1> QED
  BY <1>1, <1>2, <1>3, <1>4, <1>5

(* An abort call that finds the session alive is the contract's Abort.     *)
LEMMA AbortAborts ==
  ASSUME IInv, AbortCall
  PROVE Contract!CNext \/ UNCHANGED Contract!cvars
<1>1. CASE AbortSession /\ aborted' # aborted
  <2>1. ~aborted /\ aborted' /\ aborted' \in BOOLEAN
    BY <1>1 DEF AbortSession, IInv, TypeOK
  <2>2. Contract!Abort("stream")
    BY <1>1, <2>1 DEF AbortSession, Contract!Abort, ioVars, history
  <2> QED
    BY <2>2 DEF Contract!CNext
<1>2. CASE UNCHANGED <<told, fate, aborted, chunks>>
  BY <1>2, HiddenStep
<1> QED
  BY <1>1, <1>2 DEF AbortCall, AbortLookup, AbortSession, AbortCancelIo,
    session, history

(* The Android host implements the stream contract, for all bounds: every  *)
(* step of either thread is a step the contract allows or changes nothing  *)
(* JavaScript can see; in particular an abort that comes before the        *)
(* terminal rules out the clean ending, however the threads interleave.    *)
THEOREM Implements == Spec => ContractSpec
<1>1. Init => Contract!CInit
  BY DEF Init, SessionInit, Contract!CInit
<1>2. IInv /\ [Next]_vars => [Contract!CNext]_(Contract!cvars)
  <2> SUFFICES ASSUME IInv, [Next]_vars
               PROVE Contract!CNext \/ UNCHANGED Contract!cvars
    OBVIOUS
  <2>1. CASE StreamingIo
    BY <2>1, IoSettles
  <2>2. CASE AbortCall
    BY <2>2, AbortAborts
  <2>3. CASE UNCHANGED vars
    BY <2>3, HiddenStep DEF vars, session, history
  <2> QED
    BY <2>1, <2>2, <2>3 DEF Next, Finished
<1> QED
  BY <1>1, <1>2, Inductive, PTL DEF Spec, ContractSpec, Contract!ContractSpec
=============================================================================
