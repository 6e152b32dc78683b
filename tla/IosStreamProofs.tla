-------------------------- MODULE IosStreamProofs --------------------------
(***************************************************************************)
(* Theorems about IosStream, for all bounds: a request that is over leaves *)
(* no handle and, if it ended well, no byte of text undelivered, and the   *)
(* host implements StreamContract, whatever the caller's thread does       *)
(* meanwhile.                                                              *)
(***************************************************************************)
EXTENDS IosStream, TLAPS

USE DEF bodyVars

(* The effects in the order in which applyEffects goes through them.       *)
LEMMA RankOrder ==
  /\ Rank["callback_headers"] = 1 /\ Rank["callback_fail"] = 2
  /\ Rank["event_data"] = 3 /\ Rank["event_error"] = 4
  /\ Rank["event_end"] = 5 /\ Rank["drop"] = 6
BY DEF Rank

(* The effect bits by name.                                                *)
LEMMA EffectNames ==
  Effects = {"callback_headers", "callback_fail", "event_data",
             "event_error", "event_end", "drop", "close"}
BY DEF Effects, Rank

-----------------------------------------------------------------------------
(* Before the terminal is claimed: the effects in hand are the ones the    *)
(* emissions so far allow.                                                 *)
Streaming ==
  /\ ~terminal /\ ~deciding /\ ~finished /\ fate = "unsettled"
  /\ active <=> fetch # "register"
  /\ \/ ~headersSent /\ told = "pending" /\ effects = {}
     \/ headersSent /\ told = "pending" /\ effects = {"callback_headers"}
     \/ headersSent /\ told = "open" /\ effects \in {{}, {"event_data"}}

(* on_end between its two halves.                                          *)
Deciding ==
  /\ terminal /\ deciding /\ finished /\ fate = "unsettled" /\ effects = {}
  /\ active /\ fetch # "register"
  /\ told = IF headersSent THEN "open" ELSE "pending"

(* After it: what is left to apply, down to DROP.                          *)
Ending ==
  \/ /\ active
     /\ \/ /\ fate = "refused" /\ told = "pending"
           /\ effects = {"callback_fail", "drop"}
        \/ /\ fate = "broken" /\ told = "open"
           /\ effects = {"event_error", "event_end", "drop"}
        \/ /\ fate = "broken" /\ told = "errored"
           /\ effects = {"event_end", "drop"}
        \/ /\ fate = "clean" /\ told = "open"
           /\ effects = {"event_end", "drop"}
  \/ /\ fate # "unsettled"
     /\ told = IF fate = "refused" THEN "failed" ELSE "ended"
     /\ \/ effects = {"drop"} /\ active
        \/ effects = {} /\ ~active

Over ==
  /\ terminal /\ ~deciding /\ fetch # "register"
  /\ fate = "clean" => finished
  /\ Ending

Shape == Streaming \/ Deciding \/ Over

-----------------------------------------------------------------------------
(* The block of the response comes before those of the body, once: until   *)
(* it has run there is nothing of the body, afterwards it is gone.         *)
NoBlock(kind) == \A i \in DOMAIN queue : queue[i].kind # kind

OneResponse ==
  \A i, j \in DOMAIN queue :
    queue[i].kind = "response" /\ queue[j].kind = "response" => i = j

BeforeResponse ==
  /\ ~headersSent /\ received = 0 /\ carry = 0 /\ delivered = 0 /\ lost = 0
  /\ net # "body" /\ NoBlock("data")
  /\ OneResponse
  /\ NoBlock("response") \/ (net \in {"held", "complete"} /\ fetch = "done")

AfterResponse ==
  net \in {"body", "complete"} /\ fetch = "done" /\ NoBlock("response")

Order ==
  /\ BeforeResponse \/ AfterResponse
  /\ fetch = "register" => queue = <<>> /\ abort = "idle" /\ net = "none"
  /\ fetch = "start" => net \in {"none", "complete"}

(* What was delivered, what NSString refused and what is held back make up *)
(* what was taken in; a finish turns what is held back into the tail.      *)
Accounts ==
  /\ carry + lost <= received
  /\ utf8 => lost = 0
  /\ headersSent /\ ~terminal /\ "event_data" \notin effects =>
       delivered + lost + carry = received
  /\ headersSent /\ (deciding \/ fate = "clean") =>
       delivered + lost + tail = received
  /\ fate = "clean" => headersSent

IInv == TypeOK /\ Shape /\ Order /\ Accounts

-----------------------------------------------------------------------------
(* A block that is put on the queue.                                       *)
LEMMA Appended ==
  ASSUME queue \in Seq(Block), NEW kind, NEW bytes, Dispatch(kind, bytes),
         [kind |-> kind, bytes |-> bytes] \in Block
  PROVE  /\ queue' \in Seq(Block) /\ queue' # <<>>
         /\ NoBlock("response") /\ kind # "response" => NoBlock("response")'
         /\ NoBlock("data") /\ kind # "data" => NoBlock("data")'
         /\ OneResponse /\ kind # "response" => OneResponse'
         /\ NoBlock("response") => OneResponse'
<1> DEFINE b == [kind |-> kind, bytes |-> bytes]
<1>1. /\ queue' = Append(queue, b) /\ b \in Block /\ b.kind = kind
  BY DEF Dispatch
<1> HIDE DEF b
<1>2. /\ queue' \in Seq(Block) /\ Len(queue) \in Nat
      /\ DOMAIN queue = 1..Len(queue) /\ DOMAIN queue' = 1..(Len(queue) + 1)
      /\ \A i \in 1..Len(queue) : queue'[i] = queue[i]
      /\ queue'[Len(queue) + 1] = b
  BY <1>1
<1> QED
  BY <1>1, <1>2 DEF NoBlock, OneResponse

(* A block that is taken from it.                                          *)
LEMMA Popped ==
  ASSUME queue \in Seq(Block), NEW kind, Running(kind)
  PROVE  /\ queue' \in Seq(Block) /\ queue # <<>> /\ ~NoBlock(kind)
         /\ Head(queue) \in Block
         /\ NoBlock("response") => NoBlock("response")'
         /\ NoBlock("data") => NoBlock("data")'
         /\ OneResponse => OneResponse'
         /\ OneResponse /\ kind = "response" => NoBlock("response")'
<1>1. queue # <<>> /\ Head(queue).kind = kind /\ queue' = Tail(queue)
  BY DEF Running
<1>2. /\ queue' \in Seq(Block) /\ Len(queue) \in Nat /\ Len(queue) > 0
      /\ DOMAIN queue = 1..Len(queue) /\ DOMAIN queue' = 1..(Len(queue) - 1)
      /\ \A i \in 1..(Len(queue) - 1) : queue'[i] = queue[i + 1]
      /\ Head(queue) = queue[1] /\ Head(queue) \in Block
  BY <1>1
<1>3. 1 \in DOMAIN queue /\ queue[1].kind = kind
  BY <1>1, <1>2
<1>4. \A i \in DOMAIN queue' : i + 1 \in DOMAIN queue /\ i + 1 # 1
                               /\ queue'[i] = queue[i + 1]
  BY <1>2
<1>5. /\ ~NoBlock(kind)
      /\ NoBlock("response") => NoBlock("response")'
      /\ NoBlock("data") => NoBlock("data")'
  BY <1>3, <1>4 DEF NoBlock
<1>6. OneResponse => OneResponse'
  BY <1>2, <1>4 DEF OneResponse
<1>7. OneResponse /\ kind = "response" => NoBlock("response")'
  BY <1>3, <1>4 DEF OneResponse, NoBlock
<1> QED
  BY <1>1, <1>2, <1>5, <1>6, <1>7

-----------------------------------------------------------------------------
(* The initial states satisfy the invariant.                               *)
LEMMA InitIInv == Init => IInv
<1> SUFFICES ASSUME Init PROVE IInv
  OBVIOUS
<1> USE DEF Init, SessionInit
<1>1. TypeOK
  <2>1. queue \in Seq(Block)
    OBVIOUS
  <2>2. /\ headersSent \in BOOLEAN /\ terminal \in BOOLEAN /\ aborted \in BOOLEAN
        /\ effects \subseteq Effects /\ told \in Told
    BY DEF Told
  <2>3. \A n \in {sent, carry, received, delivered, tail, lost, chunks} : n \in Nat
    OBVIOUS
  <2> QED
    BY <2>1, <2>2, <2>3, Zenon DEF TypeOK
<1>2. Shape
  BY DEF Shape, Streaming
<1>3. Order /\ Accounts
  BY DEF Order, BeforeResponse, NoBlock, OneResponse, Accounts
<1> QED
  BY <1>1, <1>2, <1>3 DEF IInv

(* fetchStreaming keeps the invariant.                                     *)
LEMMA FetchIInv ==
  ASSUME IInv, Fetch
  PROVE  IInv'
<1> USE DEF IInv
<1>1. CASE Register
  <2> USE <1>1 DEF Register, session, queueVars, history
  <2>1. TypeOK'
    BY DEF TypeOK
  <2>2. Shape'
    BY DEF Shape, Streaming, Deciding, Over, Ending
  <2>3. Order'
    BY DEF Order, BeforeResponse, AfterResponse, NoBlock, OneResponse
  <2>4. Accounts'
    BY DEF Accounts
  <2> QED
    BY <2>1, <2>2, <2>3, <2>4
<1>2. CASE Start
  <2> USE <1>2 DEF Start, session, queueVars, history
  <2>1. TypeOK'
    BY DEF TypeOK
  <2>2. Shape'
    BY DEF Shape, Streaming, Deciding, Over, Ending
  <2>3. Order'
    BY DEF Order, BeforeResponse, AfterResponse, NoBlock, OneResponse
  <2>4. Accounts'
    BY DEF Accounts
  <2> QED
    BY <2>1, <2>2, <2>3, <2>4
<1>3. CASE StartInvalidUrl
  <2> USE <1>3 DEF StartInvalidUrl, OnError, TerminalEffects, FateOf, session,
                   queueVars, history
  <2>1. TypeOK'
    <3>1. effects' \subseteq Effects
      BY EffectNames DEF TypeOK
    <3>2. terminal' \in BOOLEAN /\ fate' \in {"unsettled", "refused", "clean", "broken"}
      BY DEF TypeOK
    <3> QED
      BY <3>1, <3>2 DEF TypeOK
  <2>2. Shape'
    BY DEF Shape, Streaming, Deciding, Over, Ending
  <2>3. Order'
    BY DEF Order, BeforeResponse, AfterResponse, NoBlock, OneResponse
  <2>4. Accounts'
    BY DEF Accounts, Shape, Streaming, Deciding, Over
  <2> QED
    BY <2>1, <2>2, <2>3, <2>4
<1> QED
  BY <1>1, <1>2, <1>3 DEF Fetch

(* The delegate methods, which put blocks on the queue.                    *)
LEMMA NetworkIInv ==
  ASSUME IInv, Network
  PROVE  IInv'
<1> USE DEF IInv
<1>1. /\ queue \in Seq(Block)
      /\ \A k \in {"response", "data", "finish", "fail", "cancel"} :
           \A n \in Nat : [kind |-> k, bytes |-> n] \in Block
  BY DEF TypeOK, Block
<1>2. /\ UNCHANGED <<session, effects, active, fetch, utf8, queueVars, abort,
                     history, fate, counted>>
      /\ net' \in {"held", "body", "complete"} /\ sent' \in Nat
      /\ fetch = "done" /\ queue' \in Seq(Block)
  <2>1. CASE DidReceiveResponse
    BY <1>1, <2>1, Appended DEF DidReceiveResponse, TypeOK, Order
  <2>2. CASE DidReceiveData
    <3>1. PICK n \in 0..MaxChunk : sent' = sent + n /\ Dispatch("data", n)
      BY <2>2 DEF DidReceiveData
    <3>2. n \in Nat /\ sent' \in Nat
      BY <3>1, BoundsAssumption DEF TypeOK
    <3> QED
      BY <1>1, <2>2, <3>1, <3>2, Appended DEF DidReceiveData, TypeOK, Order
  <2>3. CASE DidComplete
    BY <1>1, <2>3, Appended DEF DidComplete, TypeOK, Order
  <2> QED
    BY <2>1, <2>2, <2>3 DEF Network
<1> USE <1>2 DEF session, queueVars, history
<1>3. TypeOK'
  BY DEF TypeOK
<1>4. Shape'
  BY DEF Shape, Streaming, Deciding, Over, Ending
<1>5. Order'
  <2>1. CASE DidReceiveResponse
    <3>1. BeforeResponse /\ NoBlock("response") /\ net' = "held"
      BY <2>1 DEF DidReceiveResponse, Order, BeforeResponse, AfterResponse
    <3>2. NoBlock("data")' /\ OneResponse'
      BY <1>1, <2>1, <3>1, Appended DEF DidReceiveResponse, BeforeResponse
    <3> QED
      BY <3>1, <3>2 DEF Order, BeforeResponse
  <2>2. CASE DidReceiveData
    <3>1. AfterResponse /\ net' = "body"
      BY <2>2 DEF DidReceiveData, Order, BeforeResponse, AfterResponse
    <3>2. PICK n \in 0..MaxChunk : Dispatch("data", n)
      BY <2>2 DEF DidReceiveData
    <3>3. n \in Nat
      BY BoundsAssumption
    <3>4. NoBlock("response")'
      BY <1>1, <3>1, <3>2, <3>3, Appended DEF AfterResponse
    <3> QED
      BY <3>1, <3>4 DEF Order, AfterResponse
  <2>3. CASE DidComplete
    <3>1. net' = "complete"
      BY <2>3 DEF DidComplete
    <3>2. /\ NoBlock("response") => NoBlock("response")'
          /\ NoBlock("data") => NoBlock("data")'
          /\ OneResponse => OneResponse'
      <4>0. \A k \in {"finish", "fail"} : [kind |-> k, bytes |-> 0] \in Block
        BY <1>1
      <4>1. CASE Dispatch("finish", 0)
        BY <1>1, <4>0, <4>1, Appended
      <4>2. CASE Dispatch("fail", 0)
        BY <1>1, <4>0, <4>2, Appended
      <4> QED
        BY <2>3, <4>1, <4>2 DEF DidComplete
    <3> QED
      BY <3>1, <3>2 DEF Order, BeforeResponse, AfterResponse
  <2> QED
    BY <2>1, <2>2, <2>3 DEF Network
<1>6. Accounts'
  BY DEF Accounts
<1> QED
  BY <1>3, <1>4, <1>5, <1>6


(* A block that finds the session finished.                                *)
LEMMA StaleIInv ==
  ASSUME IInv, RunStale
  PROVE  IInv'
<1> USE DEF IInv
<1>1. PICK k \in {"data", "finish", "fail", "cancel"} : Running(k)
  BY DEF RunStale
<1>2. /\ queue \in Seq(Block) /\ queue' \in Seq(Block) /\ queue # <<>>
      /\ NoBlock("response") => NoBlock("response")'
      /\ NoBlock("data") => NoBlock("data")'
      /\ OneResponse => OneResponse'
  BY <1>1, Popped DEF TypeOK
<1> USE DEF RunStale, session, netVars, queueVars, history
<1>3. TypeOK'
  BY <1>2 DEF TypeOK
<1>4. Shape'
  BY DEF Shape, Streaming, Deciding, Over, Ending
<1>5. Order'
  BY <1>2 DEF Order, BeforeResponse, AfterResponse
<1>6. Accounts'
  BY DEF Accounts
<1> QED
  BY <1>3, <1>4, <1>5, <1>6

(* The block of the response.                                              *)
LEMMA ResponseIInv ==
  ASSUME IInv, RunResponse
  PROVE  IInv'
<1> USE DEF IInv
<1>1. Running("response") /\ effects = {} /\ ~deciding
  BY DEF RunResponse, Running
<1>2. /\ queue' \in Seq(Block) /\ queue # <<>> /\ ~NoBlock("response")
      /\ NoBlock("data") => NoBlock("data")'
      /\ OneResponse => NoBlock("response")' /\ OneResponse'
  BY <1>1, Popped DEF TypeOK
<1>3. BeforeResponse /\ net \in {"held", "complete"} /\ fetch = "done"
  BY <1>2 DEF Order, BeforeResponse, AfterResponse
<1> USE <1>1 DEF RunResponse, HeadersEffects, session, queueVars, history
<1>4. TypeOK'
  BY <1>2, <1>3, EffectNames DEF TypeOK
<1>5. Shape'
  BY DEF Shape, Streaming, Deciding, Over, Ending
<1>6. Order'
  <2>1. NoBlock("response")' /\ net' \in {"body", "complete"} /\ fetch' = "done"
    BY <1>2, <1>3 DEF BeforeResponse
  <2> QED
    BY <2>1 DEF Order, AfterResponse
<1>7. Accounts'
  BY <1>3 DEF Accounts, BeforeResponse, Shape, Streaming, Over, Ending
<1> QED
  BY <1>4, <1>5, <1>6, <1>7

(* The block of a chunk.                                                   *)
LEMMA DataIInv ==
  ASSUME IInv, RunData
  PROVE  IInv'
<1> USE DEF IInv
<1>1. Running("data") /\ effects = {} /\ ~deciding /\ ~finished
  BY DEF RunData, Running
<1>2. /\ queue' \in Seq(Block) /\ queue # <<>> /\ ~NoBlock("data")
      /\ Head(queue) \in Block
      /\ NoBlock("response") => NoBlock("response")'
  BY <1>1, Popped DEF TypeOK
<1> DEFINE n == Head(queue).bytes
<1>3. n \in Nat
  BY <1>2 DEF Block
<1>4. PICK hold \in 0..(carry + n) : TakeIn(n, hold, carry + n > hold \/ n = 0)
  BY DEF RunData
<1>5. AfterResponse
  BY <1>2 DEF Order, BeforeResponse
<1>6. /\ received' = received + n /\ counted' \in BOOLEAN
      /\ UNCHANGED <<session, active, netVars, finished, deciding, tail, abort,
                     history, fate>>
  BY <1>4 DEF TakeIn
<1>7. /\ received \in Nat /\ carry \in Nat /\ delivered \in Nat /\ lost \in Nat
      /\ carry' = hold /\ hold \in Nat /\ hold <= carry + n
  BY <1>3, <1>4 DEF TypeOK, TakeIn
<1>12. \/ /\ effects' \in {{}, DataEffects} /\ lost' = lost
          /\ effects' = {} => carry + n = hold \/ ~headersSent \/ terminal
       \/ ~utf8 /\ lost' = lost + (carry + n - hold) /\ effects' = {}
  BY <1>1, <1>3, <1>4, <1>7 DEF TakeIn, DataEffects
<1> HIDE DEF n
<1> USE <1>1, <1>3, <1>6, <1>7, <1>12 DEF DataEffects, session, netVars, history
<1>8. TypeOK'
  BY <1>2, EffectNames DEF TypeOK
<1>9. Shape'
  BY DEF Shape, Streaming, Deciding, Over, Ending
<1>10. Order'
  BY <1>2, <1>5 DEF Order, AfterResponse
<1>11. Accounts'
  <2>1. /\ carry' + lost' <= received' /\ (fate' = "clean" => headersSent')
        /\ utf8' => lost' = 0
    BY DEF Accounts
  <2>2. ASSUME headersSent, ~terminal, "event_data" \notin effects'
        PROVE  delivered' + lost' + carry' = received'
    <3>1. carry' + lost' = carry + lost + n
      BY <2>2
    <3> QED
      BY <2>2, <3>1 DEF Accounts
  <2>3. ~deciding' /\ fate' # "clean"
    BY DEF Shape, Streaming, Deciding, Over
  <2> QED
    BY <2>1, <2>2, <2>3 DEF Accounts
<1> QED
  BY <1>8, <1>9, <1>10, <1>11

(* The blocks that finish the session, and the decision of on_end.         *)
LEMMA FinishIInv ==
  ASSUME IInv, RunFail \/ RunFinish \/ RunCancel
  PROVE  IInv'
<1> USE DEF IInv
<1>1. PICK k \in {"fail", "finish", "cancel"} : Running(k)
  BY DEF RunFail, RunFinish, RunCancel
<1>2. /\ effects = {} /\ ~deciding /\ ~finished
  BY <1>1 DEF RunFail, RunFinish, RunCancel, Running
<1>3. /\ queue' \in Seq(Block) /\ queue # <<>>
      /\ NoBlock("response") => NoBlock("response")'
      /\ NoBlock("data") => NoBlock("data")'
      /\ OneResponse => OneResponse'
  BY <1>1, Popped DEF TypeOK
<1>4. /\ finished' = TRUE /\ net' \in {net, "complete"}
      /\ (tail' = carry /\ carry' = 0) \/ UNCHANGED <<tail, carry>>
      /\ UNCHANGED <<active, fetch, bodyVars, received, lost, abort, history, counted>>
  BY DEF RunFail, RunFinish, RunCancel, Finish, netVars
<1>5. fetch # "register"
  BY <1>3 DEF Order
<1>6. Order'
  BY <1>3, <1>4, <1>5 DEF Order, BeforeResponse, AfterResponse, OnError,
    OnEndClaim, session, history, RunFail, RunFinish, RunCancel
<1>7. CASE RunFail \/ RunCancel
  <2>1. OnError /\ deciding' = deciding
    BY <1>7 DEF RunFail, RunCancel
  <2> USE <1>2, <1>3, <1>4, <1>5, <2>1 DEF OnError, TerminalEffects, FateOf, session, history
  <2>2. TypeOK'
    <3>1. effects' \subseteq Effects
      BY EffectNames
    <3>2. \A x \in {sent', carry', received', delivered', tail', lost', chunks'} : x \in Nat
      BY DEF TypeOK
    <3>3. /\ fate' \in {"unsettled", "refused", "clean", "broken"}
          /\ terminal' \in BOOLEAN /\ headersSent' \in BOOLEAN /\ aborted' \in BOOLEAN
      BY DEF TypeOK
    <3> QED
      BY <3>1, <3>2, <3>3 DEF TypeOK
  <2>3. Shape'
    BY DEF Shape, Streaming, Deciding, Over, Ending, TypeOK
  <2>4. Accounts'
    BY DEF Accounts, Shape, Streaming, Deciding, Over, TypeOK
  <2> QED
    BY <1>6, <2>2, <2>3, <2>4
<1>8. CASE RunFinish
  <2>1. OnEndClaim /\ tail' = carry /\ carry' = 0
    BY <1>8 DEF RunFinish, Finish
  <2> USE <1>2, <1>3, <1>4, <1>5, <2>1 DEF OnEndClaim, history
  <2>2. TypeOK'
    BY DEF TypeOK
  <2>3. Shape'
    BY DEF Shape, Streaming, Deciding, Over, Ending, TypeOK
  <2>4. Accounts'
    BY DEF Accounts, Shape, Streaming, Deciding, Over, TypeOK
  <2> QED
    BY <1>6, <2>2, <2>3, <2>4
<1> QED
  BY <1>7, <1>8

LEMMA DecideIInv ==
  ASSUME IInv, OnEndDecide
  PROVE  IInv'
<1> USE DEF IInv, OnEndDecide, session, netVars, history
<1>1. TypeOK'
  <2>1. effects' \subseteq Effects
    BY EffectNames DEF TerminalEffects
  <2>2. fate' \in {"unsettled", "refused", "clean", "broken"}
    BY DEF FateOf
  <2>3. /\ \A x \in {sent', carry', received', delivered', tail', lost', chunks'} : x \in Nat
        /\ deciding' \in BOOLEAN
    BY DEF TypeOK
  <2> QED
    BY <2>1, <2>2, <2>3 DEF TypeOK
<1>2. Shape'
  BY DEF Shape, Streaming, Deciding, Over, Ending, TerminalEffects, FateOf, TypeOK
<1>3. Order'
  BY DEF Order, BeforeResponse, AfterResponse, NoBlock, OneResponse
<1>4. Accounts'
  BY DEF Accounts, Shape, Streaming, Deciding, Over, FateOf, TerminalEffects, TypeOK
<1> QED
  BY <1>1, <1>2, <1>3, <1>4

(* Applying the effects.                                                   *)
LEMMA ApplyIInv ==
  ASSUME IInv, Emit \/ Drop
  PROVE  IInv'
<1> USE DEF IInv
<1>1. CASE Emit
  <2>1. PICK e \in {"callback_headers", "callback_fail", "event_data",
                    "event_error", "event_end"} :
          /\ IsNext(e)
          /\ effects' = effects \ {e}
          /\ told' = Advance(told, e)
          /\ IF e = "event_data"
             THEN /\ delivered' = received - carry - lost
                  /\ chunks' = chunks + (IF counted THEN 1 ELSE 0)
             ELSE UNCHANGED <<delivered, chunks>>
          /\ UNCHANGED <<session, active, netVars, queue, queueVars, abort, fate,
                         counted>>
    BY <1>1 DEF Emit
  <2> USE <2>1, RankOrder DEF IsNext, session, netVars, queueVars
  <2>2. TypeOK'
    BY EffectNames DEF TypeOK, Told, Advance, Accounts
  <2>3. Shape'
    BY DEF Shape, Streaming, Deciding, Over, Ending, Advance, TypeOK
  <2>4. Order'
    <3>1. delivered' = delivered \/ headersSent
      BY DEF Shape, Streaming, Deciding, Over, Ending
    <3> QED
      BY <3>1 DEF Order, BeforeResponse, AfterResponse, NoBlock, OneResponse
  <2>5. Accounts'
    <3>1. CASE e = "event_data"
      <4>1. headersSent /\ ~terminal /\ ~deciding /\ fate = "unsettled"
        BY <3>1 DEF Shape, Streaming, Deciding, Over, Ending
      <4>2. delivered' + lost + carry = received
        BY <3>1 DEF Accounts, TypeOK
      <4> QED
        BY <4>1, <4>2 DEF Accounts
    <3>2. CASE e # "event_data"
      BY <3>2 DEF Accounts
    <3> QED
      BY <3>1, <3>2
  <2> QED
    BY <2>2, <2>3, <2>4, <2>5
<1>2. CASE Drop
  <2>1. /\ IsNext("drop") /\ effects' = effects \ {"drop"} /\ active' = FALSE
        /\ UNCHANGED <<headersSent, terminal, aborted, fetch, net, sent, queue, finished,
                       deciding, carry, received, tail, lost, utf8, abort, delivered, told,
                       chunks,
                       fate, counted>>
    BY <1>2 DEF Drop, session, netVars, queueVars, history
  <2>2. TypeOK'
    <3>1. effects' \subseteq Effects
      BY <2>1 DEF TypeOK
    <3>2. \A x \in {sent', carry', received', delivered', tail', lost', chunks'} : x \in Nat
      BY <2>1 DEF TypeOK
    <3>3. active' \in BOOLEAN
      BY <2>1
    <3>4. queue' \in Seq(Block) /\ told' \in Told
      BY <2>1 DEF TypeOK
    <3>5. /\ headersSent' \in BOOLEAN /\ terminal' \in BOOLEAN /\ aborted' \in BOOLEAN
          /\ finished' \in BOOLEAN /\ deciding' \in BOOLEAN /\ counted' \in BOOLEAN
          /\ utf8' \in BOOLEAN
      BY <2>1 DEF TypeOK
    <3>6. /\ fetch' \in {"register", "start", "done"}
          /\ net' \in {"none", "waiting", "held", "body", "complete"}
          /\ abort' \in {"idle", "store", "load", "cancel"}
          /\ fate' \in {"unsettled", "refused", "clean", "broken"}
      BY <2>1 DEF TypeOK
    <3> QED
      BY <3>1, <3>2, <3>3, <3>4, <3>5, <3>6 DEF TypeOK
  <2>3. Shape'
    BY <2>1, RankOrder DEF IsNext, Shape, Streaming, Deciding, Over, Ending
  <2>4. Order'
    BY <2>1 DEF Order, BeforeResponse, AfterResponse, NoBlock, OneResponse
  <2>5. Accounts'
    BY <2>1 DEF Accounts
  <2> QED
    BY <2>2, <2>3, <2>4, <2>5
<1> QED
  BY <1>1, <1>2

(* The abort call sets aborted and puts a block on the queue, no more.     *)
LEMMA AbortIInv ==
  ASSUME IInv, AbortCall
  PROVE  IInv'
<1> USE DEF IInv
<1>1. /\ UNCHANGED <<effects, active, netVars, queueVars, history, fate, counted,
                     headersSent, terminal>>
      /\ abort' \in {"idle", "store", "load", "cancel"} /\ aborted' \in BOOLEAN
      /\ fetch # "register"
  BY DEF AbortCall, AbortLookup, AbortStore, AbortLoad, AbortCancelIo, AbortStep,
    session, TypeOK, Order, Shape, Streaming, Deciding, Over
<1>2. /\ queue' \in Seq(Block)
      /\ NoBlock("response") => NoBlock("response")'
      /\ NoBlock("data") => NoBlock("data")'
      /\ OneResponse => OneResponse'
  <2>1. CASE UNCHANGED queue
    BY <2>1 DEF NoBlock, OneResponse, TypeOK
  <2>2. CASE Dispatch("cancel", 0)
    <3>1. [kind |-> "cancel", bytes |-> 0] \in Block
      BY DEF Block
    <3> QED
      BY <2>2, <3>1, Appended DEF TypeOK
  <2> QED
    BY <2>1, <2>2 DEF AbortCall, AbortLookup, AbortStore, AbortLoad, AbortCancelIo
<1> USE <1>1, <1>2 DEF netVars, queueVars, history
<1>3. TypeOK'
  BY DEF TypeOK
<1>4. Shape'
  BY DEF Shape, Streaming, Deciding, Over, Ending
<1>5. Order'
  BY DEF Order, BeforeResponse, AfterResponse
<1>6. Accounts'
  BY DEF Accounts
<1> QED
  BY <1>3, <1>4, <1>5, <1>6

(* A step that changes nothing.                                            *)
LEMMA StutterIInv ==
  ASSUME IInv, UNCHANGED vars
  PROVE  IInv'
<1> USE DEF IInv, vars, session, netVars, queueVars, history
<1>1. TypeOK'
  BY DEF TypeOK
<1>2. Shape'
  BY DEF Shape, Streaming, Deciding, Over, Ending
<1>3. Order' /\ Accounts'
  BY DEF Order, BeforeResponse, AfterResponse, NoBlock, OneResponse, Accounts
<1> QED
  BY <1>1, <1>2, <1>3

(* The invariant holds in every reachable state, for all bounds.           *)
THEOREM Inductive == Spec => []IInv
<1>1. IInv /\ [Next]_vars => IInv'
  BY FetchIInv, NetworkIInv, StaleIInv, ResponseIInv, DataIInv, FinishIInv,
    DecideIInv, ApplyIInv, AbortIInv, StutterIInv DEF Next, RunQueue, Finished
<1> QED
  BY InitIInv, <1>1, PTL DEF Spec

-----------------------------------------------------------------------------
(* A request that is over has left no handle in activeStreams, whichever   *)
(* way it finished, and if it ended well delivered every byte of the body  *)
(* but those of an unfinished character and, where the body is no valid    *)
(* UTF-8, of the slices NSString refused (StreamingHttpSession).           *)
THEOREM Settled == Spec => []RequestInvariant
<1>1. IInv => TypeOK
  BY DEF IInv
<1>2. IInv => NoLeakedHandle
  BY DEF IInv, Shape, Streaming, Deciding, Over, Ending, NoLeakedHandle
<1>3. IInv => CompleteBody
  BY DEF IInv, Accounts, CompleteBody
<1> QED
  BY <1>1, <1>2, <1>3, Inductive, PTL DEF RequestInvariant

-----------------------------------------------------------------------------
(* The refinement, step by step.  Most steps change nothing the contract   *)
(* knows of.                                                               *)
LEMMA HiddenStep ==
  ASSUME UNCHANGED <<told, fate, aborted, chunks>>
  PROVE  UNCHANGED Contract!cvars
BY DEF Contract!cvars

(* A step that settles the fate of the stream, from on_error or on_end.    *)
LEMMA Settles ==
  ASSUME IInv, NEW failed \in BOOLEAN, failed \/ ~aborted,
         effects = {}, fate = "unsettled", fate' = FateOf(failed),
         UNCHANGED <<told, aborted, chunks>>
  PROVE  Contract!CNext
<1>1. told = IF headersSent THEN "open" ELSE "pending"
  BY DEF IInv, Shape, Streaming, Deciding, Over, Ending
<1>2. FateOf(failed) \in {"refused", "broken", "clean"}
  BY DEF FateOf
<1>3. Contract!Settle("stream", FateOf(failed))
  BY <1>1 DEF Contract!Settle, FateOf
<1> QED
  BY <1>2, <1>3 DEF Contract!CNext, Contract!Fates

LEMMA ErrorSettles ==
  ASSUME IInv, OnError, effects = {}, ~deciding, UNCHANGED <<told, chunks>>
  PROVE  Contract!CNext \/ UNCHANGED Contract!cvars
<1>1. CASE terminal
  BY <1>1, HiddenStep DEF OnError, session
<1>2. CASE ~terminal
  <2>1. fate = "unsettled" /\ fate' = FateOf(TRUE) /\ aborted' = aborted
    BY <1>2 DEF OnError, IInv, Shape, Streaming, Deciding, Over
  <2> QED
    BY <2>1, Settles
<1> QED
  BY <1>1, <1>2

(* on_end settles it as it finds aborted, which nobody sets back.          *)
LEMMA DecideSettles ==
  ASSUME IInv, OnEndDecide
  PROVE  Contract!CNext
<1>1. fate = "unsettled" /\ effects = {} /\ aborted \in BOOLEAN
  BY DEF OnEndDecide, IInv, TypeOK, Shape, Streaming, Deciding, Over
<1>2. fate' = FateOf(aborted) /\ UNCHANGED <<told, aborted, chunks>>
  BY DEF OnEndDecide, session, history
<1> QED
  BY <1>1, <1>2, Settles

(* An emission is the contract's step of that name; the data that stands   *)
(* for what comes after the counted bytes is none.                         *)
LEMMA EmitEmits ==
  ASSUME IInv, Emit
  PROVE  Contract!CNext \/ UNCHANGED Contract!cvars
<1>1. PICK e \in {"callback_headers", "callback_fail", "event_data",
                  "event_error", "event_end"} :
        /\ IsNext(e)
        /\ told' = Advance(told, e)
        /\ IF e = "event_data"
           THEN chunks' = chunks + (IF counted THEN 1 ELSE 0)
           ELSE UNCHANGED chunks
        /\ UNCHANGED <<fate, aborted>>
  BY DEF Emit, session
<1>2. e \in effects /\ \A d \in effects : Rank[e] <= Rank[d]
  BY <1>1 DEF IsNext
<1> USE DEF IInv, Shape, Streaming, Deciding, Over, Ending, Advance
<1>3. CASE e = "callback_headers"
  <2>1. told = "pending" /\ fate = "unsettled" /\ told' = "open"
    BY <1>1, <1>2, <1>3
  <2>2. Contract!Respond("stream")
    BY <1>1, <1>3, <2>1 DEF Contract!Respond
  <2> QED
    BY <2>2 DEF Contract!CNext
<1>4. CASE e = "callback_fail"
  <2>1. told = "pending" /\ fate = "refused" /\ told' = "failed"
    BY <1>1, <1>2, <1>4
  <2>2. Contract!Refuse("stream")
    BY <1>1, <1>4, <2>1 DEF Contract!Refuse
  <2> QED
    BY <2>2 DEF Contract!CNext
<1>5. CASE e = "event_data"
  <2>1. told = "open" /\ fate = "unsettled" /\ told' = told
    BY <1>1, <1>2, <1>5
  <2>2. CASE counted
    <3>1. Contract!Data("stream")
      BY <1>1, <1>5, <2>1, <2>2 DEF Contract!Data
    <3> QED
      BY <3>1 DEF Contract!CNext
  <2>3. CASE ~counted
    <3>1. chunks' = chunks
      BY <1>1, <1>5, <2>3 DEF TypeOK
    <3> QED
      BY <1>1, <2>1, <3>1, HiddenStep
  <2> QED
    BY <2>2, <2>3
<1>6. CASE e = "event_error"
  <2>1. told = "open" /\ fate = "broken" /\ told' = "errored"
    BY <1>1, <1>2, <1>6
  <2>2. Contract!Error("stream")
    BY <1>1, <1>6, <2>1 DEF Contract!Error
  <2> QED
    BY <2>2 DEF Contract!CNext
<1>7. CASE e = "event_end"
  <2>1. (told = "open" /\ fate = "clean") \/ told = "errored"
    BY <1>2, <1>7, RankOrder
  <2>2. told' = "ended"
    BY <1>1, <1>7, <2>1
  <2>3. Contract!End("stream")
    BY <1>1, <1>7, <2>1, <2>2 DEF Contract!End
  <2> QED
    BY <2>3 DEF Contract!CNext
<1> QED
  BY <1>3, <1>4, <1>5, <1>6, <1>7

(* An abort call that finds the handle is the contract's Abort.            *)
LEMMA AbortAborts ==
  ASSUME IInv, AbortCall
  PROVE  Contract!CNext \/ UNCHANGED Contract!cvars
<1>1. CASE AbortStore /\ ~aborted
  <2>1. Contract!Abort("stream")
    BY <1>1 DEF AbortStore, AbortStep, Contract!Abort, history
  <2> QED
    BY <2>1 DEF Contract!CNext
<1>2. CASE ~(AbortStore /\ ~aborted)
  <2>1. UNCHANGED <<told, fate, aborted, chunks>>
    BY <1>2 DEF AbortCall, AbortLookup, AbortStore, AbortLoad, AbortCancelIo,
      AbortStep, session, history, IInv, TypeOK
  <2> QED
    BY <2>1, HiddenStep
<1> QED
  BY <1>1, <1>2

(* The iOS host implements the stream contract, for all bounds: every step *)
(* of a block or of the aborting thread is a step the contract allows, or  *)
(* changes nothing JavaScript can see; an abort between the two halves of  *)
(* on_end rules out the clean ending like an earlier one.                  *)
THEOREM Implements == Spec => ContractSpec
<1>1. Init => Contract!CInit
  BY DEF Init, SessionInit, Contract!CInit
<1>2. IInv /\ [Next]_vars => [Contract!CNext]_(Contract!cvars)
  <2> SUFFICES ASSUME IInv, [Next]_vars
               PROVE  Contract!CNext \/ UNCHANGED Contract!cvars
    OBVIOUS
  <2>1. CASE Register \/ Start \/ Network \/ RunStale \/ RunResponse \/ RunData
               \/ RunFinish \/ Drop \/ UNCHANGED vars
    <3>1. UNCHANGED <<told, fate, aborted, chunks>>
      BY <2>1 DEF Register, Start, Network, DidReceiveResponse, DidReceiveData,
        DidComplete, RunStale, RunResponse, RunData, TakeIn, RunFinish, OnEndClaim, Drop,
        session, history, vars
    <3> QED
      BY <3>1, HiddenStep
  <2>2. CASE StartInvalidUrl
    BY <2>2, ErrorSettles DEF StartInvalidUrl, history
  <2>3. CASE RunFail \/ RunCancel
    BY <2>3, ErrorSettles DEF RunFail, RunCancel, Running, history
  <2>4. CASE OnEndDecide
    BY <2>4, DecideSettles
  <2>5. CASE Emit
    BY <2>5, EmitEmits
  <2>6. CASE AbortCall
    BY <2>6, AbortAborts
  <2> QED
    BY <2>1, <2>2, <2>3, <2>4, <2>5, <2>6 DEF Next, Fetch, RunQueue, Finished
<1> QED
  BY <1>1, <1>2, Inductive, PTL DEF Spec, ContractSpec, Contract!ContractSpec
=============================================================================
