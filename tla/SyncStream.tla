----------------------------- MODULE SyncStream -----------------------------
(***************************************************************************)
(* The JavaScript end of the native streaming transport                    *)
(* (src/sync/transport/NativeHttpFetch.ts and events.ts) on top of the     *)
(* stream contract.  Native code posts the one-shot Callback and the       *)
(* GlobalEventEmitter events to the JavaScript thread by different routes, *)
(* so events may run before the Callback that announces their stream;      *)
(* events.ts buffers those.  Streams stands for fetch calls and for the    *)
(* streaming ids native code gives them alike: ids are never reused.       *)
(***************************************************************************)
EXTENDS StreamContract, Sequences, FiniteSets

CONSTANTS
  MaxChunks,    \* bound: onData events of one stream
  MaxEarly,     \* MAX_EARLY_EVENTS_PER_STREAM
  MaxRetired    \* MAX_RETIRED_STREAM_NAMES

ASSUME LimitsAssumption ==
  /\ MaxChunks \in Nat /\ MaxEarly \in Nat \ {0, 1} /\ MaxRetired \in Nat \ {0}
  /\ "another" \notin Streams

VARIABLES
  answer,     \* answer[s]: the Callback on its way to the JavaScript thread
  events,     \* events[s]: events on their way, in the order they were sent
  abortReq,   \* abortReq[s]: an httpFetchAbort call on its way to native
  promise,    \* promise[s]: the Promise of fetchViaNativeHttp
  gaveUp,     \* gaveUp[s]: its local aborted flag
  early,      \* early[s]: earlyEvents.get(s); <<>> when there is no entry
  retired,    \* retiredStreamNames
  order,      \* retiredOrder
  evicted,    \* history: streams whose retired name was evicted
  handler,    \* handler[s]: streamHandlers has the reader's onEvent
  slotted,    \* slotted[s]: a slot listener was added for s
  buffer,     \* buffer[s]: the reader's queue
  finished,   \* finished[s]: the reader's finished flag
  failure,    \* failure[s]: the reader's failure is set
  nativeAborted, \* nativeAborted[s]: the reader called httpFetchAbort
  consumer,   \* consumer[s]: the one that reads the body
  got         \* got[s]: history: the chunks read() returned

native  == <<phase, fate, aborted, chunks>>
wire    == <<answer, events, abortReq>>
fetcher == <<promise, gaveUp>>
capture == <<early, retired, order, evicted>>
reader  == <<handler, slotted, buffer, finished, failure, nativeAborted>>
vars    == <<native, wire, fetcher, capture, reader, consumer, got>>

(* The name of any stream but those of Streams: the application's other    *)
(* streams are retired too, and evict the names of these.                  *)
Another == "another"

Event(e, n) == [event |-> e, chunk |-> n]
Events == [event : {"onData", "onError", "onEnd"}, chunk : Nat]

TypeOK ==
  /\ CTypeOK
  /\ answer \in [Streams -> {"none", "headers", "fail", "run"}]
  /\ events \in [Streams -> Seq(Events)] /\ early \in [Streams -> Seq(Events)]
  /\ promise \in [Streams -> {"none", "pending", "resolved", "rejected"}]
  /\ retired \subseteq Streams \cup {Another}
  /\ order \in Seq(Streams \cup {Another}) /\ Len(order) <= MaxRetired
  /\ evicted \subseteq Streams
  /\ \A s \in Streams : Len(early[s]) <= MaxEarly
  /\ consumer \in [Streams ->
       {"none", "idle", "waiting", "done", "failed", "cancelled"}]
  /\ buffer \in [Streams -> Seq(Nat)] /\ got \in [Streams -> Seq(Nat)]
  /\ \A f \in {abortReq, gaveUp, handler, slotted, finished, failure,
               nativeAborted} : f \in [Streams -> BOOLEAN]

Init ==
  /\ CInit
  /\ answer = [s \in Streams |-> "none"]
  /\ events = [s \in Streams |-> <<>>]
  /\ promise = [s \in Streams |-> "none"]
  /\ early = [s \in Streams |-> <<>>]
  /\ retired = {} /\ order = <<>> /\ evicted = {}
  /\ buffer = [s \in Streams |-> <<>>] /\ got = [s \in Streams |-> <<>>]
  /\ consumer = [s \in Streams |-> "none"]
  /\ LET no == [s \in Streams |-> FALSE] IN
     /\ abortReq = no /\ gaveUp = no /\ handler = no /\ slotted = no
     /\ finished = no /\ failure = no /\ nativeAborted = no

-----------------------------------------------------------------------------
(* The native host: the contract's steps and what each puts on the wire.   *)
Post(s, e, n) == events' = [events EXCEPT ![s] = Append(@, Event(e, n))]

NativeStep(s) ==
  /\ promise[s] # "none"
  /\ \/ Respond(s) /\ answer' = [answer EXCEPT ![s] = "headers"]
        /\ UNCHANGED events
     \/ Refuse(s) /\ answer' = [answer EXCEPT ![s] = "fail"]
        /\ UNCHANGED events
     \/ Error(s) /\ Post(s, "onError", 0) /\ UNCHANGED answer
     \/ End(s) /\ Post(s, "onEnd", 0) /\ UNCHANGED answer
  /\ UNCHANGED <<abortReq, fetcher, capture, reader, consumer, got>>

NativeData(s) ==
  /\ chunks[s] < MaxChunks
  /\ Data(s)
  /\ Post(s, "onData", chunks[s] + 1)
  /\ UNCHANGED <<answer, abortReq, fetcher, capture, reader, consumer, got>>

NativeSettle(s) ==
  /\ promise[s] # "none"
  /\ \E f \in Fates : Settle(s, f)
  /\ UNCHANGED <<wire, fetcher, capture, reader, consumer, got>>

(* httpFetchAbort reaches native: nothing happens to a stream that is gone.*)
NativeAbort(s) ==
  /\ abortReq[s]
  /\ abortReq' = [abortReq EXCEPT ![s] = FALSE]
  /\ IF fate[s] = "unsettled" /\ ~aborted[s] THEN Abort(s) ELSE UNCHANGED native
  /\ UNCHANGED <<answer, events, fetcher, capture, reader, consumer, got>>

(* requestNativeAbort, when there is a stream to abort. *)
RequestNativeAbort(s, due) == abortReq' = [abortReq EXCEPT ![s] = @ \/ due]

-----------------------------------------------------------------------------
(* events.ts: the early-event store.  The operators work on a record so    *)
(* that one action can apply several of them.                              *)
Store == [early |-> early, retired |-> retired, order |-> order,
          evicted |-> evicted]

SetStore(st) ==
  /\ early' = st.early /\ retired' = st.retired /\ order' = st.order
  /\ evicted' = st.evicted

(* retireStream: evict the oldest name when the set is full.               *)
Retire(st, s) ==
  IF s \in st.retired THEN st
  ELSE LET all  == Append(st.order, s)
           kept == IF Len(all) > MaxRetired THEN Tail(all) ELSE all
           gone == IF Len(all) > MaxRetired THEN {Head(all)} ELSE {}
       IN [st EXCEPT !.order = kept, !.retired = (@ \cup {s}) \ gone,
                     !.evicted = @ \cup (gone \ {Another})]

(* Mutant: an overflow that does not fail the reader.                      *)
RememberCutShort(st, s, e) ==
  IF s \in st.retired THEN st
  ELSE IF Len(st.early[s]) < MaxEarly
       THEN [st EXCEPT !.early[s] = Append(@, e)]
  ELSE Retire([st EXCEPT !.early[s] = <<Event("onEnd", 0)>>], s)

(* rememberEarly, for an emitter on which s has no handler.                *)
Remember(st, s, e) ==
  IF s \in st.retired THEN st
  ELSE IF Len(st.early[s]) < MaxEarly
       THEN [st EXCEPT !.early[s] = Append(@, e)]
  ELSE Retire([st EXCEPT
         !.early[s] = <<Event("onError", 0), Event("onEnd", 0)>>], s)

Forget(st, s) == [st EXCEPT !.early[s] = <<>>]

(* The reader's onEvent applied to a list of events: the chunk of its j-th *)
(* onData event is the j-th to be queued.                                  *)
Has(list, e) == \E i \in DOMAIN list : list[i].event = e

DataAt(list) == {i \in DOMAIN list : list[i].event = "onData"}

JthData(list, j) ==
  CHOOSE i \in DataAt(list) : Cardinality(DataAt(list) \cap 1 .. i) = j

DataChunks(list) ==
  [j \in 1 .. Cardinality(DataAt(list)) |-> list[JthData(list, j)].chunk]

OnEvents(s, list) ==
  /\ buffer' = [buffer EXCEPT ![s] = @ \o DataChunks(list)]
  /\ failure' = [failure EXCEPT ![s] = @ \/ Has(list, "onError")]
  /\ finished' = [finished EXCEPT ![s] = @ \/ Has(list, "onEnd")]
  /\ handler' = [handler EXCEPT ![s] = ~Has(list, "onEnd")]

-----------------------------------------------------------------------------
(* fetchViaNativeHttp: hook the emitter, then call httpFetch.              *)
Fetch(s) ==
  /\ promise[s] = "none"
  /\ promise' = [promise EXCEPT ![s] = "pending"]
  /\ UNCHANGED <<native, wire, gaveUp, capture, reader, consumer, got>>

(* onAbort.  While the Promise is pending the streaming id is not known    *)
(* yet, so there is no native abort to request.                            *)
SignalAbort(s) ==
  /\ promise[s] = "pending"
  /\ promise' = [promise EXCEPT ![s] = "rejected"]
  /\ gaveUp' = [gaveUp EXCEPT ![s] = TRUE]
  /\ UNCHANGED <<native, wire, capture, reader, consumer, got>>

(* Mutant: the reader binds its handler but does not drain the buffer.     *)
AttachReaderUndrained(s) ==
  /\ slotted' = [slotted EXCEPT ![s] = TRUE]
  /\ OnEvents(s, <<>>)
  /\ early' = [early EXCEPT ![s] = <<>>]
  /\ retired' = retired \ {s}
  /\ consumer' = [consumer EXCEPT ![s] = "idle"]
  /\ UNCHANGED <<order, evicted, nativeAborted>>

(* createStreamingReader: bind the handler, deliver what was buffered,     *)
(* and un-retire the name if the handler survived that.                    *)
AttachReader(s) ==
  /\ slotted' = [slotted EXCEPT ![s] = TRUE]
  /\ OnEvents(s, early[s])
  /\ early' = [early EXCEPT ![s] = <<>>]
  /\ retired' = IF Has(early[s], "onEnd") THEN retired ELSE retired \ {s}
  /\ consumer' = [consumer EXCEPT ![s] = "idle"]
  /\ UNCHANGED <<order, evicted, nativeAborted>>

(* Mutant: a late Callback is ignored.                                     *)
CallbackLateIgnored(s) ==
  /\ answer[s] \in {"headers", "fail"} /\ gaveUp[s]
  /\ answer' = [answer EXCEPT ![s] = "run"]
  /\ UNCHANGED <<native, events, abortReq, fetcher, capture, reader, consumer,
                 got>>

(* The Callback passed to httpFetch.                                       *)
CallbackLate(s) ==
  /\ answer[s] \in {"headers", "fail"} /\ gaveUp[s]
  /\ RequestNativeAbort(s, answer[s] = "headers")
  /\ answer' = [answer EXCEPT ![s] = "run"]
  /\ UNCHANGED <<native, events, fetcher, capture, reader, consumer, got>>

CallbackFail(s) ==
  /\ answer[s] = "fail" /\ ~gaveUp[s]
  /\ answer' = [answer EXCEPT ![s] = "run"]
  /\ promise' = [promise EXCEPT ![s] = "rejected"]
  /\ UNCHANGED <<native, events, abortReq, gaveUp, capture, reader, consumer, got>>

CallbackHeaders(s) ==
  /\ answer[s] = "headers" /\ ~gaveUp[s]
  /\ answer' = [answer EXCEPT ![s] = "run"]
  /\ promise' = [promise EXCEPT ![s] = "resolved"]
  /\ AttachReader(s)
  /\ UNCHANGED <<native, events, abortReq, gaveUp, got>>

-----------------------------------------------------------------------------
(* Mutant: an onEnd does not wake the read.                                *)
WakeByData(c, e) == IF c = "waiting" /\ e.event # "onEnd" THEN "idle" ELSE c

Wake(c, e) == IF c = "waiting" THEN "idle" ELSE c

(* One event runs: the wrapped emit remembers it unless a handler is bound,*)
(* then the slot listener hands it to the handler or remembers it (again). *)
(* An onEnd releases the handler and the buffer; a waiting read wakes.     *)
DeliverEvent(s) ==
  LET e == Head(events[s])
      once == Remember(Store, s, e)
  IN
  /\ events[s] # <<>>
  /\ events' = [events EXCEPT ![s] = Tail(@)]
  /\ IF handler[s]
     THEN /\ OnEvents(s, <<e>>)
          /\ SetStore(IF e.event = "onEnd" THEN Forget(Store, s) ELSE Store)
          /\ consumer' = [consumer EXCEPT ![s] = Wake(@, e)]
          /\ UNCHANGED <<slotted, nativeAborted>>
     ELSE /\ SetStore(IF slotted[s] THEN Remember(once, s, e) ELSE once)
          /\ UNCHANGED <<reader, consumer>>
  /\ UNCHANGED <<native, answer, abortReq, fetcher, got>>

(* One turn of read()'s loop: a failure goes before buffered chunks.       *)
ReadFails(s) ==
  /\ consumer[s] = "idle" /\ failure[s]
  /\ consumer' = [consumer EXCEPT ![s] = "failed"]
  /\ UNCHANGED <<native, wire, fetcher, capture, reader, got>>

ReadChunk(s) ==
  /\ consumer[s] = "idle" /\ ~failure[s] /\ buffer[s] # <<>>
  /\ got' = [got EXCEPT ![s] = Append(@, Head(buffer[s]))]
  /\ buffer' = [buffer EXCEPT ![s] = Tail(@)]
  /\ UNCHANGED <<native, wire, fetcher, capture, handler, slotted, finished,
                 failure, nativeAborted, consumer>>

ReadDone(s) ==
  /\ consumer[s] = "idle" /\ ~failure[s] /\ buffer[s] = <<>> /\ finished[s]
  /\ consumer' = [consumer EXCEPT ![s] = "done"]
  /\ UNCHANGED <<native, wire, fetcher, capture, reader, got>>

ReadWaits(s) ==
  /\ consumer[s] = "idle" /\ ~failure[s] /\ buffer[s] = <<>> /\ ~finished[s]
  /\ consumer' = [consumer EXCEPT ![s] = "waiting"]
  /\ UNCHANGED <<native, wire, fetcher, capture, reader, got>>

(* Mutant: cancel releases the reader but does not retire its name.        *)
CancelUnretired(s) ==
  /\ consumer[s] \notin {"none", "cancelled"}
  /\ consumer' = [consumer EXCEPT ![s] = "cancelled"]
  /\ finished' = [finished EXCEPT ![s] = TRUE]
  /\ nativeAborted' = [nativeAborted EXCEPT ![s] = TRUE]
  /\ RequestNativeAbort(s, ~nativeAborted[s])
  /\ SetStore(Forget(Store, s))
  /\ handler' = [handler EXCEPT ![s] = FALSE]
  /\ UNCHANGED <<native, answer, events, fetcher, slotted, buffer, failure, got>>

(* cancel().  The consumer is the PowerSync SDK: it reads one chunk at a   *)
(* time, may cancel at any time, and reads no more once it has cancelled.  *)
Cancel(s) ==
  /\ consumer[s] \notin {"none", "cancelled"}
  /\ consumer' = [consumer EXCEPT ![s] = "cancelled"]
  /\ finished' = [finished EXCEPT ![s] = TRUE]
  /\ nativeAborted' = [nativeAborted EXCEPT ![s] = TRUE]
  /\ RequestNativeAbort(s, ~nativeAborted[s])
  /\ SetStore(Retire(Forget(Store, s), s))
  /\ handler' = [handler EXCEPT ![s] = FALSE]
  /\ UNCHANGED <<native, answer, events, fetcher, slotted, buffer, failure, got>>

(* One of the other streams is cancelled or overflows.                     *)
OtherRetires ==
  /\ SetStore(Retire([Store EXCEPT !.retired = @ \ {Another}], Another))
  /\ UNCHANGED <<native, wire, fetcher, reader, consumer, got>>

-----------------------------------------------------------------------------
HostTurn(s) == NativeStep(s) \/ NativeSettle(s) \/ NativeAbort(s)

JsTurn(s) ==
  \/ CallbackLate(s) \/ CallbackFail(s) \/ CallbackHeaders(s)
  \/ DeliverEvent(s)
  \/ ReadFails(s) \/ ReadChunk(s) \/ ReadDone(s) \/ ReadWaits(s)

Step(s) ==
  HostTurn(s) \/ NativeData(s) \/ JsTurn(s) \/ Fetch(s) \/ SignalAbort(s) \/ Cancel(s)

Idle(s) ==
  /\ promise[s] \in {"resolved", "rejected"} /\ phase[s] \in {"failed", "ended"}
  /\ answer[s] = "run" /\ events[s] = <<>> /\ ~abortReq[s]

Finished == (\A s \in Streams : Idle(s)) /\ UNCHANGED vars

Next == (\E s \in Streams : Step(s)) \/ OtherRetires \/ Finished

Spec == Init /\ [][Next]_vars

(* Posted calls and microtasks run.  The hosts answer every request, emit  *)
(* what they settled, and end a stream that was aborted (EveryFetchAnswered*)
(* and AbortStopsStream of AndroidStream and IosStream); a stream nobody   *)
(* aborts may go on forever.                                               *)
HostAnswers(s) == promise[s] # "none" /\ phase[s] = "pending" /\ HostTurn(s)
HostSettlesAborted(s) == aborted[s] /\ NativeSettle(s)
HostEmits(s) == fate[s] # "unsettled" /\ NativeStep(s)

Fairness == \A s \in Streams :
  /\ WF_vars(JsTurn(s))
  /\ WF_vars(HostAnswers(s)) /\ WF_vars(HostSettlesAborted(s))
  /\ WF_vars(HostEmits(s)) /\ WF_vars(NativeAbort(s))

FairSpec == Spec /\ Fairness

-----------------------------------------------------------------------------
(* The body is read in order, nothing lost and nothing twice, whichever of *)
(* its events ran before the Callback: what read() returned and may still  *)
(* return are the first chunks the host sent.  A reader that failed returns*)
(* no more of its queue, which after an overflow may have a gap.           *)
InOrder ==
  \A s \in Streams :
    LET all == got[s] \o (IF failure[s] THEN <<>> ELSE buffer[s]) IN
    \A i \in DOMAIN all : all[i] = i

(* read() reports the end of the body only for a stream that ended cleanly *)
(* and only after every chunk: a broken, aborted or overflowed stream is   *)
(* never mistaken for a complete one.                                      *)
DoneMeansComplete ==
  \A s \in Streams : consumer[s] = "done" =>
    fate[s] = "clean" /\ Len(got[s]) = chunks[s]

(* The state is well typed - the early buffer and the retired names within *)
(* their bounds - and what read() returns is the body, in order and whole. *)
ReaderInvariant == TypeOK /\ InOrder /\ DoneMeansComplete

(* A reader that finished, by onEnd or by cancel, leaves neither a handler *)
(* nor buffered events behind, however late the host's last events come    *)
(* (events.ts, retiredStreamNames) - as long as its name is remembered: a  *)
(* name that MaxRetired later ones have evicted no longer protects it.     *)
ReleasedLeavesNothing ==
  \A s \in Streams \ evicted : finished[s] => early[s] = <<>> /\ ~handler[s]

(* A read never waits on a stream that is over, not even one whose early   *)
(* events overflowed.                                                      *)
NoHangAfterEnd ==
  \A s \in Streams :
    [](phase[s] = "ended" /\ consumer[s] = "waiting" => <>(consumer[s] # "waiting"))

(* Giving up, before the Callback or by cancelling the reader, ends the    *)
(* native request in the end, although the id needed for that may only     *)
(* come with a late Callback (docs/adr/0003, residual).                    *)
GivingUpEndsNative ==
  \A s \in Streams :
    [](gaveUp[s] \/ consumer[s] = "cancelled" => <>(phase[s] \in {"failed", "ended"}))
=============================================================================
