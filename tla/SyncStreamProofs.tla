-------------------------- MODULE SyncStreamProofs --------------------------
(***************************************************************************)
(* Theorems about SyncStream, for any number of streams and all bounds: the*)
(* body is read in order and whole, whenever its events run and whatever   *)
(* the buffer of early events and the list of retired names drop, and a    *)
(* reader that finished leaves nothing behind.                             *)
(***************************************************************************)
EXTENDS SyncStream, FiniteSetTheorems, SequenceTheorems, TLAPS

(* The events of a stream are one sequence, onData* -> onError? -> onEnd;  *)
(* Total(s) of them were sent, and the first Seen(s) have run.             *)
Errs(s) ==
  IF phase[s] = "errored" \/ (phase[s] = "ended" /\ fate[s] = "broken") THEN 1 ELSE 0
Ends(s) == IF phase[s] = "ended" THEN 1 ELSE 0
Total(s) == chunks[s] + Errs(s) + Ends(s)
Seen(s) == Total(s) - Len(events[s])

SentAt(s, i) ==
  IF i <= chunks[s] THEN Event("onData", i)
  ELSE IF i = chunks[s] + 1 /\ Errs(s) = 1 THEN Event("onError", 0)
  ELSE Event("onEnd", 0)

(* What is on its way is the rest of that sequence.                        *)
Wire(s) ==
  /\ phase[s] = "pending" => answer[s] = "none"
  /\ phase[s] = "errored" => fate[s] = "broken"
  /\ phase[s] = "ended" => fate[s] \in {"clean", "broken"}
  /\ Len(events[s]) <= Total(s)
  /\ \A i \in 1 .. Len(events[s]) : events[s][i] = SentAt(s, Seen(s) + i)

(* Before the reader exists, its early events are those that have run, or  *)
(* they overflowed: then they start with a failure and an end, and more    *)
(* follow only if the name was evicted.                                    *)
Intact(s) ==
  /\ s \notin retired
  /\ Len(early[s]) = Seen(s)
  /\ \A i \in 1 .. Len(early[s]) : early[s][i] = SentAt(s, i)

Overflown(s) ==
  /\ Len(early[s]) >= 2 /\ Len(early[s]) - 2 <= Seen(s)
  /\ early[s][1].event = "onError" /\ early[s][2].event = "onEnd"
  /\ s \in retired \cup evicted
  /\ s \in retired => Len(early[s]) = 2
  /\ \A i \in 3 .. Len(early[s]) : early[s][i] = SentAt(s, Seen(s) - Len(early[s]) + i)

Unread(s) ==
  /\ ~handler[s] /\ ~slotted[s] /\ ~finished[s] /\ ~failure[s]
  /\ buffer[s] = <<>> /\ got[s] = <<>>
  /\ Intact(s) \/ Overflown(s)

(* A reader that has not failed has had exactly the chunks that have run,  *)
(* and is finished when onEnd has.                                         *)
Whole(s) ==
  /\ Len(got[s]) + Len(buffer[s]) = IF Seen(s) <= chunks[s] THEN Seen(s) ELSE chunks[s]
  /\ Seen(s) <= chunks[s] \/ Errs(s) = 0
  /\ finished[s] <=> Ends(s) = 1 /\ Seen(s) = Total(s)

Reading(s) ==
  /\ answer[s] = "run"
  /\ handler[s] <=> ~finished[s]
  /\ failure[s] \/ Whole(s)
  /\ consumer[s] = "done" => finished[s] /\ ~failure[s] /\ buffer[s] = <<>>

Cancelled(s) == answer[s] = "run" /\ finished[s] /\ ~handler[s]

(* What read() returned, and what it may still return, counts up from 1.   *)
Ordered(s) ==
  /\ \A i \in 1 .. Len(got[s]) : got[s][i] = i
  /\ failure[s] \/ \A i \in 1 .. Len(buffer[s]) : buffer[s][i] = Len(got[s]) + i

(* After the end nothing is kept for the stream: its name is retired, or   *)
(* nothing more comes.                                                     *)
Released(s) ==
  finished[s] /\ s \notin evicted =>
    /\ early[s] = <<>>
    /\ s \in retired \/ (phase[s] = "ended" /\ events[s] = <<>>)

StreamInv(s) ==
  /\ Wire(s) /\ Ordered(s) /\ Released(s)
  /\ \/ consumer[s] = "none" /\ Unread(s)
     \/ consumer[s] \in {"idle", "waiting", "done", "failed"} /\ Reading(s)
     \/ consumer[s] = "cancelled" /\ Cancelled(s)

IInv == TypeOK /\ \A s \in Streams : StreamInv(s)

-----------------------------------------------------------------------------
(* The store of events.ts on its own.                                      *)
Names == Streams \cup {Another}

StoreType ==
  [early : {e \in [Streams -> Seq(Events)] : \A s \in Streams : Len(e[s]) <= MaxEarly},
   retired : SUBSET Names,
   order : {o \in Seq(Names) : Len(o) <= MaxRetired},
   evicted : SUBSET Streams]

(* What a change of the store by another stream does to s: at most its     *)
(* retired name is evicted.                                                *)
Spares(st, r, s) ==
  /\ r.early[s] = st.early[s]
  /\ st.evicted \subseteq r.evicted
  /\ s \in st.retired => s \in r.retired \cup r.evicted
  /\ s \in r.retired => s \in st.retired

LEMMA EventTypes ==
  /\ \A n \in Nat : Event("onData", n) \in Events
  /\ Event("onError", 0) \in Events /\ Event("onEnd", 0) \in Events
  /\ \A n : /\ Event("onData", n).event = "onData" /\ Event("onData", n).chunk = n
            /\ Event("onError", n).event = "onError" /\ Event("onEnd", n).event = "onEnd"
BY DEF Event, Events

LEMMA RetireType ==
  ASSUME NEW st \in StoreType, NEW s \in Names
  PROVE  /\ Retire(st, s) \in StoreType
         /\ Retire(st, s).early = st.early
         /\ s \in Streams => s \in Retire(st, s).retired \cup Retire(st, s).evicted
         /\ st.evicted \subseteq Retire(st, s).evicted
         /\ \A x \in Streams \ {s} : Spares(st, Retire(st, s), x)
<1> DEFINE all == Append(st.order, s)
           gone == IF Len(all) > MaxRetired THEN {Head(all)} ELSE {}
           kept == IF Len(all) > MaxRetired THEN Tail(all) ELSE all
<1>1. CASE s \in st.retired
  BY <1>1 DEF Retire, Spares
<1>2. CASE s \notin st.retired
  <2>1. st.order \in Seq(Names) /\ Len(st.order) <= MaxRetired
    BY DEF StoreType
  <2>2. /\ all \in Seq(Names) /\ Len(all) = Len(st.order) + 1
    BY <2>1
  <2>3. /\ kept \in Seq(Names) /\ Len(kept) <= MaxRetired /\ gone \subseteq Names
    BY <2>1, <2>2, LimitsAssumption
  <2>4. Retire(st, s) = [st EXCEPT !.order = kept, !.retired = (@ \cup {s}) \ gone,
                                   !.evicted = @ \cup (gone \ {Another})]
    BY <1>2 DEF Retire
  <2> HIDE DEF all, gone, kept
  <2> DEFINE r == Retire(st, s)
  <2>5. /\ r.early = st.early /\ r.order = kept
        /\ r.retired = (st.retired \cup {s}) \ gone
        /\ r.evicted = st.evicted \cup (gone \ {Another})
    BY <2>4 DEF StoreType
  <2>6. r.retired \subseteq Names /\ r.evicted \subseteq Streams
    BY <2>3, <2>5 DEF StoreType, Names
  <2>7. r \in StoreType
    BY <2>3, <2>4, <2>5, <2>6 DEF StoreType
  <2>8. \A x \in Streams : x # Another
    BY LimitsAssumption DEF Another
  <2> QED
    BY <2>5, <2>7, <2>8 DEF Spares
<1> QED
  BY <1>1, <1>2

LEMMA RememberType ==
  ASSUME NEW st \in StoreType, NEW s \in Streams, NEW e \in Events
  PROVE  /\ Remember(st, s, e) \in StoreType
         /\ \A x \in Streams \ {s} : Spares(st, Remember(st, s, e), x)
         /\ st.evicted \subseteq Remember(st, s, e).evicted
         /\ s \in st.retired => Remember(st, s, e) = st
         /\ s \notin st.retired /\ Len(st.early[s]) < MaxEarly =>
              Remember(st, s, e) = [st EXCEPT !.early[s] = Append(@, e)]
         /\ s \notin st.retired /\ Len(st.early[s]) >= MaxEarly =>
              /\ Remember(st, s, e).early[s] = <<Event("onError", 0), Event("onEnd", 0)>>
              /\ s \in Remember(st, s, e).retired \cup Remember(st, s, e).evicted
<1>1. CASE s \in st.retired
  BY <1>1 DEF Remember, Spares
<1>2. CASE s \notin st.retired /\ Len(st.early[s]) < MaxEarly
  <2> DEFINE r == [st EXCEPT !.early[s] = Append(@, e)]
  <2>1. Remember(st, s, e) = r
    BY <1>2 DEF Remember
  <2>2. /\ st.early[s] \in Seq(Events) /\ Len(st.early[s]) \in Nat
        /\ Append(st.early[s], e) \in Seq(Events)
        /\ Len(Append(st.early[s], e)) <= MaxEarly
    BY <1>2, LimitsAssumption DEF StoreType
  <2>3. /\ r.early = [st.early EXCEPT ![s] = Append(st.early[s], e)]
        /\ r.retired = st.retired /\ r.evicted = st.evicted /\ r.order = st.order
    BY DEF StoreType
  <2>4. r.early \in {x \in [Streams -> Seq(Events)] : \A y \in Streams : Len(x[y]) <= MaxEarly}
    BY <2>2, <2>3 DEF StoreType
  <2>5. r \in StoreType
    BY <2>3, <2>4 DEF StoreType
  <2>6. \A x \in Streams \ {s} : Spares(st, r, x)
    BY <2>3 DEF Spares, StoreType
  <2>7. st.evicted \subseteq r.evicted
    BY <2>3
  <2>8. ~(Len(st.early[s]) >= MaxEarly)
    BY <1>2, <2>2, LimitsAssumption
  <2> HIDE DEF r
  <2>9. Remember(st, s, e) = [st EXCEPT !.early[s] = Append(@, e)]
    BY <2>1 DEF r
  <2> QED
    BY <1>2, <2>1, <2>5, <2>6, <2>7, <2>8, <2>9
<1>3. CASE s \notin st.retired /\ ~(Len(st.early[s]) < MaxEarly)
  <2> DEFINE two == <<Event("onError", 0), Event("onEnd", 0)>>
             cut == [st EXCEPT !.early[s] = two]
  <2>1. Remember(st, s, e) = Retire(cut, s)
    BY <1>3 DEF Remember
  <2>2. two \in Seq(Events) /\ Len(two) = 2 /\ 2 <= MaxEarly
    BY EventTypes, LimitsAssumption
  <2> HIDE DEF two
  <2>3. /\ cut.early = [st.early EXCEPT ![s] = two]
        /\ cut.retired = st.retired /\ cut.evicted = st.evicted /\ cut.order = st.order
    BY DEF StoreType
  <2>4. cut.early \in {x \in [Streams -> Seq(Events)] : \A y \in Streams : Len(x[y]) <= MaxEarly}
    BY <2>2, <2>3 DEF StoreType
  <2>5. cut \in StoreType
    BY <2>3, <2>4 DEF StoreType
  <2> HIDE DEF cut
  <2>6. /\ Retire(cut, s) \in StoreType /\ Retire(cut, s).early = cut.early
        /\ s \in Retire(cut, s).retired \cup Retire(cut, s).evicted
        /\ cut.evicted \subseteq Retire(cut, s).evicted
        /\ \A x \in Streams \ {s} : Spares(cut, Retire(cut, s), x)
    BY <2>5, RetireType DEF Names
  <2>7. \A x \in Streams \ {s} : Spares(st, Retire(cut, s), x)
    BY <2>3, <2>6 DEF Spares, StoreType
  <2>8. cut.early[s] = two
    BY <2>3 DEF StoreType
  <2> QED
    BY <1>3, <2>1, <2>3, <2>6, <2>7, <2>8 DEF two
<1> QED
  BY <1>1, <1>2, <1>3

(* The chunks of a list whose onData events stand together.                *)
LEMMA DataRun ==
  ASSUME NEW list \in Seq(Events), NEW a \in Nat \ {0}, NEW b \in Int,
         DataAt(list) = a .. b
  PROVE  /\ DataChunks(list) \in Seq(Nat)
         /\ Len(DataChunks(list)) = IF a > b THEN 0 ELSE b - a + 1
         /\ \A j \in 1 .. Len(DataChunks(list)) : DataChunks(list)[j] = list[a + j - 1].chunk
<1> DEFINE n == IF a > b THEN 0 ELSE b - a + 1
<1>1. Cardinality(DataAt(list)) = n /\ n \in Nat
  BY FS_Interval
<1>2. \A i \in a .. b : Cardinality(DataAt(list) \cap 1 .. i) = i - a + 1
  <2> TAKE i \in a .. b
  <2>1. DataAt(list) \cap 1 .. i = a .. i
    OBVIOUS
  <2>2. Cardinality(a .. i) = IF a > i THEN 0 ELSE i - a + 1
    BY FS_Interval
  <2>3. Cardinality(a .. i) = i - a + 1
    BY <2>2
  <2> QED
    BY <2>1, <2>3, Zenon
<1>3. \A j \in 1 .. n : JthData(list, j) = a + j - 1
  <2> TAKE j \in 1 .. n
  <2>1. a + j - 1 \in a .. b
    OBVIOUS
  <2>2. Cardinality(DataAt(list) \cap 1 .. (a + j - 1)) = j
    BY <1>2, <2>1
  <2>3. \A i \in a .. b : Cardinality(DataAt(list) \cap 1 .. i) = j => i = a + j - 1
    BY <1>2
  <2> DEFINE J(i) == Cardinality(DataAt(list) \cap 1 .. i) = j
             at == CHOOSE i \in a .. b : J(i)
  <2>4. \E i \in a .. b : J(i)
    BY <2>1, <2>2
  <2>5. at \in a .. b /\ J(at)
    <3> HIDE DEF J
    <3> QED
      BY <2>4
  <2>6. JthData(list, j) = at
    BY DEF JthData
  <2> HIDE DEF at
  <2> QED
    BY <2>3, <2>5, <2>6
<1>4. \A j \in 1 .. n : a + j - 1 \in DOMAIN list /\ list[a + j - 1].chunk \in Nat
  <2> TAKE j \in 1 .. n
  <2>1. a + j - 1 \in DataAt(list)
    OBVIOUS
  <2>2. a + j - 1 \in DOMAIN list
    BY <2>1 DEF DataAt
  <2>3. list[a + j - 1] \in Events
    BY <2>2
  <2> QED
    BY <2>2, <2>3 DEF Events
<1> DEFINE seq == [j \in 1 .. n |-> list[a + j - 1].chunk]
<1>5. DataChunks(list) = seq
  <2> HIDE DEF n
  <2> QED
    BY <1>1, <1>3 DEF DataChunks
<1>6. seq \in Seq(Nat) /\ Len(seq) = n
  <2>1. seq \in [1 .. n -> Nat]
    BY <1>1, <1>4
  <2>2. n \in Nat
    BY <1>1
  <2> HIDE DEF n, seq
  <2>3. seq \in Seq(Nat) /\ Len(seq) = n
    BY <2>1, <2>2
  <2> QED
    BY <2>3
<1> QED
  BY <1>5, <1>6

-----------------------------------------------------------------------------
(* What TypeOK says of one stream, and of the store.                       *)
LEMMA StreamTypes ==
  ASSUME TypeOK, NEW s \in Streams
  PROVE  /\ chunks[s] \in Nat /\ Errs(s) \in 0 .. 1 /\ Ends(s) \in 0 .. 1
         /\ Total(s) = chunks[s] + Errs(s) + Ends(s) /\ Total(s) \in Nat
         /\ events[s] \in Seq(Events) /\ Len(events[s]) \in Nat
         /\ Seen(s) = Total(s) - Len(events[s]) /\ Seen(s) \in Int
         /\ early[s] \in Seq(Events) /\ Len(early[s]) \in Nat /\ Len(early[s]) <= MaxEarly
         /\ buffer[s] \in Seq(Nat) /\ Len(buffer[s]) \in Nat
         /\ got[s] \in Seq(Nat) /\ Len(got[s]) \in Nat
BY DEF TypeOK, CTypeOK, Errs, Ends, Total, Seen

LEMMA StoreTypes == TypeOK => Store \in StoreType
BY DEF TypeOK, Store, StoreType, Names

LEMMA StoreSet ==
  ASSUME NEW st \in StoreType, SetStore(st)
  PROVE  Store' = st
BY DEF SetStore, Store, StoreType

(* The variables of s itself, unchanged but for a Callback that has run.   *)
Still(s) ==
  /\ phase'[s] = phase[s] /\ fate'[s] = fate[s] /\ chunks'[s] = chunks[s]
  /\ events'[s] = events[s]
  /\ answer'[s] = answer[s] \/ (answer[s] # "none" /\ answer'[s] = "run")
  /\ handler'[s] = handler[s] /\ slotted'[s] = slotted[s] /\ buffer'[s] = buffer[s]
  /\ finished'[s] = finished[s] /\ failure'[s] = failure[s]
  /\ consumer'[s] = consumer[s] /\ got'[s] = got[s]

LEMMA Frame ==
  ASSUME NEW s \in Streams, StreamInv(s), Still(s), Spares(Store, Store', s)
  PROVE  StreamInv(s)'
<1>1. /\ Errs(s)' = Errs(s) /\ Ends(s)' = Ends(s) /\ Total(s)' = Total(s)
      /\ Seen(s)' = Seen(s) /\ \A i : SentAt(s, i)' = SentAt(s, i)
  BY DEF Still, Errs, Ends, Total, Seen, SentAt
<1>2. /\ early'[s] = early[s] /\ evicted \subseteq evicted'
      /\ s \in retired => s \in retired' \cup evicted'
      /\ s \in retired' => s \in retired
  BY DEF Spares, Store
<1>3. Wire(s)'
  BY <1>1 DEF StreamInv, Wire, Still
<1>4. Ordered(s)' /\ Released(s)'
  BY <1>2 DEF StreamInv, Ordered, Released, Still
<1>5. ASSUME Unread(s) PROVE Unread(s)'
  <2>1. Intact(s) => Intact(s)'
    BY <1>1, <1>2 DEF Intact
  <2>2. Overflown(s) => Overflown(s)'
    BY <1>1, <1>2 DEF Overflown
  <2> QED
    BY <1>5, <2>1, <2>2 DEF Unread, Still
<1>6. Reading(s) => Reading(s)'
  BY <1>1 DEF Reading, Whole, Still
<1>7. Cancelled(s) => Cancelled(s)'
  BY DEF Cancelled, Still
<1> QED
  BY <1>3, <1>4, <1>5, <1>6, <1>7 DEF StreamInv, Still

LEMMA FrameStore ==
  ASSUME NEW s \in Streams, StreamInv(s), Still(s), UNCHANGED capture
  PROVE  StreamInv(s)'
BY Frame DEF capture, Spares, Store

-----------------------------------------------------------------------------
(* What the host sends is the next event of the sequence.                  *)
HostMoves(s) ==
  /\ Wire(s)'
  /\ Seen(s)' = Seen(s)
  /\ \A i \in 1 .. Total(s) : SentAt(s, i)' = SentAt(s, i)
  /\ chunks'[s] \in Nat
  /\ chunks'[s] = chunks[s] \/ (chunks'[s] > chunks[s] /\ Total(s) = chunks[s])
  /\ Errs(s)' = Errs(s) \/ Total(s) = chunks[s]
  /\ phase[s] = "ended" => phase'[s] = "ended" /\ events'[s] = events[s] /\ Total(s)' = Total(s)
  /\ phase[s] # "ended" => Ends(s)' = 0 \/ Total(s) < Total(s)'
  /\ answer'[s] = answer[s] \/ phase[s] = "pending"

LEMMA HostMoved ==
  ASSUME TypeOK, NEW s \in Streams, StreamInv(s), HostMoves(s),
         UNCHANGED <<capture, reader, consumer, got>>
  PROVE  StreamInv(s)'
<1> USE StreamTypes DEF StreamInv, HostMoves
<1> DEFINE seen == Seen(s)
<1>0. seen <= Total(s) /\ Seen(s)' = seen /\ seen \in Int
  BY DEF Wire
<1> HIDE DEF seen
<1>1. /\ Seen(s) <= Total(s) /\ chunks'[s] >= chunks[s]
      /\ (Seen(s) <= chunks[s])' <=> Seen(s) <= chunks[s]
      /\ (IF Seen(s) <= chunks[s] THEN Seen(s) ELSE chunks[s])' =
           IF Seen(s) <= chunks[s] THEN Seen(s) ELSE chunks[s]
  BY <1>0 DEF seen
<1>2. Ordered(s)' /\ Released(s)'
  BY DEF Ordered, Released, capture, reader
<1>3. ASSUME Unread(s) PROVE Unread(s)'
  <2>1. Intact(s) => Intact(s)'
    BY <1>1 DEF Intact, capture
  <2>2. Overflown(s) => Overflown(s)'
    BY <1>1 DEF Overflown, capture
  <2> QED
    BY <1>3, <2>1, <2>2 DEF Unread, reader
<1>4. answer[s] = "run" => answer'[s] = "run"
  BY DEF Wire
<1>5. ASSUME Reading(s) PROVE Reading(s)'
  <2>1. Whole(s) => Whole(s)'
    <3>1. Seen(s) <= chunks[s] \/ Errs(s) = 0 => (Seen(s) <= chunks[s] \/ Errs(s) = 0)'
      BY <1>1
    <3>2. (Ends(s) = 1 /\ Seen(s) = Total(s))' <=> (Ends(s) = 1 /\ Seen(s) = Total(s))
      BY <1>1 DEF Ends
    <3> QED
      BY <1>1, <3>1, <3>2 DEF Whole, reader
  <2> QED
    BY <1>4, <1>5, <2>1 DEF Reading, reader
<1>6. Cancelled(s) => Cancelled(s)'
  BY <1>4 DEF Cancelled, reader
<1> QED
  BY <1>2, <1>3, <1>5, <1>6

LEMMA Posted ==
  ASSUME TypeOK, NEW s \in Streams, Wire(s), NEW e \in Events,
         events'[s] = Append(events[s], e), Total(s)' = Total(s) + 1,
         \A i \in 1 .. Total(s) : SentAt(s, i)' = SentAt(s, i),
         \A i : i = Total(s) + 1 => SentAt(s, i)' = e
  PROVE  /\ Seen(s)' = Seen(s) /\ Len(events'[s]) <= Total(s)'
         /\ \A i \in 1 .. Len(events'[s]) : events'[s][i] = SentAt(s, Seen(s) + i)'
<1>1. /\ events'[s] \in Seq(Events) /\ Len(events'[s]) = Len(events[s]) + 1
      /\ \A i \in 1 .. Len(events[s]) : events'[s][i] = events[s][i]
      /\ events'[s][Len(events[s]) + 1] = e
  BY StreamTypes
<1>2. Seen(s)' = Seen(s)
  BY <1>1, StreamTypes DEF Seen
<1>3. ASSUME NEW i \in 1 .. Len(events'[s])
      PROVE  events'[s][i] = SentAt(s, Seen(s) + i)'
  <2>1. CASE i = Len(events[s]) + 1
    <3>1. Seen(s) + i = Total(s) + 1
      BY <2>1, StreamTypes
    <3> QED
      BY <1>1, <1>2, <2>1, <3>1
  <2>2. CASE i \in 1 .. Len(events[s])
    <3> DEFINE seen == Seen(s)
    <3>0. /\ Len(events[s]) <= Total(s) /\ Len(events[s]) \in Nat /\ Total(s) \in Nat
          /\ seen = Total(s) - Len(events[s])
      BY StreamTypes DEF Wire
    <3>4. events[s][i] = SentAt(s, Seen(s) + i)
      BY <2>2 DEF Wire
    <3> HIDE DEF seen
    <3>5. seen + i \in 1 .. Total(s)
      BY <2>2, <3>0
    <3>1. Seen(s) + i \in 1 .. Total(s) /\ events[s][i] = SentAt(s, Seen(s) + i)
      BY <3>4, <3>5 DEF seen
    <3>2. PICK j \in 1 .. Total(s) : j = Seen(s) + i
      BY <3>1
    <3> QED
      BY <1>1, <1>2, <2>2, <3>1, <3>2
  <2> QED
    BY <1>1, <2>1, <2>2, StreamTypes
<1> QED
  BY <1>1, <1>2, <1>3, StreamTypes DEF Wire

LEMMA Quiet ==
  ASSUME TypeOK, NEW s \in Streams, Wire(s), events'[s] = events[s],
         Total(s)' = Total(s), \A i : SentAt(s, i)' = SentAt(s, i)
  PROVE  /\ Seen(s)' = Seen(s) /\ Len(events'[s]) <= Total(s)'
         /\ \A i \in 1 .. Len(events'[s]) : events'[s][i] = SentAt(s, Seen(s) + i)'
BY DEF Wire, Seen

LEMMA NativeStepIInv ==
  ASSUME IInv, NEW s \in Streams, NativeStep(s)
  PROVE  IInv'
<1>1. TypeOK /\ StreamInv(s) /\ Wire(s)
  BY DEF IInv, StreamInv
<1>2. TypeOK'
  <2>1. /\ phase' \in [Streams -> Phases] /\ UNCHANGED <<fate, aborted, chunks>>
        /\ answer' \in [Streams -> {"none", "headers", "fail", "run"}]
    BY <1>1 DEF TypeOK, CTypeOK, NativeStep, Respond, Refuse, Error, End, Phases
  <2>2. events' \in [Streams -> Seq(Events)]
    <3>1. CASE UNCHANGED events
      BY <1>1, <3>1 DEF TypeOK
    <3>2. CASE \E e \in Events : events' = [events EXCEPT ![s] = Append(@, e)]
      BY <1>1, <3>2 DEF TypeOK
    <3> QED
      BY <3>1, <3>2, EventTypes DEF NativeStep, Post
  <2> QED
    BY <1>1, <2>1, <2>2 DEF TypeOK, CTypeOK, NativeStep, fetcher, capture, reader
<1>3. HostMoves(s)
  <2>1. CASE Respond(s) \/ Refuse(s)
    <3>1. /\ chunks' = chunks /\ Errs(s)' = Errs(s) /\ Ends(s)' = Ends(s)
          /\ phase[s] = "pending" /\ phase'[s] \in {"open", "failed"} /\ events' = events
      BY <1>1, <2>1 DEF NativeStep, Respond, Refuse, Error, End, Errs, Ends, TypeOK, CTypeOK
    <3>2. Total(s)' = Total(s) /\ \A i : SentAt(s, i)' = SentAt(s, i)
      BY <3>1 DEF Total, SentAt
    <3>3. /\ Seen(s)' = Seen(s) /\ Len(events'[s]) <= Total(s)'
          /\ \A i \in 1 .. Len(events'[s]) : events'[s][i] = SentAt(s, Seen(s) + i)'
      BY <1>1, <3>1, <3>2, Quiet
    <3> QED
      BY <1>1, <3>1, <3>2, <3>3, StreamTypes DEF HostMoves, Wire, Ends
  <2>2. CASE Error(s)
    <3>1. /\ chunks' = chunks /\ phase[s] = "open" /\ phase'[s] = "errored"
          /\ fate[s] = "broken" /\ fate' = fate /\ answer' = answer
          /\ events'[s] = Append(events[s], Event("onError", 0))
      BY <1>1, <2>2 DEF NativeStep, Respond, Refuse, Error, End, Post, TypeOK, CTypeOK
    <3>2. Errs(s) = 0 /\ Errs(s)' = 1 /\ Ends(s) = 0 /\ Ends(s)' = 0
      BY <3>1 DEF Errs, Ends
    <3>3. Total(s) = chunks[s] /\ Total(s)' = Total(s) + 1
      BY <1>1, <3>1, <3>2, StreamTypes DEF Total
    <3>4. /\ \A i \in 1 .. Total(s) : SentAt(s, i)' = SentAt(s, i)
          /\ \A i : i = Total(s) + 1 => SentAt(s, i)' = Event("onError", 0)
      BY <1>1, <3>1, <3>2, <3>3, StreamTypes DEF SentAt
    <3>5. /\ Seen(s)' = Seen(s) /\ Len(events'[s]) <= Total(s)'
          /\ \A i \in 1 .. Len(events'[s]) : events'[s][i] = SentAt(s, Seen(s) + i)'
      BY <1>1, <3>1, <3>3, <3>4, EventTypes, Posted
    <3> QED
      BY <1>1, <3>1, <3>2, <3>3, <3>4, <3>5, StreamTypes DEF HostMoves, Wire
  <2>3. CASE End(s)
    <3>1. /\ chunks' = chunks /\ phase[s] \in {"open", "errored"} /\ phase'[s] = "ended"
          /\ fate[s] = IF phase[s] = "open" THEN "clean" ELSE "broken"
          /\ fate' = fate /\ answer' = answer
          /\ events'[s] = Append(events[s], Event("onEnd", 0))
      BY <1>1, <2>3 DEF NativeStep, Respond, Refuse, Error, End, Post, TypeOK, CTypeOK, Wire
    <3>2. Errs(s)' = Errs(s) /\ Ends(s) = 0 /\ Ends(s)' = 1
      BY <3>1 DEF Errs, Ends
    <3>3. Total(s) = chunks[s] + Errs(s) /\ Total(s)' = Total(s) + 1
      BY <1>1, <3>1, <3>2, StreamTypes DEF Total
    <3>4. /\ \A i \in 1 .. Total(s) : SentAt(s, i)' = SentAt(s, i)
          /\ \A i : i = Total(s) + 1 => SentAt(s, i)' = Event("onEnd", 0)
      BY <1>1, <3>1, <3>2, <3>3, StreamTypes DEF SentAt
    <3>5. /\ Seen(s)' = Seen(s) /\ Len(events'[s]) <= Total(s)'
          /\ \A i \in 1 .. Len(events'[s]) : events'[s][i] = SentAt(s, Seen(s) + i)'
      BY <1>1, <3>1, <3>3, <3>4, EventTypes, Posted
    <3> QED
      <4>1. chunks'[s] = chunks[s] /\ chunks[s] \in Nat /\ Total(s) < Total(s)'
        BY <1>1, <3>1, <3>3, StreamTypes
      <4>2. Wire(s)'
        BY <3>1, <3>5 DEF Wire
      <4> QED
        BY <3>1, <3>2, <3>4, <3>5, <4>1, <4>2 DEF HostMoves
  <2> QED
    BY <2>1, <2>2, <2>3 DEF NativeStep
<1>4. StreamInv(s)'
  BY <1>1, <1>3, HostMoved DEF NativeStep
<1>5. ASSUME NEW x \in Streams \ {s} PROVE StreamInv(x)'
  <2>1. StreamInv(x) /\ UNCHANGED capture
    BY DEF IInv, NativeStep
  <2>2. Still(x)
    BY <1>1, <1>5 DEF Still, NativeStep, Respond, Refuse, Error, End, Post, reader, fetcher,
      TypeOK, CTypeOK
  <2> QED
    BY <2>1, <2>2, FrameStore
<1> QED
  BY <1>2, <1>4, <1>5 DEF IInv

LEMMA NativeDataIInv ==
  ASSUME IInv, NEW s \in Streams, NativeData(s)
  PROVE  IInv'
<1>1. TypeOK /\ StreamInv(s) /\ Wire(s)
  BY DEF IInv, StreamInv
<1>2. /\ phase[s] = "open" /\ UNCHANGED <<phase, fate, aborted, answer>>
      /\ chunks' = [chunks EXCEPT ![s] = @ + 1] /\ chunks[s] \in Nat
      /\ events' = [events EXCEPT ![s] = Append(@, Event("onData", chunks[s] + 1))]
      /\ chunks'[s] = chunks[s] + 1 /\ events'[s] = Append(events[s], Event("onData", chunks[s] + 1))
  BY <1>1 DEF NativeData, Data, Post, TypeOK, CTypeOK
<1>3. TypeOK'
  <2>1. Event("onData", chunks[s] + 1) \in Events
    BY <1>2, EventTypes
  <2>2. events' \in [Streams -> Seq(Events)] /\ chunks' \in [Streams -> Nat]
    BY <1>1, <1>2, <2>1 DEF TypeOK, CTypeOK
  <2> QED
    BY <1>1, <1>2, <2>2 DEF TypeOK, CTypeOK, NativeData, fetcher, capture, reader
<1>4. HostMoves(s)
  <2>1. Errs(s) = 0 /\ Errs(s)' = 0 /\ Ends(s) = 0 /\ Ends(s)' = 0
    BY <1>2 DEF Errs, Ends
  <2>2. Total(s) = chunks[s] /\ Total(s)' = Total(s) + 1
    BY <1>2, <2>1 DEF Total
  <2>3. /\ \A i \in 1 .. Total(s) : SentAt(s, i)' = SentAt(s, i)
        /\ \A i : i = Total(s) + 1 => SentAt(s, i)' = Event("onData", chunks[s] + 1)
    BY <1>2, <2>1, <2>2 DEF SentAt
  <2>4. /\ Seen(s)' = Seen(s) /\ Len(events'[s]) <= Total(s)'
        /\ \A i \in 1 .. Len(events'[s]) : events'[s][i] = SentAt(s, Seen(s) + i)'
    BY <1>1, <1>2, <2>2, <2>3, EventTypes, Posted
  <2>5. Wire(s)'
    BY <1>2, <2>4 DEF Wire
  <2> QED
    BY <1>2, <2>1, <2>2, <2>3, <2>4, <2>5 DEF HostMoves
<1>5. StreamInv(s)'
  BY <1>1, <1>4, HostMoved DEF NativeData
<1>6. ASSUME NEW x \in Streams \ {s} PROVE StreamInv(x)'
  <2>1. StreamInv(x) /\ UNCHANGED capture
    BY DEF IInv, NativeData
  <2>2. Still(x)
    BY <1>1, <1>2, <1>6 DEF Still, NativeData, reader, TypeOK, CTypeOK
  <2> QED
    BY <2>1, <2>2, FrameStore
<1> QED
  BY <1>3, <1>5, <1>6 DEF IInv

LEMMA NativeSettleIInv ==
  ASSUME IInv, NEW s \in Streams, NativeSettle(s)
  PROVE  IInv'
<1>1. TypeOK /\ StreamInv(s) /\ Wire(s)
  BY DEF IInv, StreamInv
<1>2. /\ phase[s] \in {"pending", "open"}
      /\ UNCHANGED <<phase, chunks, aborted, events, answer>>
      /\ \E f \in Fates : fate' = [fate EXCEPT ![s] = f]
  BY <1>1 DEF NativeSettle, Settle, wire
<1>3. TypeOK'
  BY <1>1, <1>2 DEF TypeOK, CTypeOK, NativeSettle, fetcher, capture, reader, wire
<1>4. HostMoves(s)
  <2>1. Errs(s)' = Errs(s) /\ Ends(s)' = Ends(s) /\ Ends(s)' = 0
    BY <1>2 DEF Errs, Ends
  <2>2. Total(s)' = Total(s) /\ \A i : SentAt(s, i)' = SentAt(s, i)
    BY <1>2, <2>1 DEF Total, SentAt
  <2>3. /\ Seen(s)' = Seen(s) /\ Len(events'[s]) <= Total(s)'
        /\ \A i \in 1 .. Len(events'[s]) : events'[s][i] = SentAt(s, Seen(s) + i)'
    BY <1>1, <1>2, <2>2, Quiet
  <2>4. Wire(s)'
    BY <1>1, <1>2, <2>3 DEF Wire
  <2> QED
    BY <1>1, <1>2, <2>1, <2>2, <2>3, <2>4, StreamTypes DEF HostMoves
<1>5. StreamInv(s)'
  BY <1>1, <1>4, HostMoved DEF NativeSettle
<1>6. ASSUME NEW x \in Streams \ {s} PROVE StreamInv(x)'
  <2>1. StreamInv(x) /\ UNCHANGED capture
    BY DEF IInv, NativeSettle
  <2>2. Still(x)
    BY <1>1, <1>2, <1>6 DEF Still, NativeSettle, reader, TypeOK, CTypeOK
  <2> QED
    BY <2>1, <2>2, FrameStore
<1> QED
  BY <1>3, <1>5, <1>6 DEF IInv

(* Steps of the request and of the abort, which touch no event.            *)
LEMMA RequestIInv ==
  ASSUME IInv, NEW s \in Streams,
         Fetch(s) \/ SignalAbort(s) \/ CallbackLate(s) \/ CallbackFail(s) \/ NativeAbort(s)
  PROVE  IInv'
<1>1. TypeOK
  BY DEF IInv
<1>2. TypeOK'
  <2>1. CASE Fetch(s)
    BY <1>1, <2>1 DEF TypeOK, CTypeOK, Fetch, native, wire, capture, reader
  <2>2. CASE SignalAbort(s)
    BY <1>1, <2>2 DEF TypeOK, CTypeOK, SignalAbort, native, wire, capture, reader
  <2>3. CASE CallbackLate(s)
    BY <1>1, <2>3 DEF TypeOK, CTypeOK, CallbackLate, RequestNativeAbort, native, fetcher,
      capture, reader
  <2>4. CASE CallbackFail(s)
    BY <1>1, <2>4 DEF TypeOK, CTypeOK, CallbackFail, native, capture, reader
  <2>5. CASE NativeAbort(s)
    <3>1. aborted' \in [Streams -> BOOLEAN] /\ UNCHANGED <<phase, fate, chunks>>
      BY <1>1, <2>5 DEF TypeOK, CTypeOK, NativeAbort, Abort, native
    <3>2. abortReq' \in [Streams -> BOOLEAN]
      BY <1>1, <2>5 DEF TypeOK, NativeAbort
    <3> QED
      BY <1>1, <2>5, <3>1, <3>2 DEF TypeOK, CTypeOK, NativeAbort, fetcher, capture, reader
  <2> QED
    BY <2>1, <2>2, <2>3, <2>4, <2>5
<1>3. ASSUME NEW x \in Streams PROVE StreamInv(x)'
  <2>1. StreamInv(x) /\ UNCHANGED capture
    BY DEF IInv, Fetch, SignalAbort, CallbackLate, CallbackFail, NativeAbort
  <2>2. Still(x)
    BY <1>1, <1>3 DEF Still, Fetch, SignalAbort, CallbackLate, CallbackFail, NativeAbort,
      Abort, native, wire, reader, TypeOK, CTypeOK
  <2> QED
    BY <2>1, <2>2, FrameStore
<1> QED
  BY <1>2, <1>3 DEF IInv

LEMMA OtherRetiresIInv ==
  ASSUME IInv, OtherRetires
  PROVE  IInv'
<1>1. TypeOK /\ Store \in StoreType
  BY StoreTypes DEF IInv
<1> DEFINE st == [Store EXCEPT !.retired = @ \ {Another}]
<1>2. /\ st \in StoreType /\ st.early = Store.early /\ st.evicted = Store.evicted
      /\ st.retired = Store.retired \ {Another}
  BY <1>1 DEF StoreType
<1>3. SetStore(Retire(st, Another))
  BY DEF OtherRetires
<1> HIDE DEF st
<1>4. /\ Retire(st, Another) \in StoreType
      /\ \A x \in Streams \ {Another} : Spares(st, Retire(st, Another), x)
  BY <1>2, RetireType DEF Names
<1>5. Store' = Retire(st, Another)
  BY <1>3, <1>4, StoreSet
<1>6. TypeOK'
  BY <1>1, <1>4, <1>5 DEF TypeOK, CTypeOK, OtherRetires, Store, StoreType, Names, native, wire,
    fetcher, reader
<1>7. ASSUME NEW x \in Streams PROVE StreamInv(x)'
  <2>1. x # Another
    BY LimitsAssumption DEF Another
  <2>2. Spares(Store, Store', x)
    BY <1>2, <1>4, <1>5, <2>1 DEF Spares
  <2>3. StreamInv(x) /\ Still(x)
    BY DEF IInv, OtherRetires, Still, native, wire, reader
  <2> QED
    BY <2>2, <2>3, Frame
<1> QED
  BY <1>6, <1>7 DEF IInv

LEMMA StutterIInv ==
  ASSUME IInv, UNCHANGED vars
  PROVE  IInv'
<1>1. TypeOK'
  BY DEF IInv, TypeOK, CTypeOK, vars, native, wire, fetcher, capture, reader
<1>2. ASSUME NEW x \in Streams PROVE StreamInv(x)'
  <2>1. StreamInv(x) /\ Still(x) /\ UNCHANGED capture
    BY DEF IInv, Still, vars, native, wire, reader
  <2> QED
    BY <2>1, FrameStore
<1> QED
  BY <1>1, <1>2 DEF IInv

-----------------------------------------------------------------------------
(* read(), turn by turn.                                                   *)
LEMMA ReadIInv ==
  ASSUME IInv, NEW s \in Streams,
         ReadFails(s) \/ ReadChunk(s) \/ ReadDone(s) \/ ReadWaits(s)
  PROVE  IInv'
<1>1. TypeOK /\ StreamInv(s) /\ Wire(s) /\ Reading(s)
  BY DEF IInv, StreamInv, ReadFails, ReadChunk, ReadDone, ReadWaits
<1>2. UNCHANGED <<native, wire, fetcher, capture, handler, slotted, finished, failure, nativeAborted>>
  BY DEF ReadFails, ReadChunk, ReadDone, ReadWaits, reader
<1>3. /\ Errs(s)' = Errs(s) /\ Ends(s)' = Ends(s) /\ Total(s)' = Total(s)
      /\ Seen(s)' = Seen(s) /\ Wire(s)' /\ Released(s)'
  BY <1>1, <1>2 DEF Errs, Ends, Total, Seen, SentAt, Wire, Released, StreamInv,
    native, wire, capture
<1>4. CASE ReadFails(s) \/ ReadDone(s) \/ ReadWaits(s)
  <2>1. /\ UNCHANGED <<buffer, got>>
        /\ consumer' = [consumer EXCEPT ![s] = consumer'[s]]
        /\ consumer'[s] \in {"failed", "done", "waiting"}
        /\ consumer'[s] = "done" => ~failure[s] /\ buffer[s] = <<>> /\ finished[s]
    BY <1>1, <1>4 DEF ReadFails, ReadDone, ReadWaits, reader, TypeOK
  <2>2. TypeOK'
    <3>1. consumer' \in [Streams -> {"none", "idle", "waiting", "done", "failed", "cancelled"}]
      BY <1>1, <1>4 DEF ReadFails, ReadDone, ReadWaits, TypeOK
    <3> QED
      BY <1>1, <1>2, <2>1, <3>1 DEF TypeOK, CTypeOK, native, wire, fetcher, capture
  <2>3. StreamInv(s)'
    BY <1>1, <1>2, <1>3, <2>1 DEF StreamInv, Ordered, Reading, Whole, wire, native
  <2> QED
    <3>1. ASSUME NEW x \in Streams \ {s} PROVE StreamInv(x)'
      <4>1. StreamInv(x) /\ UNCHANGED capture
        BY <1>2 DEF IInv
      <4>2. Still(x)
        BY <1>1, <1>2, <2>1, <3>1 DEF Still, native, wire, TypeOK
      <4> QED
        BY <4>1, <4>2, FrameStore
    <3> QED
      BY <2>2, <2>3, <3>1 DEF IInv
<1>5. CASE ReadChunk(s)
  <2> DEFINE h == Head(buffer[s])
             tl == Tail(buffer[s])
  <2>1. /\ consumer' = consumer /\ ~failure[s] /\ buffer[s] # <<>>
        /\ got' = [got EXCEPT ![s] = Append(@, h)]
        /\ buffer' = [buffer EXCEPT ![s] = tl]
    BY <1>5 DEF ReadChunk
  <2>2. /\ h \in Nat /\ h = buffer[s][1] /\ tl \in Seq(Nat)
        /\ Len(tl) = Len(buffer[s]) - 1 /\ 1 \in 1 .. Len(buffer[s])
        /\ \A i \in 1 .. Len(tl) : tl[i] = buffer[s][i + 1] /\ i + 1 \in 1 .. Len(buffer[s])
    BY <1>1, <2>1, StreamTypes
  <2>3. /\ got'[s] = Append(got[s], h) /\ buffer'[s] = tl
        /\ Append(got[s], h) \in Seq(Nat) /\ Len(Append(got[s], h)) = Len(got[s]) + 1
    BY <1>1, <2>1, <2>2, StreamTypes DEF TypeOK
  <2>4. TypeOK'
    <3>1. buffer' \in [Streams -> Seq(Nat)] /\ got' \in [Streams -> Seq(Nat)]
      BY <1>1, <2>1, <2>2, <2>3 DEF TypeOK
    <3> QED
      BY <1>1, <1>2, <2>1, <3>1 DEF TypeOK, CTypeOK, native, wire, fetcher, capture
  <2> HIDE DEF h, tl
  <2>5. h = Len(got[s]) + 1 /\ \A i \in 1 .. Len(tl) : tl[i] = Len(got[s]) + 1 + i
    BY <1>1, <2>1, <2>2, StreamTypes DEF StreamInv, Ordered
  <2>6. Ordered(s)'
    <3>1. \A i \in 1 .. Len(got[s]) : got[s][i] = i
      BY <1>1 DEF StreamInv, Ordered
    <3>2. \A i \in 1 .. Len(got[s]) + 1 : Append(got[s], h)[i] = i
      BY <1>1, <2>2, <2>5, <3>1, StreamTypes
    <3> QED
      BY <2>3, <2>5, <3>2 DEF Ordered
  <2>7. Whole(s)'
    <3>1. /\ Whole(s) /\ chunks' = chunks /\ finished' = finished
      BY <1>1, <1>2, <2>1 DEF Reading, native
    <3>2. Len(got'[s]) + Len(buffer'[s]) = Len(got[s]) + Len(buffer[s])
      <4>1. Len(got'[s]) = Len(got[s]) + 1 /\ Len(buffer'[s]) = Len(buffer[s]) - 1
        BY <2>2, <2>3
      <4>2. Len(got[s]) \in Nat /\ Len(buffer[s]) \in Nat
        BY <1>1, StreamTypes
      <4>3. \A m, n \in Nat : (m + 1) + (n - 1) = m + n
        OBVIOUS
      <4> DEFINE m == Len(got[s])
                 n == Len(buffer[s])
      <4> HIDE DEF m, n
      <4>4. (m + 1) + (n - 1) = m + n
        BY <4>2, <4>3 DEF m, n
      <4> QED
        BY <4>1, <4>4, Zenon DEF m, n
    <3> QED
      BY <1>3, <3>1, <3>2 DEF Whole
  <2>8. StreamInv(s)'
    BY <1>1, <1>2, <1>3, <1>5, <2>1, <2>6, <2>7 DEF StreamInv, Reading, ReadChunk, wire
  <2> QED
    <3>1. ASSUME NEW x \in Streams \ {s} PROVE StreamInv(x)'
      <4>1. StreamInv(x) /\ UNCHANGED capture
        BY <1>2 DEF IInv
      <4>2. Still(x)
        BY <1>1, <1>2, <2>1, <3>1 DEF Still, native, wire, TypeOK
      <4> QED
        BY <4>1, <4>2, FrameStore
    <3> QED
      BY <2>4, <2>8, <3>1 DEF IInv
<1> QED
  BY <1>4, <1>5

-----------------------------------------------------------------------------
LEMMA ForgetType ==
  ASSUME NEW st \in StoreType, NEW s \in Streams
  PROVE  /\ Forget(st, s) \in StoreType
         /\ Forget(st, s).early[s] = <<>>
         /\ Forget(st, s).retired = st.retired /\ Forget(st, s).evicted = st.evicted
         /\ \A x \in Streams \ {s} : Spares(st, Forget(st, s), x)
<1>1. <<>> \in Seq(Events) /\ Len(<<>>) = 0 /\ 0 <= MaxEarly
  BY LimitsAssumption
<1>2. /\ Forget(st, s).early = [st.early EXCEPT ![s] = <<>>]
      /\ Forget(st, s).retired = st.retired /\ Forget(st, s).evicted = st.evicted
      /\ Forget(st, s).order = st.order
  BY DEF Forget, StoreType
<1>3. Forget(st, s).early \in
        {x \in [Streams -> Seq(Events)] : \A y \in Streams : Len(x[y]) <= MaxEarly}
  BY <1>1, <1>2 DEF StoreType
<1>4. Forget(st, s) \in StoreType
  BY <1>2, <1>3 DEF Forget, StoreType
<1> QED
  BY <1>2, <1>4 DEF Spares, StoreType

LEMMA CancelIInv ==
  ASSUME IInv, NEW s \in Streams, Cancel(s)
  PROVE  IInv'
<1>1. TypeOK /\ StreamInv(s) /\ Store \in StoreType
  BY StoreTypes DEF IInv
<1> DEFINE st == Forget(Store, s)
           r  == Retire(st, s)
<1>2. /\ st \in StoreType /\ st.early[s] = <<>> /\ st.evicted = Store.evicted
      /\ st.retired = Store.retired
      /\ \A x \in Streams \ {s} : Spares(Store, st, x)
  BY <1>1, ForgetType
<1>3. SetStore(r)
  BY DEF Cancel
<1> HIDE DEF st
<1>4. /\ r \in StoreType /\ r.early = st.early
      /\ s \in r.retired \cup r.evicted
      /\ \A x \in Streams \ {s} : Spares(st, r, x)
  BY <1>2, RetireType DEF Names
<1> HIDE DEF r
<1>5. Store' = r
  BY <1>3, <1>4, StoreSet
<1>6. /\ early'[s] = <<>> /\ s \in retired' \cup evicted'
      /\ \A x \in Streams \ {s} : Spares(Store, Store', x)
  BY <1>2, <1>4, <1>5 DEF Store, Spares
<1>7. TypeOK'
  <2>1. /\ consumer' \in [Streams ->
             {"none", "idle", "waiting", "done", "failed", "cancelled"}]
        /\ \A f \in {abortReq', finished', nativeAborted', handler'} : f \in [Streams -> BOOLEAN]
    BY <1>1 DEF TypeOK, Cancel, RequestNativeAbort
  <2>2. /\ early' \in [Streams -> Seq(Events)] /\ \A x \in Streams : Len(early'[x]) <= MaxEarly
        /\ retired' \subseteq Streams \cup {Another} /\ evicted' \subseteq Streams
        /\ order' \in Seq(Streams \cup {Another}) /\ Len(order') <= MaxRetired
    BY <1>4, <1>5 DEF Store, StoreType, Names
  <2> QED
    BY <1>1, <2>1, <2>2 DEF TypeOK, CTypeOK, Cancel, native, fetcher
<1>8. StreamInv(s)'
  <2>1. /\ answer[s] = "run" /\ consumer'[s] = "cancelled" /\ finished'[s] /\ ~handler'[s]
    BY <1>1 DEF Cancel, StreamInv, Reading, Cancelled, TypeOK
  <2>2. UNCHANGED <<native, answer, events, buffer, failure, got>>
    BY DEF Cancel
  <2>3. Wire(s)' /\ Ordered(s)'
    BY <1>1, <2>2 DEF StreamInv, Wire, Ordered, Seen, Total, Errs, Ends, SentAt, native
  <2>4. Released(s)' /\ Cancelled(s)'
    BY <1>6, <2>1, <2>2 DEF Released, Cancelled
  <2> QED
    BY <2>1, <2>3, <2>4 DEF StreamInv
<1>9. ASSUME NEW x \in Streams \ {s} PROVE StreamInv(x)'
  <2>1. StreamInv(x) /\ Spares(Store, Store', x)
    BY <1>6 DEF IInv
  <2>2. Still(x)
    BY <1>1, <1>9 DEF Still, Cancel, native, TypeOK
  <2> QED
    BY <2>1, <2>2, Frame
<1> QED
  BY <1>7, <1>8, <1>9 DEF IInv

-----------------------------------------------------------------------------
(* Which event is at which place.                                          *)
LEMMA SentEvents ==
  ASSUME TypeOK, NEW s \in Streams, NEW i \in Int, i >= 1, i <= Total(s)
  PROVE  /\ SentAt(s, i).event = "onData" <=> i <= chunks[s]
         /\ i <= chunks[s] => SentAt(s, i) = Event("onData", i)
         /\ SentAt(s, i).event = "onError" <=> i = chunks[s] + 1 /\ Errs(s) = 1
         /\ SentAt(s, i).event = "onEnd" <=> Ends(s) = 1 /\ i = Total(s)
         /\ SentAt(s, i) \in Events
<1>1. /\ chunks[s] \in Nat /\ Errs(s) \in 0 .. 1 /\ Ends(s) \in 0 .. 1
      /\ Total(s) = chunks[s] + Errs(s) + Ends(s)
  BY StreamTypes
<1>2. CASE i <= chunks[s]
  <2>1. SentAt(s, i) = Event("onData", i) /\ i \in Nat
    BY <1>1, <1>2 DEF SentAt
  <2>2. i # chunks[s] + 1 /\ ~(Ends(s) = 1 /\ i = Total(s))
    BY <1>1, <1>2
  <2> QED
    BY <1>2, <2>1, <2>2, EventTypes
<1>3. CASE ~(i <= chunks[s]) /\ i = chunks[s] + 1 /\ Errs(s) = 1
  <2>1. SentAt(s, i) = Event("onError", 0)
    BY <1>3 DEF SentAt
  <2>2. ~(Ends(s) = 1 /\ i = Total(s))
    BY <1>1, <1>3
  <2> QED
    BY <1>3, <2>1, <2>2, EventTypes
<1>4. CASE ~(i <= chunks[s]) /\ ~(i = chunks[s] + 1 /\ Errs(s) = 1)
  <2>1. SentAt(s, i) = Event("onEnd", 0)
    BY <1>4 DEF SentAt
  <2>2. Ends(s) = 1 /\ i = Total(s)
    BY <1>1, <1>4
  <2> QED
    BY <1>4, <2>1, <2>2, EventTypes
<1> QED
  BY <1>2, <1>3, <1>4

(* What the drain of an intact buffer brings.                              *)
LEMMA DrainIntact ==
  ASSUME TypeOK, NEW s \in Streams, Wire(s), Intact(s)
  PROVE  /\ DataChunks(early[s]) \in Seq(Nat)
         /\ Len(DataChunks(early[s])) = IF Seen(s) <= chunks[s] THEN Seen(s) ELSE chunks[s]
         /\ \A j \in 1 .. Len(DataChunks(early[s])) : DataChunks(early[s])[j] = j
         /\ Has(early[s], "onError") <=> Seen(s) > chunks[s] /\ Errs(s) = 1
         /\ Has(early[s], "onEnd") <=> Ends(s) = 1 /\ Seen(s) = Total(s)
<1> DEFINE list == early[s]
           m == IF Seen(s) <= chunks[s] THEN Seen(s) ELSE chunks[s]
<1>1. /\ list \in Seq(Events) /\ Len(list) = Seen(s) /\ Len(list) \in Nat /\ DOMAIN list = 1 .. Len(list)
      /\ Seen(s) <= Total(s) /\ Total(s) \in Nat /\ chunks[s] \in Nat
      /\ Errs(s) \in 0 .. 1 /\ Ends(s) \in 0 .. 1 /\ Total(s) = chunks[s] + Errs(s) + Ends(s)
  BY StreamTypes DEF Intact
<1>2. \A i \in 1 .. Len(list) :
        /\ list[i] = SentAt(s, i)
        /\ SentAt(s, i).event = "onData" <=> i <= chunks[s]
        /\ i <= chunks[s] => SentAt(s, i) = Event("onData", i)
        /\ SentAt(s, i).event = "onError" <=> i = chunks[s] + 1 /\ Errs(s) = 1
        /\ SentAt(s, i).event = "onEnd" <=> Ends(s) = 1 /\ i = Total(s)
  BY <1>1, SentEvents DEF Intact
<1>3. m \in Nat /\ DataAt(list) = 1 .. m
  BY <1>1, <1>2 DEF DataAt
<1>4. Has(list, "onError") <=> Seen(s) > chunks[s] /\ Errs(s) = 1
  <2>1. ASSUME Has(list, "onError") PROVE Seen(s) > chunks[s] /\ Errs(s) = 1
    <3>1. PICK i \in 1 .. Len(list) : list[i].event = "onError"
      BY <1>1, <2>1 DEF Has
    <3>2. Errs(s) = 1 /\ i = chunks[s] + 1
      BY <1>2, <3>1
    <3> QED
      BY <1>1, <3>2
  <2>2. ASSUME Errs(s) = 1, Seen(s) > chunks[s] PROVE Has(list, "onError")
    <3>1. chunks[s] + 1 \in 1 .. Len(list)
      BY <1>1, <2>2
    <3> QED
      BY <1>1, <1>2, <2>2, <3>1 DEF Has
  <2> QED
    BY <2>1, <2>2
<1>5. Has(list, "onEnd") <=> Ends(s) = 1 /\ Seen(s) = Total(s)
  <2>1. ASSUME Has(list, "onEnd") PROVE Ends(s) = 1 /\ Seen(s) = Total(s)
    <3>1. PICK i \in 1 .. Len(list) : list[i].event = "onEnd"
      BY <1>1, <2>1 DEF Has
    <3>2. Ends(s) = 1 /\ i = Total(s)
      BY <1>2, <3>1
    <3> QED
      BY <1>1, <3>2
  <2>2. ASSUME Ends(s) = 1, Seen(s) = Total(s) PROVE Has(list, "onEnd")
    <3>1. Total(s) \in 1 .. Len(list)
      BY <1>1, <2>2
    <3> QED
      BY <1>1, <1>2, <2>2, <3>1 DEF Has
  <2> QED
    BY <2>1, <2>2
<1>6. \A j \in 1 .. m : list[1 + j - 1].chunk = j
  <2> TAKE j \in 1 .. m
  <2>1. 1 + j - 1 = j /\ j \in 1 .. Len(list) /\ j <= chunks[s]
    BY <1>1
  <2>2. list[j] = Event("onData", j) /\ j \in Nat
    BY <1>2, <2>1
  <2> QED
    BY <2>1, <2>2, EventTypes
<1> HIDE DEF list, m
<1>7. /\ DataChunks(list) \in Seq(Nat) /\ Len(DataChunks(list)) = m
      /\ \A j \in 1 .. m : DataChunks(list)[j] = j
  <2>1. /\ DataChunks(list) \in Seq(Nat)
        /\ Len(DataChunks(list)) = IF 1 > m THEN 0 ELSE m - 1 + 1
        /\ \A j \in 1 .. Len(DataChunks(list)) : DataChunks(list)[j] = list[1 + j - 1].chunk
    BY <1>1, <1>3, DataRun
  <2>2. Len(DataChunks(list)) = m
    BY <1>3, <2>1
  <2> QED
    BY <1>6, <2>1, <2>2
<1> QED
  BY <1>4, <1>5, <1>7 DEF list, m

(* And that of one that overflowed.                                        *)
LEMMA DrainOverflown ==
  ASSUME TypeOK, NEW s \in Streams, Wire(s), Overflown(s)
  PROVE  /\ DataChunks(early[s]) \in Seq(Nat)
         /\ Has(early[s], "onError") /\ Has(early[s], "onEnd")
<1> DEFINE list == early[s]
           off == Seen(s) - Len(list)
           b == IF off + Len(list) <= chunks[s] THEN Len(list) ELSE chunks[s] - off
<1>1. /\ list \in Seq(Events) /\ Len(list) \in Nat /\ Len(list) >= 2 /\ DOMAIN list = 1 .. Len(list)
      /\ Seen(s) \in Int /\ Len(list) - 2 <= Seen(s) /\ Seen(s) <= Total(s)
      /\ chunks[s] \in Nat /\ Total(s) \in Nat
      /\ list[1].event = "onError" /\ list[2].event = "onEnd"
  BY StreamTypes DEF Overflown
<1>2. off \in Int /\ off >= -2 /\ off + Len(list) = Seen(s)
  BY <1>1
<1>3. \A i \in 3 .. Len(list) : list[i] = SentAt(s, off + i)
  BY DEF Overflown
<1> HIDE DEF off
<1>4. \A i \in 3 .. Len(list) : list[i].event = "onData" <=> off + i <= chunks[s]
  BY <1>1, <1>2, <1>3, SentEvents
<1>5. b \in Int /\ DataAt(list) = 3 .. b
  <2>1. b \in Int
    BY <1>1, <1>2
  <2>2. \A i \in 1 .. Len(list) : list[i].event = "onData" <=> i >= 3 /\ off + i <= chunks[s]
    <3> TAKE i \in 1 .. Len(list)
    <3>1. CASE i \in 3 .. Len(list)
      BY <1>4, <3>1
    <3>2. CASE i = 1 \/ i = 2
      BY <1>1, <3>2
    <3> QED
      BY <1>1, <3>1, <3>2
  <2>3. \A i \in 1 .. Len(list) : i >= 3 /\ off + i <= chunks[s] <=> i \in 3 .. b
    BY <1>1, <1>2
  <2>4. \A i \in 3 .. b : i \in 1 .. Len(list)
    BY <1>1, <1>2
  <2> HIDE DEF b
  <2>5. \A i : i \in DataAt(list) <=> i \in 1 .. Len(list) /\ list[i].event = "onData"
    BY <1>1 DEF DataAt
  <2>6. \A i : i \in DataAt(list) <=> i \in 3 .. b
    BY <2>2, <2>3, <2>4, <2>5
  <2> QED
    BY <2>1, <2>6
<1>6. Has(list, "onError") /\ Has(list, "onEnd")
  BY <1>1 DEF Has
<1> HIDE DEF list, b
<1>7. DataChunks(list) \in Seq(Nat)
  BY <1>1, <1>5, DataRun
<1> QED
  BY <1>6, <1>7 DEF list

LEMMA CallbackHeadersIInv ==
  ASSUME IInv, NEW s \in Streams, CallbackHeaders(s)
  PROVE  IInv'
<1> DEFINE list == early[s]
<1>1. TypeOK /\ StreamInv(s) /\ Wire(s) /\ Store \in StoreType
  BY StoreTypes DEF IInv, StreamInv
<1>2. consumer[s] = "none" /\ Unread(s) /\ ~gaveUp[s]
  BY DEF CallbackHeaders, IInv, StreamInv, Reading, Cancelled
<1>3. /\ UNCHANGED <<phase, fate, aborted, chunks, events, got, order, evicted, nativeAborted>>
      /\ answer' = [answer EXCEPT ![s] = "run"]
      /\ promise' = [promise EXCEPT ![s] = "resolved"]
      /\ UNCHANGED <<abortReq, gaveUp>>
      /\ slotted' = [slotted EXCEPT ![s] = TRUE]
      /\ early' = [early EXCEPT ![s] = <<>>]
      /\ retired' = IF Has(list, "onEnd") THEN retired ELSE retired \ {s}
      /\ consumer' = [consumer EXCEPT ![s] = "idle"]
      /\ OnEvents(s, list)
  BY DEF CallbackHeaders, AttachReader, native
<1>4. /\ DataChunks(list) \in Seq(Nat)
      /\ \/ /\ Intact(s)
            /\ Len(DataChunks(list)) = IF Seen(s) <= chunks[s] THEN Seen(s) ELSE chunks[s]
            /\ \A j \in 1 .. Len(DataChunks(list)) : DataChunks(list)[j] = j
            /\ Has(list, "onError") <=> Seen(s) > chunks[s] /\ Errs(s) = 1
            /\ Has(list, "onEnd") <=> Ends(s) = 1 /\ Seen(s) = Total(s)
         \/ /\ Overflown(s)
            /\ Has(list, "onError") /\ Has(list, "onEnd")
  BY <1>1, <1>2, DrainIntact, DrainOverflown DEF Unread
<1> HIDE DEF list
<1>5. /\ buffer' = [buffer EXCEPT ![s] = <<>> \o DataChunks(list)]
      /\ failure' = [failure EXCEPT ![s] = Has(list, "onError")]
      /\ finished' = [finished EXCEPT ![s] = Has(list, "onEnd")]
      /\ handler' = [handler EXCEPT ![s] = ~Has(list, "onEnd")]
  <2>1. buffer[s] = <<>> /\ ~failure[s] /\ ~finished[s]
    BY <1>2 DEF Unread
  <2>2. /\ buffer' = [buffer EXCEPT ![s] = buffer[s] \o DataChunks(list)]
        /\ failure' = [failure EXCEPT ![s] = failure[s] \/ Has(list, "onError")]
        /\ finished' = [finished EXCEPT ![s] = finished[s] \/ Has(list, "onEnd")]
        /\ handler' = [handler EXCEPT ![s] = ~Has(list, "onEnd")]
    BY <1>1, <1>3 DEF OnEvents
  <2>3. /\ (failure[s] \/ Has(list, "onError")) = Has(list, "onError")
        /\ (finished[s] \/ Has(list, "onEnd")) = Has(list, "onEnd")
    BY <2>1 DEF Has
  <2> QED
    BY <2>1, <2>2, <2>3
<1>6. <<>> \o DataChunks(list) = DataChunks(list)
  BY <1>4
<1>7. /\ buffer'[s] = DataChunks(list) /\ failure'[s] = Has(list, "onError")
      /\ finished'[s] = Has(list, "onEnd") /\ handler'[s] = ~Has(list, "onEnd")
      /\ answer'[s] = "run" /\ consumer'[s] = "idle" /\ early'[s] = <<>>
      /\ got'[s] = <<>>
  BY <1>1, <1>2, <1>3, <1>5, <1>6 DEF TypeOK, Unread
<1>8. Store' \in StoreType /\ \A x \in Streams \ {s} : Spares(Store, Store', x)
  <2>1. /\ Store'.retired = retired' /\ Store'.evicted = evicted /\ Store'.order = order
        /\ Store'.early = Forget(Store, s).early
    BY <1>3 DEF Store, Forget
  <2>2. Forget(Store, s) \in StoreType /\ \A x \in Streams \ {s} : Spares(Store, Forget(Store, s), x)
    BY <1>1, ForgetType
  <2>3. retired' \subseteq retired /\ \A x \in Streams \ {s} : x \in retired => x \in retired'
    BY <1>3
  <2>4. /\ early' = Forget(Store, s).early
        /\ early' \in {e \in [Streams -> Seq(Events)] : \A x \in Streams : Len(e[x]) <= MaxEarly}
    BY <2>1, <2>2 DEF Store, StoreType
  <2>5. /\ retired' \in SUBSET Names /\ evicted' \in SUBSET Streams
        /\ order' \in {o \in Seq(Names) : Len(o) <= MaxRetired}
    BY <1>1, <1>3, <2>3 DEF Store, StoreType
  <2>6. Store' \in StoreType
    BY <2>4, <2>5 DEF Store, StoreType
  <2> QED
    BY <2>2, <2>3, <2>4, <2>6, <1>3 DEF Spares, Store
<1>9. TypeOK'
  <2>1. buffer' \in [Streams -> Seq(Nat)]
    BY <1>1, <1>4, <1>5, <1>6 DEF TypeOK
  <2>2. /\ answer' \in [Streams -> {"none", "headers", "fail", "run"}]
        /\ promise' \in [Streams -> {"none", "pending", "resolved", "rejected"}]
        /\ consumer' \in [Streams ->
             {"none", "idle", "waiting", "done", "failed", "cancelled"}]
    BY <1>1, <1>3 DEF TypeOK
  <2>3. Has(list, "onEnd") \in BOOLEAN /\ Has(list, "onError") \in BOOLEAN
    BY DEF Has
  <2>4. \A f \in {handler', slotted', finished', failure'} : f \in [Streams -> BOOLEAN]
    BY <1>1, <1>3, <1>5, <2>3 DEF TypeOK
  <2>5. /\ early' \in [Streams -> Seq(Events)] /\ \A x \in Streams : Len(early'[x]) <= MaxEarly
        /\ retired' \subseteq Streams \cup {Another} /\ evicted' \subseteq Streams
        /\ order' \in Seq(Streams \cup {Another}) /\ Len(order') <= MaxRetired
    BY <1>8 DEF Store, StoreType, Names
  <2> QED
    BY <1>1, <1>3, <2>1, <2>2, <2>4, <2>5 DEF TypeOK, CTypeOK
<1>10. /\ Errs(s)' = Errs(s) /\ Ends(s)' = Ends(s) /\ Total(s)' = Total(s)
       /\ Seen(s)' = Seen(s)
  BY <1>3 DEF Errs, Ends, Total, Seen
<1>11. Wire(s)'
  <2>1. phase[s] = "pending" => answer[s] = "none"
    BY <1>1 DEF Wire
  <2>2. answer[s] = "headers" /\ \A i : SentAt(s, i)' = SentAt(s, i)
    BY <1>3, <1>10 DEF CallbackHeaders, SentAt
  <2> QED
    BY <1>1, <1>3, <1>10, <2>1, <2>2 DEF Wire
<1>12. ASSUME Overflown(s) /\ Has(list, "onError") /\ Has(list, "onEnd")
       PROVE  StreamInv(s)'
  <2>1. Ordered(s)' /\ Released(s)'
    BY <1>3, <1>7, <1>12 DEF Ordered, Released, Overflown
  <2>2. Reading(s)'
    BY <1>7, <1>12 DEF Reading
  <2> QED
    BY <1>7, <1>11, <2>1, <2>2 DEF StreamInv
<1>13. ASSUME /\ Intact(s)
              /\ Len(DataChunks(list)) = IF Seen(s) <= chunks[s] THEN Seen(s) ELSE chunks[s]
              /\ \A j \in 1 .. Len(DataChunks(list)) : DataChunks(list)[j] = j
              /\ Has(list, "onError") <=> Seen(s) > chunks[s] /\ Errs(s) = 1
              /\ Has(list, "onEnd") <=> Ends(s) = 1 /\ Seen(s) = Total(s)
       PROVE  StreamInv(s)'
  <2>1. Ordered(s)'
    BY <1>7, <1>13 DEF Ordered
  <2>2. Released(s)'
    <3>1. Has(list, "onEnd") => phase[s] = "ended" /\ events[s] = <<>>
      BY <1>1, <1>13, StreamTypes DEF Ends
    <3> QED
      BY <1>3, <1>7, <3>1 DEF Released
  <2>3. Reading(s)'
    <3>1. Len(DataChunks(list)) \in Nat /\ Seen(s) \in Int /\ chunks[s] \in Nat /\ Errs(s) \in 0 .. 1
      BY <1>1, <1>4, StreamTypes
    <3>2. Len(got'[s]) + Len(buffer'[s]) = Len(DataChunks(list))
      BY <1>7, <3>1
    <3>3. failure'[s] \/ Seen(s) <= chunks[s] \/ Errs(s) = 0
      BY <1>7, <1>13, <3>1
    <3>4. failure'[s] \/ Whole(s)'
      BY <1>3, <1>7, <1>10, <1>13, <3>2, <3>3 DEF Whole
    <3> QED
      BY <1>7, <3>4 DEF Reading
  <2> QED
    BY <1>7, <1>11, <2>1, <2>2, <2>3 DEF StreamInv
<1>14. StreamInv(s)'
  BY <1>4, <1>12, <1>13
<1>15. ASSUME NEW x \in Streams \ {s} PROVE StreamInv(x)'
  <2>1. StreamInv(x) /\ Spares(Store, Store', x)
    BY <1>8 DEF IInv
  <2>2. Still(x)
    BY <1>1, <1>3, <1>5, <1>15 DEF Still, TypeOK
  <2> QED
    BY <2>1, <2>2, Frame
<1> QED
  BY <1>9, <1>14, <1>15 DEF IInv

-----------------------------------------------------------------------------
(* The next event of the sequence runs.                                    *)
Runs(s, e) ==
  /\ e \in Events /\ e = SentAt(s, Seen(s) + 1)
  /\ Seen(s) \in Nat /\ Seen(s) + 1 <= Total(s)
  /\ UNCHANGED <<native, answer>>
  /\ Errs(s)' = Errs(s) /\ Ends(s)' = Ends(s) /\ Total(s)' = Total(s)
  /\ Seen(s)' = Seen(s) + 1 /\ \A i : SentAt(s, i)' = SentAt(s, i)
  /\ Wire(s)'

LEMMA Delivered ==
  ASSUME IInv, NEW s \in Streams, DeliverEvent(s)
  PROVE  /\ Runs(s, Head(events[s]))
         /\ events' \in [Streams -> Seq(Events)]
         /\ \A x \in Streams \ {s} : events'[x] = events[x]
<1>1. TypeOK /\ Wire(s)
  BY DEF IInv, StreamInv
<1>2. /\ events[s] \in Seq(Events) /\ events[s] # <<>>
      /\ events' = [events EXCEPT ![s] = Tail(events[s])]
      /\ UNCHANGED <<native, answer>>
  BY <1>1, StreamTypes DEF DeliverEvent
<1>3. events'[s] = Tail(events[s])
  BY <1>1, <1>2 DEF TypeOK
<1> DEFINE e == Head(events[s])
           tl == Tail(events[s])
<1>4. /\ e \in Events /\ e = events[s][1] /\ 1 \in 1 .. Len(events[s])
      /\ tl \in Seq(Events) /\ Len(tl) = Len(events[s]) - 1 /\ Len(tl) \in Nat
      /\ \A i \in 1 .. Len(tl) : tl[i] = events[s][i + 1] /\ i + 1 \in 1 .. Len(events[s])
  BY <1>2
<1> HIDE DEF e, tl
<1>5. /\ Errs(s)' = Errs(s) /\ Ends(s)' = Ends(s) /\ Total(s)' = Total(s)
      /\ \A i : SentAt(s, i)' = SentAt(s, i)
  BY <1>2 DEF Errs, Ends, Total, SentAt, native
<1>6. /\ Seen(s) = Total(s) - Len(events[s]) /\ Seen(s)' = Total(s) - Len(tl)
      /\ Len(events[s]) <= Total(s) /\ Total(s) \in Nat /\ Len(events[s]) \in Nat
  BY <1>1, <1>3, <1>5, StreamTypes DEF Wire, Seen, tl
<1> DEFINE seen == Seen(s)
           seen2 == Seen(s)'
<1>7. /\ seen = Total(s) - Len(events[s]) /\ seen2 = Total(s) - Len(tl)
  BY <1>6
<1> HIDE DEF seen, seen2
<1>8. /\ seen \in Nat /\ seen + 1 <= Total(s) /\ seen2 = seen + 1 /\ Len(tl) <= Total(s)
  BY <1>4, <1>6, <1>7
<1>9. e = SentAt(s, seen + 1)
  BY <1>1, <1>4 DEF Wire, seen
<1>10. \A i \in 1 .. Len(tl) : tl[i] = SentAt(s, seen2 + i)
  <2> TAKE i \in 1 .. Len(tl)
  <2>1. tl[i] = SentAt(s, seen + (i + 1))
    BY <1>1, <1>4 DEF Wire, seen
  <2>2. seen + (i + 1) = seen2 + i
    BY <1>8
  <2> QED
    BY <2>1, <2>2
<1>11. Wire(s)'
  <2>1. Len(events'[s]) = Len(tl) /\ \A i \in 1 .. Len(tl) : events'[s][i] = tl[i]
    BY <1>3 DEF tl
  <2>2. \A i \in 1 .. Len(tl) : events'[s][i] = SentAt(s, Seen(s) + i)'
    BY <1>5, <1>10, <2>1 DEF seen2
  <2> QED
    BY <1>1, <1>2, <1>5, <1>8, <2>1, <2>2 DEF Wire, native
<1>12. Runs(s, e)
  BY <1>2, <1>4, <1>5, <1>8, <1>9, <1>11 DEF Runs, seen, seen2
<1>13. events' \in [Streams -> Seq(Events)]
  BY <1>1, <1>2, <1>4 DEF TypeOK, tl
<1> QED
  BY <1>1, <1>2, <1>12, <1>13 DEF e, TypeOK

LEMMA AppendOne ==
  ASSUME NEW u \in Seq(Nat), NEW v \in Seq(Nat), Len(v) = 1
  PROVE  (u \o v)[Len(u) + 1] = v[1]
<1> DEFINE n == Len(u)
<1>1. n \in Nat /\ n + 1 \in 1 .. n + 1 /\ ~(n + 1 <= n) /\ (n + 1) - n = 1
  OBVIOUS
<1>2. \A i \in 1 .. n + 1 : (u \o v)[i] = IF i <= n THEN u[i] ELSE v[i - n]
  BY ConcatProperties
<1> HIDE DEF n
<1>3. (u \o v)[n + 1] = v[(n + 1) - n]
  BY <1>1, <1>2
<1> QED
  BY <1>1, <1>3 DEF n

(* To the handler of a reader.                                             *)
LEMMA HandledIInv ==
  ASSUME IInv, NEW s \in Streams, DeliverEvent(s), handler[s]
  PROVE  IInv'
<1> DEFINE e == Head(events[s])
           list == <<e>>
<1>1. TypeOK /\ StreamInv(s) /\ Store \in StoreType
  BY StoreTypes DEF IInv
<1>2. /\ consumer[s] \in {"idle", "waiting", "done", "failed"} /\ Reading(s) /\ ~finished[s]
      /\ consumer[s] # "done"
  BY <1>1 DEF StreamInv, Unread, Cancelled, Reading
<1>3. /\ Runs(s, e) /\ events' \in [Streams -> Seq(Events)]
      /\ \A x \in Streams \ {s} : events'[x] = events[x]
  BY Delivered
<1>4. e \in Events /\ e \in [event : {"onData", "onError", "onEnd"}, chunk : Nat]
  BY <1>3 DEF Runs, Events
<1>5. /\ OnEvents(s, list)
      /\ SetStore(IF e.event = "onEnd" THEN Forget(Store, s) ELSE Store)
      /\ consumer' = [consumer EXCEPT ![s] = Wake(consumer[s], e)]
      /\ UNCHANGED <<native, answer, abortReq, fetcher, got, slotted, nativeAborted>>
  BY DEF DeliverEvent
<1> HIDE DEF e
<1>6. /\ list \in Seq(Events) /\ DOMAIN list = 1 .. 1 /\ list[1] = e
  BY <1>4
<1> HIDE DEF list
<1>7. \A k : Has(list, k) <=> e.event = k
  BY <1>6 DEF Has
<1>8. /\ DataChunks(list) \in Seq(Nat)
      /\ e.event = "onData" => Len(DataChunks(list)) = 1 /\ DataChunks(list)[1] = e.chunk
      /\ e.event # "onData" => Len(DataChunks(list)) = 0
  <2>1. CASE e.event = "onData"
    <3>1. PICK a \in Nat \ {0}, b \in Int : a = 1 /\ b = 1 /\ DataAt(list) = a .. b
      BY <1>6, <2>1 DEF DataAt
    <3>2. /\ DataChunks(list) \in Seq(Nat)
          /\ Len(DataChunks(list)) = IF a > b THEN 0 ELSE b - a + 1
          /\ \A j \in 1 .. Len(DataChunks(list)) : DataChunks(list)[j] = list[a + j - 1].chunk
      BY <1>6, <3>1, DataRun
    <3>3. Len(DataChunks(list)) = 1
      BY <3>1, <3>2
    <3>4. DataChunks(list)[1] = list[1 + 1 - 1].chunk
      BY <3>1, <3>2, <3>3
    <3>5. 1 + 1 - 1 = 1
      OBVIOUS
    <3> QED
      BY <1>6, <2>1, <3>2, <3>3, <3>4, <3>5
  <2>2. CASE e.event # "onData"
    <3>1. PICK a \in Nat \ {0}, b \in Int : a = 1 /\ b = 0 /\ DataAt(list) = a .. b
      BY <1>6, <2>2 DEF DataAt
    <3>2. /\ DataChunks(list) \in Seq(Nat)
          /\ Len(DataChunks(list)) = IF a > b THEN 0 ELSE b - a + 1
      BY <1>6, <3>1, DataRun
    <3> QED
      BY <2>2, <3>1, <3>2
  <2> QED
    BY <2>1, <2>2
<1>9. /\ buffer' = [buffer EXCEPT ![s] = buffer[s] \o DataChunks(list)]
      /\ failure' = [failure EXCEPT ![s] = failure[s] \/ Has(list, "onError")]
      /\ finished' = [finished EXCEPT ![s] = finished[s] \/ Has(list, "onEnd")]
      /\ handler' = [handler EXCEPT ![s] = ~Has(list, "onEnd")]
  BY <1>5 DEF OnEvents
<1>10. /\ buffer'[s] = buffer[s] \o DataChunks(list)
       /\ failure'[s] <=> failure[s] \/ e.event = "onError"
       /\ finished'[s] <=> e.event = "onEnd"
       /\ handler'[s] <=> e.event # "onEnd"
       /\ consumer'[s] \in {"idle", "failed"}
  BY <1>1, <1>2, <1>5, <1>7, <1>9 DEF TypeOK, Wake
<1>11. /\ Store' \in StoreType /\ \A x \in Streams \ {s} : Spares(Store, Store', x)
       /\ e.event = "onEnd" => early'[s] = <<>>
  <2> DEFINE st == IF e.event = "onEnd" THEN Forget(Store, s) ELSE Store
  <2>1. /\ st \in StoreType /\ \A x \in Streams \ {s} : Spares(Store, st, x)
        /\ e.event = "onEnd" => st.early[s] = <<>>
    BY <1>1, ForgetType DEF Spares
  <2> HIDE DEF st
  <2>2. Store' = st
    BY <1>5, <2>1, StoreSet DEF st
  <2> QED
    BY <2>1, <2>2 DEF Store
<1>12. TypeOK'
  <2>1. buffer' \in [Streams -> Seq(Nat)]
    <3>1. buffer[s] \o DataChunks(list) \in Seq(Nat)
      BY <1>1, <1>8, StreamTypes
    <3> QED
      BY <1>1, <1>9, <3>1 DEF TypeOK
  <2>2. \A f \in {handler', finished', failure'} : f \in [Streams -> BOOLEAN]
    <3>1. Has(list, "onEnd") \in BOOLEAN /\ Has(list, "onError") \in BOOLEAN
      BY DEF Has
    <3> QED
      BY <1>1, <1>9, <3>1 DEF TypeOK
  <2>3. consumer' \in [Streams -> {"none", "idle", "waiting", "done", "failed", "cancelled"}]
    BY <1>1, <1>5 DEF TypeOK, Wake
  <2>4. /\ early' \in [Streams -> Seq(Events)] /\ \A x \in Streams : Len(early'[x]) <= MaxEarly
        /\ retired' \subseteq Streams \cup {Another} /\ evicted' \subseteq Streams
        /\ order' \in Seq(Streams \cup {Another}) /\ Len(order') <= MaxRetired
    BY <1>11 DEF Store, StoreType, Names
  <2> QED
    BY <1>1, <1>3, <1>5, <2>1, <2>2, <2>3, <2>4 DEF TypeOK, CTypeOK, native, fetcher
<1>13. /\ chunks[s] \in Nat /\ Errs(s) \in 0 .. 1 /\ Ends(s) \in 0 .. 1
       /\ Total(s) = chunks[s] + Errs(s) + Ends(s)
       /\ Len(got[s]) \in Nat /\ Len(buffer[s]) \in Nat /\ buffer[s] \in Seq(Nat)
       /\ Len(buffer'[s]) = Len(buffer[s]) + Len(DataChunks(list))
       /\ got'[s] = got[s] /\ chunks'[s] = chunks[s]
  BY <1>1, <1>5, <1>8, <1>10, StreamTypes DEF native
<1>14. /\ e.event = "onData" <=> Seen(s) + 1 <= chunks[s]
       /\ e.event = "onData" => e.chunk = Seen(s) + 1
       /\ e.event = "onError" <=> Seen(s) + 1 = chunks[s] + 1 /\ Errs(s) = 1
       /\ e.event = "onEnd" <=> Ends(s) = 1 /\ Seen(s) + 1 = Total(s)
  BY <1>1, <1>3, SentEvents, EventTypes DEF Runs
<1>15. failure'[s] \/ Whole(s)'
  <2> SUFFICES ASSUME ~failure'[s] PROVE Whole(s)'
    OBVIOUS
  <2>1. ~failure[s] /\ e.event # "onError" /\ Whole(s)
    BY <1>2, <1>10 DEF Reading
  <2> DEFINE n == Seen(s)
  <2>2. /\ n \in Nat /\ Seen(s)' = n + 1 /\ Errs(s)' = Errs(s) /\ Ends(s)' = Ends(s)
        /\ Total(s)' = Total(s) /\ n + 1 <= Total(s)
    BY <1>3 DEF Runs
  <2>3. /\ Len(got[s]) + Len(buffer[s]) = IF n <= chunks[s] THEN n ELSE chunks[s]
        /\ n <= chunks[s] \/ Errs(s) = 0
    BY <2>1 DEF Whole
  <2>4. /\ e.event = "onData" <=> n + 1 <= chunks[s]
        /\ ~(n + 1 = chunks[s] + 1 /\ Errs(s) = 1)
        /\ e.event = "onEnd" <=> Ends(s) = 1 /\ n + 1 = Total(s)
    BY <1>14, <2>1
  <2> HIDE DEF n
  <2>5. Len(got[s]) + Len(buffer'[s]) = IF n + 1 <= chunks[s] THEN n + 1 ELSE chunks[s]
    <3> DEFINE g == Len(got[s])
               b == Len(buffer[s])
               d == Len(DataChunks(list))
               c == chunks[s]
    <3>1. /\ g \in Nat /\ b \in Nat /\ c \in Nat /\ d = IF n + 1 <= c THEN 1 ELSE 0
          /\ Len(buffer'[s]) = b + d /\ g + b = IF n <= c THEN n ELSE c
      BY <1>8, <1>13, <2>3, <2>4
    <3> HIDE DEF g, b, d, c
    <3>2. g + (b + d) = IF n + 1 <= c THEN n + 1 ELSE c
      BY <2>2, <3>1
    <3> QED
      BY <3>1, <3>2 DEF g, c
  <2>6. n + 1 <= chunks[s] \/ Errs(s) = 0
    BY <1>13, <2>2, <2>3, <2>4
  <2> QED
    BY <1>10, <1>13, <2>2, <2>4, <2>5, <2>6 DEF Whole
<1>16. Reading(s)'
  <2>1. answer'[s] = "run"
    BY <1>2, <1>5 DEF Reading
  <2> QED
    BY <1>10, <1>15, <2>1 DEF Reading
<1>17. Ordered(s)'
  <2>1. \A i \in 1 .. Len(got[s]) : got[s][i] = i
    BY <1>1 DEF StreamInv, Ordered
  <2>2. ASSUME ~failure'[s], NEW i \in 1 .. Len(buffer'[s])
        PROVE  buffer'[s][i] = Len(got[s]) + i
    <3>1. ~failure[s] /\ \A j \in 1 .. Len(buffer[s]) : buffer[s][j] = Len(got[s]) + j
      BY <1>1, <1>10, <2>2 DEF StreamInv, Ordered
    <3>2. CASE i \in 1 .. Len(buffer[s])
      BY <1>8, <1>10, <1>13, <3>1, <3>2
    <3>3. CASE i \notin 1 .. Len(buffer[s])
      <4> DEFINE g == Len(got[s])
                 b == Len(buffer[s])
                 d == Len(DataChunks(list))
                 c == chunks[s]
                 n == Seen(s)
      <4>1. /\ g \in Nat /\ b \in Nat /\ c \in Nat /\ n \in Nat
            /\ d \in Nat /\ (e.event # "onData" => d = 0) /\ (e.event = "onData" => d = 1)
            /\ i \in 1 .. b + d /\ i \notin 1 .. b
            /\ e.event = "onData" <=> n + 1 <= c
        BY <1>3, <1>8, <1>13, <1>14, <2>2, <3>3 DEF Runs
      <4>2. g + b = IF n <= c THEN n ELSE c
        BY <1>2, <3>1 DEF Reading, Whole
      <4>3. e.event = "onData" => buffer'[s][b + 1] = n + 1
        <5> SUFFICES ASSUME e.event = "onData" PROVE buffer'[s][b + 1] = n + 1
          OBVIOUS
        <5> DEFINE dc == DataChunks(list)
        <5>1. dc \in Seq(Nat) /\ Len(dc) = 1 /\ dc[1] = n + 1
          BY <1>8, <1>14
        <5> HIDE DEF dc
        <5>2. (buffer[s] \o dc)[b + 1] = dc[1]
          BY <1>13, <5>1, AppendOne DEF b
        <5> QED
          BY <1>10, <5>1, <5>2 DEF dc
      <4> HIDE DEF g, b, d, c, n
      <4>4. e.event = "onData" /\ i = b + 1 /\ n + 1 = g + i
        BY <4>1, <4>2
      <4> QED
        BY <4>3, <4>4 DEF g
    <3> QED
      BY <3>2, <3>3
  <2> QED
    BY <1>13, <2>1, <2>2 DEF Ordered
<1>18. Released(s)'
  <2> SUFFICES ASSUME finished'[s] PROVE early'[s] = <<>> /\ (phase[s] = "ended" /\ events[s] = <<>>)'
    BY DEF Released
  <2>1. e.event = "onEnd" /\ Ends(s) = 1 /\ Seen(s)' = Total(s)'
    BY <1>3, <1>10, <1>14 DEF Runs
  <2>2. Len(events'[s]) = 0 /\ events'[s] \in Seq(Events)
    BY <1>12, <2>1, StreamTypes DEF Seen, TypeOK, CTypeOK, Total, Errs, Ends
  <2> QED
    BY <1>5, <1>11, <2>1, <2>2 DEF Ends, native
<1>19. StreamInv(s)'
  BY <1>3, <1>10, <1>16, <1>17, <1>18 DEF StreamInv, Runs
<1>20. ASSUME NEW x \in Streams \ {s} PROVE StreamInv(x)'
  <2>1. StreamInv(x) /\ Spares(Store, Store', x)
    BY <1>11 DEF IInv
  <2>2. Still(x)
    BY <1>1, <1>3, <1>5, <1>9, <1>20 DEF Still, TypeOK, native
  <2> QED
    BY <2>1, <2>2, Frame
<1> QED
  BY <1>12, <1>19, <1>20 DEF IInv

(* An overflow leaves the two events that fail the reader.                 *)
LEMMA OverflowIsOverflown ==
  ASSUME NEW s \in Streams, Seen(s)' \in Nat,
         early'[s] = <<Event("onError", 0), Event("onEnd", 0)>>,
         s \in retired' \cup evicted'
  PROVE  Overflown(s)'
<1> DEFINE two == <<Event("onError", 0), Event("onEnd", 0)>>
<1>1. Len(two) = 2 /\ two[1] = Event("onError", 0) /\ two[2] = Event("onEnd", 0)
  OBVIOUS
<1>2. two[1].event = "onError" /\ two[2].event = "onEnd"
  BY <1>1, EventTypes
<1> HIDE DEF two
<1>3. early'[s] = two
  BY DEF two
<1> QED
  BY <1>1, <1>2, <1>3 DEF Overflown

(* Before the reader exists: the event is remembered.                      *)
LEMMA Remembered ==
  ASSUME IInv, NEW s \in Streams, NEW e, Runs(s, e), Unread(s),
         Store' = Remember(Store, s, e), UNCHANGED <<reader, got>>
  PROVE  Unread(s)'
<1>1. TypeOK /\ Store \in StoreType
  BY StoreTypes DEF IInv
<1>2. /\ s \in retired => Store' = Store
      /\ s \notin retired /\ Len(early[s]) < MaxEarly =>
           Store' = [Store EXCEPT !.early[s] = Append(@, e)]
      /\ s \notin retired /\ Len(early[s]) >= MaxEarly =>
           /\ Store'.early[s] = <<Event("onError", 0), Event("onEnd", 0)>>
           /\ s \in Store'.retired \cup Store'.evicted
  <2>1. /\ Store.early = early /\ Store.retired = retired /\ e \in Events
    BY DEF Store, Runs
  <2> DEFINE st == Store
             r == Remember(st, s, e)
  <2>2. st \in StoreType /\ st.early = early /\ st.retired = retired /\ Store' = r
    BY <1>1, <2>1
  <2> HIDE DEF st
  <2>3. /\ s \in st.retired => r = st
        /\ s \notin st.retired /\ Len(st.early[s]) < MaxEarly =>
             r = [st EXCEPT !.early[s] = Append(@, e)]
        /\ s \notin st.retired /\ Len(st.early[s]) >= MaxEarly =>
             /\ r.early[s] = <<Event("onError", 0), Event("onEnd", 0)>>
             /\ s \in r.retired \cup r.evicted
    BY <2>1, <2>2, RememberType
  <2> HIDE DEF r
  <2> QED
    BY <2>2, <2>3 DEF st
<1> DEFINE n == Seen(s)
<1>3. /\ n \in Nat /\ Seen(s)' = n + 1 /\ n + 1 <= Total(s)
      /\ e \in Events /\ e = SentAt(s, n + 1) /\ \A i : SentAt(s, i)' = SentAt(s, i)
  BY DEF Runs
<1>4. early[s] \in Seq(Events) /\ Len(early[s]) \in Nat /\ MaxEarly \in Nat
  BY <1>1, StreamTypes, LimitsAssumption
<1> HIDE DEF n
<1>5. Intact(s)' \/ Overflown(s)'
  <2>1. CASE s \in retired
    <3>1. UNCHANGED <<early, retired, evicted>>
      BY <1>2, <2>1 DEF Store
    <3>2. Overflown(s)
      BY <2>1 DEF Unread, Intact
    <3>3. Len(early[s]) = 2
      BY <2>1, <3>2 DEF Overflown
    <3>4. Overflown(s)'
      BY <1>3, <3>1, <3>2, <3>3 DEF Overflown
    <3> QED
      BY <3>4
  <2>2. CASE s \notin retired /\ Len(early[s]) < MaxEarly
    <3> DEFINE all == Append(early[s], e)
               m == Len(early[s])
    <3>1. early'[s] = all /\ UNCHANGED <<retired, evicted>>
      BY <1>1, <1>2, <2>2 DEF Store, StoreType
    <3>2. /\ Len(all) = m + 1 /\ m \in Nat
          /\ \A i \in 1 .. m : all[i] = early[s][i]
          /\ all[m + 1] = e
      BY <1>3, <1>4
    <3> HIDE DEF all, m
    <3>3. CASE Intact(s)
      <4>1. m = n /\ \A i \in 1 .. m : early[s][i] = SentAt(s, i)
        BY <3>3 DEF Intact, m, n
      <4>2. \A i \in 1 .. m + 1 : all[i] = SentAt(s, i)
        BY <1>3, <3>2, <4>1
      <4>3. Intact(s)'
        BY <1>3, <2>2, <3>1, <3>2, <4>1, <4>2 DEF Intact
      <4> QED
        BY <4>3
    <3>4. CASE Overflown(s)
      <4>1. /\ m >= 2 /\ m - 2 <= n
            /\ early[s][1].event = "onError" /\ early[s][2].event = "onEnd"
            /\ \A i \in 3 .. m : early[s][i] = SentAt(s, n - m + i)
            /\ s \in evicted
        BY <2>2, <3>4 DEF Overflown, m, n
      <4>2. all[1].event = "onError" /\ all[2].event = "onEnd"
        BY <3>2, <4>1
      <4>3. \A i \in 3 .. m + 1 : all[i] = SentAt(s, (n + 1) - (m + 1) + i)
        <5> TAKE i \in 3 .. m + 1
        <5>1. CASE i = m + 1
          <6>1. (n + 1) - (m + 1) + i = n + 1
            BY <1>3, <3>2, <5>1
          <6> QED
            BY <1>3, <3>2, <5>1, <6>1
        <5>2. CASE i \in 3 .. m
          <6>1. (n + 1) - (m + 1) + i = n - m + i
            BY <1>3, <3>2, <5>2
          <6>2. all[i] = early[s][i]
            BY <3>2, <5>2
          <6> QED
            BY <4>1, <5>2, <6>1, <6>2
        <5> QED
          BY <3>2, <5>1, <5>2
      <4>4. m + 1 >= 2 /\ (m + 1) - 2 <= n + 1
        BY <1>3, <3>2, <4>1
      <4>5. Overflown(s)'
        BY <1>3, <2>2, <3>1, <3>2, <4>1, <4>2, <4>3, <4>4 DEF Overflown
      <4> QED
        BY <4>5
    <3> QED
      BY <3>3, <3>4 DEF Unread
  <2>3. CASE s \notin retired /\ Len(early[s]) >= MaxEarly
    <3>1. /\ early'[s] = <<Event("onError", 0), Event("onEnd", 0)>>
          /\ s \in retired' \cup evicted' /\ Seen(s)' \in Nat
      BY <1>2, <1>3, <2>3 DEF Store
    <3>2. Overflown(s)'
      BY <3>1, OverflowIsOverflown
    <3> QED
      BY <3>2
  <2> QED
    BY <1>4, <2>1, <2>2, <2>3
<1> QED
  BY <1>5 DEF Unread, reader

LEMMA MissedIInv ==
  ASSUME IInv, NEW s \in Streams, DeliverEvent(s), ~handler[s]
  PROVE  IInv'
<1> DEFINE e == Head(events[s])
           once == Remember(Store, s, e)
           st == IF slotted[s] THEN Remember(once, s, e) ELSE once
<1>1. TypeOK /\ StreamInv(s) /\ Store \in StoreType
  BY StoreTypes DEF IInv
<1>2. /\ Runs(s, e) /\ events' \in [Streams -> Seq(Events)]
      /\ \A x \in Streams \ {s} : events'[x] = events[x]
  BY Delivered
<1>3. /\ SetStore(st) /\ UNCHANGED <<reader, consumer>> /\ events[s] # <<>>
      /\ UNCHANGED <<native, answer, abortReq, fetcher, got>>
  BY DEF DeliverEvent
<1>4. e \in Events
  BY <1>2 DEF Runs
<1> HIDE DEF e
<1>5. /\ once \in StoreType /\ \A x \in Streams \ {s} : Spares(Store, once, x)
      /\ Store.evicted \subseteq once.evicted
      /\ s \in retired => once = Store
  BY <1>1, <1>4, RememberType DEF Store
<1>6. /\ once \in StoreType =>
           /\ Remember(once, s, e) \in StoreType
           /\ \A x \in Streams \ {s} : Spares(once, Remember(once, s, e), x)
           /\ once.evicted \subseteq Remember(once, s, e).evicted
  BY <1>4, RememberType
<1>7. /\ st \in StoreType /\ \A x \in Streams \ {s} : Spares(Store, st, x)
      /\ Store.evicted \subseteq st.evicted
      /\ s \in retired => st = Store
  <2>1. CASE slotted[s]
    <3>1. s \in retired => Remember(once, s, e) = Store
      BY <1>5 DEF Store
    <3> HIDE DEF once
    <3> QED
      BY <1>5, <1>6, <2>1, <3>1 DEF Spares
  <2>2. CASE ~slotted[s]
    BY <1>5, <2>2
  <2> QED
    BY <2>1, <2>2
<1>8. ~slotted[s] => st = Remember(Store, s, e)
  OBVIOUS
<1> HIDE DEF once, st
<1>9. Store' = st
  BY <1>3, <1>7, StoreSet
<1>10. TypeOK'
  <2>1. /\ early' \in [Streams -> Seq(Events)] /\ \A x \in Streams : Len(early'[x]) <= MaxEarly
        /\ retired' \subseteq Streams \cup {Another} /\ evicted' \subseteq Streams
        /\ order' \in Seq(Streams \cup {Another}) /\ Len(order') <= MaxRetired
    BY <1>7, <1>9 DEF Store, StoreType, Names
  <2> QED
    BY <1>1, <1>2, <1>3, <2>1 DEF TypeOK, CTypeOK, native, fetcher, reader
<1>11. StreamInv(s)'
  <2>1. Wire(s)' /\ Ordered(s)'
    BY <1>1, <1>2, <1>3 DEF StreamInv, Ordered, Runs, reader
  <2>2. s \in retired => UNCHANGED <<early, retired>>
    BY <1>7, <1>9 DEF Store
  <2>3. evicted \subseteq evicted'
    BY <1>7, <1>9 DEF Store
  <2>4. Released(s)'
    BY <1>1, <1>3, <2>2, <2>3 DEF StreamInv, Released, reader
  <2>5. CASE consumer[s] = "none" /\ Unread(s)
    <3>1. Store' = Remember(Store, s, e)
      BY <1>8, <1>9, <2>5 DEF Unread
    <3>2. Unread(s)'
      BY <1>2, <1>3, <2>5, <3>1, Remembered
    <3> QED
      BY <1>3, <2>1, <2>4, <2>5, <3>2 DEF StreamInv
  <2>6. CASE consumer[s] \in {"idle", "waiting", "done", "failed"} /\ Reading(s)
    <3>1. ~Whole(s)
      <4>1. Seen(s) + 1 <= Total(s) /\ Seen(s) \in Nat /\ finished[s]
        BY <1>2, <2>6 DEF Runs, Reading
      <4>2. Total(s) \in Nat /\ Seen(s) # Total(s)
        BY <1>1, <4>1, StreamTypes
      <4> QED
        BY <4>1, <4>2 DEF Whole
    <3>2. Reading(s)'
      BY <1>3, <2>6, <3>1 DEF Reading, reader
    <3> QED
      BY <1>3, <2>1, <2>4, <2>6, <3>2 DEF StreamInv
  <2>7. CASE consumer[s] = "cancelled" /\ Cancelled(s)
    BY <1>3, <2>1, <2>4, <2>7 DEF StreamInv, Cancelled, reader
  <2> QED
    BY <1>1, <2>5, <2>6, <2>7 DEF StreamInv
<1>12. ASSUME NEW x \in Streams \ {s} PROVE StreamInv(x)'
  <2>1. StreamInv(x) /\ Spares(Store, Store', x)
    BY <1>7, <1>9 DEF IInv
  <2>2. Still(x)
    BY <1>2, <1>3, <1>12 DEF Still, native, reader
  <2> QED
    BY <2>1, <2>2, Frame
<1> QED
  BY <1>10, <1>11, <1>12 DEF IInv

-----------------------------------------------------------------------------
LEMMA InitIInv == Init => IInv
<1> SUFFICES ASSUME Init PROVE IInv
  OBVIOUS
<1>1. <<>> \in Seq(Nat) /\ <<>> \in Seq(Events) /\ <<>> \in Seq(Streams \cup {Another}) /\ Len(<<>>) = 0
  OBVIOUS
<1>2. TypeOK
  BY <1>1, LimitsAssumption DEF Init, CInit, TypeOK, CTypeOK, Phases, Fates
<1>3. ASSUME NEW s \in Streams PROVE StreamInv(s)
  <2>1. /\ phase[s] = "pending" /\ answer[s] = "none" /\ chunks[s] = 0
        /\ events[s] = <<>> /\ early[s] = <<>> /\ consumer[s] = "none"
        /\ buffer[s] = <<>> /\ got[s] = <<>> /\ retired = {}
        /\ ~handler[s] /\ ~slotted[s] /\ ~finished[s] /\ ~failure[s]
    BY DEF Init, CInit
  <2>2. Total(s) = 0 /\ Seen(s) = 0
    <3>1. Errs(s) = 0 /\ Ends(s) = 0
      BY <2>1 DEF Errs, Ends
    <3>2. Total(s) = 0
      BY <2>1, <3>1 DEF Total
    <3>3. Len(events[s]) = 0
      BY <1>1, <2>1
    <3> QED
      BY <3>2, <3>3 DEF Seen
  <2>3. Wire(s) /\ Ordered(s) /\ Released(s) /\ Intact(s)
    BY <2>1, <2>2 DEF Wire, Ordered, Released, Intact
  <2> QED
    BY <2>1, <2>3 DEF StreamInv, Unread
<1> QED
  BY <1>2, <1>3 DEF IInv

(* The invariant holds in every reachable state, for any number of streams *)
(* and whatever the sizes of the early buffer and of the retired names.    *)
THEOREM Inductive == Spec => []IInv
<1>1. Init => IInv
  BY InitIInv
<1>2. IInv /\ [Next]_vars => IInv'
  <2> SUFFICES ASSUME IInv, [Next]_vars PROVE IInv'
    OBVIOUS
  <2>1. ASSUME NEW s \in Streams, Step(s) PROVE IInv'
    <3>1. ASSUME DeliverEvent(s) PROVE IInv'
      BY <3>1, HandledIInv, MissedIInv
    <3> QED
      BY <2>1, <3>1, NativeStepIInv, NativeDataIInv, NativeSettleIInv, RequestIInv, ReadIInv,
        CancelIInv, CallbackHeadersIInv DEF Step, HostTurn, JsTurn
  <2> QED
    BY <2>1, OtherRetiresIInv, StutterIInv DEF Next, Finished
<1> QED
  BY <1>1, <1>2, PTL DEF Spec

-----------------------------------------------------------------------------
(* What read() returns is the body, in order, and it reports the end only  *)
(* of a body that ended cleanly and that it returned whole, however its    *)
(* events, the Callback and other streams' retired names interleave        *)
(* (createStreamingReader, rememberEarly).                                 *)
THEOREM WholeBody == Spec => []ReaderInvariant
<1>1. IInv => InOrder
  <2> SUFFICES ASSUME IInv, NEW s \in Streams,
                      NEW i \in DOMAIN (got[s] \o (IF failure[s] THEN <<>> ELSE buffer[s]))
               PROVE  (got[s] \o (IF failure[s] THEN <<>> ELSE buffer[s]))[i] = i
    BY DEF InOrder
  <2> DEFINE rest == IF failure[s] THEN <<>> ELSE buffer[s]
             g == got[s]
  <2>1. /\ g \in Seq(Nat) /\ rest \in Seq(Nat)
        /\ \A j \in 1 .. Len(g) : g[j] = j
        /\ \A j \in 1 .. Len(rest) : rest[j] = Len(g) + j
    BY StreamTypes DEF IInv, StreamInv, Ordered
  <2>0. i \in DOMAIN (g \o rest)
    OBVIOUS
  <2> HIDE DEF rest, g
  <2>2. /\ g \o rest \in Seq(Nat) /\ Len(g \o rest) = Len(g) + Len(rest)
        /\ \A j \in 1 .. Len(g) + Len(rest) :
             (g \o rest)[j] = IF j <= Len(g) THEN g[j] ELSE rest[j - Len(g)]
    BY <2>1, ConcatProperties
  <2>3. Len(g) \in Nat /\ Len(rest) \in Nat /\ i \in 1 .. Len(g) + Len(rest)
    BY <2>0, <2>1, <2>2
  <2> DEFINE m == Len(g)
             k == Len(rest)
  <2>4. (g \o rest)[i] = i
    <3>1. CASE i <= Len(g)
      BY <2>1, <2>2, <2>3, <3>1
    <3>2. CASE ~(i <= Len(g))
      <4>1. i - m \in 1 .. k /\ m + (i - m) = i
        BY <2>3, <3>2
      <4> QED
        BY <2>1, <2>2, <2>3, <3>2, <4>1
    <3> QED
      BY <3>1, <3>2
  <2> QED
    BY <2>4 DEF g, rest
<1>2. IInv => DoneMeansComplete
  <2> SUFFICES ASSUME IInv, NEW s \in Streams, consumer[s] = "done"
               PROVE  fate[s] = "clean" /\ Len(got[s]) = chunks[s]
    BY DEF DoneMeansComplete
  <2>1. TypeOK /\ Wire(s) /\ Whole(s) /\ finished[s] /\ buffer[s] = <<>>
    BY DEF IInv, StreamInv, Reading
  <2>2. /\ Ends(s) = 1 /\ Seen(s) = Total(s) /\ Len(buffer[s]) = 0
        /\ Seen(s) <= chunks[s] \/ Errs(s) = 0
        /\ Len(got[s]) + Len(buffer[s]) = IF Seen(s) <= chunks[s] THEN Seen(s) ELSE chunks[s]
    BY <2>1 DEF Whole
  <2>3. /\ Total(s) = chunks[s] + Errs(s) + 1 /\ chunks[s] \in Nat /\ Errs(s) \in 0 .. 1
        /\ Len(got[s]) \in Nat
    BY <2>1, <2>2, StreamTypes
  <2>4. Errs(s) = 0 /\ Len(got[s]) = chunks[s]
    BY <2>2, <2>3
  <2> QED
    BY <2>1, <2>2, <2>4 DEF Wire, Errs, Ends
<1>3. IInv => ReaderInvariant
  BY <1>1, <1>2 DEF IInv, ReaderInvariant
<1> QED
  BY <1>3, Inductive, PTL

(* A reader that finished leaves neither a handler nor events behind, as   *)
(* long as its retired name is remembered (releaseStream, retireStream).   *)
THEOREM NothingLeft == Spec => []ReleasedLeavesNothing
<1>1. IInv => ReleasedLeavesNothing
  <2> SUFFICES ASSUME IInv, NEW s \in Streams \ evicted, finished[s]
               PROVE  early[s] = <<>> /\ ~handler[s]
    BY DEF ReleasedLeavesNothing
  <2> QED
    BY DEF IInv, StreamInv, Released, Unread, Reading, Cancelled
<1> QED
  BY <1>1, Inductive, PTL
=============================================================================
