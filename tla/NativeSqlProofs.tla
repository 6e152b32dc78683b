-------------------------- MODULE NativeSqlProofs --------------------------
(***************************************************************************)
(* Theorems about the SQL calls of the application.  NativeCall, for any   *)
(* number of calls, any values and any depth of handlers: the module map   *)
(* follows the handler, and what was bound comes back over every host and  *)
(* over the hop.  LynxDBAdapter, above it, for any number of calls and     *)
(* readers: locks are exclusive, and a close reaches every connection.     *)
(***************************************************************************)
EXTENDS NativeCall, LynxDBAdapter, FiniteSetTheorems, SequenceTheorems, TLAPS

(* What the map has when handler n is the current one. *)
MapAt(n) == IF AttachedFrom(n) THEN "factory" ELSE mapped

(* Every handler saved an older one, and the map that was right for it.     *)
Handlers == [kind : {"attach", "page"}, previous : Nat, map : {"none", "other", "factory"}]

Frames ==
    /\ frames \in Seq(Handlers)
    /\ mapped \in {"none", "other"} /\ map \in {"none", "other", "factory"}
    /\ current \in 0..Len(frames)
    /\ \A n \in 1..Len(frames) :
          frames[n].previous \in 0..Len(frames) /\ frames[n].map = MapAt(frames[n].previous)

(* The way of a bound value over the hop, through SQLite and back. *)
Sent(x) == IF host = "web" THEN EncodeCloneable(EncodeBind(x)) ELSE EncodeBind(x)

RowOf(wire) ==
    IF host = "web"
    THEN EncodeCloneable(ToNativeCell(Cell(Bound(ToSqliteBind(DecodeCloneable(wire))))))
    ELSE Cell(Bound(wire))

Received(wire) == DecodeCell(IF host = "web" THEN DecodeCloneable(wire) ELSE wire)

(* What a call has on its wire at each step. *)
Fields == {"at", "value", "wire", "by", "failed", "result"}

WireOf(c) ==
    /\ DOMAIN c = Fields
    /\ c.at \in {"idle", "sent", "page", "answered", "settled"}
    /\ c.at \in {"idle", "sent", "page"} => c.by = "none"
    /\ c.at # "idle" => c.value \in Binds
    /\ c.at \in {"sent", "page"} => c.wire = Sent(c.value)
    /\ c.at = "answered" /\ c.failed = "thrown" => c.wire = Null
    /\ c.at = "answered" /\ c.by = "sqlite" =>
          \/ c.failed = "no" /\ c.wire = RowOf(Sent(c.value))
          \/ /\ c.failed \in {"no code", "number code", "text code"}
             /\ c.wire = V("failure", ErrorCode(c.failed))

Wires ==
    /\ host \in {"web", "ios", "android", "desktop"}
    /\ DOMAIN calls = Calls
    /\ \A k \in Calls : WireOf(calls[k])

(* What AnswersSurvive says of one call. *)
Survives(c) ==
    c.at = "settled" /\ c.by = "sqlite" =>
        c.result = CASE c.failed = "no" -> Read(c.value)
                     [] c.failed = "number code" -> V("error", <<1>>)
                     [] OTHER -> V("error", <<>>)

IInv == Frames /\ MapFollowsHandler /\ Wires /\ AnswersSurvive

-----------------------------------------------------------------------------
(* Chains of handlers *)

(* The handler sets that are closed under passing a call on. *)
Closed(S) == /\ S \in SUBSET (0..Len(frames))
             /\ \A m \in S \ {0} : frames[m].previous \in S

(* What it is to be in a chain, without the set of closed sets.             *)
LEMMA InChain ==
    ASSUME NEW n, NEW m
    PROVE  m \in Chain(n) <=>
               m \in 1..Len(frames) /\ \A S : Closed(S) /\ n \in S => m \in S
BY DEF Chain, Closed

(* Past the oldest handler there is none.                                   *)
LEMMA ChainOfNone ==
    ASSUME Frames
    PROVE  Chain(0) = {}
<1>1. Len(frames) \in Nat
  BY DEF Frames
<1>2. Closed({0})
  BY <1>1 DEF Closed
<1> QED
  BY <1>1, <1>2, InChain

(* A handler reaches itself and what the one it saved reaches.              *)
LEMMA ChainStep ==
    ASSUME Frames, NEW n \in 1..Len(frames)
    PROVE  Chain(n) = {n} \cup Chain(frames[n].previous)
<1> DEFINE p == frames[n].previous
<1>1. Len(frames) \in Nat /\ n \in 0..Len(frames) /\ n # 0
  BY DEF Frames
<1>2. n \in Chain(n)
  BY InChain
<1>3. ASSUME NEW m \in Chain(p) PROVE m \in Chain(n)
  <2>1. \A S : Closed(S) /\ n \in S => p \in S
    BY <1>1 DEF Closed
  <2> QED
    BY <1>3, <2>1, InChain
<1>4. ASSUME NEW m \in Chain(n), m # n PROVE m \in Chain(p)
  <2> SUFFICES ASSUME NEW S, Closed(S), p \in S PROVE m \in S
    BY <1>4, InChain
  <2>1. Closed(S \cup {n})
    BY <1>1 DEF Closed
  <2> QED
    BY <1>4, <2>1, InChain
<1> QED
  BY <1>2, <1>3, <1>4

(* A new handler changes nothing for the older ones.                        *)
LEMMA ChainStays ==
    ASSUME Frames, NEW f, f.previous \in 0..Len(frames), frames' = Append(frames, f),
           NEW n \in 0..Len(frames)
    PROVE  Chain(n)' = Chain(n)
<1>1. /\ Len(frames) \in Nat /\ Len(frames') = Len(frames) + 1
      /\ \A m \in 1..Len(frames) : frames'[m] = frames[m]
                               /\ frames[m].previous \in 0..Len(frames)
      /\ frames'[Len(frames) + 1] = f
  BY DEF Frames
<1>2. \A m : m \in Chain(n)' <=>
          m \in 1..Len(frames') /\ \A S : Closed(S)' /\ n \in S => m \in S
  BY DEF Chain, Closed
<1>3. ASSUME NEW S, Closed(S) PROVE Closed(S)'
  BY <1>1, <1>3 DEF Closed
<1>4. ASSUME NEW S, Closed(S)' PROVE Closed(S \cap (0..Len(frames)))
  BY <1>1, <1>4 DEF Closed
<1>5. Closed(0..Len(frames))
  BY <1>1 DEF Closed
<1>6. ASSUME NEW m \in Chain(n)' PROVE m \in Chain(n)
  <2>1. m \in 1..Len(frames)
    BY <1>1, <1>2, <1>3, <1>5, <1>6
  <2>2. \A S : Closed(S) /\ n \in S => m \in S
    BY <1>2, <1>3, <1>6
  <2> QED
    BY <2>1, <2>2, InChain
<1>7. ASSUME NEW m \in Chain(n) PROVE m \in Chain(n)'
  <2>1. m \in 1..Len(frames')
    BY <1>1, <1>7, InChain
  <2>2. ASSUME NEW S, Closed(S)', n \in S PROVE m \in S
    BY <1>4, <1>7, <2>2, InChain
  <2> QED
    BY <1>2, <2>1, <2>2
<1> QED
  BY <1>6, <1>7

(* So the map that is right for an older handler is right still.            *)
LEMMA MapAtStays ==
    ASSUME Frames, NEW f, f.previous \in 0..Len(frames), frames' = Append(frames, f),
           mapped' = mapped, NEW n \in 0..Len(frames)
    PROVE  MapAt(n)' = MapAt(n)
<1>1. Chain(n)' = Chain(n)
  BY ChainStays
<1>2. \A m \in Chain(n) : frames'[m] = frames[m]
  BY InChain DEF Frames
<1> QED
  BY <1>1, <1>2 DEF MapAt, AttachedFrom

(* The map that is right for a handler, from its kind and the one it saved. *)
MapByStep ==
    /\ MapAt(0) = mapped
    /\ \A n \in 1..Len(frames) :
          MapAt(n) = IF frames[n].kind = "attach" THEN "factory"
                     ELSE MapAt(frames[n].previous)

LEMMA MapAtStep == Frames => MapByStep
BY ChainOfNone, ChainStep DEF MapAt, AttachedFrom, MapByStep

LEMMA MapAtStepNext == Frames' => MapByStep'
BY MapAtStep, PTL

LEMMA ViewStays ==
    ASSUME UNCHANGED <<mapped, frames>>, NEW n
    PROVE  MapAt(n)' = MapAt(n)
<1>1. Chain(n)' = Chain(n)
  BY DEF Chain
<1> QED
  BY <1>1 DEF MapAt, AttachedFrom

-----------------------------------------------------------------------------
(* Values *)

LEMMA ElementsOf == \A S : \A s \in Seq(S) : \A i \in DOMAIN s : s[i] \in S
OBVIOUS

(* Bytes are a blob as they are.                                            *)
LEMMA BytesOfBytes ==
    ASSUME NEW b \in Seq(0..255)
    PROVE  Bytes(b) = b
<1>1. \A n \in 0..255 : n % 256 = n
  OBVIOUS
<1>2. \A i \in DOMAIN b : b[i] \in 0..255
  BY ElementsOf
<1>3. \A i \in DOMAIN b : b[i] % 256 = b[i]
  BY <1>1, <1>2
<1>4. b = [i \in DOMAIN b |-> b[i]]
  OBVIOUS
<1> QED
  BY <1>3, <1>4 DEF Bytes

(* A value of a type, and whether its number is safe.                       *)
Fits(v) == Abs(v[1]) <= MaxSafe

LEMMA OfType == \A t, v : V(t, v).t = t /\ V(t, v).v = v /\ (Safe(V(t, v)) <=> Fits(v))
BY DEF V, Safe, Fits

(* The conversions by type, on the way to SQLite.                           *)
LEMMA Outward ==
    ASSUME NEW v
    PROVE  /\ \A t \in {"null", "text", "number", "ArrayBuffer"} : EncodeBind(V(t, v)) = V(t, v)
           /\ EncodeBind(V("bigint", v)) = V("__psBig", v)
           /\ \A t \in {"Uint8Array", "array"} : EncodeBind(V(t, v)) = V("ArrayBuffer", Bytes(v))
           /\ \A t \in {"null", "text", "number", "__psBig"} : EncodeCloneable(V(t, v)) = V(t, v)
           /\ EncodeCloneable(V("bigint", v)) = V("__psBig", v)
           /\ EncodeCloneable(V("ArrayBuffer", v)) = V("__psAb", v)
           /\ \A t \in {"null", "text", "number"} : DecodeCloneable(V(t, v)) = V(t, v)
           /\ DecodeCloneable(V("__psBig", v)) = V("bigint", v)
           /\ DecodeCloneable(V("__psAb", v)) = V("ArrayBuffer", v)
           /\ \A t \in {"null", "text", "number", "bigint"} : ToSqliteBind(V(t, v)) = V(t, v)
           /\ ToSqliteBind(V("ArrayBuffer", v)) = V("Uint8Array", v)
<1>1. /\ \A t \in {"null", "text", "number", "ArrayBuffer"} : EncodeBind(V(t, v)) = V(t, v)
      /\ EncodeBind(V("bigint", v)) = V("__psBig", v)
      /\ \A t \in {"Uint8Array", "array"} : EncodeBind(V(t, v)) = V("ArrayBuffer", Bytes(v))
  BY OfType DEF EncodeBind
<1>2. /\ \A t \in {"null", "text", "number", "__psBig"} : EncodeCloneable(V(t, v)) = V(t, v)
      /\ EncodeCloneable(V("bigint", v)) = V("__psBig", v)
      /\ EncodeCloneable(V("ArrayBuffer", v)) = V("__psAb", v)
  BY OfType DEF EncodeCloneable
<1>3. /\ \A t \in {"null", "text", "number"} : DecodeCloneable(V(t, v)) = V(t, v)
      /\ DecodeCloneable(V("__psBig", v)) = V("bigint", v)
      /\ DecodeCloneable(V("__psAb", v)) = V("ArrayBuffer", v)
  BY OfType DEF DecodeCloneable
<1>4. /\ \A t \in {"null", "text", "number", "bigint"} : ToSqliteBind(V(t, v)) = V(t, v)
      /\ ToSqliteBind(V("ArrayBuffer", v)) = V("Uint8Array", v)
  BY OfType DEF ToSqliteBind
<1> QED
  BY <1>1, <1>2, <1>3, <1>4

(* Into SQLite and out of it.                                               *)
LEMMA Stored ==
    ASSUME NEW v, host \in {"web", "ios", "android", "desktop"}
    PROVE  /\ Cell(Bound(Null)) = Null
           /\ Cell(Bound(V("text", v))) = V("text", v)
           /\ Cell(Bound(V("number", v))) = V("number", v)
           /\ Cell(Bound(V("__psBig", v))) =
                 V(IF Fits(v) THEN "number" ELSE IF host = "ios" THEN "__psBig" ELSE "bigint", v)
           /\ host = "web" => Cell(Bound(V("bigint", v))) = V(IF Fits(v) THEN "number" ELSE "bigint", v)
           /\ host = "web" => Cell(Bound(V("Uint8Array", v))) = V("Uint8Array", v)
           /\ host # "web" => Cell(Bound(V("ArrayBuffer", v))) = V("ArrayBuffer", v)
<1>1. Bound(Null) = Null /\ Cell(Null) = Null
  BY OfType DEF Bound, Cell, Null
<1>2. Bound(V("text", v)) = V("TEXT", v) /\ Cell(V("TEXT", v)) = V("text", v)
  BY OfType DEF Bound, Cell
<1>3. /\ Bound(V("number", v)) = V(IF Fits(v) THEN "INTEGER" ELSE "REAL", v)
      /\ Cell(V("REAL", v)) = V("number", v)
      /\ Cell(V("INTEGER", v)) =
            V(IF Fits(v) THEN "number" ELSE IF host = "ios" THEN "__psBig" ELSE "bigint", v)
  BY OfType DEF Bound, Cell
<1>4. /\ Bound(V("__psBig", v)) = V("INTEGER", v)
      /\ host # "ios" => Bound(V("bigint", v)) = V("INTEGER", v)
  BY OfType DEF Bound
<1>5. /\ Bound(V("Uint8Array", v)) = V("BLOB", v)
      /\ host # "web" => Bound(V("ArrayBuffer", v)) = V("BLOB", v)
      /\ Cell(V("BLOB", v)) = V(IF host = "web" THEN "Uint8Array" ELSE "ArrayBuffer", v)
  BY OfType DEF Bound, Cell
<1> QED
  BY <1>1, <1>2, <1>3, <1>4, <1>5

(* And on the way back.                                                     *)
LEMMA Homeward ==
    ASSUME NEW v
    PROVE  /\ \A t \in {"null", "text", "number", "bigint"} : ToNativeCell(V(t, v)) = V(t, v)
           /\ ToNativeCell(V("Uint8Array", v)) = V("ArrayBuffer", v)
           /\ \A t \in {"null", "text", "number", "bigint"} : DecodeCell(V(t, v)) = V(t, v)
           /\ DecodeCell(V("ArrayBuffer", v)) = V("Uint8Array", v)
           /\ DecodeCell(V("__psBig", v)) = V("bigint", v)
<1>1. /\ \A t \in {"null", "text", "number", "bigint"} : ToNativeCell(V(t, v)) = V(t, v)
      /\ ToNativeCell(V("Uint8Array", v)) = V("ArrayBuffer", v)
  BY OfType DEF ToNativeCell
<1> QED
  BY <1>1, OfType DEF DecodeCell

(* What JavaScript binds comes back as it should be read, on every host.    *)
LEMMA RoundTrip ==
    ASSUME NEW x \in Binds, host \in {"web", "ios", "android", "desktop"}
    PROVE  /\ Received(RowOf(Sent(x))) = Read(x)
           /\ RowOf(Sent(x)).t \notin {"undefined", "failure"}
<1>1. x = V(x.t, x.v)
  BY BindsAssumption DEF V, Null
<1>2. x.t \in {"null", "text", "number", "bigint", "array", "ArrayBuffer", "Uint8Array"}
  BY BindsAssumption DEF V, Null
<1> DEFINE v == x.v
<1>3. CASE x.t = "null"
  <2>1. x = Null /\ Null = V("null", <<>>)
    BY <1>3, BindsAssumption DEF Null
  <2>2. Sent(x) = Null
    BY <2>1, Outward DEF Sent
  <2>3. RowOf(Null) = Null
    BY <2>1, Outward, Stored, Homeward DEF RowOf
  <2>4. Received(Null) = Null
    BY <2>1, Outward, Homeward DEF Received
  <2> QED
    BY <2>1, <2>2, <2>3, <2>4, OfType DEF Read
<1>4. CASE x.t = "text"
  <2>1. x = V("text", v)
    BY <1>1, <1>4
  <2>2. Sent(x) = x
    BY <2>1, Outward DEF Sent
  <2>3. RowOf(x) = x
    BY <2>1, Outward, Stored, Homeward DEF RowOf
  <2>4. Received(x) = x
    BY <2>1, Outward, Homeward DEF Received
  <2> QED
    BY <1>4, <2>2, <2>3, <2>4 DEF Read
<1>5. CASE x.t = "number"
  <2>1. x = V("number", v)
    BY <1>1, <1>5
  <2>2. Sent(x) = x
    BY <2>1, Outward DEF Sent
  <2>3. RowOf(x) = x
    BY <2>1, Outward, Stored, Homeward DEF RowOf
  <2>4. Received(x) = x
    BY <2>1, Outward, Homeward DEF Received
  <2> QED
    BY <1>5, <2>2, <2>3, <2>4 DEF Read
<1>6. CASE x.t = "bigint"
  <2> DEFINE far == IF Fits(v) THEN "number" ELSE "bigint"
  <2>1. x = V("bigint", v) /\ Sent(x) = V("__psBig", v)
    BY <1>1, <1>6, Outward DEF Sent
  <2>2. Read(x) = V(far, v)
    BY <2>1, OfType DEF Read
  <2>3. CASE host = "web"
    <3>1. RowOf(V("__psBig", v)) = V(IF Fits(v) THEN "number" ELSE "__psBig", v)
      BY <2>3, Outward, Stored, Homeward DEF RowOf
    <3>2. Received(V("number", v)) = V("number", v) /\ Received(V("__psBig", v)) = V("bigint", v)
      BY <2>3, Outward, Homeward DEF Received
    <3> QED
      BY <2>1, <2>2, <3>1, <3>2, OfType
  <2>4. CASE host # "web"
    <3>1. RowOf(V("__psBig", v)) =
            V(IF Fits(v) THEN "number" ELSE IF host = "ios" THEN "__psBig" ELSE "bigint", v)
      BY <2>4, Stored DEF RowOf
    <3>2. /\ Received(V("number", v)) = V("number", v) /\ Received(V("bigint", v)) = V("bigint", v)
          /\ Received(V("__psBig", v)) = V("bigint", v)
      BY <2>4, Homeward DEF Received
    <3> QED
      BY <2>1, <2>2, <3>1, <3>2, OfType
  <2> QED
    BY <2>3, <2>4
<1>7. CASE x.t \in {"ArrayBuffer", "Uint8Array", "array"}
  <2> DEFINE b == Bytes(v)
  <2>1. EncodeBind(x) = V("ArrayBuffer", b)
    <3>1. CASE x.t = "ArrayBuffer"
      <4>1. v \in Seq(0..255)
        <5>1. x # Null /\ x \notin [t : {"text", "number", "bigint", "array"}, v : Seq(Int)]
          BY <3>1, OfType DEF Null
        <5>2. x \in [t : {"ArrayBuffer", "Uint8Array"}, v : Seq(0..255)]
          BY <5>1, BindsAssumption
        <5> QED
          BY <5>2
      <4> QED
        BY <1>1, <3>1, <4>1, BytesOfBytes, Outward
    <3>2. CASE x.t # "ArrayBuffer"
      BY <1>1, <1>7, <3>2, Outward
    <3> QED
      BY <3>1, <3>2
  <2>2. Read(x) = V("Uint8Array", b)
    BY <1>7 DEF Read
  <2>3. CASE host = "web"
    <3>1. Sent(x) = V("__psAb", b)
      BY <2>1, <2>3, Outward DEF Sent
    <3>2. RowOf(V("__psAb", b)) = V("__psAb", b)
      BY <2>3, Outward, Stored, Homeward DEF RowOf
    <3>3. Received(V("__psAb", b)) = V("Uint8Array", b)
      BY <2>3, Outward, Homeward DEF Received
    <3> QED
      BY <2>2, <3>1, <3>2, <3>3, OfType
  <2>4. CASE host # "web"
    <3>1. Sent(x) = V("ArrayBuffer", b)
      BY <2>1, <2>4 DEF Sent
    <3>2. RowOf(V("ArrayBuffer", b)) = V("ArrayBuffer", b)
      BY <2>4, Stored DEF RowOf
    <3>3. Received(V("ArrayBuffer", b)) = V("Uint8Array", b)
      BY <2>4, Homeward DEF Received
    <3> QED
      BY <2>2, <3>1, <3>2, <3>3, OfType
  <2> QED
    BY <2>3, <2>4
<1> QED
  BY <1>2, <1>3, <1>4, <1>5, <1>6, <1>7

-----------------------------------------------------------------------------
(* The initial states satisfy the invariant.                                *)
LEMMA InitIInv == Init => IInv
<1> SUFFICES ASSUME Init PROVE IInv
  OBVIOUS
<1> USE DEF Init
<1>1. Frames
  BY DEF Frames, Handlers
<1>2. MapFollowsHandler
  BY <1>1, MapAtStep DEF MapByStep, MapFollowsHandler, MapAt, Attached
<1>3. Wires /\ AnswersSurvive
  BY DEF Wires, WireOf, AnswersSurvive, Idle, Fields
<1> QED
  BY <1>1, <1>2, <1>3 DEF IInv

(* What the calls have depends on nothing but the host and the calls.       *)
LEMMA CallsStay ==
    ASSUME Wires, AnswersSurvive, UNCHANGED <<host, calls>>
    PROVE  Wires' /\ AnswersSurvive'
<1>1. \A x \in Binds : Sent(x)' = Sent(x)
  BY DEF Sent
<1>2. \A wire : Bound(wire)' = Bound(wire)
  BY DEF Bound
<1>3. \A x : Cell(x)' = Cell(x)
  BY DEF Cell
<1>4. \A wire : RowOf(wire)' = RowOf(wire)
  BY <1>2, <1>3 DEF RowOf
<1>5. AnswersSurvive'
  BY DEF AnswersSurvive
<1>6. ASSUME NEW k \in Calls PROVE WireOf(calls[k])'
  BY <1>1, <1>4 DEF Wires, WireOf
<1>7. Wires'
  BY <1>6 DEF Wires
<1> QED
  BY <1>5, <1>7

(* The handlers come and go, in any order.                                  *)
LEMMA ViewIInv ==
    ASSUME IInv,
           Attach \/ PageWraps \/ PageUnwraps \/ StartWorker \/ \E n \in DOMAIN frames : Detach(n)
    PROVE  IInv'
<1>1. Wires' /\ AnswersSurvive'
  <2>1. UNCHANGED <<host, calls>>
    BY DEF Attach, PageWraps, PageUnwraps, StartWorker, Detach
  <2> QED
    BY <2>1, CallsStay DEF IInv
<1>2. map = MapAt(current)
  BY DEF IInv, MapFollowsHandler, MapAt, Attached
<1>3. Frames' /\ map' = MapAt(current)'
  <2>1. ASSUME NEW kind \in {"attach", "page"}, frames' = Append(frames, Frame(kind)),
               current' = Len(frames) + 1, mapped' = mapped,
               map' = IF kind = "attach" THEN "factory" ELSE map
        PROVE  Frames' /\ map' = MapAt(current)'
    <3> DEFINE f == Frame(kind)
    <3>1. /\ f.kind = kind /\ f.previous = current /\ f.map = map
          /\ f.previous \in 0..Len(frames) /\ Len(frames) \in Nat
          /\ f \in Handlers
      BY DEF Frame, IInv, Frames, Handlers
    <3>2. /\ Len(frames') = Len(frames) + 1 /\ frames'[Len(frames) + 1] = f
          /\ \A n \in 1..Len(frames) : frames'[n] = frames[n]
          /\ frames' \in Seq(Handlers)
      BY <2>1, <3>1 DEF IInv, Frames
    <3> HIDE DEF f
    <3>3. \A n \in 0..Len(frames) : MapAt(n)' = MapAt(n)
      BY <2>1, <3>1, MapAtStays DEF IInv, f
    <3>4. ASSUME NEW n \in 1..Len(frames')
          PROVE  /\ frames'[n].previous \in 0..Len(frames')
                 /\ frames'[n].map = MapAt(frames[n].previous)'
      <4>1. CASE n \in 1..Len(frames)
        <5>1. frames[n].previous \in 0..Len(frames) /\ frames[n].map = MapAt(frames[n].previous)
          BY <4>1 DEF IInv, Frames
        <5> QED
          BY <3>1, <3>2, <3>3, <4>1, <5>1
      <4>2. CASE n = Len(frames) + 1
        BY <1>2, <3>1, <3>2, <3>3, <4>2
      <4> QED
        BY <3>1, <3>2, <4>1, <4>2
    <3>5. Frames'
      BY <2>1, <3>1, <3>2, <3>4 DEF IInv, Frames
    <3>6. MapAt(current)' = IF f.kind = "attach" THEN "factory" ELSE MapAt(current)
      <4>1. MapAt(current)' = IF frames'[current'].kind = "attach" THEN "factory"
                              ELSE MapAt(frames[current].previous)'
        BY <2>1, <3>1, <3>2, <3>5, MapAtStepNext DEF MapByStep
      <4> QED
        BY <2>1, <3>1, <3>2, <3>3, <4>1
    <3> QED
      BY <1>2, <2>1, <3>1, <3>5, <3>6
  <2>2. ASSUME current # 0, current' = frames[current].previous, UNCHANGED <<mapped, frames>>,
               map' = MapAt(frames[current].previous)
        PROVE  Frames' /\ map' = MapAt(current)'
    <3>1. \A n : MapAt(n)' = MapAt(n)
      BY <2>2, ViewStays
    <3>2. /\ current \in 1..Len(frames) /\ current' \in 0..Len(frames)
          /\ frames[current].map \in {"none", "other", "factory"}
          /\ map' = frames[current].map
      <4>1. current \in 1..Len(frames)
        BY <2>2 DEF IInv, Frames
      <4>2. frames[current] \in Handlers
        BY <4>1, ElementsOf DEF IInv, Frames
      <4>3. /\ frames[current].previous \in 0..Len(frames)
            /\ frames[current].map = MapAt(frames[current].previous)
        BY <4>1 DEF IInv, Frames
      <4> QED
        BY <2>2, <4>1, <4>2, <4>3 DEF Handlers
    <3>3. \A n \in 1..Len(frames) :
             frames[n].previous \in 0..Len(frames) /\ frames[n].map = MapAt(frames[n].previous)'
      BY <2>2, <3>1 DEF IInv, Frames
    <3>4. Frames'
      BY <2>2, <3>2, <3>3 DEF IInv, Frames
    <3>5. map' = MapAt(current')
      BY <2>2
    <3> QED
      BY <3>1, <3>4, <3>5
  <2>3. CASE Attach
    BY <2>1, <2>3 DEF Attach
  <2>4. CASE PageWraps
    BY <2>1, <2>4 DEF PageWraps
  <2>5. CASE PageUnwraps
    <3>1. current \in 1..Len(frames) /\ frames[current].kind = "page"
      BY <2>5 DEF PageUnwraps, IInv, Frames
    <3>2. MapAt(frames[current].previous) = map
      BY <1>2, <3>1, MapAtStep DEF MapByStep, IInv
    <3> QED
      BY <2>2, <2>5, <3>2 DEF PageUnwraps
  <2>6. CASE \E n \in DOMAIN frames : Detach(n)
    <3>1. PICK n \in DOMAIN frames : Detach(n)
      BY <2>6
    <3>2. n \in 1..Len(frames) /\ current = n /\ frames[n].kind = "attach"
      BY <3>1 DEF Detach, IInv, Frames
    <3>3. map = "factory" /\ map' = MapAt(frames[current].previous)
      BY <1>2, <3>1, <3>2, MapAtStep DEF MapByStep, Detach, Restored, IInv, Frames
    <3> QED
      BY <2>2, <3>1, <3>2, <3>3 DEF Detach
  <2>7. CASE StartWorker
    <3>1. \A n : MapAt(n)' = MapAt(n)
      BY <2>7, ViewStays DEF StartWorker, view
    <3>2. Frames'
      BY <2>7, <3>1 DEF StartWorker, view, IInv, Frames
    <3> QED
      BY <1>2, <2>7, <3>1, <3>2 DEF StartWorker, view
  <2> QED
    BY <2>3, <2>4, <2>5, <2>6, <2>7
<1> QED
  BY <1>1, <1>3 DEF IInv, MapFollowsHandler, MapAt, Attached

(* One call goes on, to a state that is right for it.                       *)
LEMMA OneCall ==
    ASSUME IInv, NEW k \in Calls, NEW c, WireOf(c), Survives(c), UNCHANGED <<host, view>>,
           calls' = [calls EXCEPT ![k] = c]
    PROVE  IInv'
<1>1. \A x : Sent(x)' = Sent(x)
  BY DEF Sent
<1>2. \A wire : Bound(wire)' = Bound(wire)
  BY DEF Bound
<1>3. \A x : Cell(x)' = Cell(x)
  BY DEF Cell
<1>4. \A wire : RowOf(wire)' = RowOf(wire)
  BY <1>2, <1>3 DEF RowOf
<1>5. /\ DOMAIN calls' = Calls
      /\ \A j \in Calls : calls'[j] = IF j = k THEN c ELSE calls[j]
  BY DEF IInv, Wires
<1>6. ASSUME NEW j \in Calls PROVE WireOf(calls[j])'
  <2>1. WireOf(calls'[j])
    BY <1>5 DEF IInv, Wires
  <2> QED
    BY <1>1, <1>4, <2>1 DEF WireOf
<1>7. Wires'
  BY <1>5, <1>6 DEF IInv, Wires
<1>8. AnswersSurvive'
  <2>1. \A j \in Calls : Survives(calls'[j])
    BY <1>5 DEF IInv, AnswersSurvive, Survives
  <2> QED
    BY <2>1 DEF AnswersSurvive, Survives
<1>9. Frames' /\ MapFollowsHandler'
  <2>1. \A n : MapAt(n)' = MapAt(n)
    BY ViewStays DEF view
  <2>2. map = MapAt(current)
    BY DEF IInv, MapFollowsHandler, MapAt, Attached
  <2>3. map' = MapAt(current)'
    BY <2>1, <2>2 DEF view
  <2>4. Frames'
    BY <2>1 DEF IInv, Frames, view
  <2> QED
    BY <2>3, <2>4 DEF MapFollowsHandler, MapAt, Attached
<1> QED
  BY <1>7, <1>8, <1>9 DEF IInv

(* A call is made, delivered, answered, or its answer comes back.           *)
LEMMA CallIInv ==
    ASSUME IInv, NEW k \in Calls,
           \/ \E x \in Binds : Call(k, x)
           \/ \E code \in {"no code", "number code", "text code"} : Fail(k, code)
           \/ Deliver(k) \/ DeliverToOther(k) \/ Succeed(k) \/ Return(k)
    PROVE  IInv'
<1> DEFINE c == calls[k]
<1>1. host \in {"web", "ios", "android", "desktop"} /\ WireOf(c)
  BY DEF IInv, Wires
<1>0. DOMAIN c = Fields /\ DOMAIN calls = Calls
  BY <1>1 DEF WireOf, IInv, Wires
<1>2. CASE \E x \in Binds : Call(k, x)
  <2>1. PICK x \in Binds : Call(k, x)
    BY <1>2
  <2> DEFINE d == [Idle EXCEPT !.at = "sent", !.value = x, !.wire = Sent(x)]
             e == [Idle EXCEPT !.at = "settled", !.value = x, !.result = V("error", <<>>)]
  <2>2. calls' = [calls EXCEPT ![k] = d] \/ calls' = [calls EXCEPT ![k] = e]
    BY <2>1 DEF Call, Sent
  <2>0. DOMAIN Idle = Fields
    BY DEF Idle, Fields
  <2>3. /\ DOMAIN d = Fields
        /\ d.at = "sent" /\ d.value = x /\ d.wire = Sent(x)
        /\ d.by = "none" /\ d.failed = "no" /\ d.result = Null
        /\ DOMAIN e = Fields
        /\ e.at = "settled" /\ e.value = x /\ e.wire = Null
        /\ e.by = "none" /\ e.failed = "no" /\ e.result = V("error", <<>>)
    BY <2>0 DEF Idle, Fields
  <2>4. UNCHANGED <<host, view>>
    BY <2>1 DEF Call
  <2> HIDE DEF d, e
  <2>5. WireOf(d) /\ Survives(d)
    BY <2>3 DEF WireOf, Survives
  <2>6. WireOf(e) /\ Survives(e)
    BY <2>3 DEF WireOf, Survives
  <2> QED
    BY <2>2, <2>4, <2>5, <2>6, OneCall
<1>3. CASE \E code \in {"no code", "number code", "text code"} : Fail(k, code)
  <2>1. PICK code \in {"no code", "number code", "text code"} : Fail(k, code)
    BY <1>3
  <2> DEFINE d == [c EXCEPT !.at = "answered", !.by = "sqlite", !.failed = code,
                            !.wire = V("failure", ErrorCode(code))]
  <2>2. calls' = [calls EXCEPT ![k] = d] /\ c.at \in {"sent", "page"}
    BY <2>1 DEF Fail, Answered, AtSqlite, IInv, Wires
  <2>3. /\ DOMAIN d = Fields
        /\ d.at = "answered" /\ d.value = c.value /\ d.wire = V("failure", ErrorCode(code))
        /\ d.by = "sqlite" /\ d.failed = code /\ d.result = c.result
    BY <1>0 DEF Fields
  <2>4. UNCHANGED <<host, view>>
    BY <2>1 DEF Fail
  <2> HIDE DEF d
  <2>5. WireOf(d) /\ Survives(d)
    BY <1>1, <2>2, <2>3 DEF WireOf, Survives
  <2> QED
    BY <2>2, <2>4, <2>5, OneCall
<1>4. CASE Deliver(k)
  <2> DEFINE d == [c EXCEPT !.at = "page"]
  <2>2. calls' = [calls EXCEPT ![k] = d] /\ c.at = "sent"
    BY <1>4 DEF Deliver, IInv, Wires
  <2>3. /\ DOMAIN d = Fields
        /\ d.at = "page" /\ d.value = c.value /\ d.wire = c.wire
        /\ d.by = c.by /\ d.failed = c.failed /\ d.result = c.result
    BY <1>0 DEF Fields
  <2>4. UNCHANGED <<host, view>>
    BY <1>4 DEF Deliver
  <2> HIDE DEF d
  <2>5. WireOf(d) /\ Survives(d)
    BY <1>1, <2>2, <2>3 DEF WireOf, Survives
  <2> QED
    BY <2>2, <2>4, <2>5, OneCall
<1>5. CASE DeliverToOther(k)
  <2>1. PICK f, w : Answered(k, "other", f, w) /\ (f = "thrown" => w = Null)
    <3>1. ASSUME Answered(k, "other", "no", V("undefined", <<>>))
          PROVE  \E f, w : Answered(k, "other", f, w) /\ (f = "thrown" => w = Null)
      <4> WITNESS "no", V("undefined", <<>>)
      <4> QED
        BY <3>1
    <3>2. ASSUME Answered(k, "other", "no", V("object", <<>>))
          PROVE  \E f, w : Answered(k, "other", f, w) /\ (f = "thrown" => w = Null)
      <4> WITNESS "no", V("object", <<>>)
      <4> QED
        BY <3>2
    <3>3. Answered(k, "other", "thrown", Null) =>
            \E f, w : Answered(k, "other", f, w) /\ (f = "thrown" => w = Null)
      OBVIOUS
    <3> QED
      BY <1>5, <3>1, <3>2, <3>3 DEF DeliverToOther
  <2> DEFINE d == [c EXCEPT !.at = "answered", !.by = "other", !.failed = f, !.wire = w]
  <2>2. calls' = [calls EXCEPT ![k] = d] /\ c.at = "sent"
    BY <1>5, <2>1 DEF DeliverToOther, Answered, IInv, Wires
  <2>3. /\ DOMAIN d = Fields
        /\ d.at = "answered" /\ d.value = c.value /\ d.wire = w
        /\ d.by = "other" /\ d.failed = f /\ d.result = c.result
    BY <1>0 DEF Fields
  <2>4. UNCHANGED <<host, view>>
    BY <1>5 DEF DeliverToOther
  <2> HIDE DEF d
  <2>5. WireOf(d) /\ Survives(d)
    BY <1>1, <2>1, <2>2, <2>3 DEF WireOf, Survives
  <2> QED
    BY <2>2, <2>4, <2>5, OneCall
<1>6. CASE Succeed(k)
  <2> DEFINE d == [c EXCEPT !.at = "answered", !.by = "sqlite", !.failed = "no",
                            !.wire = RowOf(c.wire)]
  <2>2. calls' = [calls EXCEPT ![k] = d] /\ c.at \in {"sent", "page"}
    BY <1>6 DEF Succeed, Answered, AtSqlite, RowOf, IInv, Wires
  <2>3. /\ DOMAIN d = Fields
        /\ d.at = "answered" /\ d.value = c.value /\ d.wire = RowOf(c.wire)
        /\ d.by = "sqlite" /\ d.failed = "no" /\ d.result = c.result
    BY <1>0 DEF Fields
  <2>4. UNCHANGED <<host, view>>
    BY <1>6 DEF Succeed
  <2> HIDE DEF d
  <2>5. WireOf(d) /\ Survives(d)
    BY <1>1, <2>2, <2>3 DEF WireOf, Survives
  <2> QED
    BY <2>2, <2>4, <2>5, OneCall
<1>7. CASE Return(k)
  <2>1. c.at = "answered" /\ UNCHANGED <<host, view>>
    BY <1>7 DEF Return
  <2> DEFINE thrown == c.failed = "thrown" \/ c.wire.t = "undefined"
             r == IF thrown THEN V("error", <<>>)
                  ELSE IF c.wire.t = "failure" THEN V("error", c.wire.v)
                  ELSE Received(c.wire)
             d == [c EXCEPT !.at = "settled", !.result = r]
  <2>2. /\ ~thrown /\ c.wire.t = "failure" => r = V("error", c.wire.v)
        /\ ~thrown /\ c.wire.t # "failure" => r = Received(c.wire)
    OBVIOUS
  <2>3. calls' = [calls EXCEPT ![k] = d]
    <3>1. CASE c.failed = "thrown"
      <4>0. c.wire.t = "null"
        BY <1>1, <2>1, <3>1, OfType DEF WireOf, Null
      <4>1. r = V("error", <<>>)
        BY <3>1
      <4> HIDE DEF r
      <4> QED
        BY <1>7, <3>1, <4>0, <4>1 DEF Return, HopCaught, Reject
    <3>2. CASE c.failed # "thrown" /\ c.wire.t = "undefined"
      <4>1. r = V("error", <<>>)
        BY <3>2
      <4> HIDE DEF r
      <4> QED
        BY <1>7, <3>2, <4>1 DEF Return, HopCaught, Reject
    <3>3. CASE ~thrown /\ c.wire.t = "failure"
      BY <1>7, <3>3 DEF Return, Reject
    <3>4. CASE ~thrown /\ c.wire.t # "failure"
      BY <1>7, <3>4 DEF Return, Received
    <3> QED
      BY <3>1, <3>2, <3>3, <3>4
  <2> HIDE DEF r
  <2>4. /\ DOMAIN d = Fields /\ d.at = "settled" /\ d.value = c.value
        /\ d.by = c.by /\ d.failed = c.failed /\ d.result = r
    BY <1>0 DEF Fields
  <2> HIDE DEF d
  <2>5. WireOf(d)
    BY <1>1, <2>1, <2>4 DEF WireOf
  <2>6. ASSUME c.by = "sqlite" PROVE Survives(d)
    <3>1. CASE c.failed = "no"
      <4>1. c.wire = RowOf(Sent(c.value)) /\ c.value \in Binds
        BY <1>1, <2>1, <2>6, <3>1 DEF WireOf
      <4>2. c.wire.t \notin {"undefined", "failure"} /\ Received(c.wire) = Read(c.value)
        BY <1>1, <4>1, RoundTrip
      <4>3. r = Read(c.value)
        BY <2>2, <3>1, <4>2
      <4> QED
        BY <2>4, <3>1, <4>3 DEF Survives
    <3>2. CASE c.failed # "no"
      <4>1. /\ c.failed \in {"no code", "number code", "text code"}
            /\ c.wire = V("failure", ErrorCode(c.failed))
        BY <1>1, <2>1, <2>6, <3>2 DEF WireOf
      <4>2. c.wire.t = "failure" /\ c.wire.v = ErrorCode(c.failed)
        BY <4>1, OfType
      <4>3. r = V("error", ErrorCode(c.failed))
        BY <2>2, <4>1, <4>2
      <4>4. ErrorCode(c.failed) = IF c.failed = "number code" THEN <<1>> ELSE <<>>
        BY DEF ErrorCode
      <4> QED
        BY <2>4, <3>2, <4>3, <4>4 DEF Survives
    <3> QED
      BY <3>1, <3>2
  <2>7. ASSUME c.by # "sqlite" PROVE Survives(d)
    BY <2>4, <2>7 DEF Survives
  <2> QED
    BY <2>1, <2>3, <2>5, <2>6, <2>7, OneCall
<1> QED
  BY <1>2, <1>3, <1>4, <1>5, <1>6, <1>7

(* A stuttering step changes nothing.                                       *)
LEMMA StutterIInv == IInv /\ UNCHANGED vars => IInv'
<1> SUFFICES ASSUME IInv, UNCHANGED vars PROVE IInv'
  OBVIOUS
<1>1. Wires' /\ AnswersSurvive'
  BY CallsStay DEF IInv, vars
<1>2. Frames' /\ MapFollowsHandler'
  <2>1. \A n : MapAt(n)' = MapAt(n)
    BY ViewStays DEF vars, view
  <2>2. map = MapAt(current)
    BY DEF IInv, MapFollowsHandler, MapAt, Attached
  <2>3. map' = MapAt(current)'
    BY <2>1, <2>2 DEF vars, view
  <2>4. Frames'
    BY <2>1 DEF IInv, Frames, vars, view
  <2> QED
    BY <2>3, <2>4 DEF MapFollowsHandler, MapAt, Attached
<1> QED
  BY <1>1, <1>2 DEF IInv

-----------------------------------------------------------------------------
(* The inductive invariant holds in every state.                            *)
THEOREM Inductive == Spec => []IInv
<1>1. ASSUME IInv, [Next]_vars PROVE IInv'
  <2>1. CASE UNCHANGED vars
    BY <1>1, <2>1, StutterIInv
  <2>2. CASE Next
    BY <1>1, <2>2, ViewIInv, CallIInv DEF Next
  <2> QED
    BY <1>1, <2>1, <2>2
<1> QED
  BY InitIInv, <1>1, PTL DEF Spec

(* The map names our factory exactly while a call would reach our handler,  *)
(* however often and in whatever order the page attaches, detaches and puts *)
(* handlers of its own over ours (attach.ts, detach).                       *)
THEOREM MapRight == Spec => []MapFollowsHandler
<1>1. IInv => MapFollowsHandler
  BY DEF IInv
<1> QED
  BY <1>1, Inductive, PTL

(* On every host JavaScript reads what it bound, and the code of an error,  *)
(* for values of any content (native.ts, cloneable.ts, and the bindings).   *)
THEOREM Survive == Spec => []AnswersSurvive
<1>1. IInv => AnswersSurvive
  BY DEF IInv
<1> QED
  BY <1>1, Inductive, PTL
-----------------------------------------------------------------------------
(* The adapter.  What a close took of the two semaphores of init: both, or *)
(* what an earlier close left.                                             *)
Full(w, r) == w = "writer" /\ r = "readers"

(* The calls that hold or await a lock.  After the abort there come no more*)
AtLock(k) == call[k].at \in {"lock", "fn", "get"}
Drained   == \A k \in AppCalls : ~AtLock(k)

Over(k)    == call[k].at \in {"resolved", "rejected"}
Closing(k) == call[k].op = "close" /\ call[k].at \in {"writer", "readers", "closing"}
Open       == {c \in Conns : db[c] = "open"}

(* What init has done, and that no lock was given before.                  *)
Opening ==
  /\ readConnections # "writer"
  /\ init = "opening" => ~aborted /\ \A c \in Conns : c < opened => db[c] = "open"
  /\ init # "ready" => \A k \in AppCalls : call[k].at \in {"none", "init", "rejected"}
  /\ init = "ready" => /\ sems["writer"].items = {Writer}
                       /\ sems["readers"].items = Conns \ {Writer}
                       /\ \A c \in Conns : db[c] # "none"
  /\ init = "failed" => Open \subseteq stuck

(* A call is in the queue of the semaphore it waits for, and in no other.  *)
AwaitsAt(k, n) ==
  \/ call[k].at \in {"lock", "writer"} /\ call[k].w = n
  \/ call[k].at = "readers" /\ call[k].r = n

QueuesRight ==
  \A n \in Names : \A i \in DOMAIN sems[n].queue : AwaitsAt(sems[n].queue[i], n)

(* Which semaphores a call has, by the step it is at.                      *)
StageOf(k) ==
  LET c == call[k] IN
  /\ AtLock(k) => c.op # "close" /\ c.w \in {"writer", "readers"}
  /\ c.at \in {"writer", "closing"} => c.op = "close"
  /\ c.at \in {"readers", "refresh"} => c.r \in Names \ {"writer"}
  /\ c.at = "writer" => c.w = "writer"
  /\ c.at \in {"next", "refresh"} => c.op = "refresh"
  /\ Closing(k) => c.w \in {"none", "writer"} /\ c.r # "writer"
  /\ c.at # "closing" /\ ~Over(k) => c.left = {} /\ c.failed = {}
  /\ Writer \in c.left \cup c.failed => c.w = "writer"

(* The name of a call that is not over names no semaphore yet.             *)
Fresh ==
  \A n \in AppCalls : ~Over(n) =>
    readConnections # n /\ \A k \in AppCalls : call[k].r # n

(* Who has what: a callback its connection, and a close the writer while it*)
(* waits for the readers.                                                  *)
OwnerOf(k) ==
  LET c == call[k] IN
  /\ c.at \in {"fn", "get"} => Owned(sems[c.w], k) # {}
  /\ c.at = "lock" /\ aborted => Holds(k, c.w)
  /\ c.op = "close" /\ c.at = "readers" /\ c.w # "none" =>
       Owned(sems[c.w], k) = sems[c.w].items

(* A close that has everything has waited for every callback; a close that *)
(* has less comes after one that had.                                      *)
Quiet == aborted /\ Drained

DrainOf(k) ==
  Closing(k) =>
    /\ init = "ready" /\ aborted
    /\ Full(call[k].w, call[k].r) \/ Drained
    /\ call[k].at = "closing" => Drained

Drain ==
  /\ \A k \in AppCalls : DrainOf(k)
  /\ init = "ready" => Full(writeConnection, readConnections) \/ Quiet
  /\ init = "ready" => Open = Conns \/ Quiet

(* An open connection is in reach of the next close and of every close that*)
(* is under way.                                                           *)
ReachOf(k) ==
  Closing(k) =>
    Open \subseteq IF call[k].at = "closing" THEN call[k].left \cup call[k].failed ELSE ToClose(k)

Reach ==
  /\ \A k \in AppCalls : ReachOf(k)
  /\ init = "ready" => Open \subseteq Reachable
  /\ CloseMeansClosed

AdapterInv ==
  /\ TypeOK /\ Opening /\ QueuesRight /\ Fresh /\ Drain /\ Reach
  /\ \A k \in AppCalls : StageOf(k) /\ OwnerOf(k)

(* The semaphores and calls of TypeOK.                                     *)
Semaphores ==
  [items : SUBSET Conns, owner : [Conns -> AppCalls \cup {NoCall}], queue : Seq(AppCalls)]

CallRecords ==
  [op : Ops \cup {"none"}, at : Stages, ok : BOOLEAN,
   w : Names \cup {"none"}, r : Names \cup {"none"},
   left : SUBSET Conns, failed : SUBSET Conns]

(* The calls in q are calls that were in p.                                *)
From(q, p) == \A i \in DOMAIN q : \E j \in DOMAIN p : q[i] = p[j]

(* A set of positions has as many as its cardinality says: the enumeration *)
(* of Leave finds each of them.                                            *)
LEMMA JthKept ==
  ASSUME NEW n \in Nat, NEW kept \in SUBSET (1 .. n), NEW j \in 1 .. Cardinality(kept)
  PROVE  \E i \in kept : Cardinality(kept \cap 1 .. i) = j
<1> DEFINE f == [i \in kept |-> Cardinality(kept \cap 1 .. i)]
           T == 1 .. Cardinality(kept)
<1>1. IsFiniteSet(kept) /\ Cardinality(kept) \in Nat
  <2>1. IsFiniteSet(1 .. n)
    BY FS_Interval, n \in Int, 1 \in Int
  <2> QED
    BY <2>1, FS_Subset, FS_CardinalityType
<1>2. \A S \in SUBSET kept :
        IsFiniteSet(S) /\ Cardinality(S) \in Nat /\ Cardinality(S) <= Cardinality(kept)
  BY <1>1, FS_Subset, FS_CardinalityType
<1>3. \A i \in kept : Cardinality(kept \cap 1 .. i) \in T
  <2> SUFFICES ASSUME NEW i \in kept PROVE Cardinality(kept \cap 1 .. i) \in T
    OBVIOUS
  <2>1. i \in kept \cap 1 .. i
    OBVIOUS
  <2>2. Cardinality(kept \cap 1 .. i) # 0
    BY <2>1, <1>2, FS_EmptySet, kept \cap 1 .. i \in SUBSET kept
  <2> QED
    BY <2>2, <1>1, <1>2, kept \cap 1 .. i \in SUBSET kept
<1>4. \A a, b \in kept : a < b => Cardinality(kept \cap 1 .. a) # Cardinality(kept \cap 1 .. b)
  <2> SUFFICES ASSUME NEW a \in kept, NEW b \in kept, a < b
               PROVE  Cardinality(kept \cap 1 .. a) # Cardinality(kept \cap 1 .. b)
    OBVIOUS
  <2>1. kept \cap 1 .. a \in SUBSET (kept \cap 1 .. b)
    OBVIOUS
  <2>2. b \in kept \cap 1 .. b /\ b \notin kept \cap 1 .. a
    OBVIOUS
  <2>3. IsFiniteSet(kept \cap 1 .. b)
    BY <1>2, kept \cap 1 .. b \in SUBSET kept
  <2> QED
    BY <2>1, <2>2, <2>3, FS_Subset
<1>5. f \in Injection(kept, T)
  <2>1. f \in [kept -> T]
    BY <1>3
  <2>2. \A a, b \in kept : f[a] = f[b] => a = b
    BY <1>4
  <2> QED
    BY <2>1, <2>2 DEF Injection, IsInjective
<1>6. IsFiniteSet(T) /\ Cardinality(T) = Cardinality(kept)
  BY <1>1, FS_Interval, 1 \in Int, Cardinality(kept) \in Int
<1>7. f \in Surjection(kept, T)
  BY <1>5, <1>6, FS_Injection
<1> QED
  BY <1>7 DEF Surjection

(* What a call that leaves, or whose request fails, does to the semaphore. *)
LEMMA LeaveFacts ==
  ASSUME NEW sem \in Semaphores, NEW gone
  PROVE  /\ Leave(sem, gone) \in Semaphores
         /\ Leave(sem, gone).items = sem.items
         /\ Leave(sem, gone).owner = sem.owner
         /\ From(Leave(sem, gone).queue, sem.queue)
         /\ \A i \in DOMAIN Leave(sem, gone).queue : Leave(sem, gone).queue[i] \notin gone
<1> DEFINE q == sem.queue
           kept == {i \in DOMAIN q : q[i] \notin gone}
           place(j) == CHOOSE i \in kept : Cardinality(kept \cap 1 .. i) = j
           new == [j \in 1 .. Cardinality(kept) |-> q[place(j)]]
<1>1. Leave(sem, gone) = [sem EXCEPT !.queue = new]
  BY DEF Leave
<1>2. q \in Seq(AppCalls) /\ Len(q) \in Nat /\ DOMAIN q = 1 .. Len(q)
  BY DEF Semaphores
<1>3. kept \in SUBSET (1 .. Len(q))
  BY <1>2
<1>4. Cardinality(kept) \in Nat
  BY <1>2, <1>3, FS_Interval, FS_Subset, FS_CardinalityType, 1 \in Int, Len(q) \in Int
<1>5. \A j \in 1 .. Cardinality(kept) : place(j) \in kept
  <2> SUFFICES ASSUME NEW j \in 1 .. Cardinality(kept) PROVE place(j) \in kept
    OBVIOUS
  <2>1. \E i \in kept : Cardinality(kept \cap 1 .. i) = j
    BY <1>2, <1>3, JthKept
  <2> QED
    BY <2>1
<1> HIDE DEF place
<1>6. \A j \in 1 .. Cardinality(kept) :
        place(j) \in DOMAIN q /\ q[place(j)] \in AppCalls /\ q[place(j)] \notin gone
  BY <1>2, <1>5
<1>7. new \in Seq(AppCalls) /\ DOMAIN new = 1 .. Cardinality(kept)
  <2>1. new \in [1 .. Cardinality(kept) -> AppCalls]
    BY <1>6
  <2> QED
    BY <2>1, <1>4, SeqDef
<1>8. From(new, q) /\ \A i \in DOMAIN new : new[i] \notin gone
  BY <1>6, <1>7 DEF From
<1> HIDE DEF new
<1> QED
  BY <1>1, <1>7, <1>8 DEF Semaphores

(* A request takes what is free, or queues.                                *)
LEMMA RequestFacts ==
  ASSUME NEW sem \in Semaphores, NEW k \in AppCalls
  PROVE  /\ Request(sem, k) \in Semaphores
         /\ Request(sem, k).items = sem.items
         /\ \A c \in Conns : sem.owner[c] # NoCall => Request(sem, k).owner[c] = sem.owner[c]
         /\ Request(sem, k).queue \in {sem.queue, Append(sem.queue, k)}
<1> DEFINE free == Owned(sem, NoCall)
           mine == IF WantsAll(k) \/ free = {} THEN free ELSE {CHOOSE c \in free : TRUE}
           hold == [c \in Conns |-> IF c \in mine THEN k ELSE sem.owner[c]]
           took == [sem EXCEPT !.owner = hold]
<1>1. mine \subseteq free /\ \A c \in free : sem.owner[c] = NoCall
  BY DEF Owned
<1>2. Request(sem, k) \in {took, [took EXCEPT !.queue = Append(@, k)]}
  BY DEF Request
<1>3. hold \in [Conns -> AppCalls \cup {NoCall}]
  BY DEF Semaphores
<1>4. \A c \in Conns : sem.owner[c] # NoCall => hold[c] = sem.owner[c]
  BY <1>1
<1>5. Append(sem.queue, k) \in Seq(AppCalls)
  BY AppendProperties DEF Semaphores
<1> HIDE DEF hold
<1>6. took \in Semaphores /\ took.items = sem.items /\ took.queue = sem.queue /\ took.owner = hold
  BY <1>3 DEF Semaphores
<1> QED
  BY <1>2, <1>4, <1>5, <1>6 DEF Semaphores

(* A release touches what the call had, and no more; only calls that queued*)
(* get anything or stay in the queue.                                      *)
LEMMA ReleaseFacts ==
  ASSUME NEW sem \in Semaphores, NEW k \in AppCalls
  PROVE  /\ Release(sem, k) \in Semaphores
         /\ Release(sem, k).items = sem.items
         /\ \A c \in Conns : sem.owner[c] # k => Release(sem, k).owner[c] = sem.owner[c]
         /\ From(Release(sem, k).queue, sem.queue)
<1> DEFINE back     == Owned(sem, k)
           q        == sem.queue
           singles  == Cardinality({i \in DOMAIN q : \A j \in 1 .. i : ~WantsAll(q[j])})
           place(n) == IF n <= singles THEN n ELSE singles + 1
           to(c)    == place(Cardinality({d \in back : d <= c}))
           hold     == [c \in Conns |->
                          IF c \notin back THEN sem.owner[c]
                          ELSE IF to(c) \in DOMAIN q THEN q[to(c)] ELSE NoCall]
           given    == [sem EXCEPT !.owner = hold]
           last     == place(Cardinality(back))
           first    == IF last \in DOMAIN q /\ ~Satisfied(given, q[last]) THEN last ELSE last + 1
<1>1. Release(sem, k) = [given EXCEPT !.queue = SubSeq(q, first, Len(q))]
  BY DEF Release
<1>2. q \in Seq(AppCalls) /\ Len(q) \in Nat /\ DOMAIN q = 1 .. Len(q)
      /\ \A i \in DOMAIN q : q[i] \in AppCalls
  BY DEF Semaphores
<1>3. hold \in [Conns -> AppCalls \cup {NoCall}]
  <2> HIDE DEF to
  <2> QED
    BY <1>2 DEF Semaphores
<1>4. \A c \in Conns : sem.owner[c] # k => hold[c] = sem.owner[c]
  BY DEF Owned
<1>5. singles \in Nat
  BY <1>2, FS_Interval, FS_Subset, FS_CardinalityType, 1 \in Int, Len(q) \in Int,
     {i \in DOMAIN q : \A j \in 1 .. i : ~WantsAll(q[j])} \in SUBSET DOMAIN q
<1>6. Cardinality(back) \in Nat
  <2>1. back \in SUBSET Conns
    BY DEF Owned, Semaphores
  <2>2. IsFiniteSet(Conns)
    BY FS_Interval, AdapterAssumption, 0 \in Int, Readers \in Int DEF Conns
  <2> QED
    BY <2>1, <2>2, FS_Subset, FS_CardinalityType
<1> HIDE DEF singles, hold, back
<1>7. first \in Int /\ first >= 1
  <2>1. PICK m \in Nat : m = last
    BY <1>5, <1>6
  <2>2. m \in DOMAIN q => m >= 1
    BY <1>2
  <2> HIDE DEF last, given
  <2> QED
    BY <2>1, <2>2
<1> HIDE DEF first
<1> DEFINE rest == SubSeq(q, first, Len(q))
<1>8. rest \in Seq(AppCalls) /\ From(rest, q)
  <2>1. \A i \in first .. Len(q) : q[i] \in AppCalls
    BY <1>2, <1>7
  <2>2. /\ rest \in Seq(AppCalls)
        /\ Len(rest) = IF first <= Len(q) THEN Len(q) - first + 1 ELSE 0
        /\ \A i \in 1 .. Len(q) - first + 1 : rest[i] = q[first + i - 1]
    BY <1>2, <1>7, <2>1, SubSeqProperties, Len(q) \in Int
  <2>3. ASSUME NEW i \in DOMAIN rest
        PROVE  \E j \in DOMAIN q : rest[i] = q[j]
    <3>1. DOMAIN rest = 1 .. Len(rest)
      BY <2>2
    <3> HIDE DEF rest
    <3>2. i \in 1 .. Len(q) - first + 1
      BY <1>2, <1>7, <2>2, <2>3, <3>1
    <3>3. first + i - 1 \in 1 .. Len(q)
      BY <1>2, <1>7, <3>2
    <3> QED
      BY <1>2, <2>2, <3>2, <3>3
  <2> QED
    BY <2>2, <2>3 DEF From
<1> HIDE DEF rest
<1>9. Release(sem, k) = [given EXCEPT !.queue = rest]
  BY <1>1 DEF rest
<1>10. given \in Semaphores /\ given.items = sem.items /\ given.owner = hold
  BY <1>3 DEF Semaphores
<1> HIDE DEF given
<1> QED
  BY <1>4, <1>8, <1>9, <1>10 DEF Semaphores

LEMMA Typed ==
  TypeOK => /\ sems \in [Names -> Semaphores]
            /\ call \in [AppCalls -> CallRecords]
BY DEF TypeOK, Semaphores, CallRecords

(* A step of call k: what it does to the semaphores leaves alone what the  *)
(* others have, and nobody but k joins a queue.                            *)
Moves(k) ==
  /\ sems' \in [Names -> Semaphores]
  /\ \A n \in Names \ {k} : sems'[n].items = sems[n].items
  /\ \A n \in Names, c \in Conns :
       sems[n].owner[c] \notin {NoCall, k} => sems'[n].owner[c] = sems[n].owner[c]
  /\ \A n \in Names : \A i \in DOMAIN sems'[n].queue :
       \/ sems'[n].queue[i] = k
       \/ \E j \in DOMAIN sems[n].queue : sems'[n].queue[i] = sems[n].queue[j]

(* A call that does not move keeps what it has.                            *)
LEMMA OwnerKeeps ==
  ASSUME AdapterInv, NEW k \in AppCalls, Moves(k), NEW j \in AppCalls \ {k}, call'[j] = call[j],
         call[j].at = "lock" /\ aborted' => Holds(j, call[j].w)
  PROVE  OwnerOf(j)'
<1> DEFINE w == call[j].w
<1>1. StageOf(j) /\ OwnerOf(j) /\ call[j] \in CallRecords /\ j # NoCall
      /\ sems \in [Names -> Semaphores]
  BY Typed, AdapterAssumption DEF AdapterInv
<1>2. ASSUME NEW n \in {"writer", "readers"}
      PROVE  /\ sems'[n].items = sems[n].items /\ n \in Names
             /\ Owned(sems[n], j) \subseteq Owned(sems'[n], j)
  <2>1. n \in Names \ {k}
    BY AdapterAssumption DEF Names
  <2>2. sems[n].items \subseteq Conns
    BY <1>1, <2>1 DEF Semaphores
  <2> QED
    BY <1>1, <2>1, <2>2 DEF Moves, Owned
<1>3. (call'[j].at \in {"fn", "get"} => Owned(sems'[call'[j].w], j) # {})
  BY <1>1, <1>2 DEF OwnerOf, StageOf, AtLock
<1>4. ASSUME call[j].at = "lock", aborted'
      PROVE  Holds(j, w)'
  <2>1. Holds(j, w) /\ w \in {"writer", "readers"} /\ call[j].op # "close"
    BY <1>1, <1>4 DEF StageOf, AtLock
  <2>2. Owned(sems'[w], j) # {}
    BY <1>2, <2>1 DEF Holds, Satisfied
  <2>3. \A i \in DOMAIN sems'[w].queue : sems'[w].queue[i] # j
    BY <1>2, <2>1 DEF Moves, Holds
  <2> QED
    BY <1>4, <2>1, <2>2, <2>3 DEF Holds, Satisfied, WantsAll
<1>5. ASSUME call[j].op = "close", call[j].at = "readers", w # "none"
      PROVE  Owned(sems'[w], j) = sems'[w].items
  <2>1. w = "writer" /\ Owned(sems[w], j) = sems[w].items
    BY <1>1, <1>5 DEF StageOf, OwnerOf, Closing
  <2> QED
    BY <1>2, <2>1 DEF Owned
<1> QED
  BY <1>3, <1>4, <1>5 DEF OwnerOf

(* The queues stay right if only k moves and is right itself.              *)
LEMMA QueuesKeep ==
  ASSUME AdapterInv, NEW k \in AppCalls, Moves(k),
         \A j \in AppCalls \ {k} : call'[j] = call[j],
         \A n \in Names : \A i \in DOMAIN sems'[n].queue :
           sems'[n].queue[i] = k => AwaitsAt(k, n)'
  PROVE  QueuesRight'
<1> SUFFICES ASSUME NEW n \in Names, NEW i \in DOMAIN sems'[n].queue,
                    NEW j, j = sems'[n].queue[i]
             PROVE  \/ call'[j].at \in {"lock", "writer"} /\ call'[j].w = n
                    \/ call'[j].at = "readers" /\ call'[j].r = n
  BY DEF QueuesRight, AwaitsAt
<1>1. CASE j = k
  BY <1>1 DEF AwaitsAt
<1>2. CASE j # k
  <2>1. PICK m \in DOMAIN sems[n].queue : j = sems[n].queue[m]
    BY <1>2 DEF Moves
  <2>2. j \in AppCalls
    BY <2>1, Typed DEF AdapterInv, Semaphores
  <2>3. AwaitsAt(j, n)
    BY <2>1 DEF AdapterInv, QueuesRight
  <2> QED
    BY <1>2, <2>2, <2>3 DEF AwaitsAt
<1> QED
  BY <1>1, <1>2

LEMMA QueuesWait ==
  ASSUME QueuesRight'
  PROVE  \A n \in Names : \A i \in DOMAIN sems'[n].queue :
           call'[sems'[n].queue[i]].at \in Waiting
BY DEF QueuesRight, AwaitsAt, Waiting

(* A step of one call that leaves the pool alone and does not end a close. *)
LEMMA OneMoves ==
  ASSUME AdapterInv, NEW k \in AppCalls, Moves(k), sems'[k].items = sems[k].items,
         UNCHANGED pool,
         call' \in [AppCalls -> CallRecords],
         \A j \in AppCalls \ {k} : call'[j] = call[j],
         \A n \in Names : \A i \in DOMAIN sems'[n].queue :
           sems'[n].queue[i] = k => AwaitsAt(k, n)',
         ~Over(k), call'[k].r \in {call[k].r, readConnections},
         StageOf(k)', OwnerOf(k)',
         aborted /\ AtLock(k)' => AtLock(k),
         init # "ready" => call'[k].at \in {"none", "init", "rejected"},
         Closing(k)' => /\ Closing(k)
                        /\ call'[k].w = call[k].w /\ call'[k].r = call[k].r
                        /\ call'[k].at = "closing" =>
                             /\ Drained
                             /\ ToClose(k) \subseteq call'[k].left \cup call'[k].failed,
         call[k].at # "closing",
         call'[k].op = "close" => call'[k].at # "resolved"
  PROVE  AdapterInv'
<1>1. TypeOK /\ Opening /\ QueuesRight /\ Fresh /\ Drain /\ Reach
      /\ \A j \in AppCalls : StageOf(j) /\ OwnerOf(j)
  BY DEF AdapterInv
<1>2. /\ init' = init /\ opened' = opened /\ stuck' = stuck /\ db' = db
      /\ writeConnection' = writeConnection /\ readConnections' = readConnections
      /\ aborted' = aborted
  BY DEF pool
<1>3. QueuesRight'
  BY QueuesKeep
<1>4. \A n \in Names : sems'[n].items = sems[n].items
  BY DEF Moves
<1>5. TypeOK'
  <2>1. \A n \in Names : \A i \in DOMAIN sems'[n].queue :
          call'[sems'[n].queue[i]].at \in Waiting
    BY <1>3, QueuesWait
  <2>2. sems' \in [Names -> Semaphores]
    BY DEF Moves
  <2> QED
    BY <1>1, <1>2, <1>4, <2>1, <2>2 DEF TypeOK, Semaphores, CallRecords
<1>6. Opening'
  <2>1. \A j \in AppCalls : init # "ready" => call'[j].at \in {"none", "init", "rejected"}
    BY <1>1 DEF Opening
  <2>2. sems'["writer"].items = sems["writer"].items /\ sems'["readers"].items = sems["readers"].items
    BY <1>4 DEF Names
  <2> QED
    BY <1>1, <1>2, <2>1, <2>2 DEF Opening, Open
<1>7. Fresh'
  <2> SUFFICES ASSUME NEW n \in AppCalls, ~Over(n)'
               PROVE  readConnections' # n /\ \A j \in AppCalls : call'[j].r # n
    BY DEF Fresh
  <2>1. ~Over(n)
    BY DEF Over
  <2> QED
    BY <1>1, <1>2, <2>1 DEF Fresh
<1>8. Drained /\ aborted => Drained'
  <2> SUFFICES ASSUME Drained, aborted, NEW j \in AppCalls PROVE ~AtLock(j)'
    BY DEF Drained
  <2> QED
    BY DEF Drained, AtLock
<1>9. ASSUME NEW j \in AppCalls PROVE (StageOf(j) /\ OwnerOf(j))'
  <2>1. CASE j = k
    BY <2>1
  <2>2. CASE j # k
    <3>1. OwnerOf(j)'
      <4>1. call[j].at = "lock" /\ aborted' => Holds(j, call[j].w)
        BY <1>1, <1>2 DEF OwnerOf
      <4> QED
        BY <2>2, <4>1, OwnerKeeps
    <3>2. StageOf(j)'
      BY <1>1, <2>2 DEF StageOf, AtLock, Closing, Over
    <3> QED
      BY <3>1, <3>2
  <2> QED
    BY <2>1, <2>2
<1>10. ASSUME NEW j \in AppCalls PROVE DrainOf(j)' /\ ReachOf(j)'
  <2> SUFFICES ASSUME Closing(j)'
               PROVE  /\ init = "ready" /\ aborted
                      /\ Full(call'[j].w, call'[j].r) \/ Drained'
                      /\ call'[j].at = "closing" => Drained'
                      /\ Open \subseteq IF call'[j].at = "closing"
                           THEN call'[j].left \cup call'[j].failed ELSE ToClose(j)'
    BY <1>2 DEF DrainOf, ReachOf, Full, Open
  <2>1. Closing(j) /\ call'[j].w = call[j].w /\ call'[j].r = call[j].r
    BY DEF Closing
  <2>2. DrainOf(j) /\ ReachOf(j)
    BY <1>1 DEF Drain, Reach
  <2>3. ToClose(j)' = ToClose(j)
    <3>1. call[j] \in CallRecords
      BY <1>1, Typed
    <3>2. {call[j].w, call[j].r} \ {"none"} \subseteq Names
      BY <3>1 DEF CallRecords
    <3> QED
      BY <1>4, <2>1, <3>2 DEF ToClose
  <2>4. CASE j = k
    BY <1>8, <2>1, <2>2, <2>3, <2>4 DEF DrainOf, ReachOf
  <2>5. CASE j # k
    BY <1>8, <2>1, <2>2, <2>3, <2>5 DEF DrainOf, ReachOf
  <2> QED
    BY <2>4, <2>5
<1>11. Drain'
  BY <1>1, <1>2, <1>8, <1>10 DEF Drain, Quiet, Full, Open
<1>12. Reach'
  <2>1. Reachable' = Reachable
    <3>1. {writeConnection, readConnections} \ {"none"} \subseteq Names
      BY <1>1 DEF TypeOK, Names
    <3> QED
      BY <1>2, <1>4, <3>1 DEF Reachable
  <2>2. CloseMeansClosed'
    <3> SUFFICES ASSUME NEW j \in AppCalls, call'[j].op = "close", call'[j].at = "resolved",
                        NEW c \in Conns
                 PROVE  db'[c] = "closed"
      BY DEF CloseMeansClosed
    <3>1. j # k
      OBVIOUS
    <3> QED
      BY <1>1, <1>2, <3>1 DEF Reach, CloseMeansClosed
  <2> QED
    BY <1>1, <1>2, <1>10, <2>1, <2>2 DEF Reach, Open
<1> QED
  BY <1>3, <1>5, <1>6, <1>7, <1>9, <1>11, <1>12 DEF AdapterInv

(* The steps that leave every semaphore, or all but one.                   *)
LEMMA StayMoves ==
  ASSUME TypeOK, NEW k \in AppCalls, UNCHANGED sems
  PROVE  Moves(k)
BY Typed DEF Moves

LEMMA RequestMoves ==
  ASSUME TypeOK, NEW k \in AppCalls, NEW n \in Names, sems' = [sems EXCEPT ![n] = Request(@, k)]
  PROVE  /\ Moves(k)
         /\ \A m \in Names : sems'[m].items = sems[m].items
         /\ \A m \in Names \ {n} : sems'[m] = sems[m]
<1>1. sems \in [Names -> Semaphores] /\ sems[n] \in Semaphores
  BY Typed
<1>2. sems'[n] = Request(sems[n], k) /\ \A m \in Names \ {n} : sems'[m] = sems[m]
  BY <1>1
<1>3. /\ sems'[n] \in Semaphores /\ sems'[n].items = sems[n].items
      /\ \A c \in Conns : sems[n].owner[c] # NoCall => sems'[n].owner[c] = sems[n].owner[c]
      /\ sems'[n].queue \in {sems[n].queue, Append(sems[n].queue, k)}
  BY <1>1, <1>2, RequestFacts
<1>4. sems' \in [Names -> Semaphores]
  BY <1>1, <1>3
<1>5. \A i \in DOMAIN sems'[n].queue :
        \/ sems'[n].queue[i] = k
        \/ \E j \in DOMAIN sems[n].queue : sems'[n].queue[i] = sems[n].queue[j]
  <2>1. PICK q \in Seq(AppCalls) : q = sems[n].queue
    BY <1>1 DEF Semaphores
  <2>2. \A i \in DOMAIN Append(q, k) :
          Append(q, k)[i] = k \/ (i \in DOMAIN q /\ Append(q, k)[i] = q[i])
    <3> SUFFICES ASSUME NEW i \in DOMAIN Append(q, k), i # Len(q) + 1
                 PROVE  i \in DOMAIN q /\ Append(q, k)[i] = q[i]
      BY AppendProperties
    <3>1. Len(Append(q, k)) = Len(q) + 1 /\ DOMAIN Append(q, k) = 1 .. Len(q) + 1
      BY AppendProperties
    <3>2. i \in 1 .. Len(q)
      BY <3>1, Len(q) \in Nat
    <3> QED
      BY <3>2, AppendProperties
  <2> QED
    BY <1>3, <2>1, <2>2
<1> QED
  BY <1>2, <1>3, <1>4, <1>5 DEF Moves

(* The same for what only takes out of the queue.                          *)
LEMMA LessMoves ==
  ASSUME TypeOK, NEW k \in AppCalls, NEW n \in Names, sems' \in [Names -> Semaphores],
         \A m \in Names \ {n} : sems'[m] = sems[m],
         sems'[n].items = sems[n].items, From(sems'[n].queue, sems[n].queue),
         \A c \in Conns : sems[n].owner[c] # k => sems'[n].owner[c] = sems[n].owner[c]
  PROVE  /\ Moves(k)
         /\ \A m \in Names : sems'[m].items = sems[m].items
         /\ \A m \in Names : From(sems'[m].queue, sems[m].queue)
BY Typed DEF Moves, From

LEMMA ReleaseMoves ==
  ASSUME TypeOK, NEW k \in AppCalls, NEW n \in Names, sems' = [sems EXCEPT ![n] = Release(@, k)]
  PROVE  /\ Moves(k)
         /\ \A m \in Names : sems'[m].items = sems[m].items
         /\ \A m \in Names : From(sems'[m].queue, sems[m].queue)
<1>1. sems[n] \in Semaphores
  BY Typed
<1>2. sems \in [Names -> Semaphores] /\ Release(sems[n], k) \in Semaphores
  BY <1>1, ReleaseFacts, Typed
<1>3. /\ sems' \in [Names -> Semaphores]
      /\ \A m \in Names \ {n} : sems'[m] = sems[m]
      /\ sems'[n] = Release(sems[n], k)
  BY <1>2
<1>4. /\ sems'[n].items = sems[n].items
      /\ From(sems'[n].queue, sems[n].queue)
      /\ \A c \in Conns : sems[n].owner[c] # k => sems'[n].owner[c] = sems[n].owner[c]
  BY <1>1, <1>3, ReleaseFacts
<1> QED
  BY <1>3, <1>4, LessMoves

(* A call that does not wait is in no queue.                               *)
LEMMA NotQueued ==
  ASSUME QueuesRight, NEW k \in AppCalls, call[k].at \notin Waiting, NEW n \in Names
  PROVE  \A i \in DOMAIN sems[n].queue : sems[n].queue[i] # k
BY DEF QueuesRight, AwaitsAt, Waiting

(* A call that holds what it waited for is in none either.                 *)
LEMMA HolderNotQueued ==
  ASSUME QueuesRight, NEW k \in AppCalls, NEW n \in Names, Holds(k, n),
         \/ call[k].at \in {"lock", "writer"} /\ call[k].w = n
         \/ call[k].at = "readers" /\ call[k].r = n,
         NEW m \in Names
  PROVE  \A i \in DOMAIN sems[m].queue : sems[m].queue[i] # k
BY DEF QueuesRight, AwaitsAt, Holds

LEMMA InvokeAdapterInv ==
  ASSUME AdapterInv, NEW k \in AppCalls, NEW op \in Ops, Invoke(k, op)
  PROVE  AdapterInv'
<1>1. TypeOK /\ Opening /\ QueuesRight /\ StageOf(k) /\ call \in [AppCalls -> CallRecords]
      /\ call[k] \in CallRecords
  BY Typed DEF AdapterInv
<1>2. /\ UNCHANGED pool /\ UNCHANGED sems /\ call[k] = Uncalled
      /\ call' = [call EXCEPT ![k].op = op, ![k].at = "init"]
  BY DEF Invoke
<1>3. Moves(k)
  BY <1>1, <1>2, StayMoves
<1>4. /\ call' \in [AppCalls -> CallRecords] /\ \A j \in AppCalls \ {k} : call'[j] = call[j]
      /\ call'[k].op = op /\ call'[k].at = "init"
      /\ call'[k].w = call[k].w /\ call'[k].r = call[k].r
      /\ call'[k].left = call[k].left /\ call'[k].failed = call[k].failed
  BY <1>1, <1>2 DEF CallRecords, Stages
<1>5. ~Over(k) /\ call[k].at = "none" /\ call[k].left = {} /\ call[k].failed = {}
  BY <1>2 DEF Over, Uncalled
<1>6. StageOf(k)' /\ OwnerOf(k)' /\ ~Closing(k)' /\ ~AtLock(k)'
  BY <1>4, <1>5 DEF StageOf, OwnerOf, Closing, AtLock, Over
<1>7. \A n \in Names : \A i \in DOMAIN sems'[n].queue : sems'[n].queue[i] # k
  BY <1>1, <1>2, <1>5, NotQueued DEF Waiting
<1> QED
  BY <1>2, <1>3, <1>4, <1>5, <1>6, <1>7, OneMoves

LEMMA LockAdapterInv ==
  ASSUME AdapterInv, NEW k \in AppCalls, Lock(k)
  PROVE  AdapterInv'
<1>1. TypeOK /\ Opening /\ QueuesRight /\ Drain /\ StageOf(k)
      /\ call \in [AppCalls -> CallRecords] /\ call[k] \in CallRecords
  BY Typed DEF AdapterInv
<1>2. /\ UNCHANGED pool /\ call[k].at = "init" /\ call[k].op # "close" /\ init # "opening"
      /\ ~Over(k) /\ call[k].left = {} /\ call[k].failed = {}
  BY <1>1 DEF Lock, StageOf, Over
<1>3. PICK n : n = IF call[k].op = "read" THEN readConnections ELSE writeConnection
  OBVIOUS
<1>4. \A m \in Names : \A i \in DOMAIN sems[m].queue : sems[m].queue[i] # k
  BY <1>1, <1>2, NotQueued DEF Waiting
<1>5. CASE init = "failed" \/ n = "none" \/ aborted
  <2>1. UNCHANGED sems /\ call' = [call EXCEPT ![k].at = "rejected"]
    BY <1>3, <1>5 DEF Lock, Answer, Settled
  <2>2. Moves(k)
    BY <1>1, <2>1, StayMoves
  <2>3. /\ call' \in [AppCalls -> CallRecords] /\ \A j \in AppCalls \ {k} : call'[j] = call[j]
        /\ call'[k].op = call[k].op /\ call'[k].at = "rejected" /\ call'[k].r = call[k].r
        /\ call'[k].left = {} /\ call'[k].failed = {}
    BY <1>1, <1>2, <2>1 DEF CallRecords, Stages
  <2>4. StageOf(k)' /\ OwnerOf(k)' /\ ~Closing(k)' /\ ~AtLock(k)'
    BY <2>3 DEF StageOf, OwnerOf, Closing, AtLock, Over
  <2> QED
    BY <1>2, <1>4, <2>1, <2>2, <2>3, <2>4, OneMoves
<1>6. CASE ~(init = "failed" \/ n = "none" \/ aborted)
  <2>1. init = "ready" /\ ~aborted /\ n \in {"writer", "readers"} /\ n \in Names
    BY <1>1, <1>2, <1>3, <1>6 DEF TypeOK, Drain, Quiet, Full, Names
  <2>2. /\ sems' = [sems EXCEPT ![n] = Request(@, k)]
        /\ call' = [call EXCEPT ![k].at = "lock", ![k].w = n]
    BY <1>3, <1>6 DEF Lock
  <2>3. Moves(k) /\ (\A m \in Names : sems'[m].items = sems[m].items)
        /\ \A m \in Names \ {n} : sems'[m] = sems[m]
    BY <1>1, <2>1, <2>2, RequestMoves
  <2>4. /\ call' \in [AppCalls -> CallRecords] /\ \A j \in AppCalls \ {k} : call'[j] = call[j]
        /\ call'[k].op = call[k].op /\ call'[k].at = "lock" /\ call'[k].r = call[k].r
        /\ call'[k].w = n /\ call'[k].left = {} /\ call'[k].failed = {}
    <3>1. "lock" \in Stages /\ n \in Names \cup {"none"}
      BY <2>1 DEF Stages, Waiting
    <3> QED
      BY <1>1, <1>2, <2>2, <3>1 DEF CallRecords
  <2>5. StageOf(k)' /\ ~Closing(k)'
    BY <1>2, <2>1, <2>4 DEF StageOf, Closing, AtLock, Over
  <2>6. OwnerOf(k)'
    BY <2>1, <2>4, <1>2 DEF OwnerOf, pool
  <2>7. \A m \in Names : \A i \in DOMAIN sems'[m].queue :
          sems'[m].queue[i] = k => AwaitsAt(k, m)'
    BY <1>4, <2>3, <2>4 DEF AwaitsAt
  <2> QED
    BY <1>2, <2>1, <2>3, <2>4, <2>5, <2>6, <2>7, OneMoves, k \in Names DEF Names
<1> QED
  BY <1>5, <1>6

LEMMA TimeoutAdapterInv ==
  ASSUME AdapterInv, NEW k \in AppCalls, Timeout(k)
  PROVE  AdapterInv'
<1>1. TypeOK /\ QueuesRight /\ StageOf(k)
      /\ call \in [AppCalls -> CallRecords] /\ call[k] \in CallRecords
  BY Typed DEF AdapterInv
<1>2. PICK w \in Names : w = call[k].w
  BY <1>1 DEF Timeout, StageOf, AtLock, Names
<1>3. /\ UNCHANGED pool /\ call[k].at = "lock" /\ call[k].op # "close"
      /\ sems' = [sems EXCEPT ![w] = Leave(@, {k})]
      /\ call' = [call EXCEPT ![k].at = "rejected"]
      /\ ~Over(k) /\ call[k].left = {} /\ call[k].failed = {}
  BY <1>1, <1>2 DEF Timeout, StageOf, AtLock, Over, Answer, Settled
<1>4. sems \in [Names -> Semaphores] /\ Leave(sems[w], {k}) \in Semaphores
  BY <1>1, Typed, LeaveFacts
<1>5. /\ sems' \in [Names -> Semaphores]
      /\ \A m \in Names \ {w} : sems'[m] = sems[m]
      /\ sems'[w] = Leave(sems[w], {k})
  BY <1>3, <1>4
<1>6. /\ sems'[w].items = sems[w].items /\ sems'[w].owner = sems[w].owner
      /\ From(sems'[w].queue, sems[w].queue)
      /\ \A i \in DOMAIN sems'[w].queue : sems'[w].queue[i] # k
  BY <1>4, <1>5, LeaveFacts
<1>7. Moves(k) /\ \A m \in Names : sems'[m].items = sems[m].items
  BY <1>1, <1>5, <1>6, LessMoves
<1>8. /\ call' \in [AppCalls -> CallRecords] /\ \A j \in AppCalls \ {k} : call'[j] = call[j]
      /\ call'[k].op = call[k].op /\ call'[k].at = "rejected" /\ call'[k].r = call[k].r
      /\ call'[k].left = {} /\ call'[k].failed = {}
  BY <1>1, <1>3 DEF CallRecords, Stages
<1>9. StageOf(k)' /\ OwnerOf(k)' /\ ~Closing(k)' /\ ~AtLock(k)'
  BY <1>8 DEF StageOf, OwnerOf, Closing, AtLock, Over
<1>10. \A m \in Names : \A i \in DOMAIN sems'[m].queue : sems'[m].queue[i] # k
  <2> SUFFICES ASSUME NEW m \in Names \ {w}, NEW i \in DOMAIN sems[m].queue
               PROVE  sems[m].queue[i] # k
    BY <1>5, <1>6
  <2> QED
    BY <1>1, <1>2, <1>3 DEF QueuesRight, AwaitsAt
<1> QED
  <2>1. k \in Names
    BY DEF Names
  <2>2. sems'[k].items = sems[k].items
    BY <1>7, <2>1
  <2>3. UNCHANGED pool /\ call[k].at = "lock" /\ ~Over(k)
    BY <1>3
  <2> QED
    BY <1>7, <1>8, <1>9, <1>10, <2>2, <2>3, OneMoves

LEMMA EnterAdapterInv ==
  ASSUME AdapterInv, NEW k \in AppCalls, Enter(k)
  PROVE  AdapterInv'
<1>1. TypeOK /\ Opening /\ QueuesRight /\ StageOf(k)
      /\ call \in [AppCalls -> CallRecords] /\ call[k] \in CallRecords
  BY Typed DEF AdapterInv
<1>2. PICK w \in Names : w = call[k].w
  BY <1>1 DEF Enter, StageOf, AtLock, Names
<1>3. /\ UNCHANGED pool /\ UNCHANGED sems /\ call[k].at = "lock" /\ call[k].op # "close"
      /\ Holds(k, w) /\ call' = [call EXCEPT ![k].at = "fn"]
      /\ ~Over(k) /\ call[k].left = {} /\ call[k].failed = {} /\ w \in {"writer", "readers"}
  BY <1>1, <1>2 DEF Enter, StageOf, AtLock, Over, GoTo
<1>4. Moves(k)
  BY <1>1, <1>3, StayMoves
<1>5. /\ call' \in [AppCalls -> CallRecords] /\ \A j \in AppCalls \ {k} : call'[j] = call[j]
      /\ call'[k].op = call[k].op /\ call'[k].at = "fn" /\ call'[k].r = call[k].r
      /\ call'[k].w = w /\ call'[k].left = {} /\ call'[k].failed = {}
  BY <1>1, <1>2, <1>3 DEF CallRecords, Stages
<1>6. StageOf(k)' /\ ~Closing(k)'
  BY <1>3, <1>5 DEF StageOf, Closing, AtLock, Over
<1>7. OwnerOf(k)'
  BY <1>3, <1>5 DEF OwnerOf, Holds, Satisfied, Owned
<1>8. \A m \in Names : \A i \in DOMAIN sems'[m].queue : sems'[m].queue[i] # k
  BY <1>1, <1>2, <1>3, HolderNotQueued
<1>9. AtLock(k) /\ init = "ready"
  BY <1>1, <1>3 DEF AtLock, Opening
<1> QED
  BY <1>3, <1>4, <1>5, <1>6, <1>7, <1>8, <1>9, OneMoves

(* A callback that ends and gives its connection, or connections, back.    *)
LEMMA BackAdapterInv ==
  ASSUME AdapterInv, NEW k \in AppCalls, NEW n \in Names, NEW at \in {"resolved", "rejected", "next"},
         call[k].at \in {"fn", "get", "refresh"}, at = "next" => call[k].op = "refresh",
         sems' = [sems EXCEPT ![n] = Release(@, k)],
         call' = [call EXCEPT ![k].at = at],
         UNCHANGED pool
  PROVE  AdapterInv'
<1>1. TypeOK /\ Opening /\ QueuesRight /\ StageOf(k)
      /\ call \in [AppCalls -> CallRecords] /\ call[k] \in CallRecords
  BY Typed DEF AdapterInv
<1>2. /\ call[k].op # "close" /\ ~Over(k) /\ call[k].left = {} /\ call[k].failed = {}
      /\ call[k].at \notin Waiting
  BY <1>1 DEF StageOf, AtLock, Over, Waiting
<1>3. /\ Moves(k)
      /\ \A m \in Names : sems'[m].items = sems[m].items
      /\ \A m \in Names : From(sems'[m].queue, sems[m].queue)
  BY <1>1, ReleaseMoves
<1>4. /\ call' \in [AppCalls -> CallRecords] /\ \A j \in AppCalls \ {k} : call'[j] = call[j]
      /\ call'[k].op = call[k].op /\ call'[k].at = at /\ call'[k].r = call[k].r
      /\ call'[k].left = {} /\ call'[k].failed = {}
  <2>1. at \in Stages
    BY DEF Stages
  <2> QED
    BY <1>1, <1>2, <2>1 DEF CallRecords
<1>5. StageOf(k)' /\ OwnerOf(k)' /\ ~Closing(k)' /\ ~AtLock(k)'
  BY <1>2, <1>4 DEF StageOf, OwnerOf, Closing, AtLock, Over
<1>6. \A m \in Names : \A i \in DOMAIN sems'[m].queue : sems'[m].queue[i] # k
  BY <1>1, <1>2, <1>3, NotQueued DEF From
<1>7. init = "ready"
  BY <1>1 DEF Opening
<1>8. sems'[k].items = sems[k].items
  BY <1>3 DEF Names
<1> QED
  BY <1>2, <1>3, <1>4, <1>5, <1>6, <1>7, <1>8, OneMoves

LEMMA EndsAdapterInv ==
  ASSUME AdapterInv, NEW k \in AppCalls, ReadEnds(k) \/ GetEnds(k) \/ RefreshEnds(k)
  PROVE  AdapterInv'
<1>1. StageOf(k)
  BY DEF AdapterInv
<1>2. PICK n \in Names :
        /\ sems' = [sems EXCEPT ![n] = Release(@, k)]
        /\ UNCHANGED pool
        /\ call[k].at \in {"fn", "get", "refresh"}
  <2>1. CASE ReadEnds(k) \/ GetEnds(k)
    <3>1. call[k].w \in Names
      BY <1>1, <2>1 DEF ReadEnds, GetEnds, StageOf, AtLock, Names
    <3> QED
      BY <2>1, <3>1 DEF ReadEnds, GetEnds
  <2>2. CASE RefreshEnds(k)
    <3>1. call[k].r \in Names
      BY <1>1, <2>2 DEF RefreshEnds, StageOf
    <3> QED
      BY <2>2, <3>1 DEF RefreshEnds
  <2> QED
    BY <2>1, <2>2
<1>3. PICK at \in {"resolved", "rejected", "next"} :
        /\ call' = [call EXCEPT ![k].at = at]
        /\ at = "next" => call[k].op = "refresh"
  BY DEF ReadEnds, GetEnds, RefreshEnds, Answer, Settled, GoTo
<1> QED
  BY <1>2, <1>3, BackAdapterInv

LEMMA WriteEndsAdapterInv ==
  ASSUME AdapterInv, NEW k \in AppCalls, WriteEnds(k)
  PROVE  AdapterInv'
<1>1. TypeOK /\ Opening /\ QueuesRight /\ StageOf(k) /\ OwnerOf(k)
      /\ call \in [AppCalls -> CallRecords] /\ call[k] \in CallRecords
  BY Typed DEF AdapterInv
<1>2. /\ UNCHANGED pool /\ UNCHANGED sems /\ call[k].at = "fn" /\ call[k].op # "close"
      /\ ~Over(k) /\ call[k].left = {} /\ call[k].failed = {}
      /\ call[k].w \in {"writer", "readers"} /\ Owned(sems[call[k].w], k) # {}
  BY <1>1 DEF WriteEnds, StageOf, OwnerOf, AtLock, Over
<1>3. PICK ok \in BOOLEAN : call' = [call EXCEPT ![k].at = "get", ![k].ok = ok]
  BY DEF WriteEnds
<1>4. Moves(k)
  BY <1>1, <1>2, StayMoves
<1>5. /\ call' \in [AppCalls -> CallRecords] /\ \A j \in AppCalls \ {k} : call'[j] = call[j]
      /\ call'[k].op = call[k].op /\ call'[k].at = "get" /\ call'[k].r = call[k].r
      /\ call'[k].w = call[k].w /\ call'[k].left = {} /\ call'[k].failed = {}
  BY <1>1, <1>2, <1>3 DEF CallRecords, Stages
<1>6. StageOf(k)' /\ ~Closing(k)'
  BY <1>2, <1>5 DEF StageOf, Closing, AtLock, Over
<1>7. OwnerOf(k)'
  BY <1>2, <1>5 DEF OwnerOf, Owned
<1>8. \A m \in Names : \A i \in DOMAIN sems'[m].queue : sems'[m].queue[i] # k
  BY <1>1, <1>2, NotQueued DEF Waiting
<1>9. AtLock(k) /\ init = "ready"
  BY <1>1, <1>2 DEF AtLock, Opening
<1> QED
  BY <1>2, <1>4, <1>5, <1>6, <1>7, <1>8, <1>9, OneMoves

LEMMA RefreshReadersAdapterInv ==
  ASSUME AdapterInv, NEW k \in AppCalls, RefreshReaders(k)
  PROVE  AdapterInv'
<1>1. TypeOK /\ Opening /\ QueuesRight /\ StageOf(k)
      /\ call \in [AppCalls -> CallRecords] /\ call[k] \in CallRecords
  BY Typed DEF AdapterInv
<1>2. /\ UNCHANGED pool /\ call[k].at = "next" /\ call[k].op = "refresh"
      /\ ~Over(k) /\ call[k].left = {} /\ call[k].failed = {}
  BY <1>1 DEF RefreshReaders, StageOf, Over
<1>3. PICK n : n = readConnections
  OBVIOUS
<1>4. \A m \in Names : \A i \in DOMAIN sems[m].queue : sems[m].queue[i] # k
  BY <1>1, <1>2, NotQueued DEF Waiting
<1>5. init = "ready"
  BY <1>1, <1>2 DEF Opening
<1>6. CASE n = "none"
  <2>1. UNCHANGED sems /\ call' = [call EXCEPT ![k].at = "rejected"]
    BY <1>3, <1>6 DEF RefreshReaders, Answer, Settled
  <2>2. Moves(k)
    BY <1>1, <2>1, StayMoves
  <2>3. /\ call' \in [AppCalls -> CallRecords] /\ \A j \in AppCalls \ {k} : call'[j] = call[j]
        /\ call'[k].op = call[k].op /\ call'[k].at = "rejected" /\ call'[k].r = call[k].r
        /\ call'[k].left = {} /\ call'[k].failed = {}
    BY <1>1, <1>2, <2>1 DEF CallRecords, Stages
  <2>4. StageOf(k)' /\ OwnerOf(k)' /\ ~Closing(k)' /\ ~AtLock(k)'
    BY <2>3 DEF StageOf, OwnerOf, Closing, AtLock, Over
  <2> QED
    BY <1>2, <1>4, <1>5, <2>1, <2>2, <2>3, <2>4, OneMoves
<1>7. CASE n # "none"
  <2>1. n \in Names \ {"writer"}
    BY <1>1, <1>3, <1>7 DEF TypeOK, Opening
  <2>2. /\ sems' = [sems EXCEPT ![n] = Request(@, k)]
        /\ call' = [call EXCEPT ![k].at = "readers", ![k].r = n]
    BY <1>3, <1>7 DEF RefreshReaders
  <2>3. Moves(k) /\ (\A m \in Names : sems'[m].items = sems[m].items)
        /\ \A m \in Names \ {n} : sems'[m] = sems[m]
    BY <1>1, <2>1, <2>2, RequestMoves
  <2>4. /\ call' \in [AppCalls -> CallRecords] /\ \A j \in AppCalls \ {k} : call'[j] = call[j]
        /\ call'[k].op = "refresh" /\ call'[k].at = "readers" /\ call'[k].r = n
        /\ call'[k].left = {} /\ call'[k].failed = {}
    <3>1. "readers" \in Stages /\ n \in Names \cup {"none"}
      BY <2>1 DEF Stages, Waiting
    <3> QED
      BY <1>1, <1>2, <2>2, <3>1 DEF CallRecords
  <2>5. StageOf(k)' /\ OwnerOf(k)' /\ ~Closing(k)' /\ ~AtLock(k)'
    BY <2>1, <2>4 DEF StageOf, OwnerOf, Closing, AtLock, Over
  <2>6. \A m \in Names : \A i \in DOMAIN sems'[m].queue :
          sems'[m].queue[i] = k => AwaitsAt(k, m)'
    BY <1>4, <2>3, <2>4 DEF AwaitsAt
  <2>7. sems'[k].items = sems[k].items
    BY <2>3 DEF Names
  <2>8. UNCHANGED pool /\ call[k].at = "next" /\ ~Over(k) /\ call'[k].r = readConnections
    BY <1>2, <1>3, <2>4
  <2> QED
    BY <1>5, <2>3, <2>4, <2>5, <2>6, <2>7, <2>8, OneMoves
<1> QED
  BY <1>6, <1>7

LEMMA RefreshEnterAdapterInv ==
  ASSUME AdapterInv, NEW k \in AppCalls, RefreshEnter(k)
  PROVE  AdapterInv'
<1>1. TypeOK /\ Opening /\ QueuesRight /\ StageOf(k)
      /\ call \in [AppCalls -> CallRecords] /\ call[k] \in CallRecords
  BY Typed DEF AdapterInv
<1>2. PICK r \in Names : r = call[k].r
  BY <1>1 DEF RefreshEnter, StageOf
<1>3. /\ UNCHANGED pool /\ UNCHANGED sems /\ call[k].at = "readers" /\ call[k].op = "refresh"
      /\ Holds(k, r) /\ call' = [call EXCEPT ![k].at = "refresh"]
      /\ ~Over(k) /\ call[k].left = {} /\ call[k].failed = {} /\ r # "writer"
  BY <1>1, <1>2 DEF RefreshEnter, StageOf, Over, GoTo
<1>4. Moves(k)
  BY <1>1, <1>3, StayMoves
<1>5. /\ call' \in [AppCalls -> CallRecords] /\ \A j \in AppCalls \ {k} : call'[j] = call[j]
      /\ call'[k].op = "refresh" /\ call'[k].at = "refresh" /\ call'[k].r = r
      /\ call'[k].left = {} /\ call'[k].failed = {}
  BY <1>1, <1>2, <1>3 DEF CallRecords, Stages
<1>6. StageOf(k)' /\ OwnerOf(k)' /\ ~Closing(k)' /\ ~AtLock(k)'
  BY <1>3, <1>5 DEF StageOf, OwnerOf, Closing, AtLock, Over
<1>7. \A m \in Names : \A i \in DOMAIN sems'[m].queue : sems'[m].queue[i] # k
  BY <1>1, <1>2, <1>3, HolderNotQueued
<1>8. init = "ready"
  BY <1>1, <1>3 DEF Opening
<1> QED
  BY <1>2, <1>3, <1>4, <1>5, <1>6, <1>7, <1>8, OneMoves

(* A close that has the readers too has waited for every lock.             *)
LEMMA DrainedByClose ==
  ASSUME AdapterInv, NEW k \in AppCalls,
         call[k].op = "close", call[k].at = "readers", Holds(k, call[k].r)
  PROVE  Drained
<1>1. DrainOf(k) /\ OwnerOf(k) /\ Closing(k)
  BY DEF AdapterInv, Drain, Closing
<1>2. aborted /\ (Full(call[k].w, call[k].r) \/ Drained)
  BY <1>1 DEF DrainOf
<1>3. ASSUME Full(call[k].w, call[k].r), NEW j \in AppCalls, AtLock(j)
      PROVE  FALSE
  <2>1. StageOf(j) /\ OwnerOf(j) /\ j # k
    BY <1>3 DEF AdapterInv, StageOf
  <2>2. call[j].w \in {"writer", "readers"}
    BY <1>3, <2>1 DEF StageOf
  <2>3. Owned(sems[call[j].w], j) # {}
    BY <1>2, <1>3, <2>1 DEF OwnerOf, AtLock, Holds, Satisfied
  <2>4. Owned(sems["writer"], k) = sems["writer"].items
    BY <1>1, <1>3 DEF OwnerOf, Full
  <2>5. Owned(sems["readers"], k) = sems["readers"].items
    BY <1>3 DEF Holds, Satisfied, WantsAll, Full
  <2>6. Owned(sems[call[j].w], k) = sems[call[j].w].items
    BY <2>2, <2>4, <2>5
  <2> QED
    BY <2>1, <2>3, <2>6 DEF Owned
<1> QED
  BY <1>2, <1>3 DEF Drained

LEMMA CloseReadersAdapterInv ==
  ASSUME AdapterInv, NEW k \in AppCalls, CloseReaders(k)
  PROVE  AdapterInv'
<1>1. TypeOK /\ Opening /\ QueuesRight /\ StageOf(k) /\ DrainOf(k)
      /\ call \in [AppCalls -> CallRecords] /\ call[k] \in CallRecords
  BY Typed DEF AdapterInv, Drain
<1>2. /\ UNCHANGED pool /\ call[k].at = "writer" /\ call[k].op = "close" /\ call[k].w = "writer"
      /\ ~Over(k) /\ call[k].left = {} /\ call[k].failed = {} /\ Holds(k, "writer")
      /\ Closing(k) /\ call[k].r # "writer" /\ init = "ready" /\ "writer" \in Names
  BY <1>1 DEF CloseReaders, StageOf, DrainOf, Over, Closing, Names
<1>3. PICK r \in Names \cup {"none"} : r = call[k].r
  BY <1>1 DEF CallRecords
<1>4. \A m \in Names : \A i \in DOMAIN sems[m].queue : sems[m].queue[i] # k
  BY <1>1, <1>2, HolderNotQueued
<1>5. CASE r # "none"
  <2>1. r \in Names \ {"writer"}
    BY <1>2, <1>3, <1>5
  <2>2. sems' = [sems EXCEPT ![r] = Request(@, k)] /\ call' = [call EXCEPT ![k].at = "readers"]
    BY <1>3, <1>5 DEF CloseReaders, GoTo
  <2>3. Moves(k) /\ (\A m \in Names : sems'[m].items = sems[m].items)
        /\ \A m \in Names \ {r} : sems'[m] = sems[m]
    BY <1>1, <2>1, <2>2, RequestMoves
  <2>4. /\ call' \in [AppCalls -> CallRecords] /\ \A j \in AppCalls \ {k} : call'[j] = call[j]
        /\ call'[k].op = "close" /\ call'[k].at = "readers" /\ call'[k].r = r
        /\ call'[k].w = "writer" /\ call'[k].left = {} /\ call'[k].failed = {}
    <3>1. "readers" \in Stages
      BY DEF Stages, Waiting
    <3> QED
      BY <1>1, <1>2, <1>3, <2>2, <3>1 DEF CallRecords
  <2>5. StageOf(k)' /\ ~AtLock(k)'
    BY <2>1, <2>4 DEF StageOf, Closing, AtLock, Over
  <2>6. OwnerOf(k)'
    <3>1. sems'["writer"] = sems["writer"]
      BY <1>2, <2>1, <2>3
    <3>2. Owned(sems["writer"], k) = sems["writer"].items
      BY <1>2 DEF Holds, Satisfied, WantsAll
    <3> QED
      BY <2>4, <3>1, <3>2 DEF OwnerOf, Owned
  <2>7. \A m \in Names : \A i \in DOMAIN sems'[m].queue :
          sems'[m].queue[i] = k => AwaitsAt(k, m)'
    BY <1>4, <2>3, <2>4 DEF AwaitsAt
  <2>8. sems'[k].items = sems[k].items
    BY <2>3 DEF Names
  <2>9. UNCHANGED pool /\ call[k].at = "writer" /\ ~Over(k) /\ Closing(k)
        /\ call'[k].r = call[k].r /\ call'[k].w = call[k].w /\ init = "ready"
    BY <1>2, <1>3, <2>4
  <2> QED
    BY <2>3, <2>4, <2>5, <2>6, <2>7, <2>8, <2>9, OneMoves
<1>6. CASE r = "none"
  <2>1. PICK left : left = sems["writer"].items
    OBVIOUS
  <2>2. UNCHANGED sems /\ call' = [call EXCEPT ![k].at = "closing", ![k].left = left]
    BY <1>2, <1>3, <1>6, <2>1 DEF CloseReaders
  <2>3. Moves(k)
    BY <1>1, <2>2, StayMoves
  <2>4. left \in SUBSET Conns
    BY <1>1, <1>2, <2>1, Typed DEF Semaphores
  <2>5. /\ call' \in [AppCalls -> CallRecords] /\ \A j \in AppCalls \ {k} : call'[j] = call[j]
        /\ call'[k].op = "close" /\ call'[k].at = "closing" /\ call'[k].r = r
        /\ call'[k].w = "writer" /\ call'[k].left = left /\ call'[k].failed = {}
    <3>1. "closing" \in Stages
      BY DEF Stages
    <3> QED
      BY <1>1, <1>2, <1>3, <2>2, <2>4, <3>1 DEF CallRecords
  <2>6. StageOf(k)' /\ OwnerOf(k)' /\ ~AtLock(k)'
    BY <1>2, <1>3, <2>5 DEF StageOf, OwnerOf, Closing, AtLock, Over
  <2>7. Drained /\ ToClose(k) \subseteq left
    BY <1>1, <1>2, <1>3, <1>6, <2>1 DEF DrainOf, Full, ToClose
  <2>8. UNCHANGED pool /\ call[k].at = "writer" /\ ~Over(k) /\ Closing(k)
        /\ call'[k].r = call[k].r /\ call'[k].w = call[k].w /\ init = "ready"
    BY <1>2, <1>3, <2>5
  <2> QED
    BY <1>4, <2>2, <2>3, <2>5, <2>6, <2>7, <2>8, OneMoves
<1> QED
  BY <1>5, <1>6

LEMMA CloseStartAdapterInv ==
  ASSUME AdapterInv, NEW k \in AppCalls, CloseStart(k)
  PROVE  AdapterInv'
<1>1. TypeOK /\ Opening /\ QueuesRight /\ StageOf(k) /\ DrainOf(k)
      /\ call \in [AppCalls -> CallRecords] /\ call[k] \in CallRecords
      /\ sems \in [Names -> Semaphores]
  BY Typed DEF AdapterInv, Drain
<1>2. /\ UNCHANGED pool /\ UNCHANGED sems
      /\ call[k].at = "readers" /\ call[k].op = "close" /\ call[k].r \in Names \ {"writer"}
      /\ call[k].w \in {"none", "writer"}
      /\ ~Over(k) /\ call[k].left = {} /\ call[k].failed = {} /\ Holds(k, call[k].r)
      /\ Closing(k) /\ init = "ready"
  BY <1>1 DEF CloseStart, StageOf, DrainOf, Over, Closing
<1>3. PICK left : left = ToClose(k)
  OBVIOUS
<1>4. call' = [call EXCEPT ![k].at = "closing", ![k].left = left]
  BY <1>3 DEF CloseStart
<1>5. Moves(k)
  BY <1>1, <1>2, StayMoves
<1>6. left \in SUBSET Conns /\ (Writer \in left => call[k].w = "writer")
  <2>1. {call[k].w, call[k].r} \ {"none"} \subseteq Names
    BY <1>2 DEF Names
  <2>2. \A n \in Names : sems[n].items \subseteq Conns
    BY <1>1 DEF Semaphores
  <2>3. Writer \notin sems[call[k].r].items
    BY <1>1, <1>2 DEF TypeOK
  <2> QED
    BY <1>2, <1>3, <2>1, <2>2, <2>3 DEF ToClose
<1>7. /\ call' \in [AppCalls -> CallRecords] /\ \A j \in AppCalls \ {k} : call'[j] = call[j]
      /\ call'[k].op = "close" /\ call'[k].at = "closing" /\ call'[k].r = call[k].r
      /\ call'[k].w = call[k].w /\ call'[k].left = left /\ call'[k].failed = {}
  <2>1. "closing" \in Stages
    BY DEF Stages
  <2> QED
    BY <1>1, <1>2, <1>4, <1>6, <2>1 DEF CallRecords
<1>8. StageOf(k)' /\ OwnerOf(k)' /\ ~AtLock(k)'
  BY <1>2, <1>6, <1>7 DEF StageOf, OwnerOf, Closing, AtLock, Over
<1>9. Drained
  BY <1>2, DrainedByClose
<1>10. \A m \in Names : \A i \in DOMAIN sems[m].queue : sems[m].queue[i] # k
  BY <1>1, <1>2, HolderNotQueued
<1> QED
  BY <1>2, <1>3, <1>5, <1>7, <1>8, <1>9, <1>10, OneMoves

(* A native close is answered: nothing but db and what the close has left. *)
LEMMA NativeCloseAdapterInv ==
  ASSUME AdapterInv, NEW k \in AppCalls, NEW c \in Conns, NativeClose(k, c)
  PROVE  AdapterInv'
<1>1. TypeOK /\ Opening /\ QueuesRight /\ Fresh /\ Drain /\ Reach
      /\ (\A j \in AppCalls : StageOf(j) /\ OwnerOf(j))
      /\ call \in [AppCalls -> CallRecords] /\ call[k] \in CallRecords
  BY Typed DEF AdapterInv
<1>2. /\ UNCHANGED <<init, opened, stuck, writeConnection, readConnections, sems, aborted>>
      /\ call[k].at = "closing" /\ c \in call[k].left /\ ~Over(k) /\ call[k].op = "close"
      /\ Closing(k)
  BY <1>1 DEF NativeClose, Over, StageOf, Closing
<1>3. PICK ok \in BOOLEAN :
        /\ ok => db[c] = "open"
        /\ db' = [db EXCEPT ![c] = IF ok THEN "closed" ELSE @]
        /\ call' = [call EXCEPT ![k].left = @ \ {c},
                                ![k].failed = IF ok THEN @ ELSE @ \cup {c}]
  BY DEF NativeClose
<1>4. PICK failed \in SUBSET Conns :
        failed = IF ok THEN call[k].failed ELSE call[k].failed \cup {c}
  BY <1>1 DEF CallRecords
<1>5. /\ call' \in [AppCalls -> CallRecords] /\ \A j \in AppCalls \ {k} : call'[j] = call[j]
      /\ call'[k].left = call[k].left \ {c} /\ call'[k].failed = failed
      /\ call'[k].op = "close" /\ call'[k].at = "closing"
      /\ call'[k].w = call[k].w /\ call'[k].r = call[k].r
  <2>1. call' = [call EXCEPT ![k].left = @ \ {c}, ![k].failed = failed]
    BY <1>1, <1>3, <1>4
  <2> QED
    BY <1>1, <1>2, <2>1 DEF CallRecords
<1>6. \A j \in AppCalls : /\ call'[j].op = call[j].op /\ call'[j].at = call[j].at
                          /\ call'[j].w = call[j].w /\ call'[j].r = call[j].r
  BY <1>2, <1>5
<1>7. /\ db' \in [Conns -> {"none", "open", "closed"}] /\ Open' \subseteq Open
      /\ Open \subseteq Open' \cup {c} /\ (ok => c \notin Open')
      /\ \A d \in Conns : /\ db[d] # "none" => db'[d] # "none"
                          /\ db[d] = "closed" => db'[d] = "closed"
  BY <1>1, <1>3 DEF TypeOK, Open
<1>8. init = "ready" /\ aborted /\ Drained
  BY <1>1, <1>2 DEF Drain, DrainOf
<1>9. \A n \in Names : \A i \in DOMAIN sems[n].queue : sems[n].queue[i] \in AppCalls
  BY <1>1, Typed DEF Semaphores
<1>10. QueuesRight'
  BY <1>1, <1>2, <1>6, <1>9 DEF QueuesRight, AwaitsAt
<1>11. TypeOK'
  <2>1. \A n \in Names : \A i \in DOMAIN sems'[n].queue :
          call'[sems'[n].queue[i]].at \in Waiting
    BY <1>10, QueuesWait
  <2> QED
    BY <1>1, <1>2, <1>5, <1>7, <2>1 DEF TypeOK, CallRecords
<1>12. Opening' /\ Fresh'
  BY <1>1, <1>2, <1>6, <1>7, <1>8 DEF Opening, Fresh, Over
<1>13. ASSUME NEW j \in AppCalls PROVE StageOf(j)' /\ OwnerOf(j)'
  <2>1. OwnerOf(j)'
    <3>1. call[j].at = "lock" => WantsAll(j)' = WantsAll(j)
      BY <1>6 DEF WantsAll
    <3> QED
      BY <1>1, <1>2, <1>6, <3>1 DEF OwnerOf, Holds, Satisfied, Owned
  <2>2. CASE j # k
    BY <1>1, <1>5, <2>1, <2>2 DEF StageOf, AtLock, Closing, Over
  <2>3. CASE j = k
    <3>1. StageOf(k)
      BY <1>1
    <3>2. Writer \in call'[k].left \cup call'[k].failed => call'[k].w = "writer"
      BY <1>2, <1>4, <1>5, <3>1 DEF StageOf
    <3> QED
      BY <1>2, <1>5, <2>1, <2>3, <3>1, <3>2 DEF StageOf, AtLock, Closing, Over
  <2> QED
    BY <2>2, <2>3
<1>14. Drained' /\ aborted' /\ init' = "ready"
  BY <1>2, <1>6, <1>8 DEF Drained, AtLock
<1>15. Drain'
  <2>1. \A j \in AppCalls : DrainOf(j)'
    BY <1>14 DEF DrainOf
  <2> QED
    BY <1>14, <2>1 DEF Drain, Quiet
<1>16. \A j \in AppCalls : ReachOf(j)'
  <2> SUFFICES ASSUME NEW j \in AppCalls, Closing(j)
               PROVE  Open' \subseteq IF call'[j].at = "closing"
                        THEN call'[j].left \cup call'[j].failed ELSE ToClose(j)'
    BY <1>6 DEF ReachOf, Closing
  <2>1. ReachOf(j)
    BY <1>1 DEF Reach
  <2>2. ToClose(j)' = ToClose(j)
    BY <1>2, <1>6 DEF ToClose
  <2>3. CASE j # k
    BY <1>5, <1>7, <2>1, <2>2, <2>3 DEF ReachOf
  <2>4. CASE j = k
    <3>1. Open \subseteq call[k].left \cup call[k].failed
      BY <1>2, <2>1, <2>4 DEF ReachOf
    <3> QED
      BY <1>4, <1>5, <1>7, <2>4, <3>1
  <2> QED
    BY <2>3, <2>4
<1>17. Reach'
  <2>1. Reachable' = Reachable
    BY <1>2 DEF Reachable
  <2>2. CloseMeansClosed'
    BY <1>1, <1>6, <1>7 DEF Reach, CloseMeansClosed
  <2>3. Open' \subseteq Reachable
    BY <1>1, <1>7, <1>8 DEF Reach
  <2> QED
    BY <1>16, <2>1, <2>2, <2>3 DEF Reach
<1> QED
  BY <1>10, <1>11, <1>12, <1>13, <1>15, <1>17 DEF AdapterInv

(* The end of a close: it keeps what it could not close, and gives back.   *)
LEMMA CloseFinishAdapterInv ==
  ASSUME AdapterInv, NEW k \in AppCalls, CloseFinish(k)
  PROVE  AdapterInv'
<1>1. TypeOK /\ Opening /\ QueuesRight /\ Fresh /\ Drain /\ Reach
      /\ (\A j \in AppCalls : StageOf(j) /\ OwnerOf(j))
      /\ call \in [AppCalls -> CallRecords] /\ call[k] \in CallRecords
      /\ sems \in [Names -> Semaphores]
  BY Typed DEF AdapterInv
<1>2. PICK failed \in SUBSET Conns : failed = call[k].failed
  BY <1>1 DEF CallRecords
<1>3. PICK remaining \in SUBSET Conns : remaining = failed \ {Writer}
  OBVIOUS
<1>4. PICK at \in {"resolved", "rejected"} : at = IF failed = {} THEN "resolved" ELSE "rejected"
  OBVIOUS
<1>5. /\ UNCHANGED <<init, opened, stuck, db, aborted>>
      /\ call[k].at = "closing" /\ call[k].left = {} /\ ~Over(k) /\ call[k].op = "close"
      /\ Closing(k) /\ call[k].w \in {"none", "writer"} /\ call[k].r # "writer"
      /\ writeConnection' = IF Writer \in failed THEN call[k].w ELSE "none"
      /\ readConnections' = IF remaining = {} THEN "none" ELSE k
      /\ sems' = [ReleaseBoth(k) EXCEPT ![k].items = remaining]
      /\ call' = [call EXCEPT ![k].at = at]
  BY <1>1, <1>2, <1>3, <1>4 DEF CloseFinish, Keeps, Over, StageOf, Closing, Answer, Settled
<1>6. init = "ready" /\ aborted /\ Drained /\ Open \subseteq failed
  BY <1>1, <1>2, <1>5 DEF Drain, DrainOf, Reach, ReachOf
<1>7. /\ k \in Names /\ k \notin {"none", "writer", "readers"}
      /\ readConnections # k /\ \A j \in AppCalls : call[j].r # k
  BY <1>1, <1>5, AdapterAssumption DEF Fresh, Names
<1>8. k \notin {call[k].w, call[k].r}
  BY <1>5, <1>7
<1>9. \A n \in Names : /\ Release(sems[n], k) \in Semaphores
                       /\ Release(sems[n], k).items = sems[n].items
                       /\ \A c \in Conns : sems[n].owner[c] # k =>
                            Release(sems[n], k).owner[c] = sems[n].owner[c]
                       /\ From(Release(sems[n], k).queue, sems[n].queue)
  BY <1>1, ReleaseFacts
<1>10. \A n \in Names : From(sems[n].queue, sems[n].queue)
  BY DEF From
<1>11. /\ \A n \in Names : ReleaseBoth(k)[n] \in {sems[n], Release(sems[n], k)}
       /\ ReleaseBoth(k)[k] = sems[k] /\ DOMAIN ReleaseBoth(k) = Names
  BY <1>7, <1>8 DEF ReleaseBoth
<1>12. ReleaseBoth(k) \in [Names -> Semaphores]
  <2>1. ReleaseBoth(k) = [n \in Names |-> ReleaseBoth(k)[n]]
    BY DEF ReleaseBoth
  <2> QED
    BY <1>1, <1>9, <1>11, <2>1
<1>13. /\ \A n \in Names \ {k} : sems'[n] = ReleaseBoth(k)[n]
       /\ sems' \in [Names -> Semaphores]
       /\ sems'[k].items = remaining /\ sems'[k].owner = sems[k].owner
       /\ sems'[k].queue = sems[k].queue
  <2>1. ReleaseBoth(k)[k] \in Semaphores
    BY <1>1, <1>7, <1>11
  <2>2. [ReleaseBoth(k)[k] EXCEPT !.items = remaining] \in Semaphores
    BY <2>1 DEF Semaphores
  <2>3. sems' = [ReleaseBoth(k) EXCEPT ![k] = [ReleaseBoth(k)[k] EXCEPT !.items = remaining]]
    BY <1>5
  <2> QED
    BY <1>7, <1>11, <1>12, <2>1, <2>2, <2>3 DEF Semaphores
<1>14. /\ \A n \in Names \ {k} : sems'[n].items = sems[n].items
       /\ \A n \in Names : \A c \in Conns :
            sems[n].owner[c] # k => sems'[n].owner[c] = sems[n].owner[c]
       /\ \A n \in Names : From(sems'[n].queue, sems[n].queue)
  <2> SUFFICES ASSUME NEW n \in Names
               PROVE  /\ n # k => sems'[n].items = sems[n].items
                      /\ \A c \in Conns :
                           sems[n].owner[c] # k => sems'[n].owner[c] = sems[n].owner[c]
                      /\ From(sems'[n].queue, sems[n].queue)
    OBVIOUS
  <2>1. CASE n = k
    BY <1>10, <1>13, <2>1
  <2>2. CASE n # k
    <3>1. sems'[n] = sems[n] \/ sems'[n] = Release(sems[n], k)
      BY <1>11, <1>13, <2>2
    <3> QED
      BY <1>9, <1>10, <2>2, <3>1
  <2> QED
    BY <2>1, <2>2
<1>15. Moves(k)
  BY <1>13, <1>14 DEF Moves, From
<1>16. /\ call' \in [AppCalls -> CallRecords] /\ \A j \in AppCalls \ {k} : call'[j] = call[j]
       /\ call'[k].op = "close" /\ call'[k].at = at /\ call'[k].failed = failed
       /\ call'[k].left = {} /\ call'[k].w = call[k].w /\ call'[k].r = call[k].r
  <2>1. at \in Stages
    BY DEF Stages
  <2> QED
    BY <1>1, <1>2, <1>5, <2>1 DEF CallRecords
<1>17. QueuesRight'
  <2>1. \A n \in Names : \A i \in DOMAIN sems[n].queue : sems[n].queue[i] # k
    BY <1>1, <1>5, NotQueued DEF Waiting
  <2>2. \A n \in Names : \A i \in DOMAIN sems'[n].queue : sems'[n].queue[i] # k
    BY <1>14, <2>1 DEF From
  <2> QED
    BY <1>15, <1>16, <2>2, QueuesKeep
<1>18. /\ writeConnection' \in {"none", "writer"}
       /\ Writer \in failed => writeConnection' = "writer"
       /\ readConnections' \in Names \cup {"none"} /\ readConnections' # "writer"
  <2>1. Writer \in failed => call[k].w = "writer"
    BY <1>1, <1>2 DEF StageOf
  <2> QED
    BY <1>5, <1>7, <2>1
<1>19. TypeOK'
  <2>1. \A n \in Names : \A i \in DOMAIN sems'[n].queue :
          call'[sems'[n].queue[i]].at \in Waiting
    BY <1>17, QueuesWait
  <2>2. \A n \in Names \ {"writer"} : Writer \notin sems'[n].items
    BY <1>1, <1>3, <1>13, <1>14 DEF TypeOK
  <2> QED
    BY <1>1, <1>5, <1>13, <1>16, <1>18, <2>1, <2>2 DEF TypeOK, Semaphores, CallRecords
<1>20. sems'["writer"].items = sems["writer"].items /\ sems'["readers"].items = sems["readers"].items
  BY <1>7, <1>14 DEF Names
<1>21. Opening'
  BY <1>1, <1>5, <1>6, <1>18, <1>20 DEF Opening
<1>22. Fresh'
  <2> SUFFICES ASSUME NEW n \in AppCalls, ~Over(n)'
               PROVE  readConnections' # n /\ \A j \in AppCalls : call'[j].r # n
    BY DEF Fresh
  <2>1. n # k
    BY <1>16 DEF Over
  <2>2. ~Over(n)
    BY <1>16, <2>1 DEF Over
  <2>3. n # "none"
    BY AdapterAssumption
  <2> QED
    BY <1>1, <1>5, <1>16, <2>1, <2>2, <2>3 DEF Fresh
<1>23. ASSUME NEW j \in AppCalls PROVE StageOf(j)' /\ OwnerOf(j)'
  <2>1. CASE j = k
    <3>1. StageOf(k)
      BY <1>1
    <3> QED
      BY <1>2, <1>4, <1>16, <2>1, <3>1 DEF StageOf, OwnerOf, AtLock, Closing, Over
  <2>2. CASE j # k
    <3>1. OwnerOf(j)'
      <4>1. call[j].at = "lock" /\ aborted' => Holds(j, call[j].w)
        BY <1>1, <1>5 DEF OwnerOf
      <4> QED
        BY <1>15, <1>16, <2>2, <4>1, OwnerKeeps
    <3>2. StageOf(j)'
      BY <1>1, <1>16, <2>2 DEF StageOf, AtLock, Closing, Over
    <3> QED
      BY <3>1, <3>2
  <2> QED
    BY <2>1, <2>2
<1>24. Drained' /\ aborted' /\ init' = "ready"
  <2>1. \A j \in AppCalls : ~AtLock(j)'
    BY <1>6, <1>16 DEF Drained, AtLock
  <2> QED
    BY <1>5, <1>6, <2>1 DEF Drained
<1>25. Drain'
  <2>1. \A j \in AppCalls : DrainOf(j)'
    BY <1>24 DEF DrainOf
  <2> QED
    BY <1>24, <2>1 DEF Drain, Quiet
<1>26. Open' = Open
  BY <1>5 DEF Open
<1>27. \A j \in AppCalls : ReachOf(j)'
  <2> SUFFICES ASSUME NEW j \in AppCalls, Closing(j)'
               PROVE  Open \subseteq IF call'[j].at = "closing"
                        THEN call'[j].left \cup call'[j].failed ELSE ToClose(j)'
    BY <1>26 DEF ReachOf
  <2>1. j # k /\ call'[j] = call[j] /\ Closing(j)
    BY <1>4, <1>16 DEF Closing
  <2>2. ReachOf(j) /\ StageOf(j) /\ call[j] \in CallRecords
    BY <1>1 DEF Reach
  <2>3. {call[j].w, call[j].r} \ {"none"} \subseteq Names \ {k}
    BY <1>7, <2>1, <2>2 DEF StageOf, CallRecords
  <2>4. ToClose(j)' = ToClose(j)
    BY <1>14, <2>1, <2>3 DEF ToClose
  <2> QED
    BY <2>1, <2>2, <2>4 DEF ReachOf
<1>28. Open \subseteq Reachable'
  <2> SUFFICES ASSUME NEW c \in Open PROVE c \in Reachable'
    OBVIOUS
  <2>1. CASE c = Writer
    <3>1. writeConnection' = "writer" /\ c \in sems'["writer"].items
      BY <1>1, <1>6, <1>18, <1>20, <2>1 DEF Opening
    <3> QED
      BY <3>1 DEF Reachable
  <2>2. CASE c # Writer
    <3>1. readConnections' = k /\ c \in sems'[k].items
      BY <1>3, <1>5, <1>6, <1>13, <2>2
    <3> QED
      BY <1>7, <3>1 DEF Reachable
  <2> QED
    BY <2>1, <2>2
<1>29. CloseMeansClosed'
  <2> SUFFICES ASSUME NEW j \in AppCalls, call'[j].op = "close", call'[j].at = "resolved",
                      NEW c \in Conns
               PROVE  db[c] = "closed"
    BY <1>5 DEF CloseMeansClosed
  <2>1. CASE j = k
    <3>1. Open = {}
      BY <1>4, <1>6, <1>16, <2>1
    <3>2. db[c] \in {"none", "open", "closed"} /\ db[c] # "none"
      BY <1>1, <1>6 DEF TypeOK, Opening
    <3> QED
      BY <3>1, <3>2 DEF Open
  <2>2. CASE j # k
    BY <1>1, <1>16, <2>2 DEF Reach, CloseMeansClosed
  <2> QED
    BY <2>1, <2>2
<1>30. Reach'
  BY <1>26, <1>27, <1>28, <1>29 DEF Reach
<1> QED
  BY <1>17, <1>19, <1>21, <1>22, <1>23, <1>25, <1>30 DEF AdapterInv

(* close() aborts: the locks that still wait leave their queues, and the   *)
(* close asks for the first of the semaphores of this moment.              *)
LEMMA CloseAdapterInv ==
  ASSUME AdapterInv, NEW k \in AppCalls, Close(k)
  PROVE  AdapterInv'
<1>1. TypeOK /\ Opening /\ QueuesRight /\ Fresh /\ Drain /\ Reach
      /\ (\A j \in AppCalls : StageOf(j) /\ OwnerOf(j))
      /\ call \in [AppCalls -> CallRecords] /\ call[k] \in CallRecords
      /\ sems \in [Names -> Semaphores]
  BY Typed DEF AdapterInv
<1>2. /\ call[k].at = "init" /\ call[k].op = "close" /\ init # "opening" /\ ~Over(k)
      /\ call[k].left = {} /\ call[k].failed = {}
      /\ UNCHANGED <<init, opened, stuck, db, writeConnection, readConnections>>
  BY <1>1 DEF Close, StageOf, Over
<1>3. \A m \in Names : \A i \in DOMAIN sems[m].queue : sems[m].queue[i] # k
  BY <1>1, <1>2, NotQueued DEF Waiting
<1>4. k \in Names /\ "writer" \in Names /\ "readers" \in Names
  BY DEF Names
<1>5. CASE init = "failed"
  <2>1. UNCHANGED <<sems, aborted>> /\ call' = [call EXCEPT ![k].at = "rejected"]
    BY <1>5 DEF Close, Answer, Settled
  <2>2. Moves(k)
    BY <1>1, <2>1, StayMoves
  <2>3. /\ call' \in [AppCalls -> CallRecords] /\ \A j \in AppCalls \ {k} : call'[j] = call[j]
        /\ call'[k].op = call[k].op /\ call'[k].at = "rejected" /\ call'[k].r = call[k].r
        /\ call'[k].left = {} /\ call'[k].failed = {}
    BY <1>1, <1>2, <2>1 DEF CallRecords, Stages
  <2>4. StageOf(k)' /\ OwnerOf(k)' /\ ~Closing(k)' /\ ~AtLock(k)'
    BY <2>3 DEF StageOf, OwnerOf, Closing, AtLock, Over
  <2>5. UNCHANGED pool
    BY <1>2, <2>1 DEF pool
  <2> QED
    BY <1>2, <1>3, <2>1, <2>2, <2>3, <2>4, <2>5, OneMoves
<1>6. CASE init # "failed"
  <2>1. PICK none \in BOOLEAN : none = (writeConnection = "none" /\ readConnections = "none")
    OBVIOUS
  <2>2. PICK first : first = IF writeConnection # "none" THEN writeConnection ELSE readConnections
    OBVIOUS
  <2>3. PICK left : left = [n \in Names |-> Leave(sems[n], Waiters)]
    OBVIOUS
  <2>4. PICK at \in {"writer", "readers", "rejected"} :
          at = IF none THEN "rejected" ELSE IF writeConnection # "none" THEN "writer" ELSE "readers"
    OBVIOUS
  <2>5. /\ aborted' = TRUE
        /\ sems' = IF none THEN left ELSE [left EXCEPT ![first] = Request(@, k)]
    BY <1>6, <2>1, <2>2, <2>3 DEF Close
  <2>6. k \notin Waiters
    BY <1>2 DEF Waiters
  <2>7. call' = [j \in AppCalls |->
                  IF j \in Waiters \/ (j = k /\ none) THEN [call[j] EXCEPT !.at = "rejected"]
                  ELSE IF j = k
                  THEN [call[j] EXCEPT !.w = writeConnection, !.r = readConnections,
                         !.at = IF writeConnection # "none" THEN "writer" ELSE "readers"]
                  ELSE call[j]]
    BY <1>6, <2>1 DEF Close
  <2>8. /\ \A j \in Waiters : call'[j] = [call[j] EXCEPT !.at = "rejected"]
        /\ \A j \in AppCalls \ {k} : j \notin Waiters => call'[j] = call[j]
        /\ call'[k] = IF none THEN [call[k] EXCEPT !.at = "rejected"]
                      ELSE [call[k] EXCEPT !.w = writeConnection, !.r = readConnections,
                         !.at = IF writeConnection # "none" THEN "writer" ELSE "readers"]
        /\ DOMAIN call' = AppCalls
    BY <2>6, <2>7 DEF Waiters
  <2>9. /\ writeConnection \in {"none", "writer"} /\ readConnections \in Names \cup {"none"}
        /\ readConnections # "writer"
        /\ ~none => first \in Names
    BY <1>1, <1>4, <2>1, <2>2 DEF TypeOK, Opening
  (* what becomes of the calls *)
  <2>10. /\ call'[k] \in CallRecords /\ call'[k].op = "close" /\ call'[k].at = at
         /\ call'[k].left = {} /\ call'[k].failed = {}
         /\ ~none => call'[k].w = writeConnection /\ call'[k].r = readConnections
         /\ none => call'[k].w = call[k].w /\ call'[k].r = call[k].r
    <3>1. at \in Stages /\ writeConnection \in Names \cup {"none"}
      BY <1>4, <2>9 DEF Stages, Waiting
    <3>2. CASE none
      <4>1. call'[k] = [call[k] EXCEPT !.at = at]
        BY <2>4, <2>8, <3>2
      <4> QED
        BY <1>1, <1>2, <3>1, <3>2, <4>1 DEF CallRecords
    <3>3. CASE ~none
      <4>1. call'[k] = [call[k] EXCEPT !.w = writeConnection, !.r = readConnections, !.at = at]
        BY <2>4, <2>8, <3>3
      <4> QED
        BY <1>1, <1>2, <2>9, <3>1, <3>3, <4>1 DEF CallRecords
    <3> QED
      BY <3>2, <3>3
  <2>11. ASSUME NEW j \in Waiters
         PROVE  /\ j \in AppCalls \ {k} /\ call'[j] \in CallRecords /\ call[j].at = "lock"
                /\ call'[j].op = call[j].op /\ call'[j].at = "rejected" /\ call'[j].r = call[j].r
                /\ call'[j].w = call[j].w /\ call'[j].left = {} /\ call'[j].failed = {}
    <3>1. call[j].at = "lock" /\ j \in AppCalls /\ call[j] \in CallRecords
      BY <1>1 DEF Waiters
    <3>2. call[j].left = {} /\ call[j].failed = {}
      BY <1>1, <3>1 DEF StageOf, Over
    <3>3. call'[j] = [call[j] EXCEPT !.at = "rejected"]
      BY <2>8
    <3> QED
      BY <2>6, <3>1, <3>2, <3>3 DEF CallRecords, Stages
  <2>12. call' \in [AppCalls -> CallRecords]
    <3>1. \A j \in AppCalls : call'[j] \in CallRecords
      BY <1>1, <2>8, <2>10, <2>11
    <3> QED
      BY <2>7, <3>1
  <2>13. \A j \in AppCalls : call'[j].r \in {call[j].r, readConnections}
    BY <2>8, <2>10, <2>11
  (* what becomes of the semaphores *)
  <2>14. ASSUME NEW n \in Names
         PROVE  /\ left[n] \in Semaphores /\ left[n].items = sems[n].items
                /\ left[n].owner = sems[n].owner
                /\ From(left[n].queue, sems[n].queue)
                /\ \A i \in DOMAIN left[n].queue : left[n].queue[i] \notin Waiters
    <3>1. left[n] = Leave(sems[n], Waiters)
      BY <2>3
    <3> QED
      BY <1>1, <3>1, LeaveFacts
  <2>15. ASSUME NEW n \in Names
         PROVE  /\ sems'[n] \in Semaphores /\ sems'[n].items = sems[n].items
                /\ \A c \in Conns : sems[n].owner[c] # NoCall => sems'[n].owner[c] = sems[n].owner[c]
                /\ \A i \in DOMAIN sems'[n].queue : LET j == sems'[n].queue[i] IN
                     \/ j = k /\ ~none /\ n = first
                     \/ j \notin Waiters /\ \E m \in DOMAIN sems[n].queue : j = sems[n].queue[m]
    <3>1. CASE none \/ n # first
      <4>1. sems'[n] = left[n]
        BY <2>3, <2>5, <3>1
      <4> QED
        BY <2>14, <4>1 DEF From
    <3>2. CASE ~none /\ n = first
      <4>1. sems'[n] = Request(left[n], k)
        BY <2>3, <2>5, <3>2
      <4>2. /\ sems'[n] \in Semaphores /\ sems'[n].items = left[n].items
            /\ \A c \in Conns : left[n].owner[c] # NoCall => sems'[n].owner[c] = left[n].owner[c]
            /\ sems'[n].queue \in {left[n].queue, Append(left[n].queue, k)}
        BY <2>14, <4>1, RequestFacts
      <4>3. PICK q \in Seq(AppCalls) : q = left[n].queue
        BY <2>14 DEF Semaphores
      <4>4. \A i \in DOMAIN Append(q, k) :
              Append(q, k)[i] = k \/ (i \in DOMAIN q /\ Append(q, k)[i] = q[i])
        <5> SUFFICES ASSUME NEW i \in DOMAIN Append(q, k), i # Len(q) + 1
                     PROVE  i \in DOMAIN q /\ Append(q, k)[i] = q[i]
          BY AppendProperties
        <5>1. Len(Append(q, k)) = Len(q) + 1 /\ DOMAIN Append(q, k) = 1 .. Len(q) + 1
          BY AppendProperties
        <5>2. i \in 1 .. Len(q)
          BY <5>1, Len(q) \in Nat
        <5> QED
          BY <5>2, AppendProperties
      <4>5. \A i \in DOMAIN sems'[n].queue :
              sems'[n].queue[i] = k \/ (i \in DOMAIN q /\ sems'[n].queue[i] = q[i])
        BY <4>2, <4>3, <4>4
      <4>6. \A i \in DOMAIN q : q[i] \notin Waiters /\ \E m \in DOMAIN sems[n].queue : q[i] = sems[n].queue[m]
        BY <2>14, <4>3 DEF From
      <4> QED
        BY <2>14, <3>2, <4>2, <4>5, <4>6
    <3> QED
      BY <3>1, <3>2
  <2>16. sems' \in [Names -> Semaphores]
    <3>1. sems' = [n \in Names |-> sems'[n]]
      BY <2>3, <2>5
    <3> QED
      BY <2>15, <3>1
  <2>17. Moves(k)
    BY <2>15, <2>16 DEF Moves
  <2>18. init = "ready"
    BY <1>1, <1>2, <1>6 DEF TypeOK
  <2>19. QueuesRight'
    <3> SUFFICES ASSUME NEW n \in Names, NEW i \in DOMAIN sems'[n].queue,
                        NEW j, j = sems'[n].queue[i]
                 PROVE  \/ call'[j].at \in {"lock", "writer"} /\ call'[j].w = n
                        \/ call'[j].at = "readers" /\ call'[j].r = n
      BY DEF QueuesRight, AwaitsAt
    <3>1. CASE j = k /\ ~none /\ n = first
      BY <2>1, <2>2, <2>4, <2>10, <3>1
    <3>2. CASE j \notin Waiters /\ \E m \in DOMAIN sems[n].queue : j = sems[n].queue[m]
      <4>1. PICK m \in DOMAIN sems[n].queue : j = sems[n].queue[m]
        BY <3>2
      <4>2. j \in AppCalls \ {k}
        BY <1>1, <1>3, <4>1 DEF Semaphores
      <4>3. AwaitsAt(j, n)
        BY <1>1, <4>1 DEF QueuesRight
      <4> QED
        BY <2>8, <3>2, <4>2, <4>3 DEF AwaitsAt
    <3> QED
      BY <2>15, <3>1, <3>2
  <2>20. TypeOK'
    <3>1. \A n \in Names : \A i \in DOMAIN sems'[n].queue :
            call'[sems'[n].queue[i]].at \in Waiting
      BY <2>19, QueuesWait
    <3> QED
      BY <1>1, <1>2, <2>5, <2>12, <2>15, <2>16, <3>1 DEF TypeOK, Semaphores, CallRecords
  <2>21. Opening'
    BY <1>1, <1>2, <1>4, <2>15, <2>18 DEF Opening, Open
  <2>22. \A j \in AppCalls : Over(j) => Over(j)'
    BY <1>2, <2>8, <2>11 DEF Over
  <2>23. Fresh'
    <3> SUFFICES ASSUME NEW n \in AppCalls, ~Over(n)'
                 PROVE  readConnections' # n /\ \A j \in AppCalls : call'[j].r # n
      BY DEF Fresh
    <3>1. ~Over(n)
      BY <2>22
    <3> QED
      BY <1>1, <1>2, <2>13, <3>1 DEF Fresh
  <2>24. StageOf(k)' /\ OwnerOf(k)'
    BY <2>1, <2>4, <2>9, <2>10 DEF StageOf, OwnerOf, AtLock, Closing, Over
  <2>25. ASSUME NEW j \in AppCalls PROVE StageOf(j)' /\ OwnerOf(j)'
    <3>1. CASE j = k
      BY <2>24, <3>1
    <3>2. CASE j \in Waiters
      BY <2>11, <3>2 DEF StageOf, OwnerOf, AtLock, Closing, Over
    <3>3. CASE j # k /\ j \notin Waiters
      <4>1. call'[j] = call[j]
        BY <2>8, <3>3
      <4>2. OwnerOf(j)'
        <5>1. call[j].at = "lock" /\ aborted' => Holds(j, call[j].w)
          BY <3>3 DEF Waiters
        <5> QED
          BY <2>17, <3>3, <4>1, <5>1, OwnerKeeps
      <4>3. StageOf(j)'
        BY <1>1, <4>1 DEF StageOf, AtLock, Closing, Over
      <4> QED
        BY <4>2, <4>3
    <3> QED
      BY <3>1, <3>2, <3>3
  <2>26. Drained => Drained'
    <3> SUFFICES ASSUME Drained, NEW j \in AppCalls PROVE ~AtLock(j)'
      BY DEF Drained
    <3> QED
      BY <2>4, <2>8, <2>10, <2>11 DEF Drained, AtLock
  <2>27. ASSUME NEW j \in AppCalls, Closing(j)', j # k
         PROVE  Closing(j) /\ call'[j] = call[j]
    BY <2>8, <2>11, <2>27 DEF Closing
  <2>28. \A j \in AppCalls : DrainOf(j)'
    <3> SUFFICES ASSUME NEW j \in AppCalls, Closing(j)'
                 PROVE  /\ Full(call'[j].w, call'[j].r) \/ Drained'
                        /\ call'[j].at = "closing" => Drained'
      BY <1>2, <2>5, <2>18 DEF DrainOf, Full
    <3>1. CASE j = k
      <4>1. ~none /\ call'[k].at # "closing"
        BY <2>4, <2>10, <3>1 DEF Closing
      <4> QED
        BY <1>1, <2>10, <2>18, <2>26, <3>1, <4>1 DEF Drain, Quiet
    <3>2. CASE j # k
      BY <1>1, <2>26, <2>27, <3>2 DEF Drain, DrainOf
    <3> QED
      BY <3>1, <3>2
  <2>29. Drain'
    BY <1>1, <1>2, <2>5, <2>26, <2>28 DEF Drain, Quiet, Full, Open
  <2>30. Open' = Open /\ Reachable' = Reachable
    <3>1. {writeConnection, readConnections} \ {"none"} \subseteq Names
      BY <1>4, <2>9
    <3> QED
      BY <1>2, <2>15, <3>1 DEF Open, Reachable
  <2>31. \A j \in AppCalls : ReachOf(j)'
    <3> SUFFICES ASSUME NEW j \in AppCalls, Closing(j)'
                 PROVE  Open \subseteq IF call'[j].at = "closing"
                          THEN call'[j].left \cup call'[j].failed ELSE ToClose(j)'
      BY <2>30 DEF ReachOf
    <3>1. CASE j = k
      <4>1. ~none /\ call'[k].at # "closing"
        BY <2>4, <2>10, <3>1 DEF Closing
      <4>2. ToClose(k)' = Reachable'
        BY <1>2, <2>10, <4>1 DEF ToClose, Reachable
      <4> QED
        BY <1>1, <2>18, <2>30, <3>1, <4>1, <4>2 DEF Reach
    <3>2. CASE j # k
      <4>1. Closing(j) /\ call'[j] = call[j] /\ ReachOf(j) /\ call[j] \in CallRecords
        BY <1>1, <2>27, <3>2 DEF Reach
      <4>2. {call[j].w, call[j].r} \ {"none"} \subseteq Names
        BY <4>1 DEF CallRecords
      <4>3. ToClose(j)' = ToClose(j)
        BY <2>15, <4>1, <4>2 DEF ToClose
      <4> QED
        BY <4>1, <4>3 DEF ReachOf
    <3> QED
      BY <3>1, <3>2
  <2>32. CloseMeansClosed'
    <3> SUFFICES ASSUME NEW j \in AppCalls, call'[j].op = "close", call'[j].at = "resolved",
                        NEW c \in Conns
                 PROVE  db[c] = "closed"
      BY <1>2 DEF CloseMeansClosed
    <3>1. call'[j] = call[j]
      BY <2>4, <2>8, <2>10, <2>11
    <3> QED
      BY <1>1, <3>1 DEF Reach, CloseMeansClosed
  <2>33. Reach'
    BY <1>1, <1>2, <2>30, <2>31, <2>32 DEF Reach
  <2> QED
    BY <2>19, <2>20, <2>21, <2>23, <2>25, <2>29, <2>33 DEF AdapterInv
<1> QED
  BY <1>5, <1>6

(* Before init is over nobody has or waits for anything.                   *)
LEMMA NobodyYet ==
  ASSUME AdapterInv, init # "ready", NEW j \in AppCalls
  PROVE  call[j].at \in {"none", "init", "rejected"} /\ ~AtLock(j) /\ ~Closing(j)
BY DEF AdapterInv, Opening, AtLock, Closing

(* A step of init that leaves the calls alone, once what it says of the    *)
(* pool and the connections is known.                                      *)
LEMMA InitKeeps ==
  ASSUME AdapterInv, init # "ready", UNCHANGED call,
         sems' \in [Names -> Semaphores],
         \A n \in Names : sems'[n].queue = sems[n].queue,
         \A n \in Names \ {"writer"} : Writer \notin sems'[n].items,
         init' \in {"opening", "ready", "failed"}, opened' \in 0 .. Readers + 1,
         stuck' \subseteq Conns, aborted' = aborted,
         db' \in [Conns -> {"none", "open", "closed"}],
         writeConnection' \in {"none", "writer"}, readConnections' \in {readConnections, "readers"},
         Opening',
         init' = "ready" => /\ Full(writeConnection', readConnections') /\ Open' = Conns
                            /\ Open' \subseteq Reachable'
  PROVE  AdapterInv'
<1>1. TypeOK /\ QueuesRight /\ Fresh /\ call \in [AppCalls -> CallRecords]
  BY Typed DEF AdapterInv
<1>2. \A j \in AppCalls : call[j].at \in {"none", "init", "rejected"}
  BY NobodyYet
<1>3. QueuesRight'
  BY <1>1 DEF QueuesRight, AwaitsAt
<1>4. TypeOK'
  <2>1. \A n \in Names : \A i \in DOMAIN sems'[n].queue :
          call'[sems'[n].queue[i]].at \in Waiting
    BY <1>3, QueuesWait
  <2>2. readConnections' \in Names \cup {"none"}
    BY <1>1 DEF TypeOK, Names
  <2>3. call' \in [AppCalls -> CallRecords] /\ aborted' \in BOOLEAN
    BY <1>1 DEF TypeOK
  <2> QED
    BY <2>1, <2>2, <2>3 DEF TypeOK, Semaphores, CallRecords
<1>5. Fresh'
  BY <1>1, AdapterAssumption DEF Fresh, Over
<1>6. \A j \in AppCalls : StageOf(j)' /\ OwnerOf(j)' /\ ~Closing(j)'
  <2> SUFFICES ASSUME NEW j \in AppCalls PROVE StageOf(j)' /\ OwnerOf(j)' /\ ~Closing(j)'
    OBVIOUS
  <2>1. StageOf(j) /\ call[j].at \in {"none", "init", "rejected"}
    BY <1>2 DEF AdapterInv
  <2> QED
    BY <2>1 DEF StageOf, OwnerOf, AtLock, Closing, Over
<1>7. Drain'
  BY <1>6 DEF Drain, DrainOf
<1>8. Reach'
  BY <1>2, <1>6 DEF Reach, ReachOf, CloseMeansClosed
<1> QED
  BY <1>3, <1>4, <1>5, <1>6, <1>7, <1>8 DEF AdapterInv

LEMMA InitStepAdapterInv ==
  ASSUME AdapterInv, InitStep
  PROVE  AdapterInv'
<1>1. TypeOK /\ Opening /\ sems \in [Names -> Semaphores] /\ init = "opening"
  BY Typed DEF AdapterInv, InitStep, InitOpen, InitDone, InitFails
<1>2. \A n \in Names \ {"writer"} : Writer \notin sems[n].items
  BY <1>1 DEF TypeOK
<1>3. /\ opened \in 0 .. Readers + 1 /\ db \in [Conns -> {"none", "open", "closed"}]
      /\ Readers \in Nat /\ Readers # 0
      /\ ~aborted /\ (\A c \in Conns : c < opened => db[c] = "open")
      /\ readConnections # "writer"
  BY <1>1, AdapterAssumption DEF TypeOK, Opening
<1>4. CASE InitOpen
  <2>1. /\ UNCHANGED <<init, stuck, writeConnection, readConnections, sems, aborted, call>>
        /\ opened' = opened + 1 /\ opened <= Readers
        /\ db' = [db EXCEPT ![opened] = "open"]
    BY <1>4 DEF InitOpen
  <2>2. opened \in Conns /\ opened' \in 0 .. Readers + 1
    BY <1>3, <2>1 DEF Conns
  <2>3. /\ db' \in [Conns -> {"none", "open", "closed"}]
        /\ \A c \in Conns : c < opened' => db'[c] = "open"
    BY <1>3, <2>1, <2>2 DEF Conns
  <2>4. Opening'
    BY <1>1, <1>3, <2>1, <2>3 DEF Opening
  <2> QED
    BY <1>1, <1>2, <2>1, <2>2, <2>3, <2>4, InitKeeps DEF TypeOK
<1>5. CASE InitDone
  <2>1. /\ UNCHANGED <<opened, stuck, db, aborted, call>> /\ opened = Readers + 1
        /\ init' = "ready" /\ writeConnection' = "writer" /\ readConnections' = "readers"
        /\ sems' = [sems EXCEPT !["writer"].items = {Writer},
                                !["readers"].items = Conns \ {Writer}]
    BY <1>5 DEF InitDone
  <2>2. "writer" \in Names /\ "readers" \in Names /\ {Writer} \in SUBSET Conns
    BY <1>3 DEF Names, Conns, Writer
  <2>3. /\ sems' \in [Names -> Semaphores]
        /\ sems'["writer"].items = {Writer} /\ sems'["readers"].items = Conns \ {Writer}
        /\ \A n \in Names : sems'[n].queue = sems[n].queue
        /\ \A n \in Names \ {"writer", "readers"} : sems'[n] = sems[n]
    <3>1. PICK W : W = {Writer}
      OBVIOUS
    <3>2. PICK R : R = Conns \ {Writer}
      OBVIOUS
    <3>3. sems' = [sems EXCEPT !["writer"].items = W, !["readers"].items = R]
      BY <2>1, <3>1, <3>2
    <3>4. W \in SUBSET Conns /\ R \in SUBSET Conns
      BY <2>2, <3>1, <3>2
    <3>5. /\ sems' \in [Names -> Semaphores]
          /\ sems'["writer"].items = W /\ sems'["readers"].items = R
          /\ \A n \in Names : sems'[n].queue = sems[n].queue
          /\ \A n \in Names \ {"writer", "readers"} : sems'[n] = sems[n]
      BY <1>1, <2>2, <3>3, <3>4 DEF Semaphores
    <3> QED
      BY <3>1, <3>2, <3>5
  <2>4. \A n \in Names \ {"writer"} : Writer \notin sems'[n].items
    BY <1>2, <2>3
  <2>5. \A c \in Conns : db'[c] = "open"
    BY <1>3, <2>1 DEF Conns
  <2>6. Open' = Conns
    BY <2>5 DEF Open
  <2>7. Reachable' = Conns
    BY <2>1, <2>2, <2>3 DEF Reachable
  <2>8. Opening'
    BY <2>1, <2>3, <2>5 DEF Opening
  <2>9. /\ stuck' \subseteq Conns /\ opened' \in 0 .. Readers + 1
        /\ db' \in [Conns -> {"none", "open", "closed"}]
    BY <1>1, <1>3, <2>1 DEF TypeOK
  <2>10. Full(writeConnection', readConnections')
    BY <2>1 DEF Full
  <2> QED
    BY <1>1, <2>1, <2>3, <2>4, <2>6, <2>7, <2>8, <2>9, <2>10, InitKeeps
<1>6. CASE InitFails
  <2>1. /\ UNCHANGED <<opened, writeConnection, readConnections, sems, aborted, call>>
        /\ init' = "failed"
    BY <1>6 DEF InitFails
  <2>2. PICK bad \in SUBSET {c \in Conns : db[c] = "open"} :
          /\ stuck' = bad
          /\ db' = [c \in Conns |-> IF db[c] = "open" /\ c \notin bad THEN "closed" ELSE db[c]]
    BY <1>6 DEF InitFails
  <2>3. db' \in [Conns -> {"none", "open", "closed"}] /\ Open' \subseteq stuck'
        /\ stuck' \subseteq Conns
    BY <1>3, <2>2 DEF Open
  <2>4. Opening'
    BY <1>1, <1>3, <2>1, <2>3 DEF Opening
  <2> QED
    BY <1>1, <1>2, <1>3, <2>1, <2>3, <2>4, InitKeeps DEF TypeOK
<1> QED
  BY <1>4, <1>5, <1>6 DEF InitStep

LEMMA InitAdapterInv == AdapterInit => AdapterInv
<1> SUFFICES ASSUME AdapterInit PROVE AdapterInv
  OBVIOUS
<1>1. /\ init = "opening" /\ opened = 0 /\ stuck = {} /\ aborted = FALSE
      /\ db = [c \in Conns |-> "none"]
      /\ writeConnection = "none" /\ readConnections = "none"
      /\ sems = [n \in Names |-> Empty]
      /\ call = [k \in AppCalls |-> Uncalled]
  BY DEF AdapterInit
<1>2. /\ Readers \in Nat /\ \A n \in AppCalls : n # "none"
  BY AdapterAssumption
<1>3. Empty \in Semaphores /\ Empty.items = {} /\ Empty.queue = <<>>
  BY DEF Empty, Semaphores
<1>4. /\ Uncalled \in CallRecords /\ Uncalled.at = "none" /\ Uncalled.op = "none"
      /\ Uncalled.r = "none" /\ Uncalled.left = {} /\ Uncalled.failed = {}
  BY DEF Uncalled, CallRecords, Stages
<1>5. TypeOK
  <2>1. sems \in [Names -> Semaphores] /\ call \in [AppCalls -> CallRecords]
    BY <1>1, <1>3, <1>4
  <2>2. \A n \in Names : sems[n].items = {} /\ sems[n].queue = <<>>
    BY <1>1, <1>3
  <2>3. opened \in 0 .. Readers + 1
    BY <1>1, <1>2
  <2>4. \A n \in Names : \A i \in DOMAIN sems[n].queue : call[sems[n].queue[i]].at \in Waiting
    BY <2>2
  <2>5. db \in [Conns -> {"none", "open", "closed"}]
    BY <1>1
  <2>6. \A n \in Names \ {"writer"} : Writer \notin sems[n].items
    BY <2>2
  <2> QED
    BY <1>1, <2>1, <2>3, <2>4, <2>5, <2>6 DEF TypeOK, Semaphores, CallRecords
<1>6. \A c \in Conns : c < opened => db[c] = "open"
  BY <1>1, <1>2 DEF Conns
<1>7. Opening
  BY <1>1, <1>4, <1>6 DEF Opening
<1>8. QueuesRight
  BY <1>1, <1>3 DEF QueuesRight
<1>9. Fresh
  BY <1>1, <1>2, <1>4 DEF Fresh
<1>10. \A k \in AppCalls : StageOf(k) /\ OwnerOf(k) /\ ~Closing(k)
  BY <1>1, <1>4 DEF StageOf, OwnerOf, AtLock, Closing, Over
<1>11. Drain /\ Reach
  BY <1>1, <1>4, <1>10 DEF Drain, DrainOf, Reach, ReachOf, CloseMeansClosed
<1> QED
  BY <1>5, <1>7, <1>8, <1>9, <1>10, <1>11 DEF AdapterInv

LEMMA NextAdapterInv == AdapterInv /\ [AdapterNext]_adapterVars => AdapterInv'
<1> SUFFICES ASSUME AdapterInv, [AdapterNext]_adapterVars PROVE AdapterInv'
  OBVIOUS
<1>1. CASE UNCHANGED adapterVars
  BY <1>1 DEF adapterVars, AdapterInv, TypeOK, Opening, QueuesRight, Fresh, Drain, Reach, StageOf,
     OwnerOf, AwaitsAt, AtLock, Drained, Over, Closing, Open, Full, Quiet, DrainOf, ReachOf, Holds,
     Satisfied, Owned, WantsAll, ToClose, Reachable, CloseMeansClosed
<1>2. CASE InitStep
  BY <1>2, InitStepAdapterInv
<1>3. ASSUME NEW k \in AppCalls, Step(k)
      PROVE  AdapterInv'
  BY <1>3, LockAdapterInv, EnterAdapterInv, EndsAdapterInv, WriteEndsAdapterInv,
     RefreshReadersAdapterInv, RefreshEnterAdapterInv, CloseAdapterInv, CloseReadersAdapterInv,
     CloseStartAdapterInv, NativeCloseAdapterInv, CloseFinishAdapterInv DEF Step
<1>4. ASSUME NEW k \in AppCalls, Timeout(k) \/ \E op \in Ops : Invoke(k, op)
      PROVE  AdapterInv'
  BY <1>4, TimeoutAdapterInv, InvokeAdapterInv
<1> QED
  BY <1>1, <1>2, <1>3, <1>4 DEF AdapterNext, Finished

THEOREM AdapterInductive == AdapterSpec => []AdapterInv
BY InitAdapterInv, NextAdapterInv, PTL DEF AdapterSpec

LEMMA InvLocks == AdapterInv => LockInvariant
<1> SUFFICES ASSUME AdapterInv PROVE LocksExclusive /\ CallbackOnOpen
  BY DEF LockInvariant, AdapterInv
<1>1. Opening /\ Drain /\ TypeOK /\ \A k \in AppCalls : StageOf(k)
  BY DEF AdapterInv
<1>2. \A k \in AppCalls : InCallback(k) =>
        /\ call[k].w \in {"writer", "readers"} /\ init = "ready" /\ ~Drained
  BY <1>1 DEF InCallback, StageOf, AtLock, Opening, Drained
<1>3. LocksExclusive
  <2> SUFFICES ASSUME NEW j \in AppCalls, NEW k \in AppCalls, j # k,
                      InCallback(j), InCallback(k),
                      NEW c, c \in Owned(sems[call[j].w], j), c \in Owned(sems[call[k].w], k)
               PROVE  FALSE
    BY DEF LocksExclusive
  <2>1. call[j].w = call[k].w
    BY <1>1, <1>2 DEF Opening, Owned
  <2> QED
    BY <2>1 DEF Owned
<1>4. CallbackOnOpen
  <2> SUFFICES ASSUME NEW k \in AppCalls, InCallback(k), NEW c \in Owned(sems[call[k].w], k)
               PROVE  db[c] = "open"
    BY DEF CallbackOnOpen
  <2>1. Open = Conns
    BY <1>1, <1>2 DEF Drain, Quiet
  <2>2. c \in Conns
    <3>1. sems[call[k].w] \in Semaphores
      BY <1>1, <1>2, Typed DEF Names
    <3> QED
      BY <3>1 DEF Owned, Semaphores
  <2> QED
    BY <2>1, <2>2 DEF Open
<1> QED
  BY <1>3, <1>4

LEMMA InvReach == AdapterInv => CloseReachesAll
<1> SUFFICES ASSUME AdapterInv PROVE NoOrphan /\ CloseMeansClosed
  BY DEF CloseReachesAll
<1>1. Opening /\ Reach /\ TypeOK
  BY DEF AdapterInv
<1>2. NoOrphan
  <2> SUFFICES ASSUME NEW c \in Conns, db[c] = "open", init # "opening"
               PROVE  c \in Reachable \cup stuck
    BY DEF NoOrphan
  <2>1. c \in Open
    BY DEF Open
  <2> QED
    BY <1>1, <2>1 DEF Opening, Reach, TypeOK
<1> QED
  BY <1>1, <1>2 DEF Reach

(* readLock, writeLock and executeBatch: no two callbacks have a connection*)
(* at once, and none has one that close() closes, for any number of calls  *)
(* and readers.                                                            *)
THEOREM LocksHold == AdapterSpec => []LockInvariant
BY AdapterInductive, InvLocks, PTL

(* close(): when it resolves every connection is closed, and one it could  *)
(* not close is there for the next close, for any number of closes.        *)
THEOREM CloseComplete == AdapterSpec => []CloseReachesAll
BY AdapterInductive, InvReach, PTL
=============================================================================
