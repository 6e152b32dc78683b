----------------------------- MODULE NativeCall -----------------------------
(***************************************************************************)
(* A SQL call from nativeSql (src/adapter/native.ts) to SQLite and back:   *)
(* straight to the module of a native host, or, on Lynx for Web, over the  *)
(* hop from the background thread to the page (src/web-host: factory.ts,   *)
(* cloneable.ts, attach.ts and both ends of page-rpc.ts), while the page   *)
(* attaches to its <lynx-view> and detaches again.                         *)
(*                                                                         *)
(* A call binds one value and its statement returns it, as SELECT ? does.  *)
(* In which order the page runs calls is PageRpc's subject, what a native  *)
(* engine does with them PsSqlEngine's: here SQLite answers or fails.      *)
(***************************************************************************)
EXTENDS Integers, Sequences

CONSTANTS
    Calls,      \* calls in flight
    Binds,      \* the values JavaScript binds
    MaxSafe,    \* Number.MAX_SAFE_INTEGER
    MaxFrames   \* bound: handlers ever put on the view

VARIABLES
    host,       \* what the JavaScript runs on
    own,        \* the page has an onNativeModulesCall of its own
    mapped,     \* nativeModulesMap[MODULE_NAME] before the first attach
    map,        \* nativeModulesMap[MODULE_NAME]
    frames,     \* every handler put on the view, with what it saved
    current,    \* lynxView.onNativeModulesCall: a frame, 0 for the page's own
    worker,     \* the module lynx-bg loaded when it started
    calls

view == <<own, mapped, map, frames, current>>
vars == <<host, view, worker, calls>>

(* A value has a JavaScript or SQL type and its content: a number, bytes or
   characters.  Tagged values are the objects {__psBig, v} and {__psAb, u8}. *)
V(type, content) == [t |-> type, v |-> content]

Null == V("null", <<>>)

(* Bytes are bytes; an array may hold any integers. *)
ASSUME BindsAssumption ==
    Binds \subseteq {Null} \cup [t : {"text", "number", "bigint", "array"}, v : Seq(Int)]
                    \cup [t : {"ArrayBuffer", "Uint8Array"}, v : Seq(0..255)]

Idle == [at |-> "idle", value |-> Null, wire |-> Null, by |-> "none",
         failed |-> "no", result |-> Null]

Init ==
    /\ host \in {"web", "ios", "android", "desktop"}
    /\ own \in BOOLEAN
    /\ mapped \in {"none", "other"}
    /\ host # "web" => ~own /\ mapped = "none"
    /\ map = mapped
    /\ frames = <<>> /\ current = 0
    /\ worker = "off"
    /\ calls = [k \in Calls |-> Idle]

-----------------------------------------------------------------------------
(* Values *)

Abs(n) == IF n < 0 THEN -n ELSE n
Safe(x) == Abs(x.v[1]) <= MaxSafe

(* Uint8Array.from *)
Bytes(array) == [i \in DOMAIN array |-> array[i] % 256]

(* encodeBindParams and blobToArrayBuffer *)
EncodeBind(x) ==
    CASE x.t = "bigint" -> V("__psBig", x.v)
      [] x.t \in {"Uint8Array", "array"} -> V("ArrayBuffer", Bytes(x.v))
      [] OTHER -> x

EncodeCloneable(x) ==
    CASE x.t = "bigint" -> V("__psBig", x.v)
      [] x.t \in {"ArrayBuffer", "Uint8Array"} -> V("__psAb", x.v)
      [] OTHER -> x

DecodeCloneable(x) ==
    CASE x.t = "__psBig" -> V("bigint", x.v)
      [] x.t = "__psAb" -> V("ArrayBuffer", x.v)
      [] OTHER -> x

(* mutant: the ArrayBuffer of the hop is bound as it is *)
ToSqliteBindM(x) == x

ToSqliteBind(x) == IF x.t = "ArrayBuffer" THEN V("Uint8Array", x.v) ELSE x

(* The page's copies of a blob: toNativeCell, and envelopeToCloneable. *)
ToNativeCell(x) == IF x.t = "Uint8Array" THEN V("ArrayBuffer", x.v) ELSE x

(* decodeRawRows, decodeCell and decodeTaggedBigInt *)
DecodeCell(x) ==
    CASE x.t = "ArrayBuffer" -> V("Uint8Array", x.v)
      [] x.t = "__psBig" -> V("bigint", x.v)
      [] OTHER -> x

(* What a statement stores: wa-sqlite binds an ArrayBuffer as NULL; Lynx
   hands a bigint to iOS as a string.                                       *)
Bound(x) ==
    CASE x.t = "number" -> V(IF Safe(x) THEN "INTEGER" ELSE "REAL", x.v)
      [] x.t \in {"__psBig", "bigint"} ->
            V(IF x.t = "bigint" /\ host = "ios" THEN "TEXT" ELSE "INTEGER", x.v)
      [] x.t = "text" -> V("TEXT", x.v)
      [] x.t = "Uint8Array" -> V("BLOB", x.v)
      [] x.t = "ArrayBuffer" -> IF host = "web" THEN Null ELSE V("BLOB", x.v)
      [] OTHER -> Null

(* What a row has: past MAX_SAFE_INTEGER iOS tags an INTEGER, Android's Long,
   N-API and wa-sqlite make it a bigint.                                    *)
Cell(x) ==
    CASE x.t = "INTEGER" -> V(CASE Safe(x) -> "number"
                                [] ~Safe(x) /\ host = "ios" -> "__psBig"
                                [] OTHER -> "bigint", x.v)
      [] x.t = "REAL" -> V("number", x.v)
      [] x.t = "TEXT" -> V("text", x.v)
      [] x.t = "BLOB" -> V(IF host = "web" THEN "Uint8Array" ELSE "ArrayBuffer", x.v)
      [] OTHER -> Null

-----------------------------------------------------------------------------
(* The view *)

Frame(kind) == [kind |-> kind, previous |-> current, map |-> map]

Attach ==
    /\ host = "web" /\ Len(frames) < MaxFrames
    /\ frames' = Append(frames, Frame("attach"))
    /\ current' = Len(frames) + 1
    /\ map' = "factory"
    /\ UNCHANGED <<host, own, mapped, worker, calls>>

(* The page puts a handler of its own over what there is. *)
PageWraps ==
    /\ host = "web" /\ Len(frames) < MaxFrames
    /\ frames' = Append(frames, Frame("page"))
    /\ current' = Len(frames) + 1
    /\ UNCHANGED <<host, own, mapped, map, worker, calls>>

PageUnwraps ==
    /\ current # 0 /\ frames[current].kind = "page"
    /\ current' = frames[current].previous
    /\ UNCHANGED <<host, own, mapped, map, frames, worker, calls>>

(* The map key that detach leaves. *)
Restored(n) == IF map = "factory" THEN frames[n].map ELSE map

(* mutant: detach does not look whether its handler is the current one *)
DetachM(n) ==
    /\ frames[n].kind = "attach"
    /\ current' = frames[n].previous
    /\ map' = Restored(n)
    /\ UNCHANGED <<host, own, mapped, frames, worker, calls>>

(* detach, in any order and any number of times: without effect while the
   handler is not the current one.                                          *)
Detach(n) ==
    /\ frames[n].kind = "attach"
    /\ current = n
    /\ current' = frames[n].previous
    /\ map' = Restored(n)
    /\ UNCHANGED <<host, own, mapped, frames, worker, calls>>

(* lynx-bg starts: it loads what the map names. *)
StartWorker ==
    /\ worker = "off"
    /\ worker' = map
    /\ UNCHANGED <<host, view, calls>>

(* The handlers a call reaches from handler n, if each passes it on to the
   one it saved: those in every set that has n and is closed under passing on. *)
Chain(n) ==
    LET closed == {S \in SUBSET (0..Len(frames)) :
                      \A m \in S \ {0} : frames[m].previous \in S}
    IN  {m \in 1..Len(frames) : \A S \in closed : n \in S => m \in S}

AttachedFrom(n) == \E m \in Chain(n) : frames[m].kind = "attach"
Attached == AttachedFrom(current)

-----------------------------------------------------------------------------
(* A call *)

Reject(k, code) ==
    calls' = [calls EXCEPT ![k].at = "settled", ![k].result = V("error", code)]

Answered(k, by, failed, wire) ==
    calls' = [calls EXCEPT ![k].at = "answered", ![k].by = by,
                           ![k].failed = failed, ![k].wire = wire]

Registered == host # "web" \/ worker = "factory"

(* nativeSql: getNativeModule throws inside the promise, or the module is
   called, on the Web the method of the factory, which hops.                *)
Call(k, x) ==
    LET bind == EncodeBind(x)
    IN  /\ worker # "off" /\ worker # "other"
        /\ calls[k] = Idle
        /\ IF Registered
           THEN calls' = [calls EXCEPT ![k] =
                   [Idle EXCEPT !.at = "sent", !.value = x,
                      !.wire = IF host = "web" THEN EncodeCloneable(bind) ELSE bind]]
           ELSE calls' = [calls EXCEPT ![k] =
                   [Idle EXCEPT !.at = "settled", !.value = x, !.result = V("error", <<>>)]]
        /\ UNCHANGED <<host, view, worker>>

(* onNativeModulesCall: the first handler that attach made takes the call.
   Without one it ends at the page's own, which knows nothing of the module;
   until there is any handler Lynx keeps the call.                          *)
Deliver(k) ==
    /\ host = "web" /\ calls[k].at = "sent"
    /\ Attached
    /\ calls' = [calls EXCEPT ![k].at = "page"]
    /\ UNCHANGED <<host, view, worker>>

DeliverToOther(k) ==
    /\ host = "web" /\ calls[k].at = "sent"
    /\ ~Attached /\ (own \/ current # 0)
    /\ \/ Answered(k, "other", "no", V("undefined", <<>>))
       \/ Answered(k, "other", "no", V("object", <<>>))
       \/ Answered(k, "other", "thrown", Null)
    /\ UNCHANGED <<host, view, worker>>

AtSqlite(k) == calls[k].at = (IF host = "web" THEN "page" ELSE "sent")

(* execute or executeBatch, and the row that comes back. *)
Succeed(k) ==
    LET wire == calls[k].wire
        cell == Cell(Bound(IF host = "web" THEN ToSqliteBind(DecodeCloneable(wire))
                           ELSE wire))
    IN  /\ AtSqlite(k)
        /\ Answered(k, "sqlite", "no",
                    IF host = "web" THEN EncodeCloneable(ToNativeCell(cell)) ELSE cell)
        /\ UNCHANGED <<host, view, worker>>

(* errorCode: a code that is a number is kept, any other is dropped. *)
ErrorCode(code) == IF code = "number code" THEN <<1>> ELSE <<>>

(* handleNativeCall makes every failure an envelope; the codes of the native
   modules are numbers.                                                     *)
Fail(k, code) ==
    /\ AtSqlite(k)
    /\ host # "web" => code # "text code"
    /\ Answered(k, "sqlite", code, V("failure", ErrorCode(code)))
    /\ UNCHANGED <<host, view, worker>>

(* mutant: hop has no catch *)
HopCaughtM(k) == UNCHANGED calls

(* hop: the catch of what the handler threw *)
HopCaught(k) == Reject(k, <<>>)

(* The callback of withNativeCallback.  parseNativeEnvelope takes no envelope
   for a failure, and one without `ok` for a success.                       *)
Return(k) ==
    LET wire == calls[k].wire
    IN  /\ calls[k].at = "answered"
        /\ CASE calls[k].failed = "thrown" -> HopCaught(k)
             [] wire.t = "undefined" -> Reject(k, <<>>)
             [] wire.t = "failure" -> Reject(k, wire.v)
             [] OTHER -> calls' = [calls EXCEPT ![k].at = "settled",
                   ![k].result = DecodeCell(IF host = "web" THEN DecodeCloneable(wire)
                                            ELSE wire)]
        /\ UNCHANGED <<host, view, worker>>

-----------------------------------------------------------------------------
Next ==
    \/ Attach \/ PageWraps \/ PageUnwraps \/ StartWorker
    \/ \E n \in DOMAIN frames : Detach(n)
    \/ \E k \in Calls :
          \/ \E x \in Binds : Call(k, x)
          \/ \E code \in {"no code", "number code", "text code"} : Fail(k, code)
          \/ Deliver(k) \/ DeliverToOther(k) \/ Succeed(k) \/ Return(k)

Spec == Init /\ [][Next]_vars

(* A delivered call reaches its handler, a handler and SQLite answer, and
   promise callbacks run.                                                   *)
FairSpec ==
    /\ Spec
    /\ \A k \in Calls :
          /\ WF_vars(Deliver(k) \/ DeliverToOther(k))
          /\ WF_vars(Succeed(k)) /\ WF_vars(Return(k))

-----------------------------------------------------------------------------
(* Properties *)

(* What JavaScript should read of what it bound: an integer is a bigint only
   past MAX_SAFE_INTEGER, a blob is a Uint8Array, an array of numbers a blob. *)
Read(x) ==
    CASE x.t = "bigint" /\ Safe(x) -> V("number", x.v)
      [] x.t \in {"ArrayBuffer", "Uint8Array", "array"} -> V("Uint8Array", Bytes(x.v))
      [] OTHER -> x

(* On every host a statement gets the value that was bound, and its row or its
   error code comes back, across the conversions of each end and of the hop. *)
AnswersSurvive ==
    \A k \in Calls :
        calls[k].at = "settled" /\ calls[k].by = "sqlite" =>
            calls[k].result =
                CASE calls[k].failed = "no" -> Read(calls[k].value)
                  [] calls[k].failed = "number code" -> V("error", <<1>>)
                  [] OTHER -> V("error", <<>>)

(* However often and in whatever order the page detaches, and whatever it puts
   over our handler meanwhile, the map names our factory exactly while a call
   would reach our handler; otherwise it has what was there before.         *)
MapFollowsHandler == map = IF Attached THEN "factory" ELSE mapped

(* A call settles although the page detaches under it, unless no handler is
   left: then Lynx keeps the call.                                          *)
CallsSettle ==
    \A k \in Calls :
        calls[k].at \in {"sent", "page", "answered"}
            ~> (calls[k].at = "settled" \/ (current = 0 /\ ~own))
=============================================================================
