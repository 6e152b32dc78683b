---------------------------- MODULE ResponseBody ----------------------------
(***************************************************************************)
(* How one HTTP body becomes text or JSON in JavaScript: the shapes a host *)
(* hands bytes over in and toUint8 (bytes.ts), the chunk reader, text()    *)
(* and json() of the responses of response.ts, the UTF-8 hold between      *)
(* chunks (text-decoder.ts), and gunzipSync, whose steps are Inflate's.    *)
(*                                                                         *)
(* A string is a sequence of characters given by their code point, bytes   *)
(* are a sequence of 0..255.                                               *)
(***************************************************************************)
EXTENDS Inflate

CONSTANTS
    Bodies      \* the bodies of a run; see the fields below

(* body.sent    the characters of the document the server sent
   body.damaged the bytes are not those of a complete document
   body.tokens  the bit positions between the tokens of its deflate data
   body.via     who hands it over: "module" (LynxFetchModule), "native"
                (idle-complete httpFetch), "chunks" (a streaming reader) or
                "host" (the Response of the host's fetch)
   body.value   what is handed over: one host value; for "native" its body
                and base64 fields; for "chunks" its parts, host values;
                for "host" what json() does, the string it may give, whether
                text() gives a text, throws or is not there, and the text
   body.use     what the caller wants: "json", "text" or "lines"           *)

VARIABLES
    body,       \* the body under way
    codec,      \* which UTF-8 decoder this host has
    pc,         \* where the caller is
    chunks,     \* the chunks of the reader from index i on
    carry,      \* bytes of a character whose end has not arrived
    text,       \* the text decoded so far
    result      \* what json() gave

bodyVars == <<body, codec, pc, chunks, carry, text, result>>
allBodyVars == <<inflateVars, bodyVars>>

Pending == [kind |-> "pending"]
Failed == [kind |-> "thrown"]
NoData == [kind |-> "empty"]           \* the literal { data: {} }
Json(t) == [kind |-> "json", text |-> t]

-----------------------------------------------------------------------------
(* UTF-8 *)

Continues(b) == b \div 64 = 2

(* How many bytes follow a lead byte; -1 for a byte that leads nothing. *)
Expected(lead) == CASE lead < 128 -> 0
                    [] lead \div 32 = 6 -> 1
                    [] lead \div 16 = 14 -> 2
                    [] lead \div 8 = 30 -> 3
                    [] OTHER -> -1

(* mutant: a character that has just ended is held back too *)
TrailingIncompleteUtf8BytesM(b) ==
    LET leads == {i \in 1..Len(b) : ~Continues(b[i])}
        have == Len(b) - Max(leads)
    IN  CASE b = <<>> -> 0
          [] b # <<>> /\ leads = {} -> Len(b)
          [] OTHER -> IF have <= Expected(b[Max(leads)]) THEN have + 1 ELSE 0

TrailingIncompleteUtf8Bytes(b) ==
    LET leads == {i \in 1..Len(b) : ~Continues(b[i])}
        have == Len(b) - Max(leads)
    IN  CASE b = <<>> -> 0
          [] b # <<>> /\ leads = {} -> Len(b)
          [] OTHER -> IF have < Expected(b[Max(leads)]) THEN have + 1 ELSE 0

Encoded(c) ==
    CASE c < 128 -> <<c>>
      [] c \in 128..2047 -> <<192 + c \div 64, 128 + (c % 64)>>
      [] c \in 2048..65535 ->
             <<224 + c \div 4096, 128 + ((c \div 64) % 64), 128 + (c % 64)>>
      [] OTHER -> <<240 + c \div 262144, 128 + ((c \div 4096) % 64),
                    128 + ((c \div 64) % 64), 128 + (c % 64)>>

EncodeUtf8(t) == FlattenSeq([i \in 1..Len(t) |-> Encoded(t[i])])

Replacement == 65533
Bom == 65279

(* The characters of b; a sequence that does not complete is replaced. *)
Characters(b) ==
    LET from[i \in 1..(Len(b) + 4)] ==
            IF i > Len(b) THEN <<>>
            ELSE LET n == Expected(b[i])
                     whole == n >= 0 /\ i + n <= Len(b)
                              /\ \A k \in (i + 1)..(i + n) : Continues(b[k])
                     value[k \in 0..3] ==
                         IF k = 0 THEN CASE n = 0 -> b[i] [] n = 1 -> b[i] % 32
                                         [] n = 2 -> b[i] % 16
                                         [] OTHER -> b[i] % 8
                                  ELSE 64 * value[k - 1] + (b[i + k] % 64)
                 IN  IF whole THEN <<value[n]>> \o from[i + n + 1]
                              ELSE <<Replacement>> \o from[i + 1]
    IN  from[1]

(* decodeUtf8.  TextCodecHelper is the host's; the standard decoder drops a
   byte order mark it starts with; the hand-written one gives the bytes back
   as characters when they are not UTF-8.                                   *)
DecodeUtf8(b) ==
    LET all == Characters(b)
    IN  CASE codec = "helper" -> all
          [] codec = "standard" ->
                 IF all # <<>> /\ all[1] = Bom THEN Tail(all) ELSE all
          [] codec = "manual" ->
                 IF \E i \in 1..Len(all) : all[i] = Replacement THEN b ELSE all

Latin1Bytes(t) == [i \in 1..Len(t) |-> t[i] % 256]

-----------------------------------------------------------------------------
(* Host values.  `kind` is what the tests of toUint8 can tell of a value, and
   the other fields are the ones the branch it takes reads.                 *)

RECURSIVE ToUint8(_)
ToUint8(v) ==
    CASE v.kind = "nothing" -> <<>>                     \* null, a number
      [] v.kind \in {"Uint8Array", "ArrayBuffer"} -> v.bytes
      [] v.kind = "foreign" -> v.bytes                  \* of another realm
      [] v.kind = "view" ->
             SubSeq(v.bytes, v.byteOffset + 1, v.byteOffset + v.byteLength)
      [] v.kind = "numbers" -> Latin1Bytes(v.bytes)
      [] v.kind = "string" -> IF IsGzip(Latin1Bytes(v.chars))
                              THEN Latin1Bytes(v.chars)
                              ELSE EncodeUtf8(v.chars)
      [] v.kind = "bag" ->                              \* buffer and byteLength
             LET base == ToUint8(v.buffer)
             IN  SubSeq(base, v.byteOffset + 1, v.byteOffset + v.byteLength)
      [] v.kind = "indexed" -> Latin1Bytes(v.items)     \* length and 0, 1, ...
      [] v.kind = "nested" -> ToUint8(v.data)
      [] v.kind = "array" -> ToUint8(v.first)           \* unwrapLynxSuccess

(* decodeBase64 undoes the host's encoding; here a value that is its bytes. *)
DecodeBase64(encoded) == encoded.bytes

(* responseFromNativeHttpEnvelope without a streamingId. *)
NativeBytes(envelope) ==
    LET bytes == ToUint8(envelope.body)
    IN  IF bytes = <<>> /\ envelope.base64.bytes # <<>>
        THEN DecodeBase64(envelope.base64) ELSE bytes

(* readerForInit: no chunk at all for an empty body. *)
ReaderForInit(bytes) == IF bytes = <<>> THEN <<>> ELSE <<bytes>>

-----------------------------------------------------------------------------
(* JSON text *)

WhiteSpace == (9..13) \cup {32, 160, Bom}

StripBom(t) == IF t # <<>> /\ t[1] = Bom THEN Tail(t) ELSE t

Trim(t) ==
    LET solid == {i \in 1..Len(t) : t[i] \notin WhiteSpace}
    IN  IF solid = {} THEN <<>> ELSE SubSeq(t, Min(solid), Max(solid))

Undefined == <<117, 110, 100, 101, 102, 105, 110, 101, 100>>   \* "undefined"

(* JSON.parse, as far as the documents of this protocol need it: an object. *)
IsJson(t) == Len(t) >= 2 /\ t[1] = 123 /\ t[Len(t)] = 125
JsonParse(t) == IF IsJson(t) THEN Json(t) ELSE Failed

-----------------------------------------------------------------------------
BodyInit ==
    /\ InflateInit
    /\ body \in Bodies
    /\ codec \in {"helper", "standard", "manual"}
    /\ pc = "handed"
    /\ chunks = <<>>
    /\ carry = <<>>
    /\ text = <<>>
    /\ result = Pending

Finish(r) == pc' = "done" /\ result' = r

(* syncStreamResponse: the adapters build the response and its reader. *)
SyncStreamResponse ==
    /\ pc = "handed"
    /\ chunks' = CASE body.via = "module" -> ReaderForInit(ToUint8(body.value))
                   [] body.via = "native" -> ReaderForInit(NativeBytes(body.value))
                   [] body.via = "chunks" ->
                          [i \in 1..Len(body.value.parts) |->
                              ToUint8(body.value.parts[i])]
                   [] body.via = "host" -> <<>>
    /\ pc' = IF body.via = "host" THEN "json"
             ELSE IF body.use = "lines" THEN "lines" ELSE "collect"
    /\ UNCHANGED <<inflateVars, body, codec, carry, text, result>>

(* text() reads the chunks one by one, joins them and inflates the whole. *)
CollectPart ==
    /\ pc = "collect"
    /\ chunks # <<>>
    /\ carry' = carry \o Head(chunks)
    /\ chunks' = Tail(chunks)
    /\ UNCHANGED <<inflateVars, body, codec, pc, text, result>>

CollectDone ==
    /\ pc = "collect"
    /\ chunks = <<>>
    /\ GunzipSync(carry)
    /\ carry' = <<>>
    /\ pc' = "inflate"
    /\ UNCHANGED <<body, codec, chunks, text, result>>

(* What decodeIdentifierJson does last: it asks text(), which may reject as
   it is the second to read the body; without one it answers no data.       *)
AskText ==
    \/ /\ body.value.texts = "gives"
       /\ text' = body.value.text
       /\ pc' = "parse"
       /\ UNCHANGED result
    \/ /\ body.value.texts = "throws"
       /\ Finish(Failed)
       /\ UNCHANGED text
    \/ /\ body.value.texts = "none"
       /\ Finish(NoData)
       /\ UNCHANGED text

(* mutant: a string of json() is parsed outside the try *)
ConcludeM(r) == Finish(r) /\ UNCHANGED text

(* json() comes to a result; decodeIdentifierJson catches what parsing the
   host's own string throws.                                                *)
Conclude(r) ==
    \/ /\ pc \in {"parseString", "inflateString"} /\ r = Failed
       /\ AskText
    \/ /\ pc \notin {"parseString", "inflateString"} \/ r # Failed
       /\ Finish(r)
       /\ UNCHANGED text

(* text() returns, and json() goes on with parseJsonText. *)
TextReturns ==
    /\ pc = "inflate"
    /\ phase = "returned"
    /\ phase' = "idle"
    /\ text' = DecodeUtf8(dest)
    /\ pc' = IF body.use = "json" THEN "parse" ELSE "done"
    /\ UNCHANGED <<source, reader, bfinal, trees, lengths, dest>>
    /\ UNCHANGED <<body, codec, chunks, carry, result>>

InflateThrows ==
    /\ pc \in {"inflate", "inflateText", "inflateString"}
    /\ phase = "thrown"
    /\ phase' = "idle"
    /\ Conclude(Failed)
    /\ UNCHANGED <<source, reader, bfinal, trees, lengths, dest>>
    /\ UNCHANGED <<body, codec, chunks, carry>>

(* parseJsonText: nothing, a gzip body as a string, or JSON. *)
ParseJsonText ==
    /\ pc \in {"parse", "parseString"}
    /\ \E trimmed \in {Trim(StripBom(text))} :
           \/ /\ trimmed \in {<<>>, Undefined}
              /\ Conclude(NoData)
              /\ UNCHANGED inflateVars
           \/ /\ trimmed \notin {<<>>, Undefined}
              /\ IsGzip(Latin1Bytes(trimmed))
              /\ \E raw \in {Latin1Bytes(trimmed)} : GunzipSync(raw)
              /\ pc' = IF pc = "parse" THEN "inflateText" ELSE "inflateString"
              /\ UNCHANGED <<text, result>>
           \/ /\ trimmed \notin {<<>>, Undefined}
              /\ ~IsGzip(Latin1Bytes(trimmed))
              /\ Conclude(JsonParse(trimmed))
              /\ UNCHANGED inflateVars
    /\ UNCHANGED <<body, codec, chunks, carry>>

ParseInflated ==
    /\ pc \in {"inflateText", "inflateString"}
    /\ phase = "returned"
    /\ phase' = "idle"
    /\ \E decoded \in {DecodeUtf8(dest)} :
           \E trimmed \in {Trim(StripBom(decoded))} : Conclude(JsonParse(trimmed))
    /\ UNCHANGED <<source, reader, bfinal, trees, lengths, dest>>
    /\ UNCHANGED <<body, codec, chunks, carry>>

(* decodeIdentifierJson: the object the host's json() gives, the JSON text
   of the string it gives, or else what text() gives.                       *)
DecodeIdentifierJson ==
    /\ pc = "json"
    /\ \/ /\ body.value.json = "object"
          /\ Finish(Json(Trim(body.sent)))
          /\ UNCHANGED text
       \/ /\ body.value.json = "string"
          /\ text' = body.value.string
          /\ pc' = "parseString"
          /\ UNCHANGED result
       \/ /\ body.value.json \in {"throws", "other"}
          /\ AskText
    /\ UNCHANGED <<inflateVars, body, codec, chunks, carry>>

(* createLynxTextDecoder().decode(chunk, {stream: true}) for each chunk. *)
DecodeChunk ==
    LET combined == carry \o Head(chunks)
        complete == Len(combined) - TrailingIncompleteUtf8Bytes(combined)
    IN  /\ pc = "lines"
        /\ chunks # <<>>
        /\ text' = text \o DecodeUtf8(SubSeq(combined, 1, complete))
        /\ carry' = SubSeq(combined, complete + 1, Len(combined))
        /\ chunks' = Tail(chunks)
        /\ UNCHANGED <<inflateVars, body, codec, pc, result>>

(* decode() without a chunk at the end of the stream. *)
DecodeEnd ==
    /\ pc = "lines"
    /\ chunks = <<>>
    /\ text' = text \o DecodeUtf8(carry)
    /\ carry' = <<>>
    /\ pc' = "done"
    /\ UNCHANGED <<inflateVars, body, codec, chunks, result>>

(* reader.cancel() of a caller that has had enough. *)
CancelReader ==
    /\ pc = "lines"
    /\ chunks # <<>>
    /\ chunks' = <<>>
    /\ pc' = "cancelled"
    /\ UNCHANGED <<inflateVars, body, codec, carry, text, result>>

GunzipLoop == InflateStep /\ UNCHANGED bodyVars

BodyRead == pc \in {"done", "cancelled"} /\ UNCHANGED allBodyVars

BodyNext ==
    \/ SyncStreamResponse
    \/ CollectPart
    \/ CollectDone
    \/ GunzipLoop
    \/ TextReturns
    \/ InflateThrows
    \/ ParseJsonText
    \/ ParseInflated
    \/ DecodeIdentifierJson
    \/ DecodeChunk
    \/ DecodeEnd
    \/ CancelReader
    \/ BodyRead

BodySpec == BodyInit /\ [][BodyNext]_allBodyVars

-----------------------------------------------------------------------------
(* The host has a response, but no text of it to fall back on. *)
GivesNoText ==
    body.via = "host" /\ \/ body.value.texts = "none"
                         \/ body.value.texts = "gives"
                            /\ Trim(body.value.text) \in {<<>>, Undefined}

(* Every document arrives as the server wrote it, whatever shape the host
   gave its bytes and however they were compressed, also where only one of a
   host's json() and text() gives it whole.  Bytes that are no complete
   document never pass for one: they are a failure, or no data where a host
   gives no text but what its json() made of them.                          *)
WhatTheServerSent ==
    LET sent == Trim(body.sent)
    IN  pc = "done" /\ body.use # "lines" =>
            CASE body.damaged ->
                     body.use = "json" =>
                         result = IF GivesNoText THEN NoData ELSE Failed
              [] ~body.damaged /\ body.use = "text" ->
                     text \in {body.sent, StripBom(body.sent)}
              [] OTHER -> result = IF sent \in {<<>>, Undefined}
                                   THEN NoData ELSE Json(sent)

(* No character is cut, lost or replaced where two chunks meet: what has been
   decoded, the bytes held back and the chunks to come are the document, and
   never more than an unfinished character is held back.  (For documents
   without U+FEFF: the standard decoder drops one that a chunk starts with.) *)
NoCharacterCut ==
    pc = "lines" /\ ~body.damaged =>
        /\ EncodeUtf8(text) \o carry \o FlattenSeq(chunks)
               = EncodeUtf8(body.sent)
        /\ Len(carry) <= 3
        /\ chunks = <<>> => carry = <<>>

(* The bit reader never loses its place: between two steps of the inflate
   loops it stands between two tokens of the stream, however far it has read
   ahead.                                                                   *)
ReaderInStep ==
    phase \in {"block", "code", "lengths", "data"} /\ ~body.damaged =>
        Position(reader) \in body.tokens

(* Neither decoder loses its place, in a document or in its deflate data. *)
DecodersInStep == NoCharacterCut /\ ReaderInStep
=============================================================================
