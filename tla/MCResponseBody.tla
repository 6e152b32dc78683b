--------------------------- MODULE MCResponseBody ---------------------------
(***************************************************************************)
(* The bodies ResponseBody is checked on, and a writer of gzip streams made *)
(* from the deflate format, not from the reader: it is the reference that  *)
(* the reader is checked against, and it knows where each token ends.      *)
(***************************************************************************)
EXTENDS ResponseBody

LowFirst(n, value) == [k \in 1..n |-> (value \div 2^(k - 1)) % 2]
HighFirst(n, value) == Reverse(LowFirst(n, value))

(* A stream under construction: its bits, and the ends of its tokens. *)
NoBits == [bits |-> <<>>, ends |-> {0}]
Put(s, bits) == [bits |-> s.bits \o bits, ends |-> s.ends \cup {Len(s.bits \o bits)}]
PutAll(s, tokens) == FoldLeft(Put, s, tokens)

Lit(b) == [symbol |-> b, extra |-> <<>>]
Copy3(dist) == [symbol |-> 257, extra |-> <<>>, dist |-> dist]
EndOfBlock == Lit(256)

(* The fixed code; lengths 3 to 10 and 12, distances up to 6. *)
FixedCode(s) == CASE s < 144 -> HighFirst(8, 48 + s)
                  [] s \in 144..255 -> HighFirst(9, 256 + s)
                  [] s \in 256..279 -> HighFirst(7, s - 256)
                  [] OTHER -> HighFirst(8, s - 88)
DistCode(d) == CASE d <= 4 -> [code |-> d - 1, extra |-> <<>>]
                 [] OTHER -> [code |-> 4, extra |-> LowFirst(1, d - 5)]
FixedToken(t) == FixedCode(t.symbol) \o t.extra
                 \o IF "dist" \in DOMAIN t
                    THEN HighFirst(5, DistCode(t.dist).code) \o DistCode(t.dist).extra
                    ELSE <<>>

Fixed(final, tokens, s) ==
    PutAll(s, <<<<final>> \o <<1, 0>>>>
              \o [i \in 1..Len(tokens) |-> FixedToken(tokens[i])]
              \o <<FixedToken(EndOfBlock)>>)

Stored(final, data, s) ==
    LET padded == s.bits \o <<final, 0, 0>>
        pad == [i \in 1..((8 - (Len(padded) % 8)) % 8) |-> 0]
    IN  Put(s, <<final, 0, 0>> \o pad \o LowFirst(16, Len(data))
               \o LowFirst(16, 65535 - Len(data))
               \o FlattenSeq([i \in 1..Len(data) |-> LowFirst(8, data[i])]))

(* One dynamic block for a, {, } and copies of 3: code lengths 2 for a, 256
   and 257, 3 for { and }, 2 for four distances; the last repeat runs over
   from the literal lengths into the distance lengths.                      *)
DynamicHeader(final) ==
    <<<<final>> \o <<0, 1>> \o LowFirst(5, 1) \o LowFirst(5, 3) \o LowFirst(4, 12)>>
    \o [i \in 1..16 |-> LowFirst(3,
           <<3, 3, 2, 3, 0, 0, 0, 0, 0, 0, 0, 0, 0, 3, 0, 2>>[i])]
CodeLengths ==
    <<<<0, 1>> \o LowFirst(7, 86), <<0, 0>>,                     \* 97 zeros, 2
      <<1, 1, 1>> \o LowFirst(3, 7), <<0, 1>> \o LowFirst(7, 4), \* 10 + 15
      <<1, 0, 1>>, <<1, 0, 0>>, <<1, 0, 1>>,                     \* 3, 0, 3
      <<0, 1>> \o LowFirst(7, 119), <<0, 0>>,                    \* 130 zeros, 2
      <<1, 1, 0>> \o LowFirst(2, 2)>>                            \* 5 times 2
DynamicToken(t) == CASE t.symbol = 97 -> <<0, 0>>
                     [] t.symbol = 123 -> <<1, 1, 0>>
                     [] t.symbol = 125 -> <<1, 1, 1>>
                     [] t.symbol = 256 -> <<0, 1>>
                     [] t.symbol = 257 -> <<1, 0>> \o HighFirst(2, t.dist - 1)
Dynamic(final, tokens, s) ==
    PutAll(s, DynamicHeader(final) \o CodeLengths
              \o [i \in 1..Len(tokens) |-> DynamicToken(tokens[i])]
              \o <<DynamicToken(EndOfBlock)>>)

Contents(bits) ==
    [i \in 1..((Len(bits) + 7) \div 8) |->
        FoldFunction(+, 0, [k \in 1..8 |->
            IF 8 * (i - 1) + k > Len(bits) THEN 0
            ELSE bits[8 * (i - 1) + k] * 2^(k - 1)])]

(* Gzip members: a plain header, one with every optional field, and the ones
   gunzipSync refuses.                                                      *)
PlainHeader == <<31, 139, 8, 0, 0, 0, 0, 0, 0, 19>>
FullHeader == <<31, 139, 8, 30, 0, 0, 0, 0, 0, 19>>
              \o <<2, 0, 0, 7>> \o <<110, 0>> \o <<99, 0>> \o <<5, 5>>
Trailer(size) == <<1, 2, 3, 4, size, 0, 0, 0>>
Member(header, stream, size) == header \o Contents(stream.bits) \o Trailer(size)

-----------------------------------------------------------------------------
Chars(b) == b                              \* one character for each byte

Text1 == <<123, 97, 97, 97, 97, 97, 97, 125>>         \* {aaaaaa}
Tokens1 == <<Lit(123), Lit(97), Copy3(1), Lit(97), Lit(97), Lit(125)>>
Text2 == <<123, 26085, 125>>                          \* { one 3 byte character }
Literals(b) == [i \in 1..Len(b) |-> Lit(b[i])]

Far == [symbol |-> 265, extra |-> <<1>>, dist |-> 6]   \* 12 bytes from 6 back
Text3 == <<123>> \o [i \in 1..18 |-> 97] \o <<125>>

Streams ==
    {[text |-> Text1, stream |-> Fixed(1, Tokens1, NoBits)],
     [text |-> Text1, stream |-> Stored(1, Text1, NoBits)],
     [text |-> Text1, stream |-> Dynamic(1, Tokens1, NoBits)],
     [text |-> Text2, stream |-> Fixed(1, Literals(EncodeUtf8(Text2)), NoBits)],
     [text |-> Text3, stream |-> Fixed(1,
         <<Lit(123)>> \o [i \in 1..6 |-> Lit(97)] \o <<Far, Lit(125)>>, NoBits)],
     \* several blocks: stored data in front of, between and after others
     [text |-> Text1 \o Text1,
      stream |-> Dynamic(1, Tokens1, Stored(0, Text1, NoBits))],
     [text |-> Text1 \o Text1 \o Text1,
      stream |-> Fixed(1, Tokens1, Stored(0, Text1, Dynamic(0, Tokens1, NoBits)))],
     [text |-> Text1 \o Text1,
      stream |-> Stored(1, <<>>, Stored(0, Text1, Fixed(0, Tokens1, NoBits)))]}

Hosted(bytes) ==
    {[kind |-> "Uint8Array", bytes |-> bytes], [kind |-> "foreign", bytes |-> bytes],
     [kind |-> "view", bytes |-> <<7>> \o bytes \o <<9>>, byteOffset |-> 1,
      byteLength |-> Len(bytes)],
     [kind |-> "numbers", bytes |-> bytes], [kind |-> "string", chars |-> Chars(bytes)],
     [kind |-> "bag", buffer |-> [kind |-> "ArrayBuffer", bytes |-> <<7>> \o bytes],
      byteOffset |-> 1, byteLength |-> Len(bytes)],
     [kind |-> "indexed", items |-> bytes],
     [kind |-> "nested", data |-> [kind |-> "string", chars |-> Chars(bytes)]],
     [kind |-> "array", first |-> [kind |-> "ArrayBuffer", bytes |-> bytes]]}

Body(sent, stream, via, value, use) ==
    [sent |-> sent, damaged |-> FALSE, tokens |-> stream.ends, via |-> via,
     value |-> value, use |-> use]

HostBody(json, string, texts, t) ==
    [json |-> json, string |-> string, texts |-> texts, text |-> t]

(* Compressed bodies, whole, in two parts and as the string of a host. *)
Compressed ==
    UNION {LET bytes == Member(h, s.stream, Len(s.text))
               u8(b) == [kind |-> "Uint8Array", bytes |-> b]
           IN  {Body(s.text, s.stream, "module", v, "json") : v \in Hosted(bytes)}
               \cup {Body(s.text, s.stream, "native",
                          [body |-> [kind |-> "string", chars |-> <<>>],
                           base64 |-> u8(bytes)], use) : use \in {"json", "text"}}
               \cup {Body(s.text, s.stream, "chunks",
                          [parts |-> <<u8(SubSeq(bytes, 1, k)),
                                       u8(SubSeq(bytes, k + 1, Len(bytes)))>>], "text")
                     : k \in {1, 9, 20}}
               \cup {Body(s.text, s.stream, "host",
                          HostBody(j, Chars(bytes), "gives", Chars(bytes)), "json")
                     : j \in {"throws", "string"}}
           : h \in {PlainHeader, FullHeader}, s \in Streams}

(* Bodies that are not compressed, and those with nothing in them. *)
Plain ==
    UNION {LET v == [kind |-> "string", chars |-> t]
           IN  {Body(t, NoBits, "module", v, use) : use \in {"json", "text"}}
               \cup {Body(t, NoBits, "module",
                          [kind |-> "ArrayBuffer", bytes |-> EncodeUtf8(t)], "json"),
                     Body(t, NoBits, "native",
                          [body |-> v, base64 |-> [kind |-> "nothing", bytes |-> <<>>]],
                          "json"),
                     Body(t, NoBits, "host",
                          HostBody("other", <<>>, "gives", t), "json")}
           : t \in {Text1, Text2, <<Bom>> \o Text1, <<32>> \o Text2 \o <<10>>,
                    <<>>, Undefined}}
    \cup {Body(Text1, NoBits, "host",
               HostBody("object", <<>>, "gives", <<>>), "json"),
          Body(<<>>, NoBits, "host", HostBody("throws", <<>>, "none", <<>>), "json"),
          Body(<<>>, NoBits, "module", [kind |-> "nothing"], "json")}

(* A document of characters of one to four bytes, cut into three chunks. *)
Lines == <<97, 26085, 128512, 233, 98>>
Cut(bytes, i, j) ==
    [parts |-> [n \in 1..3 |->
        [kind |-> "Uint8Array",
         bytes |-> CASE n = 1 -> SubSeq(bytes, 1, i)
                     [] n = 2 -> SubSeq(bytes, i + 1, j)
                     [] n = 3 -> SubSeq(bytes, j + 1, Len(bytes))]]]
Streamed ==
    {Body(Lines, NoBits, "chunks", Cut(EncodeUtf8(Lines), p[1], p[2]), "lines")
        : p \in {q \in (0..11) \X (0..11) : q[1] <= q[2]}}
    \cup {[Body(Lines, NoBits, "chunks",
                Cut(SubSeq(EncodeUtf8(Lines), 1, k), 2, 3), "lines")
              EXCEPT !.damaged = TRUE] : k \in {3, 6, 7, 9}}
    \cup {Body(Lines, NoBits, "native",
               [body |-> [kind |-> "string", chars |-> Lines],
                base64 |-> [kind |-> "nothing", bytes |-> <<>>]], "lines")}

(* What gunzipSync refuses: another method, header fields without an end, a
   block type there is not, a stored length that does not match, no data.   *)
Damaged ==
    {[Body(Text1, NoBits, "module", [kind |-> "Uint8Array", bytes |-> b], "json")
         EXCEPT !.damaged = TRUE] : b \in
      {[Member(PlainHeader, Fixed(1, Tokens1, NoBits), 8) EXCEPT ![3] = 7],
       [PlainHeader EXCEPT ![4] = 4], [PlainHeader EXCEPT ![4] = 2],
       [PlainHeader EXCEPT ![4] = 8] \o <<110, 110>>,
       [PlainHeader EXCEPT ![4] = 16] \o <<110>>,
       [PlainHeader EXCEPT ![4] = 12] \o <<9, 9, 0>>,
       PlainHeader \o <<7>> \o Trailer(1),
       [Member(PlainHeader, Stored(1, Text1, NoBits), 8) EXCEPT ![14] = 1],
       SubSeq(Member(PlainHeader, Stored(1, Text1, NoBits), 8), 1, 25)}}

(* A host whose json() gives only part of the document, as it is or still
   compressed, or something else than JSON: text() then gives the document,
   a part of it or nothing, throws, or is not there.                        *)
Part(t) == SubSeq(t, 1, Len(t) - 1)
Parts ==
    LET zipped == Member(PlainHeader, Stored(1, Text1, NoBits), 8)
    IN  {Part(Text1), Chars(SubSeq(zipped, 1, 25)),
         Chars(Member(PlainHeader, Stored(1, Part(Text1), NoBits), 7))}
HostParts ==
    {Body(Text1, Stored(1, Text1, NoBits), "host",
          HostBody("string", part, "gives", Text1), "json") : part \in Parts}
    \cup {[Body(Text1, NoBits, "host", HostBody("string", part, texts, t), "json")
             EXCEPT !.damaged = TRUE]
          : part \in Parts, texts \in {"gives", "throws", "none"},
            t \in {<<>>, Undefined} \cup Parts}

AllBodies == Compressed \cup Plain \cup Streamed \cup Damaged \cup HostParts

(* A stored block behind three characters of 9 bits: its header ends on a
   byte boundary.  A writer that flushes puts such blocks between others.   *)
FlushedStream == Fixed(1, <<Lit(125)>>, Stored(0, <<>>,
    Fixed(0, <<Lit(123)>> \o Literals(EncodeUtf8(<<26085>>)), NoBits)))
FlushedBodies ==
    {Body(Text2, FlushedStream, "module",
          [kind |-> "Uint8Array", bytes |-> Member(PlainHeader, FlushedStream, 5)], "json")}
=============================================================================
