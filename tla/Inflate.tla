------------------------------- MODULE Inflate -------------------------------
(***************************************************************************)
(* src/sync/gunzip.ts: the gzip reader that the sync code runs on bodies a *)
(* host hands over still compressed.  gunzipSync is a state machine here,  *)
(* one action per turn of a loop of the code: a block header, a stored     *)
(* block, one code length of a dynamic block, one symbol of the data.      *)
(*                                                                         *)
(* The code keeps the bits it has read ahead in `tag`, `bitcount` of them, *)
(* and `sourceIndex` past the bytes they come from.  `tag` is then the     *)
(* bits of `source` from Position up, so the model keeps the two indices   *)
(* and reads the bits from the source.  What lies past the end of an array *)
(* is undefined in the code and reads as 0 wherever it is used.            *)
(***************************************************************************)
EXTENDS Integers, SequencesExt

VARIABLES
    phase,      \* where gunzipSync is; "idle" when it has not been called
    source,     \* the deflate data between the gzip header and the trailer
    reader,     \* sourceIndex and bitcount
    bfinal,     \* the block being read is the last one
    trees,      \* the literal and distance trees of the block being read
    lengths,    \* a dynamic block's header, and its code lengths so far
    dest        \* what has been inflated, then what gunzipSync returns

inflateVars == <<phase, source, reader, bfinal, trees, lengths, dest>>

MaxBits == 15

Byte(s, i) == IF i \in 0..(Len(s) - 1) THEN s[i + 1] ELSE 0
Word(s, i) == Byte(s, i) + 256 * Byte(s, i + 1)
Bit(s, p) == (Byte(s, p \div 8) \div 2^(p % 8)) % 2

-----------------------------------------------------------------------------
(* The gzip header.  -1 stands for the Errors thrown while it is read; the
   caller throws as well on any length below 10.                            *)

HasFlag(b, flag) == (Byte(b, 3) \div flag) % 2 = 1

IsGzip(b) == Len(b) >= 10 /\ b[1] = 31 /\ b[2] = 139

SkipCString(b, start) ==
    LET zeros == {i \in start..(Len(b) - 1) : Byte(b, i) = 0}
    IN  IF start < 0 \/ zeros = {} THEN -1 ELSE Min(zeros) + 1

GzipHeaderLength(b) ==
    LET afterExtra == IF ~HasFlag(b, 4) THEN 10
                      ELSE IF 12 > Len(b) THEN -1 ELSE 12 + Word(b, 10)
        afterName == IF HasFlag(b, 8) THEN SkipCString(b, afterExtra)
                                      ELSE afterExtra
        afterComment == IF HasFlag(b, 16) THEN SkipCString(b, afterName)
                                          ELSE afterName
    IN  IF HasFlag(b, 2) /\ afterComment >= 0 THEN afterComment + 2
                                              ELSE afterComment

(* The errors gunzipSync throws before it inflates anything. *)
HeaderRefused(b) ==
    \/ b[3] # 8
    \/ GzipHeaderLength(b) < 10
    \/ GzipHeaderLength(b) + 8 > Len(b)

-----------------------------------------------------------------------------
(* The bit reader. *)

Position(r) == 8 * r.sourceIndex - r.bitcount

(* getBit loads a byte only when the bits run out. *)
GetBit(r) ==
    IF r.bitcount = 0 THEN [sourceIndex |-> r.sourceIndex + 1, bitcount |-> 7]
                      ELSE [r EXCEPT !.bitcount = @ - 1]

(* readBits and decodeSymbol read ahead until they hold at least 24 bits. *)
Ahead(r) ==
    LET bytes == IF r.bitcount >= 24 THEN 0 ELSE (31 - r.bitcount) \div 8
    IN  [sourceIndex |-> r.sourceIndex + bytes,
         bitcount |-> r.bitcount + 8 * bytes]

Taken(r, n) == [Ahead(r) EXCEPT !.bitcount = @ - n]

(* readBits: n = 0 returns the base and does not touch the reader. *)
Past(r, n) == IF n = 0 THEN r ELSE Taken(r, n)
ReadBits(r, n, base) ==
    LET value[k \in 0..n] ==
            IF k = 0 THEN base
            ELSE value[k - 1] + 2^(k - 1) * Bit(source, Position(r) + k - 1)
    IN  value[n]

-----------------------------------------------------------------------------
(* Huffman trees: how many codes have each length, and the symbols in the
   order of their codes.                                                    *)

BuildTree(lens) ==
    LET OfLength(n) == SelectSeq([i \in 1..Len(lens) |-> i - 1],
                                 LAMBDA symbol : lens[symbol + 1] = n)
    IN  [table |-> [n \in 1..MaxBits |-> Len(OfLength(n))],
         trans |-> FlattenSeq([n \in 1..MaxBits |-> OfLength(n)])]

Counting(from, count) == [i \in 1..count |-> from + i - 1]

(* buildFixedTrees writes the two trees down instead of building them. *)
FixedTrees ==
    [lt |-> [table |-> [n \in 1..MaxBits |->
                 CASE n = 7 -> 24 [] n = 8 -> 152 [] n = 9 -> 112
                   [] OTHER -> 0],
             trans |-> Counting(256, 24) \o Counting(0, 144)
                       \o Counting(280, 8) \o Counting(144, 112)],
     dt |-> [table |-> [n \in 1..MaxBits |-> IF n = 5 THEN 32 ELSE 0],
             trans |-> Counting(0, 32)]]

NoTrees == [lt |-> BuildTree(<<>>), dt |-> BuildTree(<<>>)]

(* decodeSymbol: `sum` codes are no longer than n, and `cur` is how far the
   bits read lie past the last of them; negative means the code has ended.
   Streams whose trees leave a code without a symbol are not modelled.      *)
DecodeSymbol(r, tree) ==
    LET sum[n \in 0..MaxBits] == IF n = 0 THEN 0 ELSE sum[n - 1] + tree.table[n]
        cur[n \in 0..MaxBits] ==
            IF n = 0 THEN 0 ELSE 2 * cur[n - 1] - tree.table[n]
                                   + Bit(source, Position(r) + n - 1)
        len == CHOOSE n \in 1..MaxBits :
                   cur[n] < 0 /\ \A m \in 1..(n - 1) : cur[m] >= 0
    IN  [symbol |-> tree.trans[sum[len] + cur[len] + 1], after |-> Taken(r, len)]

(* buildBitsBase: extra bits and first value of each length or distance. *)
ExtraBits(i, delta) == IF i < delta THEN 0 ELSE (i - delta) \div delta
Base(i, delta, first) ==
    LET base[k \in 0..i] ==
            IF k = 0 THEN first ELSE base[k - 1] + 2^ExtraBits(k - 1, delta)
    IN  base[i]

LengthBits(i) == IF i = 28 THEN 0 ELSE ExtraBits(i, 4)
LengthBase(i) == IF i = 28 THEN 258 ELSE Base(i, 4, 3)
DistBits(i) == ExtraBits(i, 2)
DistBase(i) == Base(i, 2, 1)

-----------------------------------------------------------------------------
InflateInit ==
    /\ phase = "idle"
    /\ source = <<>>
    /\ reader = [sourceIndex |-> 0, bitcount |-> 0]
    /\ bfinal = FALSE
    /\ trees = NoTrees
    /\ lengths = [hlit |-> 0, hdist |-> 0, hclen |-> 0, code |-> NoTrees.lt,
                  read |-> <<>>]
    /\ dest = <<>>

(* gunzipSync(bytes) up to the loop over the blocks. *)
GunzipSync(bytes) ==
    /\ reader' = [sourceIndex |-> 0, bitcount |-> 0]
    /\ \/ /\ ~IsGzip(bytes)
          /\ phase' = "returned"
          /\ dest' = bytes
          /\ source' = <<>>
       \/ /\ IsGzip(bytes)
          /\ HeaderRefused(bytes)
          /\ phase' = "thrown"
          /\ UNCHANGED <<dest, source>>
       \/ /\ IsGzip(bytes)
          /\ ~HeaderRefused(bytes)
          /\ phase' = "block"
          /\ dest' = <<>>
          /\ source' = SubSeq(bytes, GzipHeaderLength(bytes) + 1, Len(bytes) - 8)
    /\ UNCHANGED <<bfinal, trees, lengths>>

(* The end of a block: the next one, or gunzipSync returns. *)
BlockEnds(final) == phase' = IF final THEN "returned" ELSE "block"

(* mutant: the bits read ahead are not forgotten at the end of the block *)
InflateUncompressedBlockM(r, final) ==
    LET back == IF r.bitcount > 8 THEN (r.bitcount - 1) \div 8 ELSE 0
        at == r.sourceIndex - back
        length == Word(source, at)
    IN  /\ dest' = dest \o [i \in 1..length |-> Byte(source, at + 3 + i)]
        /\ reader' = [sourceIndex |-> at + 4 + length,
                      bitcount |-> r.bitcount - 8 * back]
        /\ BlockEnds(final)

(* inflateUncompressedBlock: give back the whole bytes read ahead, check the
   length against its complement and copy.                                  *)
InflateUncompressedBlock(r, final) ==
    LET back == IF r.bitcount > 8 THEN (r.bitcount - 1) \div 8 ELSE 0
        at == r.sourceIndex - back
        length == Word(source, at)
    IN  \/ /\ length + Word(source, at + 2) # 65535
           /\ phase' = "thrown"
           /\ UNCHANGED <<dest, reader>>
        \/ /\ length + Word(source, at + 2) = 65535
           /\ dest' = dest \o [i \in 1..length |-> Byte(source, at + 3 + i)]
           /\ reader' = [sourceIndex |-> at + 4 + length, bitcount |-> 0]
           /\ BlockEnds(final)

(* The start of decodeTrees: how many lengths of each kind follow. *)
DecodeTrees(r) ==
    LET r1 == Past(r, 5)
        r2 == Past(r1, 5)
    IN  /\ lengths' = [hlit |-> ReadBits(r, 5, 257), hdist |-> ReadBits(r1, 5, 1),
                       hclen |-> ReadBits(r2, 4, 4), code |-> NoTrees.lt,
                       read |-> <<>>]
        /\ reader' = Past(r2, 4)
        /\ phase' = "code"

(* One turn of the loop of inflateRaw. *)
ReadBlockHeader ==
    LET final == Bit(source, Position(reader)) = 1
        r == GetBit(reader)
        btype == ReadBits(r, 2, 0)
        opened == Past(r, 2)
    IN  /\ phase = "block"
        /\ bfinal' = final
        /\ \/ /\ btype = 0
              /\ InflateUncompressedBlock(opened, final)
              /\ UNCHANGED <<trees, lengths>>
           \/ /\ btype = 1
              /\ trees' = FixedTrees
              /\ reader' = opened
              /\ phase' = "data"
              /\ UNCHANGED <<lengths, dest>>
           \/ /\ btype = 2
              /\ DecodeTrees(opened)
              /\ UNCHANGED <<trees, dest>>
           \/ /\ btype = 3
              /\ phase' = "thrown"
              /\ UNCHANGED <<reader, trees, lengths, dest>>
        /\ UNCHANGED source

(* The code of the code lengths: hclen lengths, in the order of clcidx. *)
ClcIdx == <<16, 17, 18, 0, 8, 7, 9, 6, 10, 5, 11, 4, 12, 3, 13, 2, 14, 1, 15>>

ReadCodeCodeLength ==
    /\ phase = "code"
    /\ Len(lengths.read) < lengths.hclen
    /\ lengths' = [lengths EXCEPT !.read = Append(@, ReadBits(reader, 3, 0))]
    /\ reader' = Past(reader, 3)
    /\ UNCHANGED <<phase, source, bfinal, trees, dest>>

BuildCodeTree ==
    LET clen(symbol) == LET k == CHOOSE k \in 1..19 : ClcIdx[k] = symbol
                        IN  IF k > lengths.hclen THEN 0 ELSE lengths.read[k]
    IN  /\ phase = "code"
        /\ Len(lengths.read) = lengths.hclen
        /\ lengths' = [lengths EXCEPT !.read = <<>>,
                           !.code = BuildTree([i \in 1..19 |-> clen(i - 1)])]
        /\ phase' = "lengths"
        /\ UNCHANGED <<source, reader, bfinal, trees, dest>>

(* The loop of decodeTrees: 16 repeats the last length, 17 and 18 write
   zeros.                                                                   *)
ReadCodeLength ==
    /\ phase = "lengths"
    /\ Len(lengths.read) < lengths.hlit + lengths.hdist
    /\ \E got \in {DecodeSymbol(reader, lengths.code)} :
           LET bits == CASE got.symbol = 16 -> 2 [] got.symbol = 17 -> 3
                         [] got.symbol = 18 -> 7 [] OTHER -> 0
               copies == CASE got.symbol \in {16, 17} -> ReadBits(got.after, bits, 3)
                           [] got.symbol = 18 -> ReadBits(got.after, bits, 11)
                           [] OTHER -> 1
               value == CASE got.symbol \in {17, 18} -> 0
                          [] got.symbol = 16 ->
                                 Byte(lengths.read, Len(lengths.read) - 1)
                          [] OTHER -> got.symbol
           IN  /\ lengths' = [lengths EXCEPT !.read = @ \o [i \in 1..copies |-> value]]
               /\ reader' = Past(got.after, bits)
    /\ UNCHANGED <<phase, source, bfinal, trees, dest>>

(* The end of decodeTrees. *)
BuildDynamicTrees ==
    LET total == lengths.hlit + lengths.hdist
    IN  /\ phase = "lengths"
        /\ Len(lengths.read) >= total
        /\ trees' = [lt |-> BuildTree(SubSeq(lengths.read, 1, lengths.hlit)),
                     dt |-> BuildTree(SubSeq(lengths.read, lengths.hlit + 1, total))]
        /\ phase' = "data"
        /\ UNCHANGED <<source, reader, bfinal, lengths, dest>>

(* mutant: a copy sees only the bytes that were there before it *)
CopiedBackM(dist, length) ==
    [i \in 1..length |-> Byte(dest, Len(dest) - dist + i - 1)]

(* `length` bytes from `dist` back; the copy may overlap what it writes. *)
CopiedBack(dist, length) ==
    [i \in 1..length |-> Byte(dest, Len(dest) - dist + ((i - 1) % dist))]

(* One turn of the loop of inflateBlockData. *)
EndBlock(got) ==
    /\ got.symbol = 256
    /\ reader' = got.after
    /\ BlockEnds(bfinal)
    /\ UNCHANGED dest

Literal(got) ==
    /\ got.symbol < 256
    /\ reader' = got.after
    /\ dest' = Append(dest, got.symbol)
    /\ UNCHANGED phase

CopyBack(got) ==
    /\ got.symbol > 256
    /\ LET i == got.symbol - 257
           length == ReadBits(got.after, LengthBits(i), LengthBase(i))
       IN  \E far \in {DecodeSymbol(Past(got.after, LengthBits(i)), trees.dt)} :
               LET j == far.symbol
                   dist == ReadBits(far.after, DistBits(j), DistBase(j))
               IN  /\ reader' = Past(far.after, DistBits(j))
                   /\ dest' = dest \o CopiedBack(dist, length)
    /\ UNCHANGED phase

ReadSymbol ==
    /\ phase = "data"
    /\ \E got \in {DecodeSymbol(reader, trees.lt)} :
           EndBlock(got) \/ Literal(got) \/ CopyBack(got)
    /\ UNCHANGED <<source, bfinal, trees, lengths>>

InflateStep ==
    \/ ReadBlockHeader
    \/ ReadCodeCodeLength
    \/ BuildCodeTree
    \/ ReadCodeLength
    \/ BuildDynamicTrees
    \/ ReadSymbol
=============================================================================
