------------------------- MODULE IdleCompleteProofs -------------------------
(***************************************************************************)
(* Theorems about IdleComplete, for all bounds: no body is cut without a   *)
(* reason, and the first of the data's end, the timer and the deadline     *)
(* settles the answer.                                                     *)
(***************************************************************************)
EXTENDS IdleComplete, SequenceTheorems, TLAPS

(* What waits on the serial queue.                                         *)
In(q, kind) == \E i \in DOMAIN q : q[i].kind = kind

Single(q, kind) ==
  \A i, j \in DOMAIN q : q[i].kind = kind /\ q[j].kind = kind => i = j

NoDataAfterEnd(q) ==
  \A i, j \in DOMAIN q : i < j /\ q[i].kind = "end" => q[j].kind # "data"

OnlyDataCount(q) == \A i \in DOMAIN q : q[i].kind # "data" => q[i].bytes = 0

(* The bytes collected when the first i blocks of q have run, b of them     *)
(* already there: all that were sent once no block of data is left.  (The   *)
(* sum of a sequence would need induction, this only its last step.)        *)
Totals(q, b, s) ==
  \E f \in [0..Len(q) -> 0..s] :
    /\ f[0] = b
    /\ \A i \in 1..Len(q) : f[i] = f[i - 1] + q[i].bytes
    /\ \A i \in 0..Len(q) :
         (\A j \in (i + 1)..Len(q) : q[j].kind # "data") => f[i] = s

-----------------------------------------------------------------------------
(* Android's thread collects what it reads and has no queue.               *)
AndroidReads ==
  host = "android" =>
    /\ queue = <<>> /\ ~arming /\ timer = "off" /\ signals = 0 /\ buffer = sent
    /\ caller \in {"start", "connect", "read", "done"}
    /\ caller = "connect" => net = "connecting"
    /\ caller = "read" => net = "body"
    /\ caller # "done" => by = "none"

(* On iOS the signal is there from the finish until the caller takes it.   *)
IosWaits ==
  host = "ios" =>
    /\ caller \notin {"connect", "read"}
    /\ signals = IF by # "none" /\ caller \in {"wait", "expired", "sync", "again"}
                 THEN 1 ELSE 0
    /\ caller \in {"again", "collect"} => by # "none"

(* Before the start, and after a request that was refused.                 *)
NotStarted ==
  /\ caller = "start" => by = "none"
  /\ caller = "done" /\ by = "none" => result = Failed
  /\ caller = "start" \/ (caller = "done" /\ by = "none") =>
       net = "none" /\ queue = <<>> /\ ~arming /\ timer = "off"
  /\ caller # "done" => result = None

(* Each block has its place in the life of the request.                    *)
Blocks ==
  /\ In(queue, "deadline") => caller = "sync"
  /\ In(queue, "collect") => caller = "collect"
  /\ In(queue, "timer") => timer = "due"
  /\ In(queue, "end") => net = "ended"
  /\ Single(queue, "deadline") /\ Single(queue, "collect") /\ Single(queue, "timer")
  /\ NoDataAfterEnd(queue) /\ OnlyDataCount(queue)

(* The timer only runs for a long-lived body, and an end is behind all of  *)
(* the body.                                                               *)
Progress ==
  /\ net \in {"none", "connecting"} => sent = 0
  /\ In(queue, "arm") \/ arming \/ timer # "off" \/ by = "timer" =>
       LongLived /\ net \notin {"none", "connecting"}
  /\ by = "end" => net = "ended" /\ buffer = sent

Accounts == by = "none" => Totals(queue, buffer, sent)

IInv ==
  /\ TypeOK /\ AndroidReads /\ IosWaits /\ NotStarted
  /\ Blocks /\ Progress /\ Accounts /\ CutOnlyWhenLongLived

-----------------------------------------------------------------------------
(* Removing one element keeps the others in their order.                   *)
LEMMA RemoveAtParts ==
  ASSUME NEW S, NEW s \in Seq(S), NEW n \in 1..Len(s)
  PROVE  /\ RemoveAt(s, n) \in Seq(S)
         /\ Len(RemoveAt(s, n)) = Len(s) - 1
         /\ \A m \in 1..(Len(s) - 1) :
              RemoveAt(s, n)[m] = IF m < n THEN s[m] ELSE s[m + 1]
<1>1. \A m \in 1..Len(s) : s[m] \in S
  OBVIOUS
<1> DEFINE a == SubSeq(s, 1, n - 1)
           b == SubSeq(s, n + 1, Len(s))
<1>2. a \in Seq(S) /\ Len(a) = n - 1 /\ \A m \in 1..(n - 1) : a[m] = s[m]
  BY <1>1, SubSeqProperties
<1>3. b \in Seq(S) /\ Len(b) = Len(s) - n /\ \A m \in 1..(Len(s) - n) : b[m] = s[m + n]
  BY <1>1, SubSeqProperties
<1>4. RemoveAt(s, n) = a \o b
  BY DEF RemoveAt
<1> HIDE DEF a, b
<1>5. /\ a \o b \in Seq(S) /\ Len(a \o b) = Len(a) + Len(b)
      /\ \A m \in 1..(Len(a) + Len(b)) :
           (a \o b)[m] = IF m <= Len(a) THEN a[m] ELSE b[m - Len(a)]
  BY <1>2, <1>3, ConcatProperties
<1>6. ASSUME NEW m \in 1..(Len(s) - 1)
      PROVE  (a \o b)[m] = IF m < n THEN s[m] ELSE s[m + 1]
  <2>1. (a \o b)[m] = IF m <= n - 1 THEN a[m] ELSE b[m - (n - 1)]
    BY <1>2, <1>3, <1>5
  <2>2. CASE m < n
    BY <1>2, <2>1, <2>2
  <2>3. CASE m >= n
    <3>1. m - (n - 1) \in 1..(Len(s) - n) /\ m - (n - 1) + n = m + 1
      BY <2>3
    <3> QED
      BY <1>3, <2>1, <2>3, <3>1
  <2>4. m < n \/ m >= n
    OBVIOUS
  <2> QED
    BY <2>2, <2>3, <2>4
<1> QED
  BY <1>2, <1>3, <1>4, <1>5, <1>6

(* A sequence r that is q without one block, or q itself: the facts about  *)
(* q that blocks keep when others are taken out in front or between them.  *)
Without(q, n, r) ==
  /\ n \in 1..Len(q) /\ r \in Seq(Block) /\ Len(r) = Len(q) - 1
  /\ \A m \in 1..Len(r) : r[m] = IF m < n THEN q[m] ELSE q[m + 1]

LEMMA WithoutOne ==
  ASSUME NEW q \in Seq(Block), NEW n, NEW r, Without(q, n, r)
  PROVE  /\ \A k : In(r, k) => In(q, k)
         /\ \A k : Single(q, k) => Single(r, k)
         /\ \A k : Single(q, k) /\ q[n].kind = k => ~In(r, k)
         /\ NoDataAfterEnd(q) => NoDataAfterEnd(r)
         /\ OnlyDataCount(q) => OnlyDataCount(r)
<1> DEFINE at(m) == IF m < n THEN m ELSE m + 1
<1>1. /\ Len(q) \in Nat /\ DOMAIN q = 1..Len(q) /\ DOMAIN r = 1..Len(r)
      /\ Len(r) = Len(q) - 1 /\ n \in 1..Len(q)
  BY DEF Without
<1>2. \A m \in DOMAIN r : at(m) \in DOMAIN q /\ at(m) # n /\ r[m] = q[at(m)]
  BY <1>1 DEF Without
<1>3. \A l, m \in DOMAIN r : /\ at(l) = at(m) => l = m
                             /\ l < m => at(l) < at(m)
  BY <1>1
<1> HIDE DEF at
<1>4. \A k : In(r, k) => In(q, k)
  BY <1>2 DEF In
<1>5. \A k : Single(q, k) => Single(r, k)
  BY <1>2, <1>3 DEF Single
<1>6. \A k : Single(q, k) /\ q[n].kind = k => ~In(r, k)
  BY <1>1, <1>2 DEF Single, In
<1>7. NoDataAfterEnd(q) => NoDataAfterEnd(r)
  BY <1>2, <1>3 DEF NoDataAfterEnd
<1>8. OnlyDataCount(q) => OnlyDataCount(r)
  BY <1>2 DEF OnlyDataCount
<1> QED
  BY <1>4, <1>5, <1>6, <1>7, <1>8

(* Running the first block adds its bytes; a block without bytes may go    *)
(* from anywhere.                                                          *)
LEMMA TotalsWithout ==
  ASSUME NEW q \in Seq(Block), NEW n, NEW r, Without(q, n, r),
         NEW b, NEW s \in Nat, Totals(q, b, s),
         n = 1 \/ (q[n].bytes = 0 /\ q[n].kind # "data")
  PROVE  Totals(r, IF n = 1 THEN b + q[1].bytes ELSE b, s)
<1>1. PICK f \in [0..Len(q) -> 0..s] :
        /\ f[0] = b
        /\ \A i \in 1..Len(q) : f[i] = f[i - 1] + q[i].bytes
        /\ \A i \in 0..Len(q) :
             (\A j \in (i + 1)..Len(q) : q[j].kind # "data") => f[i] = s
  BY DEF Totals
<1>2. /\ Len(q) \in Nat /\ Len(r) = Len(q) - 1 /\ n \in 1..Len(q)
      /\ \A m \in 1..Len(r) : r[m] = IF m < n THEN q[m] ELSE q[m + 1]
  BY DEF Without
<1> DEFINE g == [i \in 0..Len(r) |-> IF i < n /\ n # 1 THEN f[i] ELSE f[i + 1]]
<1>3. g \in [0..Len(r) -> 0..s]
  BY <1>2
<1>4. g[0] = IF n = 1 THEN b + q[1].bytes ELSE b
  BY <1>1, <1>2
<1>5. ASSUME NEW i \in 1..Len(r)
      PROVE  g[i] = g[i - 1] + r[i].bytes
  <2>1. /\ i \in 0..Len(r) /\ i - 1 \in 0..Len(r) /\ i \in 1..Len(q) /\ i + 1 \in 1..Len(q)
        /\ f[i] = f[i - 1] + q[i].bytes /\ f[i + 1] = f[i] + q[i + 1].bytes
    BY <1>1, <1>2
  <2>2. CASE n = 1
    BY <1>2, <2>1, <2>2
  <2>3. CASE n # 1 /\ i < n
    BY <1>2, <2>1, <2>3
  <2>4. CASE n # 1 /\ i = n
    <3>1. g[i] = f[i + 1] /\ g[i - 1] = f[i - 1] /\ r[i] = q[i + 1]
      BY <1>2, <2>1, <2>4
    <3>2. f[i - 1] \in Int /\ f[i] = f[i - 1]
      BY <1>1, <1>2, <2>1, <2>4
    <3> QED
      BY <2>1, <3>1, <3>2
  <2>5. CASE n # 1 /\ i > n
    <3>1. ~(i < n) /\ ~(i - 1 < n)
      BY <1>2, <2>5
    <3>2. g[i] = f[i + 1] /\ g[i - 1] = f[i - 1 + 1] /\ r[i] = q[i + 1]
      BY <1>2, <2>1, <3>1
    <3>3. i - 1 + 1 = i
      OBVIOUS
    <3> QED
      BY <2>1, <3>2, <3>3
  <2> QED
    BY <1>2, <2>2, <2>3, <2>4, <2>5
<1>6. ASSUME NEW i \in 0..Len(r), \A j \in (i + 1)..Len(r) : r[j].kind # "data"
      PROVE  g[i] = s
  <2> DEFINE o == IF i < n /\ n # 1 THEN i ELSE i + 1
  <2>1. o \in 0..Len(q) /\ g[i] = f[o]
    BY <1>2
  <2>2. ASSUME NEW j \in (o + 1)..Len(q)
        PROVE  q[j].kind # "data"
    <3>1. CASE j = n
      BY <1>2, <2>2, <3>1
    <3>2. CASE j < n
      <4>1. j \in (i + 1)..Len(r) /\ j \in 1..Len(r)
        BY <1>2, <2>2, <3>2
      <4> QED
        BY <1>2, <1>6, <3>2, <4>1
    <3>3. CASE j > n
      <4>1. j - 1 \in (i + 1)..Len(r) /\ j - 1 \in 1..Len(r) /\ ~(j - 1 < n)
        BY <1>2, <2>2, <3>3
      <4>2. r[j - 1] = q[j]
        BY <1>2, <4>1
      <4> QED
        BY <1>6, <4>1, <4>2
    <3> QED
      BY <1>2, <2>2, <3>1, <3>2, <3>3
  <2> HIDE DEF o
  <2> QED
    BY <1>1, <2>1, <2>2
<1> HIDE DEF g
<1> QED
  BY <1>3, <1>4, <1>5, <1>6 DEF Totals

(* A block that is put on the queue, with the bytes that were handed over. *)
LEMMA TotalsAppend ==
  ASSUME NEW q \in Seq(Block), NEW c \in Block, NEW b, NEW s \in Nat,
         Totals(q, b, s), c.kind = "data" \/ c.bytes = 0
  PROVE  Totals(Append(q, c), b, s + c.bytes)
<1>1. PICK f \in [0..Len(q) -> 0..s] :
        /\ f[0] = b
        /\ \A i \in 1..Len(q) : f[i] = f[i - 1] + q[i].bytes
        /\ \A i \in 0..Len(q) :
             (\A j \in (i + 1)..Len(q) : q[j].kind # "data") => f[i] = s
  BY DEF Totals
<1> DEFINE r == Append(q, c)
           n == c.bytes
<1>2. /\ n \in Nat /\ Len(q) \in Nat /\ Len(r) = Len(q) + 1 /\ r[Len(q) + 1] = c
      /\ \A i \in 1..Len(q) : r[i] = q[i]
  BY BoundsAssumption DEF Block
<1> HIDE DEF r, n
<1> DEFINE g == [i \in 0..Len(r) |-> IF i <= Len(q) THEN f[i] ELSE s + n]
<1>3. f[Len(q)] = s
  BY <1>1, <1>2
<1>4. g \in [0..Len(r) -> 0..(s + n)]
  <2>1. ASSUME NEW i \in 0..Len(r)
        PROVE  g[i] \in 0..(s + n)
    <3>1. CASE i <= Len(q)
      <4>1. i \in 0..Len(q) /\ f[i] \in 0..s
        BY <1>2, <2>1, <3>1
      <4> QED
        BY <1>2, <3>1, <4>1
    <3>2. CASE ~(i <= Len(q))
      BY <1>2, <2>1, <3>2
    <3> QED
      BY <3>1, <3>2
  <2> QED
    BY <2>1
<1>5. g[0] = b
  BY <1>1, <1>2
<1>6. ASSUME NEW i \in 1..Len(r)
      PROVE  g[i] = g[i - 1] + r[i].bytes
  <2>1. i \in 0..Len(r) /\ i - 1 \in 0..Len(r) /\ i - 1 <= Len(q)
    BY <1>2
  <2>2. CASE i <= Len(q)
    BY <1>1, <1>2, <2>1, <2>2
  <2>3. CASE i = Len(q) + 1
    <3>1. g[i] = s + n /\ g[i - 1] = s /\ r[i] = c
      BY <1>2, <1>3, <2>1, <2>3
    <3> QED
      BY <3>1 DEF n
  <2> QED
    BY <1>2, <2>2, <2>3
<1>7. ASSUME NEW i \in 0..Len(r), \A j \in (i + 1)..Len(r) : r[j].kind # "data"
      PROVE  g[i] = s + n
  <2>1. CASE i <= Len(q)
    <3>1. i \in 0..Len(q) /\ Len(q) + 1 \in (i + 1)..Len(r)
      BY <1>2, <2>1
    <3>2. n = 0
      BY <1>2, <1>7, <3>1 DEF n
    <3>3. \A j \in (i + 1)..Len(q) : q[j].kind # "data"
      <4>1. \A j \in (i + 1)..Len(q) : j \in (i + 1)..Len(r) /\ j \in 1..Len(q)
        BY <1>2, <3>1
      <4> QED
        BY <1>2, <1>7, <4>1
    <3>4. f[i] = s
      BY <1>1, <3>1, <3>3
    <3> QED
      BY <2>1, <3>2, <3>4
  <2>2. CASE ~(i <= Len(q))
    BY <2>2
  <2> QED
    BY <2>1, <2>2
<1> HIDE DEF g
<1>8. Totals(r, b, s + n)
  BY <1>4, <1>5, <1>6, <1>7 DEF Totals
<1> QED
  BY <1>8 DEF r, n

(* What the totals say of the bytes collected so far.                      *)
LEMMA TotalsBound ==
  ASSUME NEW q \in Seq(Block), NEW b, NEW s \in Nat, Totals(q, b, s)
  PROVE  b \in 0..s /\ (~In(q, "data") => b = s)
<1>1. Len(q) \in Nat /\ 0 \in 0..Len(q) /\ DOMAIN q = 1..Len(q) /\ 0 + 1 = 1
  OBVIOUS
<1> QED
  BY <1>1 DEF Totals, In

LEMMA TotalsEmpty ==
  ASSUME NEW s \in Nat
  PROVE  Totals(<<>>, s, s)
<1>1. Len(<<>>) = 0 /\ \A i \in 1..0 : FALSE
  OBVIOUS
<1> DEFINE f == [i \in 0..0 |-> s]
<1>2. f \in [0..0 -> 0..s] /\ \A i \in 0..0 : f[i] = s
  OBVIOUS
<1> HIDE DEF f
<1> QED
  BY <1>1, <1>2 DEF Totals

-----------------------------------------------------------------------------
(* A block that is put on the queue.                                       *)
LEMMA Appended ==
  ASSUME NEW q \in Seq(Block), NEW c \in Block
  PROVE  LET r == Append(q, c) IN
         /\ r \in Seq(Block) /\ r # <<>>
         /\ \A k : In(r, k) <=> In(q, k) \/ k = c.kind
         /\ \A k : Single(q, k) /\ (c.kind # k \/ ~In(q, k)) => Single(r, k)
         /\ NoDataAfterEnd(q) /\ (c.kind # "data" \/ ~In(q, "end")) => NoDataAfterEnd(r)
         /\ OnlyDataCount(q) /\ (c.kind = "data" \/ c.bytes = 0) => OnlyDataCount(r)
<1> DEFINE r == Append(q, c)
<1>1. /\ r \in Seq(Block) /\ r # <<>> /\ Len(q) \in Nat
      /\ DOMAIN q = 1..Len(q) /\ DOMAIN r = 1..(Len(q) + 1)
      /\ \A i \in DOMAIN q : i \in DOMAIN r /\ r[i] = q[i] /\ i < Len(q) + 1
      /\ Len(q) + 1 \in DOMAIN r /\ r[Len(q) + 1] = c
      /\ \A i \in DOMAIN r : i \in DOMAIN q \/ i = Len(q) + 1
  OBVIOUS
<1> DEFINE l == Len(q) + 1
<1>2. /\ l \in DOMAIN r /\ r[l] = c
      /\ \A i \in DOMAIN q : i \in DOMAIN r /\ r[i] = q[i] /\ i < l /\ ~(l < i)
      /\ \A i \in DOMAIN r : i \in DOMAIN q \/ i = l
      /\ ~(l < l)
  BY <1>1
<1> HIDE DEF l, r
<1>3. \A k : In(r, k) <=> In(q, k) \/ k = c.kind
  BY <1>2 DEF In
<1>4. \A k : Single(q, k) /\ (c.kind # k \/ ~In(q, k)) => Single(r, k)
  BY <1>2 DEF In, Single
<1>5. NoDataAfterEnd(q) /\ (c.kind # "data" \/ ~In(q, "end")) => NoDataAfterEnd(r)
  BY <1>2 DEF In, NoDataAfterEnd
<1>6. OnlyDataCount(q) /\ (c.kind = "data" \/ c.bytes = 0) => OnlyDataCount(r)
  BY <1>2 DEF OnlyDataCount
<1> QED
  BY <1>1, <1>3, <1>4, <1>5, <1>6 DEF r

(* Cancelling the timer takes its handler away and nothing else.           *)
LEMMA Cancelled ==
  ASSUME NEW q \in Seq(Block)
  PROVE  \/ WithoutTimer(q) = q /\ ~In(q, "timer")
         \/ \E n : Without(q, n, WithoutTimer(q)) /\ q[n].kind = "timer"
<1>1. CASE \E i \in DOMAIN q : q[i].kind = "timer"
  <2> DEFINE n == CHOOSE i \in DOMAIN q : q[i].kind = "timer"
  <2>1. n \in DOMAIN q /\ q[n].kind = "timer" /\ WithoutTimer(q) = RemoveAt(q, n)
    BY <1>1 DEF WithoutTimer
  <2> HIDE DEF n
  <2>2. n \in 1..Len(q)
    BY <2>1
  <2>3. Without(q, n, RemoveAt(q, n))
    BY <2>2, RemoveAtParts DEF Without
  <2> QED
    BY <2>1, <2>3
<1>2. CASE ~\E i \in DOMAIN q : q[i].kind = "timer"
  BY <1>2 DEF WithoutTimer, In
<1> QED
  BY <1>1, <1>2

(* The first block of the queue runs, and may cancel the timer.            *)
LEMMA Popped ==
  ASSUME NEW q \in Seq(Block), q # <<>>,
         NEW r, r = Tail(q) \/ r = WithoutTimer(Tail(q))
  PROVE  /\ r \in Seq(Block) /\ Head(q) \in Block /\ In(q, Head(q).kind)
         /\ \A k : In(r, k) => In(q, k)
         /\ \A k : Single(q, k) => Single(r, k)
         /\ \A k : Single(q, k) /\ Head(q).kind = k => ~In(r, k)
         /\ NoDataAfterEnd(q) => NoDataAfterEnd(r)
         /\ NoDataAfterEnd(q) /\ Head(q).kind = "end" => ~In(r, "data")
         /\ OnlyDataCount(q) =>
              /\ OnlyDataCount(r) /\ (Head(q).kind # "data" => Head(q).bytes = 0)
         /\ Single(q, "timer") /\ r = WithoutTimer(Tail(q)) => ~In(r, "timer")
         /\ \A b, s : s \in Nat /\ OnlyDataCount(q) /\ Totals(q, b, s) =>
              Totals(r, b + Head(q).bytes, s)
<1> DEFINE t == Tail(q)
<1>1. /\ Len(q) \in Nat /\ DOMAIN q = 1..Len(q) /\ 1 \in DOMAIN q
      /\ Head(q) = q[1] /\ Head(q) \in Block
  OBVIOUS
<1>2. Without(q, 1, t)
  BY DEF Without
<1>3. t \in Seq(Block)
  OBVIOUS
<1> HIDE DEF t
<1>4. /\ \A k : In(t, k) => In(q, k)
      /\ \A k : Single(q, k) => Single(t, k)
      /\ \A k : Single(q, k) /\ Head(q).kind = k => ~In(t, k)
      /\ NoDataAfterEnd(q) => NoDataAfterEnd(t)
      /\ OnlyDataCount(q) => OnlyDataCount(t)
  BY <1>1, <1>2, WithoutOne
<1>5. NoDataAfterEnd(q) /\ Head(q).kind = "end" => ~In(t, "data")
  <2>1. \A m \in DOMAIN t : m + 1 \in DOMAIN q /\ 1 < m + 1 /\ t[m] = q[m + 1]
    BY <1>1, <1>2 DEF Without
  <2> QED
    BY <1>1, <2>1 DEF NoDataAfterEnd, In
<1>6. In(q, Head(q).kind) /\ (OnlyDataCount(q) /\ Head(q).kind # "data" => Head(q).bytes = 0)
  BY <1>1 DEF In, OnlyDataCount
<1>7. ASSUME NEW b, NEW s \in Nat, Totals(q, b, s)
      PROVE  Totals(t, b + Head(q).bytes, s)
  BY <1>1, <1>2, <1>7, TotalsWithout
<1>8. CASE r = t
  <2>1. Single(q, "timer") /\ r = WithoutTimer(t) => ~In(r, "timer")
    <3>1. Len(t) \in Nat /\ Len(t) # Len(t) - 1
      BY <1>3
    <3> QED
      BY <1>3, <1>8, <3>1, Cancelled DEF Without
  <2> QED
    BY <1>1, <1>3, <1>4, <1>5, <1>6, <1>7, <1>8, <2>1 DEF t
<1>9. CASE r # t
  <2>1. r = WithoutTimer(t)
    BY <1>9 DEF t
  <2>2. PICK n : Without(t, n, r) /\ t[n].kind = "timer"
    BY <1>3, <1>9, <2>1, Cancelled
  <2>3. /\ \A k : In(r, k) => In(t, k)
        /\ \A k : Single(t, k) => Single(r, k)
        /\ Single(t, "timer") => ~In(r, "timer")
        /\ NoDataAfterEnd(t) => NoDataAfterEnd(r)
        /\ OnlyDataCount(t) => OnlyDataCount(r)
    BY <1>3, <2>2, WithoutOne
  <2>4. ASSUME NEW b, NEW s \in Nat, OnlyDataCount(t), Totals(t, b, s)
        PROVE  Totals(r, b, s)
    <3>1. n \in DOMAIN t /\ t[n].kind # "data" /\ t[n].bytes = 0
      BY <1>3, <2>2, <2>4 DEF Without, OnlyDataCount
    <3>2. \/ n # 1 /\ Totals(r, b, s)
          \/ n = 1 /\ Totals(r, b + t[1].bytes, s)
      BY <1>3, <2>2, <2>4, <3>1, TotalsWithout
    <3>3. b \in 0..s
      BY <1>3, <2>4, TotalsBound
    <3> QED
      BY <3>1, <3>2, <3>3
  <2>5. r \in Seq(Block)
    BY <2>2 DEF Without
  <2>6. ASSUME NEW b, NEW s \in Nat, OnlyDataCount(q), Totals(q, b, s)
        PROVE  Totals(r, b + Head(q).bytes, s)
    BY <1>4, <1>7, <2>4, <2>6
  <2> QED
    BY <1>1, <1>4, <1>5, <1>6, <2>3, <2>5, <2>6
<1> QED
  BY <1>8, <1>9

-----------------------------------------------------------------------------
LEMMA InitIInv ==
  ASSUME Init
  PROVE  IInv
<1> USE DEF Init
<1>1. TypeOK
  <2>1. {syncStream, chunked, trickle, arming} \subseteq BOOLEAN
    OBVIOUS
  <2>2. sent \in 0..MaxBytes /\ buffer \in 0..sent /\ queue \in Seq(Block)
    BY BoundsAssumption
  <2> QED
    BY <2>1, <2>2 DEF TypeOK
<1>2. \A k : ~In(queue, k)
  BY DEF In
<1>3. Blocks
  BY <1>2 DEF Blocks, Single, NoDataAfterEnd, OnlyDataCount
<1>4. Totals(queue, buffer, sent)
  BY TotalsEmpty
<1> QED
  BY <1>1, <1>2, <1>3, <1>4 DEF IInv, AndroidReads, IosWaits, NotStarted, Progress,
    Accounts, CutOnlyWhenLongLived, Answered

(* Steps that leave the serial queue alone: the request's start and end,   *)
(* Android's thread, and the deadline.                                     *)
LEMMA CallerIInv ==
  ASSUME IInv, BadRequest \/ Start \/ Deadline
  PROVE  IInv'
<1> USE DEF IInv
<1>1. /\ UNCHANGED <<host, syncStream, chunked, sent, trickle, buffer, session, by>>
      /\ net' \in {net, "connecting"}
  BY DEF BadRequest, Start, Deadline, transfer, session, CallerSteps
<1> USE <1>1 DEF BadRequest, Start, Deadline, transfer, session, CallerSteps
<1>2. TypeOK'
  BY DEF TypeOK
<1>3. AndroidReads' /\ IosWaits' /\ NotStarted'
  BY DEF AndroidReads, IosWaits, NotStarted, TypeOK
<1>4. Blocks'
  BY DEF Blocks, NotStarted, In
<1>5. Progress'
  BY DEF Progress, LongLived, NotStarted
<1>6. Accounts'
  BY DEF Accounts
<1>7. CutOnlyWhenLongLived'
  BY DEF CutOnlyWhenLongLived, Answered, NotStarted, LongLived
<1> QED
  BY <1>2, <1>3, <1>4, <1>5, <1>6, <1>7

LEMMA AndroidIInv ==
  ASSUME IInv, AndroidConnect \/ AndroidRead
  PROVE  IInv'
<1> USE DEF IInv
<1>1. /\ host = "android" /\ caller \in {"connect", "read"} /\ by = "none"
      /\ UNCHANGED <<host, syncStream, session>> /\ buffer' = sent'
  BY DEF AndroidConnect, AndroidRead, ConnectThrows, GetResponse, NoBody, ReadBytes,
    ReadQuiet, ReadThrows, ReadEof, AndroidEnds, IosWaits, AndroidReads, TypeOK
<1>2. queue = <<>> /\ queue' = <<>> /\ sent \in Nat /\ sent' \in 0..MaxBytes
  <2>1. queue = <<>> /\ queue' = <<>> /\ sent \in Nat /\ sent \in 0..MaxBytes
    BY <1>1, BoundsAssumption DEF AndroidReads, TypeOK, session
  <2>2. CASE ReadBytes
    <3>1. PICK n \in 0..MaxChunk : sent + n <= MaxBytes /\ sent' = sent + n
      BY <2>2 DEF ReadBytes
    <3> QED
      BY <2>1, <3>1, BoundsAssumption
  <2>3. CASE ~ReadBytes
    BY <2>1, <2>3 DEF AndroidConnect, AndroidRead, ConnectThrows, GetResponse, NoBody,
      ReadQuiet, ReadThrows, ReadEof, AndroidEnds
  <2> QED
    BY <2>2, <2>3
<1>3. \A k : ~In(queue', k)
  BY <1>2 DEF In
<1> USE <1>1, <1>2
<1>4. CASE GetResponse \/ ReadBytes
  <2> USE <1>4 DEF GetResponse, ReadBytes, session
  <2>1. TypeOK'
    <3>1. \A b \in {syncStream', chunked', trickle', arming'} : b \in BOOLEAN
      BY DEF TypeOK
    <3> QED
      BY <3>1 DEF TypeOK
  <2>2. AndroidReads' /\ IosWaits' /\ NotStarted' /\ Progress'
    BY <1>3 DEF AndroidReads, IosWaits, NotStarted, Progress, LongLived, TypeOK
  <2>3. CutOnlyWhenLongLived'
    BY DEF CutOnlyWhenLongLived, Answered, NotStarted
  <2>4. Accounts' /\ Blocks'
    BY <1>3, TotalsEmpty
      DEF Accounts, Blocks, Single, NoDataAfterEnd, OnlyDataCount
  <2> QED
    BY <2>1, <2>2, <2>3, <2>4
<1>5. CASE ~(GetResponse \/ ReadBytes)
  <2>1. PICK how \in {"error", "end", "timer"}, answer \in {Failed, Body(TRUE, buffer)} :
          /\ AndroidEnds(how, answer)
          /\ net' \in {"failed", "ended", net}
          /\ \/ answer = Failed
             \/ /\ answer = Body(TRUE, buffer)
                /\ \/ how = "end" /\ net' = "ended"
                   \/ how = "timer" /\ LongLived /\ buffer > 0
          /\ how = "end" => net' = "ended"
          /\ how = "timer" => LongLived /\ net' = "body"
    <3>1. CASE ConnectThrows \/ ReadThrows
      BY <3>1 DEF ConnectThrows, ReadThrows
    <3>2. CASE NoBody
      <4>1. buffer = 0
        BY <3>2 DEF NoBody, AndroidReads, Progress
      <4> QED
        BY <3>2, <4>1 DEF NoBody
    <3>3. CASE ReadQuiet
      <4>1. net = "body"
        BY <3>3 DEF ReadQuiet, AndroidReads
      <4>2. CASE LongLived /\ buffer > 0
        BY <3>3, <4>1, <4>2 DEF ReadQuiet
      <4>3. CASE ~(LongLived /\ buffer > 0)
        BY <3>3, <4>1, <4>3 DEF ReadQuiet
      <4> QED
        BY <4>2, <4>3
    <3>4. CASE ReadEof
      BY <3>4 DEF ReadEof
    <3> QED
      BY <1>5, <3>1, <3>2, <3>3, <3>4 DEF AndroidConnect, AndroidRead
  <2> DEFINE answered == Body(TRUE, buffer)
  <2>2. /\ answered \in Envelope /\ answered.status /\ answered.body = buffer
    <3>1. syncStream \in BOOLEAN
      BY DEF TypeOK
    <3>2. buffer \in 0..MaxBytes
      BY BoundsAssumption DEF TypeOK
    <3> QED
      BY <3>1, <3>2 DEF Body, Envelope
  <2> HIDE DEF answered
  <2>3. /\ caller' = "done" /\ by' = how /\ result' = answer
        /\ answer = Failed \/ answer = answered
        /\ UNCHANGED <<chunked, sent, trickle, buffer, queue, arming, timer, signals>>
    BY <2>1 DEF AndroidEnds, session, answered
  <2>4. TypeOK'
    BY <2>1, <2>2, <2>3 DEF TypeOK
  <2>5. AndroidReads' /\ IosWaits' /\ NotStarted' /\ Progress'
    BY <1>3, <2>1, <2>3 DEF AndroidReads, IosWaits, NotStarted, Progress, LongLived, TypeOK
  <2>6. CutOnlyWhenLongLived'
    BY <2>1, <2>2, <2>3 DEF CutOnlyWhenLongLived, LongLived, answered, AndroidReads
  <2>7. Accounts' /\ Blocks'
    BY <1>3, <2>3 DEF Accounts, Blocks, Single, NoDataAfterEnd, OnlyDataCount
  <2> QED
    BY <2>4, <2>5, <2>6, <2>7
<1> QED
  BY <1>4, <1>5

(* What Put does to the queue.                                             *)
LEMMA PutBlock ==
  ASSUME queue \in Seq(Block), NEW n \in 0..MaxChunk,
         NEW k \in {"data", "arm", "timer", "end", "error", "deadline", "collect"},
         Put(k, n), k = "data" \/ n = 0
  PROVE  /\ queue' \in Seq(Block) /\ queue' # <<>>
         /\ \A kind : In(queue', kind) <=> In(queue, kind) \/ kind = k
         /\ \A kind : Single(queue, kind) /\ (k # kind \/ ~In(queue, kind)) =>
              Single(queue', kind)
         /\ NoDataAfterEnd(queue) /\ (k # "data" \/ ~In(queue, "end")) =>
              NoDataAfterEnd(queue')
         /\ OnlyDataCount(queue) => OnlyDataCount(queue')
         /\ \A b, s : s \in Nat /\ Totals(queue, b, s) => Totals(queue', b, s + n)
<1> DEFINE c == [kind |-> k, bytes |-> n]
<1>1. c \in Block /\ c.kind = k /\ c.bytes = n /\ queue' = Append(queue, c)
  BY DEF Block, Put
<1> HIDE DEF c
<1> QED
  BY <1>1, Appended, TotalsAppend

(* A block is put on the queue while nothing else moves that the caller    *)
(* or the answer depends on.                                               *)
LEMMA NetworkIInv ==
  ASSUME IInv, Network
  PROVE  IInv'
<1> USE DEF IInv
<1>1. /\ host = "ios" /\ caller # "start" /\ ~(caller = "done" /\ by = "none")
      /\ UNCHANGED <<host, syncStream, caller, trickle, buffer, signals, by, result>>
  <2>1. host = "ios" /\ caller # "start" /\ ~(caller = "done" /\ by = "none")
    BY DEF Network, DidReceiveResponse, DidReceiveData, ArmIdleTimer, DidComplete, TimerDue,
      Transferring, NotStarted, AndroidReads, TypeOK
  <2>2. UNCHANGED <<host, syncStream, caller, trickle, buffer, signals, by, result>>
    BY DEF Network, DidReceiveResponse, DidReceiveData, ArmIdleTimer, DidComplete, TimerDue,
      transfer
  <2> QED
    BY <2>1, <2>2
<1>2. queue \in Seq(Block) /\ sent \in Nat /\ 0 \in 0..MaxChunk
  BY BoundsAssumption DEF TypeOK
<1>3. AndroidReads' /\ IosWaits' /\ NotStarted'
  BY <1>1 DEF AndroidReads, IosWaits, NotStarted
<1>4. CASE UNCHANGED queue
  <2>1. DidReceiveResponse /\ UNCHANGED <<queue, arming, timer, sent>>
    <3>1. \A k, n : ~(Put(k, n) /\ UNCHANGED queue)
      <4>1. ASSUME NEW k, NEW n, Put(k, n), UNCHANGED queue
            PROVE  FALSE
        <5>1. Len(queue') = Len(queue) + 1 /\ Len(queue) \in Nat
          BY <1>2, <4>1 DEF Put
        <5> QED
          BY <4>1, <5>1
      <4> QED
        BY <4>1
    <3> QED
      BY <1>4, <3>1 DEF Network, DidReceiveResponse, DidReceiveData, ArmIdleTimer,
        DidComplete, TimerDue
  <2> USE <1>1, <2>1 DEF DidReceiveResponse
  <2>2. TypeOK'
    <3>1. \A b \in {syncStream', chunked', trickle', arming'} : b \in BOOLEAN
      BY DEF TypeOK
    <3> QED
      BY <3>1 DEF TypeOK
  <2>3. Blocks' /\ Accounts'
    BY DEF Blocks, Accounts
  <2>4. Progress' /\ CutOnlyWhenLongLived'
    BY DEF Progress, LongLived, CutOnlyWhenLongLived, Answered
  <2> QED
    BY <1>3, <2>2, <2>3, <2>4
<1>5. CASE DidReceiveData
  <2>1. PICK n \in 0..MaxChunk : sent + n <= MaxBytes /\ sent' = sent + n /\ Put("data", n)
    BY <1>5 DEF DidReceiveData
  <2>2. /\ net = "body" /\ arming' = LongLived /\ UNCHANGED <<net, chunked, timer>>
        /\ ~In(queue, "end") /\ by # "end" /\ n \in Nat /\ sent' \in 0..MaxBytes
    BY <1>2, <1>5, <2>1, BoundsAssumption DEF DidReceiveData, Blocks, Progress, TypeOK
  <2>3. /\ queue' \in Seq(Block) /\ queue' # <<>>
        /\ \A kind : In(queue', kind) <=> In(queue, kind) \/ kind = "data"
        /\ \A kind : Single(queue, kind) /\ kind # "data" => Single(queue', kind)
        /\ NoDataAfterEnd(queue')
        /\ OnlyDataCount(queue')
        /\ \A b, s : s \in Nat /\ Totals(queue, b, s) => Totals(queue', b, s + n)
    BY <1>2, <2>1, <2>2, PutBlock DEF Blocks
  <2> USE <1>1, <1>2, <2>1, <2>2, <2>3
  <2>4. TypeOK'
    <3>1. \A b \in {syncStream', chunked', trickle', arming'} : b \in BOOLEAN
      BY DEF TypeOK, LongLived
    <3>2. buffer' \in 0..sent'
      BY DEF TypeOK
    <3> QED
      BY <3>1, <3>2 DEF TypeOK
  <2>5. Blocks' /\ Accounts'
    BY DEF Blocks, Accounts
  <2>6. Progress' /\ CutOnlyWhenLongLived'
    BY DEF Progress, LongLived, CutOnlyWhenLongLived, Answered
  <2> QED
    BY <1>3, <2>4, <2>5, <2>6
<1>6. ASSUME ~DidReceiveData, ~UNCHANGED queue
      PROVE  IInv'
  <2>1. PICK k \in {"arm", "end", "error", "timer"} :
          /\ Put(k, 0) /\ UNCHANGED sent
          /\ k = "arm" => LongLived' /\ net' \notin {"none", "connecting"}
          /\ k = "end" => net = "body" /\ net' = "ended"
          /\ k = "timer" => timer = "armed" /\ timer' = "due"
          /\ k # "timer" => UNCHANGED timer
          /\ arming' = FALSE \/ (arming' = arming /\ UNCHANGED <<net, chunked>>)
          /\ net' \in {"body", "ended", "failed", net}
          /\ net = "connecting" \/ UNCHANGED chunked
          /\ chunked' \in BOOLEAN
          /\ net = "ended" => net' = "ended"
    <3> USE <1>1, <1>6 DEF transfer
    <3>1. CASE DidReceiveResponse
      BY <3>1 DEF DidReceiveResponse, Transferring, LongLived
    <3>2. CASE ArmIdleTimer
      <4>1. LongLived /\ net \notin {"none", "connecting"} /\ chunked \in BOOLEAN
        BY <3>2 DEF ArmIdleTimer, Progress, TypeOK
      <4>2. /\ Put("arm", 0) /\ arming' = FALSE
            /\ UNCHANGED <<syncStream, net, chunked, sent, timer>>
        BY <3>2 DEF ArmIdleTimer
      <4> HIDE DEF IInv
      <4> QED
        BY <4>1, <4>2 DEF LongLived
    <3>3. CASE DidComplete
      <4>1. chunked \in BOOLEAN
        BY DEF TypeOK
      <4> QED
        BY <3>3, <4>1 DEF DidComplete, Transferring
    <3>4. CASE TimerDue
      <4>1. chunked \in BOOLEAN
        BY DEF TypeOK
      <4> QED
        BY <3>4, <4>1 DEF TimerDue
    <3> QED
      BY <3>1, <3>2, <3>3, <3>4 DEF Network
  <2>2. /\ queue' \in Seq(Block) /\ queue' # <<>>
        /\ \A kind : In(queue', kind) <=> In(queue, kind) \/ kind = k
        /\ \A kind : Single(queue, kind) /\ (k # kind \/ ~In(queue, kind)) =>
             Single(queue', kind)
        /\ NoDataAfterEnd(queue) => NoDataAfterEnd(queue')
        /\ OnlyDataCount(queue) => OnlyDataCount(queue')
        /\ \A b, s : s \in Nat /\ Totals(queue, b, s) => Totals(queue', b, s + 0)
    BY <1>2, <2>1, PutBlock
  <2>3. timer = "armed" => ~In(queue, "timer")
    BY DEF Blocks
  <2>4. sent + 0 = sent
    BY <1>2
  <2> USE <1>1, <1>2, <2>1, <2>2, <2>3, <2>4
  <2>5. TypeOK'
    <3>1. \A b \in {syncStream', chunked', trickle', arming'} : b \in BOOLEAN
      BY DEF TypeOK
    <3> QED
      BY <3>1 DEF TypeOK
  <2>6. Blocks'
    BY DEF Blocks
  <2>7. Accounts'
    BY DEF Accounts
  <2>8. Progress'
    BY DEF Progress, LongLived
  <2>9. CutOnlyWhenLongLived'
    BY DEF Progress, LongLived, CutOnlyWhenLongLived, Answered
  <2> QED
    BY <1>3, <2>5, <2>6, <2>7, <2>8, <2>9
<1> QED
  BY <1>4, <1>5, <1>6

(* The caller puts its own blocks on the queue.                            *)
LEMMA IosCallerIInv ==
  ASSUME IInv, Woken \/ ExpiredSync
  PROVE  IInv'
<1> USE DEF IInv
<1>1. PICK k \in {"collect", "deadline"} :
        /\ Put(k, 0)
        /\ k = "collect" => /\ caller \in {"wait", "again"} /\ caller' = "collect"
                            /\ signals = 1 /\ signals' = 0
        /\ k = "deadline" => /\ caller = "expired" /\ caller' = "sync"
                             /\ UNCHANGED signals
        /\ UNCHANGED <<host, syncStream, net, chunked, sent, trickle, buffer, arming,
                       timer, by, result>>
  BY DEF Woken, ExpiredSync, CallerSteps, transfer
<1>2. queue \in Seq(Block) /\ sent \in Nat /\ 0 \in 0..MaxChunk /\ sent + 0 = sent
  BY BoundsAssumption DEF TypeOK
<1>3. host = "ios" /\ (k = "collect" => by # "none")
  BY <1>1 DEF IosWaits, AndroidReads, TypeOK
<1>4. /\ queue' \in Seq(Block)
      /\ \A kind : In(queue', kind) <=> In(queue, kind) \/ kind = k
      /\ \A kind : Single(queue, kind) /\ (k # kind \/ ~In(queue, kind)) =>
           Single(queue', kind)
      /\ NoDataAfterEnd(queue) => NoDataAfterEnd(queue')
      /\ OnlyDataCount(queue) => OnlyDataCount(queue')
      /\ \A b, s : s \in Nat /\ Totals(queue, b, s) => Totals(queue', b, s + 0)
  BY <1>1, <1>2, PutBlock
<1> USE <1>1, <1>2, <1>3, <1>4
<1>5. TypeOK'
  BY DEF TypeOK
<1>6. AndroidReads' /\ IosWaits' /\ NotStarted'
  BY DEF AndroidReads, IosWaits, NotStarted
<1>7. Blocks'
  BY DEF Blocks
<1>8. Progress' /\ Accounts'
  BY DEF Progress, Accounts, LongLived
<1>9. CutOnlyWhenLongLived'
  BY DEF NotStarted, CutOnlyWhenLongLived, Answered
<1> QED
  BY <1>5, <1>6, <1>7, <1>8, <1>9

(* The blocks of the queue: the first that finishes the collection signals *)
(* the caller; the last one answers.                                       *)
LEMMA RunBlockIInv ==
  ASSUME IInv, RunBlock
  PROVE  IInv'
<1> USE DEF IInv
<1> DEFINE k == Head(queue).kind
           n == Head(queue).bytes
<1>1. /\ queue # <<>> /\ queue \in Seq(Block) /\ sent \in Nat
      /\ host = "ios" /\ caller # "start" /\ ~(caller = "done" /\ by = "none")
      /\ UNCHANGED <<host, syncStream, net, chunked, sent, trickle, arming>>
  BY BoundsAssumption DEF RunBlock, transfer, NotStarted, AndroidReads, TypeOK
<1>2. queue' = Tail(queue) \/ queue' = WithoutTimer(Tail(queue))
  BY DEF RunBlock, RunData, RunArm, RunFinish, FinishLocked, RunCollect
<1>3. /\ queue' \in Seq(Block) /\ In(queue, k)
      /\ \A x : In(queue', x) => In(queue, x)
      /\ \A x : Single(queue, x) => Single(queue', x)
      /\ Single(queue, k) => ~In(queue', k)
      /\ NoDataAfterEnd(queue) => NoDataAfterEnd(queue')
      /\ NoDataAfterEnd(queue) /\ k = "end" => ~In(queue', "data")
      /\ OnlyDataCount(queue) => OnlyDataCount(queue') /\ (k # "data" => n = 0)
      /\ Single(queue, "timer") /\ queue' = WithoutTimer(Tail(queue)) =>
           ~In(queue', "timer")
  BY <1>1, <1>2, Popped
<1>4. /\ NoDataAfterEnd(queue) /\ OnlyDataCount(queue)
      /\ by = "none" => Totals(queue', buffer + n, sent)
  BY <1>1, <1>2, Popped DEF Blocks, Accounts
<1>5. buffer \in Nat /\ buffer \in 0..sent /\ buffer + 0 = buffer
  BY <1>1 DEF TypeOK
<1> HIDE DEF k, n
<1> USE <1>1, <1>3, <1>4, <1>5
<1>6. AndroidReads'
  BY DEF AndroidReads
<1>7. CASE k \in {"data", "arm"}
  <2>1. /\ UNCHANGED <<caller, signals, by, result>>
        /\ \/ k = "data" /\ timer' = timer
              /\ buffer' = IF by = "none" THEN buffer + n ELSE buffer
           \/ k = "arm" /\ buffer' = buffer
              /\ \/ by = "none" /\ timer' = "armed" /\ queue' = WithoutTimer(Tail(queue))
                 \/ by # "none" /\ timer' = timer
    BY <1>7 DEF RunBlock, RunData, RunArm, Next1, k, n
  <2>2. buffer' \in 0..sent
    BY <1>7, <2>1, TotalsBound
  <2>3. TypeOK'
    BY <2>1, <2>2 DEF TypeOK
  <2>4. IosWaits' /\ NotStarted'
    BY <2>1 DEF IosWaits, NotStarted
  <2>5. Blocks'
    BY <2>1 DEF Blocks
  <2>6. Progress'
    BY <2>1 DEF Progress, LongLived
  <2>7. Accounts'
    BY <1>7, <2>1 DEF Accounts
  <2>8. CutOnlyWhenLongLived'
    BY <2>1 DEF CutOnlyWhenLongLived, Answered, LongLived, NotStarted
  <2> QED
    BY <1>6, <2>3, <2>4, <2>5, <2>6, <2>7, <2>8
<1>8. CASE k \in {"timer", "end", "error", "deadline"}
  <2>1. /\ buffer' = buffer /\ result' = result
        /\ caller' = IF k = "deadline" THEN "again" ELSE caller
        /\ \/ by # "none" /\ UNCHANGED <<by, timer, signals>>
           \/ /\ by = "none" /\ by' = k /\ timer' = "off" /\ signals' = signals + 1
              /\ queue' = WithoutTimer(Tail(queue))
    BY <1>8 DEF RunBlock, RunFinish, FinishLocked, Next1, k
  <2>2. k = "deadline" => caller = "sync"
    BY DEF Blocks
  <2>3. CASE by # "none"
    <3>1. TypeOK'
      BY <1>8, <2>1, <2>2, <2>3 DEF TypeOK
    <3>2. IosWaits' /\ NotStarted'
      BY <2>1, <2>2, <2>3 DEF IosWaits, NotStarted
    <3>3. Blocks'
      BY <2>1, <2>2, <2>3 DEF Blocks
    <3>4. Progress' /\ Accounts'
      BY <2>1, <2>3 DEF Progress, LongLived, Accounts
    <3>5. CutOnlyWhenLongLived'
      BY <2>1, <2>2, <2>3 DEF CutOnlyWhenLongLived, Answered, LongLived, NotStarted
    <3> QED
      BY <1>6, <3>1, <3>2, <3>3, <3>4, <3>5
  <2>4. CASE by = "none"
    <3>1. /\ by' = k /\ timer' = "off" /\ signals = 0 /\ signals' = 1
          /\ caller \in {"wait", "expired", "sync"} /\ ~In(queue', "timer")
      BY <2>1, <2>4 DEF IosWaits, Blocks, TypeOK
    <3>2. TypeOK'
      BY <1>8, <2>1, <3>1 DEF TypeOK
    <3>3. IosWaits' /\ NotStarted'
      BY <1>8, <2>1, <2>2, <3>1 DEF IosWaits, NotStarted
    <3>4. Blocks'
      BY <2>1, <2>2, <3>1 DEF Blocks
    <3>5. k = "end" => net = "ended" /\ buffer = sent
      <4>1. k = "end" => Totals(queue', buffer, sent) /\ ~In(queue', "data")
        BY <2>4
      <4> QED
        BY <4>1, TotalsBound DEF Blocks
    <3>6. k = "timer" => LongLived /\ net \notin {"none", "connecting"}
      BY DEF Blocks, Progress
    <3>7. Progress' /\ Accounts'
      BY <1>8, <2>1, <3>1, <3>5, <3>6 DEF Progress, LongLived, Accounts
    <3>8. CutOnlyWhenLongLived'
      BY <2>1, <3>1 DEF CutOnlyWhenLongLived, Answered, NotStarted
    <3> QED
      BY <1>6, <3>2, <3>3, <3>4, <3>7, <3>8
  <2> QED
    BY <2>3, <2>4
<1>9. CASE k = "collect"
  <2> DEFINE answer == Body(net # "connecting", buffer)
  <2>1. /\ caller = "collect" /\ by # "none"
        /\ caller' = "done" /\ UNCHANGED <<buffer, timer, signals, by>>
        /\ result' = IF by \in {"error", "deadline"} /\ buffer = 0 THEN Failed ELSE answer
    BY <1>9 DEF RunBlock, RunCollect, Next1, k, Blocks, IosWaits
  <2>2. /\ answer \in Envelope /\ answer.status = (net # "connecting")
        /\ answer.body = buffer
    <3>1. syncStream \in BOOLEAN /\ (net # "connecting") \in BOOLEAN
      BY DEF TypeOK
    <3>2. buffer \in 0..MaxBytes
      BY BoundsAssumption DEF TypeOK
    <3> QED
      BY <3>1, <3>2 DEF Body, Envelope
  <2> HIDE DEF answer
  <2>3. TypeOK'
    BY <2>1, <2>2 DEF TypeOK
  <2>4. IosWaits' /\ NotStarted' /\ Accounts'
    BY <2>1 DEF IosWaits, NotStarted, Accounts
  <2>5. Blocks'
    BY <1>9, <2>1 DEF Blocks
  <2>6. Progress'
    BY <2>1 DEF Progress, LongLived
  <2>7. CutOnlyWhenLongLived'
    <3>1. \/ by = "end" /\ net = "ended" /\ buffer = sent
          \/ by = "timer" /\ LongLived /\ net \notin {"none", "connecting"}
          \/ by \in {"error", "deadline"} /\ (buffer > 0 => net \notin {"none", "connecting"})
      BY <2>1 DEF Progress, TypeOK
    <3>2. CASE result' = Failed
      BY <3>2 DEF CutOnlyWhenLongLived
    <3>3. CASE result' # Failed
      <4>1. result' = answer /\ (by \in {"error", "deadline"} => buffer > 0)
        BY <2>1, <3>3
      <4>2. /\ result'.status = (net # "connecting") /\ result'.body = buffer
            /\ net # "connecting"
        BY <2>2, <3>1, <4>1
      <4> QED
        BY <2>1, <3>1, <4>1, <4>2 DEF CutOnlyWhenLongLived, LongLived
    <3> QED
      BY <3>2, <3>3
  <2> QED
    BY <1>6, <2>3, <2>4, <2>5, <2>6, <2>7
<1> QED
  BY <1>7, <1>8, <1>9 DEF RunBlock, Next1, k

LEMMA NextIInv ==
  ASSUME IInv, [Next]_vars
  PROVE  IInv'
<1>1. CASE UNCHANGED vars
  BY <1>1 DEF vars, transfer, session, IInv, TypeOK, AndroidReads, IosWaits, NotStarted,
    Blocks, Progress, Accounts, CutOnlyWhenLongLived, LongLived, Answered
<1>2. CASE Next
  BY <1>2, CallerIInv, AndroidIInv, NetworkIInv, RunBlockIInv, IosCallerIInv
    DEF Next, IosCaller
<1> QED
  BY <1>1, <1>2

(* The invariant holds in every reachable state, for all bounds.           *)
THEOREM Inductive == Spec => []IInv
<1>1. Init => IInv
  BY InitIInv
<1>2. IInv /\ [Next]_vars => IInv'
  BY NextIInv
<1> QED
  BY <1>1, <1>2, PTL DEF Spec

-----------------------------------------------------------------------------
(* Whatever data, ends, timers and deadlines race for the request, an      *)
(* answer is whole or has a reason to be short, and never comes before the *)
(* response (readUntilIdleOrEof, waitForResult).                           *)
THEOREM NeverCutWithoutReason == Spec => []AnswerInvariant
<1>1. IInv => AnswerInvariant
  BY DEF IInv, AnswerInvariant
<1> QED
  BY <1>1, Inductive, PTL

(* The first to finish settles the body: later blocks, of data, of the     *)
(* timer or of the deadline, change neither it nor who finished it         *)
(* (finishLockedWithError).                                                *)
THEOREM FirstSettles == Spec => FirstFinishSettles
<1>1. IInv /\ [Next]_vars => [by # "none" => by' = by /\ buffer' = buffer]_vars
  <2> SUFFICES ASSUME IInv, Next, by # "none"
               PROVE  by' = by /\ buffer' = buffer
    OBVIOUS
  <2>1. CASE BadRequest \/ Start \/ IosCaller
    BY <2>1 DEF BadRequest, Start, IosCaller, Woken, Deadline, ExpiredSync, CallerSteps
  <2>2. CASE AndroidConnect \/ AndroidRead
    <3>1. host = "android" /\ caller \in {"connect", "read"}
      BY <2>2 DEF AndroidConnect, AndroidRead, ConnectThrows, GetResponse, NoBody, ReadBytes,
        ReadQuiet, ReadThrows, ReadEof, IInv, IosWaits, TypeOK
    <3> QED
      BY <3>1 DEF IInv, AndroidReads
  <2>3. CASE Network
    BY <2>3 DEF Network, DidReceiveResponse, DidReceiveData, ArmIdleTimer, DidComplete, TimerDue
  <2>4. CASE RunBlock
    BY <2>4 DEF RunBlock, RunData, RunArm, RunFinish, FinishLocked, RunCollect
  <2> QED
    BY <2>1, <2>2, <2>3, <2>4 DEF Next
<1> QED
  BY <1>1, Inductive, PTL DEF Spec, FirstFinishSettles
=============================================================================
