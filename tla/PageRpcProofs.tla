---------------------------- MODULE PageRpcProofs ----------------------------
(***************************************************************************)
(* Theorems about PageRpc, for any number of clients, connections and      *)
(* calls.  Also when the file has two adapters no statement runs in another*)
(* connection's transaction, and no dead connection holds the lock of an   *)
(* adapter.  As long as no two open calls wait together, as with two       *)
(* clients they never do, the file has one adapter, the users are counted  *)
(* exactly, and no update and no call is forgotten.                        *)
(***************************************************************************)
EXTENDS PageRpc, FiniteSetTheorems, SequenceTheorems, TLAPS

-----------------------------------------------------------------------------
(* Where a call may be: one that opens belongs to no connection, the others*)
(* to their client's, and every entry they speak of exists.                *)
OpenPlaces == {"idle", "waiting", "opening", "opened"}

Place(k) ==
  /\ calls[k].conn = 0 =>
       /\ calls[k].op \in {"idle", "open"} /\ calls[k].at \in OpenPlaces
       /\ calls[k].at = "idle" \/ calls[k].client \in Clients
  /\ calls[k].conn # 0 =>
       /\ calls[k].client = conns[calls[k].conn].owner
       /\ calls[k].op \notin {"idle", "open"} /\ calls[k].at \notin OpenPlaces
  /\ calls[k].at \in {"waiting", "opening", "lock", "stmt", "rolling", "closing"} =>
       calls[k].entry # 0
  /\ calls[k].op \in {"begin", "end", "write", "get"} => calls[k].entry # 0

Places == \A k \in Calls : Place(k)

(* The queue of a connection holds its calls, each once; BEGIN and get are *)
(* alone in it and an end is its last.                                     *)
Line(c) ==
  LET q == conns[c].queue IN
  /\ \A i \in DOMAIN q :
       /\ calls[q[i]].conn = c
       /\ calls[q[i]].op = "end" => i = Len(q)
       /\ calls[q[i]].op \in {"begin", "get"} => Len(q) = 1
  /\ \A i, j \in DOMAIN q : q[i] = q[j] => i = j

(* A call whose turn it is is the first of the queue.                      *)
First(k) == conns[calls[k].conn].queue # <<>> /\ Head(conns[calls[k].conn].queue) = k

InLine(k) ==
  calls[k].conn # 0 =>
    /\ \E i \in DOMAIN conns[calls[k].conn].queue : conns[calls[k].conn].queue[i] = k
    /\ calls[k].at # "queued" => First(k)

Turns == \A i \in DOMAIN ready : calls[ready[i]].at = "queued" => First(ready[i])

Lines ==
  /\ \A c \in DOMAIN conns : Line(c)
  /\ \A k \in Calls : InLine(k)
  /\ Turns

(* A call in the waiters of an entry sleeps.                               *)
Waits ==
  \A e \in DOMAIN entries : \A i \in DOMAIN entries[e].waiters :
    LET k == entries[e].waiters[i] IN
    /\ calls[k].at = "waiting" /\ calls[k].entry = e
    /\ \A j \in DOMAIN ready : ready[j] # k

(* What a call was sent as still holds when it runs.                       *)
Discipline(k) ==
  calls[k].conn # 0 =>
    LET conn == conns[calls[k].conn] IN
    /\ calls[k].op = "close" => calls[k].client \in closing
    /\ calls[k].op # "close" => calls[k].client \notin closing /\ conn.live
    /\ calls[k].op = "write" => conn.mode # "failed" /\ (calls[k].inTx <=> conn.mode = "tx")
    /\ calls[k].op \in {"begin", "get"} => conn.mode = "auto" /\ ~calls[k].inTx
    /\ calls[k].op = "end" => conn.mode # "auto"

(* What the call that has its turn holds.                                  *)
Holds(k) ==
  calls[k].conn # 0 =>
    LET conn == conns[calls[k].conn] IN
    /\ calls[k].at \in {"lock", "rolling", "drop", "closing"} => conn.lease = 0
    /\ calls[k].at \in {"rolling", "drop", "closing"} => conn.live
    /\ calls[k].at \in {"drop", "closing"} => calls[k].op = "close"
    /\ calls[k].at = "rolling" => calls[k].op \in {"close", "begin"}
    /\ calls[k].at \in {"lock", "stmt"} => calls[k].op # "close"
    /\ calls[k].at \in {"stmt", "rolling"} => adapters[calls[k].entry].holder = calls[k].conn
    /\ calls[k].at = "stmt" =>
         /\ conn.lease \in {0, calls[k].entry}
         /\ conn.lease = 0 => adapters[calls[k].entry].tx = 0 /\ calls[k].op # "begin"
         /\ calls[k].op = "begin" => adapters[calls[k].entry].tx = 0

(* A lease is the lock of its adapter, and of its transaction once BEGIN is *)
(* answered.                                                               *)
Lease(c) ==
  /\ conns[c].lease # 0 =>
       /\ conns[c].lease \in DOMAIN adapters
       /\ adapters[conns[c].lease].holder = c /\ conns[c].live
       /\ conns[c].mode = "tx" => adapters[conns[c].lease].tx = c
       /\ conns[c].mode # "tx" =>
            \E k \in Calls : calls[k].conn = c /\ calls[k].at = "stmt" /\ calls[k].op = "begin"
  /\ conns[c].lease = 0 /\ conns[c].mode = "tx" /\ conns[c].live => conns[c].owner \in closing

(* Whoever has an adapter's lock has it as a lease or for one call.        *)
Holder(e) ==
  LET c == adapters[e].holder IN
  c # 0 =>
    /\ c \in DOMAIN conns
    /\ \/ conns[c].lease = e
       \/ \E k \in Calls : /\ calls[k].conn = c /\ calls[k].entry = e
                           /\ calls[k].at \in {"stmt", "rolling"}

Locks ==
  /\ \A k \in Calls : Discipline(k) /\ Holds(k)
  /\ \A c \in DOMAIN conns : Lease(c)
  /\ \A e \in DOMAIN adapters : Holder(e)

IInv == TypeOK /\ Places /\ Lines /\ Waits /\ Locks

-----------------------------------------------------------------------------
(* What a step leaves of a call: what it was sent as, or all but ok.       *)
Kept(j) ==
  /\ calls'[j].op = calls[j].op /\ calls'[j].client = calls[j].client
  /\ calls'[j].conn = calls[j].conn /\ calls'[j].inTx = calls[j].inTx

Same(j) == Kept(j) /\ calls'[j].at = calls[j].at /\ calls'[j].entry = calls[j].entry

LEMMA CallUpdated ==
  ASSUME calls \in [Calls -> Call], NEW k \in Calls, NEW d \in Call,
         calls' = [calls EXCEPT ![k] = d]
  PROVE  /\ calls' \in [Calls -> Call] /\ calls'[k] = d
         /\ \A j \in Calls : j # k => calls'[j] = calls[j] /\ Same(j)
BY DEF Same, Kept

LEMMA IdleCall ==
  /\ Idle \in Call /\ Idle.op = "idle" /\ Idle.at = "idle" /\ Idle.conn = 0
  /\ Idle.entry = 0 /\ Idle.client = "none" /\ Idle.inTx = FALSE
BY DEF Idle, Call

LEMMA Moved ==
  ASSUME calls \in [Calls -> Call], NEW k \in Calls,
         NEW at \in {"queued", "rolling", "drop", "closing", "lock", "stmt", "opened"},
         MoveTo(k, at)
  PROVE  /\ calls' \in [Calls -> Call]
         /\ Kept(k) /\ calls'[k].entry = calls[k].entry /\ calls'[k].at = at
         /\ \A j \in Calls : j # k => calls'[j] = calls[j] /\ Same(j)
<1> DEFINE d == [calls[k] EXCEPT !.at = at]
<1>1. calls[k] \in Call
  OBVIOUS
<1>2. /\ d \in Call /\ d.at = at /\ d.op = calls[k].op /\ d.client = calls[k].client
      /\ d.conn = calls[k].conn /\ d.inTx = calls[k].inTx /\ d.entry = calls[k].entry
  BY <1>1 DEF Call
<1>3. calls' = [calls EXCEPT ![k] = d]
  BY DEF MoveTo
<1> HIDE DEF d
<1> QED
  BY <1>2, <1>3, CallUpdated DEF Kept

(* A step that also notes the entry whose adapter the call will use.       *)
LEMMA MovedOn ==
  ASSUME calls \in [Calls -> Call], NEW k \in Calls, NEW e \in Nat,
         NEW at \in {"rolling", "closing", "stmt"},
         calls' = [calls EXCEPT ![k].at = at, ![k].entry = e]
  PROVE  /\ calls' \in [Calls -> Call]
         /\ Kept(k) /\ calls'[k].entry = e /\ calls'[k].at = at
         /\ \A j \in Calls : j # k => calls'[j] = calls[j] /\ Same(j)
<1> DEFINE d == [calls[k] EXCEPT !.at = at, !.entry = e]
<1>1. calls[k] \in Call
  OBVIOUS
<1>2. /\ d \in Call /\ d.at = at /\ d.op = calls[k].op /\ d.client = calls[k].client
      /\ d.conn = calls[k].conn /\ d.inTx = calls[k].inTx /\ d.entry = e
  BY <1>1 DEF Call
<1>3. calls' = [calls EXCEPT ![k] = d]
  OBVIOUS
<1> HIDE DEF d
<1> QED
  BY <1>2, <1>3, CallUpdated DEF Kept

LEMMA Answered ==
  ASSUME calls \in [Calls -> Call], NEW k \in Calls, Answer(k)
  PROVE  /\ calls' \in [Calls -> Call] /\ calls'[k] = Idle
         /\ \A j \in Calls : j # k => calls'[j] = calls[j] /\ Same(j)
BY IdleCall, CallUpdated DEF Answer

LEMMA ConnUpdated ==
  ASSUME conns \in Seq(Conn), NEW c \in DOMAIN conns, NEW d \in Conn,
         conns' = [conns EXCEPT ![c] = d]
  PROVE  /\ conns' \in Seq(Conn) /\ DOMAIN conns' = DOMAIN conns
         /\ Len(conns') = Len(conns) /\ conns'[c] = d
         /\ \A x \in DOMAIN conns : x # c => conns'[x] = conns[x]
OBVIOUS

LEMMA AdapterUpdated ==
  ASSUME adapters \in Seq(Adapter), NEW e \in DOMAIN adapters, NEW a \in Adapter,
         adapters' = [adapters EXCEPT ![e] = a]
  PROVE  /\ adapters' \in Seq(Adapter) /\ DOMAIN adapters' = DOMAIN adapters
         /\ Len(adapters') = Len(adapters) /\ adapters'[e] = a
         /\ \A x \in DOMAIN adapters : x # e => adapters'[x] = adapters[x]
OBVIOUS

LEMMA EntryUpdated ==
  ASSUME entries \in Seq(Entry), NEW e \in DOMAIN entries, NEW n \in Entry,
         entries' = [entries EXCEPT ![e] = n]
  PROVE  /\ entries' \in Seq(Entry) /\ DOMAIN entries' = DOMAIN entries
         /\ Len(entries') = Len(entries) /\ entries'[e] = n
         /\ \A x \in DOMAIN entries : x # e => entries'[x] = entries[x]
OBVIOUS

LEMMA WithQueue ==
  ASSUME NEW conn \in Conn, NEW q \in Seq(Calls)
  PROVE  LET d == [conn EXCEPT !.queue = q] IN
         /\ d \in Conn /\ d.queue = q /\ d.owner = conn.owner /\ d.live = conn.live
         /\ d.lease = conn.lease /\ d.mode = conn.mode
BY DEF Conn

LEMMA FinishStep ==
  ASSUME TypeOK, NEW k \in Calls, NEW c \in DOMAIN conns, NEW conn \in Conn,
         conn.queue # <<>>, Finish(k, c, conn)
  PROVE  /\ calls' \in [Calls -> Call] /\ calls'[k] = Idle
         /\ \A j \in Calls : j # k => calls'[j] = calls[j] /\ Same(j)
         /\ conns' \in Seq(Conn) /\ DOMAIN conns' = DOMAIN conns /\ Len(conns') = Len(conns)
         /\ conns'[c].queue = Tail(conn.queue)
         /\ conns'[c].owner = conn.owner /\ conns'[c].live = conn.live
         /\ conns'[c].lease = conn.lease /\ conns'[c].mode = conn.mode
         /\ \A x \in DOMAIN conns : x # c => conns'[x] = conns[x]
<1>1. conn.queue \in Seq(Calls)
  BY DEF Conn
<1>2. Tail(conn.queue) \in Seq(Calls)
  BY <1>1
<1> DEFINE d == [conn EXCEPT !.queue = Tail(conn.queue)]
<1>3. /\ d \in Conn /\ d.queue = Tail(conn.queue) /\ d.owner = conn.owner
      /\ d.live = conn.live /\ d.lease = conn.lease /\ d.mode = conn.mode
  BY <1>2, WithQueue
<1>4. conns' = [conns EXCEPT ![c] = d]
  BY DEF Finish
<1> HIDE DEF d
<1> QED
  BY <1>3, <1>4, ConnUpdated, Answered DEF Finish, TypeOK

(* The type of what a connection and a call hold.                          *)
LEMMA ConnTypes ==
  ASSUME TypeOK
  PROVE  /\ \A c \in DOMAIN conns : /\ conns[c] \in Conn /\ conns[c].queue \in Seq(Calls)
                                    /\ conns[c].owner \in Clients /\ conns[c].lease \in Nat
                                    /\ c \in Nat /\ c # 0
         /\ \A c \in DOMAIN conns : \A i \in DOMAIN conns[c].queue : conns[c].queue[i] \in Calls
         /\ \A i \in DOMAIN ready : ready[i] \in Calls
<1>1. \A c \in 1..Len(conns) : conns[c] \in Conn
  BY DEF TypeOK
<1>2. DOMAIN conns = 1..Len(conns) /\ Len(conns) \in Nat
  BY DEF TypeOK
<1>3. \A c \in DOMAIN conns : /\ conns[c] \in Conn /\ conns[c].queue \in Seq(Calls)
                              /\ conns[c].owner \in Clients /\ conns[c].lease \in Nat
                              /\ c \in Nat /\ c # 0
  BY <1>1, <1>2 DEF Conn
<1>4. \A i \in DOMAIN ready : ready[i] \in Calls
  BY DEF TypeOK
<1>5. \A q \in Seq(Calls) : \A i \in DOMAIN q : q[i] \in Calls
  OBVIOUS
<1> QED
  BY <1>3, <1>4, <1>5

LEMMA EntryTypes ==
  ASSUME TypeOK
  PROVE  /\ \A e \in DOMAIN entries : entries[e] \in Entry /\ entries[e].waiters \in Seq(Calls)
         /\ \A e \in DOMAIN adapters : adapters[e] \in Adapter
         /\ DOMAIN entries = DOMAIN adapters /\ DOMAIN entries = 1..Len(entries)
         /\ Len(entries) \in Nat /\ file \in Nat
         /\ file # 0 => file \in DOMAIN entries
<1>1. /\ \A e \in 1..Len(entries) : entries[e] \in Entry
      /\ \A e \in 1..Len(adapters) : adapters[e] \in Adapter
  BY DEF TypeOK
<1>2. /\ DOMAIN entries = 1..Len(entries) /\ DOMAIN adapters = 1..Len(adapters)
      /\ Len(entries) \in Nat /\ Len(adapters) = Len(entries) /\ file \in 0..Len(entries)
  BY DEF TypeOK
<1> QED
  BY <1>1, <1>2 DEF Entry

LEMMA Known ==
  ASSUME TypeOK, Places, NEW k \in Calls, calls[k].conn # 0
  PROVE  LET c == calls[k].conn IN
         /\ c \in DOMAIN conns /\ conns[c] \in Conn /\ conns[c].queue \in Seq(Calls)
         /\ conns[c].lease \in Nat /\ c \in Nat
         /\ conns[c].mode \in {"auto", "tx", "failed"} /\ conns[c].live \in BOOLEAN
         /\ calls[k].client = conns[c].owner /\ calls[k].client \in Clients
         /\ calls[k].op \in {"close", "begin", "end", "write", "get"}
         /\ calls[k].at \in {"queued", "rolling", "drop", "closing", "lock", "stmt"}
         /\ calls[k].at \notin {"queued", "drop"} => calls[k].entry \in DOMAIN entries
         /\ calls[k].op # "close" => calls[k].entry \in DOMAIN entries
         /\ DOMAIN entries = DOMAIN adapters
<1> DEFINE c == calls[k].conn
<1>1. c \in 1..Len(conns) /\ DOMAIN conns = 1..Len(conns) /\ conns[c] \in Conn
  BY DEF TypeOK, Call
<1>2. calls[k] \in Call /\ calls[k].entry \in 0..Len(entries)
  BY DEF TypeOK
<1>3. DOMAIN entries = 1..Len(entries) /\ DOMAIN adapters = 1..Len(entries)
  BY DEF TypeOK
<1> QED
  BY <1>1, <1>2, <1>3 DEF Places, Place, OpenPlaces, Conn, Call

-----------------------------------------------------------------------------
(* The queues: a call of a connection moves on.                            *)
LEMMA LinesMove ==
  ASSUME TypeOK, Places, Lines, NEW k \in Calls, calls[k].conn # 0, First(k),
         DOMAIN conns' = DOMAIN conns,
         \A c \in DOMAIN conns : conns'[c].queue = conns[c].queue,
         Kept(k), \A j \in Calls : j # k => Same(j),
         \A i \in DOMAIN ready' :
           \/ ready'[i] = k \/ calls'[ready'[i]].at # "queued"
           \/ \E m \in DOMAIN ready : ready'[i] = ready[m],
         ready' \in Seq(Calls)
  PROVE  Lines'
<1>1. /\ \A c \in DOMAIN conns : conns[c].queue \in Seq(Calls)
      /\ \A c \in DOMAIN conns : \A i \in DOMAIN conns[c].queue : conns[c].queue[i] \in Calls
      /\ \A j \in Calls : calls[j].conn # 0 => calls[j].conn \in DOMAIN conns
      /\ \A j \in Calls : Kept(j)
      /\ \A i \in DOMAIN ready : ready[i] \in Calls
      /\ \A i \in DOMAIN ready' : ready'[i] \in Calls
      /\ \A j \in Calls : calls[j].at = "queued" => calls[j].conn # 0
  <2>1. \A j \in Calls : calls[j].conn # 0 => calls[j].conn \in DOMAIN conns
    BY Known
  <2>2. \A i \in DOMAIN ready' : ready'[i] \in Calls
    OBVIOUS
  <2>3. \A j \in Calls : calls[j].at = "queued" => calls[j].conn # 0
    BY DEF Places, Place, OpenPlaces
  <2> QED
    BY <2>1, <2>2, <2>3, ConnTypes DEF Same
<1>2. ASSUME NEW c \in DOMAIN conns
      PROVE  Line(c)'
  BY <1>1, <1>2 DEF Lines, Line, Kept
<1>3. \A j \in Calls : calls[j].conn # 0 /\ First(j) => First(j)'
  BY <1>1 DEF First, Kept
<1>4. ASSUME NEW j \in Calls
      PROVE  InLine(j)'
  BY <1>1, <1>3, <1>4 DEF Lines, InLine, Kept, Same
<1>5. Turns'
  <2> SUFFICES ASSUME NEW i \in DOMAIN ready', NEW x \in Calls, x = ready'[i],
                      calls'[x].at = "queued"
               PROVE  First(x)'
    BY <1>1 DEF Turns, First
  <2>1. CASE x = k
    BY <1>3, <2>1
  <2>2. CASE x # k
    <3>1. PICK m \in DOMAIN ready : x = ready[m]
      BY <2>2
    <3>2. calls[x].at = "queued" /\ First(x)
      BY <2>2, <3>1 DEF Same, Lines, Turns
    <3> QED
      BY <1>1, <1>3, <3>2
  <2> QED
    BY <2>1, <2>2
<1> QED
  BY <1>2, <1>4, <1>5 DEF Lines

(* The first of a queue is answered.                                       *)
LEMMA LinesFinish ==
  ASSUME TypeOK, Places, Lines, NEW k \in Calls, calls[k].conn # 0, First(k),
         NEW c, c = calls[k].conn,
         DOMAIN conns' = DOMAIN conns,
         conns'[c].queue = Tail(conns[c].queue),
         \A d \in DOMAIN conns : d # c => conns'[d] = conns[d],
         calls'[k] = Idle, \A j \in Calls : j # k => Same(j),
         \/ ready # <<>> /\ ready' = Tail(ready) \o NextUp(c)
         \/ ready' = NextUp(c)
  PROVE  Lines' /\ ready' \in Seq(Calls)
           /\ \A i \in DOMAIN ready' :
                \/ \E m \in DOMAIN ready : ready'[i] = ready[m]
                \/ calls[ready'[i]].conn = c
<1> DEFINE q == conns[c].queue
<1>1. /\ c \in DOMAIN conns /\ q \in Seq(Calls) /\ q # <<>> /\ Head(q) = k
      /\ \A d \in DOMAIN conns : \A i \in DOMAIN conns[d].queue : conns[d].queue[i] \in Calls
      /\ \A j \in Calls : calls[j].conn # 0 => calls[j].conn \in DOMAIN conns
      /\ \A i \in DOMAIN ready : ready[i] \in Calls
      /\ \A j \in Calls : calls[j].at = "queued" => calls[j].conn # 0
  <2>1. \A j \in Calls : calls[j].conn # 0 => calls[j].conn \in DOMAIN conns
    BY Known
  <2>2. \A j \in Calls : calls[j].at = "queued" => calls[j].conn # 0
    BY DEF Places, Place, OpenPlaces
  <2> QED
    BY <2>1, <2>2, ConnTypes DEF First
<1> DEFINE r == Tail(q)
<1>2. /\ Len(q) \in Nat /\ DOMAIN q = 1..Len(q) /\ DOMAIN r = 1..(Len(q) - 1)
      /\ Len(r) = Len(q) - 1 /\ q[1] = k /\ r \in Seq(Calls)
      /\ \A i \in DOMAIN r : i + 1 \in DOMAIN q /\ r[i] = q[i + 1] /\ i + 1 # 1
      /\ \A i \in DOMAIN q : i # 1 => i - 1 \in DOMAIN r /\ r[i - 1] = q[i]
      /\ \A i \in DOMAIN r : i = Len(r) <=> i + 1 = Len(q)
      /\ \A i, j \in DOMAIN r : i + 1 = j + 1 => i = j
      /\ 1 \in DOMAIN q
      /\ Len(q) > 1 => 2 \in DOMAIN q /\ r # <<>> /\ Head(r) = q[2] /\ 2 # 1
  <2>1. /\ Len(q) \in Nat /\ Len(q) > 0 /\ DOMAIN q = 1..Len(q) /\ q[1] = k
        /\ r \in Seq(Calls) /\ Len(r) = Len(q) - 1 /\ DOMAIN r = 1..(Len(q) - 1)
        /\ \A i \in 1..(Len(q) - 1) : r[i] = q[i + 1]
    BY <1>1
  <2> HIDE DEF q, r
  <2>2. Len(q) > 1 => r # <<>> /\ Head(r) = q[2]
    <3>1. ASSUME Len(q) > 1
          PROVE  r # <<>> /\ Head(r) = r[1] /\ r[1] = q[1 + 1]
      BY <2>1, <3>1
    <3> QED
      BY <3>1
  <2>3. \A i \in DOMAIN q : i # 1 => i - 1 \in DOMAIN r /\ r[i - 1] = q[i]
    BY <2>1
  <2> QED
    BY <2>1, <2>2, <2>3
<1>3. /\ \A i \in DOMAIN q : q[i] \in Calls /\ calls[q[i]].conn = c
      /\ \A i, j \in DOMAIN q : q[i] = q[j] => i = j
      /\ \A i \in DOMAIN q : calls[q[i]].op = "end" => i = Len(q)
      /\ \A i \in DOMAIN q : calls[q[i]].op \in {"begin", "get"} => Len(q) = 1
  BY <1>1 DEF Lines, Line
<1>4. /\ conns'[c].queue = r /\ Idle.conn = 0 /\ Idle.at = "idle"
      /\ NextUp(c) = IF Len(q) > 1 THEN <<q[2]>> ELSE <<>>
  BY IdleCall DEF NextUp
<1> HIDE DEF q, r
<1>5. \A i \in DOMAIN r : r[i] \in Calls /\ r[i] # k /\ Same(r[i])
  BY <1>2, <1>3
<1>6. Line(c)'
  <2>1. \A i \in DOMAIN r : calls'[r[i]].conn = c /\ calls'[r[i]].op = calls[q[i + 1]].op
    BY <1>2, <1>3, <1>5 DEF Same, Kept
  <2>2. ASSUME NEW i \in DOMAIN r
        PROVE  /\ calls'[r[i]].op = "end" => i = Len(r)
               /\ calls'[r[i]].op \in {"begin", "get"} => Len(r) = 1
    <3>1. i + 1 \in DOMAIN q /\ Len(q) # 1
      BY <1>2
    <3> QED
      BY <1>2, <1>3, <2>1, <3>1
  <2>3. \A i, j \in DOMAIN r : r[i] = r[j] => i = j
    BY <1>2, <1>3
  <2> QED
    BY <1>4, <2>1, <2>2, <2>3 DEF Line
<1>7. ASSUME NEW d \in DOMAIN conns, d # c
      PROVE  Line(d)'
  <2>1. \A i \in DOMAIN conns[d].queue :
          LET j == conns[d].queue[i] IN j \in Calls /\ j # k /\ calls[j].conn = d /\ Same(j)
    BY <1>1, <1>7 DEF Lines, Line
  <2> QED
    BY <1>7, <2>1 DEF Lines, Line, Same, Kept
<1>8. ASSUME NEW j \in Calls
      PROVE  InLine(j)'
  <2>1. CASE j = k
    BY <1>4, <2>1 DEF InLine
  <2>2. CASE j # k /\ calls[j].conn = c
    <3>1. PICK i \in DOMAIN q : q[i] = j
      BY <1>1, <2>2 DEF Lines, InLine, q
    <3>2. i - 1 \in DOMAIN r /\ r[i - 1] = j
      BY <1>2, <2>2, <3>1
    <3>3. calls[j].at = "queued"
      BY <1>1, <2>2 DEF Lines, InLine, First, q
    <3> QED
      BY <1>4, <2>2, <3>2, <3>3 DEF InLine, Same, Kept
  <2>3. CASE j # k /\ calls[j].conn # c
    BY <1>1, <2>3 DEF Lines, InLine, First, Same, Kept
  <2> QED
    BY <2>1, <2>2, <2>3
<1>9. /\ ready' \in Seq(Calls)
      /\ \A i \in DOMAIN ready' :
           \/ \E m \in DOMAIN ready : ready'[i] = ready[m]
           \/ Len(q) > 1 /\ ready'[i] = q[2]
  <2> DEFINE n == NextUp(c)
  <2>1. /\ n \in Seq(Calls) /\ Len(n) \in Nat /\ DOMAIN n = 1..Len(n)
        /\ \A i \in DOMAIN n : Len(q) > 1 /\ n[i] = q[2]
    <3>1. CASE Len(q) > 1
      <4>1. n = <<q[2]>> /\ q[2] \in Calls
        BY <1>2, <1>3, <1>4, <3>1
      <4> HIDE DEF n
      <4> QED
        BY <3>1, <4>1
    <3>2. CASE ~(Len(q) > 1)
      <4>1. n = <<>>
        BY <1>4, <3>2
      <4> HIDE DEF n
      <4> QED
        BY <4>1
    <3> QED
      BY <3>1, <3>2
  <2>2. CASE ready' = n
    BY <2>1, <2>2
  <2>3. CASE ready # <<>> /\ ready' = Tail(ready) \o n
    <3> DEFINE s == Tail(ready)
    <3>1. /\ ready \in Seq(Calls) /\ s \in Seq(Calls) /\ Len(s) \in Nat
          /\ \A i \in 1..Len(s) : i + 1 \in DOMAIN ready /\ s[i] = ready[i + 1]
      BY <2>3 DEF TypeOK
    <3> HIDE DEF n, s
    <3>2. /\ s \o n \in Seq(Calls) /\ DOMAIN (s \o n) = 1..(Len(s) + Len(n))
          /\ \A i \in 1..(Len(s) + Len(n)) :
               (s \o n)[i] = IF i <= Len(s) THEN s[i] ELSE n[i - Len(s)]
      BY <2>1, <3>1
    <3>3. ASSUME NEW i \in 1..(Len(s) + Len(n))
          PROVE  \/ \E m \in DOMAIN ready : (s \o n)[i] = ready[m]
                 \/ Len(q) > 1 /\ (s \o n)[i] = q[2]
      <4>1. CASE i <= Len(s)
        BY <3>1, <3>2, <4>1
      <4>2. CASE ~(i <= Len(s))
        <5>1. i - Len(s) \in DOMAIN n
          BY <2>1, <3>1, <4>2
        <5> QED
          BY <2>1, <3>2, <4>2, <5>1
      <4> QED
        BY <4>1, <4>2
    <3> QED
      BY <2>3, <3>2, <3>3 DEF n, s
  <2> QED
    BY <2>2, <2>3
<1>10. Turns'
  <2> SUFFICES ASSUME NEW i \in DOMAIN ready', NEW x \in Calls, x = ready'[i],
                      calls'[x].at = "queued"
               PROVE  First(x)'
    BY <1>9 DEF Turns, First
  <2>1. CASE \E m \in DOMAIN ready : x = ready[m]
    <3>1. x \in Calls /\ x # k
      BY <1>1, <1>4, <2>1
    <3>2. calls[x].at = "queued" /\ First(x)
      BY <2>1, <3>1 DEF Same, Lines, Turns
    <3>3. calls[x].conn # c /\ calls[x].conn \in DOMAIN conns
      BY <1>1, <3>1, <3>2 DEF First, q
    <3> QED
      BY <3>1, <3>2, <3>3 DEF First, Same, Kept
  <2>2. CASE Len(q) > 1 /\ x = q[2]
    <3>1. 1 \in DOMAIN q /\ 2 \in DOMAIN q /\ q[1] = k /\ 1 # 2
      BY <1>2, <2>2
    <3>2. x \in Calls /\ x # k /\ calls[x].conn = c
      BY <1>3, <2>2, <3>1
    <3> QED
      BY <1>2, <1>4, <2>2, <3>2 DEF First, Same, Kept
  <2> QED
    BY <1>9, <2>1, <2>2
<1>11. Lines'
  BY <1>6, <1>7, <1>8, <1>10 DEF Lines
<1> QED
  BY <1>2, <1>3, <1>9, <1>11

(* A call arrives on a connection.                                         *)
LEMMA LinesArrive ==
  ASSUME TypeOK, Places, Lines, NEW k \in Calls, calls[k] = Idle,
         NEW c \in DOMAIN conns,
         DOMAIN conns' = DOMAIN conns,
         conns'[c].queue = Append(conns[c].queue, k),
         \A d \in DOMAIN conns : d # c => conns'[d] = conns[d],
         calls'[k].conn = c, calls'[k].at = "queued",
         \A j \in Calls : j # k => Same(j),
         ready' = IF conns[c].queue = <<>> THEN <<k>> ELSE <<>>,
         IF calls'[k].op \in {"begin", "get"} THEN \A j \in Calls : calls[j].conn # c
         ELSE \A j \in Calls : calls[j].conn = c => calls[j].op \in {"write", "close"}
  PROVE  Lines'
<1> DEFINE q == conns[c].queue
           r == Append(q, k)
<1>1. /\ q \in Seq(Calls) /\ c # 0
      /\ \A d \in DOMAIN conns : \A i \in DOMAIN conns[d].queue : conns[d].queue[i] \in Calls
      /\ \A j \in Calls : calls[j].conn # 0 => calls[j].conn \in DOMAIN conns
  <2>1. \A j \in Calls : calls[j].conn # 0 => calls[j].conn \in DOMAIN conns
    BY Known
  <2> QED
    BY <2>1, ConnTypes
<1>2. /\ Len(q) \in Nat /\ DOMAIN q = 1..Len(q) /\ DOMAIN r = 1..(Len(q) + 1)
      /\ Len(r) = Len(q) + 1 /\ r # <<>> /\ Len(q) + 1 \in DOMAIN r /\ r[Len(q) + 1] = k
      /\ \A i \in DOMAIN q : i \in DOMAIN r /\ r[i] = q[i] /\ i # Len(q) + 1
      /\ \A i \in DOMAIN r : i \in DOMAIN q \/ i = Len(q) + 1
      /\ q = <<>> => Len(q) = 0
      /\ Head(r) = IF q = <<>> THEN k ELSE Head(q)
  <2>1. /\ Len(q) \in Nat /\ DOMAIN q = 1..Len(q) /\ DOMAIN r = 1..(Len(q) + 1)
        /\ Len(r) = Len(q) + 1 /\ r # <<>> /\ r[Len(q) + 1] = k
        /\ \A i \in 1..Len(q) : r[i] = q[i]
    BY <1>1
  <2>2. Head(r) = r[1]
    BY <1>1, <2>1
  <2>3. q # <<>> => Head(q) = q[1] /\ 1 \in DOMAIN q
    BY <1>1
  <2>4. q = <<>> => Len(q) = 0 /\ Len(q) + 1 = 1
    BY <1>1
  <2> HIDE DEF q, r
  <2> QED
    BY <2>1, <2>2, <2>3, <2>4
<1>3. /\ \A i \in DOMAIN q : q[i] \in Calls /\ calls[q[i]].conn = c
      /\ \A i, j \in DOMAIN q : q[i] = q[j] => i = j
      /\ conns'[c].queue = r
  BY <1>1 DEF Lines, Line
<1>4. /\ calls[k].conn = 0
      /\ \A j \in Calls : calls[j].conn # 0 => j # k
  BY IdleCall
<1>5. \A i \in DOMAIN q : q[i] # k /\ Same(q[i])
  BY <1>1, <1>3, <1>4
<1>6. Line(c)'
  <2>1. \A i \in DOMAIN r : calls'[r[i]].conn = c
    BY <1>2, <1>3, <1>5 DEF Same, Kept
  <2>2. \A i, j \in DOMAIN r : r[i] = r[j] => i = j
    BY <1>2, <1>3, <1>5
  <2>3. ASSUME NEW i \in DOMAIN r
        PROVE  /\ calls'[r[i]].op = "end" => i = Len(r)
               /\ calls'[r[i]].op \in {"begin", "get"} => Len(r) = 1
    <3>1. CASE i = Len(q) + 1
      <4>1. r[i] = k /\ i = Len(r)
        BY <1>2, <3>1
      <4>2. calls'[k].op \in {"begin", "get"} => Len(q) = 0
        BY <1>1, <1>2, <1>3
      <4> QED
        BY <1>2, <4>1, <4>2
    <3>2. CASE i \in DOMAIN q
      <4>1. calls[q[i]].op \in {"write", "close"} /\ r[i] = q[i] /\ calls'[q[i]].op = calls[q[i]].op
        BY <1>2, <1>3, <1>5, <3>2 DEF Same, Kept
      <4> QED
        BY <4>1
    <3> QED
      BY <1>2, <3>1, <3>2
  <2> HIDE DEF r
  <2> QED
    BY <1>3, <2>1, <2>2, <2>3 DEF Line
<1> HIDE DEF q, r
<1>7. ASSUME NEW d \in DOMAIN conns, d # c
      PROVE  Line(d)'
  <2>1. \A i \in DOMAIN conns[d].queue :
          LET j == conns[d].queue[i] IN j \in Calls /\ j # k /\ calls[j].conn = d /\ Same(j)
    BY <1>1, <1>4, <1>7, ConnTypes DEF Lines, Line
  <2> QED
    BY <1>7, <2>1 DEF Lines, Line, Same, Kept
<1>8. ASSUME NEW j \in Calls
      PROVE  InLine(j)'
  <2>1. CASE j = k
    <3>1. \E i \in DOMAIN r : r[i] = k
      BY <1>2
    <3> QED
      BY <1>3, <2>1, <3>1 DEF InLine
  <2>2. CASE j # k /\ calls[j].conn = c
    <3>1. PICK i \in DOMAIN q : q[i] = j
      BY <1>1, <2>2 DEF Lines, InLine, q
    <3>2. i \in DOMAIN r /\ r[i] = j
      BY <1>2, <3>1
    <3>3. calls[j].at # "queued" => Head(r) = j /\ r # <<>>
      BY <1>1, <1>2, <2>2 DEF Lines, InLine, First, q
    <3> QED
      BY <1>3, <2>2, <3>2, <3>3 DEF InLine, First, Same, Kept
  <2>3. CASE j # k /\ calls[j].conn # c
    BY <1>1, <2>3 DEF Lines, InLine, First, Same, Kept
  <2> QED
    BY <2>1, <2>2, <2>3
<1>9. Turns'
  <2> SUFFICES ASSUME NEW i \in DOMAIN ready'
               PROVE  ready'[i] = k /\ First(k)'
    BY DEF Turns, First
  <2>1. q = <<>> /\ ready' = <<k>>
    <3>1. DOMAIN (<<>>) = {}
      OBVIOUS
    <3> QED
      BY <3>1 DEF q
  <2>2. ready'[i] = k
    BY <2>1
  <2> QED
    BY <1>2, <1>3, <2>1, <2>2 DEF First
<1> QED
  BY <1>6, <1>7, <1>8, <1>9 DEF Lines

(* A step of a call that opens leaves the connections that are there.      *)
LEMMA LinesOpen ==
  ASSUME TypeOK, Places, Lines,
         \A c \in DOMAIN conns : c \in DOMAIN conns' /\ conns'[c] = conns[c],
         \A c \in DOMAIN conns' : c \notin DOMAIN conns => conns'[c].queue = <<>>,
         \A j \in Calls : calls[j].conn # 0 => Same(j),
         \A j \in Calls : calls[j].conn = 0 => calls'[j].conn = 0 /\ calls'[j].at # "queued",
         ready' \in Seq(Calls),
         \A i \in DOMAIN ready' :
           calls'[ready'[i]].at # "queued" \/ \E m \in DOMAIN ready : ready'[i] = ready[m]
  PROVE  Lines'
<1>1. /\ \A c \in DOMAIN conns : \A i \in DOMAIN conns[c].queue : conns[c].queue[i] \in Calls
      /\ \A j \in Calls : calls[j].conn # 0 => calls[j].conn \in DOMAIN conns
      /\ \A c \in DOMAIN conns : c # 0
      /\ \A i \in DOMAIN ready' : ready'[i] \in Calls
  <2>1. \A j \in Calls : calls[j].conn # 0 => calls[j].conn \in DOMAIN conns
    BY Known
  <2>2. \A i \in DOMAIN ready' : ready'[i] \in Calls
    OBVIOUS
  <2> QED
    BY <2>1, <2>2, ConnTypes
<1>2. ASSUME NEW c \in DOMAIN conns'
      PROVE  Line(c)'
  <2>1. CASE c \in DOMAIN conns
    <3>1. \A i \in DOMAIN conns[c].queue :
            LET j == conns[c].queue[i] IN j \in Calls /\ calls[j].conn = c /\ Same(j)
      BY <1>1, <2>1 DEF Lines, Line
    <3> QED
      BY <2>1, <3>1 DEF Lines, Line, Same, Kept
  <2>2. CASE c \notin DOMAIN conns
    <3>1. conns'[c].queue = <<>> /\ DOMAIN (<<>>) = {}
      BY <2>2
    <3> QED
      BY <3>1 DEF Line
  <2> QED
    BY <2>1, <2>2
<1>3. \A j \in Calls : calls[j].conn # 0 /\ First(j) => First(j)'
  BY <1>1 DEF First, Same, Kept
<1>4. ASSUME NEW j \in Calls
      PROVE  InLine(j)'
  BY <1>1, <1>3, <1>4 DEF Lines, InLine, Same, Kept
<1>5. Turns'
  <2> SUFFICES ASSUME NEW i \in DOMAIN ready', NEW x \in Calls, x = ready'[i],
                      calls'[x].at = "queued"
               PROVE  First(x)'
    BY <1>1 DEF Turns, First
  <2>1. PICK m \in DOMAIN ready : x = ready[m]
    OBVIOUS
  <2>2. calls[x].conn # 0 /\ calls[x].at = "queued"
    BY DEF Same
  <2> QED
    BY <1>3, <2>1, <2>2 DEF Lines, Turns
<1> QED
  BY <1>2, <1>4, <1>5 DEF Lines

-----------------------------------------------------------------------------
(* Who sleeps goes on sleeping when waiters are only taken away.           *)
LEMMA WaitsKept ==
  ASSUME TypeOK, Waits,
         \A e \in DOMAIN entries' :
           \/ entries'[e].waiters = <<>>
           \/ e \in DOMAIN entries /\ entries'[e].waiters = entries[e].waiters,
         \A j \in Calls : calls[j].at = "waiting" =>
           Same(j) \/ \E m \in DOMAIN ready : ready[m] = j,
         \A i \in DOMAIN ready' : \/ \E m \in DOMAIN ready : ready'[i] = ready[m]
                                 \/ calls[ready'[i]].at # "waiting"
  PROVE  Waits'
<1>1. \A e \in DOMAIN entries : \A i \in DOMAIN entries[e].waiters :
        entries[e].waiters[i] \in Calls
  <2>1. \A e \in DOMAIN entries : entries[e].waiters \in Seq(Calls)
    BY EntryTypes
  <2>2. \A q \in Seq(Calls) : \A i \in DOMAIN q : q[i] \in Calls
    OBVIOUS
  <2> QED
    BY <2>1, <2>2
<1> SUFFICES ASSUME NEW e \in DOMAIN entries', NEW i \in DOMAIN entries'[e].waiters,
                    NEW k, k = entries'[e].waiters[i]
             PROVE  /\ calls'[k].at = "waiting" /\ calls'[k].entry = e
                    /\ \A j \in DOMAIN ready' : ready'[j] # k
  BY DEF Waits
<1>2. /\ e \in DOMAIN entries /\ i \in DOMAIN entries[e].waiters
      /\ k = entries[e].waiters[i] /\ k \in Calls
  <2>1. DOMAIN (<<>>) = {}
    OBVIOUS
  <2> QED
    BY <1>1, <2>1
<1>3. /\ calls[k].at = "waiting" /\ calls[k].entry = e
      /\ \A j \in DOMAIN ready : ready[j] # k
  BY <1>2 DEF Waits
<1> QED
  BY <1>2, <1>3 DEF Same

(* A step of connection c that touches the adapter of entry e at most: the *)
(* other connections hold other adapters, and nothing changes for them.    *)
LEMMA LocksFrame ==
  ASSUME TypeOK, Places, Locks, NEW c, c # 0, NEW e,
         DOMAIN conns' = DOMAIN conns, DOMAIN adapters' = DOMAIN adapters,
         \A d \in DOMAIN conns : d # c => conns'[d] = conns[d],
         \A x \in DOMAIN adapters : x # e =>
           /\ adapters'[x].holder = adapters[x].holder /\ adapters'[x].tx = adapters[x].tx
           /\ adapters[x].holder # c,
         e \in DOMAIN adapters => adapters[e].holder \in {0, c},
         \A j \in Calls : calls[j].conn \notin {0, c} =>
           Same(j) /\ (calls[j].op # "close" => calls[j].client \notin closing'),
         \A j \in Calls : calls[j].conn \in {0, c} => calls'[j].conn \in {0, c},
         closing \subseteq closing',
         \A j \in Calls : calls'[j].conn = c => Discipline(j)' /\ Holds(j)',
         c \in DOMAIN conns => Lease(c)',
         e \in DOMAIN adapters => Holder(e)'
  PROVE  Locks'
<1>1. ASSUME NEW j \in Calls
      PROVE  Discipline(j)' /\ Holds(j)'
  <2>1. CASE calls[j].conn \in {0, c}
    <3>1. CASE calls'[j].conn = c
      BY <3>1
    <3>2. CASE calls'[j].conn = 0
      BY <3>2 DEF Discipline, Holds
    <3> QED
      BY <2>1, <3>1, <3>2
  <2>2. CASE calls[j].conn \notin {0, c}
    <3> DEFINE d == calls[j].conn
    <3>1. /\ d \in DOMAIN conns /\ conns'[d] = conns[d] /\ d # 0 /\ d # c
          /\ calls[j].at \in {"stmt", "rolling"} => calls[j].entry \in DOMAIN adapters
      BY <2>2, Known
    <3>2. /\ calls'[j].op = calls[j].op /\ calls'[j].client = calls[j].client
          /\ calls'[j].conn = calls[j].conn /\ calls'[j].inTx = calls[j].inTx
          /\ calls'[j].at = calls[j].at /\ calls'[j].entry = calls[j].entry
      BY <2>2 DEF Same, Kept
    <3>3. Discipline(j) /\ Holds(j)
      BY DEF Locks
    <3>4. calls[j].at \in {"stmt", "rolling"} =>
            /\ adapters'[calls[j].entry].holder = adapters[calls[j].entry].holder
            /\ adapters'[calls[j].entry].tx = adapters[calls[j].entry].tx
      <4>1. calls[j].at \in {"stmt", "rolling"} => calls[j].entry # e
        BY <3>1, <3>3 DEF Holds
      <4> QED
        BY <3>1, <4>1
    <3>5. Discipline(j)'
      BY <2>2, <3>1, <3>2, <3>3 DEF Discipline
    <3>6. Holds(j)'
      BY <3>1, <3>2, <3>3, <3>4 DEF Holds
    <3> QED
      BY <3>5, <3>6
  <2> QED
    BY <2>1, <2>2
<1>2. ASSUME NEW d \in DOMAIN conns, d # c
      PROVE  Lease(d)'
  <2>1. conns'[d] = conns[d] /\ Lease(d) /\ d # 0
    BY <1>2, ConnTypes DEF Locks
  <2>2. conns[d].lease # 0 => conns[d].lease # e
    BY <1>2, <2>1 DEF Lease
  <2>3. \A k \in Calls : calls[k].conn = d =>
          calls'[k].conn = d /\ calls'[k].at = calls[k].at /\ calls'[k].op = calls[k].op
    BY <1>2, <2>1 DEF Same, Kept
  <2> QED
    BY <1>2, <2>1, <2>2, <2>3 DEF Lease
<1>3. ASSUME NEW x \in DOMAIN adapters, x # e
      PROVE  Holder(x)'
  <2>1. Holder(x) /\ adapters'[x].holder = adapters[x].holder /\ adapters[x].holder # c
    BY <1>3 DEF Locks
  <2> DEFINE d == adapters[x].holder
  <2>2. d # 0 => d \in DOMAIN conns /\ conns'[d] = conns[d]
    BY <2>1 DEF Holder
  <2>3. \A k \in Calls : calls[k].conn = d /\ d # 0 =>
          calls'[k].conn = d /\ calls'[k].at = calls[k].at /\ calls'[k].entry = calls[k].entry
    BY <2>1 DEF Same, Kept
  <2> QED
    BY <2>1, <2>2, <2>3 DEF Holder
<1> QED
  BY <1>1, <1>2, <1>3 DEF Locks

-----------------------------------------------------------------------------
(* The call whose turn it is on its connection.                            *)
LEMMA Turn ==
  ASSUME IInv, NEW k \in Calls, NEW c, c = calls[k].conn, c # 0, First(k)
  PROVE  /\ \A j \in Calls : calls[j].conn = c /\ j # k => calls[j].at = "queued"
         /\ \A x \in DOMAIN adapters : adapters[x].holder = c =>
              \/ conns[c].lease = x
              \/ calls[k].at \in {"stmt", "rolling"} /\ calls[k].entry = x
         /\ conns[c].lease # 0 /\ conns[c].mode # "tx" =>
              calls[k].at = "stmt" /\ calls[k].op = "begin"
         /\ calls[k].op \in {"begin", "get", "end"} =>
              \A j \in Calls : calls[j].conn = c => j = k
<1> USE DEF IInv
<1> DEFINE q == conns[c].queue
<1>1. c \in DOMAIN conns /\ q \in Seq(Calls) /\ q # <<>> /\ q[1] = k /\ Head(q) = k
  BY Known DEF First
<1>2. \A j \in Calls : calls[j].conn = c /\ j # k => calls[j].at = "queued"
  BY <1>1 DEF Lines, InLine, First
<1>3. \A x \in DOMAIN adapters : adapters[x].holder = c =>
        \/ conns[c].lease = x
        \/ calls[k].at \in {"stmt", "rolling"} /\ calls[k].entry = x
  BY <1>2 DEF Locks, Holder
<1>4. conns[c].lease # 0 /\ conns[c].mode # "tx" => calls[k].at = "stmt" /\ calls[k].op = "begin"
  BY <1>1, <1>2 DEF Locks, Lease
<1>5. ASSUME calls[k].op \in {"begin", "get", "end"}, NEW j \in Calls, calls[j].conn = c
      PROVE  j = k
  <2>1. 1 \in DOMAIN q /\ Len(q) \in Nat /\ DOMAIN q = 1..Len(q)
    BY <1>1
  <2>2. Len(q) = 1
    <3>1. Line(c)
      BY <1>1 DEF Lines
    <3>2. /\ calls[q[1]].op = "end" => 1 = Len(q)
          /\ calls[q[1]].op \in {"begin", "get"} => Len(q) = 1
      BY <2>1, <3>1 DEF Line
    <3> HIDE DEF q
    <3> QED
      BY <1>1, <1>5, <3>2
  <2>3. \E i \in DOMAIN q : q[i] = j
    BY <1>5 DEF Lines, InLine
  <2> QED
    BY <1>1, <2>1, <2>2, <2>3
<1> QED
  BY <1>2, <1>3, <1>4, <1>5

LEMMA ResumesFirst ==
  ASSUME IInv, NEW k \in Calls, NEW at, Resumes(k, at)
  PROVE  /\ ready # <<>> /\ calls[k].at = at /\ 1 \in DOMAIN ready /\ ready[1] = k
         /\ Tail(ready) \in Seq(Calls)
         /\ \A i \in DOMAIN Tail(ready) : \E m \in DOMAIN ready : Tail(ready)[i] = ready[m]
         /\ calls[k].conn # 0 => First(k)
<1>1. /\ ready \in Seq(Calls) /\ ready # <<>> /\ ready[1] = k /\ 1 \in DOMAIN ready
      /\ calls[k].at = at
  BY DEF Resumes, IInv, TypeOK
<1>2. calls[k].conn # 0 => First(k)
  BY <1>1 DEF IInv, Lines, Turns, InLine
<1>3. /\ Tail(ready) \in Seq(Calls)
      /\ \A i \in DOMAIN Tail(ready) : i + 1 \in DOMAIN ready /\ Tail(ready)[i] = ready[i + 1]
  BY <1>1
<1> QED
  BY <1>1, <1>2, <1>3

(* The queues and places after a call that has its turn moves on, or is     *)
(* answered.                                                               *)
LEMMA MoveParts ==
  ASSUME IInv, NEW k \in Calls, calls[k].conn # 0, First(k),
         DOMAIN conns' = DOMAIN conns,
         \A c \in DOMAIN conns :
           conns'[c].queue = conns[c].queue /\ conns'[c].owner = conns[c].owner,
         Kept(k), \A j \in Calls : j # k => Same(j),
         calls'[k].at \in {"rolling", "drop", "closing", "lock", "stmt"},
         \/ calls[k].op = "close" /\ calls'[k].at = "drop"
         \/ calls'[k].entry # 0,
         \A e \in DOMAIN entries' :
           e \in DOMAIN entries /\ entries'[e].waiters = entries[e].waiters,
         ready' \in Seq(Calls),
         \A i \in DOMAIN ready' : ready'[i] = k \/ \E m \in DOMAIN ready : ready'[i] = ready[m]
  PROVE  Places' /\ Lines' /\ Waits'
<1> USE DEF IInv
<1>1. Lines'
  BY LinesMove
<1>2. calls[k].at \notin OpenPlaces /\ calls[k].op \notin {"idle", "open"}
  BY DEF Places, Place
<1>3. Waits'
  BY <1>2, WaitsKept DEF OpenPlaces
<1>4. ASSUME NEW j \in Calls
      PROVE  Place(j)'
  <2>1. calls[j].conn # 0 => calls[j].conn \in DOMAIN conns
    BY Known
  <2>2. CASE j = k
    <3> DEFINE c == calls[k].conn
    <3>1. /\ calls[k].op \in {"close", "begin", "end", "write", "get"}
          /\ c \in DOMAIN conns /\ c # 0 /\ calls[k].client = conns[c].owner
      BY Known
    <3>2. /\ calls'[k].op = calls[k].op /\ calls'[k].client = calls[k].client
          /\ calls'[k].conn = c /\ conns'[c].owner = conns[c].owner
      BY <3>1 DEF Kept
    <3> HIDE DEF c
    <3> QED
      BY <2>2, <3>1, <3>2 DEF Place, OpenPlaces
  <2>3. CASE j # k
    BY <2>1, <2>3 DEF Places, Place, Same, Kept
  <2> QED
    BY <2>2, <2>3
<1> QED
  BY <1>1, <1>3, <1>4 DEF Places

(* What an answer to k, the first of the queue of c, does to the calls and *)
(* the connections; who runs next; and the waiters no step of a connection *)
(* touches.                                                                *)
Left(k, c) ==
  /\ calls'[k] = Idle /\ \A j \in Calls : j # k => Same(j)
  /\ DOMAIN conns' = DOMAIN conns
  /\ conns'[c].queue = Tail(conns[c].queue) /\ conns'[c].owner = conns[c].owner
  /\ \A d \in DOMAIN conns : d # c => conns'[d] = conns[d]

Woken(c) ==
  \/ ready # <<>> /\ ready' = Tail(ready) \o NextUp(c)
  \/ ready' = NextUp(c)

WaitersKept ==
  \A e \in DOMAIN entries' :
    e \in DOMAIN entries /\ entries'[e].waiters = entries[e].waiters

LEMMA FinishParts ==
  ASSUME IInv, NEW k \in Calls, calls[k].conn # 0, First(k),
         NEW c, c = calls[k].conn, Left(k, c), Woken(c), WaitersKept
  PROVE  Places' /\ Lines' /\ Waits' /\ ready' \in Seq(Calls)
<1> USE DEF IInv, Left, Woken, WaitersKept
<1>1. /\ Lines' /\ ready' \in Seq(Calls)
      /\ \A i \in DOMAIN ready' :
           \/ \E m \in DOMAIN ready : ready'[i] = ready[m]
           \/ calls[ready'[i]].conn = c
  BY LinesFinish
<1>2. \A j \in Calls : calls[j].conn # 0 => calls[j].at # "waiting"
  BY DEF Places, Place, OpenPlaces
<1>3. \A i \in DOMAIN ready' : ready'[i] \in Calls
  BY <1>1
<1>4. Waits'
  BY <1>1, <1>2, <1>3, WaitsKept
<1>5. ASSUME NEW j \in Calls
      PROVE  Place(j)'
  <2>1. calls[j].conn # 0 => calls[j].conn \in DOMAIN conns
    BY Known
  <2>2. CASE j = k
    BY <2>2, IdleCall DEF Place, OpenPlaces
  <2>3. CASE j # k
    BY <2>1, <2>3 DEF Places, Place, Same, Kept
  <2> QED
    BY <2>2, <2>3
<1> QED
  BY <1>1, <1>4, <1>5 DEF Places

LEMMA TypeKept ==
  ASSUME TypeOK, NEW k \in Calls, calls' \in [Calls -> Call],
         \A j \in Calls : j # k => calls'[j].conn = calls[j].conn /\ calls'[j].entry = calls[j].entry,
         calls'[k].conn \in 0..Len(conns'), calls'[k].entry \in 0..Len(entries'),
         conns' \in Seq(Conn), Len(conns) <= Len(conns'),
         entries' \in Seq(Entry), Len(entries) <= Len(entries'),
         adapters' \in Seq(Adapter), Len(adapters') = Len(entries'),
         file' \in 0..Len(entries'), ready' \in Seq(Calls),
         closing' \subseteq Clients, unseen' \subseteq Clients, sent' \in 0..MaxExecs
  PROVE  TypeOK'
<1>1. ASSUME NEW j \in Calls
      PROVE  calls'[j].conn \in 0..Len(conns') /\ calls'[j].entry \in 0..Len(entries')
  <2>1. calls[j].conn \in 0..Len(conns) /\ calls[j].entry \in 0..Len(entries)
    BY DEF TypeOK
  <2>2. Len(conns) \in Nat /\ Len(conns') \in Nat /\ Len(entries) \in Nat /\ Len(entries') \in Nat
    BY DEF TypeOK
  <2> QED
    BY <2>1, <2>2
<1> QED
  BY <1>1 DEF TypeOK

(* A step of call k touches no other call and no connection but c; what the*)
(* calls behind k rely on stays, unless there are none; and the adapter of *)
(* e is the only one it touches, and the only one c has locked.            *)
OnlyOn(k, c) ==
  /\ DOMAIN conns' = DOMAIN conns /\ conns'[c].owner = conns[c].owner
  /\ \A d \in DOMAIN conns : d # c => conns'[d] = conns[d]
  /\ \A j \in Calls : j # k => Same(j)
  /\ calls'[k] = Idle \/ (Kept(k) /\ Holds(k)')

SameTurn(k, c) ==
  \/ calls'[k] = Idle /\ \A j \in Calls : calls[j].conn = c => j = k
  \/ /\ conns'[c].mode = conns[c].mode
     /\ \/ conns'[c].live = conns[c].live
        \/ calls'[k] = Idle /\ calls[k].op = "close"

OneLock(c, e) ==
  /\ DOMAIN adapters' = DOMAIN adapters
  /\ \A x \in DOMAIN adapters : x # e =>
       /\ adapters'[x].holder = adapters[x].holder /\ adapters'[x].tx = adapters[x].tx
       /\ adapters[x].holder # c
  /\ e \in DOMAIN adapters => adapters[e].holder \in {0, c}

(* The locks after a step of the call that has its turn on c.              *)
LEMMA LocksStep ==
  ASSUME IInv, NEW k \in Calls, NEW c, c = calls[k].conn, c # 0, First(k), NEW e,
         OnlyOn(k, c), SameTurn(k, c), OneLock(c, e),
         e \in DOMAIN adapters => Holder(e)',
         closing' = closing, Lease(c)'
  PROVE  Locks'
<1> USE DEF OnlyOn, SameTurn, OneLock
<1>1. /\ \A j \in Calls : calls[j].conn = c /\ j # k => calls[j].at = "queued"
      /\ c \in DOMAIN conns /\ Idle.conn = 0
  BY Turn, Known, IdleCall DEF IInv
<1>2. ASSUME NEW j \in Calls, calls'[j].conn = c
      PROVE  Discipline(j)' /\ Holds(j)'
  <2>1. /\ calls'[j].conn = c /\ calls'[j].op = calls[j].op /\ calls'[j].inTx = calls[j].inTx
        /\ calls'[j].client = calls[j].client /\ calls[j].conn = c
        /\ j = k => calls'[k] # Idle
    BY <1>1, <1>2 DEF Same, Kept
  <2>2. /\ conns'[c].mode = conns[c].mode
        /\ conns'[c].live = conns[c].live \/ (j # k /\ calls[k].op = "close")
    BY <1>1, <2>1
  <2>3. Discipline(j) /\ Discipline(k)
    BY DEF IInv, Locks
  <2>4. calls[k].op = "close" => calls[j].op = "close"
    <3>1. calls[j].client = conns[c].owner /\ calls[k].client = conns[c].owner
      BY <2>1 DEF IInv, Places, Place
    <3> QED
      BY <2>1, <2>3, <3>1 DEF Discipline
  <2>5. Discipline(j)'
    BY <2>1, <2>2, <2>3, <2>4 DEF Discipline
  <2>6. CASE j = k
    BY <2>1, <2>5, <2>6
  <2>7. CASE j # k
    <3>1. calls'[j].at = "queued"
      BY <1>1, <2>1, <2>7 DEF Same
    <3> QED
      BY <2>5, <3>1 DEF Holds
  <2> QED
    BY <2>6, <2>7
<1>3. \A j \in Calls : calls[j].conn \notin {0, c} =>
        Same(j) /\ (calls[j].op # "close" => calls[j].client \notin closing')
  BY DEF IInv, Locks, Discipline
<1>4. \A j \in Calls : calls[j].conn \in {0, c} => calls'[j].conn \in {0, c}
  BY <1>1 DEF Same, Kept
<1> QED
  BY <1>2, <1>3, <1>4, LocksFrame DEF IInv

(* What a step of call k leaves: every other call; every waiter; all but   *)
(* one adapter; and who may run next.                                      *)
Moves(k) ==
  /\ calls' \in [Calls -> Call] /\ Kept(k) /\ \A j \in Calls : j # k => Same(j)

EntriesKept ==
  /\ entries' \in Seq(Entry) /\ DOMAIN entries' = DOMAIN entries /\ Len(entries') = Len(entries)
  /\ \A x \in DOMAIN entries : entries'[x].waiters = entries[x].waiters

AdapterStep(e) ==
  \/ adapters' = adapters
  \/ e \in DOMAIN adapters /\ \E a \in Adapter : adapters' = [adapters EXCEPT ![e] = a]

RunsNext(k) ==
  /\ ready' \in Seq(Calls)
  /\ \A i \in DOMAIN ready' : ready'[i] = k \/ \E m \in DOMAIN ready : ready'[i] = ready[m]

(* c has no adapter locked but that of e, which no other connection has.   *)
OnlyLock(c, e) ==
  /\ \A x \in DOMAIN adapters : x # e => adapters[x].holder # c
  /\ e \in DOMAIN adapters => adapters[e].holder \in {0, c}

(* A call of a connection runs on, and what it touches is kept.            *)
LEMMA MoveInv ==
  ASSUME IInv, NEW k \in Calls, NEW c, c = calls[k].conn, c # 0, First(k), NEW e,
         Moves(k), calls'[k].at \in {"rolling", "drop", "closing", "lock", "stmt"},
         \/ calls[k].op = "close" /\ calls'[k].at = "drop" /\ calls'[k].entry = calls[k].entry
         \/ calls'[k].entry \in DOMAIN entries,
         NEW lease \in Nat, conns' = [conns EXCEPT ![c].lease = lease],
         EntriesKept, AdapterStep(e), RunsNext(k), OnlyLock(c, e),
         Holds(k)', Lease(c)', e \in DOMAIN adapters => Holder(e)',
         UNCHANGED <<file, clients, unseen>>
  PROVE  IInv'
<1> USE DEF Moves, EntriesKept, AdapterStep, RunsNext, OnlyLock
<1>1. /\ c \in DOMAIN conns /\ c \in Nat /\ conns[c] \in Conn
      /\ DOMAIN entries = DOMAIN adapters /\ DOMAIN conns = 1..Len(conns)
      /\ DOMAIN entries = 1..Len(entries) /\ calls[k].entry \in 0..Len(entries)
  BY Known, EntryTypes DEF IInv, TypeOK
<1> DEFINE d == [conns[c] EXCEPT !.lease = lease]
<1>2. /\ d \in Conn /\ d.queue = conns[c].queue /\ d.owner = conns[c].owner
      /\ d.mode = conns[c].mode /\ d.live = conns[c].live /\ d.lease = lease
  BY <1>1 DEF Conn
<1>3. conns' = [conns EXCEPT ![c] = d]
  OBVIOUS
<1> HIDE DEF d
<1>4. /\ conns' \in Seq(Conn) /\ DOMAIN conns' = DOMAIN conns
      /\ Len(conns') = Len(conns) /\ conns'[c] = d
      /\ \A x \in DOMAIN conns : x # c => conns'[x] = conns[x]
  BY <1>1, <1>2, <1>3, ConnUpdated DEF IInv, TypeOK
<1>5. /\ adapters' \in Seq(Adapter) /\ DOMAIN adapters' = DOMAIN adapters
      /\ Len(adapters') = Len(adapters)
      /\ \A x \in DOMAIN adapters : x # e => adapters'[x] = adapters[x]
  <2>1. adapters \in Seq(Adapter)
    BY DEF IInv, TypeOK
  <2> QED
    BY <2>1, AdapterUpdated
<1>6. Places' /\ Lines' /\ Waits'
  <2>1. \A x \in DOMAIN conns :
          conns'[x].queue = conns[x].queue /\ conns'[x].owner = conns[x].owner
    BY <1>2, <1>4
  <2>2. \/ calls[k].op = "close" /\ calls'[k].at = "drop"
        \/ calls'[k].entry # 0
    BY <1>1
  <2> QED
    BY <1>4, <2>1, <2>2, MoveParts
<1>7. Locks'
  <2>1. OneLock(c, e)
    BY <1>5 DEF OneLock
  <2>2. SameTurn(k, c)
    BY <1>2, <1>4 DEF SameTurn
  <2>3. OnlyOn(k, c)
    BY <1>2, <1>4 DEF OnlyOn
  <2>4. closing' = closing
    BY DEF clients
  <2> QED
    BY <2>1, <2>2, <2>3, <2>4, LocksStep
<1>8. TypeOK'
  <2>1. calls'[k].conn \in 0..Len(conns') /\ calls'[k].entry \in 0..Len(entries')
    BY <1>1, <1>4 DEF Kept
  <2>2. \A j \in Calls : j # k => calls'[j].conn = calls[j].conn /\ calls'[j].entry = calls[j].entry
    BY DEF Same, Kept
  <2>3. /\ Len(adapters') = Len(entries') /\ Len(conns) <= Len(conns') /\ Len(entries) <= Len(entries')
        /\ file' \in 0..Len(entries') /\ closing' \subseteq Clients
        /\ unseen' \subseteq Clients /\ sent' \in 0..MaxExecs
    BY <1>4, <1>5 DEF IInv, TypeOK, clients
  <2> QED
    BY <1>4, <1>5, <2>1, <2>2, <2>3, TypeKept DEF IInv
<1> QED
  BY <1>6, <1>7, <1>8 DEF IInv

(* A call of a connection is answered, and what it touched is kept.        *)
LEMMA AnswerInv ==
  ASSUME IInv, NEW k \in Calls, NEW c, c = calls[k].conn, c # 0, First(k), NEW e,
         NEW conn \in Conn, conn.queue = conns[c].queue, conn.owner = conns[c].owner,
         Finish(k, c, conn),
         \/ \A j \in Calls : calls[j].conn = c => j = k
         \/ /\ conn.mode = conns[c].mode
            /\ conn.live = conns[c].live \/ calls[k].op = "close",
         conn.lease # 0 =>
           /\ conn.live /\ conn.mode = "tx" /\ conn.lease \in DOMAIN adapters
           /\ adapters'[conn.lease].holder = c /\ adapters'[conn.lease].tx = c,
         conn.lease = 0 /\ conn.mode = "tx" /\ conn.live => conn.owner \in closing,
         EntriesKept, AdapterStep(e), Woken(c), OnlyLock(c, e),
         e \in DOMAIN adapters =>
           adapters'[e].holder = 0 \/ (adapters'[e].holder = c /\ conn.lease = e),
         file' \in 0..Len(entries), unseen' \subseteq Clients,
         closing' = closing, sent' \in 0..MaxExecs
  PROVE  IInv'
<1> USE DEF EntriesKept, AdapterStep, OnlyLock
<1>1. /\ c \in DOMAIN conns /\ c \in Nat /\ conns[c] \in Conn
      /\ DOMAIN entries = DOMAIN adapters /\ DOMAIN conns = 1..Len(conns)
      /\ Len(conns) \in Nat /\ Len(entries) \in Nat
      /\ conns[c].queue # <<>>
  BY Known, EntryTypes DEF IInv, TypeOK, First
<1>2. /\ calls' \in [Calls -> Call] /\ calls'[k] = Idle
      /\ \A j \in Calls : j # k => calls'[j] = calls[j] /\ Same(j)
      /\ conns' \in Seq(Conn) /\ DOMAIN conns' = DOMAIN conns /\ Len(conns') = Len(conns)
      /\ conns'[c].queue = Tail(conns[c].queue)
      /\ conns'[c].owner = conns[c].owner /\ conns'[c].live = conn.live
      /\ conns'[c].lease = conn.lease /\ conns'[c].mode = conn.mode
      /\ \A x \in DOMAIN conns : x # c => conns'[x] = conns[x]
  BY <1>1, FinishStep DEF IInv
<1>3. /\ adapters' \in Seq(Adapter) /\ DOMAIN adapters' = DOMAIN adapters
      /\ Len(adapters') = Len(adapters)
      /\ \A x \in DOMAIN adapters : x # e => adapters'[x] = adapters[x]
  <2>1. adapters \in Seq(Adapter)
    BY DEF IInv, TypeOK
  <2> QED
    BY <2>1, AdapterUpdated
<1>4. Places' /\ Lines' /\ Waits' /\ ready' \in Seq(Calls)
  <2>1. WaitersKept
    BY DEF WaitersKept
  <2>2. Left(k, c)
    BY <1>2 DEF Left
  <2> QED
    BY <2>1, <2>2, FinishParts
<1>5. Lease(c)'
  <2>1. conn.lease # 0 => /\ conn.lease \in DOMAIN adapters'
                          /\ adapters'[conn.lease].holder = c /\ conn.live
                          /\ conn.mode = "tx" /\ adapters'[conn.lease].tx = c
    BY <1>3
  <2> QED
    BY <1>2, <2>1 DEF Lease
<1>6. e \in DOMAIN adapters => adapters[e].holder \in {0, c} /\ Holder(e)'
  BY <1>1, <1>2 DEF Holder
<1>7. Locks'
  <2>1. OneLock(c, e)
    BY <1>3 DEF OneLock
  <2>2. SameTurn(k, c)
    BY <1>2 DEF SameTurn
  <2>3. OnlyOn(k, c)
    BY <1>2 DEF OnlyOn
  <2> QED
    BY <1>5, <1>6, <2>1, <2>2, <2>3, LocksStep
<1>8. TypeOK'
  <2>1. calls'[k].conn \in 0..Len(conns') /\ calls'[k].entry \in 0..Len(entries')
    BY <1>1, <1>2, IdleCall
  <2>2. \A j \in Calls : j # k => calls'[j].conn = calls[j].conn /\ calls'[j].entry = calls[j].entry
    BY <1>2
  <2>3. /\ Len(adapters') = Len(entries') /\ Len(conns) <= Len(conns') /\ Len(entries) <= Len(entries')
        /\ closing' \subseteq Clients
    BY <1>1, <1>2, <1>3 DEF IInv, TypeOK
  <2> QED
    BY <1>2, <1>3, <1>4, <2>1, <2>2, <2>3, TypeKept DEF IInv
<1> QED
  BY <1>4, <1>7, <1>8 DEF IInv

-----------------------------------------------------------------------------
(* The steps of a close.                                                   *)
LEMMA CloseTurn ==
  ASSUME IInv, NEW k \in Calls, calls[k].op = "close", NEW at,
         at \in {"queued", "drop", "closing"}, Resumes(k, at)
  PROVE  LET c == calls[k].conn IN
         /\ c # 0 /\ First(k) /\ c \in DOMAIN conns /\ conns[c] \in Conn
         /\ calls[k].client = conns[c].owner /\ conns[c].owner \in closing
         /\ at # "queued" => conns[c].lease = 0 /\ conns[c].live
         /\ ~conns[c].live => conns[c].lease = 0
         /\ conns[c].lease # 0 =>
              /\ conns[c].lease \in DOMAIN adapters /\ adapters[conns[c].lease].holder = c
              /\ conns[c].lease \in Nat
         /\ \A x \in DOMAIN adapters : x # conns[c].lease => adapters[x].holder # c
         /\ 0 \notin DOMAIN adapters /\ DOMAIN adapters = DOMAIN entries
<1> DEFINE c == calls[k].conn
<1>1. calls[k].at = at /\ c # 0 /\ First(k)
  BY ResumesFirst DEF IInv, Places, Place
<1>2. /\ c \in DOMAIN conns /\ conns[c] \in Conn /\ calls[k].client = conns[c].owner
      /\ 0 \notin DOMAIN adapters /\ DOMAIN adapters = DOMAIN entries
  BY <1>1, Known, EntryTypes DEF IInv
<1>3. Discipline(k) /\ Holds(k) /\ Lease(c)
  BY <1>2 DEF IInv, Locks
<1>4. conns[c].owner \in closing
  BY <1>1, <1>2, <1>3 DEF Discipline
<1>5. at # "queued" => conns[c].lease = 0 /\ conns[c].live
  BY <1>1, <1>3 DEF Holds
<1>6. \A x \in DOMAIN adapters : x # conns[c].lease => adapters[x].holder # c
  BY <1>1, Turn
<1>7. /\ ~conns[c].live => conns[c].lease = 0
      /\ conns[c].lease # 0 =>
           /\ conns[c].lease \in DOMAIN adapters /\ adapters[conns[c].lease].holder = c
  BY <1>3 DEF Lease
<1> QED
  BY <1>1, <1>2, <1>4, <1>5, <1>6, <1>7 DEF Conn

LEMMA Dropping ==
  ASSUME IInv, NEW k \in Calls, NEW at \in {"drop", "closing"}, Resumes(k, at)
  PROVE  calls[k].op = "close"
BY DEF Resumes, IInv, Places, Place, OpenPlaces, Locks, Holds

LEMMA SameLease ==
  ASSUME conns \in Seq(Conn), NEW c \in DOMAIN conns, conns[c].lease = 0
  PROVE  conns = [conns EXCEPT ![c].lease = 0]
<1>1. conns[c] \in Conn
  OBVIOUS
<1>2. conns[c] = [conns[c] EXCEPT !.lease = 0]
  BY <1>1 DEF Conn
<1> QED
  BY <1>2

(* A close is answered; its connection is gone or stays.                   *)
LEMMA CloseAnswered ==
  ASSUME IInv, NEW k \in Calls, calls[k].op = "close", NEW at,
         at \in {"queued", "drop", "closing"}, Resumes(k, at),
         NEW c, c = calls[k].conn, conns[c].lease = 0,
         NEW conn, conn \in {conns[c], [conns[c] EXCEPT !.live = FALSE]},
         Finish(k, c, conn),
         EntriesKept,
         ready' = Tail(ready) \o NextUp(c),
         file' \in 0..Len(entries), unseen' \subseteq Clients, UNCHANGED <<adapters, clients>>
  PROVE  IInv'
<1>1. /\ c # 0 /\ First(k) /\ c \in DOMAIN conns /\ conns[c] \in Conn
      /\ conns[c].owner \in closing
      /\ \A x \in DOMAIN adapters : x # 0 => adapters[x].holder # c
      /\ 0 \notin DOMAIN adapters
  BY CloseTurn
<1>2. /\ conn \in Conn /\ conn.queue = conns[c].queue /\ conn.owner = conns[c].owner
      /\ conn.mode = conns[c].mode /\ conn.lease = 0
  BY <1>1 DEF Conn
<1>3. /\ Woken(c) /\ closing' = closing /\ sent' \in 0..MaxExecs
      /\ AdapterStep(0) /\ OnlyLock(c, 0)
  BY <1>1 DEF Resumes, clients, IInv, TypeOK, Woken, AdapterStep, OnlyLock
<1>4. conn.mode = conns[c].mode /\ (conn.live = conns[c].live \/ calls[k].op = "close")
  BY <1>2
<1>5. conn.lease = 0 /\ conn.mode = "tx" /\ conn.live => conn.owner \in closing
  BY <1>1, <1>2
<1> QED
  BY <1>1, <1>2, <1>3, <1>4, <1>5, AnswerInv

LEMMA CloseRunInv ==
  ASSUME IInv, NEW k \in Calls, CloseRun(k)
  PROVE  IInv'
<1>1. PICK c, e : c = calls[k].conn /\ e = conns[c].lease
  OBVIOUS
<1>2. /\ calls[k].op = "close" /\ Resumes(k, "queued") /\ conns[c].live
      /\ conns' = [conns EXCEPT ![c].lease = 0]
      /\ UNCHANGED <<file, entries, adapters, clients, unseen>>
  BY <1>1 DEF CloseRun
<1>3. /\ c # 0 /\ First(k) /\ c \in DOMAIN conns /\ conns[c] \in Conn
      /\ conns[c].owner \in closing
      /\ e # 0 => e \in DOMAIN adapters /\ adapters[e].holder = c /\ e \in Nat
      /\ \A x \in DOMAIN adapters : x # e => adapters[x].holder # c
      /\ 0 \notin DOMAIN adapters /\ DOMAIN adapters = DOMAIN entries
  BY <1>1, <1>2, CloseTurn
<1>4. /\ ready \in Seq(Calls) /\ Tail(ready) \in Seq(Calls) /\ calls \in [Calls -> Call]
      /\ \A i \in DOMAIN Tail(ready) : \E m \in DOMAIN ready : Tail(ready)[i] = ready[m]
      /\ calls[k].at = "queued"
  BY <1>2, ResumesFirst DEF IInv, TypeOK
<1>5. /\ conns'[c].lease = 0 /\ conns'[c].mode = conns[c].mode /\ conns'[c].live
      /\ conns'[c].owner = conns[c].owner
  BY <1>2, <1>3 DEF Conn
<1>6. Lease(c)'
  BY <1>2, <1>3, <1>5 DEF Lease, clients
<1>7. EntriesKept /\ AdapterStep(e) /\ OnlyLock(c, e)
  BY <1>2, <1>3 DEF IInv, TypeOK, EntriesKept, AdapterStep, OnlyLock
<1>8. CASE e # 0
  <2>1. /\ calls' = [calls EXCEPT ![k].at = "rolling", ![k].entry = e]
        /\ ready' = Tail(ready)
    BY <1>1, <1>8 DEF CloseRun
  <2>2. Moves(k) /\ calls'[k].entry = e /\ calls'[k].at = "rolling"
    BY <1>3, <1>4, <1>8, <2>1, MovedOn DEF Moves
  <2>3. Holds(k)' /\ Holder(e)'
    BY <1>1, <1>2, <1>3, <1>5, <1>8, <2>2 DEF Holds, Holder, Kept, Moves
  <2>4. RunsNext(k)
    BY <1>4, <2>1 DEF RunsNext
  <2> QED
    BY <1>1, <1>2, <1>3, <1>6, <1>7, <1>8, <2>2, <2>3, <2>4, MoveInv
<1>9. CASE e = 0
  <2>1. MoveTo(k, "drop") /\ ready' = Append(Tail(ready), k)
    BY <1>1, <1>9 DEF CloseRun
  <2>2. /\ Moves(k) /\ calls'[k].entry = calls[k].entry /\ calls'[k].at = "drop"
    BY <1>4, <2>1, Moved DEF Moves
  <2>3. Holds(k)'
    BY <1>1, <1>2, <1>3, <1>5, <2>2 DEF Holds, Kept, Moves
  <2>4. RunsNext(k)
    BY <1>4, <2>1 DEF RunsNext
  <2> QED
    BY <1>1, <1>2, <1>3, <1>6, <1>7, <1>9, <2>2, <2>3, <2>4, MoveInv
<1> QED
  BY <1>8, <1>9

LEMMA CloseGoneInv ==
  ASSUME IInv, NEW k \in Calls, CloseGone(k)
  PROVE  IInv'
<1>1. PICK c : c = calls[k].conn
  OBVIOUS
<1>2. /\ calls[k].op = "close" /\ Resumes(k, "queued") /\ ~conns[c].live
      /\ Finish(k, c, conns[c]) /\ ready' = Tail(ready) \o NextUp(c)
      /\ UNCHANGED <<file, entries, adapters, clients, unseen>>
  BY <1>1 DEF CloseGone
<1>3. conns[c].lease = 0
  BY <1>1, <1>2, CloseTurn
<1>4. EntriesKept /\ file' \in 0..Len(entries) /\ unseen' \subseteq Clients
  BY <1>2 DEF IInv, TypeOK, EntriesKept
<1> QED
  BY <1>1, <1>2, <1>3, <1>4, CloseAnswered

LEMMA CloseSharedInv ==
  ASSUME IInv, NEW k \in Calls, CloseShared(k)
  PROVE  IInv'
<1>1. PICK c, conn : c = calls[k].conn /\ conn = [conns[c] EXCEPT !.live = FALSE]
  OBVIOUS
<1>2. /\ Resumes(k, "drop") /\ Finish(k, c, conn) /\ ready' = Tail(ready) \o NextUp(c)
      /\ entries' = IF file = 0 THEN entries ELSE [entries EXCEPT ![file].refs = @ - 1]
      /\ UNCHANGED <<file, adapters, clients, unseen>>
  BY <1>1 DEF CloseShared
<1>3. calls[k].op = "close"
  BY <1>2, Dropping
<1>4. conns[c].lease = 0
  BY <1>1, <1>2, <1>3, CloseTurn
<1>5. EntriesKept
  <2>1. CASE file = 0
    BY <1>2, <2>1 DEF IInv, TypeOK, EntriesKept
  <2>2. CASE file # 0
    <3> DEFINE n == [entries[file] EXCEPT !.refs = @ - 1]
    <3>1. file \in DOMAIN entries /\ entries[file] \in Entry /\ entries \in Seq(Entry)
      BY <2>2, EntryTypes DEF IInv, TypeOK
    <3>2. n \in Entry /\ n.waiters = entries[file].waiters
      BY <3>1 DEF Entry
    <3>3. entries' = [entries EXCEPT ![file] = n]
      BY <1>2, <2>2
    <3> HIDE DEF n
    <3> QED
      BY <3>1, <3>2, <3>3, EntryUpdated DEF EntriesKept
  <2> QED
    BY <2>1, <2>2
<1>6. file' \in 0..Len(entries) /\ unseen' \subseteq Clients
  BY <1>2 DEF IInv, TypeOK
<1> QED
  BY <1>1, <1>2, <1>3, <1>4, <1>5, <1>6, CloseAnswered

(* The last connection goes, and with it perhaps the file.                 *)
LEMMA DropInv ==
  ASSUME IInv, NEW k \in Calls, calls[k].op = "close", NEW at,
         at \in {"drop", "closing"}, Resumes(k, at),
         NEW c, c = calls[k].conn, NEW e \in DOMAIN entries, DropClosedFile(k, c, e),
         ready' = Tail(ready) \o NextUp(c), UNCHANGED <<adapters, clients>>
  PROVE  IInv'
<1> DEFINE conn == [conns[c] EXCEPT !.live = FALSE]
           p == IF entries[e].pending = "closing" THEN "none" ELSE entries[e].pending
           n == [entries[e] EXCEPT !.pending = p, !.refs = @ - 1, !.adapter = FALSE]
<1>1. Finish(k, c, conn) /\ conns[c].lease = 0
  BY CloseTurn DEF DropClosedFile
<1>2. entries[e] \in Entry /\ entries \in Seq(Entry)
  BY EntryTypes DEF IInv, TypeOK
<1>3. p \in {"none", "opening", "closing"}
  BY <1>2 DEF Entry
<1>4. entries' = [entries EXCEPT ![e] = n]
  BY DEF DropClosedFile
<1> HIDE DEF p
<1>5. n \in Entry /\ n.waiters = entries[e].waiters
  <2>1. entries[e].refs - 1 \in Int
    BY <1>2 DEF Entry
  <2> DEFINE r == entries[e].refs - 1
  <2>2. r \in Int
    BY <2>1
  <2> HIDE DEF r
  <2>3. /\ [entries[e] EXCEPT !.pending = p, !.refs = r, !.adapter = FALSE] \in Entry
        /\ [entries[e] EXCEPT !.pending = p, !.refs = r, !.adapter = FALSE].waiters
             = entries[e].waiters
    BY <1>2, <1>3, <2>2 DEF Entry
  <2> QED
    BY <2>3 DEF r
<1> HIDE DEF n
<1>6. EntriesKept
  BY <1>2, <1>4, <1>5, EntryUpdated DEF EntriesKept
<1>7. file' \in 0..Len(entries) /\ unseen' \subseteq Clients
  <2>1. file \in 0..Len(entries) /\ 0 \in 0..Len(entries) /\ unseen \subseteq Clients
    BY <1>2 DEF IInv, TypeOK
  <2> QED
    BY <2>1 DEF DropClosedFile
<1> QED
  BY <1>1, <1>6, <1>7, CloseAnswered

LEMMA CloseLastInv ==
  ASSUME IInv, NEW k \in Calls, CloseLast(k)
  PROVE  IInv'
<1>1. PICK c, e : c = calls[k].conn /\ e = file
  OBVIOUS
<1>2. Resumes(k, "drop") /\ e # 0 /\ UNCHANGED <<adapters, clients>>
  BY <1>1 DEF CloseLast
<1>3. calls[k].op = "close"
  BY <1>2, Dropping
<1>4. /\ c # 0 /\ First(k) /\ c \in DOMAIN conns /\ conns[c] \in Conn
      /\ conns[c].lease = 0 /\ conns[c].live
      /\ \A x \in DOMAIN adapters : x # 0 => adapters[x].holder # c
      /\ 0 \notin DOMAIN adapters /\ DOMAIN adapters = DOMAIN entries
  BY <1>1, <1>2, <1>3, CloseTurn
<1>5. e \in DOMAIN entries /\ e \in Nat /\ entries[e] \in Entry /\ entries \in Seq(Entry)
  BY <1>1, <1>2, EntryTypes DEF IInv, TypeOK
<1>6. CASE entries[e].adapter
  <2> DEFINE n == [entries[e] EXCEPT !.pending = "closing"]
  <2>1. /\ entries' = [entries EXCEPT ![e] = n]
        /\ calls' = [calls EXCEPT ![k].at = "closing", ![k].entry = e]
        /\ ready' = Tail(ready) /\ UNCHANGED <<file, conns, unseen>>
    BY <1>1, <1>6 DEF CloseLast
  <2>2. n \in Entry /\ n.waiters = entries[e].waiters
    BY <1>5 DEF Entry
  <2> HIDE DEF n
  <2>3. EntriesKept
    BY <1>5, <2>1, <2>2, EntryUpdated DEF EntriesKept
  <2>4. /\ calls \in [Calls -> Call] /\ RunsNext(k)
    BY <1>2, <2>1, ResumesFirst DEF IInv, TypeOK, RunsNext
  <2>5. Moves(k) /\ calls'[k].entry = e /\ calls'[k].at = "closing"
    BY <1>5, <2>1, <2>4, MovedOn DEF Moves
  <2>6. Holds(k)'
    BY <1>1, <1>3, <1>4, <2>1, <2>5 DEF Holds, Kept, Moves
  <2>7. Lease(c)'
    <3>1. Lease(c) /\ closing' = closing
      BY <1>2, <1>4 DEF IInv, Locks, clients
    <3> QED
      BY <1>4, <2>1, <3>1 DEF Lease
  <2>8. conns' = [conns EXCEPT ![c].lease = 0]
    BY <1>4, <2>1, SameLease DEF IInv, TypeOK
  <2>9. AdapterStep(0) /\ OnlyLock(c, 0)
    BY <1>2, <1>4 DEF AdapterStep, OnlyLock
  <2>10. /\ UNCHANGED <<file, clients, unseen>> /\ c # 0 /\ First(k) /\ 0 \in Nat
         /\ 0 \in DOMAIN adapters => Holder(0)'
    BY <1>2, <1>4, <2>1
  <2> QED
    BY <1>1, <1>5, <2>3, <2>4, <2>5, <2>6, <2>7, <2>8, <2>9, <2>10, MoveInv
<1>7. CASE ~entries[e].adapter
  <2>1. DropClosedFile(k, c, e) /\ ready' = Tail(ready) \o NextUp(c)
    BY <1>1, <1>7 DEF CloseLast
  <2> QED
    BY <1>1, <1>2, <1>3, <1>5, <2>1, DropInv
<1> QED
  BY <1>6, <1>7

LEMMA ResumeClosingInv ==
  ASSUME IInv, NEW k \in Calls, ResumeClosing(k)
  PROVE  IInv'
<1>1. PICK c, e : c = calls[k].conn /\ e = calls[k].entry
  OBVIOUS
<1>2. Resumes(k, "closing") /\ ready' = Tail(ready) \o NextUp(c) /\ UNCHANGED <<adapters, clients>>
  BY <1>1 DEF ResumeClosing
<1>3. calls[k].op = "close"
  BY <1>2, Dropping
<1>4. conns[c].lease = 0 /\ c # 0
  BY <1>1, <1>2, <1>3, CloseTurn
<1>5. /\ e \in DOMAIN entries /\ entries[e] \in Entry /\ entries \in Seq(Entry)
  <2>1. calls[k].at = "closing"
    BY <1>2 DEF Resumes
  <2> QED
    BY <1>1, <1>4, <2>1, Known, EntryTypes DEF IInv, TypeOK
<1>6. CASE calls[k].ok
  <2>1. DropClosedFile(k, c, e)
    BY <1>1, <1>6 DEF ResumeClosing
  <2> QED
    BY <1>1, <1>2, <1>3, <1>5, <2>1, DropInv
<1>7. CASE ~calls[k].ok
  <2> DEFINE n == [entries[e] EXCEPT !.pending = "none"]
  <2>1. /\ Finish(k, c, conns[c]) /\ entries' = [entries EXCEPT ![e] = n]
        /\ UNCHANGED <<file, unseen>>
    BY <1>1, <1>7 DEF ResumeClosing
  <2>2. n \in Entry /\ n.waiters = entries[e].waiters
    BY <1>5 DEF Entry
  <2> HIDE DEF n
  <2>3. EntriesKept
    BY <1>5, <2>1, <2>2, EntryUpdated DEF EntriesKept
  <2>4. file' \in 0..Len(entries) /\ unseen' \subseteq Clients
    BY <2>1 DEF IInv, TypeOK
  <2> QED
    BY <1>1, <1>2, <1>3, <1>4, <2>1, <2>3, <2>4, CloseAnswered
<1> QED
  BY <1>6, <1>7

-----------------------------------------------------------------------------
(* The steps of a statement: what the call at its adapter knows.           *)
LEMMA StatementTurn ==
  ASSUME IInv, NEW k \in Calls, calls[k].at \in {"lock", "stmt", "rolling"},
         NEW c, c = calls[k].conn, NEW e, e = calls[k].entry
  PROVE  /\ c # 0 /\ c \in Nat /\ First(k) /\ c \in DOMAIN conns /\ conns[c] \in Conn
         /\ e # 0 /\ e \in Nat /\ e \in DOMAIN entries /\ e \in DOMAIN adapters
         /\ adapters[e] \in Adapter /\ entries[e] \in Entry
         /\ calls[k].op # "close" => conns[c].live
         /\ calls[k].at # "rolling" => calls[k].op # "close"
         /\ calls[k].at # "stmt" => conns[c].lease = 0
         /\ calls[k].at # "lock" => adapters[e].holder = c
         /\ conns[c].lease \in {0, e}
         /\ calls[k].at # "lock" => OnlyLock(c, e)
         /\ adapters[e].holder = 0 => OnlyLock(c, e)
         /\ Lease(c) /\ Discipline(k) /\ Holds(k)
<1>1. c # 0 /\ First(k)
  BY DEF IInv, Places, Place, OpenPlaces, Lines, InLine
<1>2. /\ c \in DOMAIN conns /\ c \in Nat /\ conns[c] \in Conn
      /\ e \in DOMAIN entries /\ DOMAIN entries = DOMAIN adapters
  BY <1>1, Known DEF IInv
<1>3. /\ adapters[e] \in Adapter /\ entries[e] \in Entry /\ e # 0 /\ e \in Nat
      /\ 0 \notin DOMAIN adapters
  BY <1>2, EntryTypes DEF IInv
<1>4. Lease(c) /\ Discipline(k) /\ Holds(k)
  BY <1>2 DEF IInv, Locks
<1>5. /\ calls[k].op # "close" => conns[c].live
      /\ calls[k].at # "rolling" => calls[k].op # "close"
      /\ calls[k].at # "stmt" => conns[c].lease = 0
      /\ calls[k].at # "lock" => adapters[e].holder = c
      /\ conns[c].lease \in {0, e}
  BY <1>1, <1>4 DEF Discipline, Holds
<1>6. \A x \in DOMAIN adapters : adapters[x].holder = c =>
        conns[c].lease = x \/ (calls[k].at \in {"stmt", "rolling"} /\ e = x)
  BY <1>1, Turn
<1>7. /\ calls[k].at # "lock" => OnlyLock(c, e)
      /\ adapters[e].holder = 0 => OnlyLock(c, e)
  <2>1. conns[c].lease # 0 => conns[c].lease = e
    BY <1>5
  <2>2. \A x \in DOMAIN adapters : x # e => adapters[x].holder # c
    BY <1>3, <1>6, <2>1
  <2> QED
    BY <1>5, <2>2 DEF OnlyLock
<1> QED
  BY <1>1, <1>2, <1>3, <1>4, <1>5, <1>7

LEMMA ExecRunInv ==
  ASSUME IInv, NEW k \in Calls, ExecRun(k)
  PROVE  IInv'
<1>1. PICK c, e : c = calls[k].conn /\ e = conns[c].lease
  OBVIOUS
<1>2. /\ calls[k].op # "close" /\ Resumes(k, "queued") /\ ready' = Tail(ready)
      /\ UNCHANGED <<file, entries, adapters, conns, clients, unseen>>
  BY DEF ExecRun
<1>3. calls[k].at = "queued" /\ c # 0 /\ First(k) /\ RunsNext(k)
  <2>1. calls[k].at = "queued" /\ c # 0
    BY <1>1, <1>2 DEF Resumes, IInv, Places, Place, OpenPlaces
  <2> QED
    BY <1>1, <1>2, <2>1, ResumesFirst DEF RunsNext
<1>4. /\ c \in DOMAIN conns /\ conns[c] \in Conn /\ calls[k].entry \in DOMAIN entries
      /\ DOMAIN entries = DOMAIN adapters /\ 0 \notin DOMAIN adapters /\ e \in Nat
      /\ calls \in [Calls -> Call]
  BY <1>1, <1>2, <1>3, Known, EntryTypes DEF IInv, TypeOK
<1>5. Lease(c) /\ Discipline(k)
  BY <1>4 DEF IInv, Locks
<1>6. /\ \A x \in DOMAIN adapters : adapters[x].holder = c => e = x
      /\ e # 0 => conns[c].mode = "tx"
  BY <1>1, <1>3, Turn
<1>7. /\ e # 0 => e \in DOMAIN adapters /\ adapters[e].holder = c
      /\ calls[k].op = "begin" => e = 0
  BY <1>1, <1>2, <1>3, <1>5, <1>6 DEF Lease, Discipline
<1>8. EntriesKept /\ AdapterStep(e) /\ OnlyLock(c, e)
  BY <1>2, <1>6, <1>7 DEF IInv, TypeOK, EntriesKept, AdapterStep, OnlyLock
<1>9. conns' = [conns EXCEPT ![c].lease = e]
  <2>1. conns[c] = [conns[c] EXCEPT !.lease = e]
    BY <1>1, <1>4 DEF Conn
  <2> QED
    BY <1>2, <1>4, <2>1 DEF IInv, TypeOK
<1>10. /\ \/ /\ e # 0 /\ calls'[k].at = "stmt" /\ calls'[k].entry = e
          \/ /\ e = 0 /\ calls'[k].at = "lock" /\ calls'[k].entry = calls[k].entry
       /\ Moves(k)
  <2>1. CASE e # 0
    <3>1. calls' = [calls EXCEPT ![k].at = "stmt", ![k].entry = e]
      BY <1>1, <2>1 DEF ExecRun
    <3> QED
      BY <1>4, <2>1, <3>1, MovedOn DEF Moves
  <2>2. CASE e = 0
    <3>1. MoveTo(k, "lock")
      BY <1>1, <2>2 DEF ExecRun
    <3> QED
      BY <1>4, <2>2, <3>1, Moved DEF Moves
  <2> QED
    BY <2>1, <2>2
<1>11. Holds(k)'
  BY <1>1, <1>2, <1>3, <1>7, <1>10 DEF Holds, Kept, Moves
<1>12. Lease(c)' /\ (e \in DOMAIN adapters => Holder(e)')
  BY <1>1, <1>2, <1>4, <1>5, <1>6, <1>7 DEF Lease, Holder, clients
<1>13. /\ calls'[k].at \in {"rolling", "drop", "closing", "lock", "stmt"}
       /\ calls'[k].entry \in DOMAIN entries
       /\ UNCHANGED <<file, clients, unseen>>
  BY <1>2, <1>4, <1>7, <1>10
<1>14. Moves(k)
  BY <1>10
<1> QED
  BY <1>1, <1>3, <1>4, <1>8, <1>9, <1>11, <1>12, <1>13, <1>14, MoveInv

LEMMA LockGrantedInv ==
  ASSUME IInv, NEW k \in Calls, LockGranted(k)
  PROVE  IInv'
<1>1. PICK c, e, lease : /\ c = calls[k].conn /\ e = calls[k].entry
                         /\ lease = IF calls[k].op = "begin" THEN e ELSE 0
  OBVIOUS
<1>2. /\ calls[k].at = "lock" /\ adapters[e].holder = 0 /\ MoveTo(k, "stmt")
      /\ adapters' = [adapters EXCEPT ![e].holder = c, ![e].tx = 0]
      /\ conns' = [conns EXCEPT ![c].lease = lease]
      /\ UNCHANGED <<file, entries, ready, clients, unseen>>
  <2>1. IF TransactionControl(calls[k].op) = "begin" THEN TRUE ELSE calls[k].op # "begin"
    BY DEF TransactionControl
  <2>2. TransactionControl(calls[k].op) = "begin" <=> calls[k].op = "begin"
    BY DEF TransactionControl
  <2> QED
    BY <1>1, <2>2 DEF LockGranted
<1>3. /\ c # 0 /\ c \in Nat /\ First(k) /\ c \in DOMAIN conns /\ conns[c] \in Conn
      /\ e # 0 /\ e \in Nat /\ e \in DOMAIN entries /\ e \in DOMAIN adapters
      /\ adapters[e] \in Adapter /\ conns[c].live /\ calls[k].op # "close"
      /\ conns[c].lease = 0 /\ OnlyLock(c, e) /\ Lease(c) /\ Discipline(k)
  BY <1>1, <1>2, StatementTurn
<1>4. /\ Moves(k) /\ calls'[k].entry = e /\ calls'[k].at = "stmt"
      /\ calls'[k].op = calls[k].op /\ calls'[k].conn = c
  BY <1>1, <1>2, Moved DEF IInv, TypeOK, Moves, Kept
<1>5. /\ conns'[c].lease = lease /\ conns'[c].mode = conns[c].mode /\ conns'[c].live
      /\ conns'[c].owner = conns[c].owner /\ lease \in Nat /\ DOMAIN conns' = DOMAIN conns
  BY <1>1, <1>2, <1>3 DEF Conn
<1> DEFINE a == [adapters[e] EXCEPT !.holder = c, !.tx = 0]
<1>6. a \in Adapter /\ a.holder = c /\ a.tx = 0
  BY <1>3 DEF Adapter
<1>7. adapters' = [adapters EXCEPT ![e] = a] /\ adapters \in Seq(Adapter)
  BY <1>2 DEF IInv, TypeOK
<1> HIDE DEF a
<1>8. adapters'[e] = a /\ DOMAIN adapters' = DOMAIN adapters
  BY <1>3, <1>6, <1>7, AdapterUpdated
<1>9. EntriesKept /\ AdapterStep(e) /\ RunsNext(k)
  BY <1>2, <1>3, <1>6, <1>7 DEF IInv, TypeOK, EntriesKept, AdapterStep, RunsNext
<1>10. Holds(k)'
  BY <1>1, <1>3, <1>4, <1>5, <1>6, <1>8 DEF Holds
<1>11. Lease(c)'
  <2>1. CASE calls[k].op = "begin"
    <3>1. lease = e /\ conns[c].mode # "tx"
      BY <1>1, <1>3, <2>1 DEF Discipline
    <3> QED
      BY <1>3, <1>4, <1>5, <1>6, <1>8, <2>1, <3>1 DEF Lease
  <2>2. CASE calls[k].op # "begin"
    <3>1. lease = 0 /\ closing' = closing
      BY <1>1, <1>2, <2>2 DEF clients
    <3> QED
      BY <1>3, <1>5, <3>1 DEF Lease
  <2> QED
    BY <2>1, <2>2
<1>12. Holder(e)'
  BY <1>3, <1>4, <1>5, <1>6, <1>8 DEF Holder
<1>13. calls'[k].entry \in DOMAIN entries /\ UNCHANGED <<file, clients, unseen>>
  BY <1>2, <1>3, <1>4
<1> QED
  BY <1>1, <1>2, <1>3, <1>4, <1>5, <1>9, <1>10, <1>11, <1>12, <1>13, MoveInv

LEMMA BeginFailsInv ==
  ASSUME IInv, NEW k \in Calls, BeginFails(k)
  PROVE  IInv'
<1>1. PICK c, e : c = calls[k].conn /\ e = calls[k].entry
  OBVIOUS
<1>2. /\ calls[k].at = "stmt" /\ calls[k].op = "begin" /\ MoveTo(k, "rolling")
      /\ conns' = [conns EXCEPT ![c].lease = 0]
      /\ UNCHANGED <<file, entries, adapters, ready, clients, unseen>>
  BY <1>1 DEF BeginFails, Statement
<1>3. /\ c # 0 /\ First(k) /\ c \in DOMAIN conns /\ conns[c] \in Conn
      /\ e # 0 /\ e \in DOMAIN entries /\ e \in DOMAIN adapters
      /\ adapters[e].holder = c /\ conns[c].live /\ OnlyLock(c, e) /\ Discipline(k)
  BY <1>1, <1>2, StatementTurn
<1>4. /\ Moves(k) /\ calls'[k].entry = e /\ calls'[k].at = "rolling"
      /\ calls'[k].op = calls[k].op /\ calls'[k].conn = c
  BY <1>1, <1>2, Moved DEF IInv, TypeOK, Moves, Kept
<1>5. /\ conns'[c].lease = 0 /\ conns'[c].mode = "auto" /\ conns'[c].live
      /\ DOMAIN conns' = DOMAIN conns
  BY <1>1, <1>2, <1>3 DEF Conn, Discipline
<1>6. EntriesKept /\ AdapterStep(e) /\ RunsNext(k)
  BY <1>2 DEF IInv, TypeOK, EntriesKept, AdapterStep, RunsNext
<1>7. Holds(k)' /\ Lease(c)' /\ Holder(e)'
  BY <1>2, <1>3, <1>4, <1>5 DEF Holds, Lease, Holder
<1>8. calls'[k].entry \in DOMAIN entries /\ UNCHANGED <<file, clients, unseen>>
  BY <1>2, <1>3, <1>4
<1> QED
  BY <1>1, <1>2, <1>3, <1>4, <1>6, <1>7, <1>8, MoveInv

LEMMA UnlockedStep ==
  ASSUME TypeOK, NEW e \in DOMAIN entries, NEW a \in Adapter, NEW told,
         Unlocked(e, a, told)
  PROVE  /\ EntriesKept /\ AdapterStep(e)
         /\ adapters'[e].holder = 0 /\ adapters'[e].tx = a.tx
<1>1. /\ entries[e] \in Entry /\ entries \in Seq(Entry) /\ adapters \in Seq(Adapter)
      /\ e \in DOMAIN adapters
  BY EntryTypes DEF TypeOK
<1> DEFINE ts == entries[e].tables \cup (IF told /\ a.tx = 0 THEN a.dirty ELSE {})
           n  == [entries[e] EXCEPT !.tables = ts]
           b  == [a EXCEPT !.holder = 0, !.dirty = {}]
<1>2. ts \in SUBSET Clients
  BY <1>1 DEF Entry, Adapter
<1>3. entries' = [entries EXCEPT ![e] = n] /\ adapters' = [adapters EXCEPT ![e] = b]
  BY DEF Unlocked
<1> HIDE DEF ts
<1>4. n \in Entry /\ n.waiters = entries[e].waiters
  BY <1>1, <1>2 DEF Entry
<1>5. b \in Adapter /\ b.holder = 0 /\ b.tx = a.tx
  BY DEF Adapter
<1> HIDE DEF n, b
<1>6. EntriesKept
  BY <1>1, <1>3, <1>4, EntryUpdated DEF EntriesKept
<1>7. AdapterStep(e) /\ adapters'[e] = b
  BY <1>1, <1>3, <1>5, AdapterUpdated DEF AdapterStep
<1> QED
  BY <1>5, <1>6, <1>7

LEMMA RollbackDoneInv ==
  ASSUME IInv, NEW k \in Calls, RollbackDone(k)
  PROVE  IInv'
<1>1. PICK c, e, a : /\ c = calls[k].conn /\ e = calls[k].entry
                     /\ a = [adapters[e] EXCEPT !.tx = 0, !.dirty = {}]
  OBVIOUS
<1>2. /\ calls[k].at = "rolling" /\ Unlocked(e, a, TRUE) /\ UNCHANGED <<file, clients, unseen>>
  BY <1>1 DEF RollbackDone
<1>3. /\ c # 0 /\ First(k) /\ c \in DOMAIN conns /\ conns[c] \in Conn
      /\ e \in DOMAIN entries /\ e \in DOMAIN adapters /\ adapters[e] \in Adapter
      /\ conns[c].lease = 0 /\ OnlyLock(c, e) /\ Lease(c) /\ Holds(k)
  BY <1>1, <1>2, StatementTurn
<1>4. a \in Adapter
  BY <1>1, <1>3 DEF Adapter
<1>5. /\ EntriesKept /\ AdapterStep(e) /\ adapters'[e].holder = 0
      /\ closing' = closing
  BY <1>2, <1>3, <1>4, UnlockedStep DEF IInv, clients
<1>6. conns[c].lease = 0 /\ conns[c].mode = "tx" /\ conns[c].live => conns[c].owner \in closing
  BY <1>3 DEF Lease
<1>7. CASE calls[k].op = "close"
  <2>1. MoveTo(k, "drop") /\ ready' = <<k>> /\ UNCHANGED conns
    BY <1>7 DEF RollbackDone
  <2>2. /\ Moves(k) /\ calls'[k].entry = calls[k].entry /\ calls'[k].at = "drop"
        /\ calls'[k].op = calls[k].op /\ calls'[k].conn = c
    BY <1>1, <2>1, Moved DEF IInv, TypeOK, Moves, Kept
  <2>3. RunsNext(k)
    BY <2>1 DEF RunsNext
  <2>4. conns' = [conns EXCEPT ![c].lease = 0]
    BY <1>3, <2>1, SameLease DEF IInv, TypeOK
  <2>5. Holds(k)'
    BY <1>1, <1>2, <1>3, <1>7, <2>1, <2>2 DEF Holds
  <2>6. Lease(c)' /\ Holder(e)'
    BY <1>3, <1>5, <1>6, <2>1 DEF Lease, Holder
  <2> QED
    BY <1>1, <1>2, <1>3, <1>5, <1>7, <2>2, <2>3, <2>4, <2>5, <2>6, MoveInv
<1>8. CASE calls[k].op # "close"
  <2>1. Finish(k, c, conns[c]) /\ ready' = NextUp(c)
    BY <1>1, <1>8 DEF RollbackDone
  <2>2. Woken(c) /\ file' \in 0..Len(entries) /\ unseen' \subseteq Clients /\ sent' \in 0..MaxExecs
    BY <1>2, <2>1 DEF Woken, clients, IInv, TypeOK
  <2> QED
    BY <1>1, <1>3, <1>5, <1>6, <2>1, <2>2, AnswerInv
<1> QED
  BY <1>7, <1>8

LEMMA BeginDoneInv ==
  ASSUME IInv, NEW k \in Calls, BeginDone(k)
  PROVE  IInv'
<1>1. PICK c, e, conn : /\ c = calls[k].conn /\ e = calls[k].entry
                        /\ conn = [conns[c] EXCEPT !.mode = "tx"]
  OBVIOUS
<1>2. /\ calls[k].at = "stmt" /\ calls[k].op = "begin" /\ Finish(k, c, conn)
      /\ adapters' = [adapters EXCEPT ![e].tx = c] /\ ready' = NextUp(c)
      /\ UNCHANGED <<file, entries, clients, unseen>>
  BY <1>1 DEF BeginDone, Statement
<1>3. /\ c # 0 /\ c \in Nat /\ First(k) /\ c \in DOMAIN conns /\ conns[c] \in Conn
      /\ e # 0 /\ e \in DOMAIN entries /\ e \in DOMAIN adapters /\ adapters[e] \in Adapter
      /\ adapters[e].holder = c /\ conns[c].live /\ OnlyLock(c, e) /\ Holds(k)
      /\ conns[c].lease \in {0, e}
  BY <1>1, <1>2, StatementTurn
<1>4. conns[c].lease = e
  BY <1>1, <1>2, <1>3 DEF Holds
<1>5. /\ conn \in Conn /\ conn.queue = conns[c].queue /\ conn.owner = conns[c].owner
      /\ conn.lease = e /\ conn.mode = "tx" /\ conn.live
  BY <1>1, <1>3, <1>4 DEF Conn
<1> DEFINE a == [adapters[e] EXCEPT !.tx = c]
<1>6. a \in Adapter /\ a.holder = c /\ a.tx = c
  BY <1>3 DEF Adapter
<1>7. adapters' = [adapters EXCEPT ![e] = a] /\ adapters \in Seq(Adapter)
  BY <1>2 DEF IInv, TypeOK
<1> HIDE DEF a
<1>8. adapters'[e].holder = c /\ adapters'[e].tx = c
  BY <1>3, <1>6, <1>7, AdapterUpdated
<1>9. EntriesKept /\ AdapterStep(e) /\ Woken(c)
  BY <1>2, <1>3, <1>6, <1>7 DEF IInv, TypeOK, EntriesKept, AdapterStep, Woken
<1>10. \A j \in Calls : calls[j].conn = c => j = k
  BY <1>1, <1>2, <1>3, Turn
<1>11. /\ file' \in 0..Len(entries) /\ unseen' \subseteq Clients /\ sent' \in 0..MaxExecs
       /\ closing' = closing
  BY <1>2 DEF clients, IInv, TypeOK
<1> QED
  BY <1>1, <1>2, <1>3, <1>5, <1>8, <1>9, <1>10, <1>11, AnswerInv

LEMMA EndDoneInv ==
  ASSUME IInv, NEW k \in Calls, NEW result, NEW told \in BOOLEAN, EndDone(k, result, told)
  PROVE  IInv'
<1>1. PICK c, e, mode, conn, a :
        /\ c = calls[k].conn /\ e = calls[k].entry
        /\ mode = IF result = "failed" /\ conns[c].lease # 0 THEN "failed" ELSE "auto"
        /\ conn = [conns[c] EXCEPT !.lease = 0, !.mode = mode]
        /\ a = [adapters[e] EXCEPT !.tx    = IF result = "failed" THEN @ ELSE 0,
                                   !.dirty = IF result = "rolled back" THEN {} ELSE @]
  OBVIOUS
<1>2. /\ calls[k].at = "stmt" /\ calls[k].op = "end" /\ Finish(k, c, conn)
      /\ Unlocked(e, a, told) /\ ready' = NextUp(c)
      /\ Committed(IF result = "failed" THEN {} ELSE a.dirty, told)
      /\ UNCHANGED <<file, clients>>
  BY <1>1 DEF EndDone, Statement
<1>3. /\ c # 0 /\ First(k) /\ c \in DOMAIN conns /\ conns[c] \in Conn
      /\ e \in DOMAIN entries /\ e \in DOMAIN adapters /\ adapters[e] \in Adapter
      /\ OnlyLock(c, e)
  BY <1>1, <1>2, StatementTurn
<1>4. mode \in {"auto", "failed"}
  BY <1>1
<1>5. /\ conn \in Conn /\ conn.queue = conns[c].queue /\ conn.owner = conns[c].owner
      /\ conn.lease = 0 /\ conn.mode # "tx"
  BY <1>1, <1>3, <1>4 DEF Conn
<1>6. a \in Adapter /\ a.dirty \subseteq Clients
  <2> DEFINE tx == IF result = "failed" THEN adapters[e].tx ELSE 0
             ds == IF result = "rolled back" THEN {} ELSE adapters[e].dirty
  <2>1. tx \in Nat /\ ds \in SUBSET Clients
    BY <1>3 DEF Adapter
  <2>2. a = [adapters[e] EXCEPT !.tx = tx, !.dirty = ds]
    BY <1>1
  <2> HIDE DEF tx, ds
  <2> QED
    BY <1>3, <2>1, <2>2 DEF Adapter
<1>7. EntriesKept /\ AdapterStep(e) /\ adapters'[e].holder = 0 /\ Woken(c)
  BY <1>2, <1>3, <1>6, UnlockedStep DEF IInv, Woken
<1>8. \A j \in Calls : calls[j].conn = c => j = k
  <2>1. c = calls[k].conn /\ calls[k].op \in {"begin", "get", "end"}
    BY <1>1, <1>2
  <2> QED
    BY <1>3, <2>1, Turn
<1>9. /\ file' \in 0..Len(entries) /\ sent' \in 0..MaxExecs /\ closing' = closing
      /\ unseen' \subseteq Clients
  BY <1>2, <1>6 DEF clients, Committed, IInv, TypeOK
<1> QED
  BY <1>1, <1>2, <1>3, <1>5, <1>7, <1>8, <1>9, AnswerInv

LEMMA WriteDoneInv ==
  ASSUME IInv, NEW k \in Calls, NEW ok \in BOOLEAN, NEW told \in BOOLEAN,
         WriteDone(k, ok, told)
  PROVE  IInv'
<1>1. PICK c, e, a :
        /\ c = calls[k].conn /\ e = calls[k].entry
        /\ a = [adapters[e] EXCEPT !.dirty = IF ok THEN @ \cup {calls[k].client} ELSE @]
  OBVIOUS
<1>2. /\ calls[k].at = "stmt" /\ calls[k].op = "write" /\ Finish(k, c, conns[c])
      /\ ready' = NextUp(c) /\ UNCHANGED <<file, clients>>
  BY <1>1 DEF WriteDone, Statement
<1>3. /\ c # 0 /\ First(k) /\ c \in DOMAIN conns /\ conns[c] \in Conn
      /\ e \in DOMAIN entries /\ e \in DOMAIN adapters /\ adapters[e] \in Adapter
      /\ adapters[e].holder = c /\ conns[c].live /\ OnlyLock(c, e) /\ Lease(c)
      /\ conns[c].lease \in {0, e}
  BY <1>1, <1>2, StatementTurn
<1>4. calls[k].client \in Clients /\ calls[k].conn # 0
  BY <1>1, <1>3, Known DEF IInv
<1>5. a \in Adapter /\ a.dirty \subseteq Clients /\ a.holder = c /\ a.tx = adapters[e].tx
  <2> DEFINE ds == IF ok THEN adapters[e].dirty \cup {calls[k].client} ELSE adapters[e].dirty
  <2>1. ds \in SUBSET Clients
    BY <1>3, <1>4 DEF Adapter
  <2>2. a = [adapters[e] EXCEPT !.dirty = ds]
    BY <1>1
  <2> HIDE DEF ds
  <2> QED
    BY <1>3, <2>1, <2>2 DEF Adapter
<1>6. /\ file' \in 0..Len(entries) /\ sent' \in 0..MaxExecs /\ closing' = closing
      /\ Woken(c)
  BY <1>2 DEF clients, IInv, TypeOK, Woken
<1>7. CASE conns[c].lease # 0
  <2>1. adapters' = [adapters EXCEPT ![e] = a] /\ UNCHANGED <<entries, unseen>>
    BY <1>1, <1>7 DEF WriteDone
  <2>2. adapters'[e].holder = c /\ adapters'[e].tx = adapters[e].tx
    BY <1>3, <1>5, <2>1, AdapterUpdated DEF IInv, TypeOK
  <2>3. conns[c].lease = e /\ conns[c].mode = "tx"
    BY <1>1, <1>2, <1>3, <1>7, Turn
  <2>4. adapters'[e].tx = c
    BY <1>3, <1>7, <2>2, <2>3 DEF Lease
  <2>5. EntriesKept /\ AdapterStep(e) /\ unseen' \subseteq Clients
    BY <1>3, <1>5, <2>1 DEF IInv, TypeOK, EntriesKept, AdapterStep
  <2> QED
    BY <1>1, <1>2, <1>3, <1>6, <1>7, <2>2, <2>3, <2>4, <2>5, AnswerInv
<1>8. CASE conns[c].lease = 0
  <2>1. Unlocked(e, a, told) /\ Committed(a.dirty, told)
    BY <1>1, <1>8 DEF WriteDone
  <2>2. EntriesKept /\ AdapterStep(e) /\ adapters'[e].holder = 0
    BY <1>3, <1>5, <2>1, UnlockedStep DEF IInv
  <2>3. unseen' \subseteq Clients
    BY <1>5, <2>1 DEF Committed, IInv, TypeOK
  <2>4. conns[c].mode = "tx" /\ conns[c].live => conns[c].owner \in closing
    BY <1>3, <1>8 DEF Lease
  <2> QED
    BY <1>1, <1>2, <1>3, <1>6, <1>8, <2>2, <2>3, <2>4, AnswerInv
<1> QED
  BY <1>7, <1>8

LEMMA GetDoneInv ==
  ASSUME IInv, NEW k \in Calls, GetDone(k)
  PROVE  IInv'
<1>1. PICK c, e : c = calls[k].conn /\ e = calls[k].entry
  OBVIOUS
<1> DEFINE a == [adapters[e] EXCEPT !.holder = 0]
           n == [entries[e] EXCEPT !.tables = {}]
<1>2. /\ calls[k].at = "stmt" /\ calls[k].op = "get" /\ Finish(k, c, conns[c])
      /\ adapters' = [adapters EXCEPT ![e] = a] /\ entries' = [entries EXCEPT ![e] = n]
      /\ unseen' = unseen \ entries[e].tables /\ ready' = NextUp(c)
      /\ UNCHANGED <<file, clients>>
  BY <1>1 DEF GetDone, Statement
<1>3. /\ c # 0 /\ First(k) /\ c \in DOMAIN conns /\ conns[c] \in Conn
      /\ e \in DOMAIN entries /\ e \in DOMAIN adapters /\ adapters[e] \in Adapter
      /\ entries[e] \in Entry /\ OnlyLock(c, e) /\ Discipline(k)
  BY <1>1, <1>2, StatementTurn
<1>4. conns[c].mode = "auto"
  BY <1>1, <1>2, <1>3 DEF Discipline
<1>5. conns[c].lease = 0
  BY <1>1, <1>2, <1>3, <1>4, Turn
<1>6. /\ a \in Adapter /\ a.holder = 0 /\ n \in Entry /\ n.waiters = entries[e].waiters
      /\ adapters \in Seq(Adapter) /\ entries \in Seq(Entry)
  BY <1>3 DEF Adapter, Entry, IInv, TypeOK
<1> HIDE DEF a, n
<1>7. AdapterStep(e) /\ adapters'[e].holder = 0 /\ Woken(c)
  BY <1>2, <1>3, <1>6, AdapterUpdated DEF AdapterStep, Woken
<1>8. EntriesKept
  BY <1>2, <1>3, <1>6, EntryUpdated DEF EntriesKept
<1>9. /\ file' \in 0..Len(entries) /\ sent' \in 0..MaxExecs /\ closing' = closing
      /\ unseen' \subseteq Clients
  BY <1>2 DEF clients, IInv, TypeOK
<1> QED
  BY <1>1, <1>2, <1>3, <1>4, <1>5, <1>7, <1>8, <1>9, AnswerInv

-----------------------------------------------------------------------------
(* The opens, and the answers of openDB() and close(): what is there stays, *)
(* what is new is held by nobody.                                          *)
ConnsGrow ==
  /\ conns' \in Seq(Conn) /\ Len(conns) <= Len(conns')
  /\ \A c \in DOMAIN conns : conns'[c] = conns[c]
  /\ \A c \in DOMAIN conns' : c \notin DOMAIN conns =>
       conns'[c].queue = <<>> /\ conns'[c].lease = 0 /\ conns'[c].mode = "auto"

AdaptersGrow ==
  /\ adapters' \in Seq(Adapter) /\ Len(adapters) <= Len(adapters')
  /\ \A x \in DOMAIN adapters :
       adapters'[x].holder = adapters[x].holder /\ adapters'[x].tx = adapters[x].tx
  /\ \A x \in DOMAIN adapters' : x \notin DOMAIN adapters => adapters'[x].holder = 0

(* Only calls that belong to no connection change.                         *)
OnlyOpens ==
  /\ calls' \in [Calls -> Call]
  /\ \A j \in Calls : calls[j].conn # 0 => Same(j)
  /\ \A j \in Calls : calls[j].conn = 0 => calls'[j].conn = 0 /\ calls'[j].at # "queued"

(* Whoever has calls or connections is as much about to close as it was.   *)
ClosingKept ==
  /\ closing' \subseteq Clients
  /\ \A j \in Calls : calls[j].conn # 0 =>
       (calls[j].client \in closing' <=> calls[j].client \in closing)
  /\ \A c \in DOMAIN conns : conns[c].live =>
       (conns[c].owner \in closing => conns[c].owner \in closing')

LEMMA LocksOpen ==
  ASSUME IInv, ConnsGrow, AdaptersGrow, OnlyOpens, ClosingKept
  PROVE  Locks'
<1>1. /\ \A c \in DOMAIN conns : c \in DOMAIN conns' /\ conns'[c] = conns[c] /\ c # 0
      /\ \A x \in DOMAIN adapters : x \in DOMAIN adapters'
  <2>1. /\ DOMAIN conns = 1..Len(conns) /\ DOMAIN conns' = 1..Len(conns')
        /\ DOMAIN adapters = 1..Len(adapters) /\ DOMAIN adapters' = 1..Len(adapters')
        /\ Len(conns) \in Nat /\ Len(conns') \in Nat
        /\ Len(adapters) \in Nat /\ Len(adapters') \in Nat
    BY DEF IInv, TypeOK, ConnsGrow, AdaptersGrow
  <2> QED
    BY <2>1 DEF ConnsGrow, AdaptersGrow
<1>2. ASSUME NEW j \in Calls
      PROVE  Discipline(j)' /\ Holds(j)'
  <2>1. CASE calls[j].conn = 0
    BY <2>1 DEF OnlyOpens, Discipline, Holds
  <2>2. CASE calls[j].conn # 0
    <3>1. PICK c, e : c = calls[j].conn /\ e = calls[j].entry
      OBVIOUS
    <3>2. /\ c \in DOMAIN conns /\ conns'[c] = conns[c]
          /\ calls[j].at \in {"stmt", "rolling"} => e \in DOMAIN adapters
      BY <1>1, <2>2, <3>1, Known DEF IInv
    <3>3. /\ calls'[j].op = calls[j].op /\ calls'[j].client = calls[j].client
          /\ calls'[j].conn = c /\ calls'[j].inTx = calls[j].inTx
          /\ calls'[j].at = calls[j].at /\ calls'[j].entry = e
      BY <2>2, <3>1 DEF OnlyOpens, Same, Kept
    <3>4. Discipline(j) /\ Holds(j)
      BY DEF IInv, Locks
    <3>5. Discipline(j)'
      BY <2>2, <3>1, <3>2, <3>3, <3>4 DEF Discipline, ClosingKept
    <3>6. calls[j].at \in {"stmt", "rolling"} =>
            adapters'[e].holder = adapters[e].holder /\ adapters'[e].tx = adapters[e].tx
      BY <3>2 DEF AdaptersGrow
    <3>7. Holds(j)'
      BY <2>2, <3>1, <3>2, <3>3, <3>4, <3>6 DEF Holds
    <3> QED
      BY <3>5, <3>7
  <2> QED
    BY <2>1, <2>2
<1>3. ASSUME NEW c \in DOMAIN conns'
      PROVE  Lease(c)'
  <2>1. CASE c \notin DOMAIN conns
    BY <2>1 DEF ConnsGrow, Lease
  <2>2. CASE c \in DOMAIN conns
    <3>1. conns'[c] = conns[c] /\ Lease(c) /\ c # 0
      BY <1>1, <2>2 DEF IInv, Locks
    <3>2. \A k \in Calls : calls[k].conn = c =>
            calls'[k].conn = c /\ calls'[k].at = calls[k].at /\ calls'[k].op = calls[k].op
      BY <3>1 DEF OnlyOpens, Same, Kept
    <3>3. conns[c].live /\ conns[c].owner \in closing => conns[c].owner \in closing'
      BY <2>2 DEF ClosingKept
    <3>4. \A x \in DOMAIN adapters : /\ x \in DOMAIN adapters'
                                     /\ adapters'[x].holder = adapters[x].holder
                                     /\ adapters'[x].tx = adapters[x].tx
      BY <1>1 DEF AdaptersGrow
    <3> QED
      BY <3>1, <3>2, <3>3, <3>4 DEF Lease
  <2> QED
    BY <2>1, <2>2
<1>4. ASSUME NEW x \in DOMAIN adapters'
      PROVE  Holder(x)'
  <2>1. CASE x \notin DOMAIN adapters
    BY <2>1 DEF AdaptersGrow, Holder
  <2>2. CASE x \in DOMAIN adapters
    <3>1. PICK d : d = adapters[x].holder
      OBVIOUS
    <3>2. Holder(x) /\ adapters'[x].holder = d
      BY <2>2, <3>1 DEF IInv, Locks, AdaptersGrow
    <3>3. d # 0 => d \in DOMAIN conns' /\ conns'[d] = conns[d]
      BY <1>1, <3>1, <3>2 DEF Holder
    <3>4. \A k \in Calls : calls[k].conn = d /\ d # 0 =>
            calls'[k].conn = d /\ calls'[k].at = calls[k].at /\ calls'[k].entry = calls[k].entry
      BY DEF OnlyOpens, Same, Kept
    <3> QED
      BY <3>1, <3>2, <3>3, <3>4 DEF Holder
  <2> QED
    BY <2>1, <2>2
<1> QED
  BY <1>2, <1>3, <1>4 DEF Locks

LEMMA LinesGrow ==
  ASSUME IInv, ConnsGrow, OnlyOpens, ready' \in Seq(Calls),
         \A i \in DOMAIN ready' :
           calls'[ready'[i]].at # "queued" \/ \E m \in DOMAIN ready : ready'[i] = ready[m]
  PROVE  Lines'
<1>1. \A c \in DOMAIN conns : c \in DOMAIN conns' /\ conns'[c] = conns[c]
  <2>1. /\ DOMAIN conns = 1..Len(conns) /\ DOMAIN conns' = 1..Len(conns')
        /\ Len(conns) \in Nat /\ Len(conns') \in Nat
    BY DEF IInv, TypeOK, ConnsGrow
  <2> QED
    BY <2>1 DEF ConnsGrow
<1>2. \A c \in DOMAIN conns' : c \notin DOMAIN conns => conns'[c].queue = <<>>
  BY DEF ConnsGrow
<1> QED
  BY <1>1, <1>2, LinesOpen DEF IInv, OnlyOpens

(* A step of a call k that opens.                                          *)
LEMMA OpenInv ==
  ASSUME IInv, NEW k \in Calls, calls[k].conn = 0, ConnsGrow, AdaptersGrow, ClosingKept,
         NEW d \in Call, calls' = [calls EXCEPT ![k] = d],
         d.conn = 0, d.op \in {"idle", "open"}, d.at \in OpenPlaces,
         d.at = "idle" \/ d.client \in Clients,
         d.at \in {"waiting", "opening"} => d.entry # 0, d.entry \in 0..Len(entries'),
         entries' \in Seq(Entry), Len(entries) <= Len(entries'), Len(adapters') = Len(entries'),
         file' \in 0..Len(entries'), unseen' = unseen, sent' = sent,
         RunsNext(k), Waits'
  PROVE  IInv'
<1>1. /\ calls' \in [Calls -> Call] /\ calls'[k] = d
      /\ \A j \in Calls : j # k => calls'[j] = calls[j] /\ Same(j)
  BY CallUpdated DEF IInv, TypeOK
<1>2. OnlyOpens
  <2>1. \A j \in Calls : calls[j].conn = 0 => calls[j].at # "queued"
    BY DEF IInv, Places, Place, OpenPlaces
  <2>2. d.at # "queued"
    BY DEF OpenPlaces
  <2> QED
    BY <1>1, <2>1, <2>2 DEF OnlyOpens
<1>3. Locks'
  BY <1>2, LocksOpen
<1>4. Lines'
  <2>1. \A i \in DOMAIN ready' :
          calls'[ready'[i]].at # "queued" \/ \E m \in DOMAIN ready : ready'[i] = ready[m]
    BY <1>1 DEF RunsNext, OpenPlaces
  <2> QED
    BY <1>2, <2>1, LinesGrow DEF RunsNext
<1>5. ASSUME NEW j \in Calls
      PROVE  Place(j)'
  <2>1. CASE j = k
    BY <1>1, <2>1 DEF Place, OpenPlaces
  <2>2. CASE j # k
    <3>1. calls[j].conn # 0 => conns'[calls[j].conn] = conns[calls[j].conn]
      BY Known DEF IInv, ConnsGrow
    <3>2. calls'[j] = calls[j] /\ Place(j)
      BY <1>1, <2>2 DEF IInv, Places
    <3> QED
      BY <3>1, <3>2 DEF Place
  <2> QED
    BY <2>1, <2>2
<1>6. TypeOK'
  <2>1. \A j \in Calls : j # k => calls'[j].conn = calls[j].conn /\ calls'[j].entry = calls[j].entry
    BY <1>1
  <2>2. calls'[k].conn \in 0..Len(conns') /\ calls'[k].entry \in 0..Len(entries')
    BY <1>1 DEF ConnsGrow
  <2>3. unseen' \subseteq Clients /\ sent' \in 0..MaxExecs
    BY DEF IInv, TypeOK
  <2> QED
    BY <1>1, <2>1, <2>2, <2>3, TypeKept DEF IInv, ConnsGrow, AdaptersGrow, ClosingKept, RunsNext
<1> QED
  BY <1>3, <1>4, <1>5, <1>6 DEF IInv, Places

LEMMA WaitsIntro ==
  ASSUME \A x \in DOMAIN entries' : \A i \in DOMAIN entries'[x].waiters :
           \A j : j = entries'[x].waiters[i] =>
             /\ calls'[j].at = "waiting" /\ calls'[j].entry = x
             /\ \A m \in DOMAIN ready' : ready'[m] # j
  PROVE  Waits'
BY DEF Waits

(* openDB() or close() answers: k and those who wait for it learn how.     *)
LEMMA AnswersAll ==
  ASSUME IInv, NEW k \in Calls, calls[k].at \in {"opening", "closing"}, Quiet,
         NEW e, e = calls[k].entry, NEW w, w = entries[e].waiters, NEW ok \in BOOLEAN,
         NEW n \in Entry, n.waiters = <<>>, entries' = [entries EXCEPT ![e] = n],
         NEW s \in {"opening", "open", "closed"}, adapters' = [adapters EXCEPT ![e].state = s],
         calls' = [j \in Calls |-> IF j = k \/ Contains(w, j)
                                   THEN [calls[j] EXCEPT !.ok = ok] ELSE calls[j]],
         ready' = <<k>> \o w, UNCHANGED <<file, conns, clients, unseen>>
  PROVE  IInv'
<1>1. /\ e \in DOMAIN entries /\ e \in DOMAIN adapters /\ w \in Seq(Calls)
      /\ entries \in Seq(Entry) /\ adapters \in Seq(Adapter) /\ adapters[e] \in Adapter
      /\ ready = <<>> /\ DOMAIN (<<>>) = {} /\ Len(entries) = Len(adapters)
  <2>1. e \in 0..Len(entries) /\ e # 0
    BY DEF IInv, TypeOK, Places, Place
  <2>2. e \in DOMAIN entries /\ DOMAIN entries = DOMAIN adapters
    BY <2>1, EntryTypes DEF IInv
  <2> QED
    BY <2>2, EntryTypes DEF IInv, TypeOK, Quiet
<1>2. /\ entries' \in Seq(Entry) /\ DOMAIN entries' = DOMAIN entries /\ Len(entries') = Len(entries)
      /\ entries'[e].waiters = <<>>
      /\ \A x \in DOMAIN entries : x # e => entries'[x] = entries[x]
  BY <1>1, EntryUpdated
<1>3. ASSUME NEW j \in Calls
      PROVE  Same(j) /\ calls'[j] \in Call
  <2>1. calls[j] \in Call
    BY DEF IInv, TypeOK
  <2> DEFINE d == [calls[j] EXCEPT !.ok = ok]
  <2>2. /\ d \in Call /\ d.op = calls[j].op /\ d.client = calls[j].client
        /\ d.conn = calls[j].conn /\ d.inTx = calls[j].inTx /\ d.at = calls[j].at
        /\ d.entry = calls[j].entry
    BY <2>1 DEF Call
  <2>3. calls'[j] \in {d, calls[j]}
    OBVIOUS
  <2> HIDE DEF d
  <2> QED
    BY <2>1, <2>2, <2>3 DEF Same, Kept
<1>4. calls' \in [Calls -> Call]
  <2>1. calls' = [j \in Calls |-> calls'[j]]
    OBVIOUS
  <2> QED
    BY <1>3, <2>1
<1>5. ConnsGrow /\ ClosingKept
  BY DEF IInv, TypeOK, ConnsGrow, ClosingKept, clients
<1>6. AdaptersGrow /\ Len(adapters') = Len(adapters)
  <2> DEFINE a == [adapters[e] EXCEPT !.state = s]
  <2>1. a \in Adapter /\ a.holder = adapters[e].holder /\ a.tx = adapters[e].tx
    BY <1>1 DEF Adapter
  <2>2. adapters' = [adapters EXCEPT ![e] = a]
    OBVIOUS
  <2> HIDE DEF a
  <2>3. /\ adapters' \in Seq(Adapter) /\ DOMAIN adapters' = DOMAIN adapters
        /\ Len(adapters') = Len(adapters) /\ adapters'[e] = a
        /\ \A x \in DOMAIN adapters : x # e => adapters'[x] = adapters[x]
    BY <1>1, <2>1, <2>2, AdapterUpdated
  <2>4. Len(adapters) \in Nat
    BY <1>1
  <2> QED
    BY <2>1, <2>3, <2>4 DEF AdaptersGrow
<1>7. OnlyOpens
  <2>1. \A j \in Calls : calls[j].conn = 0 => calls[j].at # "queued"
    BY DEF IInv, Places, Place, OpenPlaces
  <2> QED
    BY <1>3, <1>4, <2>1 DEF OnlyOpens, Same, Kept
<1>8. \A i \in DOMAIN w : w[i] \in Calls /\ calls[w[i]].at = "waiting" /\ calls[w[i]].entry = e
  <2>1. \A i \in DOMAIN w : w[i] \in Calls
    BY <1>1
  <2> QED
    BY <1>1, <2>1 DEF IInv, Waits
<1>9. /\ ready' \in Seq(Calls)
      /\ \A i \in DOMAIN ready' : ready'[i] = k \/ \E m \in DOMAIN w : ready'[i] = w[m]
  <2>1. /\ Len(w) \in Nat /\ DOMAIN w = 1..Len(w) /\ <<k>> \o w \in Seq(Calls)
        /\ DOMAIN (<<k>> \o w) = 1..(1 + Len(w))
        /\ \A i \in 1..(1 + Len(w)) : (<<k>> \o w)[i] = IF i <= 1 THEN <<k>>[i] ELSE w[i - 1]
    BY <1>1
  <2>2. ASSUME NEW i \in 1..(1 + Len(w))
        PROVE  (<<k>> \o w)[i] = k \/ \E m \in DOMAIN w : (<<k>> \o w)[i] = w[m]
    <3>1. CASE i = 1
      BY <2>1, <3>1
    <3>2. CASE i # 1
      <4>1. i - 1 \in DOMAIN w /\ ~(i <= 1)
        BY <2>1, <3>2
      <4> QED
        BY <2>1, <4>1
    <3> QED
      BY <3>1, <3>2
  <2> QED
    BY <2>1, <2>2
<1>10. Lines'
  <2>1. \A i \in DOMAIN ready' : calls'[ready'[i]].at # "queued"
    BY <1>3, <1>8, <1>9 DEF Same
  <2> QED
    BY <1>5, <1>7, <1>9, <2>1, LinesGrow
<1>11. Waits'
  <2> SUFFICES ASSUME NEW x \in DOMAIN entries', NEW i \in DOMAIN entries'[x].waiters,
                      NEW j, j = entries'[x].waiters[i]
               PROVE  /\ calls'[j].at = "waiting" /\ calls'[j].entry = x
                      /\ \A m \in DOMAIN ready' : ready'[m] # j
    BY WaitsIntro
  <2>1. x # e /\ x \in DOMAIN entries /\ entries'[x] = entries[x]
    BY <1>1, <1>2
  <2>2. j \in Calls
    <3>1. entries[x].waiters \in Seq(Calls)
      BY <2>1, EntryTypes DEF IInv
    <3> QED
      BY <2>1, <3>1
  <2>3. calls[j].at = "waiting" /\ calls[j].entry = x
    BY <2>1 DEF IInv, Waits
  <2> QED
    BY <1>3, <1>8, <1>9, <2>1, <2>2, <2>3 DEF Same
<1>12. Places'
  <2>1. \A j \in Calls : Place(j)
    BY DEF IInv, Places
  <2> QED
    BY <1>3, <2>1 DEF Places, Place, Same, Kept
<1>13. Locks'
  BY <1>5, <1>6, <1>7, LocksOpen
<1>14. TypeOK'
  <2>1. \A j \in Calls : calls'[j].conn = calls[j].conn /\ calls'[j].entry = calls[j].entry
    BY <1>3 DEF Same, Kept
  <2>2. calls[k].conn \in 0..Len(conns) /\ calls[k].entry \in 0..Len(entries)
    BY DEF IInv, TypeOK
  <2>3. /\ file' \in 0..Len(entries') /\ unseen' \subseteq Clients
        /\ sent' \in 0..MaxExecs /\ closing' \subseteq Clients
    BY <1>2 DEF IInv, TypeOK, clients
  <2>4. /\ conns' \in Seq(Conn) /\ Len(conns) <= Len(conns')
        /\ calls'[k].conn \in 0..Len(conns')
    <3>1. conns' = conns /\ conns \in Seq(Conn) /\ Len(conns) \in Nat
      BY DEF IInv, TypeOK
    <3>2. conns' \in Seq(Conn) /\ Len(conns') = Len(conns)
      BY <3>1
    <3>3. calls'[k].conn \in 0..Len(conns)
      BY <2>1, <2>2
    <3> QED
      BY <3>1, <3>2, <3>3
  <2>5. /\ Len(entries) <= Len(entries') /\ Len(adapters') = Len(entries')
        /\ adapters' \in Seq(Adapter) /\ calls'[k].entry \in 0..Len(entries')
    <3>1. Len(entries) \in Nat
      BY <1>1
    <3> QED
      BY <1>1, <1>2, <1>6, <2>1, <2>2, <3>1 DEF AdaptersGrow
  <2> QED
    BY <1>2, <1>4, <1>9, <2>1, <2>3, <2>4, <2>5, TypeKept DEF IInv
<1> QED
  BY <1>10, <1>11, <1>12, <1>13, <1>14 DEF IInv

LEMMA OpenDoneInv ==
  ASSUME IInv, NEW k \in Calls, NEW result, OpenDone(k, result)
  PROVE  IInv'
<1>1. PICK e, w, n, s, ok :
        /\ e = calls[k].entry /\ w = entries[e].waiters
        /\ n = [entries[e] EXCEPT !.adapter = (result = "adapter"), !.waiters = <<>>]
        /\ s = IF result = "adapter" THEN "open" ELSE "closed"
        /\ ok = (result # "failure")
  OBVIOUS
<1>2. /\ Quiet /\ calls[k].at = "opening"
      /\ adapters' = [adapters EXCEPT ![e].state = s] /\ entries' = [entries EXCEPT ![e] = n]
      /\ calls' = [j \in Calls |-> IF j = k \/ Contains(w, j)
                                   THEN [calls[j] EXCEPT !.ok = ok] ELSE calls[j]]
      /\ ready' = <<k>> \o w /\ UNCHANGED <<file, conns, clients, unseen>>
  BY <1>1 DEF OpenDone
<1>3. entries[e] \in Entry
  <2>1. e \in 0..Len(entries) /\ e # 0
    BY <1>1, <1>2 DEF IInv, TypeOK, Places, Place
  <2> QED
    BY <2>1, EntryTypes DEF IInv
<1>4. n \in Entry /\ n.waiters = <<>>
  <2>1. (result = "adapter") \in BOOLEAN /\ <<>> \in Seq(Calls)
    OBVIOUS
  <2> QED
    BY <1>1, <1>3, <2>1 DEF Entry
<1>5. ok \in BOOLEAN /\ s \in {"opening", "open", "closed"}
  BY <1>1
<1>6. e = calls[k].entry /\ w = entries[e].waiters
  BY <1>1
<1> QED
  BY <1>2, <1>4, <1>5, <1>6, AnswersAll

LEMMA CloseDoneInv ==
  ASSUME IInv, NEW k \in Calls, NEW ok \in BOOLEAN, CloseDone(k, ok)
  PROVE  IInv'
<1>1. PICK e, w, n, s :
        /\ e = calls[k].entry /\ w = entries[e].waiters
        /\ n = [entries[e] EXCEPT !.waiters = <<>>]
        /\ s = IF ok THEN "closed" ELSE adapters[e].state
  OBVIOUS
<1>2. /\ Quiet /\ calls[k].at = "closing"
      /\ adapters' = [adapters EXCEPT ![e].state = s] /\ entries' = [entries EXCEPT ![e] = n]
      /\ calls' = [j \in Calls |-> IF j = k \/ Contains(w, j)
                                   THEN [calls[j] EXCEPT !.ok = ok] ELSE calls[j]]
      /\ ready' = <<k>> \o w /\ UNCHANGED <<file, conns, clients, unseen>>
  BY <1>1 DEF CloseDone
<1>3. entries[e] \in Entry /\ adapters[e] \in Adapter
  <2>1. e \in 0..Len(entries) /\ e # 0
    BY <1>1, <1>2 DEF IInv, TypeOK, Places, Place
  <2> QED
    BY <2>1, EntryTypes DEF IInv
<1>4. n \in Entry /\ n.waiters = <<>>
  <2>1. <<>> \in Seq(Calls)
    OBVIOUS
  <2> QED
    BY <1>1, <1>3, <2>1 DEF Entry
<1>5. s \in {"opening", "open", "closed"}
  BY <1>1, <1>3 DEF Adapter
<1> QED
  BY <1>1, <1>2, <1>4, <1>5, AnswersAll

LEMMA ResumeOpenedInv ==
  ASSUME IInv, NEW k \in Calls, ResumeOpened(k)
  PROVE  IInv'
<1> DEFINE new == [owner |-> calls[k].client, live |-> TRUE, lease |-> 0,
                   queue |-> <<>>, mode |-> "auto"]
<1>1. /\ Resumes(k, "opened") /\ conns' = Append(conns, new) /\ Answer(k)
      /\ ready' = Tail(ready) /\ UNCHANGED <<file, entries, adapters, clients, unseen>>
  BY DEF ResumeOpened
<1>2. /\ calls[k].at = "opened" /\ calls[k].conn = 0 /\ RunsNext(k)
      /\ \A i \in DOMAIN ready' : \E m \in DOMAIN ready : ready'[i] = ready[m]
  <2>1. calls[k].at = "opened" /\ calls[k].conn = 0
    BY <1>1 DEF Resumes, IInv, Places, Place, OpenPlaces
  <2> QED
    BY <1>1, <2>1, ResumesFirst DEF RunsNext
<1>3. new \in Conn /\ new.queue = <<>> /\ new.lease = 0 /\ new.mode = "auto"
  <2>1. calls[k].client \in Clients
    BY <1>2 DEF IInv, Places, Place
  <2> QED
    BY <2>1 DEF Conn
<1> HIDE DEF new
<1>4. ConnsGrow
  <2>1. /\ conns \in Seq(Conn) /\ Len(conns) \in Nat /\ DOMAIN conns = 1..Len(conns)
    BY DEF IInv, TypeOK
  <2>2. /\ conns' \in Seq(Conn) /\ Len(conns') = Len(conns) + 1
        /\ DOMAIN conns' = 1..(Len(conns) + 1) /\ conns'[Len(conns) + 1] = new
        /\ \A c \in 1..Len(conns) : conns'[c] = conns[c]
    BY <1>1, <1>3, <2>1
  <2> QED
    BY <1>3, <2>1, <2>2 DEF ConnsGrow
<1>5. AdaptersGrow /\ ClosingKept
  BY <1>1 DEF IInv, TypeOK, AdaptersGrow, ClosingKept, clients
<1>6. Waits'
  <2>1. \A j \in Calls : j # k => Same(j)
    BY <1>1, Answered DEF IInv, TypeOK
  <2>2. \A j \in Calls : calls[j].at = "waiting" => Same(j)
    BY <1>2, <2>1
  <2>3. \A e \in DOMAIN entries' :
          e \in DOMAIN entries /\ entries'[e].waiters = entries[e].waiters
    BY <1>1
  <2> QED
    BY <1>2, <2>2, <2>3, WaitsKept DEF IInv
<1>7. /\ entries' \in Seq(Entry) /\ Len(entries) <= Len(entries') /\ Len(adapters') = Len(entries')
      /\ file' \in 0..Len(entries') /\ unseen' = unseen /\ sent' = sent
  BY <1>1 DEF IInv, TypeOK, clients
<1>8. /\ calls' = [calls EXCEPT ![k] = Idle] /\ Idle \in Call /\ Idle.conn = 0
      /\ Idle.op \in {"idle", "open"} /\ Idle.at \in OpenPlaces /\ Idle.at = "idle"
      /\ Idle.entry \in 0..Len(entries')
  BY <1>1, <1>7, IdleCall DEF Answer, OpenPlaces
<1> QED
  BY <1>2, <1>4, <1>5, <1>6, <1>7, <1>8, OpenInv

LEMMA ResumeOpeningInv ==
  ASSUME IInv, NEW k \in Calls, ResumeOpening(k)
  PROVE  IInv'
<1>1. PICK e : e = calls[k].entry
  OBVIOUS
<1>2. Resumes(k, "opening") /\ UNCHANGED <<adapters, conns, clients, unseen>>
  BY DEF ResumeOpening
<1>3. /\ calls[k].at = "opening" /\ calls[k].conn = 0 /\ calls[k] \in Call
      /\ calls[k].client \in Clients /\ calls[k].op \in {"idle", "open"}
      /\ e \in DOMAIN entries /\ e \in 0..Len(entries) /\ e # 0
      /\ entries[e] \in Entry /\ entries \in Seq(Entry)
  <2>1. calls[k].at = "opening" /\ calls[k].conn = 0
    BY <1>2 DEF Resumes, IInv, Places, Place, OpenPlaces
  <2>2. /\ calls[k] \in Call /\ calls[k].client \in Clients /\ calls[k].op \in {"idle", "open"}
        /\ e \in 0..Len(entries) /\ e # 0
    BY <1>1, <2>1 DEF IInv, TypeOK, Places, Place
  <2> QED
    BY <2>1, <2>2, EntryTypes DEF IInv, TypeOK
<1>4. /\ Tail(ready) \in Seq(Calls)
      /\ \A i \in DOMAIN Tail(ready) : \E m \in DOMAIN ready : Tail(ready)[i] = ready[m]
      /\ 1 \in DOMAIN ready /\ ready[1] = k
  BY <1>2, ResumesFirst
<1>5. PICK d, n :
        /\ calls' = [calls EXCEPT ![k] = d] /\ d \in Call /\ d.conn = 0
        /\ d.op \in {"idle", "open"} /\ d.at \in {"idle", "opened"}
        /\ d.at = "idle" \/ d.client \in Clients
        /\ d.entry \in 0..Len(entries)
        /\ entries' = [entries EXCEPT ![e] = n] /\ n \in Entry /\ n.waiters = entries[e].waiters
        /\ file' \in {0, file}
        /\ ready' \in {Tail(ready), Append(Tail(ready), k)}
  <2>1. CASE calls[k].ok /\ entries[e].adapter
    <3> DEFINE d == [calls[k] EXCEPT !.at = "opened"]
               r == entries[e].refs + 1
               n == [entries[e] EXCEPT !.pending = "none", !.refs = r]
    <3>1. /\ entries' = [entries EXCEPT ![e] = n] /\ calls' = [calls EXCEPT ![k] = d]
          /\ ready' = Append(Tail(ready), k) /\ file' = file
      BY <1>1, <2>1 DEF ResumeOpening, MoveTo
    <3>2. /\ d \in Call /\ d.conn = 0 /\ d.op = calls[k].op /\ d.at = "opened"
          /\ d.client = calls[k].client /\ d.entry = calls[k].entry
      BY <1>3 DEF Call
    <3>3. r \in Int
      BY <1>3 DEF Entry
    <3> HIDE DEF r
    <3>4. n \in Entry /\ n.waiters = entries[e].waiters
      BY <1>3, <3>3 DEF Entry
    <3> HIDE DEF d, n
    <3> QED
      BY <1>1, <1>3, <3>1, <3>2, <3>4
  <2>2. CASE ~(calls[k].ok /\ entries[e].adapter)
    <3> DEFINE n == [entries[e] EXCEPT !.pending = "none"]
    <3>1. /\ entries' = [entries EXCEPT ![e] = n] /\ calls' = [calls EXCEPT ![k] = Idle]
          /\ ready' = Tail(ready) /\ file' \in {0, file}
      BY <1>1, <2>2 DEF ResumeOpening, Answer
    <3>2. n \in Entry /\ n.waiters = entries[e].waiters
      BY <1>3 DEF Entry
    <3>3. 0 \in 0..Len(entries)
      BY <1>3
    <3> HIDE DEF n
    <3> QED
      BY <3>1, <3>2, <3>3, IdleCall
  <2> QED
    BY <2>1, <2>2
<1>6. /\ entries' \in Seq(Entry) /\ DOMAIN entries' = DOMAIN entries /\ Len(entries') = Len(entries)
      /\ \A x \in DOMAIN entries : entries'[x].waiters = entries[x].waiters
  BY <1>3, <1>5, EntryUpdated
<1>7. ConnsGrow /\ AdaptersGrow /\ ClosingKept
  BY <1>2 DEF IInv, TypeOK, ConnsGrow, AdaptersGrow, ClosingKept, clients
<1>8. RunsNext(k) /\ \A i \in DOMAIN ready' : \E m \in DOMAIN ready : ready'[i] = ready[m]
  <2>1. CASE ready' = Tail(ready)
    BY <1>4, <2>1 DEF RunsNext
  <2>2. CASE ready' = Append(Tail(ready), k)
    <3>1. /\ ready' \in Seq(Calls)
          /\ \A i \in DOMAIN ready' : ready'[i] = k \/ \E m \in DOMAIN ready : ready'[i] = ready[m]
      BY <1>4, <2>2
    <3> QED
      BY <1>4, <3>1 DEF RunsNext
  <2> QED
    BY <1>5, <2>1, <2>2
<1>9. Waits'
  <2>1. \A j \in Calls : j # k => Same(j)
    BY <1>5, CallUpdated DEF IInv, TypeOK
  <2>2. \A j \in Calls : calls[j].at = "waiting" => Same(j)
    BY <1>3, <2>1
  <2> QED
    BY <1>6, <1>8, <2>2, WaitsKept DEF IInv
<1>10. /\ Len(entries) <= Len(entries') /\ Len(adapters') = Len(entries')
       /\ file' \in 0..Len(entries') /\ unseen' = unseen /\ sent' = sent
       /\ d.entry \in 0..Len(entries') /\ d.at \in OpenPlaces
       /\ d.at \in {"waiting", "opening"} => d.entry # 0
  BY <1>2, <1>5, <1>6 DEF IInv, TypeOK, clients, OpenPlaces
<1> QED
  BY <1>3, <1>5, <1>6, <1>7, <1>8, <1>9, <1>10, OpenInv

(* openFile's second look: share the adapter or make a new entry.          *)
LEMMA FindOrCreateInv ==
  ASSUME IInv, NEW k \in Calls, calls[k].conn = 0,
         calls[k].at # "waiting" \/ \E m \in DOMAIN ready : ready[m] = k,
         NEW call \in Call, call.conn = 0, call.op \in {"idle", "open"}, call.client \in Clients,
         NEW rest \in Seq(Calls),
         \A i \in DOMAIN rest : \E m \in DOMAIN ready : rest[i] = ready[m],
         FindOrCreate(k, call, rest), ClosingKept, UNCHANGED <<conns, sent, unseen>>
  PROVE  IInv'
<1>1. /\ entries \in Seq(Entry) /\ adapters \in Seq(Adapter) /\ Len(adapters) = Len(entries)
      /\ Len(entries) \in Nat /\ file \in 0..Len(entries)
      /\ DOMAIN entries = 1..Len(entries) /\ DOMAIN adapters = 1..Len(entries)
  BY DEF IInv, TypeOK
<1>2. PICK at, e :
        /\ calls' = [calls EXCEPT ![k] = [call EXCEPT !.at = at, !.entry = e]]
        /\ at \in {"opening", "opened"} /\ e \in 1..Len(entries')
        /\ Len(entries) <= Len(entries') /\ Len(adapters') = Len(entries')
        /\ entries' \in Seq(Entry) /\ AdaptersGrow /\ file' \in 0..Len(entries')
        /\ \A x \in DOMAIN entries' :
             \/ entries'[x].waiters = <<>>
             \/ x \in DOMAIN entries /\ entries'[x].waiters = entries[x].waiters
        /\ ready' \in {rest, Append(rest, k)}
  <2>1. CASE file # 0 /\ entries[file].adapter
    <3> DEFINE n == [entries[file] EXCEPT !.refs = @ + 1]
    <3>1. /\ entries' = [entries EXCEPT ![file] = n]
          /\ calls' = [calls EXCEPT ![k] = [call EXCEPT !.at = "opened", !.entry = file]]
          /\ ready' = Append(rest, k) /\ UNCHANGED <<file, adapters>>
      BY <2>1 DEF FindOrCreate
    <3>2. file \in DOMAIN entries /\ entries[file] \in Entry
      BY <2>1, EntryTypes DEF IInv
    <3>3. n \in Entry /\ n.waiters = entries[file].waiters
      BY <3>2 DEF Entry
    <3> HIDE DEF n
    <3>4. /\ entries' \in Seq(Entry) /\ DOMAIN entries' = DOMAIN entries
          /\ Len(entries') = Len(entries)
          /\ \A x \in DOMAIN entries : entries'[x].waiters = entries[x].waiters
      BY <1>1, <3>1, <3>2, <3>3, EntryUpdated
    <3>5. AdaptersGrow
      BY <1>1, <3>1 DEF AdaptersGrow
    <3>6. /\ file \in 1..Len(entries') /\ Len(entries) <= Len(entries')
          /\ Len(adapters') = Len(entries') /\ file' \in 0..Len(entries')
          /\ "opened" \in {"opening", "opened"} /\ entries' \in Seq(Entry)
          /\ ready' \in {rest, Append(rest, k)}
      BY <1>1, <2>1, <3>1, <3>4
    <3>7. \A x \in DOMAIN entries' :
            \/ entries'[x].waiters = <<>>
            \/ x \in DOMAIN entries /\ entries'[x].waiters = entries[x].waiters
      BY <3>4
    <3> QED
      BY <3>1, <3>5, <3>6, <3>7
  <2>2. CASE ~(file # 0 /\ entries[file].adapter)
    <3> DEFINE n == [refs |-> 0, adapter |-> FALSE, pending |-> "opening",
                     waiters |-> <<>>, tables |-> {}]
               a == [state |-> "opening", holder |-> 0, tx |-> 0, dirty |-> {}]
               e == Len(entries) + 1
    <3>1. /\ entries' = Append(entries, n) /\ adapters' = Append(adapters, a)
          /\ calls' = [calls EXCEPT ![k] = [call EXCEPT !.at = "opening", !.entry = e]]
          /\ ready' = rest /\ file' = e
      BY <2>2 DEF FindOrCreate
    <3>2. n \in Entry /\ n.waiters = <<>> /\ a \in Adapter /\ a.holder = 0
      BY DEF Entry, Adapter
    <3> HIDE DEF n, a
    <3>3. /\ entries' \in Seq(Entry) /\ Len(entries') = e /\ DOMAIN entries' = 1..e
          /\ entries'[e] = n /\ \A x \in 1..Len(entries) : entries'[x] = entries[x]
      BY <1>1, <3>1, <3>2
    <3>4. /\ adapters' \in Seq(Adapter) /\ Len(adapters') = e /\ DOMAIN adapters' = 1..e
          /\ adapters'[e] = a /\ \A x \in 1..Len(entries) : adapters'[x] = adapters[x]
      BY <1>1, <3>1, <3>2
    <3>5. AdaptersGrow
      BY <1>1, <3>2, <3>4 DEF AdaptersGrow
    <3>6. \A x \in DOMAIN entries' :
            \/ entries'[x].waiters = <<>>
            \/ x \in DOMAIN entries /\ entries'[x].waiters = entries[x].waiters
      BY <1>1, <3>2, <3>3
    <3>7. e \in 1..Len(entries') /\ Len(entries) <= Len(entries') /\ file' \in 0..Len(entries')
      BY <1>1, <3>1, <3>3
    <3> HIDE DEF e
    <3> QED
      BY <3>1, <3>3, <3>4, <3>5, <3>6, <3>7
  <2> QED
    BY <2>1, <2>2
<1> DEFINE d == [call EXCEPT !.at = at, !.entry = e]
<1>3. /\ d \in Call /\ d.conn = 0 /\ d.op \in {"idle", "open"} /\ d.at = at
      /\ d.client \in Clients /\ d.entry = e /\ calls' = [calls EXCEPT ![k] = d]
  <2>1. e \in Nat /\ at \in {"opening", "opened"}
    BY <1>2
  <2> QED
    BY <1>2, <2>1 DEF Call
<1> HIDE DEF d
<1>4. \A i \in DOMAIN ready' : ready'[i] = k \/ \E m \in DOMAIN ready : ready'[i] = ready[m]
  <2>1. CASE ready' = rest
    BY <2>1
  <2>2. CASE ready' = Append(rest, k)
    BY <2>2
  <2> QED
    BY <1>2, <2>1, <2>2
<1>5. RunsNext(k)
  BY <1>2, <1>4 DEF RunsNext
<1>6. ConnsGrow
  BY DEF IInv, TypeOK, ConnsGrow
<1>7. Waits'
  <2>1. \A j \in Calls : j # k => Same(j)
    BY <1>2, <1>3, CallUpdated DEF IInv, TypeOK
  <2>2. \A j \in Calls : calls[j].at = "waiting" =>
          Same(j) \/ \E m \in DOMAIN ready : ready[m] = j
    BY <2>1
  <2>3. \A i \in DOMAIN ready' : \/ \E m \in DOMAIN ready : ready'[i] = ready[m]
                                \/ calls[ready'[i]].at # "waiting"
    BY <1>4
  <2> QED
    BY <1>2, <2>2, <2>3, WaitsKept DEF IInv
<1>8. /\ d.at \in OpenPlaces /\ d.entry # 0 /\ d.entry \in 0..Len(entries')
  BY <1>2, <1>3 DEF OpenPlaces
<1>9. /\ entries' \in Seq(Entry) /\ Len(entries) <= Len(entries')
      /\ Len(adapters') = Len(entries') /\ file' \in 0..Len(entries')
      /\ AdaptersGrow /\ unseen' = unseen /\ sent' = sent
  BY <1>2
<1> QED
  BY <1>3, <1>5, <1>6, <1>7, <1>8, <1>9, OpenInv

LEMMA ResumeWaitingInv ==
  ASSUME IInv, NEW k \in Calls, ResumeWaiting(k)
  PROVE  IInv'
<1>1. Resumes(k, "waiting") /\ UNCHANGED <<conns, clients, unseen>>
  BY DEF ResumeWaiting
<1>2. /\ calls[k].at = "waiting" /\ calls[k].conn = 0 /\ calls[k] \in Call
      /\ calls[k].client \in Clients /\ calls[k].op \in {"idle", "open"}
  BY <1>1 DEF Resumes, IInv, TypeOK, Places, Place, OpenPlaces
<1>3. /\ Tail(ready) \in Seq(Calls)
      /\ \A i \in DOMAIN Tail(ready) : \E m \in DOMAIN ready : Tail(ready)[i] = ready[m]
      /\ 1 \in DOMAIN ready /\ ready[1] = k
  BY <1>1, ResumesFirst
<1>4. ClosingKept /\ sent' = sent
  BY <1>1 DEF IInv, TypeOK, ClosingKept, clients
<1>5. CASE calls[k].ok
  <2>1. FindOrCreate(k, calls[k], Tail(ready))
    BY <1>5 DEF ResumeWaiting
  <2> QED
    BY <1>1, <1>2, <1>3, <1>4, <2>1, FindOrCreateInv
<1>6. CASE ~calls[k].ok
  <2>1. /\ calls' = [calls EXCEPT ![k] = Idle] /\ ready' = Tail(ready)
        /\ UNCHANGED <<file, entries, adapters>>
    BY <1>6 DEF ResumeWaiting, Answer
  <2>2. ConnsGrow /\ AdaptersGrow /\ RunsNext(k)
    BY <1>1, <1>3, <2>1 DEF IInv, TypeOK, ConnsGrow, AdaptersGrow, RunsNext
  <2>3. Waits'
    <3>1. \A j \in Calls : j # k => Same(j)
      BY <2>1, IdleCall, CallUpdated DEF IInv, TypeOK
    <3>2. \A j \in Calls : calls[j].at = "waiting" =>
            Same(j) \/ \E m \in DOMAIN ready : ready[m] = j
      BY <1>3, <3>1
    <3>3. /\ \A e \in DOMAIN entries' :
               e \in DOMAIN entries /\ entries'[e].waiters = entries[e].waiters
          /\ \A i \in DOMAIN ready' : \E m \in DOMAIN ready : ready'[i] = ready[m]
      BY <1>3, <2>1
    <3> QED
      BY <3>2, <3>3, WaitsKept DEF IInv
  <2>4. /\ entries' \in Seq(Entry) /\ Len(entries) <= Len(entries')
        /\ Len(adapters') = Len(entries') /\ file' \in 0..Len(entries') /\ unseen' = unseen
        /\ Idle.entry \in 0..Len(entries') /\ Idle.at \in OpenPlaces
        /\ Idle.op \in {"idle", "open"}
    BY <1>1, <2>1, IdleCall DEF IInv, TypeOK, OpenPlaces
  <2> QED
    BY <1>2, <1>4, <2>1, <2>2, <2>3, <2>4, IdleCall, OpenInv
<1> QED
  BY <1>5, <1>6

LEMMA OpenArrivesInv ==
  ASSUME IInv, NEW k \in Calls, NEW cl \in Clients, Open(k, cl)
  PROVE  IInv'
<1> DEFINE call == [Idle EXCEPT !.op = "open", !.client = cl]
<1>1. /\ ready = <<>> /\ calls[k] = Idle /\ closing' = closing \ {cl}
      /\ cl \in closing => LiveConns(cl) = {} /\ InFlight(cl) = {}
      /\ OpenFile(k, call) /\ UNCHANGED <<conns, sent, unseen>>
  BY DEF Open, MayCall, Quiet
<1>2. /\ call \in Call /\ call.conn = 0 /\ call.op = "open" /\ call.client = cl
      /\ calls[k].conn = 0 /\ calls[k].at = "idle"
  <2>1. call \in Call /\ call.conn = 0 /\ call.op = "open" /\ call.client = cl
    BY DEF Idle, Call
  <2> QED
    BY <1>1, <2>1, IdleCall
<1> HIDE DEF call
<1>3. ClosingKept
  <2>1. closing' \subseteq Clients
    BY <1>1 DEF IInv, TypeOK
  <2>2. ASSUME NEW j \in Calls, calls[j].conn # 0
        PROVE  calls[j].client \in closing' <=> calls[j].client \in closing
    BY <1>1 DEF InFlight
  <2>3. ASSUME NEW c \in DOMAIN conns, conns[c].live, conns[c].owner \in closing
        PROVE  conns[c].owner \in closing'
    BY <1>1, <2>3 DEF LiveConns
  <2> QED
    BY <2>1, <2>2, <2>3 DEF ClosingKept
<1>4. CASE ~(file # 0 /\ entries[file].pending # "none")
  <2>1. FindOrCreate(k, call, <<>>)
    BY <1>1, <1>4 DEF OpenFile
  <2>2. <<>> \in Seq(Calls) /\ DOMAIN (<<>>) = {}
    OBVIOUS
  <2> QED
    BY <1>1, <1>2, <1>3, <2>1, <2>2, FindOrCreateInv
<1>5. CASE file # 0 /\ entries[file].pending # "none"
  <2>1. PICK e, n, d : /\ e = file /\ n = [entries[e] EXCEPT !.waiters = Append(@, k)]
                       /\ d = [call EXCEPT !.at = "waiting", !.entry = e]
    OBVIOUS
  <2>2. /\ entries' = [entries EXCEPT ![e] = n] /\ calls' = [calls EXCEPT ![k] = d]
        /\ UNCHANGED <<file, adapters, ready>>
    BY <1>1, <1>5, <2>1 DEF OpenFile
  <2>3. /\ e \in DOMAIN entries /\ entries[e] \in Entry /\ entries \in Seq(Entry) /\ e \in Nat
        /\ e \in 0..Len(entries) /\ e # 0 /\ Len(adapters) = Len(entries)
    BY <1>5, <2>1, EntryTypes DEF IInv, TypeOK
  <2> DEFINE q == entries[e].waiters
  <2>4. q \in Seq(Calls)
    BY <2>3 DEF Entry
  <2>5. /\ Append(q, k) \in Seq(Calls)
        /\ \A i \in DOMAIN Append(q, k) : Append(q, k)[i] = k \/ (i \in DOMAIN q /\ Append(q, k)[i] = q[i])
    BY <2>4
  <2>6. n \in Entry /\ n.waiters = Append(q, k)
    BY <2>1, <2>3, <2>5 DEF Entry
  <2>7. /\ entries' \in Seq(Entry) /\ DOMAIN entries' = DOMAIN entries /\ Len(entries') = Len(entries)
        /\ entries'[e] = n /\ \A x \in DOMAIN entries : x # e => entries'[x] = entries[x]
    BY <2>2, <2>3, <2>6, EntryUpdated
  <2>8. /\ d \in Call /\ d.conn = 0 /\ d.op = "open" /\ d.at = "waiting" /\ d.client = cl
        /\ d.entry = e
    BY <1>2, <2>1, <2>3 DEF Call
  <2>9. calls'[k] = d /\ \A j \in Calls : j # k => calls'[j] = calls[j]
    BY <2>2, <2>8, CallUpdated DEF IInv, TypeOK
  <2>10. ready' = <<>> /\ DOMAIN (<<>>) = {} /\ <<>> \in Seq(Calls)
    BY <1>1, <2>2
  <2>11. Waits'
    <3> SUFFICES ASSUME NEW x \in DOMAIN entries', NEW i \in DOMAIN entries'[x].waiters,
                        NEW j, j = entries'[x].waiters[i]
                 PROVE  /\ calls'[j].at = "waiting" /\ calls'[j].entry = x
                        /\ \A m \in DOMAIN ready' : ready'[m] # j
      BY WaitsIntro
    <3>1. CASE j = k /\ x = e
      BY <2>8, <2>9, <2>10, <3>1
    <3>2. CASE ~(j = k /\ x = e)
      <4>1. x \in DOMAIN entries /\ i \in DOMAIN entries[x].waiters /\ j = entries[x].waiters[i]
        BY <2>5, <2>6, <2>7, <3>2
      <4>2. j \in Calls
        <5>1. entries[x].waiters \in Seq(Calls)
          BY <4>1, EntryTypes DEF IInv
        <5> QED
          BY <4>1, <5>1
      <4>3. calls[j].at = "waiting" /\ calls[j].entry = x
        BY <4>1 DEF IInv, Waits
      <4> QED
        BY <1>2, <2>9, <2>10, <4>2, <4>3
    <3> QED
      BY <3>1, <3>2
  <2>12. ConnsGrow /\ AdaptersGrow /\ RunsNext(k)
    BY <1>1, <2>2, <2>10 DEF IInv, TypeOK, ConnsGrow, AdaptersGrow, RunsNext
  <2>13. /\ d.at \in OpenPlaces /\ d.entry \in 0..Len(entries') /\ d.entry # 0
         /\ Len(entries) <= Len(entries') /\ Len(adapters') = Len(entries')
         /\ file' \in 0..Len(entries') /\ unseen' = unseen /\ sent' = sent
    BY <1>1, <2>1, <2>2, <2>3, <2>7, <2>8 DEF OpenPlaces, IInv, TypeOK
  <2> QED
    BY <1>2, <1>3, <2>2, <2>7, <2>8, <2>11, <2>12, <2>13, OpenInv
<1> QED
  BY <1>4, <1>5

-----------------------------------------------------------------------------
(* A call arrives on a connection of its client.                           *)
LEMMA ArriveInv ==
  ASSUME IInv, NEW k \in Calls, Quiet, calls[k] = Idle, NEW c \in DOMAIN conns,
         NEW d \in Call, calls' = [calls EXCEPT ![k] = d],
         d.conn = c, d.client = conns[c].owner, d.at = "queued",
         d.op \in {"close", "begin", "end", "write", "get"}, d.entry \in 0..Len(entries),
         d.op # "close" => d.entry # 0,
         Enqueue(k, c, conns[c]), UNCHANGED <<file, entries, adapters, unseen>>,
         sent' \in 0..MaxExecs, closing \subseteq closing', closing' \subseteq Clients,
         \A j \in Calls : calls[j].conn # 0 /\ calls[j].op # "close" =>
           calls[j].client \notin closing',
         IF d.op \in {"begin", "get"} THEN \A j \in Calls : calls[j].conn # c
         ELSE \A j \in Calls : calls[j].conn = c => calls[j].op \in {"write", "close"},
         IF d.op = "close" THEN d.client \in closing'
         ELSE d.client \notin closing' /\ conns[c].live,
         d.op = "write" => conns[c].mode # "failed" /\ (d.inTx <=> conns[c].mode = "tx"),
         d.op \in {"begin", "get"} => conns[c].mode = "auto" /\ ~d.inTx,
         d.op = "end" => conns[c].mode # "auto"
  PROVE  IInv'
<1>1. /\ calls' \in [Calls -> Call] /\ calls'[k] = d
      /\ \A j \in Calls : j # k => calls'[j] = calls[j] /\ Same(j)
  BY CallUpdated DEF IInv, TypeOK
<1>2. /\ c # 0 /\ conns[c] \in Conn /\ conns[c].queue \in Seq(Calls) /\ conns \in Seq(Conn)
      /\ c \in 1..Len(conns) /\ Len(conns) \in Nat
  BY ConnTypes DEF IInv, TypeOK
<1> DEFINE q == Append(conns[c].queue, k)
           n == [conns[c] EXCEPT !.queue = q]
<1>3. /\ n \in Conn /\ n.queue = q /\ n.owner = conns[c].owner /\ n.live = conns[c].live
      /\ n.lease = conns[c].lease /\ n.mode = conns[c].mode
  <2>1. q \in Seq(Calls)
    BY <1>2
  <2> QED
    BY <1>2, <2>1, WithQueue
<1>4. conns' = [conns EXCEPT ![c] = n]
  BY DEF Enqueue
<1> HIDE DEF n
<1>5. /\ conns' \in Seq(Conn) /\ DOMAIN conns' = DOMAIN conns /\ Len(conns') = Len(conns)
      /\ conns'[c] = n /\ \A x \in DOMAIN conns : x # c => conns'[x] = conns[x]
  BY <1>2, <1>3, <1>4, ConnUpdated
<1>6. /\ ready' = IF conns[c].queue = <<>> THEN <<k>> ELSE <<>>
      /\ calls[k].conn = 0 /\ calls[k].at = "idle"
  BY IdleCall DEF Enqueue
<1>7. Lines'
  <2>1. calls'[k].conn = c /\ calls'[k].at = "queued" /\ calls'[k].op = d.op
    BY <1>1
  <2>2. conns'[c].queue = Append(conns[c].queue, k)
    BY <1>3, <1>5
  <2> HIDE DEF q
  <2> QED
    BY <1>1, <1>5, <1>6, <2>1, <2>2, LinesArrive DEF IInv
<1>8. ready' \in Seq(Calls) /\ \A i \in DOMAIN ready' : ready'[i] = k
  <2>1. CASE conns[c].queue = <<>>
    BY <1>6, <2>1
  <2>2. CASE conns[c].queue # <<>>
    BY <1>6, <2>2
  <2> QED
    BY <2>1, <2>2
<1>9. Waits'
  <2>1. \A j \in Calls : calls[j].at = "waiting" => Same(j)
    BY <1>1, <1>6
  <2>2. /\ \A e \in DOMAIN entries' : e \in DOMAIN entries /\ entries'[e].waiters = entries[e].waiters
        /\ \A i \in DOMAIN ready' : calls[ready'[i]].at # "waiting"
    BY <1>6, <1>8
  <2> QED
    BY <2>1, <2>2, WaitsKept DEF IInv
<1>10. \A x \in DOMAIN conns :
         /\ conns'[x].owner = conns[x].owner /\ conns'[x].live = conns[x].live
         /\ conns'[x].lease = conns[x].lease /\ conns'[x].mode = conns[x].mode
  BY <1>3, <1>5
<1>11. ASSUME NEW j \in Calls
       PROVE  Place(j)'
  <2>1. CASE j = k
    BY <1>1, <1>2, <1>10, <2>1 DEF Place, OpenPlaces
  <2>2. CASE j # k
    <3>1. calls[j].conn # 0 => calls[j].conn \in DOMAIN conns
      BY Known DEF IInv
    <3>2. calls'[j] = calls[j] /\ Place(j)
      BY <1>1, <2>2 DEF IInv, Places
    <3> QED
      BY <1>10, <3>1, <3>2 DEF Place
  <2> QED
    BY <2>1, <2>2
<1>12. ASSUME NEW j \in Calls
       PROVE  Discipline(j)' /\ Holds(j)'
  <2>1. CASE j = k
    <3>1. Discipline(k)'
      BY <1>1, <1>10 DEF Discipline
    <3>2. Holds(k)'
      BY <1>1 DEF Holds
    <3> QED
      BY <2>1, <3>1, <3>2
  <2>2. CASE j # k
    <3>1. calls[j].conn # 0 => calls[j].conn \in DOMAIN conns
      BY Known DEF IInv
    <3>2. calls'[j] = calls[j] /\ Discipline(j) /\ Holds(j)
      BY <1>1, <2>2 DEF IInv, Locks
    <3>3. Discipline(j)'
      BY <1>10, <3>1, <3>2 DEF Discipline
    <3>4. Holds(j)'
      BY <1>10, <3>1, <3>2 DEF Holds
    <3> QED
      BY <3>3, <3>4
  <2> QED
    BY <2>1, <2>2
<1>13. ASSUME NEW x \in DOMAIN conns
       PROVE  Lease(x)'
  <2>1. Lease(x) /\ x # 0
    BY ConnTypes DEF IInv, Locks
  <2>2. \A j \in Calls : calls[j].conn = x => calls'[j] = calls[j]
    BY <1>1, <1>6, <2>1
  <2> QED
    BY <1>10, <2>1, <2>2 DEF Lease
<1>14. ASSUME NEW x \in DOMAIN adapters
       PROVE  Holder(x)'
  <2>1. Holder(x)
    BY DEF IInv, Locks
  <2>2. \A j \in Calls : calls[j].conn # 0 => calls'[j] = calls[j]
    BY <1>1, <1>6
  <2> QED
    BY <1>5, <1>10, <2>1, <2>2 DEF Holder
<1>15. Locks'
  BY <1>5, <1>12, <1>13, <1>14 DEF Locks
<1>16. TypeOK'
  <2>1. \A j \in Calls : j # k => calls'[j].conn = calls[j].conn /\ calls'[j].entry = calls[j].entry
    BY <1>1
  <2>2. /\ entries' \in Seq(Entry) /\ Len(entries) <= Len(entries') /\ adapters' \in Seq(Adapter)
        /\ Len(adapters') = Len(entries') /\ file' \in 0..Len(entries') /\ unseen' \subseteq Clients
        /\ calls'[k].entry \in 0..Len(entries')
    BY <1>1 DEF IInv, TypeOK
  <2>3. calls'[k].conn \in 0..Len(conns') /\ Len(conns) <= Len(conns')
    BY <1>1, <1>2, <1>5
  <2> QED
    BY <1>1, <1>5, <1>8, <2>1, <2>2, <2>3, TypeKept DEF IInv
<1> QED
  BY <1>7, <1>9, <1>11, <1>15, <1>16 DEF IInv, Places

LEMMA CloseArrivesInv ==
  ASSUME IInv, NEW k \in Calls, NEW cl \in Clients, NEW c \in DOMAIN conns, Close(k, cl, c)
  PROVE  IInv'
<1> DEFINE d == [Idle EXCEPT !.op = "close", !.at = "queued", !.client = cl, !.conn = c]
<1>1. /\ Quiet /\ calls[k] = Idle /\ conns[c].owner = cl
      /\ \A j \in InFlight(cl) : calls[j].op = "close"
      /\ calls' = [calls EXCEPT ![k] = d] /\ Enqueue(k, c, conns[c])
      /\ closing' = closing \cup {cl} /\ UNCHANGED <<file, entries, adapters, sent, unseen>>
  BY DEF Close, MayCall, LiveConns
<1>2. /\ d \in Call /\ d.conn = c /\ d.client = cl /\ d.at = "queued" /\ d.op = "close"
      /\ d.entry = 0
  BY ConnTypes DEF IInv, Idle, Call
<1> HIDE DEF d
<1>3. \A j \in Calls : calls[j].client = cl => calls[j].op = "close"
  BY <1>1 DEF InFlight
<1>4. \A j \in Calls : calls[j].conn # 0 /\ calls[j].op # "close" => calls[j].client \notin closing'
  BY <1>1, <1>3 DEF IInv, Locks, Discipline
<1>5. \A j \in Calls : calls[j].conn = c => calls[j].op \in {"write", "close"}
  BY <1>1, <1>3, ConnTypes DEF IInv, Places, Place
<1>6. /\ 0 \in 0..Len(entries) /\ sent' \in 0..MaxExecs /\ closing \subseteq closing'
      /\ closing' \subseteq Clients /\ cl \in closing'
  BY <1>1 DEF IInv, TypeOK
<1> QED
  BY <1>1, <1>2, <1>4, <1>5, <1>6, ArriveInv

LEMMA ExecArrivesInv ==
  ASSUME IInv, NEW k \in Calls, NEW cl \in Clients, NEW c \in DOMAIN conns,
         NEW op \in {"begin", "end", "write", "get"}, Exec(k, cl, c, op)
  PROVE  IInv'
<1>1. PICK f, inTx : f = file /\ inTx = (conns[c].mode = "tx")
  OBVIOUS
<1> DEFINE d == [Idle EXCEPT !.op = op, !.at = "queued", !.client = cl, !.conn = c,
                             !.entry = f, !.inTx = inTx]
<1>2. /\ Quiet /\ calls[k] = Idle /\ conns[c].owner = cl /\ conns[c].live /\ cl \notin closing
      /\ sent < MaxExecs /\ MaySend(c, op) /\ f # 0
      /\ calls' = [calls EXCEPT ![k] = d] /\ Enqueue(k, c, conns[c])
      /\ sent' = sent + 1 /\ UNCHANGED <<file, entries, adapters, closing, unseen>>
  BY <1>1 DEF Exec, MayCall, LiveConns
<1>3. f \in 0..Len(entries) /\ f \in Nat /\ c \in Nat /\ c # 0 /\ inTx \in BOOLEAN
  BY <1>1, ConnTypes DEF IInv, TypeOK
<1>4. /\ d \in Call /\ d.conn = c /\ d.client = cl /\ d.at = "queued" /\ d.op = op
      /\ d.entry = f /\ d.inTx = inTx
  BY <1>3 DEF Idle, Call
<1> HIDE DEF d
<1>5. sent' \in 0..MaxExecs /\ closing' = closing /\ closing' \subseteq Clients
  <2>1. sent \in 0..MaxExecs /\ MaxExecs \in Nat
    BY BoundsAssumption DEF IInv, TypeOK
  <2> QED
    BY <1>2, <2>1 DEF IInv, TypeOK
<1>6. /\ op = "begin" => conns[c].mode = "auto" /\ On(c) = {}
      /\ op = "get" => conns[c].mode = "auto" /\ On(c) = {}
      /\ op = "end" => conns[c].mode # "auto" /\ \A j \in On(c) : calls[j].op = "write"
      /\ op = "write" => conns[c].mode # "failed" /\ \A j \in On(c) : calls[j].op = "write"
  BY <1>2 DEF MaySend
<1>7. /\ op \in {"begin", "get"} => \A j \in Calls : calls[j].conn # c
      /\ op \notin {"begin", "get"} =>
           \A j \in Calls : calls[j].conn = c => calls[j].op \in {"write", "close"}
  BY <1>6 DEF On
<1>8. \A j \in Calls : calls[j].conn # 0 /\ calls[j].op # "close" => calls[j].client \notin closing'
  BY <1>5 DEF IInv, Locks, Discipline
<1>9. /\ d.op = "write" => conns[c].mode # "failed" /\ (d.inTx <=> conns[c].mode = "tx")
      /\ d.op \in {"begin", "get"} => conns[c].mode = "auto" /\ ~d.inTx
      /\ d.op = "end" => conns[c].mode # "auto"
  BY <1>1, <1>4, <1>6
<1>10. /\ d.client = conns[c].owner /\ d.op # "close" /\ d.client \notin closing' /\ conns[c].live
       /\ d.entry \in 0..Len(entries) /\ d.entry # 0 /\ closing \subseteq closing'
  BY <1>2, <1>3, <1>4, <1>5
<1> QED
  BY <1>2, <1>4, <1>5, <1>7, <1>8, <1>9, <1>10, ArriveInv

-----------------------------------------------------------------------------
LEMMA InitIInv == Init => IInv
<1> SUFFICES ASSUME Init PROVE IInv
  OBVIOUS
<1>1. /\ file = 0 /\ entries = <<>> /\ adapters = <<>> /\ conns = <<>> /\ ready = <<>>
      /\ calls = [k \in Calls |-> Idle] /\ closing = {} /\ sent = 0 /\ unseen = {}
      /\ DOMAIN (<<>>) = {} /\ \A S : <<>> \in Seq(S)
      /\ Len(<<>>) = 0 /\ 0 \in 0..0 /\ 0 \in 0..MaxExecs
  BY BoundsAssumption DEF Init
<1>2. \A k \in Calls : calls[k] = Idle
  BY <1>1
<1>3. TypeOK
  BY <1>1, <1>2, IdleCall DEF TypeOK
<1>4. Places
  BY <1>2, IdleCall DEF Places, Place, OpenPlaces
<1>5. Lines
  BY <1>1, <1>2, IdleCall DEF Lines, InLine, Turns
<1>6. Waits
  BY <1>1 DEF Waits
<1>7. Locks
  BY <1>1, <1>2, IdleCall DEF Locks, Discipline, Holds
<1> QED
  BY <1>3, <1>4, <1>5, <1>6, <1>7 DEF IInv

LEMMA Unchanged == IInv /\ UNCHANGED vars => IInv'
<1> SUFFICES ASSUME IInv, UNCHANGED vars PROVE IInv'
  OBVIOUS
<1>1. UNCHANGED <<file, entries, adapters, conns, calls, ready, closing, sent, unseen>>
  BY DEF vars, page, clients
<1>2. TypeOK'
  BY <1>1 DEF IInv, TypeOK
<1>3. Places' /\ Waits'
  BY <1>1 DEF IInv, Places, Place, Waits
<1>4. Lines'
  BY <1>1 DEF IInv, Lines, Line, InLine, Turns, First
<1>5. Locks'
  BY <1>1 DEF IInv, Locks, Discipline, Holds, Lease, Holder
<1> QED
  BY <1>2, <1>3, <1>4, <1>5 DEF IInv

(* Every step keeps the inductive invariant.                               *)
LEMMA NextIInv == IInv /\ [Next]_vars => IInv'
<1> SUFFICES ASSUME IInv, [Next]_vars PROVE IInv'
  OBVIOUS
<1>1. CASE Finished \/ UNCHANGED vars
  BY <1>1, Unchanged DEF Finished
<1>2. ASSUME NEW k \in Calls, Arrives(k)
      PROVE  IInv'
  <2>1. PICK cl \in Clients :
          \/ Open(k, cl)
          \/ \E c \in DOMAIN conns : Close(k, cl, c) \/ \E op \in Statements : Exec(k, cl, c, op)
    BY <1>2 DEF Arrives
  <2>2. CASE Open(k, cl)
    BY <2>2, OpenArrivesInv
  <2>3. CASE \E c \in DOMAIN conns : Close(k, cl, c)
    BY <2>3, CloseArrivesInv
  <2>4. CASE \E c \in DOMAIN conns : \E op \in Statements : Exec(k, cl, c, op)
    BY <2>4, ExecArrivesInv, BoundsAssumption
  <2> QED
    BY <2>1, <2>2, <2>3, <2>4
<1>3. ASSUME NEW k \in Calls, Resume(k)
      PROVE  IInv'
  BY <1>3, ResumeOpeningInv, ResumeWaitingInv, ResumeOpenedInv, CloseRunInv, CloseGoneInv,
     CloseSharedInv, CloseLastInv, ResumeClosingInv, ExecRunInv DEF Resume
<1>4. ASSUME NEW k \in Calls, OpensCloses(k)
      PROVE  IInv'
  BY <1>4, OpenDoneInv, CloseDoneInv, RollbackDoneInv DEF OpensCloses
<1>5. ASSUME NEW k \in Calls, Executes(k)
      PROVE  IInv'
  BY <1>5, LockGrantedInv, BeginDoneInv, BeginFailsInv, GetDoneInv, EndDoneInv, WriteDoneInv
     DEF Executes
<1> QED
  BY <1>1, <1>2, <1>3, <1>4, <1>5 DEF Next

(* The inductive invariant holds in every reachable state, whatever the    *)
(* clients, the bounds and what openDB answers.                            *)
THEOREM Inductive == Spec => []IInv
BY InitIInv, NextIInv, PTL DEF Spec

(* Every variable keeps its type: queues and waiters hold calls, and a call*)
(* names a connection and an entry that exist.                             *)
THEOREM TypeCorrect == Spec => []TypeOK
<1>1. IInv => TypeOK
  BY DEF IInv
<1> QED
  BY <1>1, Inductive, PTL

LEMMA IInvIsolation == IInv => Isolation
<1> SUFFICES ASSUME IInv, NEW k \in Calls, calls[k].at = "stmt", calls[k].op # "end"
             PROVE  adapters[calls[k].entry].tx = IF calls[k].inTx THEN calls[k].conn ELSE 0
  BY DEF Isolation
<1>1. PICK c, e : c = calls[k].conn /\ e = calls[k].entry
  OBVIOUS
<1>2. /\ c # 0 /\ First(k) /\ e # 0 /\ conns[c].live /\ calls[k].op # "close"
      /\ c \in DOMAIN conns
      /\ conns[c].lease \in {0, e} /\ Lease(c) /\ Discipline(k) /\ Holds(k)
  BY <1>1, StatementTurn
<1>3. /\ conns[c].lease # 0 /\ conns[c].mode # "tx" => calls[k].op = "begin"
      /\ calls[k].client = conns[c].owner
      /\ calls[k].op \in {"begin", "write", "get"}
  BY <1>1, <1>2, Turn, Known DEF IInv
<1>4. CASE conns[c].lease = 0
  <2>1. conns[c].mode # "tx"
    BY <1>1, <1>2, <1>3, <1>4 DEF Lease, Discipline
  <2>2. adapters[e].tx = 0
    BY <1>1, <1>2, <1>4 DEF Holds
  <2>3. ~calls[k].inTx
    BY <1>1, <1>2, <1>3, <2>1 DEF Discipline
  <2> QED
    BY <1>1, <2>2, <2>3
<1>5. CASE conns[c].lease # 0 /\ calls[k].op = "begin"
  BY <1>1, <1>2, <1>5 DEF Holds, Discipline
<1>6. CASE conns[c].lease # 0 /\ calls[k].op # "begin"
  <2>1. conns[c].mode = "tx" /\ calls[k].op = "write"
    BY <1>1, <1>2, <1>3, <1>6 DEF Discipline
  <2>2. calls[k].inTx
    BY <1>1, <1>2, <2>1 DEF Discipline
  <2>3. adapters[e].tx = c
    BY <1>2, <1>6, <2>1 DEF Lease
  <2> QED
    BY <1>1, <2>2, <2>3
<1> QED
  BY <1>4, <1>5, <1>6

(* A statement runs in the transaction its client sent it in, and in no    *)
(* other connection's (executeOnHeldOrLock, the connection queues, the     *)
(* held lease), whatever the number of clients and connections.            *)
THEOREM Isolated == Spec => []Isolation
BY Inductive, IInvIsolation, PTL

LEMMA IInvNoDeadLease == IInv => NoDeadLease
<1> SUFFICES ASSUME IInv, NEW e \in DOMAIN adapters, adapters[e].holder # 0,
                    NEW c, c = adapters[e].holder
             PROVE  /\ conns[c].live
                    /\ conns[c].lease = e \/ \E k \in On(c) : calls[k].at \in {"stmt", "rolling"}
  BY DEF NoDeadLease
<1>1. Holder(e) /\ e # 0
  BY EntryTypes DEF IInv, Locks
<1>2. CASE conns[c].lease = e
  BY <1>1, <1>2 DEF Holder, IInv, Locks, Lease
<1>3. CASE conns[c].lease # e
  <2>1. PICK k \in Calls : calls[k].conn = c /\ calls[k].at \in {"stmt", "rolling"}
    BY <1>1, <1>3 DEF Holder
  <2>2. conns[c].live
    BY <2>1 DEF IInv, Locks, Holds, Discipline
  <2> QED
    BY <2>1, <2>2 DEF On
<1> QED
  BY <1>2, <1>3

(* Only a live connection has an adapter's lock: no close and no failed    *)
(* BEGIN leaves a lease behind (abortHeldLease, withLock), whatever the    *)
(* number of clients and connections.                                      *)
THEOREM NoDeadHolder == Spec => []NoDeadLease
BY Inductive, IInvNoDeadLease, PTL

-----------------------------------------------------------------------------
(* At most one open call waits for what is pending on the file.  openFile  *)
(* looks at the map a second time after the wait but not at what is pending*)
(* then: two that wake together would both make an entry.                  *)
OneWaits ==
  \A j, k \in Calls : calls[j].at = "waiting" /\ calls[k].at = "waiting" => j = k

(* The call whose opening or closing of the adapter is pending.            *)
Pending(k) == calls[k].at \in {"opening", "closing"}
AtDoor(k)  == calls[k].at \in {"opening", "closing", "waiting"}

Has(s, x) == \E i \in DOMAIN s : s[i] = x
Once(s)   == \A i, j \in DOMAIN s : s[i] = s[j] => i = j

Awake(k) == Has(ready, k)

(* One call at most is pending, on the current entry, and pending says so. *)
OnePending ==
  /\ \A j, k \in Calls : Pending(j) /\ Pending(k) => j = k
  /\ \A k \in Calls : Pending(k) =>
       file # 0 /\ calls[k].entry = file /\ entries[file].pending = calls[k].at
  /\ file # 0 /\ entries[file].pending # "none" => \E k \in Calls : Pending(k)

(* The state of the adapters: that of the current entry is open when       *)
(* nothing is pending; the others are closed.                              *)
Adapters ==
  /\ file # 0 =>
       /\ entries[file].pending = "none" =>
            entries[file].adapter /\ adapters[file].state = "open"
       /\ entries[file].waiters # <<>> =>
            entries[file].pending # "none" /\ Len(entries[file].waiters) = 1
  /\ \A e \in DOMAIN entries : e # file =>
       adapters[e].state = "closed" /\ entries[e].waiters = <<>>

(* What the adapter has answered the pending call that is about to run.    *)
Answers ==
  \A k \in Calls :
    /\ calls[k].at = "opening" =>
         IF Awake(k)
         THEN /\ adapters[file].state # "opening"
              /\ entries[file].adapter <=> adapters[file].state = "open"
              /\ entries[file].adapter => calls[k].ok
         ELSE adapters[file].state = "opening"
    /\ calls[k].at = "closing" =>
         /\ entries[file].adapter
         /\ adapters[file].state = IF Awake(k) /\ calls[k].ok THEN "closed" ELSE "open"
    /\ Pending(k) /\ Awake(k) => entries[file].waiters = <<>>

(* The pending call runs before the one that waited for it, and that one   *)
(* before anybody else.                                                    *)
Order ==
  /\ \A i \in DOMAIN ready :
       /\ Pending(ready[i]) => i = 1
       /\ calls[ready[i]].at = "waiting" =>
            \/ i = 1 /\ \A k \in Calls : ~Pending(k)
            \/ i = 2 /\ Pending(ready[1])
  /\ \A k \in Calls : calls[k].at = "waiting" =>
       \/ Awake(k)
       \/ /\ file # 0 /\ calls[k].entry = file
          /\ Has(entries[file].waiters, k)

Gate == OnePending /\ Adapters /\ Answers /\ Order

(* Whom refCount counts: the connections in use, and the calls about to    *)
(* make one.                                                               *)
Live   == {c \in DOMAIN conns : conns[c].live}
Opened == {k \in Calls : calls[k].at = "opened"}
Users  == Cardinality(Live) + Cardinality(Opened)

Counted ==
  /\ IsFiniteSet(Opened)
  /\ file = 0 => Users = 0
  /\ file # 0 =>
       /\ entries[file].refs = Users
       /\ entries[file].pending = "opening" => Users = 0
       /\ entries[file].pending = "closing" => Users = 1
       /\ entries[file].pending = "none" => Users >= 1

(* Who is to run next, is.                                                 *)
Alert ==
  /\ Once(ready)
  /\ \A k \in Calls :
       /\ calls[k].at \in {"opened", "drop"} => Awake(k)
       /\ calls[k].at = "queued" /\ First(k) => Awake(k)

(* What a call's step says of its kind.                                    *)
Kinds ==
  \A k \in Calls :
    /\ calls[k].at = "idle" => calls[k] = Idle
    /\ calls[k].at \in {"waiting", "opening", "opened"} => calls[k].op = "open"

(* Statements and leases are of the current entry, and so is the stash.    *)
Current ==
  /\ \A k \in Calls : calls[k].op \in {"begin", "end", "write", "get"} => calls[k].entry = file
  /\ \A c \in DOMAIN conns : conns[c].live => conns[c].lease \in {0, file}
  /\ file # 0 /\ entries[file].pending = "opening" => unseen = {}
  /\ NoUpdateLost

Doors == Gate /\ Counted /\ Alert /\ Kinds /\ Current

(* A client has one open call at a time, and none while it closes.         *)
Distinct ==
  /\ \A j, k \in Calls :
       calls[j].op = "open" /\ calls[k].op = "open" /\ calls[j].client = calls[k].client => j = k
  /\ \A k \in Calls : calls[k].op = "open" => calls[k].client \notin closing

-----------------------------------------------------------------------------
(* Counting the users of the file.                                         *)
LEMMA Counts ==
  ASSUME TypeOK, IsFiniteSet(Opened)
  PROVE  /\ IsFiniteSet(Live) /\ Cardinality(Live) \in Nat /\ Cardinality(Opened) \in Nat
         /\ Users \in Nat
         /\ Users = 0 => Live = {} /\ Opened = {}
         /\ Live # {} => Users >= 1
         /\ \A c, d \in Live : Users = 1 => c = d
         /\ \A c \in Live : \A k \in Opened : Users > 1
<1>1. IsFiniteSet(Live)
  <2>1. Len(conns) \in Nat /\ DOMAIN conns = 1..Len(conns)
    BY DEF TypeOK
  <2>2. IsFiniteSet(1..Len(conns)) /\ Live \subseteq 1..Len(conns)
    BY <2>1, FS_Interval DEF Live
  <2> QED
    BY <2>2, FS_Subset
<1>2. /\ Cardinality(Live) \in Nat /\ Cardinality(Opened) \in Nat
      /\ Cardinality(Live) = 0 <=> Live = {}
      /\ Cardinality(Opened) = 0 <=> Opened = {}
  BY <1>1, FS_CardinalityType, FS_EmptySet
<1>3. Users = Cardinality(Live) + Cardinality(Opened)
  BY DEF Users
<1>4. ASSUME NEW c \in Live, NEW d \in Live, Users = 1
      PROVE  c = d
  <2>1. Cardinality(Live) = 1
    BY <1>2, <1>3, <1>4
  <2>2. IsFiniteSet(Live \ {c}) /\ Cardinality(Live \ {c}) = 0
    BY <1>1, <1>4, <2>1, FS_RemoveElement
  <2>3. Live \ {c} = {}
    BY <2>2, FS_EmptySet
  <2> QED
    BY <1>4, <2>3
<1>5. ASSUME NEW c \in Live, NEW k \in Opened
      PROVE  Users > 1
  <2>1. Live # {} /\ Opened # {}
    BY <1>5
  <2> QED
    BY <1>2, <1>3, <2>1
<1> QED
  BY <1>1, <1>2, <1>3, <1>4, <1>5

(* A live connection keeps the file: it is not being opened, and being     *)
(* closed only by the call of its own client.                              *)
LEMMA LiveFile ==
  ASSUME IInv, OnePending, Counted, NEW c \in Live
  PROVE  /\ file # 0 /\ entries[file].refs = Users /\ Users >= 1
         /\ entries[file].pending # "opening"
         /\ entries[file].pending = "closing" =>
              /\ Users = 1 /\ \A d \in Live : d = c
              /\ \A k \in Calls : Pending(k) => calls[k].conn = c /\ conns[c].owner \in closing
<1>1. Live # {} /\ TypeOK
  BY DEF IInv
<1>2. Users \in Nat /\ Users >= 1
  BY <1>1, Counts DEF Counted
<1>3. file # 0 /\ entries[file].refs = Users /\ entries[file].pending # "opening"
  BY <1>2 DEF Counted
<1>4. ASSUME entries[file].pending = "closing"
      PROVE  /\ Users = 1 /\ \A d \in Live : d = c
             /\ \A k \in Calls : Pending(k) => calls[k].conn = c /\ conns[c].owner \in closing
  <2>1. Users = 1
    BY <1>3, <1>4 DEF Counted
  <2>2. \A d \in Live : d = c
    BY <1>1, <2>1, Counts DEF Counted
  <2>3. ASSUME NEW k \in Calls, Pending(k)
        PROVE  calls[k].conn = c /\ conns[c].owner \in closing
    <3>1. calls[k].at = "closing"
      BY <1>4, <2>3 DEF OnePending
    <3>2. calls[k].conn # 0
      BY <3>1 DEF IInv, Places, Place, OpenPlaces
    <3>3. /\ calls[k].conn \in DOMAIN conns /\ calls[k].client = conns[calls[k].conn].owner
          /\ conns[calls[k].conn].live /\ calls[k].op = "close" /\ calls[k].client \in closing
      BY <3>1, <3>2, Known DEF IInv, Locks, Holds, Discipline
    <3>4. calls[k].conn = c
      BY <2>2, <3>3 DEF Live
    <3> QED
      BY <3>3, <3>4
  <2> QED
    BY <2>1, <2>2, <2>3
<1> QED
  BY <1>2, <1>3, <1>4

(* A statement runs on the current entry while nothing is pending on it.   *)
LEMMA StatementFile ==
  ASSUME IInv, Gate, Counted, Current, NEW k \in Calls,
         calls[k].op \in {"begin", "end", "write", "get"}
  PROVE  /\ calls[k].entry = file /\ file # 0 /\ calls[k].conn \in Live
         /\ entries[file].pending = "none" /\ entries[file].adapter
         /\ adapters[file].state = "open"
<1>1. calls[k].entry = file /\ calls[k].conn # 0
  BY DEF Current, IInv, Places, Place
<1>2. /\ calls[k].conn \in DOMAIN conns /\ conns[calls[k].conn].live
      /\ conns[calls[k].conn].owner \notin closing
  BY <1>1, Known DEF IInv, Locks, Discipline
<1>3. calls[k].conn \in Live
  BY <1>2 DEF Live
<1>4. file # 0 /\ entries[file].pending \notin {"opening", "closing"}
  <2>1. file # 0 /\ entries[file].pending # "opening"
    BY <1>3, LiveFile DEF Gate
  <2>2. ASSUME entries[file].pending = "closing" PROVE FALSE
    <3>1. PICK j \in Calls : Pending(j)
      BY <2>1, <2>2 DEF Gate, OnePending
    <3> QED
      BY <1>2, <1>3, <2>2, <3>1, LiveFile DEF Gate
  <2> QED
    BY <2>1, <2>2
<1>5. entries[file].pending \in {"none", "opening", "closing"}
  BY <1>4, EntryTypes DEF IInv, Entry
<1> QED
  BY <1>1, <1>3, <1>4, <1>5 DEF Gate, Adapters

-----------------------------------------------------------------------------
LEMMA DoorsOneFactory == IInv /\ Doors => OneFactory
<1> SUFFICES ASSUME IInv, Doors PROVE OneFactory
  OBVIOUS
<1> DEFINE S == {e \in DOMAIN adapters : adapters[e].state # "closed"}
<1>1. S \subseteq {file}
  BY EntryTypes DEF Doors, Gate, Adapters, IInv
<1> HIDE DEF S
<1>2. S = {} \/ S = {file}
  BY <1>1
<1>3. Cardinality(S) = 0 \/ Cardinality(S) = 1
  BY <1>2, FS_EmptySet, FS_Singleton
<1> QED
  BY <1>3 DEF OneFactory, S

LEMMA DoorsRefCountExact == IInv /\ Doors => RefCountExact
<1> SUFFICES ASSUME IInv, Doors PROVE RefCountExact
  OBVIOUS
<1>1. Users = Cardinality({c \in DOMAIN conns : conns[c].live})
                + Cardinality({k \in Calls : calls[k].at = "opened"})
  BY DEF Users, Live, Opened
<1>2. CASE file = 0
  BY <1>1, <1>2 DEF RefCountExact, Doors, Counted
<1>3. CASE file # 0
  <2>1. entries[file].pending \in {"none", "opening", "closing"}
    BY <1>3, EntryTypes DEF IInv, Entry
  <2>2. /\ entries[file].refs = Users
        /\ entries[file].pending = "opening" => Users = 0
        /\ entries[file].pending = "none" => adapters[file].state = "open"
    BY <1>3 DEF Doors, Counted, Gate, Adapters
  <2>3. Users > 0 /\ entries[file].pending # "closing" => adapters[file].state = "open"
    BY <2>1, <2>2
  <2> QED
    BY <1>1, <1>3, <2>2, <2>3 DEF RefCountExact
<1> QED
  BY <1>2, <1>3

LEMMA DoorsNoCallForgotten == IInv /\ Doors => NoCallForgotten
<1> SUFFICES ASSUME IInv, Doors, NEW k \in Calls,
                    calls[k] # Idle, ~Contains(ready, k),
                    calls[k].at \notin {"opening", "closing", "rolling", "stmt"}
             PROVE  \/ calls[k].at = "lock" /\ adapters[calls[k].entry].state = "open"
                    \/ /\ calls[k].at = "waiting" /\ Contains(entries[calls[k].entry].waiters, k)
                       /\ \E j \in Calls : /\ calls[j].at \in {"opening", "closing"}
                                          /\ calls[j].entry = calls[k].entry
                    \/ /\ calls[k].at = "queued" /\ Contains(Tail(conns[calls[k].conn].queue), k)
                       /\ LET first == Head(conns[calls[k].conn].queue) IN
                            \/ Contains(ready, first)
                            \/ calls[first].at \in {"lock", "stmt", "rolling", "closing"}
  BY DEF NoCallForgotten
<1>1. ~Awake(k)
  <2>1. DOMAIN ready = 1..Len(ready)
    BY DEF IInv, TypeOK
  <2> QED
    BY <2>1 DEF Contains, Awake, Has
<1>2. calls[k].at \in {"waiting", "queued", "lock"}
  <2>1. calls[k] \in Call
    BY DEF IInv, TypeOK
  <2> QED
    BY <1>1, <2>1 DEF Call, Doors, Kinds, Alert
<1>3. CASE calls[k].at = "waiting"
  <2>1. /\ file # 0 /\ calls[k].entry = file /\ Contains(entries[file].waiters, k)
        /\ entries[file].waiters # <<>>
    BY <1>1, <1>3 DEF Doors, Gate, Order, Contains, Has
  <2>2. PICK j \in Calls : Pending(j)
    BY <2>1 DEF Doors, Gate, Adapters, OnePending
  <2> QED
    BY <1>3, <2>1, <2>2 DEF Doors, Gate, OnePending, Pending
<1>4. CASE calls[k].at = "lock"
  <2>1. calls[k].conn # 0 /\ calls[k].op # "close"
    BY <1>4 DEF IInv, Places, Place, OpenPlaces, Locks, Holds
  <2>2. calls[k].op \in {"begin", "end", "write", "get"}
    BY <2>1, Known DEF IInv
  <2> QED
    BY <1>4, <2>2, StatementFile DEF Doors
<1>5. CASE calls[k].at = "queued"
  <2>1. calls[k].conn # 0 /\ ~First(k)
    BY <1>1, <1>5 DEF IInv, Places, Place, OpenPlaces, Doors, Alert
  <2> DEFINE q == conns[calls[k].conn].queue
  <2>2. PICK i \in DOMAIN q : q[i] = k
    BY <2>1 DEF IInv, Lines, InLine
  <2>3. /\ q \in Seq(Calls) /\ q # <<>> /\ Head(q) = q[1] /\ 1 \in DOMAIN q /\ q[1] \in Calls
        /\ calls[q[1]].conn = calls[k].conn
    <3>1. q \in Seq(Calls) /\ \A m \in DOMAIN q : q[m] \in Calls /\ calls[q[m]].conn = calls[k].conn
      BY <2>1, Known, ConnTypes DEF IInv, Lines, Line
    <3> HIDE DEF q
    <3>2. q # <<>> /\ Head(q) = q[1] /\ 1 \in DOMAIN q
      BY <2>2, <3>1
    <3> QED
      BY <3>1, <3>2
  <2>4. Contains(Tail(q), k)
    <3>1. i # 1
      BY <2>1, <2>2, <2>3 DEF First
    <3> HIDE DEF q
    <3>2. i - 1 \in DOMAIN Tail(q) /\ Tail(q)[i - 1] = q[i]
      BY <2>2, <2>3, <3>1
    <3> QED
      BY <2>2, <3>2 DEF Contains
  <2>5. First(Head(q))
    BY <2>3 DEF First
  <2>6. calls[Head(q)].at \in {"queued", "rolling", "drop", "closing", "lock", "stmt"}
    BY <2>1, <2>3, Known DEF IInv
  <2>7. calls[Head(q)].at \in {"queued", "drop"} => Contains(ready, Head(q))
    BY <2>3, <2>5 DEF Doors, Alert, Awake, Contains, Has
  <2> QED
    BY <1>5, <2>4, <2>6, <2>7
<1> QED
  BY <1>2, <1>3, <1>4, <1>5

-----------------------------------------------------------------------------
(* Sequences that hold nothing twice.                                      *)
LEMMA TailOnce ==
  ASSUME NEW S, NEW s \in Seq(S), s # <<>>
  PROVE  /\ Tail(s) \in Seq(S) /\ Head(s) = s[1] /\ Head(s) \in S /\ Has(s, Head(s))
         /\ \A x : Has(s, x) <=> x = Head(s) \/ Has(Tail(s), x)
         /\ Once(s) => Once(Tail(s)) /\ ~Has(Tail(s), Head(s))
         /\ \A i \in DOMAIN Tail(s) : i + 1 \in DOMAIN s /\ Tail(s)[i] = s[i + 1] /\ i + 1 # 1
         /\ \A i \in DOMAIN s : i \in Nat /\ i >= 1
         /\ \A i \in DOMAIN Tail(s) : i \in Nat /\ i >= 1
<1> DEFINE t == Tail(s)
<1>1. /\ t \in Seq(S) /\ Head(s) = s[1] /\ Len(s) \in Nat /\ Len(s) > 0
      /\ DOMAIN s = 1..Len(s) /\ DOMAIN t = 1..(Len(s) - 1) /\ s[1] \in S
      /\ \A i \in 1..(Len(s) - 1) : t[i] = s[i + 1]
  OBVIOUS
<1> HIDE DEF t
<1>2. /\ \A i \in DOMAIN t : i + 1 \in DOMAIN s /\ t[i] = s[i + 1] /\ i + 1 # 1
      /\ 1 \in DOMAIN s
      /\ \A i \in DOMAIN s : i # 1 => i - 1 \in DOMAIN t /\ t[i - 1] = s[i]
      /\ \A i, j \in DOMAIN t : i + 1 = j + 1 => i = j
      /\ \A i \in DOMAIN s : i \in Nat /\ i >= 1
      /\ \A i \in DOMAIN t : i \in Nat /\ i >= 1
  BY <1>1
<1>3. ASSUME NEW x
      PROVE  Has(s, x) <=> x = s[1] \/ Has(t, x)
  <2>1. Has(t, x) => Has(s, x)
    BY <1>2 DEF Has
  <2>2. x = s[1] => Has(s, x)
    BY <1>2 DEF Has
  <2>3. ASSUME NEW i \in DOMAIN s, s[i] = x, x # s[1]
        PROVE  Has(t, x)
    <3>1. i - 1 \in DOMAIN t /\ t[i - 1] = x
      BY <1>2, <2>3
    <3> QED
      BY <3>1 DEF Has
  <2> QED
    BY <2>1, <2>2, <2>3 DEF Has
<1>4. ASSUME Once(s)
      PROVE  Once(t) /\ ~Has(t, s[1])
  <2>1. ASSUME NEW i \in DOMAIN t, NEW j \in DOMAIN t, t[i] = t[j]
        PROVE  i = j
    <3>1. s[i + 1] = s[j + 1] /\ i + 1 \in DOMAIN s /\ j + 1 \in DOMAIN s
      BY <1>2, <2>1
    <3>2. i + 1 = j + 1
      BY <1>4, <3>1 DEF Once
    <3> QED
      BY <1>2, <3>2
  <2>2. \A i \in DOMAIN t : t[i] # s[1]
    BY <1>2, <1>4 DEF Once
  <2> QED
    BY <2>1, <2>2 DEF Once, Has
<1> QED
  BY <1>1, <1>2, <1>3, <1>4 DEF t, Has

LEMMA AppendOnce ==
  ASSUME NEW S, NEW s \in Seq(S), NEW x \in S
  PROVE  /\ Append(s, x) \in Seq(S)
         /\ \A y : Has(Append(s, x), y) <=> y = x \/ Has(s, y)
         /\ Once(s) /\ ~Has(s, x) => Once(Append(s, x))
         /\ \A i \in DOMAIN Append(s, x) :
              \/ i \in DOMAIN s /\ Append(s, x)[i] = s[i]
              \/ Append(s, x)[i] = x
<1> DEFINE t == Append(s, x)
<1>1. PICK n \in Nat : n = Len(s) + 1
  OBVIOUS
<1>2. /\ t \in Seq(S) /\ DOMAIN s = 1..(n - 1) /\ DOMAIN t = 1..n /\ t[n] = x
      /\ \A i \in 1..(n - 1) : t[i] = s[i]
  BY <1>1
<1> HIDE DEF t
<1>3. /\ \A i \in DOMAIN s : i \in DOMAIN t /\ t[i] = s[i]
      /\ \A i \in DOMAIN t : i \in DOMAIN s \/ i = n
      /\ n \in DOMAIN t
  BY <1>1, <1>2
<1>4. \A y : Has(t, y) <=> y = x \/ Has(s, y)
  BY <1>2, <1>3 DEF Has
<1>5. ASSUME Once(s), ~Has(s, x)
      PROVE  Once(t)
  BY <1>2, <1>3, <1>5 DEF Has, Once
<1> QED
  BY <1>2, <1>3, <1>4, <1>5 DEF t

LEMMA SingleOnce ==
  /\ \A x : Once(<<x>>) /\ \A y : Has(<<x>>, y) <=> y = x
  /\ Once(<<>>) /\ \A y : ~Has(<<>>, y)
<1>1. ASSUME NEW x
      PROVE  Once(<<x>>) /\ \A y : Has(<<x>>, y) <=> y = x
  <2> DEFINE s == <<x>>
  <2>1. DOMAIN s = {1} /\ s[1] = x
    OBVIOUS
  <2> HIDE DEF s
  <2>2. Once(s) /\ \A y : Has(s, y) <=> y = x
    BY <2>1 DEF Once, Has
  <2> QED
    BY <2>2 DEF s
<1>2. DOMAIN (<<>>) = {}
  OBVIOUS
<1> QED
  BY <1>1, <1>2 DEF Once, Has

(* Those to run after a call is answered: those that were, without it, and *)
(* the next of its queue, which was not.                                   *)
LEMMA AfterAnswer ==
  ASSUME IInv, Once(ready), NEW k \in Calls, NEW c, c = calls[k].conn, c # 0, First(k),
         \/ ready # <<>> /\ Head(ready) = k /\ ready' = Tail(ready) \o NextUp(c)
         \/ Quiet /\ ready' = NextUp(c)
  PROVE  /\ Once(ready')
         /\ \A j : Has(ready, j) /\ j # k => Has(ready', j)
         /\ \A j : Has(ready', j) => Has(ready, j) \/ (j \in Calls /\ calls[j].at = "queued")
         /\ Len(conns[c].queue) > 1 => Has(ready', conns[c].queue[2])
         /\ \A i \in DOMAIN ready' :
              \/ ready # <<>> /\ i \in DOMAIN Tail(ready) /\ ready'[i] = Tail(ready)[i]
              \/ ready'[i] \in Calls /\ calls[ready'[i]].at = "queued"
<1> DEFINE q == conns[c].queue
<1>1. /\ c \in DOMAIN conns /\ q \in Seq(Calls) /\ q # <<>> /\ Head(q) = k
      /\ \A i \in DOMAIN q : q[i] \in Calls /\ calls[q[i]].conn = c
      /\ \A i, j \in DOMAIN q : q[i] = q[j] => i = j
      /\ ready \in Seq(Calls)
  BY Known, ConnTypes DEF IInv, Lines, Line, First, TypeOK
<1>2. ASSUME Len(q) > 1
      PROVE  /\ q[2] \in Calls /\ q[2] # k /\ calls[q[2]].conn = c
             /\ calls[q[2]].at = "queued" /\ ~First(q[2]) /\ ~Has(ready, q[2])
  <2>1. 1 \in DOMAIN q /\ 2 \in DOMAIN q /\ 1 # 2 /\ q[1] = k
    <3> HIDE DEF q
    <3> QED
      BY <1>1, <1>2
  <2>2. q[2] \in Calls /\ q[2] # k /\ calls[q[2]].conn = c /\ ~First(q[2])
    BY <1>1, <2>1 DEF First
  <2>3. calls[q[2]].at = "queued"
    BY <2>2, Turn
  <2>4. ~Has(ready, q[2])
    BY <2>2, <2>3 DEF Has, IInv, Lines, Turns
  <2> QED
    BY <2>2, <2>3, <2>4
<1> DEFINE s == IF ready = <<>> THEN <<>> ELSE Tail(ready)
<1>3. /\ s \in Seq(Calls) /\ Once(s) /\ ~Has(s, k)
      /\ \A j : Has(ready, j) <=> (ready # <<>> /\ j = k) \/ Has(s, j)
  <2>1. CASE ready = <<>>
    <3>1. s = <<>> /\ <<>> \in Seq(Calls)
      BY <2>1
    <3> QED
      BY <2>1, <3>1, SingleOnce
  <2>2. CASE ready # <<>>
    BY <1>1, <2>2, TailOnce DEF Quiet
  <2> QED
    BY <2>1, <2>2
<1>4. ready' = s \o NextUp(c)
  <2>1. NextUp(c) \in Seq(Calls)
    <3>1. NextUp(c) = IF Len(q) > 1 THEN <<q[2]>> ELSE <<>>
      BY DEF NextUp
    <3> HIDE DEF q
    <3>2. CASE Len(q) > 1
      BY <1>2, <3>1, <3>2
    <3>3. CASE ~(Len(q) > 1)
      BY <3>1, <3>3
    <3> QED
      BY <3>2, <3>3
  <2>2. CASE Quiet /\ ready' = NextUp(c)
    <3>1. s = <<>>
      BY <2>2 DEF Quiet
    <3> HIDE DEF s
    <3> QED
      BY <2>1, <2>2, <3>1, ConcatEmptySeq
  <2>3. CASE ready # <<>> /\ ready' = Tail(ready) \o NextUp(c)
    BY <2>3
  <2> QED
    BY <2>2, <2>3
<1>7. \A i \in DOMAIN s : ready # <<>> /\ i \in DOMAIN Tail(ready) /\ s[i] = Tail(ready)[i]
  <2>1. CASE ready = <<>>
    BY <2>1
  <2>2. CASE ready # <<>>
    BY <2>2
  <2> QED
    BY <2>1, <2>2
<1> HIDE DEF s
<1>5. CASE Len(q) > 1
  <2>1. PICK x \in Calls : x = q[2]
    BY <1>2, <1>5
  <2>2. NextUp(c) = <<x>>
    BY <1>5, <2>1 DEF NextUp
  <2>3. ready' = Append(s, x)
    BY <1>3, <1>4, <2>2
  <2>4. /\ \A y : Has(Append(s, x), y) <=> y = x \/ Has(s, y)
        /\ Once(s) /\ ~Has(s, x) => Once(Append(s, x))
        /\ \A i \in DOMAIN Append(s, x) :
             \/ i \in DOMAIN s /\ Append(s, x)[i] = s[i]
             \/ Append(s, x)[i] = x
    BY <1>3, AppendOnce
  <2>5. ~Has(s, x) /\ calls[x].at = "queued"
    BY <1>2, <1>3, <1>5, <2>1
  <2> QED
    BY <1>3, <1>7, <2>1, <2>3, <2>4, <2>5
<1>6. CASE ~(Len(q) > 1)
  <2>1. ready' = s
    BY <1>3, <1>4, <1>6, ConcatEmptySeq DEF NextUp
  <2> QED
    BY <1>3, <1>6, <1>7, <2>1
<1> QED
  BY <1>5, <1>6

-----------------------------------------------------------------------------
(* Where the first to run is not at the door, nobody in line is.           *)
LEMMA NobodyAtDoor ==
  ASSUME IInv, Order, Quiet \/ (ready # <<>> /\ ~AtDoor(Head(ready)))
  PROVE  \A j : Has(ready, j) => ~AtDoor(j)
<1>1. CASE Quiet
  BY <1>1 DEF Quiet, Has
<1>2. CASE ready # <<>> /\ ~AtDoor(Head(ready))
  <2>1. ~AtDoor(ready[1])
    BY <1>2, TailOnce DEF IInv, TypeOK
  <2>2. ASSUME NEW i \in DOMAIN ready
        PROVE  ~AtDoor(ready[i])
    BY <2>1 DEF Order, AtDoor, Pending
  <2> QED
    BY <2>2 DEF Has
<1> QED
  BY <1>1, <1>2

(* What a step away from the door leaves alone.                            *)
SameDoor ==
  /\ file' = file /\ DOMAIN entries' = DOMAIN entries
  /\ \A e \in DOMAIN entries :
       /\ entries'[e].pending = entries[e].pending /\ entries'[e].adapter = entries[e].adapter
       /\ entries'[e].waiters = entries[e].waiters /\ adapters'[e].state = adapters[e].state

LEMMA GateKept ==
  ASSUME IInv, Gate, SameDoor,
         \A j \in Calls : AtDoor(j) \/ AtDoor(j)' => calls'[j] = calls[j],
         \A j : Has(ready, j) => ~AtDoor(j),
         \A j : Has(ready', j) => ~AtDoor(j)'
  PROVE  Gate'
<1>1. \A j \in Calls : AtDoor(j)' => AtDoor(j) /\ calls'[j] = calls[j]
  BY DEF AtDoor
<1>2. \A j \in Calls : AtDoor(j) => AtDoor(j)' /\ calls'[j] = calls[j] /\ ~Awake(j) /\ ~Awake(j)'
  BY DEF AtDoor, Awake
<1>3. file # 0 => file \in DOMAIN entries
  BY EntryTypes DEF IInv
<1>4. \A j \in Calls : (Pending(j) <=> Pending(j)') /\ (Pending(j) => AtDoor(j))
  BY <1>1, <1>2 DEF Pending, AtDoor
<1>5. OnePending'
  BY <1>1, <1>2, <1>3, <1>4 DEF Gate, OnePending, SameDoor
<1>6. Adapters'
  BY <1>3 DEF Gate, Adapters, SameDoor
<1>7. Answers'
  <2> SUFFICES ASSUME NEW k \in Calls, Pending(k)'
               PROVE  /\ calls'[k].at = "opening" => adapters'[file'].state = "opening"
                      /\ calls'[k].at = "closing" =>
                           entries'[file'].adapter /\ adapters'[file'].state = "open"
                      /\ ~Awake(k)'
    BY DEF Answers, Pending
  <2>1. calls'[k] = calls[k] /\ Pending(k) /\ ~Awake(k) /\ ~Awake(k)' /\ file # 0
    BY <1>2, <1>4 DEF Gate, OnePending
  <2> QED
    BY <1>3, <2>1 DEF Gate, Answers, SameDoor
<1>8. Order'
  <2>1. \A i \in DOMAIN ready' : Has(ready', ready'[i])
    BY DEF Has
  <2>2. \A i \in DOMAIN ready' : calls'[ready'[i]].at \notin {"opening", "closing", "waiting"}
    BY <2>1 DEF AtDoor
  <2>3. ASSUME NEW k \in Calls, calls'[k].at = "waiting"
        PROVE  file' # 0 /\ calls'[k].entry = file' /\ Has(entries'[file'].waiters, k)
    <3>1. AtDoor(k)' /\ calls'[k] = calls[k] /\ ~Awake(k)
      BY <1>1, <1>2, <2>3 DEF AtDoor
    <3>2. file # 0 /\ calls[k].entry = file /\ Has(entries[file].waiters, k)
      BY <2>3, <3>1 DEF Gate, Order
    <3> QED
      BY <1>3, <3>1, <3>2 DEF SameDoor
  <2> QED
    BY <2>2, <2>3 DEF Order, Pending
<1> QED
  BY <1>5, <1>6, <1>7, <1>8 DEF Gate

LEMMA CountedKept ==
  ASSUME IInv, Counted, SameDoor,
         file # 0 => entries'[file].refs = entries[file].refs,
         DOMAIN conns' = DOMAIN conns,
         \A c \in DOMAIN conns : conns'[c].live = conns[c].live,
         \A j \in Calls : calls[j].at = "opened" <=> calls'[j].at = "opened"
  PROVE  Counted'
<1>1. Live' = Live /\ Opened' = Opened
  BY DEF Live, Opened
<1>2. Users' = Users
  BY <1>1 DEF Users
<1>3. file # 0 => file \in DOMAIN entries
  BY EntryTypes DEF IInv
<1> QED
  BY <1>1, <1>2, <1>3 DEF Counted, SameDoor

-----------------------------------------------------------------------------
(* Who is next still runs, after each kind of step.                        *)
OthersSame(k) == \A j \in Calls : j # k => calls'[j] = calls[j]

LEMMA AlertKept ==
  ASSUME IInv, Alert, NEW k \in Calls,
         \A c \in DOMAIN conns : conns'[c].queue = conns[c].queue,
         \A j \in Calls : j # k => calls'[j].at = calls[j].at /\ calls'[j].conn = calls[j].conn,
         calls'[k].at # "queued",
         calls'[k].at \in {"opened", "drop"} => Has(ready', k),
         Once(ready'), \A j : Has(ready, j) /\ j # k => Has(ready', j)
  PROVE  Alert'
<1> SUFFICES ASSUME NEW j \in Calls, j # k,
                    \/ calls'[j].at \in {"opened", "drop"}
                    \/ calls'[j].at = "queued" /\ First(j)'
             PROVE  Awake(j)
  BY DEF Alert, Awake
<1>1. CASE calls'[j].at \in {"opened", "drop"}
  BY <1>1 DEF Alert
<1>2. CASE calls'[j].at = "queued" /\ First(j)'
  <2>1. calls[j].at = "queued" /\ calls'[j].conn = calls[j].conn
    BY <1>2
  <2>2. calls[j].conn # 0
    BY <2>1 DEF IInv, Places, Place, OpenPlaces
  <2>3. calls[j].conn \in DOMAIN conns
    BY <2>2, Known DEF IInv
  <2>4. First(j)
    BY <1>2, <2>1, <2>3 DEF First
  <2> QED
    BY <2>1, <2>4 DEF Alert
<1> QED
  BY <1>1, <1>2

LEMMA AlertFinish ==
  ASSUME IInv, Alert, NEW k \in Calls, NEW c, c = calls[k].conn, c # 0, First(k),
         conns'[c].queue = Tail(conns[c].queue),
         \A d \in DOMAIN conns : d # c => conns'[d] = conns[d],
         calls'[k] = Idle, OthersSame(k),
         \/ ready # <<>> /\ Head(ready) = k /\ ready' = Tail(ready) \o NextUp(c)
         \/ Quiet /\ ready' = NextUp(c)
  PROVE  Alert'
<1>1. /\ Once(ready')
      /\ \A j : Has(ready, j) /\ j # k => Has(ready', j)
      /\ Len(conns[c].queue) > 1 => Has(ready', conns[c].queue[2])
  BY AfterAnswer DEF Alert
<1> SUFFICES ASSUME NEW j \in Calls, j # k,
                    \/ calls[j].at \in {"opened", "drop"}
                    \/ calls[j].at = "queued" /\ First(j)'
             PROVE  Has(ready', j)
  BY <1>1, IdleCall DEF Alert, Awake, OthersSame
<1>2. CASE calls[j].at \in {"opened", "drop"}
  BY <1>1, <1>2 DEF Alert, Awake
<1>3. CASE calls[j].at = "queued" /\ First(j)'
  <2>1. calls[j].conn # 0 /\ calls'[j].conn = calls[j].conn
    BY <1>3 DEF IInv, Places, Place, OpenPlaces, OthersSame
  <2>2. calls[j].conn \in DOMAIN conns
    BY <2>1, Known DEF IInv
  <2>3. CASE calls[j].conn # c
    <3>1. First(j)
      BY <1>3, <2>1, <2>2, <2>3 DEF First
    <3> QED
      BY <1>1, <1>3, <3>1 DEF Alert, Awake
  <2>4. CASE calls[j].conn = c
    <3> DEFINE q == conns[c].queue
    <3>1. Tail(q) # <<>> /\ Head(Tail(q)) = j
      BY <1>3, <2>1, <2>4 DEF First
    <3>2. q \in Seq(Calls) /\ q # <<>>
      BY <2>2, <2>4, ConnTypes DEF IInv, First
    <3> HIDE DEF q
    <3>3. Len(q) > 1 /\ Head(Tail(q)) = q[2]
      <4>1. Tail(q) \in Seq(Calls) /\ Len(Tail(q)) = Len(q) - 1 /\ Len(Tail(q)) > 0 /\ Len(q) \in Nat
        BY <3>1, <3>2
      <4>2. Len(q) > 1 /\ Head(Tail(q)) = Tail(q)[1]
        BY <3>1, <4>1
      <4>3. 1 \in 1..Len(Tail(q)) /\ Tail(q)[1] = q[1 + 1]
        BY <3>2, <4>1
      <4> QED
        BY <4>2, <4>3
    <3> QED
      BY <1>1, <3>1, <3>3 DEF q
  <2> QED
    BY <2>3, <2>4
<1> QED
  BY <1>2, <1>3

LEMMA AlertArrive ==
  ASSUME IInv, Alert, NEW k \in Calls, calls[k] = Idle, Quiet, NEW c \in DOMAIN conns,
         conns'[c].queue = Append(conns[c].queue, k),
         \A d \in DOMAIN conns : d # c => conns'[d] = conns[d],
         calls'[k].conn = c, calls'[k].at = "queued", OthersSame(k),
         ready' = IF conns[c].queue = <<>> THEN <<k>> ELSE <<>>
  PROVE  Alert'
<1> DEFINE q == conns[c].queue
<1>1. q \in Seq(Calls) /\ c # 0 /\ \A j : ~Has(ready, j)
  BY ConnTypes, SingleOnce DEF IInv, Quiet
<1>2. Once(ready')
  BY SingleOnce
<1>3. q = <<>> => Has(ready', k)
  BY SingleOnce
<1>4. q # <<>> => Head(Append(q, k)) = Head(q) /\ Head(q) # k
  <2>1. q # <<>> => Head(q) = q[1] /\ 1 \in DOMAIN q
    BY <1>1
  <2>2. \A i \in DOMAIN q : calls[q[i]].conn = c
    BY DEF IInv, Lines, Line
  <2>3. calls[k].conn = 0
    BY IdleCall
  <2>4. q # <<>> => Head(q) # k
    BY <1>1, <2>1, <2>2, <2>3
  <2> HIDE DEF q
  <2>5. q # <<>> => Head(Append(q, k)) = Head(q)
    BY <1>1
  <2> QED
    BY <2>4, <2>5
<1>5. Append(q, k) # <<>> /\ (q = <<>> => Head(Append(q, k)) = k)
  <2> HIDE DEF q
  <2> QED
    BY <1>1
<1>6. ASSUME NEW j \in Calls, j # k,
             \/ calls'[j].at \in {"opened", "drop"}
             \/ calls'[j].at = "queued" /\ First(j)'
      PROVE  FALSE
  <2>1. calls[j] = calls'[j] /\ ~Has(ready, j)
    BY <1>1, <1>6 DEF OthersSame
  <2>2. calls[j].at = "queued" /\ ~First(j) /\ First(j)'
    BY <1>6, <2>1 DEF Alert, Awake
  <2>3. calls[j].conn # 0
    BY <2>2 DEF IInv, Places, Place, OpenPlaces
  <2>4. calls[j].conn \in DOMAIN conns
    BY <2>3, Known DEF IInv
  <2>5. calls[j].conn = c
    BY <2>1, <2>2, <2>4 DEF First
  <2>6. q # <<>>
    BY <2>3, <2>5 DEF IInv, Lines, InLine
  <2>7. Head(q) = j
    BY <1>4, <2>1, <2>2, <2>5, <2>6 DEF First
  <2> QED
    BY <2>2, <2>5, <2>6, <2>7 DEF First
<1>7. First(k)' => Has(ready', k)
  <2>1. First(k)' => Head(Append(q, k)) = k
    BY DEF First
  <2> QED
    BY <1>3, <1>4, <2>1
<1> QED
  BY <1>2, <1>6, <1>7 DEF Alert, Awake

LEMMA CurrentKept ==
  ASSUME IInv, Current, NEW k \in Calls, file' = file,
         OthersSame(k), calls'[k].op \in {"begin", "end", "write", "get"} => calls'[k].entry = file,
         DOMAIN conns' = DOMAIN conns, NEW c,
         \A d \in DOMAIN conns : d # c => conns'[d].live = conns[d].live /\ conns'[d].lease = conns[d].lease,
         c \in DOMAIN conns /\ conns'[c].live => conns'[c].lease \in {0, file},
         file # 0 /\ entries'[file].pending = "opening" =>
           entries[file].pending = "opening" /\ unseen' = unseen,
         unseen' # {} => file # 0 /\ unseen' \subseteq entries'[file].tables
  PROVE  Current'
<1>1. \A j \in Calls : calls'[j].op \in {"begin", "end", "write", "get"} => calls'[j].entry = file
  BY DEF OthersSame, Current
<1>2. \A d \in DOMAIN conns : conns'[d].live => conns'[d].lease \in {0, file}
  BY DEF Current
<1>3. NoUpdateLost'
  BY DEF NoUpdateLost
<1> QED
  BY <1>1, <1>2, <1>3 DEF Current

LEMMA KindsKept ==
  ASSUME Kinds, NEW k \in Calls,
         \A j \in Calls : j # k => calls'[j] = calls[j],
         calls'[k].at = "idle" => calls'[k] = Idle,
         calls'[k].at \in {"waiting", "opening", "opened"} => calls'[k].op = "open"
  PROVE  Kinds'
BY DEF Kinds

(* A step of a call that is not at the door and opens nothing.             *)
LEMMA AwayFromDoor ==
  ASSUME IInv, Doors, NEW k \in Calls, SameDoor,
         file # 0 => entries'[file].refs = entries[file].refs,
         DOMAIN conns' = DOMAIN conns,
         \A c \in DOMAIN conns : conns'[c].live = conns[c].live,
         OthersSame(k),
         calls[k].at \notin {"opened", "opening", "closing", "waiting"},
         calls'[k].at \notin {"opened", "opening", "closing", "waiting"},
         calls'[k].at = "idle" => calls'[k] = Idle,
         Quiet \/ (ready # <<>> /\ Head(ready) = k),
         \A j : Has(ready', j) => j = k \/ Has(ready, j) \/ (j \in Calls /\ calls[j].at = "queued"),
         Alert', Current'
  PROVE  Doors'
<1>1. \A j : Has(ready, j) => ~AtDoor(j)
  BY NobodyAtDoor DEF Doors, Gate, AtDoor
<1>2. \A j : Has(ready', j) => ~AtDoor(j)'
  <2>1. \A j : Has(ready, j) => j \in Calls
    BY ConnTypes DEF IInv, Has
  <2> QED
    BY <1>1, <2>1 DEF AtDoor, OthersSame
<1>3. Gate'
  BY <1>1, <1>2, GateKept DEF Doors, AtDoor, OthersSame
<1>4. Counted'
  BY CountedKept DEF Doors, OthersSame
<1>5. Kinds'
  BY KindsKept DEF Doors, OthersSame
<1> QED
  BY <1>3, <1>4, <1>5 DEF Doors

LEMMA LeaseSet ==
  ASSUME TypeOK, NEW c \in DOMAIN conns, NEW lease \in Nat,
         conns' = [conns EXCEPT ![c].lease = lease]
  PROVE  /\ DOMAIN conns' = DOMAIN conns /\ conns'[c].lease = lease
         /\ \A d \in DOMAIN conns :
              conns'[d].queue = conns[d].queue /\ conns'[d].live = conns[d].live
         /\ \A d \in DOMAIN conns : d # c => conns'[d] = conns[d]
<1> DEFINE n == [conns[c] EXCEPT !.lease = lease]
<1>1. conns[c] \in Conn /\ conns \in Seq(Conn)
  BY ConnTypes DEF TypeOK
<1>2. n \in Conn /\ n.lease = lease /\ n.queue = conns[c].queue /\ n.live = conns[c].live
  BY <1>1 DEF Conn
<1>3. conns' = [conns EXCEPT ![c] = n]
  OBVIOUS
<1> HIDE DEF n
<1> QED
  BY <1>1, <1>2, <1>3, ConnUpdated

(* The clients' calls arrive.                                              *)
LEMMA EnqueueStep ==
  ASSUME TypeOK, NEW k \in Calls, NEW c \in DOMAIN conns, Enqueue(k, c, conns[c])
  PROVE  /\ DOMAIN conns' = DOMAIN conns
         /\ conns'[c].queue = Append(conns[c].queue, k)
         /\ conns'[c].live = conns[c].live /\ conns'[c].lease = conns[c].lease
         /\ \A d \in DOMAIN conns : d # c => conns'[d] = conns[d]
         /\ ready' = IF conns[c].queue = <<>> THEN <<k>> ELSE <<>>
<1>1. conns[c] \in Conn /\ conns \in Seq(Conn) /\ conns[c].queue \in Seq(Calls)
  BY ConnTypes DEF TypeOK
<1> DEFINE q == Append(conns[c].queue, k)
           n == [conns[c] EXCEPT !.queue = q]
<1>2. q \in Seq(Calls)
  BY <1>1
<1> HIDE DEF q
<1>3. n \in Conn /\ n.queue = q /\ n.live = conns[c].live /\ n.lease = conns[c].lease
  BY <1>1, <1>2, WithQueue
<1>4. conns' = [conns EXCEPT ![c] = n] /\ ready' = IF conns[c].queue = <<>> THEN <<k>> ELSE <<>>
  BY DEF Enqueue, q
<1> HIDE DEF n
<1> QED
  BY <1>1, <1>3, <1>4, ConnUpdated DEF q

LEMMA ArriveDoors ==
  ASSUME IInv, Doors, NEW k \in Calls, NEW c \in DOMAIN conns, calls[k] = Idle, Quiet,
         NEW d \in Call, calls' = [calls EXCEPT ![k] = d], d.conn = c, d.at = "queued",
         d.op \in {"begin", "end", "write", "get"} => d.entry = file,
         Enqueue(k, c, conns[c]), UNCHANGED <<file, entries, adapters, unseen>>
  PROVE  Doors'
<1>1. calls'[k] = d /\ OthersSame(k)
  BY CallUpdated DEF IInv, TypeOK, OthersSame
<1>2. /\ DOMAIN conns' = DOMAIN conns
      /\ conns'[c].queue = Append(conns[c].queue, k)
      /\ conns'[c].live = conns[c].live /\ conns'[c].lease = conns[c].lease
      /\ \A x \in DOMAIN conns : x # c => conns'[x] = conns[x]
      /\ ready' = IF conns[c].queue = <<>> THEN <<k>> ELSE <<>>
  BY EnqueueStep DEF IInv
<1>3. Alert'
  BY <1>1, <1>2, AlertArrive DEF Doors
<1>4. Current'
  BY <1>1, <1>2, CurrentKept DEF Doors, Current, NoUpdateLost
<1>5. \A j : Has(ready', j) => j = k
  BY <1>2, SingleOnce
<1>6. SameDoor /\ calls[k].at = "idle"
  BY IdleCall DEF SameDoor
<1> QED
  BY <1>1, <1>2, <1>3, <1>4, <1>5, <1>6, AwayFromDoor

LEMMA CloseDoors ==
  ASSUME IInv, Doors, NEW k \in Calls, NEW cl \in Clients, NEW c \in DOMAIN conns, Close(k, cl, c)
  PROVE  Doors'
<1> DEFINE d == [Idle EXCEPT !.op = "close", !.at = "queued", !.client = cl, !.conn = c]
<1>1. /\ Quiet /\ calls[k] = Idle /\ calls' = [calls EXCEPT ![k] = d]
      /\ Enqueue(k, c, conns[c]) /\ UNCHANGED <<file, entries, adapters, unseen>>
  BY DEF Close, MayCall
<1>2. d \in Call /\ d.conn = c /\ d.at = "queued" /\ d.op = "close"
  BY ConnTypes DEF IInv, Idle, Call
<1> HIDE DEF d
<1> QED
  BY <1>1, <1>2, ArriveDoors

LEMMA ExecDoors ==
  ASSUME IInv, Doors, NEW k \in Calls, NEW cl \in Clients, NEW c \in DOMAIN conns,
         NEW op \in {"begin", "end", "write", "get"}, Exec(k, cl, c, op)
  PROVE  Doors'
<1>1. PICK f, inTx : f = file /\ inTx = (conns[c].mode = "tx")
  OBVIOUS
<1> DEFINE d == [Idle EXCEPT !.op = op, !.at = "queued", !.client = cl, !.conn = c,
                             !.entry = f, !.inTx = inTx]
<1>2. /\ Quiet /\ calls[k] = Idle /\ calls' = [calls EXCEPT ![k] = d]
      /\ Enqueue(k, c, conns[c]) /\ UNCHANGED <<file, entries, adapters, unseen>>
  BY <1>1 DEF Exec, MayCall
<1>3. f \in Nat /\ c \in Nat /\ inTx \in BOOLEAN
  BY <1>1, EntryTypes, ConnTypes DEF IInv
<1>4. d \in Call /\ d.conn = c /\ d.at = "queued" /\ d.entry = f
  BY <1>3 DEF Idle, Call
<1> HIDE DEF d
<1> QED
  BY <1>1, <1>2, <1>4, ArriveDoors

-----------------------------------------------------------------------------
(* A call that opens nothing moves on, or is answered.                     *)
LEMMA MoveDoors ==
  ASSUME IInv, Doors, NEW k \in Calls, NEW c, c = calls[k].conn, c # 0, First(k),
         calls[k].at # "closing", OthersSame(k), calls'[k].conn = c,
         calls'[k].at \in {"rolling", "drop", "lock", "stmt"},
         calls'[k].op \in {"begin", "end", "write", "get"} => calls'[k].entry = file,
         NEW lease \in Nat, conns' = [conns EXCEPT ![c].lease = lease],
         conns[c].live => lease \in {0, file},
         SameDoor, UNCHANGED <<entries, unseen>>,
         Quiet \/ (ready # <<>> /\ Head(ready) = k),
         Once(ready'), \A j : Has(ready, j) /\ j # k => Has(ready', j),
         calls'[k].at = "drop" => Has(ready', k),
         \A j : Has(ready', j) => j = k \/ Has(ready, j)
  PROVE  Doors'
<1>1. /\ calls[k].at \in {"queued", "rolling", "drop", "lock", "stmt"}
      /\ c \in DOMAIN conns
  BY Known DEF IInv
<1>2. /\ DOMAIN conns' = DOMAIN conns /\ conns'[c].lease = lease
      /\ \A d \in DOMAIN conns :
           conns'[d].queue = conns[d].queue /\ conns'[d].live = conns[d].live
      /\ \A d \in DOMAIN conns : d # c => conns'[d] = conns[d]
  BY <1>1, LeaseSet DEF IInv
<1>3. Alert'
  BY <1>2, AlertKept DEF Doors, OthersSame
<1>4. Current'
  BY <1>1, <1>2, CurrentKept DEF Doors, SameDoor, Current, NoUpdateLost
<1> QED
  BY <1>1, <1>2, <1>3, <1>4, AwayFromDoor

LEMMA AnswerDoors ==
  ASSUME IInv, Doors, NEW k \in Calls, NEW c, c = calls[k].conn, c # 0, First(k),
         calls[k].at # "closing", NEW conn \in Conn, Finish(k, c, conn),
         conn.queue = conns[c].queue, conn.live = conns[c].live,
         conn.live => conn.lease \in {0, file},
         SameDoor, file # 0 => entries'[file].refs = entries[file].refs,
         \/ ready # <<>> /\ Head(ready) = k /\ ready' = Tail(ready) \o NextUp(c)
         \/ Quiet /\ ready' = NextUp(c),
         file # 0 /\ entries'[file].pending = "opening" => unseen' = unseen,
         unseen' # {} => file # 0 /\ unseen' \subseteq entries'[file].tables
  PROVE  Doors'
<1>1. /\ calls[k].at \in {"queued", "rolling", "drop", "lock", "stmt"}
      /\ c \in DOMAIN conns /\ conn.queue # <<>>
  BY Known DEF IInv, First
<1>2. /\ calls'[k] = Idle /\ OthersSame(k) /\ DOMAIN conns' = DOMAIN conns
      /\ conns'[c].queue = Tail(conns[c].queue) /\ conns'[c].live = conns[c].live
      /\ conns'[c].lease = conn.lease
      /\ \A d \in DOMAIN conns : d # c => conns'[d] = conns[d]
  BY <1>1, FinishStep DEF IInv, OthersSame
<1>3. Alert'
  BY <1>2, AlertFinish DEF Doors
<1>4. \A j : Has(ready', j) => Has(ready, j) \/ (j \in Calls /\ calls[j].at = "queued")
  BY AfterAnswer DEF Doors, Alert
<1>5. Current'
  <2>1. calls'[k].op \notin {"begin", "end", "write", "get"} /\ calls'[k].at = "idle"
    BY <1>2, IdleCall
  <2>2. file # 0 => file \in DOMAIN entries
    BY EntryTypes DEF IInv
  <2>3. file' = file /\ (file # 0 => entries'[file].pending = entries[file].pending)
    BY <2>2 DEF SameDoor
  <2> QED
    BY <1>2, <2>1, <2>3, CurrentKept DEF Doors
<1> QED
  BY <1>1, <1>2, <1>3, <1>4, <1>5, IdleCall, AwayFromDoor

(* The step changes an adapter but not whether it is open.                 *)
LEMMA AdapterDoor ==
  ASSUME IInv, NEW e \in DOMAIN adapters, NEW a \in Adapter, a.state = adapters[e].state,
         adapters' = [adapters EXCEPT ![e] = a], UNCHANGED <<file, entries>>
  PROVE  SameDoor
<1>1. \A x \in DOMAIN adapters : adapters'[x].state = adapters[x].state
  BY AdapterUpdated DEF IInv, TypeOK
<1> QED
  BY <1>1, EntryTypes DEF SameDoor, IInv

LEMMA UnlockedDoor ==
  ASSUME IInv, NEW e \in DOMAIN entries, NEW a \in Adapter, a.state = adapters[e].state,
         NEW told, Unlocked(e, a, told), file' = file
  PROVE  /\ SameDoor /\ \A x \in DOMAIN entries : entries'[x].refs = entries[x].refs
         /\ entries'[e].tables = entries[e].tables \cup (IF told /\ a.tx = 0 THEN a.dirty ELSE {})
         /\ \A x \in DOMAIN entries : entries[x].tables \subseteq entries'[x].tables
<1>1. /\ entries[e] \in Entry /\ entries \in Seq(Entry) /\ adapters \in Seq(Adapter)
      /\ e \in DOMAIN adapters /\ DOMAIN entries = DOMAIN adapters
  BY EntryTypes DEF IInv, TypeOK
<1> DEFINE ts == entries[e].tables \cup (IF told /\ a.tx = 0 THEN a.dirty ELSE {})
           n  == [entries[e] EXCEPT !.tables = ts]
           b  == [a EXCEPT !.holder = 0, !.dirty = {}]
<1>2. ts \in SUBSET Clients /\ entries[e].tables \subseteq ts
  BY <1>1 DEF Entry, Adapter
<1>3. entries' = [entries EXCEPT ![e] = n] /\ adapters' = [adapters EXCEPT ![e] = b]
  BY DEF Unlocked
<1> HIDE DEF ts
<1>4. /\ n \in Entry /\ n.waiters = entries[e].waiters /\ n.pending = entries[e].pending
      /\ n.adapter = entries[e].adapter /\ n.refs = entries[e].refs /\ n.tables = ts
  BY <1>1, <1>2 DEF Entry
<1>5. b \in Adapter /\ b.state = a.state
  BY DEF Adapter
<1> HIDE DEF n, b
<1>6. entries'[e] = n /\ DOMAIN entries' = DOMAIN entries
      /\ \A x \in DOMAIN entries : x # e => entries'[x] = entries[x]
  BY <1>1, <1>3, <1>4, EntryUpdated
<1>7. adapters'[e] = b /\ \A x \in DOMAIN adapters : x # e => adapters'[x] = adapters[x]
  BY <1>1, <1>3, <1>5, AdapterUpdated
<1>8. SameDoor
  BY <1>1, <1>4, <1>5, <1>6, <1>7 DEF SameDoor
<1>9. \A x \in DOMAIN entries : /\ entries'[x].refs = entries[x].refs
                                /\ entries[x].tables \subseteq entries'[x].tables
  BY <1>2, <1>4, <1>6
<1> QED
  BY <1>4, <1>6, <1>8, <1>9 DEF ts

(* The stash of the current entry only grows.                              *)
LEMMA StashGrows ==
  ASSUME IInv, Current, \A x \in DOMAIN entries : entries[x].tables \subseteq entries'[x].tables
  PROVE  unseen # {} => file # 0 /\ unseen \subseteq entries'[file].tables
BY EntryTypes DEF Current, NoUpdateLost, IInv

(* The head of ready leaves it, or stays in it at its end.                 *)
LEMMA HeadLeaves ==
  ASSUME IInv, Once(ready), NEW k \in Calls, ready # <<>>, Head(ready) = k
  PROVE  /\ Once(Tail(ready)) /\ ~Has(Tail(ready), k)
         /\ \A j : Has(ready, j) /\ j # k => Has(Tail(ready), j)
         /\ \A j : Has(Tail(ready), j) => Has(ready, j)
         /\ LET r == Append(Tail(ready), k) IN
              /\ Once(r) /\ Has(r, k)
              /\ \A j : Has(ready, j) /\ j # k => Has(r, j)
              /\ \A j : Has(r, j) => j = k \/ Has(ready, j)
<1>1. ready \in Seq(Calls)
  BY DEF IInv, TypeOK
<1>2. /\ Tail(ready) \in Seq(Calls) /\ Once(Tail(ready)) /\ ~Has(Tail(ready), k)
      /\ \A j : Has(ready, j) <=> j = k \/ Has(Tail(ready), j)
  BY <1>1, TailOnce
<1>3. PICK s : s = Tail(ready)
  OBVIOUS
<1>4. /\ \A y : Has(Append(s, k), y) <=> y = k \/ Has(s, y)
      /\ Once(s) /\ ~Has(s, k) => Once(Append(s, k))
  BY <1>2, <1>3, AppendOnce
<1> QED
  BY <1>2, <1>3, <1>4

LEMMA CloseRunDoors ==
  ASSUME IInv, Doors, NEW k \in Calls, CloseRun(k)
  PROVE  Doors'
<1>1. PICK c, e : c = calls[k].conn /\ e = conns[c].lease
  OBVIOUS
<1>2. /\ calls[k].op = "close" /\ Resumes(k, "queued") /\ conns[c].live
      /\ conns' = [conns EXCEPT ![c].lease = 0]
      /\ UNCHANGED <<file, entries, adapters, clients, unseen>>
  BY <1>1 DEF CloseRun
<1>3. /\ c # 0 /\ First(k) /\ c \in DOMAIN conns /\ e \in Nat
      /\ ready # <<>> /\ Head(ready) = k /\ calls[k].at = "queued"
  BY <1>1, <1>2, CloseTurn, ConnTypes DEF IInv, Resumes
<1>4. SameDoor
  BY <1>2 DEF SameDoor
<1>5. /\ OthersSame(k) /\ calls'[k].conn = c /\ calls'[k].op = "close"
      /\ \/ calls'[k].at = "rolling" /\ ready' = Tail(ready)
         \/ calls'[k].at = "drop" /\ ready' = Append(Tail(ready), k)
  <2>1. CASE e # 0
    <3>1. calls' = [calls EXCEPT ![k].at = "rolling", ![k].entry = e] /\ ready' = Tail(ready)
      BY <1>1, <2>1 DEF CloseRun
    <3> QED
      BY <1>1, <1>2, <1>3, <3>1, MovedOn DEF IInv, TypeOK, Kept, OthersSame
  <2>2. CASE e = 0
    <3>1. MoveTo(k, "drop") /\ ready' = Append(Tail(ready), k)
      BY <1>1, <2>2 DEF CloseRun
    <3> QED
      BY <1>1, <1>2, <1>3, <3>1, Moved DEF IInv, TypeOK, Kept, OthersSame
  <2> QED
    BY <2>1, <2>2
<1>6. /\ Once(ready') /\ \A j : Has(ready, j) /\ j # k => Has(ready', j)
      /\ calls'[k].at = "drop" => Has(ready', k)
      /\ \A j : Has(ready', j) => j = k \/ Has(ready, j)
  BY <1>3, <1>5, HeadLeaves DEF Doors, Alert
<1>7. 0 \in Nat /\ UNCHANGED <<entries, unseen>>
  BY <1>2
<1> QED
  BY <1>1, <1>2, <1>3, <1>4, <1>5, <1>6, <1>7, MoveDoors

LEMMA CloseGoneDoors ==
  ASSUME IInv, Doors, NEW k \in Calls, CloseGone(k)
  PROVE  Doors'
<1>1. PICK c : c = calls[k].conn
  OBVIOUS
<1>2. /\ calls[k].op = "close" /\ Resumes(k, "queued") /\ ~conns[c].live
      /\ Finish(k, c, conns[c]) /\ ready' = Tail(ready) \o NextUp(c)
      /\ UNCHANGED <<file, entries, adapters, clients, unseen>>
  BY <1>1 DEF CloseGone
<1>3. /\ c # 0 /\ First(k) /\ c \in DOMAIN conns /\ conns[c] \in Conn
      /\ ready # <<>> /\ Head(ready) = k /\ calls[k].at = "queued"
  BY <1>1, <1>2, CloseTurn, ConnTypes DEF IInv, Resumes
<1>4. SameDoor
  BY <1>2 DEF SameDoor
<1>5. unseen' # {} => file # 0 /\ unseen' \subseteq entries'[file].tables
  BY <1>2 DEF Doors, Current, NoUpdateLost
<1> QED
  BY <1>1, <1>2, <1>3, <1>4, <1>5, AnswerDoors

LEMMA ExecRunDoors ==
  ASSUME IInv, Doors, NEW k \in Calls, ExecRun(k)
  PROVE  Doors'
<1>1. PICK c, e : c = calls[k].conn /\ e = conns[c].lease
  OBVIOUS
<1>2. /\ calls[k].op # "close" /\ Resumes(k, "queued") /\ ready' = Tail(ready)
      /\ UNCHANGED <<file, entries, adapters, conns, clients, unseen>>
  BY DEF ExecRun
<1>3. /\ calls[k].at = "queued" /\ c # 0 /\ First(k) /\ ready # <<>> /\ Head(ready) = k
  <2>1. calls[k].at = "queued" /\ c # 0 /\ ready # <<>> /\ Head(ready) = k
    BY <1>1, <1>2 DEF Resumes, IInv, Places, Place, OpenPlaces
  <2> QED
    BY <1>1, <1>2, <2>1, ResumesFirst
<1>4. /\ c \in DOMAIN conns /\ conns[c] \in Conn /\ e \in Nat /\ conns[c].live
      /\ calls[k].op \in {"begin", "end", "write", "get"} /\ e \in {0, file}
      /\ calls[k].entry = file
  <2>1. /\ c \in DOMAIN conns /\ conns[c] \in Conn /\ e \in Nat /\ conns[c].live
        /\ calls[k].op \in {"begin", "end", "write", "get"}
    BY <1>1, <1>2, <1>3, Known DEF IInv, Locks, Discipline
  <2> QED
    BY <1>1, <2>1 DEF Doors, Current
<1>5. conns' = [conns EXCEPT ![c].lease = e]
  <2>1. conns[c] = [conns[c] EXCEPT !.lease = e]
    BY <1>1, <1>4 DEF Conn
  <2> QED
    BY <1>2, <1>4, <2>1 DEF IInv, TypeOK
<1>6. /\ OthersSame(k) /\ calls'[k].conn = c /\ calls'[k].entry = file
      /\ calls'[k].at \in {"stmt", "lock"}
  <2>1. CASE e # 0
    <3>1. calls' = [calls EXCEPT ![k].at = "stmt", ![k].entry = e]
      BY <1>1, <2>1 DEF ExecRun
    <3> QED
      BY <1>1, <1>4, <2>1, <3>1, MovedOn DEF IInv, TypeOK, Kept, OthersSame
  <2>2. CASE e = 0
    <3>1. MoveTo(k, "lock")
      BY <1>1, <2>2 DEF ExecRun
    <3> QED
      BY <1>1, <1>4, <3>1, Moved DEF IInv, TypeOK, Kept, OthersSame
  <2> QED
    BY <2>1, <2>2
<1>7. /\ Once(ready') /\ \A j : Has(ready, j) /\ j # k => Has(ready', j)
      /\ \A j : Has(ready', j) => j = k \/ Has(ready, j)
  BY <1>2, <1>3, HeadLeaves DEF Doors, Alert
<1>8. SameDoor /\ UNCHANGED <<entries, unseen>>
  BY <1>2 DEF SameDoor
<1> QED
  BY <1>1, <1>3, <1>4, <1>5, <1>6, <1>7, <1>8, MoveDoors

-----------------------------------------------------------------------------
(* The statements.                                                         *)
LEMMA QuietReady ==
  ASSUME Quiet
  PROVE  ready = <<>> /\ Once(ready) /\ \A j : ~Has(ready, j)
BY SingleOnce DEF Quiet

LEMMA LockGrantedDoors ==
  ASSUME IInv, Doors, NEW k \in Calls, LockGranted(k)
  PROVE  Doors'
<1>1. PICK c, e, lease : /\ c = calls[k].conn /\ e = calls[k].entry
                         /\ lease = IF TransactionControl(calls[k].op) = "begin" THEN e ELSE 0
  OBVIOUS
<1> DEFINE a == [adapters[e] EXCEPT !.holder = c, !.tx = 0]
<1>2. /\ calls[k].at = "lock" /\ Quiet /\ MoveTo(k, "stmt")
      /\ conns' = [conns EXCEPT ![c].lease = lease]
      /\ adapters' = [adapters EXCEPT ![e] = a]
      /\ UNCHANGED <<file, entries, ready, unseen>>
  BY <1>1 DEF LockGranted
<1>3. /\ c # 0 /\ c \in Nat /\ First(k) /\ c \in DOMAIN conns /\ e \in Nat
      /\ e \in DOMAIN adapters /\ adapters[e] \in Adapter /\ calls[k].op # "close"
  BY <1>1, <1>2, StatementTurn
<1>4. a \in Adapter /\ a.state = adapters[e].state
  BY <1>3 DEF Adapter
<1> HIDE DEF a
<1>5. SameDoor
  BY <1>2, <1>3, <1>4, AdapterDoor
<1>6. /\ OthersSame(k) /\ calls'[k].conn = c /\ calls'[k].at = "stmt" /\ calls'[k].entry = e
      /\ calls'[k].op = calls[k].op
  BY <1>1, <1>2, Moved DEF IInv, TypeOK, Kept, OthersSame
<1>7. e = file /\ lease \in Nat /\ lease \in {0, file}
  <2>1. calls[k].op \in {"begin", "end", "write", "get"}
    BY <1>1, <1>3, Known DEF IInv
  <2>2. e = file
    BY <1>1, <2>1 DEF Doors, Current
  <2> QED
    BY <1>1, <1>3, <2>2
<1>8. /\ Once(ready') /\ \A j : Has(ready, j) /\ j # k => Has(ready', j)
      /\ \A j : Has(ready', j) => j = k \/ Has(ready, j)
  BY <1>2, QuietReady
<1>9. UNCHANGED <<entries, unseen>>
  BY <1>2
<1> QED
  BY <1>1, <1>2, <1>3, <1>5, <1>6, <1>7, <1>8, <1>9, MoveDoors

LEMMA BeginFailsDoors ==
  ASSUME IInv, Doors, NEW k \in Calls, BeginFails(k)
  PROVE  Doors'
<1>1. PICK c, e : c = calls[k].conn /\ e = calls[k].entry
  OBVIOUS
<1>2. /\ calls[k].at = "stmt" /\ calls[k].op = "begin" /\ Quiet /\ MoveTo(k, "rolling")
      /\ conns' = [conns EXCEPT ![c].lease = 0]
      /\ UNCHANGED <<file, entries, adapters, ready, unseen>>
  BY <1>1 DEF BeginFails, Statement
<1>3. c # 0 /\ First(k) /\ c \in DOMAIN conns
  BY <1>1, <1>2, StatementTurn
<1>4. SameDoor
  BY <1>2 DEF SameDoor
<1>5. /\ OthersSame(k) /\ calls'[k].conn = c /\ calls'[k].at = "rolling" /\ calls'[k].entry = e
  BY <1>1, <1>2, Moved DEF IInv, TypeOK, Kept, OthersSame
<1>6. e = file
  BY <1>1, <1>2 DEF Doors, Current
<1>7. /\ Once(ready') /\ \A j : Has(ready, j) /\ j # k => Has(ready', j)
      /\ \A j : Has(ready', j) => j = k \/ Has(ready, j)
  BY <1>2, QuietReady
<1>8. 0 \in Nat /\ UNCHANGED <<entries, unseen>>
  BY <1>2
<1> QED
  BY <1>1, <1>2, <1>3, <1>4, <1>5, <1>6, <1>7, <1>8, MoveDoors

LEMMA RollbackDoneDoors ==
  ASSUME IInv, Doors, NEW k \in Calls, RollbackDone(k)
  PROVE  Doors'
<1>1. PICK c, e, a : /\ c = calls[k].conn /\ e = calls[k].entry
                     /\ a = [adapters[e] EXCEPT !.tx = 0, !.dirty = {}]
  OBVIOUS
<1>2. calls[k].at = "rolling" /\ Quiet /\ Unlocked(e, a, TRUE) /\ UNCHANGED <<file, clients, unseen>>
  BY <1>1 DEF RollbackDone
<1>3. /\ c # 0 /\ First(k) /\ c \in DOMAIN conns /\ conns[c] \in Conn /\ conns[c].lease = 0
      /\ e \in DOMAIN entries /\ e \in DOMAIN adapters /\ adapters[e] \in Adapter
      /\ entries[e] \in Entry
  BY <1>1, <1>2, StatementTurn
<1>4. a \in Adapter /\ a.state = adapters[e].state /\ a.dirty = {}
  BY <1>1, <1>3 DEF Adapter
<1>5. SameDoor /\ \A x \in DOMAIN entries : entries'[x].refs = entries[x].refs
  BY <1>2, <1>3, <1>4, UnlockedDoor
<1>6. unseen' # {} => file # 0 /\ unseen' \subseteq entries'[file].tables
  BY <1>2, <1>3, <1>4, UnlockedDoor, StashGrows DEF Doors
<1>7. file # 0 => file \in DOMAIN entries
  BY EntryTypes DEF IInv
<1>8. CASE calls[k].op = "close"
  <2>1. MoveTo(k, "drop") /\ ready' = <<k>> /\ UNCHANGED conns
    BY <1>8 DEF RollbackDone
  <2>2. /\ OthersSame(k) /\ calls'[k].conn = c /\ calls'[k].at = "drop" /\ calls'[k].op = "close"
    BY <1>1, <1>8, <2>1, Moved DEF IInv, TypeOK, Kept, OthersSame
  <2>3. /\ Once(ready') /\ Has(ready', k) /\ \A j : ~Has(ready, j)
        /\ \A j : Has(ready', j) => j = k
    BY <1>2, <2>1, QuietReady, SingleOnce
  <2>4. Alert'
    BY <2>1, <2>2, <2>3, AlertKept DEF Doors, OthersSame
  <2>5. Current'
    <3>1. unseen' = unseen /\ file' = file /\ (file # 0 => entries'[file].pending = entries[file].pending)
      BY <1>2, <1>5, <1>7 DEF SameDoor
    <3>2. c \in DOMAIN conns /\ conns'[c].live => conns'[c].lease \in {0, file}
      BY <1>3, <2>1
    <3>3. \A d \in DOMAIN conns : conns'[d].live = conns[d].live /\ conns'[d].lease = conns[d].lease
      BY <2>1
    <3> QED
      BY <1>6, <2>1, <2>2, <3>1, <3>2, <3>3, CurrentKept DEF Doors
  <2> QED
    BY <1>2, <1>5, <1>7, <2>1, <2>2, <2>3, <2>4, <2>5, AwayFromDoor
<1>9. CASE calls[k].op # "close"
  <2>1. Finish(k, c, conns[c]) /\ ready' = NextUp(c)
    BY <1>1, <1>9 DEF RollbackDone
  <2> QED
    BY <1>1, <1>2, <1>3, <1>5, <1>6, <1>7, <2>1, AnswerDoors
<1> QED
  BY <1>8, <1>9

LEMMA BeginDoneDoors ==
  ASSUME IInv, Doors, NEW k \in Calls, BeginDone(k)
  PROVE  Doors'
<1>1. PICK c, e, conn : /\ c = calls[k].conn /\ e = calls[k].entry
                        /\ conn = [conns[c] EXCEPT !.mode = "tx"]
  OBVIOUS
<1> DEFINE a == [adapters[e] EXCEPT !.tx = c]
<1>2. /\ calls[k].at = "stmt" /\ Quiet /\ calls[k].op = "begin" /\ Finish(k, c, conn)
      /\ adapters' = [adapters EXCEPT ![e] = a] /\ ready' = NextUp(c)
      /\ UNCHANGED <<file, entries, clients, unseen>>
  BY <1>1 DEF BeginDone, Statement
<1>3. /\ c # 0 /\ c \in Nat /\ First(k) /\ c \in DOMAIN conns /\ conns[c] \in Conn
      /\ e \in DOMAIN adapters /\ adapters[e] \in Adapter /\ conns[c].live
  BY <1>1, <1>2, StatementTurn
<1>4. conns[c].lease \in {0, file}
  BY <1>3 DEF Doors, Current
<1>5. /\ conn \in Conn /\ conn.queue = conns[c].queue /\ conn.live = conns[c].live
      /\ conn.lease = conns[c].lease
  BY <1>1, <1>3 DEF Conn
<1>6. a \in Adapter /\ a.state = adapters[e].state
  BY <1>3 DEF Adapter
<1> HIDE DEF a
<1>7. SameDoor
  BY <1>2, <1>3, <1>6, AdapterDoor
<1>8. unseen' # {} => file # 0 /\ unseen' \subseteq entries'[file].tables
  BY <1>2 DEF Doors, Current, NoUpdateLost
<1> QED
  BY <1>1, <1>2, <1>3, <1>4, <1>5, <1>7, <1>8, AnswerDoors

LEMMA EndDoneDoors ==
  ASSUME IInv, Doors, NEW k \in Calls, NEW result, NEW told \in BOOLEAN, EndDone(k, result, told)
  PROVE  Doors'
<1>1. PICK c, e, mode, conn, a :
        /\ c = calls[k].conn /\ e = calls[k].entry
        /\ mode = IF result = "failed" /\ conns[c].lease # 0 THEN "failed" ELSE "auto"
        /\ conn = [conns[c] EXCEPT !.lease = 0, !.mode = mode]
        /\ a = [adapters[e] EXCEPT !.tx    = IF result = "failed" THEN @ ELSE 0,
                                   !.dirty = IF result = "rolled back" THEN {} ELSE @]
  OBVIOUS
<1>2. /\ calls[k].at = "stmt" /\ Quiet /\ calls[k].op = "end" /\ Finish(k, c, conn)
      /\ Unlocked(e, a, told) /\ ready' = NextUp(c)
      /\ Committed(IF result = "failed" THEN {} ELSE a.dirty, told)
      /\ UNCHANGED <<file, clients>>
  BY <1>1 DEF EndDone, Statement
<1>3. /\ c # 0 /\ First(k) /\ c \in DOMAIN conns /\ conns[c] \in Conn
      /\ e \in DOMAIN entries /\ e \in DOMAIN adapters /\ adapters[e] \in Adapter
  BY <1>1, <1>2, StatementTurn
<1>4. mode \in {"auto", "failed"}
  BY <1>1
<1>5. /\ conn \in Conn /\ conn.queue = conns[c].queue /\ conn.live = conns[c].live
      /\ conn.lease = 0
  BY <1>1, <1>3, <1>4 DEF Conn
<1>6. a \in Adapter /\ a.state = adapters[e].state /\ (result # "failed" => a.tx = 0)
  <2> DEFINE tx == IF result = "failed" THEN adapters[e].tx ELSE 0
             ds == IF result = "rolled back" THEN {} ELSE adapters[e].dirty
  <2>1. tx \in Nat /\ ds \in SUBSET Clients /\ (result # "failed" => tx = 0)
    BY <1>3 DEF Adapter
  <2>2. a = [adapters[e] EXCEPT !.tx = tx, !.dirty = ds]
    BY <1>1
  <2> HIDE DEF tx, ds
  <2> QED
    BY <1>3, <2>1, <2>2 DEF Adapter
<1>7. /\ SameDoor /\ \A x \in DOMAIN entries : entries'[x].refs = entries[x].refs
      /\ entries'[e].tables = entries[e].tables \cup (IF told /\ a.tx = 0 THEN a.dirty ELSE {})
      /\ \A x \in DOMAIN entries : entries[x].tables \subseteq entries'[x].tables
  BY <1>2, <1>3, <1>6, UnlockedDoor
<1>8. /\ e = file /\ file # 0 /\ entries[file].pending = "none" /\ file \in DOMAIN entries
  BY <1>1, <1>2, <1>3, StatementFile DEF Doors
<1>9. unseen' \subseteq entries'[file].tables
  <2>1. unseen \subseteq entries'[file].tables
    BY <1>7, StashGrows DEF Doors
  <2> QED
    BY <1>2, <1>6, <1>7, <1>8, <2>1 DEF Committed
<1>10. entries'[file].pending = "none"
  BY <1>7, <1>8 DEF SameDoor
<1> QED
  BY <1>1, <1>2, <1>3, <1>5, <1>7, <1>8, <1>9, <1>10, AnswerDoors

LEMMA WriteDoneDoors ==
  ASSUME IInv, Doors, NEW k \in Calls, NEW ok \in BOOLEAN, NEW told \in BOOLEAN,
         WriteDone(k, ok, told)
  PROVE  Doors'
<1>1. PICK c, e, a :
        /\ c = calls[k].conn /\ e = calls[k].entry
        /\ a = [adapters[e] EXCEPT !.dirty = IF ok THEN @ \cup {calls[k].client} ELSE @]
  OBVIOUS
<1>2. /\ calls[k].at = "stmt" /\ Quiet /\ calls[k].op = "write" /\ Finish(k, c, conns[c])
      /\ ready' = NextUp(c) /\ UNCHANGED <<file, clients>>
  BY <1>1 DEF WriteDone, Statement
<1>3. /\ c # 0 /\ First(k) /\ c \in DOMAIN conns /\ conns[c] \in Conn
      /\ e \in DOMAIN entries /\ e \in DOMAIN adapters /\ adapters[e] \in Adapter
      /\ conns[c].live /\ Holds(k)
  BY <1>1, <1>2, StatementTurn
<1>4. calls[k].client \in Clients /\ calls[k].conn # 0
  BY <1>1, <1>3, Known DEF IInv
<1>5. a \in Adapter /\ a.state = adapters[e].state /\ a.tx = adapters[e].tx
  <2> DEFINE ds == IF ok THEN adapters[e].dirty \cup {calls[k].client} ELSE adapters[e].dirty
  <2>1. ds \in SUBSET Clients
    BY <1>3, <1>4 DEF Adapter
  <2>2. a = [adapters[e] EXCEPT !.dirty = ds]
    BY <1>1
  <2> HIDE DEF ds
  <2> QED
    BY <1>3, <2>1, <2>2 DEF Adapter
<1>6. /\ e = file /\ file # 0 /\ entries[file].pending = "none" /\ file \in DOMAIN entries
      /\ conns[c].lease \in {0, file}
  BY <1>1, <1>2, <1>3, StatementFile DEF Doors, Current
<1>7. CASE conns[c].lease # 0
  <2>1. adapters' = [adapters EXCEPT ![e] = a] /\ UNCHANGED <<entries, unseen>>
    BY <1>1, <1>7 DEF WriteDone
  <2>2. SameDoor
    BY <1>2, <1>3, <1>5, <2>1, AdapterDoor
  <2>3. unseen' # {} => file # 0 /\ unseen' \subseteq entries'[file].tables
    BY <2>1 DEF Doors, Current, NoUpdateLost
  <2> QED
    BY <1>1, <1>2, <1>3, <1>6, <2>1, <2>2, <2>3, AnswerDoors
<1>8. CASE conns[c].lease = 0
  <2>1. Unlocked(e, a, told) /\ Committed(a.dirty, told)
    BY <1>1, <1>8 DEF WriteDone
  <2>2. a.tx = 0
    BY <1>1, <1>2, <1>3, <1>4, <1>5, <1>8 DEF Holds
  <2>3. /\ SameDoor /\ \A x \in DOMAIN entries : entries'[x].refs = entries[x].refs
        /\ entries'[e].tables = entries[e].tables \cup (IF told /\ a.tx = 0 THEN a.dirty ELSE {})
        /\ \A x \in DOMAIN entries : entries[x].tables \subseteq entries'[x].tables
    BY <1>2, <1>3, <1>5, <2>1, UnlockedDoor
  <2>4. unseen' \subseteq entries'[file].tables
    <3>1. unseen \subseteq entries'[file].tables
      BY <2>3, StashGrows DEF Doors
    <3> QED
      BY <1>6, <2>1, <2>2, <2>3, <3>1 DEF Committed
  <2>5. entries'[file].pending = "none"
    BY <1>6, <2>3 DEF SameDoor
  <2> QED
    BY <1>1, <1>2, <1>3, <1>6, <2>3, <2>4, <2>5, AnswerDoors
<1> QED
  BY <1>7, <1>8

LEMMA GetDoneDoors ==
  ASSUME IInv, Doors, NEW k \in Calls, GetDone(k)
  PROVE  Doors'
<1>1. PICK c, e : c = calls[k].conn /\ e = calls[k].entry
  OBVIOUS
<1> DEFINE a == [adapters[e] EXCEPT !.holder = 0]
           n == [entries[e] EXCEPT !.tables = {}]
<1>2. /\ calls[k].at = "stmt" /\ Quiet /\ calls[k].op = "get" /\ Finish(k, c, conns[c])
      /\ adapters' = [adapters EXCEPT ![e] = a] /\ entries' = [entries EXCEPT ![e] = n]
      /\ unseen' = unseen \ entries[e].tables /\ ready' = NextUp(c)
      /\ UNCHANGED <<file, clients>>
  BY <1>1 DEF GetDone, Statement
<1>3. /\ c # 0 /\ First(k) /\ c \in DOMAIN conns /\ conns[c] \in Conn /\ conns[c].live
      /\ e \in DOMAIN entries /\ e \in DOMAIN adapters /\ adapters[e] \in Adapter
      /\ entries[e] \in Entry /\ DOMAIN entries = DOMAIN adapters
  BY <1>1, <1>2, StatementTurn, EntryTypes DEF IInv
<1>4. a \in Adapter /\ a.state = adapters[e].state
  BY <1>3 DEF Adapter
<1>5. /\ n \in Entry /\ n.waiters = entries[e].waiters /\ n.pending = entries[e].pending
      /\ n.adapter = entries[e].adapter /\ n.refs = entries[e].refs
  BY <1>3 DEF Entry
<1> HIDE DEF a, n
<1>6. /\ adapters'[e] = a /\ \A x \in DOMAIN adapters : x # e => adapters'[x] = adapters[x]
  BY <1>2, <1>3, <1>4, AdapterUpdated DEF IInv, TypeOK
<1>7. /\ entries'[e] = n /\ DOMAIN entries' = DOMAIN entries
      /\ \A x \in DOMAIN entries : x # e => entries'[x] = entries[x]
  BY <1>2, <1>3, <1>5, EntryUpdated DEF IInv, TypeOK
<1>8. SameDoor
  BY <1>2, <1>3, <1>4, <1>5, <1>6, <1>7 DEF SameDoor
<1>9. /\ e = file /\ file # 0 /\ entries[file].pending = "none" /\ conns[c].lease \in {0, file}
  BY <1>1, <1>2, <1>3, StatementFile DEF Doors, Current
<1>10. unseen' = {}
  BY <1>2, <1>9 DEF Doors, Current, NoUpdateLost
<1>11. entries'[file].refs = entries[file].refs /\ entries'[file].pending = "none"
  BY <1>5, <1>7, <1>9
<1> QED
  BY <1>1, <1>2, <1>3, <1>8, <1>9, <1>10, <1>11, AnswerDoors

-----------------------------------------------------------------------------
(* The users, when one comes or goes.                                      *)
LEMMA UserLeaves ==
  ASSUME TypeOK, IsFiniteSet(Opened), NEW c \in Live, Live' = Live \ {c}, Opened' = Opened
  PROVE  Users' = Users - 1 /\ IsFiniteSet(Opened')
<1>1. IsFiniteSet(Live) /\ Cardinality(Live) \in Nat /\ Cardinality(Opened) \in Nat
  BY Counts
<1>2. Cardinality(Live') = Cardinality(Live) - 1
  BY <1>1, FS_RemoveElement
<1> QED
  BY <1>1, <1>2 DEF Users

LEMMA UserComes ==
  ASSUME TypeOK, IsFiniteSet(Opened), NEW k \in Calls, k \notin Opened,
         Live' = Live, Opened' = Opened \cup {k}
  PROVE  Users' = Users + 1 /\ IsFiniteSet(Opened')
<1>1. IsFiniteSet(Live) /\ Cardinality(Live) \in Nat /\ Cardinality(Opened) \in Nat
  BY Counts
<1>2. Cardinality(Opened') = Cardinality(Opened) + 1 /\ IsFiniteSet(Opened')
  BY FS_AddElement
<1> QED
  BY <1>1, <1>2 DEF Users

LEMMA UserConnects ==
  ASSUME TypeOK, IsFiniteSet(Opened), NEW k \in Opened, NEW c, c \notin Live,
         Live' = Live \cup {c}, Opened' = Opened \ {k}
  PROVE  Users' = Users /\ IsFiniteSet(Opened')
<1>1. IsFiniteSet(Live) /\ Cardinality(Live) \in Nat /\ Cardinality(Opened) \in Nat
  BY Counts
<1>2. Cardinality(Opened') = Cardinality(Opened) - 1 /\ IsFiniteSet(Opened')
  BY FS_RemoveElement
<1>3. Cardinality(Live') = Cardinality(Live) + 1
  BY <1>1, FS_AddElement
<1> QED
  BY <1>1, <1>2, <1>3 DEF Users

(* The call of a close that drops its connection: the connection is one of *)
(* the users, and when the file is being closed it is by this call.        *)
LEMMA DropTurn ==
  ASSUME IInv, Doors, NEW k \in Calls, NEW at \in {"drop", "closing"}, Resumes(k, at),
         NEW c, c = calls[k].conn
  PROVE  /\ c # 0 /\ c \in DOMAIN conns /\ c \in Live /\ conns[c] \in Conn /\ conns[c].lease = 0
         /\ First(k) /\ calls[k].at = at /\ calls[k].op = "close"
         /\ ready # <<>> /\ Head(ready) = k /\ conns[c].queue # <<>>
         /\ file # 0 /\ file \in DOMAIN entries /\ entries[file] \in Entry
         /\ entries[file].refs = Users /\ Users \in Nat /\ Users >= 1
         /\ at = "drop" =>
              /\ entries[file].pending = "none" /\ entries[file].adapter
              /\ adapters[file].state = "open" /\ \A j \in Calls : ~Pending(j)
         /\ at = "closing" =>
              /\ calls[k].entry = file /\ Users = 1 /\ entries[file].pending = "closing"
              /\ \A d \in Live : d = c
<1>1. calls[k].op = "close"
  BY Dropping
<1>2. /\ c # 0 /\ First(k) /\ c \in DOMAIN conns /\ conns[c] \in Conn
      /\ conns[c].lease = 0 /\ conns[c].live
  BY <1>1, CloseTurn
<1>3. /\ calls[k].at = at /\ ready # <<>> /\ Head(ready) = k /\ c \in Live /\ conns[c].queue # <<>>
  BY <1>2 DEF Resumes, Live, First
<1>4. /\ file # 0 /\ entries[file].refs = Users /\ Users >= 1
      /\ entries[file].pending # "opening"
      /\ entries[file].pending = "closing" =>
           /\ Users = 1 /\ \A d \in Live : d = c
           /\ \A j \in Calls : Pending(j) => calls[j].conn = c
  BY <1>3, LiveFile DEF Doors, Gate
<1>5. /\ file \in DOMAIN entries /\ entries[file] \in Entry /\ Users \in Nat
      /\ entries[file].pending \in {"none", "opening", "closing"}
  BY <1>4, EntryTypes, Counts DEF IInv, Entry, Doors, Counted
<1>6. ASSUME at = "drop"
      PROVE  /\ entries[file].pending = "none" /\ entries[file].adapter
             /\ adapters[file].state = "open" /\ \A j \in Calls : ~Pending(j)
  <2>1. ASSUME NEW j \in Calls, Pending(j)
        PROVE  FALSE
    <3>1. entries[file].pending = "closing" /\ calls[j].at = "closing"
      BY <1>4, <1>5, <2>1 DEF Doors, Gate, OnePending, Pending
    <3>2. calls[j].conn = c /\ j # k
      BY <1>3, <1>4, <1>6, <2>1, <3>1
    <3> QED
      BY <1>2, <3>1, <3>2, Turn
  <2>2. entries[file].pending = "none"
    BY <1>4, <1>5, <2>1 DEF Doors, Gate, OnePending
  <2> QED
    BY <1>4, <2>1, <2>2 DEF Doors, Gate, Adapters
<1>7. ASSUME at = "closing"
      PROVE  /\ calls[k].entry = file /\ Users = 1 /\ entries[file].pending = "closing"
             /\ \A d \in Live : d = c
  BY <1>3, <1>4, <1>7 DEF Doors, Gate, OnePending, Pending
<1> QED
  BY <1>1, <1>2, <1>3, <1>4, <1>5, <1>6, <1>7

(* The connection of a close goes, or stays when the close failed.         *)
LEMMA DropStep ==
  ASSUME IInv, Doors, NEW k \in Calls, NEW at \in {"drop", "closing"}, Resumes(k, at),
         NEW c, c = calls[k].conn, NEW conn,
         conn \in {conns[c], [conns[c] EXCEPT !.live = FALSE]},
         Finish(k, c, conn), ready' = Tail(ready) \o NextUp(c)
  PROVE  /\ calls'[k] = Idle /\ OthersSame(k) /\ DOMAIN conns' = DOMAIN conns
         /\ conns'[c].lease = 0 /\ conns'[c].live = conn.live
         /\ \A d \in DOMAIN conns : d # c => conns'[d] = conns[d]
         /\ conn = conns[c] => Live' = Live
         /\ conn # conns[c] => Live' = Live \ {c}
         /\ Opened' = Opened /\ Alert' /\ Kinds'
         /\ \A i \in DOMAIN ready' :
              \/ i \in DOMAIN Tail(ready) /\ ready'[i] = Tail(ready)[i]
              \/ ready'[i] \in Calls /\ calls[ready'[i]].at = "queued"
         /\ \A j : Has(ready, j) /\ j # k => Has(ready', j)
<1>1. /\ c # 0 /\ c \in DOMAIN conns /\ c \in Live /\ conns[c] \in Conn /\ conns[c].lease = 0
      /\ First(k) /\ ready # <<>> /\ Head(ready) = k /\ conns[c].queue # <<>>
      /\ calls[k].at = at
  BY DropTurn
<1>2. /\ conn \in Conn /\ conn.queue = conns[c].queue /\ conn.lease = 0
      /\ conn = conns[c] \/ ~conn.live
  BY <1>1 DEF Conn
<1>3. /\ calls'[k] = Idle /\ OthersSame(k) /\ DOMAIN conns' = DOMAIN conns
      /\ conns'[c].queue = Tail(conns[c].queue) /\ conns'[c].live = conn.live
      /\ conns'[c].lease = 0
      /\ \A d \in DOMAIN conns : d # c => conns'[d] = conns[d]
  BY <1>1, <1>2, FinishStep DEF IInv, OthersSame
<1>4. conns[c].live
  BY <1>1 DEF Live
<1>5. (conn = conns[c] => Live' = Live) /\ (conn # conns[c] => Live' = Live \ {c})
  <2>1. conn = conns[c] => \A d \in DOMAIN conns : conns'[d].live = conns[d].live
    BY <1>3
  <2>2. conn = conns[c] => Live' = Live
    BY <1>3, <2>1 DEF Live
  <2>3. conn # conns[c] => ~conns'[c].live
    BY <1>2, <1>3
  <2>4. conn # conns[c] => Live' = Live \ {c}
    BY <1>3, <2>3 DEF Live
  <2> QED
    BY <2>2, <2>4
<1>6. Opened' = Opened
  BY <1>1, <1>3, IdleCall DEF Opened, OthersSame
<1>7. Alert'
  BY <1>1, <1>3, AlertFinish DEF Doors
<1>8. Kinds'
  BY <1>3, IdleCall, KindsKept DEF Doors, OthersSame
<1>9. /\ \A i \in DOMAIN ready' :
           \/ i \in DOMAIN Tail(ready) /\ ready'[i] = Tail(ready)[i]
           \/ ready'[i] \in Calls /\ calls[ready'[i]].at = "queued"
      /\ \A j : Has(ready, j) /\ j # k => Has(ready', j)
  BY <1>1, AfterAnswer DEF Doors, Alert
<1> QED
  BY <1>3, <1>5, <1>6, <1>7, <1>8, <1>9

LEMMA CloseSharedDoors ==
  ASSUME IInv, Doors, NEW k \in Calls, CloseShared(k)
  PROVE  Doors'
<1>1. PICK c, conn : c = calls[k].conn /\ conn = [conns[c] EXCEPT !.live = FALSE]
  OBVIOUS
<1>2. /\ Resumes(k, "drop") /\ (file # 0 => entries[file].refs > 1) /\ Finish(k, c, conn)
      /\ entries' = IF file = 0 THEN entries ELSE [entries EXCEPT ![file].refs = @ - 1]
      /\ ready' = Tail(ready) \o NextUp(c) /\ UNCHANGED <<file, adapters, clients, unseen>>
  BY <1>1 DEF CloseShared
<1>3. /\ c \in DOMAIN conns /\ c \in Live /\ conns[c] \in Conn /\ calls[k].at = "drop"
      /\ ready # <<>> /\ Head(ready) = k
      /\ file # 0 /\ file \in DOMAIN entries /\ entries[file] \in Entry
      /\ entries[file].refs = Users /\ Users \in Nat /\ entries[file].pending = "none"
  BY <1>1, <1>2, DropTurn
<1>4. conn # conns[c] /\ ~conn.live
  BY <1>1, <1>3 DEF Live, Conn
<1>5. /\ calls'[k] = Idle /\ OthersSame(k) /\ DOMAIN conns' = DOMAIN conns
      /\ conns'[c].live = conn.live
      /\ \A d \in DOMAIN conns : d # c => conns'[d] = conns[d]
      /\ Live' = Live \ {c} /\ Opened' = Opened /\ Alert' /\ Kinds'
      /\ \A i \in DOMAIN ready' :
           \/ i \in DOMAIN Tail(ready) /\ ready'[i] = Tail(ready)[i]
           \/ ready'[i] \in Calls /\ calls[ready'[i]].at = "queued"
  BY <1>1, <1>2, <1>4, DropStep
<1>6. PICK r : r = entries[file].refs - 1
  OBVIOUS
<1> DEFINE n == [entries[file] EXCEPT !.refs = r]
<1>7. /\ n \in Entry /\ n.waiters = entries[file].waiters /\ n.pending = "none" /\ n.refs = r
      /\ n.adapter = entries[file].adapter /\ n.tables = entries[file].tables
  <2>1. r \in Int
    BY <1>3, <1>6
  <2> QED
    BY <1>3, <2>1 DEF Entry
<1>8. entries' = [entries EXCEPT ![file] = n]
  BY <1>2, <1>3, <1>6
<1> HIDE DEF n
<1>9. /\ entries'[file] = n /\ DOMAIN entries' = DOMAIN entries
      /\ \A x \in DOMAIN entries : x # file => entries'[x] = entries[x]
  BY <1>3, <1>7, <1>8, EntryUpdated DEF IInv, TypeOK
<1>10. SameDoor
  BY <1>2, <1>3, <1>7, <1>9 DEF SameDoor
<1>11. Gate'
  <2>1. \A j : Has(ready, j) => ~AtDoor(j)
    BY <1>3, NobodyAtDoor DEF Doors, Gate, AtDoor
  <2>2. \A j : Has(ready', j) => Has(ready, j) \/ (j \in Calls /\ calls[j].at = "queued")
    BY <1>1, <1>2, <1>3, DropTurn, AfterAnswer DEF Doors, Alert
  <2>3. \A j : Has(ready', j) => ~AtDoor(j)'
    <3>1. \A j : Has(ready, j) => j \in Calls
      BY ConnTypes DEF IInv, Has
    <3> QED
      BY <1>5, <2>1, <2>2, <3>1, IdleCall DEF AtDoor, OthersSame
  <2>4. \A j \in Calls : AtDoor(j) \/ AtDoor(j)' => calls'[j] = calls[j]
    BY <1>3, <1>5, IdleCall DEF AtDoor, OthersSame
  <2> QED
    BY <1>10, <2>1, <2>3, <2>4, GateKept DEF Doors
<1>12. Counted'
  <2>1. Users' = Users - 1 /\ IsFiniteSet(Opened')
    BY <1>3, <1>5, UserLeaves DEF IInv, Doors, Counted
  <2>2. PICK u \in Nat : u = Users
    BY <1>3
  <2>3. u > 1 /\ r = u - 1 /\ r >= 1 /\ Users' = r
    BY <1>2, <1>3, <1>6, <2>1, <2>2
  <2>4. entries'[file].refs = r /\ entries'[file].pending = "none" /\ file' = file
    BY <1>2, <1>7, <1>9
  <2> QED
    BY <1>3, <2>1, <2>3, <2>4 DEF Counted
<1>13. Current'
  <2>1. unseen' # {} => file # 0 /\ unseen' \subseteq entries'[file].tables
    BY <1>2, <1>7, <1>9 DEF Doors, Current, NoUpdateLost
  <2>2. entries'[file].pending # "opening" /\ calls'[k].op = "idle"
    BY <1>5, <1>7, <1>9, IdleCall
  <2> QED
    BY <1>2, <1>4, <1>5, <2>1, <2>2, CurrentKept DEF Doors
<1> QED
  BY <1>5, <1>11, <1>12, <1>13 DEF Doors

(* The last connection asks the adapter to close: nothing was pending, so  *)
(* nobody waits yet.                                                       *)
LEMMA CloseLastDoors ==
  ASSUME IInv, Doors, NEW k \in Calls, CloseLast(k)
  PROVE  Doors'
<1>1. PICK c : c = calls[k].conn
  OBVIOUS
<1>2. Resumes(k, "drop") /\ entries[file].refs <= 1 /\ UNCHANGED <<adapters, clients>>
  BY DEF CloseLast
<1>3. /\ c \in DOMAIN conns /\ calls[k].at = "drop" /\ ready # <<>> /\ Head(ready) = k
      /\ calls[k].op = "close"
      /\ file # 0 /\ file \in DOMAIN entries /\ entries[file] \in Entry
      /\ entries[file].refs = Users /\ Users \in Nat /\ Users >= 1
      /\ entries[file].pending = "none" /\ entries[file].adapter
      /\ adapters[file].state = "open" /\ \A j \in Calls : ~Pending(j)
  BY <1>1, <1>2, DropTurn
<1>4. /\ entries' = [entries EXCEPT ![file].pending = "closing"]
      /\ calls' = [calls EXCEPT ![k].at = "closing", ![k].entry = file]
      /\ ready' = Tail(ready) /\ UNCHANGED <<file, conns, unseen>>
  BY <1>3 DEF CloseLast
<1>5. /\ Kept(k) /\ calls'[k].entry = file /\ calls'[k].at = "closing"
      /\ \A j \in Calls : j # k => calls'[j] = calls[j]
  <2>1. file \in Nat /\ calls \in [Calls -> Call]
    BY EntryTypes DEF IInv, TypeOK
  <2> QED
    BY <1>4, <2>1, MovedOn
<1> DEFINE n == [entries[file] EXCEPT !.pending = "closing"]
<1>6. /\ n \in Entry /\ n.waiters = entries[file].waiters /\ n.pending = "closing"
      /\ n.refs = entries[file].refs /\ n.adapter /\ n.tables = entries[file].tables
  BY <1>3 DEF Entry
<1>7. entries' = [entries EXCEPT ![file] = n]
  BY <1>4
<1> HIDE DEF n
<1>8. /\ entries'[file] = n /\ DOMAIN entries' = DOMAIN entries
      /\ \A x \in DOMAIN entries : x # file => entries'[x] = entries[x]
  BY <1>3, <1>6, <1>7, EntryUpdated DEF IInv, TypeOK
<1>9. /\ Once(ready') /\ ~Has(ready', k)
      /\ \A j : Has(ready, j) /\ j # k => Has(ready', j)
      /\ \A j : Has(ready', j) => Has(ready, j)
  BY <1>3, <1>4, HeadLeaves DEF Doors, Alert
<1>10. (\A j : Has(ready, j) => ~AtDoor(j)) /\ \A j : Has(ready, j) => j \in Calls
  <2>1. \A j : Has(ready, j) => ~AtDoor(j)
    BY <1>3, NobodyAtDoor DEF Doors, Gate, AtDoor
  <2> QED
    BY <2>1, ConnTypes DEF IInv, Has
<1>11. entries[file].waiters = <<>>
  BY <1>3 DEF Doors, Gate, Adapters
<1>12. \A j \in Calls : calls[j].at # "waiting"
  <2> SUFFICES ASSUME NEW j \in Calls, calls[j].at = "waiting"
               PROVE  FALSE
    OBVIOUS
  <2>1. ~Has(ready, j)
    BY <1>10 DEF AtDoor
  <2>2. Has(entries[file].waiters, j)
    BY <2>1 DEF Doors, Gate, Order, Awake
  <2> QED
    BY <1>11, <2>2, SingleOnce
<1>13. Gate'
  <2>1. \A j \in Calls : calls'[j].at # "waiting" /\ (Pending(j)' <=> j = k)
    BY <1>3, <1>5, <1>12 DEF Pending
  <2>2. OnePending'
    BY <1>3, <1>4, <1>5, <1>6, <1>8, <2>1 DEF OnePending
  <2>3. Adapters'
    <3>1. /\ \A e \in DOMAIN entries : e # file =>
               adapters[e].state = "closed" /\ entries[e].waiters = <<>>
      BY DEF Doors, Gate, Adapters
    <3> QED
      BY <1>2, <1>4, <1>6, <1>8, <1>11, <3>1 DEF Adapters
  <2>4. Answers'
    <3>1. \A j \in Calls : calls'[j].at # "opening"
      BY <1>5, <2>1 DEF Pending
    <3>2. \A j \in Calls : calls'[j].at = "closing" => j = k
      BY <2>1 DEF Pending
    <3>3. ~Awake(k)'
      BY <1>9 DEF Awake
    <3>4. entries'[file].adapter /\ adapters'[file].state = "open" /\ file' = file
      BY <1>2, <1>3, <1>4, <1>6, <1>8
    <3> QED
      BY <2>1, <3>1, <3>2, <3>3, <3>4 DEF Answers
  <2>5. Order'
    <3>1. \A i \in DOMAIN ready' : Has(ready', ready'[i])
      BY DEF Has
    <3>2. \A i \in DOMAIN ready' : ready'[i] \in Calls /\ ready'[i] # k
      BY <1>9, <1>10, <3>1
    <3> QED
      BY <2>1, <3>2 DEF Order
  <2> QED
    BY <2>2, <2>3, <2>4, <2>5 DEF Gate
<1>14. Counted'
  <2>1. Live' = Live
    BY <1>4 DEF Live
  <2>2. Opened' = Opened
    BY <1>3, <1>5 DEF Opened
  <2>3. Users = 1
    BY <1>2, <1>3
  <2>4. Users' = Users
    BY <2>1, <2>2 DEF Users
  <2>5. IsFiniteSet(Opened')
    BY <2>2 DEF Doors, Counted
  <2> QED
    BY <1>3, <1>4, <1>6, <1>8, <2>3, <2>4, <2>5 DEF Counted
<1>15. Alert'
  BY <1>4, <1>5, <1>9, AlertKept DEF Doors
<1>16. Kinds'
  BY <1>5, KindsKept DEF Doors
<1>17. Current'
  <2>1. unseen' # {} => file # 0 /\ unseen' \subseteq entries'[file].tables
    BY <1>4, <1>6, <1>8 DEF Doors, Current, NoUpdateLost
  <2>2. entries'[file].pending # "opening" /\ calls'[k].op = "close"
    BY <1>3, <1>5, <1>6, <1>8 DEF Kept
  <2>3. \A d \in DOMAIN conns : conns[d].live => conns[d].lease \in {0, file}
    BY DEF Doors, Current
  <2> QED
    BY <1>3, <1>4, <1>5, <2>1, <2>2, <2>3, CurrentKept DEF Doors, OthersSame
<1> QED
  BY <1>13, <1>14, <1>15, <1>16, <1>17 DEF Doors

(* The adapter answers an opening or a closing: the pending call is to run,*)
(* and after it the one that waited, if any.                               *)
LEMMA AnsweredDoors ==
  ASSUME IInv, Doors, NEW k \in Calls, Quiet, Pending(k), NEW ok \in BOOLEAN,
         NEW w, w = entries[file].waiters,
         calls' = [j \in Calls |-> IF j = k \/ Contains(w, j)
                                   THEN [calls[j] EXCEPT !.ok = ok] ELSE calls[j]],
         ready' = <<k>> \o w,
         DOMAIN entries' = DOMAIN entries,
         \A x \in DOMAIN entries : x # file =>
           entries'[x] = entries[x] /\ adapters'[x].state = adapters[x].state,
         entries'[file].waiters = <<>>, entries'[file].pending = entries[file].pending,
         entries'[file].refs = entries[file].refs, entries'[file].tables = entries[file].tables,
         calls[k].at = "opening" =>
           /\ adapters'[file].state # "opening"
           /\ entries'[file].adapter <=> adapters'[file].state = "open"
           /\ entries'[file].adapter => ok,
         calls[k].at = "closing" =>
           /\ entries'[file].adapter
           /\ adapters'[file].state = IF ok THEN "closed" ELSE "open",
         UNCHANGED <<file, conns, unseen>>
  PROVE  Doors'
<1>1. /\ file # 0 /\ file \in DOMAIN entries /\ w \in Seq(Calls)
      /\ calls[k].entry = file /\ entries[file].pending = calls[k].at
      /\ \A j \in Calls : Pending(j) => j = k
      /\ calls[k].at \in {"opening", "closing"}
  BY EntryTypes DEF IInv, Doors, Gate, OnePending, Pending
<1>2. /\ \A i \in DOMAIN w : w[i] \in Calls /\ calls[w[i]].at = "waiting"
      /\ w = <<>> \/ Len(w) = 1
  <2>1. \A i \in DOMAIN w : w[i] \in Calls
    BY <1>1
  <2> QED
    BY <1>1, <2>1 DEF IInv, Waits, Doors, Gate, Adapters
<1>3. /\ \A j \in Calls : /\ calls'[j].at = calls[j].at /\ calls'[j].op = calls[j].op
                          /\ calls'[j].conn = calls[j].conn /\ calls'[j].entry = calls[j].entry
      /\ calls'[k].ok = ok
      /\ \A j \in Calls : calls[j].at \notin {"opening", "closing", "waiting"} => calls'[j] = calls[j]
  <2>1. ASSUME NEW j \in Calls
        PROVE  /\ calls'[j].at = calls[j].at /\ calls'[j].op = calls[j].op
               /\ calls'[j].conn = calls[j].conn /\ calls'[j].entry = calls[j].entry
               /\ j = k => calls'[j].ok = ok
               /\ calls[j].at \notin {"opening", "closing", "waiting"} => calls'[j] = calls[j]
    <3> DEFINE d == [calls[j] EXCEPT !.ok = ok]
    <3>1. /\ d.at = calls[j].at /\ d.op = calls[j].op /\ d.conn = calls[j].conn
          /\ d.entry = calls[j].entry /\ d.ok = ok
      BY DEF IInv, TypeOK, Call
    <3>2. calls'[j] = IF j = k \/ Contains(w, j) THEN d ELSE calls[j]
      OBVIOUS
    <3> HIDE DEF d
    <3>3. Contains(w, j) => calls[j].at = "waiting"
      BY <1>1, <1>2 DEF Contains
    <3> QED
      BY <1>1, <3>1, <3>2, <3>3
  <2> QED
    BY <2>1
<1>4. /\ \A i \in DOMAIN ready' : /\ ready'[i] \in Calls
                                  /\ \/ i = 1 /\ ready'[i] = k
                                     \/ i = 2 /\ calls[ready'[i]].at = "waiting"
      /\ ready'[1] = k /\ Once(ready') /\ Has(ready', k)
      /\ \A j : Has(w, j) => Has(ready', j)
  <2>1. PICK n : n = Len(ready')
    OBVIOUS
  <2>2. /\ Len(<<k>>) = 1 /\ <<k>>[1] = k /\ <<k>> \in Seq(Calls)
    OBVIOUS
  <2>3. /\ n = 1 + Len(w) /\ DOMAIN ready' = 1..n /\ ready'[1] = k
        /\ \A i \in DOMAIN w : ready'[i + 1] = w[i]
    BY <1>1, <2>1, <2>2, ConcatProperties
  <2>4. CASE w = <<>>
    <3>1. DOMAIN ready' = {1}
      BY <2>3, <2>4
    <3> QED
      BY <2>3, <2>4, <3>1, SingleOnce DEF Once, Has
  <2>5. CASE Len(w) = 1
    <3>1. PICK x : x = w[1]
      OBVIOUS
    <3>2. DOMAIN w = {1} /\ DOMAIN ready' = {1, 2} /\ ready'[2] = x
      BY <1>1, <2>3, <2>5, <3>1
    <3>3. x \in Calls /\ calls[x].at = "waiting" /\ x # k
      BY <1>1, <1>2, <3>1, <3>2
    <3>4. \A i \in DOMAIN ready' : (i = 1 /\ ready'[i] = k) \/ (i = 2 /\ ready'[i] = x)
      BY <2>3, <3>2
    <3>5. Once(ready') /\ Has(ready', k) /\ Has(ready', x)
      BY <2>3, <3>2, <3>3 DEF Once, Has
    <3>6. \A j : Has(w, j) => j = x
      BY <3>1, <3>2 DEF Has
    <3> QED
      BY <2>3, <3>3, <3>4, <3>5, <3>6
  <2> QED
    BY <1>2, <2>4, <2>5
<1>5. \A j : ~Has(ready, j)
  BY QuietReady
<1>6. \A j \in Calls : calls[j].at = "waiting" => Has(ready', j)
  BY <1>4, <1>5 DEF Doors, Gate, Order, Awake
<1>7. Gate'
  <2>1. \A j \in Calls : Pending(j)' <=> j = k
    BY <1>1, <1>3 DEF Pending
  <2>2. OnePending'
    BY <1>1, <1>3, <2>1 DEF OnePending
  <2>3. Adapters'
    BY <1>1 DEF Doors, Gate, Adapters
  <2>4. Answers'
    <3>1. Awake(k)'
      BY <1>4 DEF Awake
    <3>2. \A j \in Calls : calls'[j].at \in {"opening", "closing"} => j = k
      BY <1>1, <1>3 DEF Pending
    <3>3. (calls'[k].at = "closing" <=> calls[k].at = "closing")
            /\ (calls'[k].at = "opening" <=> calls[k].at = "opening") /\ file' = file
      BY <1>3
    <3> QED
      BY <1>3, <2>1, <3>1, <3>2, <3>3 DEF Answers
  <2>5. Order'
    <3>1. ASSUME NEW i \in DOMAIN ready'
          PROVE  /\ calls'[ready'[i]].at \in {"opening", "closing"} => i = 1
                 /\ calls'[ready'[i]].at = "waiting" =>
                      i = 2 /\ calls'[ready'[1]].at \in {"opening", "closing"}
      <4>1. PICK j \in Calls : j = ready'[i]
        BY <1>4
      <4>2. calls'[j].at = calls[j].at /\ calls'[k].at = calls[k].at
        BY <1>3
      <4>3. (i = 1 /\ j = k) \/ (i = 2 /\ calls[j].at = "waiting")
        BY <1>4, <4>1
      <4> QED
        BY <1>1, <1>4, <4>1, <4>2, <4>3
    <3>2. ASSUME NEW j \in Calls, calls'[j].at = "waiting"
          PROVE  Awake(j)'
      BY <1>3, <1>6, <3>2 DEF Awake
    <3> QED
      BY <3>1, <3>2 DEF Order, Pending
  <2> QED
    BY <2>2, <2>3, <2>4, <2>5 DEF Gate
<1>8. Counted'
  <2>1. Live' = Live /\ Opened' = Opened
    BY <1>3 DEF Live, Opened
  <2>2. Users' = Users
    BY <2>1 DEF Users
  <2>3. IsFiniteSet(Opened')
    BY <2>1 DEF Doors, Counted
  <2> QED
    BY <2>2, <2>3 DEF Doors, Counted
<1>9. Alert'
  <2>1. \A j \in Calls : First(j)' <=> First(j)
    BY <1>3 DEF First
  <2> QED
    BY <1>3, <1>4, <1>5, <2>1 DEF Doors, Alert, Awake
<1>10. Kinds'
  BY <1>3 DEF Doors, Kinds
<1>11. Current'
  BY <1>1, <1>3 DEF Doors, Current, NoUpdateLost
<1> QED
  BY <1>7, <1>8, <1>9, <1>10, <1>11 DEF Doors

LEMMA OpenDoneDoors ==
  ASSUME IInv, Doors, NEW k \in Calls, NEW result \in {"adapter", "nothing", "failure"},
         OpenDone(k, result)
  PROVE  Doors'
<1>1. Quiet /\ Pending(k) /\ calls[k].at = "opening" /\ UNCHANGED <<file, conns, unseen>>
  BY DEF OpenDone, Pending
<1>2. /\ file # 0 /\ file \in DOMAIN entries /\ calls[k].entry = file
      /\ entries[file] \in Entry /\ adapters[file] \in Adapter /\ DOMAIN entries = DOMAIN adapters
  BY <1>1, EntryTypes DEF IInv, Doors, Gate, OnePending
<1> DEFINE ok == result # "failure"
           b  == result = "adapter"
           st == IF b THEN "open" ELSE "closed"
           n  == [entries[file] EXCEPT !.adapter = b, !.waiters = <<>>]
           a  == [adapters[file] EXCEPT !.state = st]
<1>3. /\ n \in Entry /\ n.waiters = <<>> /\ n.adapter = b /\ n.pending = entries[file].pending
      /\ n.refs = entries[file].refs /\ n.tables = entries[file].tables
      /\ a \in Adapter /\ a.state = st
  <2>1. b \in BOOLEAN /\ st \in {"opening", "open", "closed"} /\ <<>> \in Seq(Calls)
    OBVIOUS
  <2> HIDE DEF b, st
  <2> QED
    BY <1>2, <2>1 DEF Entry, Adapter
<1>4. /\ entries' = [entries EXCEPT ![file] = n] /\ adapters' = [adapters EXCEPT ![file] = a]
      /\ calls' = [j \in Calls |-> IF j = k \/ Contains(entries[file].waiters, j)
                                   THEN [calls[j] EXCEPT !.ok = ok] ELSE calls[j]]
      /\ ready' = <<k>> \o entries[file].waiters
  BY <1>2 DEF OpenDone
<1>5. ok \in BOOLEAN /\ st # "opening" /\ (b <=> st = "open") /\ (b => ok)
  OBVIOUS
<1> HIDE DEF n, a, ok, b, st
<1>6. /\ entries'[file] = n /\ DOMAIN entries' = DOMAIN entries
      /\ \A x \in DOMAIN entries : x # file => entries'[x] = entries[x]
  BY <1>2, <1>3, <1>4, EntryUpdated DEF IInv, TypeOK
<1>7. /\ adapters'[file] = a
      /\ \A x \in DOMAIN entries : x # file => adapters'[x].state = adapters[x].state
  BY <1>2, <1>3, <1>4, AdapterUpdated DEF IInv, TypeOK
<1>8. /\ entries'[file].waiters = <<>> /\ entries'[file].pending = entries[file].pending
      /\ entries'[file].refs = entries[file].refs /\ entries'[file].tables = entries[file].tables
      /\ adapters'[file].state # "opening"
      /\ entries'[file].adapter <=> adapters'[file].state = "open"
      /\ entries'[file].adapter => ok
  BY <1>3, <1>5, <1>6, <1>7
<1> QED
  BY <1>1, <1>4, <1>5, <1>6, <1>7, <1>8, AnsweredDoors

LEMMA CloseDoneDoors ==
  ASSUME IInv, Doors, NEW k \in Calls, NEW ok \in BOOLEAN, CloseDone(k, ok)
  PROVE  Doors'
<1>1. Quiet /\ Pending(k) /\ calls[k].at = "closing" /\ UNCHANGED <<file, conns, unseen>>
  BY DEF CloseDone, Pending
<1>2. /\ file # 0 /\ file \in DOMAIN entries /\ calls[k].entry = file
      /\ entries[file] \in Entry /\ adapters[file] \in Adapter /\ DOMAIN entries = DOMAIN adapters
  BY <1>1, EntryTypes DEF IInv, Doors, Gate, OnePending
<1>3. entries[file].adapter /\ adapters[file].state = "open"
  BY <1>1, QuietReady DEF Doors, Gate, Answers, Awake
<1> DEFINE st == IF ok THEN "closed" ELSE "open"
           n  == [entries[file] EXCEPT !.waiters = <<>>]
           a  == [adapters[file] EXCEPT !.state = st]
<1>4. /\ n \in Entry /\ n.waiters = <<>> /\ n.adapter /\ n.pending = entries[file].pending
      /\ n.refs = entries[file].refs /\ n.tables = entries[file].tables
      /\ a \in Adapter /\ a.state = st
  <2>1. st \in {"opening", "open", "closed"} /\ <<>> \in Seq(Calls)
    OBVIOUS
  <2> HIDE DEF st
  <2> QED
    BY <1>2, <1>3, <2>1 DEF Entry, Adapter
<1>5. /\ entries' = [entries EXCEPT ![file] = n] /\ adapters' = [adapters EXCEPT ![file] = a]
      /\ calls' = [j \in Calls |-> IF j = k \/ Contains(entries[file].waiters, j)
                                   THEN [calls[j] EXCEPT !.ok = ok] ELSE calls[j]]
      /\ ready' = <<k>> \o entries[file].waiters
  BY <1>2, <1>3 DEF CloseDone
<1> HIDE DEF n, a
<1>6. /\ entries'[file] = n /\ DOMAIN entries' = DOMAIN entries
      /\ \A x \in DOMAIN entries : x # file => entries'[x] = entries[x]
  BY <1>2, <1>4, <1>5, EntryUpdated DEF IInv, TypeOK
<1>7. /\ adapters'[file] = a
      /\ \A x \in DOMAIN entries : x # file => adapters'[x].state = adapters[x].state
  BY <1>2, <1>4, <1>5, AdapterUpdated DEF IInv, TypeOK
<1>8. /\ entries'[file].waiters = <<>> /\ entries'[file].pending = entries[file].pending
      /\ entries'[file].refs = entries[file].refs /\ entries'[file].tables = entries[file].tables
      /\ entries'[file].adapter /\ adapters'[file].state = IF ok THEN "closed" ELSE "open"
  BY <1>4, <1>6, <1>7
<1> QED
  BY <1>1, <1>5, <1>6, <1>7, <1>8, AnsweredDoors

-----------------------------------------------------------------------------
(* The pending call is over: the adapter is open, or the entry is gone; the*)
(* one that waited runs next.                                              *)
LEMMA GateOpens ==
  ASSUME IInv, Doors, NEW k \in Calls, NEW at \in {"opening", "closing"}, Resumes(k, at),
         OthersSame(k), calls'[k].at \notin {"opening", "closing", "waiting"},
         file' = file \/ file' = 0,
         file' = file => /\ entries'[file].pending = "none" /\ entries'[file].adapter
                         /\ adapters[file].state = "open",
         file' = 0 => adapters[file].state = "closed",
         DOMAIN entries' = DOMAIN entries,
         entries'[file].waiters = entries[file].waiters,
         \A x \in DOMAIN entries : x # file => entries'[x] = entries[x],
         adapters' = adapters,
         \A i \in DOMAIN ready' :
           \/ i \in DOMAIN Tail(ready) /\ ready'[i] = Tail(ready)[i]
           \/ ready'[i] \in Calls /\ calls'[ready'[i]].at \notin {"opening", "closing", "waiting"},
         \A j : Has(ready, j) /\ j # k => Has(ready', j)
  PROVE  Gate'
<1>1. /\ Pending(k) /\ file # 0 /\ \A j \in Calls : Pending(j) => j = k
      /\ ready # <<>> /\ Head(ready) = k
  BY DEF Resumes, Pending, Doors, Gate, OnePending
<1>2. Has(ready, k) /\ ready \in Seq(Calls)
  BY <1>1, TailOnce DEF IInv, TypeOK
<1>3. entries[file].waiters = <<>>
  BY <1>1, <1>2 DEF Doors, Gate, Answers, Awake
<1>4. \A j \in Calls : ~Pending(j)'
  BY <1>1 DEF Pending, OthersSame
<1>5. OnePending'
  BY <1>4 DEF OnePending
<1>6. Adapters'
  BY <1>1, <1>3 DEF Doors, Gate, Adapters
<1>7. Answers'
  BY <1>4 DEF Answers, Pending
<1>8. Order'
  <2>1. ASSUME NEW i \in DOMAIN ready'
        PROVE  /\ calls'[ready'[i]].at \notin {"opening", "closing"}
               /\ calls'[ready'[i]].at = "waiting" => i = 1
    <3>1. CASE i \in DOMAIN Tail(ready) /\ ready'[i] = Tail(ready)[i]
      <4>1. /\ i + 1 \in DOMAIN ready /\ Tail(ready)[i] = ready[i + 1]
            /\ i \in Nat /\ i >= 1
        BY <1>1, <1>2, <3>1, TailOnce
      <4>2. PICK j \in Calls : j = ready'[i]
        BY <3>1, <4>1, ConnTypes DEF IInv
      <4>3. j = ready[i + 1]
        BY <3>1, <4>1, <4>2
      <4>4. calls[j].at = "waiting" => i + 1 \in {1, 2}
        BY <4>1, <4>3 DEF Doors, Gate, Order
      <4>5. calls'[j].at = "waiting" => calls[j].at = "waiting"
        BY DEF OthersSame
      <4>6. calls'[j].at \notin {"opening", "closing"}
        BY <1>4 DEF Pending
      <4> QED
        BY <4>1, <4>2, <4>4, <4>5, <4>6
    <3>2. CASE calls'[ready'[i]].at \notin {"opening", "closing", "waiting"}
      BY <3>2
    <3> QED
      BY <3>1, <3>2
  <2>2. ASSUME NEW j \in Calls, calls'[j].at = "waiting"
        PROVE  Has(ready', j)
    <3>1. j # k /\ calls[j].at = "waiting"
      BY <2>2 DEF OthersSame
    <3>2. Has(ready, j)
      BY <1>3, <3>1, SingleOnce DEF Doors, Gate, Order, Awake
    <3> QED
      BY <3>1, <3>2
  <2> QED
    BY <1>4, <2>1, <2>2 DEF Order, Pending, Awake
<1> QED
  BY <1>5, <1>6, <1>7, <1>8 DEF Gate

(* The opener's turn: with an adapter it is the first user of the entry,   *)
(* without one the entry, which nobody used, is gone.                      *)
LEMMA ResumeOpeningDoors ==
  ASSUME IInv, Doors, NEW k \in Calls, ResumeOpening(k)
  PROVE  Doors'
<1>1. /\ Resumes(k, "opening") /\ UNCHANGED <<adapters, conns, clients, unseen>>
      /\ ready # <<>> /\ Head(ready) = k /\ calls[k].at = "opening" /\ Pending(k)
  BY DEF ResumeOpening, Resumes, Pending
<1>2. /\ file # 0 /\ file \in DOMAIN entries /\ entries[file] \in Entry
      /\ calls[k].entry = file /\ entries[file].pending = "opening"
      /\ adapters[file] \in Adapter /\ calls[k].op = "open"
  BY <1>1, EntryTypes DEF IInv, Doors, Gate, OnePending, Kinds
<1>3. Awake(k)
  BY <1>1, TailOnce DEF Awake, IInv, TypeOK
<1>4. /\ adapters[file].state # "opening"
      /\ entries[file].adapter <=> adapters[file].state = "open"
      /\ entries[file].adapter => calls[k].ok
  BY <1>1, <1>3 DEF Doors, Gate, Answers
<1>5. /\ entries[file].refs = Users /\ Users = 0 /\ Live = {} /\ Opened = {} /\ unseen = {}
      /\ IsFiniteSet(Opened)
  BY <1>2, Counts DEF IInv, Doors, Counted, Current
<1>6. /\ Once(Tail(ready)) /\ ~Has(Tail(ready), k)
      /\ \A j : Has(ready, j) /\ j # k => Has(Tail(ready), j)
      /\ Once(Append(Tail(ready), k)) /\ Has(Append(Tail(ready), k), k)
      /\ \A j : Has(ready, j) /\ j # k => Has(Append(Tail(ready), k), j)
      /\ Tail(ready) \in Seq(Calls)
  BY <1>1, HeadLeaves, TailOnce DEF Doors, Alert, IInv, TypeOK
<1>7. CASE entries[file].adapter
  <2>1. /\ entries' = [entries EXCEPT ![file].pending = "none", ![file].refs = @ + 1]
        /\ MoveTo(k, "opened") /\ ready' = Append(Tail(ready), k) /\ file' = file
    BY <1>2, <1>4, <1>7 DEF ResumeOpening
  <2>2. /\ calls'[k].at = "opened" /\ calls'[k].op = "open" /\ OthersSame(k)
    BY <1>2, <2>1, Moved DEF IInv, TypeOK, OthersSame, Kept
  <2> PICK r \in Int : r = 1
    OBVIOUS
  <2> DEFINE n == [entries[file] EXCEPT !.pending = "none", !.refs = r]
  <2>3. /\ n \in Entry /\ n.waiters = entries[file].waiters /\ n.pending = "none" /\ n.refs = r
        /\ n.adapter = entries[file].adapter /\ n.tables = entries[file].tables
    BY <1>2 DEF Entry
  <2>4. entries' = [entries EXCEPT ![file] = n]
    <3>1. entries[file].refs + 1 = 1
      BY <1>5
    <3> QED
      BY <2>1, <3>1
  <2> HIDE DEF n
  <2>5. /\ entries'[file] = n /\ DOMAIN entries' = DOMAIN entries
        /\ \A x \in DOMAIN entries : x # file => entries'[x] = entries[x]
    BY <1>2, <2>3, <2>4, EntryUpdated DEF IInv, TypeOK
  <2>6. Gate'
    <3>1. \A i \in DOMAIN ready' :
            \/ i \in DOMAIN Tail(ready) /\ ready'[i] = Tail(ready)[i]
            \/ ready'[i] = k
      BY <1>6, <2>1, AppendOnce
    <3>2. \A j : Has(ready, j) /\ j # k => Has(ready', j)
      BY <1>6, <2>1
    <3> QED
      BY <1>1, <1>2, <1>4, <1>7, <2>1, <2>2, <2>3, <2>5, <3>1, <3>2, GateOpens
  <2>7. Counted'
    <3>1. Live' = Live
      BY <1>1 DEF Live
    <3>2. Opened' = Opened \cup {k} /\ k \notin Opened
      BY <1>1, <2>2 DEF Opened, OthersSame
    <3>3. Users' = Users + 1 /\ IsFiniteSet(Opened')
      BY <1>5, <3>1, <3>2, UserComes DEF IInv
    <3>4. Users' = 1
      BY <1>5, <3>3
    <3> QED
      BY <1>2, <2>1, <2>3, <2>5, <3>3, <3>4 DEF Counted
  <2>8. Alert'
    BY <1>1, <1>6, <2>1, <2>2, AlertKept DEF Doors, OthersSame
  <2>9. Kinds'
    BY <2>2, KindsKept DEF Doors, OthersSame
  <2>10. Current'
    <3>1. entries'[file].pending # "opening" /\ unseen' = {}
      BY <1>1, <1>5, <2>3, <2>5
    <3>2. \A d \in DOMAIN conns : conns[d].live => conns[d].lease \in {0, file}
      BY DEF Doors, Current
    <3> QED
      BY <1>1, <1>2, <2>1, <2>2, <3>1, <3>2, CurrentKept DEF Doors
  <2> QED
    BY <2>6, <2>7, <2>8, <2>9, <2>10 DEF Doors
<1>8. CASE ~entries[file].adapter
  <2>1. /\ entries' = [entries EXCEPT ![file].pending = "none"]
        /\ Answer(k) /\ ready' = Tail(ready) /\ file' = 0
    BY <1>2, <1>8 DEF ResumeOpening
  <2>2. /\ calls'[k] = Idle /\ OthersSame(k)
    BY <2>1, Answered DEF IInv, TypeOK, OthersSame
  <2> DEFINE n == [entries[file] EXCEPT !.pending = "none"]
  <2>3. n \in Entry /\ n.waiters = entries[file].waiters /\ n.pending = "none"
    BY <1>2 DEF Entry
  <2>4. entries' = [entries EXCEPT ![file] = n]
    BY <2>1
  <2> HIDE DEF n
  <2>5. /\ entries'[file] = n /\ DOMAIN entries' = DOMAIN entries
        /\ \A x \in DOMAIN entries : x # file => entries'[x] = entries[x]
    BY <1>2, <2>3, <2>4, EntryUpdated DEF IInv, TypeOK
  <2>6. Gate'
    <3>1. adapters[file].state = "closed"
      BY <1>2, <1>4, <1>8 DEF Adapter
    <3>2. \A j : Has(ready, j) /\ j # k => Has(ready', j)
      BY <1>6, <2>1
    <3> QED
      BY <1>1, <1>2, <2>1, <2>2, <2>3, <2>5, <3>1, <3>2, GateOpens, IdleCall
  <2>7. Counted'
    <3>1. Live' = Live
      BY <1>1 DEF Live
    <3>2. Opened' = Opened
      BY <1>1, <2>2, IdleCall DEF Opened, OthersSame
    <3>3. Users' = 0 /\ IsFiniteSet(Opened')
      BY <1>5, <3>1, <3>2 DEF Users
    <3> QED
      BY <2>1, <3>3 DEF Counted
  <2>8. Alert'
    BY <1>1, <1>6, <2>1, <2>2, IdleCall, AlertKept DEF Doors, OthersSame
  <2>9. Kinds'
    BY <2>2, IdleCall, KindsKept DEF Doors, OthersSame
  <2>10. Current'
    <3>1. \A j \in Calls : calls'[j].op \notin {"begin", "end", "write", "get"}
      <4> SUFFICES ASSUME NEW j \in Calls, calls'[j].op \in {"begin", "end", "write", "get"}
                   PROVE  FALSE
        OBVIOUS
      <4>1. calls[j].op \in {"begin", "end", "write", "get"}
        BY <2>2, IdleCall DEF OthersSame
      <4> QED
        BY <1>2, <4>1, StatementFile DEF Doors
    <3>2. \A d \in DOMAIN conns' : ~conns'[d].live
      BY <1>1, <1>5 DEF Live
    <3>3. unseen' = {} /\ file' = 0
      BY <1>1, <1>5, <2>1
    <3> QED
      BY <3>1, <3>2, <3>3 DEF Current, NoUpdateLost
  <2> QED
    BY <2>6, <2>7, <2>8, <2>9, <2>10 DEF Doors
<1> QED
  BY <1>7, <1>8

(* The adapter is closed and the entry gone with its last user, or the     *)
(* close failed and everything is as it was.                               *)
LEMMA ResumeClosingDoors ==
  ASSUME IInv, Doors, NEW k \in Calls, ResumeClosing(k)
  PROVE  Doors'
<1>1. PICK c : c = calls[k].conn
  OBVIOUS
<1>2. /\ Resumes(k, "closing") /\ Pending(k) /\ ready' = Tail(ready) \o NextUp(c)
      /\ UNCHANGED <<adapters, clients>>
  BY <1>1 DEF ResumeClosing, Resumes, Pending
<1>3. /\ c \in DOMAIN conns /\ c \in Live /\ conns[c] \in Conn /\ calls[k].at = "closing"
      /\ ready # <<>> /\ Head(ready) = k
      /\ file # 0 /\ file \in DOMAIN entries /\ entries[file] \in Entry
      /\ entries[file].refs = Users /\ Users = 1 /\ entries[file].pending = "closing"
      /\ calls[k].entry = file /\ \A d \in Live : d = c
  BY <1>1, <1>2, DropTurn
<1>4. Awake(k)
  BY <1>3, TailOnce DEF Awake, IInv, TypeOK
<1>5. /\ entries[file].adapter /\ adapters[file].state = IF calls[k].ok THEN "closed" ELSE "open"
  BY <1>3, <1>4 DEF Doors, Gate, Answers
<1>6. IsFiniteSet(Opened)
  BY DEF Doors, Counted
<1>7. CASE calls[k].ok
  <2>1. PICK conn : conn = [conns[c] EXCEPT !.live = FALSE]
    OBVIOUS
  <2>2. /\ Finish(k, c, conn) /\ file' = 0 /\ unseen' = {}
        /\ entries' = [entries EXCEPT ![file].pending = IF @ = "closing" THEN "none" ELSE @,
                                      ![file].refs = @ - 1, ![file].adapter = FALSE]
    <3>1. entries[file].refs = 1 /\ entries[file].refs <= 1
      BY <1>3
    <3>2. DropClosedFile(k, c, file)
      BY <1>1, <1>3, <1>7 DEF ResumeClosing
    <3> QED
      BY <2>1, <3>1, <3>2 DEF DropClosedFile
  <2>3. conn # conns[c]
    BY <1>3, <2>1 DEF Live, Conn
  <2>4. /\ calls'[k] = Idle /\ OthersSame(k) /\ DOMAIN conns' = DOMAIN conns
        /\ Live' = Live \ {c} /\ Opened' = Opened /\ Alert' /\ Kinds'
        /\ \A i \in DOMAIN ready' :
             \/ i \in DOMAIN Tail(ready) /\ ready'[i] = Tail(ready)[i]
             \/ ready'[i] \in Calls /\ calls[ready'[i]].at = "queued"
        /\ \A j : Has(ready, j) /\ j # k => Has(ready', j)
    BY <1>1, <1>2, <2>1, <2>2, <2>3, DropStep
  <2> PICK r \in Int : r = 0
    OBVIOUS
  <2> DEFINE n == [entries[file] EXCEPT !.pending = "none", !.refs = r, !.adapter = FALSE]
  <2>5. n \in Entry /\ n.waiters = entries[file].waiters /\ n.refs = r
    BY <1>3 DEF Entry
  <2>6. entries' = [entries EXCEPT ![file] = n]
    <3>1. entries[file].refs - 1 = 0
      BY <1>3
    <3> QED
      BY <1>3, <2>2, <3>1
  <2> HIDE DEF n
  <2>7. /\ entries'[file] = n /\ DOMAIN entries' = DOMAIN entries
        /\ \A x \in DOMAIN entries : x # file => entries'[x] = entries[x]
    BY <1>3, <2>5, <2>6, EntryUpdated DEF IInv, TypeOK
  <2>8. Gate'
    <3>1. \A i \in DOMAIN ready' :
            \/ i \in DOMAIN Tail(ready) /\ ready'[i] = Tail(ready)[i]
            \/ ready'[i] \in Calls /\ calls'[ready'[i]].at \notin {"opening", "closing", "waiting"}
      BY <2>4, IdleCall DEF OthersSame
    <3>2. adapters[file].state = "closed" /\ adapters' = adapters
      BY <1>2, <1>5, <1>7
    <3> QED
      BY <1>2, <1>3, <2>2, <2>4, <2>5, <2>7, <3>1, <3>2, GateOpens, IdleCall
  <2>9. Counted'
    <3>1. Users' = Users - 1 /\ IsFiniteSet(Opened')
      BY <1>3, <1>6, <2>4, UserLeaves DEF IInv
    <3>2. Users' = 0
      BY <1>3, <3>1
    <3> QED
      BY <2>2, <3>1, <3>2 DEF Counted
  <2>10. Current'
    <3>1. \A j \in Calls : calls'[j].op \notin {"begin", "end", "write", "get"}
      <4> SUFFICES ASSUME NEW j \in Calls, calls'[j].op \in {"begin", "end", "write", "get"}
                   PROVE  FALSE
        OBVIOUS
      <4>1. calls[j].op \in {"begin", "end", "write", "get"}
        BY <2>4, IdleCall DEF OthersSame
      <4> QED
        BY <1>3, <4>1, StatementFile DEF Doors
    <3>2. \A d \in DOMAIN conns' : ~conns'[d].live
      <4>1. Live' = {}
        BY <1>3, <2>4
      <4> QED
        BY <4>1 DEF Live
    <3> QED
      BY <2>2, <3>1, <3>2 DEF Current, NoUpdateLost
  <2> QED
    BY <2>4, <2>8, <2>9, <2>10 DEF Doors
<1>8. CASE ~calls[k].ok
  <2>1. /\ Finish(k, c, conns[c]) /\ file' = file /\ unseen' = unseen
        /\ entries' = [entries EXCEPT ![file].pending = "none"]
    BY <1>1, <1>3, <1>8 DEF ResumeClosing
  <2>2. /\ calls'[k] = Idle /\ OthersSame(k) /\ DOMAIN conns' = DOMAIN conns
        /\ conns'[c].lease = 0
        /\ \A d \in DOMAIN conns : d # c => conns'[d] = conns[d]
        /\ Live' = Live /\ Opened' = Opened /\ Alert' /\ Kinds'
        /\ \A i \in DOMAIN ready' :
             \/ i \in DOMAIN Tail(ready) /\ ready'[i] = Tail(ready)[i]
             \/ ready'[i] \in Calls /\ calls[ready'[i]].at = "queued"
        /\ \A j : Has(ready, j) /\ j # k => Has(ready', j)
    BY <1>1, <1>2, <2>1, DropStep
  <2> DEFINE n == [entries[file] EXCEPT !.pending = "none"]
  <2>3. /\ n \in Entry /\ n.waiters = entries[file].waiters /\ n.pending = "none"
        /\ n.refs = entries[file].refs /\ n.adapter = entries[file].adapter
        /\ n.tables = entries[file].tables
    BY <1>3 DEF Entry
  <2>4. entries' = [entries EXCEPT ![file] = n]
    BY <2>1
  <2> HIDE DEF n
  <2>5. /\ entries'[file] = n /\ DOMAIN entries' = DOMAIN entries
        /\ \A x \in DOMAIN entries : x # file => entries'[x] = entries[x]
    BY <1>3, <2>3, <2>4, EntryUpdated DEF IInv, TypeOK
  <2>6. Gate'
    <3>1. \A i \in DOMAIN ready' :
            \/ i \in DOMAIN Tail(ready) /\ ready'[i] = Tail(ready)[i]
            \/ ready'[i] \in Calls /\ calls'[ready'[i]].at \notin {"opening", "closing", "waiting"}
      BY <2>2, IdleCall DEF OthersSame
    <3>2. adapters[file].state = "open" /\ adapters' = adapters
      BY <1>2, <1>5, <1>8
    <3> QED
      BY <1>2, <1>3, <1>5, <2>1, <2>2, <2>3, <2>5, <3>1, <3>2, GateOpens, IdleCall
  <2>7. Counted'
    <3>1. Users' = Users /\ IsFiniteSet(Opened')
      BY <1>6, <2>2 DEF Users
    <3> QED
      BY <1>3, <2>1, <2>3, <2>5, <3>1 DEF Counted
  <2>8. Current'
    <3>1. unseen' # {} => file # 0 /\ unseen' \subseteq entries'[file].tables
      BY <2>1, <2>3, <2>5 DEF Doors, Current, NoUpdateLost
    <3>2. entries'[file].pending # "opening" /\ calls'[k].op = "idle"
      BY <2>2, <2>3, <2>5, IdleCall
    <3> QED
      BY <2>1, <2>2, <3>1, <3>2, CurrentKept DEF Doors
  <2> QED
    BY <2>2, <2>6, <2>7, <2>8 DEF Doors
<1> QED
  BY <1>7, <1>8

-----------------------------------------------------------------------------
(* With nobody pending and nobody waiting the gate is open.                *)
LEMMA GateEmpty ==
  ASSUME IInv, Doors, \A j \in Calls : ~Pending(j), file' = file, adapters' = adapters,
         DOMAIN entries' = DOMAIN entries,
         \A e \in DOMAIN entries :
           /\ entries'[e].pending = entries[e].pending /\ entries'[e].adapter = entries[e].adapter
           /\ entries'[e].waiters = entries[e].waiters,
         \A j \in Calls : calls'[j].at \notin {"opening", "closing", "waiting"},
         ready' \in Seq(Calls)
  PROVE  Gate'
<1>1. file # 0 => file \in DOMAIN entries /\ entries[file].pending = "none"
  BY EntryTypes DEF IInv, Doors, Gate, OnePending
<1>2. \A j \in Calls : ~Pending(j)'
  BY DEF Pending
<1>3. OnePending'
  BY <1>1, <1>2 DEF OnePending
<1>4. Adapters'
  BY <1>1 DEF Doors, Gate, Adapters
<1>5. Answers' /\ Order'
  <2>1. \A i \in DOMAIN ready' : ready'[i] \in Calls
    OBVIOUS
  <2> QED
    BY <1>2, <2>1 DEF Answers, Order, Pending
<1> QED
  BY <1>3, <1>4, <1>5 DEF Gate

(* A call finds the entry of the file, or makes one: with nobody pending   *)
(* and nobody else waiting, the entry it finds is open.                    *)
LEMMA FindOrCreateDoors ==
  ASSUME IInv, Doors, NEW k \in Calls, NEW call \in Call, call.op = "open", call.conn = 0,
         calls[k].at \in {"idle", "waiting"},
         \A j \in Calls : ~Pending(j), \A j \in Calls : j # k => calls[j].at # "waiting",
         NEW rest \in Seq(Calls), Once(rest), ~Has(rest, k),
         \A j : Has(ready, j) /\ j # k => Has(rest, j),
         FindOrCreate(k, call, rest), UNCHANGED <<conns, unseen>>
  PROVE  Doors'
<1>1. /\ file # 0 => /\ file \in DOMAIN entries /\ entries[file] \in Entry
                     /\ entries[file].pending = "none" /\ entries[file].adapter
                     /\ adapters[file].state = "open" /\ entries[file].refs = Users /\ Users >= 1
      /\ file = 0 => Users = 0
      /\ Users \in Nat /\ IsFiniteSet(Opened)
  BY EntryTypes, Counts DEF IInv, Doors, Gate, OnePending, Adapters, Counted
<1>2. \A j \in Calls : j # k => calls[j].at \notin {"opening", "closing", "waiting"}
  BY DEF Pending
<1>3. /\ Append(rest, k) \in Seq(Calls) /\ Once(Append(rest, k)) /\ Has(Append(rest, k), k)
      /\ \A j : Has(rest, j) => Has(Append(rest, k), j)
  BY AppendOnce
<1>4. Live' = Live /\ k \notin Opened
  BY DEF Live, Opened
<1>5. CASE file # 0
  <2> DEFINE d == [call EXCEPT !.at = "opened", !.entry = file]
  <2>1. /\ entries' = [entries EXCEPT ![file].refs = @ + 1]
        /\ calls' = [calls EXCEPT ![k] = d]
        /\ ready' = Append(rest, k) /\ UNCHANGED <<file, adapters>>
    BY <1>1, <1>5 DEF FindOrCreate
  <2>2. d \in Call /\ d.at = "opened" /\ d.op = "open" /\ d.conn = 0
    <3>1. file \in Nat
      BY EntryTypes DEF IInv
    <3> QED
      BY <3>1 DEF Call
  <2> HIDE DEF d
  <2>3. calls'[k] = d /\ OthersSame(k)
    BY <2>1, <2>2, CallUpdated DEF IInv, TypeOK, OthersSame
  <2>4. PICK r \in Int : r = Users + 1
    BY <1>1
  <2> DEFINE n == [entries[file] EXCEPT !.refs = r]
  <2>5. /\ n \in Entry /\ n.waiters = entries[file].waiters /\ n.pending = entries[file].pending
        /\ n.refs = r /\ n.adapter = entries[file].adapter /\ n.tables = entries[file].tables
    BY <1>1, <1>5 DEF Entry
  <2>6. entries' = [entries EXCEPT ![file] = n]
    <3>1. entries[file].refs + 1 = r
      BY <1>1, <1>5, <2>4
    <3> QED
      BY <2>1, <3>1
  <2> HIDE DEF n
  <2>7. /\ entries'[file] = n /\ DOMAIN entries' = DOMAIN entries
        /\ \A x \in DOMAIN entries : x # file => entries'[x] = entries[x]
    BY <1>1, <1>5, <2>5, <2>6, EntryUpdated DEF IInv, TypeOK
  <2>8. Gate'
    <3>1. \A j \in Calls : calls'[j].at \notin {"opening", "closing", "waiting"}
      BY <1>2, <2>2, <2>3 DEF OthersSame
    <3>2. \A e \in DOMAIN entries :
            /\ entries'[e].pending = entries[e].pending /\ entries'[e].adapter = entries[e].adapter
            /\ entries'[e].waiters = entries[e].waiters
      BY <2>5, <2>7
    <3> QED
      BY <1>3, <2>1, <2>7, <3>1, <3>2, GateEmpty
  <2>9. Counted'
    <3>1. Opened' = Opened \cup {k}
      BY <2>2, <2>3 DEF Opened, OthersSame
    <3>2. Users' = Users + 1 /\ IsFiniteSet(Opened')
      BY <1>1, <1>4, <3>1, UserComes DEF IInv
    <3>3. Users' = r /\ r >= 1
      BY <1>1, <1>5, <2>4, <3>2
    <3>4. entries'[file'].refs = r /\ entries'[file'].pending = "none" /\ file' # 0
      BY <1>1, <1>5, <2>1, <2>5, <2>7
    <3> QED
      BY <3>2, <3>3, <3>4 DEF Counted
  <2>10. Alert'
    BY <1>3, <2>1, <2>2, <2>3, AlertKept DEF Doors, OthersSame
  <2>11. Kinds'
    BY <2>2, <2>3, KindsKept DEF Doors, OthersSame
  <2>12. Current'
    <3>1. unseen' # {} => file # 0 /\ unseen' \subseteq entries'[file].tables
      BY <2>5, <2>7 DEF Doors, Current, NoUpdateLost
    <3>2. entries'[file].pending # "opening"
      BY <1>1, <1>5, <2>5, <2>7
    <3>3. \A c \in DOMAIN conns : conns[c].live => conns[c].lease \in {0, file}
      BY DEF Doors, Current
    <3> QED
      BY <2>1, <2>2, <2>3, <3>1, <3>2, <3>3, CurrentKept DEF Doors
  <2> QED
    BY <2>8, <2>9, <2>10, <2>11, <2>12 DEF Doors
<1>6. CASE file = 0
  <2> DEFINE n == [refs |-> 0, adapter |-> FALSE, pending |-> "opening",
                   waiters |-> <<>>, tables |-> {}]
             a == [state |-> "opening", holder |-> 0, tx |-> 0, dirty |-> {}]
  <2>1. PICK e : e = Len(entries) + 1
    OBVIOUS
  <2> DEFINE d == [call EXCEPT !.at = "opening", !.entry = e]
  <2>2. /\ entries' = Append(entries, n) /\ adapters' = Append(adapters, a)
        /\ calls' = [calls EXCEPT ![k] = d] /\ ready' = rest /\ file' = e
    BY <1>6, <2>1 DEF FindOrCreate
  <2>3. /\ n \in Entry /\ n.waiters = <<>> /\ n.pending = "opening" /\ n.refs = 0 /\ ~n.adapter
        /\ a \in Adapter /\ a.state = "opening"
    BY DEF Entry, Adapter
  <2> HIDE DEF n, a
  <2>4. /\ e \in Nat /\ e # 0 /\ DOMAIN entries' = 1..e /\ entries'[e] = n
        /\ adapters'[e] = a /\ DOMAIN entries = 1..(e - 1)
        /\ \A x \in 1..e : x # e =>
             x \in DOMAIN entries /\ entries'[x] = entries[x] /\ adapters'[x] = adapters[x]
    <3>1. /\ entries \in Seq(Entry) /\ adapters \in Seq(Adapter) /\ Len(adapters) = Len(entries)
      BY DEF IInv, TypeOK
    <3> QED
      BY <2>1, <2>2, <2>3, <3>1
  <2>5. d \in Call /\ d.at = "opening" /\ d.op = "open" /\ d.conn = 0 /\ d.entry = e
    BY <2>4 DEF Call
  <2> HIDE DEF d
  <2>6. calls'[k] = d /\ OthersSame(k)
    BY <2>2, <2>5, CallUpdated DEF IInv, TypeOK, OthersSame
  <2>7. \A j \in Calls : /\ calls'[j].at \in {"opening", "closing"} <=> j = k
                         /\ calls'[j].at # "waiting"
    BY <1>2, <2>5, <2>6 DEF OthersSame
  <2>8. Gate'
    <3>1. OnePending'
      BY <2>2, <2>3, <2>4, <2>5, <2>6, <2>7 DEF OnePending, Pending
    <3>2. Adapters'
      BY <1>6, <2>2, <2>3, <2>4 DEF Doors, Gate, Adapters
    <3>3. Answers'
      <4>1. ~Awake(k)' /\ adapters'[file'].state = "opening"
        BY <2>2, <2>3, <2>4 DEF Awake
      <4> QED
        BY <2>5, <2>6, <2>7, <4>1 DEF Answers, Pending
    <3>4. Order'
      <4>1. \A i \in DOMAIN ready' : ready'[i] \in Calls /\ ready'[i] # k
        BY <2>2 DEF Has
      <4> QED
        BY <2>7, <4>1 DEF Order, Pending
    <3> QED
      BY <3>1, <3>2, <3>3, <3>4 DEF Gate
  <2>9. Counted'
    <3>1. Opened' = Opened
      BY <1>4, <2>5, <2>6 DEF Opened, OthersSame
    <3>2. Users' = 0 /\ IsFiniteSet(Opened')
      BY <1>1, <1>4, <1>6, <3>1 DEF Users
    <3> QED
      BY <2>2, <2>3, <2>4, <3>2 DEF Counted
  <2>10. Alert'
    BY <2>2, <2>5, <2>6, AlertKept DEF Doors, OthersSame
  <2>11. Kinds'
    BY <2>5, <2>6, KindsKept DEF Doors, OthersSame
  <2>12. Current'
    <3>1. \A j \in Calls : calls'[j].op \notin {"begin", "end", "write", "get"}
      <4> SUFFICES ASSUME NEW j \in Calls, calls'[j].op \in {"begin", "end", "write", "get"}
                   PROVE  FALSE
        OBVIOUS
      <4>1. calls[j].op \in {"begin", "end", "write", "get"}
        BY <2>5, <2>6 DEF OthersSame
      <4> QED
        BY <1>6, <4>1, StatementFile DEF Doors
    <3>2. Live' = {} /\ unseen' = {}
      <4>1. Users = 0 /\ IsFiniteSet(Opened)
        BY <1>1, <1>6
      <4>2. Live = {}
        BY <4>1, Counts DEF IInv
      <4> QED
        BY <1>4, <1>6, <4>2 DEF Doors, Current, NoUpdateLost
    <3>3. \A c \in DOMAIN conns' : ~conns'[c].live
      BY <3>2 DEF Live
    <3> QED
      BY <3>1, <3>2, <3>3 DEF Current, NoUpdateLost
  <2> QED
    BY <2>8, <2>9, <2>10, <2>11, <2>12 DEF Doors
<1> QED
  BY <1>5, <1>6

(* The one that waited looks at the map again.  It is the only one.        *)
LEMMA ResumeWaitingDoors ==
  ASSUME IInv, Doors, OneWaits, NEW k \in Calls, ResumeWaiting(k)
  PROVE  Doors'
<1>1. /\ Resumes(k, "waiting") /\ UNCHANGED <<conns, clients, unseen>>
      /\ ready # <<>> /\ Head(ready) = k /\ calls[k].at = "waiting"
  BY DEF ResumeWaiting, Resumes
<1>2. /\ calls[k].conn = 0 /\ calls[k] \in Call /\ calls[k].op = "open"
  BY <1>1 DEF IInv, TypeOK, Places, Place, OpenPlaces, Doors, Kinds
<1>3. \A j \in Calls : ~Pending(j)
  <2>1. 1 \in DOMAIN ready /\ ready[1] = k
    BY <1>1, ResumesFirst
  <2> QED
    BY <1>1, <2>1 DEF Doors, Gate, Order
<1>4. \A j \in Calls : j # k => calls[j].at # "waiting"
  BY <1>1 DEF OneWaits
<1>5. /\ Tail(ready) \in Seq(Calls) /\ Once(Tail(ready)) /\ ~Has(Tail(ready), k)
      /\ \A j : Has(ready, j) /\ j # k => Has(Tail(ready), j)
  BY <1>1, HeadLeaves, TailOnce DEF Doors, Alert, IInv, TypeOK
<1>6. CASE calls[k].ok
  <2>1. FindOrCreate(k, calls[k], Tail(ready))
    BY <1>6 DEF ResumeWaiting
  <2> QED
    BY <1>1, <1>2, <1>3, <1>4, <1>5, <2>1, FindOrCreateDoors
<1>7. CASE ~calls[k].ok
  <2>1. Answer(k) /\ ready' = Tail(ready) /\ UNCHANGED <<file, entries, adapters>>
    BY <1>7 DEF ResumeWaiting
  <2>2. calls'[k] = Idle /\ OthersSame(k)
    BY <2>1, Answered DEF IInv, TypeOK, OthersSame
  <2>3. Gate'
    <3>1. \A j \in Calls : calls'[j].at \notin {"opening", "closing", "waiting"}
      BY <1>3, <1>4, <2>2, IdleCall DEF OthersSame, Pending
    <3> QED
      BY <1>3, <1>5, <2>1, <3>1, GateEmpty
  <2>4. Counted'
    <3>1. Live' = Live
      BY <1>1 DEF Live
    <3>2. Opened' = Opened
      BY <1>1, <2>2, IdleCall DEF Opened, OthersSame
    <3>3. Users' = Users
      BY <3>1, <3>2 DEF Users
    <3>4. IsFiniteSet(Opened')
      BY <3>2 DEF Doors, Counted
    <3> QED
      BY <2>1, <3>3, <3>4 DEF Doors, Counted
  <2>5. Alert'
    BY <1>1, <1>5, <2>1, <2>2, IdleCall, AlertKept DEF Doors, OthersSame
  <2>6. Kinds'
    BY <2>2, IdleCall, KindsKept DEF Doors, OthersSame
  <2>7. Current'
    <3>1. unseen' # {} => file # 0 /\ unseen' \subseteq entries'[file].tables
      BY <1>1, <2>1 DEF Doors, Current, NoUpdateLost
    <3>2. \A c \in DOMAIN conns : conns[c].live => conns[c].lease \in {0, file}
      BY DEF Doors, Current
    <3> QED
      BY <1>1, <2>1, <2>2, <3>1, <3>2, IdleCall, CurrentKept DEF Doors
  <2> QED
    BY <2>3, <2>4, <2>5, <2>6, <2>7 DEF Doors
<1> QED
  BY <1>6, <1>7

(* An open call arrives; the first to find something pending waits.        *)
LEMMA OpenDoors ==
  ASSUME IInv, Doors, OneWaits', NEW k \in Calls, NEW cl \in Clients, Open(k, cl)
  PROVE  Doors'
<1> DEFINE call == [Idle EXCEPT !.op = "open", !.client = cl]
<1>1. /\ ready = <<>> /\ calls[k] = Idle /\ OpenFile(k, call) /\ UNCHANGED <<conns, unseen>>
      /\ Quiet
  BY DEF Open, MayCall, Quiet
<1>2. /\ call \in Call /\ call.conn = 0 /\ call.op = "open" /\ calls[k].at = "idle"
      /\ calls[k].conn = 0
  <2>1. call \in Call /\ call.conn = 0 /\ call.op = "open"
    BY DEF Idle, Call
  <2> QED
    BY <1>1, <2>1, IdleCall
<1> HIDE DEF call
<1>3. \A j : ~Has(ready, j)
  BY <1>1, QuietReady
<1>4. \A j \in Calls : calls[j].at = "waiting" =>
        file # 0 /\ entries[file].pending # "none" /\ Has(entries[file].waiters, j)
  <2> SUFFICES ASSUME NEW j \in Calls, calls[j].at = "waiting"
               PROVE  file # 0 /\ entries[file].pending # "none" /\ Has(entries[file].waiters, j)
    OBVIOUS
  <2>1. file # 0 /\ Has(entries[file].waiters, j)
    BY <1>3 DEF Doors, Gate, Order, Awake
  <2>2. entries[file].waiters # <<>>
    BY <2>1, SingleOnce
  <2> QED
    BY <2>1, <2>2 DEF Doors, Gate, Adapters
<1>5. CASE ~(file # 0 /\ entries[file].pending # "none")
  <2>1. FindOrCreate(k, call, <<>>)
    BY <1>1, <1>5 DEF OpenFile
  <2>2. \A j \in Calls : ~Pending(j) /\ calls[j].at # "waiting"
    <3>1. \A j \in Calls : Pending(j) => calls[j].at # "none"
      BY DEF Pending
    <3> QED
      BY <1>4, <1>5, <3>1 DEF Doors, Gate, OnePending
  <2>3. <<>> \in Seq(Calls) /\ Once(<<>>) /\ ~Has(<<>>, k)
    BY SingleOnce
  <2> QED
    BY <1>1, <1>2, <1>3, <2>1, <2>2, <2>3, FindOrCreateDoors
<1>6. CASE file # 0 /\ entries[file].pending # "none"
  <2> DEFINE d == [call EXCEPT !.at = "waiting", !.entry = file]
             n == [entries[file] EXCEPT !.waiters = Append(@, k)]
  <2>1. /\ entries' = [entries EXCEPT ![file] = n] /\ calls' = [calls EXCEPT ![k] = d]
        /\ UNCHANGED <<file, adapters, ready>>
    BY <1>1, <1>6 DEF OpenFile
  <2>2. file \in DOMAIN entries /\ entries[file] \in Entry /\ file \in Nat
          /\ entries[file].waiters \in Seq(Calls)
    BY <1>6, EntryTypes DEF IInv
  <2>3. d \in Call /\ d.at = "waiting" /\ d.op = "open" /\ d.conn = 0 /\ d.entry = file
    BY <1>2, <2>2 DEF Call
  <2>4. /\ n \in Entry /\ n.waiters = Append(entries[file].waiters, k)
        /\ n.pending = entries[file].pending /\ n.refs = entries[file].refs
        /\ n.adapter = entries[file].adapter /\ n.tables = entries[file].tables
    <3>1. Append(entries[file].waiters, k) \in Seq(Calls)
      BY <2>2
    <3> QED
      BY <2>2, <3>1 DEF Entry
  <2> HIDE DEF d, n
  <2>5. calls'[k] = d /\ OthersSame(k)
    BY <2>1, <2>3, CallUpdated DEF IInv, TypeOK, OthersSame
  <2>6. /\ entries'[file] = n /\ DOMAIN entries' = DOMAIN entries
        /\ \A x \in DOMAIN entries : x # file => entries'[x] = entries[x]
    BY <2>1, <2>2, <2>4, EntryUpdated DEF IInv, TypeOK
  <2>7. \A j \in Calls : calls'[j].at = "waiting" => j = k
    BY <2>3, <2>5 DEF OneWaits
  <2>8. entries[file].waiters = <<>>
    <3> SUFFICES ASSUME entries[file].waiters # <<>>
                 PROVE  FALSE
      OBVIOUS
    <3>1. PICK i \in DOMAIN entries[file].waiters : i = 1
      <4> DEFINE q == entries[file].waiters
      <4>1. q \in Seq(Calls) /\ q # <<>>
        BY <2>2
      <4> HIDE DEF q
      <4>2. 1 \in DOMAIN q
        BY <4>1
      <4> QED
        BY <4>2 DEF q
    <3>2. PICK j \in Calls : j = entries[file].waiters[i] /\ calls[j].at = "waiting"
      BY <2>2, <3>1 DEF IInv, Waits
    <3>3. j # k
      BY <1>2, <3>2
    <3> QED
      BY <2>5, <2>7, <3>2, <3>3 DEF OthersSame
  <2>9. Len(n.waiters) = 1 /\ n.waiters = <<k>> /\ Has(n.waiters, k)
    BY <2>4, <2>8, SingleOnce
  <2>10. \A j \in Calls : /\ calls'[j].at \in {"opening", "closing"} =>
                               calls'[j] = calls[j] /\ Pending(j)
                          /\ Pending(j) => calls'[j] = calls[j] /\ Pending(j)'
    BY <1>2, <2>3, <2>5 DEF OthersSame, Pending
  <2>11. Gate'
    <3>1. OnePending'
      <4>1. file # 0 /\ entries'[file].pending = entries[file].pending /\ file' = file
        BY <1>6, <2>1, <2>4, <2>6
      <4> QED
        BY <2>10, <4>1 DEF Doors, Gate, OnePending, Pending
    <3>2. Adapters'
      BY <1>6, <2>1, <2>4, <2>6, <2>9 DEF Doors, Gate, Adapters
    <3>3. Answers'
      <4>1. \A j : ~Awake(j)' /\ ~Awake(j)
        BY <1>3, <2>1 DEF Awake
      <4>2. /\ entries'[file].adapter = entries[file].adapter /\ file' = file
            /\ adapters' = adapters
        BY <2>1, <2>4, <2>6
      <4> QED
        BY <2>10, <4>1, <4>2 DEF Doors, Gate, Answers, Pending
    <3>4. Order'
      <4>1. DOMAIN ready' = {}
        BY <1>1, <2>1
      <4>2. file' # 0 /\ calls'[k].entry = file' /\ Has(entries'[file'].waiters, k)
        BY <1>6, <2>1, <2>3, <2>5, <2>6, <2>9
      <4> QED
        BY <2>7, <4>1, <4>2 DEF Order
    <3> QED
      BY <3>1, <3>2, <3>3, <3>4 DEF Gate
  <2>12. Counted'
    <3>1. Live' = Live
      BY <1>1 DEF Live
    <3>2. Opened' = Opened
      BY <1>2, <2>3, <2>5 DEF Opened, OthersSame
    <3>3. Users' = Users
      BY <3>1, <3>2 DEF Users
    <3>4. IsFiniteSet(Opened')
      BY <3>2 DEF Doors, Counted
    <3>5. entries'[file].refs = entries[file].refs /\ entries'[file].pending = entries[file].pending
      BY <2>4, <2>6
    <3> QED
      BY <1>6, <2>1, <3>3, <3>4, <3>5 DEF Doors, Counted
  <2>13. Alert'
    BY <1>1, <1>3, <2>1, <2>3, <2>5, SingleOnce, AlertKept DEF Doors, OthersSame
  <2>14. Kinds'
    BY <2>3, <2>5, KindsKept DEF Doors, OthersSame
  <2>15. Current'
    <3>1. unseen' # {} => file # 0 /\ unseen' \subseteq entries'[file].tables
      BY <1>1, <2>4, <2>6 DEF Doors, Current, NoUpdateLost
    <3>2. \A c \in DOMAIN conns : conns[c].live => conns[c].lease \in {0, file}
      BY DEF Doors, Current
    <3>3. entries'[file].pending = entries[file].pending /\ calls'[k].op = "open"
      BY <2>3, <2>4, <2>5, <2>6
    <3> QED
      BY <1>1, <2>1, <2>5, <3>1, <3>2, <3>3, CurrentKept DEF Doors
  <2> QED
    BY <2>11, <2>12, <2>13, <2>14, <2>15 DEF Doors
<1> QED
  BY <1>5, <1>6

(* A caller gets its connection: it was counted, and still is.             *)
LEMMA ResumeOpenedDoors ==
  ASSUME IInv, Doors, NEW k \in Calls, ResumeOpened(k)
  PROVE  Doors'
<1> DEFINE new == [owner |-> calls[k].client, live |-> TRUE, lease |-> 0,
                   queue |-> <<>>, mode |-> "auto"]
<1>1. /\ conns' = Append(conns, new) /\ Answer(k)
      /\ ready' = Tail(ready) /\ UNCHANGED <<file, entries, adapters, clients, unseen>>
      /\ ready # <<>> /\ Head(ready) = k /\ calls[k].at = "opened"
  BY DEF ResumeOpened, Resumes
<1>2. new.live = TRUE /\ new.lease = 0
  OBVIOUS
<1> HIDE DEF new
<1>3. PICK c \in Nat : c = Len(conns) + 1
  BY DEF IInv, TypeOK
<1>4. /\ DOMAIN conns' = DOMAIN conns \cup {c} /\ c \notin DOMAIN conns /\ conns'[c] = new
      /\ \A d \in DOMAIN conns : conns'[d] = conns[d]
  <2>1. conns \in Seq(Conn)
    BY DEF IInv, TypeOK
  <2> QED
    BY <1>1, <1>3, <2>1
<1>5. calls'[k] = Idle /\ OthersSame(k)
  BY <1>1, Answered DEF IInv, TypeOK, OthersSame
<1>6. /\ Once(ready') /\ ~Has(ready', k)
      /\ \A j : Has(ready, j) /\ j # k => Has(ready', j)
      /\ \A j : Has(ready', j) => Has(ready, j)
  BY <1>1, HeadLeaves DEF Doors, Alert
<1>7. Gate'
  <2>1. (\A j : Has(ready, j) => ~AtDoor(j)) /\ \A j : Has(ready, j) => j \in Calls
    <3>1. \A j : Has(ready, j) => ~AtDoor(j)
      BY <1>1, NobodyAtDoor DEF Doors, Gate, AtDoor
    <3> QED
      BY <3>1, ConnTypes DEF IInv, Has
  <2>2. \A j \in Calls : AtDoor(j) \/ AtDoor(j)' => calls'[j] = calls[j]
    BY <1>1, <1>5, IdleCall DEF AtDoor, OthersSame
  <2>3. \A j : Has(ready', j) => ~AtDoor(j)'
    BY <1>5, <1>6, <2>1 DEF AtDoor, OthersSame
  <2>4. SameDoor
    BY <1>1 DEF SameDoor
  <2> QED
    BY <2>1, <2>2, <2>3, <2>4, GateKept DEF Doors
<1>8. Counted'
  <2>1. Live' = Live \cup {c} /\ c \notin Live
    BY <1>2, <1>4 DEF Live
  <2>2. Opened' = Opened \ {k} /\ k \in Opened
    BY <1>1, <1>5, IdleCall DEF Opened, OthersSame
  <2>3. Users' = Users /\ IsFiniteSet(Opened')
    BY <2>1, <2>2, UserConnects DEF IInv, Doors, Counted
  <2> QED
    BY <1>1, <2>3 DEF Doors, Counted
<1>9. Alert'
  BY <1>4, <1>5, <1>6, IdleCall, AlertKept DEF Doors, OthersSame
<1>10. Kinds'
  BY <1>5, IdleCall, KindsKept DEF Doors, OthersSame
<1>11. Current'
  <2>1. \A j \in Calls : calls'[j].op \in {"begin", "end", "write", "get"} => calls'[j].entry = file
    BY <1>5, IdleCall DEF Doors, Current, OthersSame
  <2>2. \A d \in DOMAIN conns' : conns'[d].live => conns'[d].lease \in {0, file}
    BY <1>2, <1>4 DEF Doors, Current
  <2> QED
    BY <1>1, <2>1, <2>2 DEF Doors, Current, NoUpdateLost
<1> QED
  BY <1>7, <1>8, <1>9, <1>10, <1>11 DEF Doors

-----------------------------------------------------------------------------
LEMMA InitDoors == Init => Doors /\ Distinct /\ OneWaits
<1> SUFFICES ASSUME Init PROVE Doors /\ Distinct /\ OneWaits
  OBVIOUS
<1>1. /\ file = 0 /\ entries = <<>> /\ conns = <<>> /\ ready = <<>> /\ unseen = {}
      /\ DOMAIN (<<>>) = {}
  BY DEF Init
<1>2. \A k \in Calls : calls[k] = Idle
  BY DEF Init
<1>3. OneWaits /\ Distinct
  BY <1>2, IdleCall DEF OneWaits, Distinct
<1>4. Gate
  BY <1>1, <1>2, IdleCall DEF Gate, OnePending, Adapters, Answers, Order, Pending
<1>5. Counted
  <2>1. Live = {} /\ Opened = {}
    BY <1>1, <1>2, IdleCall DEF Live, Opened
  <2>2. IsFiniteSet({}) /\ Cardinality({}) = 0
    BY FS_EmptySet
  <2> QED
    BY <1>1, <2>1, <2>2 DEF Counted, Users
<1>6. Alert /\ Kinds /\ Current
  BY <1>1, <1>2, IdleCall DEF Alert, Once, Kinds, Current, NoUpdateLost
<1> QED
  BY <1>3, <1>4, <1>5, <1>6 DEF Doors

LEMMA SameDoors ==
  ASSUME Doors, UNCHANGED vars
  PROVE  Doors'
<1>1. UNCHANGED <<file, entries, adapters, conns, calls, ready, closing, sent, unseen>>
  BY DEF vars, page, clients
<1>2. Gate'
  BY <1>1 DEF Doors, Gate, OnePending, Adapters, Answers, Order, Pending, Awake, Has
<1>3. Counted'
  BY <1>1 DEF Doors, Counted, Users, Live, Opened
<1>4. Alert' /\ Kinds' /\ Current'
  BY <1>1 DEF Doors, Alert, Kinds, Current, NoUpdateLost, Once, Awake, Has, First
<1> QED
  BY <1>2, <1>3, <1>4 DEF Doors

(* Every step keeps the doors, as long as only one call waits.             *)
LEMMA NextDoors ==
  ASSUME IInv, Doors, OneWaits, OneWaits', [Next]_vars
  PROVE  Doors'
<1>1. CASE Finished \/ UNCHANGED vars
  BY <1>1, SameDoors DEF Finished
<1>2. ASSUME NEW k \in Calls, Arrives(k)
      PROVE  Doors'
  <2>1. PICK cl \in Clients :
          \/ Open(k, cl)
          \/ \E c \in DOMAIN conns : Close(k, cl, c) \/ \E op \in Statements : Exec(k, cl, c, op)
    BY <1>2 DEF Arrives
  <2>2. CASE Open(k, cl)
    BY <2>2, OpenDoors
  <2>3. CASE \E c \in DOMAIN conns : Close(k, cl, c)
    BY <2>3, CloseDoors
  <2>4. CASE \E c \in DOMAIN conns : \E op \in Statements : Exec(k, cl, c, op)
    BY <2>4, ExecDoors, BoundsAssumption
  <2> QED
    BY <2>1, <2>2, <2>3, <2>4
<1>3. ASSUME NEW k \in Calls, Resume(k)
      PROVE  Doors'
  BY <1>3, ResumeOpeningDoors, ResumeWaitingDoors, ResumeOpenedDoors, CloseRunDoors,
     CloseGoneDoors, CloseSharedDoors, CloseLastDoors, ResumeClosingDoors, ExecRunDoors DEF Resume
<1>4. ASSUME NEW k \in Calls, OpensCloses(k)
      PROVE  Doors'
  BY <1>4, OpenDoneDoors, CloseDoneDoors, RollbackDoneDoors, BoundsAssumption DEF OpensCloses
<1>5. ASSUME NEW k \in Calls, Executes(k)
      PROVE  Doors'
  BY <1>5, LockGrantedDoors, BeginDoneDoors, BeginFailsDoors, GetDoneDoors, EndDoneDoors,
     WriteDoneDoors DEF Executes
<1> QED
  BY <1>1, <1>2, <1>3, <1>4, <1>5 DEF Next

(* The invariant of the door of a file, as long as no two open calls wait  *)
(* together (openFile, closeConnectionFor).                                *)
THEOREM DoorsInductive == Spec /\ []OneWaits => []Doors
BY InitDoors, NextDoors, Inductive, PTL DEF Spec

(* As long as no two open calls wait together on the file, it has at most  *)
(* one adapter that is open or being opened (openFile), however many       *)
(* clients and connections there are.                                      *)
THEOREM OneFactoryHolds == Spec /\ []OneWaits => []OneFactory
BY DoorsInductive, Inductive, DoorsOneFactory, PTL

(* refCount is the number of users, and with a user the adapter is open    *)
(* (closeConnectionFor, dropClosedFile), as long as no two calls wait.     *)
THEOREM RefCountHolds == Spec /\ []OneWaits => []RefCountExact
BY DoorsInductive, Inductive, DoorsRefCountExact, PTL

(* The table of a committed write that stashUpdateHooks was told of stays  *)
(* stashed until a get takes it, as long as no two calls wait.             *)
THEOREM UpdatesHold == Spec /\ []OneWaits => []NoUpdateLost
<1>1. Doors => NoUpdateLost
  BY DEF Doors, Current
<1> QED
  BY <1>1, DoorsInductive, PTL

(* No call is forgotten, by openFile, by enqueueConnection or by an        *)
(* adapter that is gone, as long as no two calls wait.                     *)
THEOREM CallsHold == Spec /\ []OneWaits => []NoCallForgotten
BY DoorsInductive, Inductive, DoorsNoCallForgotten, PTL

-----------------------------------------------------------------------------
(* Two clients cannot make two calls wait: each opens one connection at a  *)
(* time, and a third call of somebody else would have to be pending.       *)
TwoClients == \E a, b : Clients \subseteq {a, b}

(* A step that brings no open call.                                        *)
NoOpen ==
  \A j \in Calls :
    /\ calls'[j].op = "open" => calls[j].op = "open" /\ calls'[j].client = calls[j].client
    /\ calls'[j].at = "waiting" => calls[j].at = "waiting"

LEMMA NoOpenIf ==
  ASSUME TypeOK, NEW k \in Calls,
         \A j \in Calls : j # k => calls'[j] = calls[j],
         \/ calls'[k] = Idle
         \/ /\ calls'[k].op = calls[k].op \/ calls'[k].op # "open"
            /\ calls'[k].client = calls[k].client \/ calls'[k].op # "open"
            /\ calls'[k].at # "waiting"
  PROVE  NoOpen
BY IdleCall DEF NoOpen

LEMMA NoOpenMoves ==
  ASSUME TypeOK, NEW k \in Calls,
         NEW at \in {"queued", "rolling", "drop", "closing", "lock", "stmt", "opened"},
         \/ MoveTo(k, at)
         \/ /\ at \in {"rolling", "closing", "stmt"}
            /\ \E e \in Nat : calls' = [calls EXCEPT ![k].at = at, ![k].entry = e]
  PROVE  NoOpen
<1>1. /\ Kept(k) /\ calls'[k].at = at
      /\ \A j \in Calls : j # k => calls'[j] = calls[j]
  <2>1. CASE MoveTo(k, at)
    BY <2>1, Moved DEF TypeOK
  <2>2. ASSUME at \in {"rolling", "closing", "stmt"}, NEW e \in Nat,
               calls' = [calls EXCEPT ![k].at = at, ![k].entry = e]
        PROVE  /\ Kept(k) /\ calls'[k].at = at
               /\ \A j \in Calls : j # k => calls'[j] = calls[j]
    BY <2>2, MovedOn DEF TypeOK
  <2> QED
    BY <2>1, <2>2
<1> QED
  BY <1>1, NoOpenIf DEF Kept

LEMMA NoOpenAnswer ==
  ASSUME TypeOK, NEW k \in Calls, Answer(k)
  PROVE  NoOpen
BY Answered, NoOpenIf DEF TypeOK

LEMMA NoOpenOk ==
  ASSUME TypeOK, NEW S, NEW ok,
         calls' = [j \in Calls |-> IF j \in S THEN [calls[j] EXCEPT !.ok = ok] ELSE calls[j]]
  PROVE  NoOpen
<1> SUFFICES ASSUME NEW j \in Calls
             PROVE  /\ calls'[j].op = calls[j].op /\ calls'[j].client = calls[j].client
                    /\ calls'[j].at = calls[j].at
  BY DEF NoOpen
<1>1. calls[j] \in Call /\ calls'[j] \in {calls[j], [calls[j] EXCEPT !.ok = ok]}
  BY DEF TypeOK
<1> QED
  BY <1>1 DEF Call

LEMMA NoOpenFound ==
  ASSUME TypeOK, NEW k \in Calls, NEW rest, FindOrCreate(k, calls[k], rest)
  PROVE  NoOpen
<1>1. PICK at, e : /\ at \in {"opened", "opening"} /\ e \in Nat
                   /\ calls' = [calls EXCEPT ![k] = [calls[k] EXCEPT !.at = at, !.entry = e]]
  <2>1. file \in Nat /\ Len(entries) + 1 \in Nat
    BY EntryTypes
  <2> QED
    BY <2>1 DEF FindOrCreate
<1> DEFINE d == [calls[k] EXCEPT !.at = at, !.entry = e]
<1>2. d \in Call /\ d.op = calls[k].op /\ d.client = calls[k].client /\ d.at = at
  <2>1. calls[k] \in Call
    BY DEF TypeOK
  <2> QED
    BY <1>1, <2>1 DEF Call
<1>3. calls' = [calls EXCEPT ![k] = d]
  BY <1>1
<1> HIDE DEF d
<1>4. calls'[k] = d /\ \A j \in Calls : j # k => calls'[j] = calls[j]
  BY <1>2, <1>3, CallUpdated DEF TypeOK
<1> QED
  BY <1>1, <1>2, <1>4, NoOpenIf

LEMMA NoOpenResumes ==
  ASSUME IInv, NEW k \in Calls, Resume(k) \/ OpensCloses(k) \/ Executes(k)
  PROVE  NoOpen /\ closing' = closing
<1>1. TypeOK
  BY DEF IInv
<1>2. CASE ResumeOpening(k)
  <2>1. MoveTo(k, "opened") \/ Answer(k)
    BY <1>2 DEF ResumeOpening
  <2> QED
    BY <1>1, <1>2, <2>1, NoOpenMoves, NoOpenAnswer DEF ResumeOpening, clients
<1>3. CASE ResumeWaiting(k)
  BY <1>1, <1>3, NoOpenFound, NoOpenAnswer DEF ResumeWaiting, clients
<1>4. CASE ResumeOpened(k) \/ CloseGone(k) \/ CloseShared(k)
  BY <1>1, <1>4, NoOpenAnswer DEF ResumeOpened, CloseGone, CloseShared, Finish, clients
<1>5. CASE CloseRun(k) \/ ExecRun(k)
  <2>1. /\ closing' = closing
        /\ \/ MoveTo(k, "drop") \/ MoveTo(k, "lock")
           \/ \E e : e = conns[calls[k].conn].lease /\ e # 0 /\ calls[k].conn # 0 /\
                \/ calls' = [calls EXCEPT ![k].at = "rolling", ![k].entry = e]
                \/ calls' = [calls EXCEPT ![k].at = "stmt", ![k].entry = e]
    <3>1. calls[k].conn # 0
      BY <1>5 DEF CloseRun, ExecRun, Resumes, IInv, Places, Place, OpenPlaces
    <3> QED
      BY <1>5, <3>1 DEF CloseRun, ExecRun, clients
  <2>2. calls[k].conn # 0 => conns[calls[k].conn].lease \in Nat
    BY Known DEF IInv
  <2>3. CASE MoveTo(k, "drop") \/ MoveTo(k, "lock")
    BY <1>1, <2>1, <2>3, NoOpenMoves
  <2>4. CASE \E e \in Nat : \/ calls' = [calls EXCEPT ![k].at = "rolling", ![k].entry = e]
                            \/ calls' = [calls EXCEPT ![k].at = "stmt", ![k].entry = e]
    BY <1>1, <2>1, <2>4, NoOpenMoves
  <2> QED
    BY <2>1, <2>2, <2>3, <2>4
<1>6. CASE CloseLast(k)
  <2>1. /\ closing' = closing
        /\ \/ calls' = [calls EXCEPT ![k].at = "closing", ![k].entry = file]
           \/ Answer(k)
    BY <1>6 DEF CloseLast, DropClosedFile, Finish, clients
  <2>2. file \in Nat
    BY <1>1, EntryTypes
  <2> QED
    BY <1>1, <2>1, <2>2, NoOpenMoves, NoOpenAnswer
<1>7. CASE ResumeClosing(k)
  BY <1>1, <1>7, NoOpenAnswer DEF ResumeClosing, DropClosedFile, Finish, clients
<1>8. CASE OpensCloses(k)
  <2>1. CASE \E r \in OpenResults : OpenDone(k, r)
    <3>1. PICK r \in OpenResults : OpenDone(k, r)
      BY <2>1
    <3> DEFINE w == entries[calls[k].entry].waiters
               S == {j \in Calls : j = k \/ Contains(w, j)}
    <3>2. /\ calls' = [j \in Calls |-> IF j \in S THEN [calls[j] EXCEPT !.ok = (r # "failure")]
                                                  ELSE calls[j]]
          /\ closing' = closing
      BY <3>1 DEF OpenDone, clients
    <3> HIDE DEF S
    <3> QED
      BY <1>1, <3>2, NoOpenOk
  <2>2. CASE \E ok \in BOOLEAN : CloseDone(k, ok)
    <3>1. PICK ok \in BOOLEAN : CloseDone(k, ok)
      BY <2>2
    <3> DEFINE w == entries[calls[k].entry].waiters
               S == {j \in Calls : j = k \/ Contains(w, j)}
    <3>2. /\ calls' = [j \in Calls |-> IF j \in S THEN [calls[j] EXCEPT !.ok = ok] ELSE calls[j]]
          /\ closing' = closing
      BY <3>1 DEF CloseDone, clients
    <3> HIDE DEF S
    <3> QED
      BY <1>1, <3>2, NoOpenOk
  <2>3. CASE RollbackDone(k)
    <3>1. closing' = closing /\ (MoveTo(k, "drop") \/ Answer(k))
      BY <2>3 DEF RollbackDone, Finish, clients
    <3> QED
      BY <1>1, <3>1, NoOpenMoves, NoOpenAnswer
  <2> QED
    BY <1>8, <2>1, <2>2, <2>3 DEF OpensCloses
<1>9. CASE Executes(k)
  <2>1. CASE LockGranted(k) \/ BeginFails(k)
    <3>1. closing' = closing /\ (MoveTo(k, "stmt") \/ MoveTo(k, "rolling"))
      BY <2>1 DEF LockGranted, BeginFails, clients
    <3> QED
      BY <1>1, <3>1, NoOpenMoves
  <2>2. CASE ~(LockGranted(k) \/ BeginFails(k))
    <3>1. closing' = closing /\ Answer(k)
      BY <1>9, <2>2 DEF Executes, BeginDone, GetDone, EndDone, WriteDone, Finish, clients
    <3> QED
      BY <1>1, <3>1, NoOpenAnswer
  <2> QED
    BY <2>1, <2>2
<1> QED
  BY <1>2, <1>3, <1>4, <1>5, <1>6, <1>7, <1>8, <1>9 DEF Resume

LEMMA DistinctKept ==
  ASSUME Distinct, NoOpen, closing' \subseteq closing
  PROVE  Distinct'
BY DEF Distinct, NoOpen

(* When a call arrives and has to wait, the pending call and any other that*)
(* waits are of two other clients.                                         *)
LEMMA ThreeClients ==
  ASSUME IInv, Doors, Distinct, NEW k \in Calls, NEW cl \in Clients, Open(k, cl),
         NEW j \in Calls, calls[j].at = "waiting", NEW p \in Calls, Pending(p)
  PROVE  /\ calls[j].client \in Clients /\ calls[p].client \in Clients
         /\ calls[j].client # cl /\ calls[p].client # cl /\ calls[j].client # calls[p].client
<1>1. /\ closing' = closing \ {cl} /\ \A i \in InFlight(cl) : calls[i].op # "open"
      /\ cl \in closing => InFlight(cl) = {}
  BY DEF Open, MayCall
<1>2. /\ calls[j].op = "open" /\ calls[j].client \in Clients /\ calls[j].client \notin closing
      /\ calls[j].client # cl
  BY <1>1 DEF IInv, Places, Place, OpenPlaces, Doors, Kinds, Distinct, InFlight
<1>3. CASE calls[p].at = "opening"
  <2>1. calls[p].op = "open" /\ calls[p].client \in Clients /\ p # j
    BY <1>3 DEF IInv, Places, Place, OpenPlaces, Doors, Kinds
  <2> QED
    BY <1>1, <1>2, <2>1 DEF Distinct, InFlight
<1>4. CASE calls[p].at = "closing"
  <2>1. calls[p].conn # 0 /\ calls[p].op = "close" /\ calls[p].client \in closing
    BY <1>4 DEF IInv, Places, Place, OpenPlaces, Locks, Holds, Discipline
  <2>2. calls[p].client \in Clients
    BY <2>1 DEF IInv, TypeOK
  <2>3. p \in InFlight(calls[p].client)
    BY DEF InFlight
  <2> QED
    BY <1>1, <1>2, <2>1, <2>2, <2>3
<1> QED
  BY <1>3, <1>4 DEF Pending

LEMMA OpenTwo ==
  ASSUME TwoClients, IInv, Doors, Distinct, OneWaits,
         NEW k \in Calls, NEW cl \in Clients, Open(k, cl)
  PROVE  Distinct' /\ OneWaits'
<1> DEFINE call == [Idle EXCEPT !.op = "open", !.client = cl]
<1>1. /\ calls[k] = Idle /\ OpenFile(k, call) /\ closing' = closing \ {cl} /\ Quiet
      /\ \A j \in InFlight(cl) : calls[j].op # "open"
  BY DEF Open, MayCall
<1>2. PICK at, e : /\ at \in {"opened", "opening", "waiting"} /\ e \in Nat
                   /\ calls' = [calls EXCEPT ![k] = [call EXCEPT !.at = at, !.entry = e]]
                   /\ at = "waiting" => file # 0 /\ entries[file].pending # "none"
  <2>1. file \in Nat /\ Len(entries) + 1 \in Nat
    BY EntryTypes DEF IInv
  <2>2. CASE file # 0 /\ entries[file].pending # "none"
    BY <1>1, <2>1, <2>2 DEF OpenFile
  <2>3. CASE ~(file # 0 /\ entries[file].pending # "none")
    <3>1. FindOrCreate(k, call, <<>>)
      BY <1>1, <2>3 DEF OpenFile
    <3> HIDE DEF call
    <3>2. PICK n \in Nat : n = Len(entries) + 1
      BY <2>1
    <3>3. \/ calls' = [calls EXCEPT ![k] = [call EXCEPT !.at = "opened", !.entry = file]]
          \/ calls' = [calls EXCEPT ![k] = [call EXCEPT !.at = "opening", !.entry = n]]
      BY <3>1, <3>2 DEF FindOrCreate
    <3>4. CASE calls' = [calls EXCEPT ![k] = [call EXCEPT !.at = "opened", !.entry = file]]
      <4> WITNESS "opened", file
      <4> QED
        BY <2>1, <3>4
    <3>5. CASE calls' = [calls EXCEPT ![k] = [call EXCEPT !.at = "opening", !.entry = n]]
      <4> WITNESS "opening", n
      <4> QED
        BY <3>5
    <3> QED
      BY <3>3, <3>4, <3>5
  <2> QED
    BY <2>2, <2>3
<1>3. /\ call \in Call /\ call.op = "open" /\ call.client = cl
  BY DEF Idle, Call
<1> HIDE DEF call
<1> DEFINE d == [call EXCEPT !.at = at, !.entry = e]
<1>4. d \in Call /\ d.op = "open" /\ d.client = cl /\ d.at = at
  BY <1>2, <1>3 DEF Call
<1> HIDE DEF d
<1>5. calls'[k] = d /\ OthersSame(k)
  BY <1>2, <1>4, CallUpdated DEF d, IInv, TypeOK, OthersSame
<1>6. Distinct'
  <2>1. ASSUME NEW j \in Calls, j # k, calls'[j].op = "open"
        PROVE  calls'[j].client # cl /\ calls'[j].client \notin closing'
    BY <1>1, <1>5, <2>1 DEF OthersSame, InFlight, Distinct
  <2>2. \A i, j \in Calls : i # k /\ j # k /\ calls'[i].op = "open" /\ calls'[j].op = "open"
          /\ calls'[i].client = calls'[j].client => i = j
    BY <1>5 DEF OthersSame, Distinct
  <2>3. calls'[k].client = cl /\ cl \notin closing'
    BY <1>1, <1>4, <1>5
  <2> QED
    BY <2>1, <2>2, <2>3 DEF Distinct
<1>7. OneWaits'
  <2>1. CASE at # "waiting"
    BY <1>4, <1>5, <2>1 DEF OneWaits, OthersSame
  <2>2. CASE at = "waiting"
    <3>1. PICK p \in Calls : Pending(p)
      BY <1>2, <2>2 DEF Doors, Gate, OnePending
    <3>2. ASSUME NEW j \in Calls, calls[j].at = "waiting"
          PROVE  FALSE
      BY <3>1, <3>2, ThreeClients DEF TwoClients
    <3>3. \A j \in Calls : calls'[j].at = "waiting" => j = k
      BY <1>5, <3>2 DEF OthersSame
    <3> QED
      BY <3>3 DEF OneWaits
  <2> QED
    BY <2>1, <2>2
<1> QED
  BY <1>6, <1>7

LEMMA NextTwo ==
  ASSUME TwoClients, IInv, Doors, Distinct, OneWaits, [Next]_vars
  PROVE  Doors' /\ Distinct' /\ OneWaits'
<1> SUFFICES Distinct' /\ OneWaits'
  BY NextDoors
<1>1. ASSUME NoOpen, closing' \subseteq closing
      PROVE  Distinct' /\ OneWaits'
  BY <1>1, DistinctKept DEF NoOpen, OneWaits
<1>2. CASE Finished \/ UNCHANGED vars
  BY <1>2 DEF Finished, vars, page, clients, Distinct, OneWaits
<1>3. ASSUME NEW k \in Calls, NEW cl \in Clients, NEW c \in DOMAIN conns, Close(k, cl, c)
      PROVE  Distinct' /\ OneWaits'
  <2> DEFINE d == [Idle EXCEPT !.op = "close", !.at = "queued", !.client = cl, !.conn = c]
  <2>1. /\ calls' = [calls EXCEPT ![k] = d] /\ closing' = closing \cup {cl}
        /\ \A j \in InFlight(cl) : calls[j].op = "close"
    BY <1>3 DEF Close
  <2>2. d \in Call /\ d.op = "close" /\ d.at = "queued"
    BY ConnTypes DEF IInv, Idle, Call
  <2> HIDE DEF d
  <2>3. calls'[k] = d /\ OthersSame(k)
    BY <2>1, <2>2, CallUpdated DEF IInv, TypeOK, OthersSame
  <2>4. \A j \in Calls : calls[j].op = "open" => calls[j].client # cl
    BY <2>1 DEF InFlight
  <2> QED
    BY <2>1, <2>2, <2>3, <2>4 DEF OthersSame, Distinct, OneWaits
<1>4. ASSUME NEW k \in Calls, NEW cl \in Clients, NEW c \in DOMAIN conns, NEW op \in Statements,
             Exec(k, cl, c, op)
      PROVE  Distinct' /\ OneWaits'
  <2>1. PICK f, inTx : f = file /\ inTx = (conns[c].mode = "tx")
    OBVIOUS
  <2> DEFINE d == [Idle EXCEPT !.op = op, !.at = "queued", !.client = cl, !.conn = c,
                               !.entry = f, !.inTx = inTx]
  <2>2. /\ calls' = [calls EXCEPT ![k] = d] /\ closing' = closing
    BY <1>4, <2>1 DEF Exec
  <2>3. d \in Call /\ d.op # "open" /\ d.at = "queued"
    <3>1. /\ f \in Nat /\ c \in Nat /\ inTx \in BOOLEAN /\ op \in {"begin", "end", "write", "get"}
      BY <2>1, ConnTypes, EntryTypes, BoundsAssumption DEF IInv
    <3> QED
      BY <3>1 DEF Idle, Call
  <2> HIDE DEF d
  <2>4. calls'[k] = d /\ \A j \in Calls : j # k => calls'[j] = calls[j]
    BY <2>2, <2>3, CallUpdated DEF IInv, TypeOK
  <2>5. NoOpen
    BY <2>3, <2>4 DEF NoOpen
  <2> QED
    BY <1>1, <2>2, <2>5
<1>5. ASSUME NEW k \in Calls, Resume(k) \/ OpensCloses(k) \/ Executes(k)
      PROVE  Distinct' /\ OneWaits'
  BY <1>1, <1>5, NoOpenResumes
<1>6. ASSUME NEW k \in Calls, Arrives(k)
      PROVE  Distinct' /\ OneWaits'
  BY <1>3, <1>4, <1>6, OpenTwo DEF Arrives
<1> QED
  BY <1>2, <1>5, <1>6 DEF Next

(* With two clients no two open calls wait together, whatever the bounds   *)
(* on their calls and connections.                                         *)
THEOREM TwoClientsWait == ASSUME TwoClients PROVE Spec => []OneWaits
<1>1. IInv /\ Doors /\ Distinct /\ OneWaits /\ [Next]_vars => (Doors /\ Distinct /\ OneWaits)'
  BY NextTwo
<1> QED
  BY <1>1, InitDoors, Inductive, PTL DEF Spec

(* A file that two clients use has at most one adapter open or being       *)
(* opened, counts its users exactly, keeps what is stashed till a get and  *)
(* forgets no call.                                                        *)
THEOREM TwoClientsSafe ==
  ASSUME TwoClients
  PROVE  Spec => [](OneFactory /\ RefCountExact /\ NoUpdateLost /\ NoCallForgotten)
BY TwoClientsWait, OneFactoryHolds, RefCountHolds, UpdatesHold, CallsHold, PTL
=============================================================================
