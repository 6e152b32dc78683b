------------------------ MODULE SyncTransportProofs ------------------------
(***************************************************************************)
(* Theorems about SyncTransport, for any implementations, identifiers and  *)
(* hosts: the locks of one identifier exclude each other, what has settled *)
(* leaves nothing behind, and a body is read once.                         *)
(***************************************************************************)
EXTENDS SyncTransport, SequenceTheorems, TLAPS

HasLock == {"locked", "waiting", "body", "failed"}

(* A host keeps its shape when a module is registered late.                *)
HostWellFormed ==
    /\ host = [modules |-> host.modules, httpFetch |-> host.httpFetch,
               runtime |-> host.runtime, platform |-> host.platform,
               fetch |-> host.fetch, emitters |-> host.emitters]
    /\ host.modules \in [ToSet(Places) -> SUBSET Modules]

(* An implementation has at most one lock map; those of one identifier have
   the registered one.                                                      *)
LockMaps ==
    /\ \A i \in Impls : locks[i] = {} \/ \E o \in Impls : locks[i] = {o}
    /\ \A i \in Impls :
           LET registered == LOCKS[Identifier[i]]
           IN  /\ registered = {} \/ \E o \in Impls : registered = {o}
               /\ Identifier[i] # NoIdentifier /\ locks[i] # {} => locks[i] = registered

(* A queue has the jobs that want its lock, each once, and the job that has
   the lock is the first.                                                   *)
Queues ==
    /\ \A j \in Jobs : pc[j] # "idle" => locks[j[1]] # {}
    /\ \A l \in Jobs :
           /\ \A n \in 1..Len(queue[l]) :
                  LET j == queue[l][n]
                  IN  LockOf(j) = l /\ pc[j] \in HasLock \cup {"queued"}
           /\ \A m, n \in 1..Len(queue[l]) : queue[l][m] = queue[l][n] => m = n
    /\ \A j \in Jobs : pc[j] \in HasLock \cup {"queued"} =>
           \E n \in 1..Len(queue[LockOf(j)]) : queue[LockOf(j)][n] = j
    /\ \A j \in Jobs : pc[j] \in HasLock => queue[LockOf(j)][1] = j

(* What a request has with native while it runs. *)
Requests ==
    /\ SettledLeavesNothing
    /\ \A j \in calls :
           via[j] = "native-http" /\ pc[j] \in {"waiting", "failed", "done"}
    /\ \A j \in threw : pc[j] \in {"failed", "done"}

(* The getter of the host's body is read when the host answers. *)
Bodies ==
    \A j \in Jobs :
        /\ response[j] # "raw"
        /\ bodyReads[j] \in {0, 1}
        /\ bodyReads[j] = 1 =>
               Streaming(j) /\ pc[j] \notin {"idle", "queued", "locked", "waiting"}

IInv == TypeOK /\ HostWellFormed /\ LockMaps /\ Queues /\ Requests /\ Bodies

-----------------------------------------------------------------------------
(* The lock of a job whose implementation has its lock map.                 *)
LEMMA LockOfIs ==
    ASSUME NEW j, NEW o, locks[j[1]] = {o}
    PROVE  LockOf(j) = <<o, j[2]>>
BY DEF LockOf

(* The same after a step.                                                   *)
LEMMA LockOfStays ==
    ASSUME NEW j, locks'[j[1]] = locks[j[1]]
    PROVE  LockOf(j)' = LockOf(j)
BY DEF LockOf

(* The lock of a job whose implementation exists is a lock.                 *)
LEMMA LockOfIsLock ==
    ASSUME IInv, NEW j \in Jobs, locks[j[1]] # {}
    PROVE  LockOf(j) \in Jobs
<1>1. j[1] \in Impls /\ j[2] \in LockTypes
  BY DEF Jobs
<1>2. PICK o \in Impls : locks[j[1]] = {o}
  BY <1>1 DEF IInv, LockMaps
<1>3. LockOf(j) = <<o, j[2]>>
  BY <1>2, LockOfIs
<1> QED
  BY <1>1, <1>2, <1>3 DEF Jobs

(* Removing one element keeps the others in their order.                    *)
LEMMA RemoveAtParts ==
    ASSUME NEW S, NEW s \in Seq(S), NEW n \in 1..Len(s)
    PROVE  /\ RemoveAt(s, n) \in Seq(S)
           /\ Len(RemoveAt(s, n)) = Len(s) - 1
           /\ \A m \in 1..(Len(s) - 1) :
                  RemoveAt(s, n)[m] = IF m < n THEN s[m] ELSE s[m + 1]
<1>1. \A m \in 1..Len(s) : s[m] \in S
  OBVIOUS
<1> DEFINE a == SubSeq(s, 1, n - 1)
           b == SubSeq(s, n + 1, Len(s))
<1>2. a \in Seq(S) /\ Len(a) = n - 1 /\ \A m \in 1..(n - 1) : a[m] = s[m]
  BY <1>1, SubSeqProperties
<1>3. b \in Seq(S) /\ Len(b) = Len(s) - n /\ \A m \in 1..(Len(s) - n) : b[m] = s[m + n]
  BY <1>1, SubSeqProperties
<1>4. RemoveAt(s, n) = a \o b
  BY DEF RemoveAt
<1> HIDE DEF a, b
<1>5. /\ a \o b \in Seq(S) /\ Len(a \o b) = Len(a) + Len(b)
      /\ \A m \in 1..(Len(a) + Len(b)) :
             (a \o b)[m] = IF m <= Len(a) THEN a[m] ELSE b[m - Len(a)]
  BY <1>2, <1>3, ConcatProperties
<1>6. ASSUME NEW m \in 1..(Len(s) - 1)
      PROVE  (a \o b)[m] = IF m < n THEN s[m] ELSE s[m + 1]
  <2>1. (a \o b)[m] = IF m <= n - 1 THEN a[m] ELSE b[m - (n - 1)]
    BY <1>2, <1>3, <1>5
  <2>2. CASE m < n
    BY <1>2, <2>1, <2>2
  <2>3. CASE m >= n
    <3>1. m - (n - 1) \in 1..(Len(s) - n) /\ m - (n - 1) + n = m + 1
      BY <2>3
    <3> QED
      BY <1>3, <2>1, <2>3, <3>1
  <2>4. m < n \/ m >= n
    OBVIOUS
  <2> QED
    BY <2>2, <2>3, <2>4
<1> QED
  BY <1>2, <1>3, <1>4, <1>5, <1>6

(* So does the tail.                                                        *)
LEMMA TailParts ==
    ASSUME NEW S, NEW s \in Seq(S), s # <<>>
    PROVE  /\ Tail(s) \in Seq(S) /\ Len(Tail(s)) = Len(s) - 1
           /\ \A m \in 1..(Len(s) - 1) : Tail(s)[m] = s[m + 1]
           /\ Head(s) = s[1] /\ Len(s) >= 1
OBVIOUS

-----------------------------------------------------------------------------
(* The initial states satisfy the invariant.                                *)
LEMMA InitIInv == Init => IInv
<1> SUFFICES ASSUME Init PROVE IInv
  OBVIOUS
<1> USE DEF Init
<1>1. <<>> \in Seq(Jobs) /\ Len(<<>>) = 0
  OBVIOUS
<1>2. TypeOK
  BY <1>1 DEF TypeOK
<1>3. HostWellFormed
  BY HostAssumption DEF HostWellFormed
<1>4. LockMaps
  BY DEF LockMaps
<1>5. Queues
  BY <1>1 DEF Queues, HasLock
<1>6. Requests /\ Bodies
  BY DEF Requests, SettledLeavesNothing, Bodies
<1> QED
  BY <1>2, <1>3, <1>4, <1>5, <1>6 DEF IInv

(* A host that answers, an abort, and a job that is granted its lock leave  *)
(* every queue as it is and move jobs only while they have their lock.      *)
LEMMA KeepQueues ==
    ASSUME IInv, UNCHANGED lockVars,
           \A j \in Jobs :
               \/ pc'[j] = pc[j]
               \/ pc[j] \in HasLock /\ pc'[j] \in HasLock
               \/ pc[j] = "queued" /\ pc'[j] \in HasLock /\ Head(queue[LockOf(j)]) = j
    PROVE  LockMaps' /\ Queues'
<1>1. LockMaps'
  BY DEF IInv, LockMaps, lockVars
<1>2. \A j \in Jobs : LockOf(j)' = LockOf(j)
  BY LockOfStays DEF lockVars
<1>3. \A j \in Jobs : pc'[j] # "idle" => pc[j] # "idle"
  BY DEF HasLock
<1>4. \A j \in Jobs : pc'[j] \in HasLock \cup {"queued"} <=> pc[j] \in HasLock \cup {"queued"}
  BY DEF HasLock
<1>5. ASSUME NEW j \in Jobs, pc'[j] \in HasLock
      PROVE  queue[LockOf(j)][1] = j
  <2>1. CASE pc[j] \in HasLock
    BY <2>1 DEF IInv, Queues
  <2>2. CASE pc[j] = "queued" /\ Head(queue[LockOf(j)]) = j
    <3>1. LockOf(j) \in Jobs /\ \E n \in 1..Len(queue[LockOf(j)]) : queue[LockOf(j)][n] = j
      BY <2>2, LockOfIsLock DEF IInv, Queues
    <3>2. queue[LockOf(j)] \in Seq(Jobs) /\ queue[LockOf(j)] # <<>>
      BY <3>1 DEF IInv, TypeOK
    <3> QED
      BY <2>2, <3>2, TailParts
  <2> QED
    BY <1>5, <2>1, <2>2 DEF HasLock
<1>6. Queues'
  <2>1. \A l \in Jobs : \A n \in 1..Len(queue[l]) : queue[l][n] \in Jobs
    BY DEF IInv, TypeOK
  <2>2. queue' = queue /\ locks' = locks
    BY DEF lockVars
  <2>3. \A j \in Jobs : pc'[j] # "idle" => locks[j[1]] # {}
    BY <1>3 DEF IInv, Queues
  <2>4. \A l \in Jobs :
          /\ \A n \in 1..Len(queue[l]) :
                 LockOf(queue[l][n]) = l /\ pc'[queue[l][n]] \in HasLock \cup {"queued"}
          /\ \A m, n \in 1..Len(queue[l]) : queue[l][m] = queue[l][n] => m = n
    BY <1>4, <2>1 DEF IInv, Queues
  <2>5. \A j \in Jobs : pc'[j] \in HasLock \cup {"queued"} =>
          \E n \in 1..Len(queue[LockOf(j)]) : queue[LockOf(j)][n] = j
    BY <1>4 DEF IInv, Queues
  <2> QED
    BY <1>2, <1>5, <2>1, <2>2, <2>3, <2>4, <2>5 DEF Queues
<1> QED
  BY <1>1, <1>6

(* A job that leaves its queue, from wherever it stands, is done.           *)
LEMMA LeaveQueue ==
    ASSUME IInv, UNCHANGED <<LOCKS, locks>>, NEW j \in Jobs,
           pc[j] \in HasLock \cup {"queued"}, Goto(j, "done"),
           NEW n \in 1..Len(queue[LockOf(j)]), queue[LockOf(j)][n] = j,
           NEW q \in Seq(Jobs), Len(q) = Len(queue[LockOf(j)]) - 1,
           \A m \in 1..(Len(queue[LockOf(j)]) - 1) :
               q[m] = IF m < n THEN queue[LockOf(j)][m] ELSE queue[LockOf(j)][m + 1],
           queue' = [queue EXCEPT ![LockOf(j)] = q]
    PROVE  LockMaps' /\ Queues'
<1> DEFINE l0 == LockOf(j)
           q0 == queue[LockOf(j)]
<1>1. LockMaps'
  BY DEF IInv, LockMaps
<1>2. \A k \in Jobs : LockOf(k)' = LockOf(k)
  BY LockOfStays
<1>3. l0 \in Jobs /\ q0 \in Seq(Jobs) /\ Len(q0) \in Nat
  <2>1. l0 \in Jobs
    BY LockOfIsLock DEF IInv, Queues, HasLock
  <2>2. queue \in [Jobs -> Seq(Jobs)]
    BY DEF IInv, TypeOK
  <2> QED
    BY <2>1, <2>2
<1>4. /\ queue'[l0] = q /\ \A l \in Jobs \ {l0} : queue'[l] = queue[l]
      /\ pc'[j] = "done" /\ \A k \in Jobs \ {j} : pc'[k] = pc[k]
  BY <1>3 DEF Goto, IInv, TypeOK
<1>5. /\ \A m \in 1..Len(q0) : /\ q0[m] \in Jobs /\ LockOf(q0[m]) = l0
                               /\ pc[q0[m]] \in HasLock \cup {"queued"}
      /\ \A a, b \in 1..Len(q0) : q0[a] = q0[b] => a = b
  BY <1>3 DEF IInv, Queues
<1> HIDE DEF l0, q0
<1>6. n \in 1..Len(q0) /\ q0[n] = j /\ Len(q) = Len(q0) - 1
  BY DEF q0
<1>7. \A m \in 1..Len(q) : \E a \in 1..Len(q0) :
        a # n /\ q[m] = q0[a] /\ a = IF m < n THEN m ELSE m + 1
  BY <1>3, <1>6 DEF q0
<1>8. \A a \in 1..Len(q0) : a # n =>
        \E m \in 1..Len(q) : q[m] = q0[a] /\ m = IF a < n THEN a ELSE a - 1
  <2> SUFFICES ASSUME NEW a \in 1..Len(q0), a # n
               PROVE  \E m \in 1..Len(q) : q[m] = q0[a] /\ m = IF a < n THEN a ELSE a - 1
    OBVIOUS
  <2>1. CASE a < n
    <3>1. a \in 1..Len(q) /\ q[a] = q0[a]
      BY <1>3, <1>6, <2>1 DEF q0
    <3> QED
      BY <2>1, <3>1
  <2>2. CASE a > n
    <3>1. a - 1 \in 1..Len(q) /\ ~(a - 1 < n) /\ (a - 1) + 1 = a
      BY <1>3, <1>6, <2>2
    <3>2. q[a - 1] = q0[a]
      BY <1>6, <3>1 DEF q0
    <3> QED
      BY <2>2, <3>1, <3>2
  <2> QED
    BY <1>3, <1>6, <2>1, <2>2
<1>9. \A m \in 1..Len(q) : /\ LockOf(q[m]) = l0 /\ q[m] \in Jobs \ {j}
                          /\ pc'[q[m]] \in HasLock \cup {"queued"}
  BY <1>4, <1>5, <1>6, <1>7
<1>10. \A a, b \in 1..Len(q) : q[a] = q[b] => a = b
  <2> SUFFICES ASSUME NEW a \in 1..Len(q), NEW b \in 1..Len(q), q[a] = q[b]
               PROVE  a = b
    OBVIOUS
  <2>1. PICK c \in 1..Len(q0) : q[a] = q0[c] /\ c = IF a < n THEN a ELSE a + 1
    BY <1>7
  <2>2. PICK d \in 1..Len(q0) : q[b] = q0[d] /\ d = IF b < n THEN b ELSE b + 1
    BY <1>7
  <2>3. c = d
    <3>1. q0[c] = q0[d]
      BY <2>1, <2>2
    <3> QED
      BY <1>5, <3>1
  <2> QED
    BY <1>3, <1>6, <2>1, <2>2, <2>3
<1>11. \A k \in Jobs : pc'[k] \in HasLock \cup {"queued"} => k # j /\ pc[k] = pc'[k]
  BY <1>4 DEF HasLock
<1>12. \A k \in Jobs : pc'[k] # "idle" => locks[k[1]] # {}
  BY <1>4 DEF IInv, Queues, HasLock
<1>13. ASSUME NEW l \in Jobs
       PROVE  /\ \A m \in 1..Len(queue'[l]) :
                     LockOf(queue'[l][m]) = l /\ pc'[queue'[l][m]] \in HasLock \cup {"queued"}
                     /\ queue'[l][m] \in Jobs
              /\ \A a, b \in 1..Len(queue'[l]) : queue'[l][a] = queue'[l][b] => a = b
  <2>1. CASE l = l0
    BY <1>4, <1>9, <1>10, <2>1
  <2>2. CASE l # l0
    <3>1. \A m \in 1..Len(queue[l]) : queue[l][m] \in Jobs /\ LockOf(queue[l][m]) = l
            /\ pc[queue[l][m]] \in HasLock \cup {"queued"}
      <4>1. \A m \in 1..Len(queue[l]) : queue[l][m] \in Jobs
        BY DEF IInv, TypeOK
      <4> QED
        BY <4>1 DEF IInv, Queues
    <3>2. \A m \in 1..Len(queue[l]) : queue[l][m] # j
      BY <2>2, <3>1 DEF l0
    <3>3. \A a, b \in 1..Len(queue[l]) : queue[l][a] = queue[l][b] => a = b
      BY DEF IInv, Queues
    <3> QED
      BY <1>4, <2>2, <3>1, <3>2, <3>3
  <2> QED
    BY <2>1, <2>2
<1>14. ASSUME NEW k \in Jobs, pc'[k] \in HasLock \cup {"queued"}
       PROVE  \E m \in 1..Len(queue'[LockOf(k)]) : queue'[LockOf(k)][m] = k
  <2>1. k # j /\ LockOf(k) \in Jobs
    BY <1>11, <1>14, LockOfIsLock DEF IInv, Queues, HasLock
  <2>2. PICK a \in 1..Len(queue[LockOf(k)]) : queue[LockOf(k)][a] = k
    BY <1>11, <1>14 DEF IInv, Queues
  <2>3. CASE LockOf(k) = l0
    <3>1. a \in 1..Len(q0) /\ q0[a] = k /\ a # n
      BY <1>6, <2>1, <2>2, <2>3 DEF l0, q0
    <3> QED
      BY <1>4, <1>8, <2>3, <3>1
  <2>4. CASE LockOf(k) # l0
    BY <1>4, <2>1, <2>2, <2>4
  <2> QED
    BY <2>3, <2>4
<1>15. ASSUME NEW k \in Jobs, pc'[k] \in HasLock
       PROVE  queue'[LockOf(k)][1] = k
  <2>1. k # j /\ LockOf(k) \in Jobs /\ queue[LockOf(k)][1] = k
    BY <1>11, <1>15, LockOfIsLock DEF IInv, Queues, HasLock
  <2>2. CASE LockOf(k) = l0
    <3>1. q0[1] = k /\ n # 1 /\ 1 \in 1..Len(q)
      BY <1>3, <1>6, <2>1, <2>2 DEF l0, q0
    <3> QED
      BY <1>3, <1>4, <1>6, <2>2, <3>1 DEF q0
  <2>3. CASE LockOf(k) # l0
    BY <1>4, <2>1, <2>3
  <2> QED
    BY <2>2, <2>3
<1>16. Queues'
  <2>1. \A k \in Jobs : pc'[k] # "idle" => locks'[k[1]] # {}
    BY <1>12
  <2>2. \A l \in Jobs :
          /\ \A m \in 1..Len(queue'[l]) :
                 LockOf(queue[l][m])' = l /\ pc'[queue'[l][m]] \in HasLock \cup {"queued"}
          /\ \A a, b \in 1..Len(queue'[l]) : queue'[l][a] = queue'[l][b] => a = b
    BY <1>2, <1>13
  <2>3. \A k \in Jobs : pc'[k] \in HasLock \cup {"queued"} =>
          \E m \in 1..Len(queue'[LockOf(k)']) : queue'[LockOf(k)'][m] = k
    BY <1>2, <1>14
  <2>4. \A k \in Jobs : pc'[k] \in HasLock => queue'[LockOf(k)'][1] = k
    BY <1>2, <1>15
  <2> QED
    BY <2>1, <2>2, <2>3, <2>4 DEF Queues
<1> QED
  BY <1>1, <1>16

(* A job enters its queue at the end.                                       *)
LEMMA EnterQueue ==
    ASSUME IInv, NEW j \in Jobs, ObtainLock(j)
    PROVE  TypeOK' /\ LockMaps' /\ Queues'
<1> DEFINE l0 == LockOf(j)
           q0 == queue[LockOf(j)]
           q == Append(q0, j)
<1>1. LockMaps' /\ \A k \in Jobs : LockOf(k)' = LockOf(k)
  BY LockOfStays DEF IInv, LockMaps, ObtainLock
<1>2. l0 \in Jobs /\ q0 \in Seq(Jobs) /\ Len(q0) \in Nat
  <2>1. l0 \in Jobs
    BY LockOfIsLock DEF ObtainLock
  <2>2. queue \in [Jobs -> Seq(Jobs)]
    BY DEF IInv, TypeOK
  <2> QED
    BY <2>1, <2>2
<1>3. /\ queue' = [queue EXCEPT ![l0] = q] /\ queue'[l0] = q
      /\ \A l \in Jobs \ {l0} : queue'[l] = queue[l]
      /\ pc[j] = "idle" /\ pc'[j] = "queued" /\ \A k \in Jobs \ {j} : pc'[k] = pc[k]
      /\ locks[j[1]] # {} /\ locks' = locks
  BY <1>2 DEF ObtainLock, Goto, IInv, TypeOK
<1>4. /\ q \in Seq(Jobs) /\ Len(q) = Len(q0) + 1 /\ q[Len(q0) + 1] = j
      /\ \A m \in 1..Len(q0) : q[m] = q0[m]
  BY <1>2
<1>5. TypeOK'
  <2>1. queue' \in [Jobs -> Seq(Jobs)]
    BY <1>2, <1>3, <1>4 DEF IInv, TypeOK
  <2> QED
    BY <2>1 DEF ObtainLock, Goto, IInv, TypeOK, hostVars, nativeVars
<1>6. \A l \in Jobs :
        /\ \A m \in 1..Len(queue[l]) : /\ queue[l][m] \in Jobs \ {j} /\ LockOf(queue[l][m]) = l
                                      /\ pc[queue[l][m]] \in HasLock \cup {"queued"}
        /\ \A a, b \in 1..Len(queue[l]) : queue[l][a] = queue[l][b] => a = b
  <2>1. \A l \in Jobs : \A m \in 1..Len(queue[l]) : queue[l][m] \in Jobs
    BY DEF IInv, TypeOK
  <2> QED
    BY <1>3, <2>1 DEF IInv, Queues, HasLock
<1> HIDE DEF l0, q0, q
<1>7. ASSUME NEW l \in Jobs
      PROVE  /\ \A m \in 1..Len(queue'[l]) : /\ queue'[l][m] \in Jobs /\ LockOf(queue'[l][m]) = l
                                            /\ pc'[queue'[l][m]] \in HasLock \cup {"queued"}
             /\ \A a, b \in 1..Len(queue'[l]) : queue'[l][a] = queue'[l][b] => a = b
  <2>1. CASE l = l0
    <3>1. \A m \in 1..Len(q0) : /\ q0[m] \in Jobs \ {j} /\ LockOf(q0[m]) = l
                               /\ pc'[q0[m]] \in HasLock \cup {"queued"}
      BY <1>3, <1>6, <2>1 DEF l0, q0
    <3>2. \A a, b \in 1..Len(q0) : q0[a] = q0[b] => a = b
      BY <1>6, <2>1 DEF l0, q0
    <3>3. \A m \in 1..Len(q) : m \in 1..Len(q0) \/ m = Len(q0) + 1
      BY <1>2, <1>4
    <3>4. \A m \in 1..Len(q) : /\ q[m] \in Jobs /\ LockOf(q[m]) = l
                              /\ pc'[q[m]] \in HasLock \cup {"queued"}
      BY <1>3, <1>4, <2>1, <3>1, <3>3 DEF l0
    <3>5. \A a, b \in 1..Len(q) : q[a] = q[b] => a = b
      BY <1>4, <3>1, <3>2, <3>3
    <3> QED
      BY <1>3, <2>1, <3>4, <3>5
  <2>2. CASE l # l0
    BY <1>3, <1>6, <2>2
  <2> QED
    BY <2>1, <2>2
<1>8. ASSUME NEW k \in Jobs, pc'[k] \in HasLock \cup {"queued"}
      PROVE  \E m \in 1..Len(queue'[LockOf(k)]) : queue'[LockOf(k)][m] = k
  <2>1. CASE k = j
    <3>1. Len(q) \in 1..Len(q) /\ q[Len(q)] = j
      BY <1>2, <1>4
    <3> QED
      BY <1>3, <2>1, <3>1 DEF l0
  <2>2. CASE k # j
    <3>1. PICK a \in 1..Len(queue[LockOf(k)]) : queue[LockOf(k)][a] = k
      BY <1>3, <1>8, <2>2 DEF IInv, Queues
    <3>2. LockOf(k) \in Jobs
      BY <1>3, <1>8, <2>2, LockOfIsLock DEF IInv, Queues, HasLock
    <3>3. CASE LockOf(k) = l0
      <4>1. a \in 1..Len(q) /\ q[a] = k
        BY <1>2, <1>4, <3>1, <3>3 DEF l0, q0
      <4> QED
        BY <1>3, <3>3, <4>1
    <3>4. CASE LockOf(k) # l0
      BY <1>3, <3>1, <3>2, <3>4
    <3> QED
      BY <3>3, <3>4
  <2> QED
    BY <2>1, <2>2
<1>9. ASSUME NEW k \in Jobs, pc'[k] \in HasLock
      PROVE  queue'[LockOf(k)][1] = k
  <2>1. k # j /\ pc[k] \in HasLock
    BY <1>3, <1>9 DEF HasLock
  <2>2. /\ queue[LockOf(k)][1] = k /\ LockOf(k) \in Jobs
        /\ \E a \in 1..Len(queue[LockOf(k)]) : queue[LockOf(k)][a] = k
    BY <2>1, LockOfIsLock DEF IInv, Queues, HasLock
  <2>3. CASE LockOf(k) = l0
    <3>1. 1 \in 1..Len(q0)
      BY <1>2, <2>2, <2>3 DEF l0, q0
    <3> QED
      BY <1>3, <1>4, <2>2, <2>3, <3>1 DEF l0, q0
  <2>4. CASE LockOf(k) # l0
    BY <1>3, <2>2, <2>4
  <2> QED
    BY <2>3, <2>4
<1>10. Queues'
  <2>1. \A k \in Jobs : pc'[k] # "idle" => locks'[k[1]] # {}
    BY <1>3 DEF IInv, Queues
  <2>2. \A l \in Jobs :
          /\ \A m \in 1..Len(queue'[l]) :
                 LockOf(queue[l][m])' = l /\ pc'[queue'[l][m]] \in HasLock \cup {"queued"}
          /\ \A a, b \in 1..Len(queue'[l]) : queue'[l][a] = queue'[l][b] => a = b
    BY <1>1, <1>7
  <2>3. \A k \in Jobs : pc'[k] \in HasLock \cup {"queued"} =>
          \E m \in 1..Len(queue'[LockOf(k)']) : queue'[LockOf(k)'][m] = k
    BY <1>1, <1>8
  <2>4. \A k \in Jobs : pc'[k] \in HasLock => queue'[LockOf(k)'][1] = k
    BY <1>1, <1>9
  <2> QED
    BY <2>1, <2>2, <2>3, <2>4 DEF Queues
<1> QED
  BY <1>1, <1>5, <1>10

(* An implementation that connect() makes takes the registered lock map, or *)
(* registers its own; no job of it has run yet.                             *)
LEMMA NewImplementation ==
    ASSUME IInv, NEW i \in Impls, GenerateSyncStreamImplementation(i)
    PROVE  TypeOK' /\ LockMaps' /\ Queues'
<1> USE DEF GenerateSyncStreamImplementation, IInv, HasLock
<1>1. PICK o \in Impls :
        /\ locks' = [locks EXCEPT ![i] = {o}]
        /\ \/ /\ Identifier[i] # NoIdentifier /\ LOCKS[Identifier[i]] = {o} /\ LOCKS' = LOCKS
           \/ Identifier[i] = NoIdentifier /\ LOCKS' = LOCKS
           \/ /\ Identifier[i] # NoIdentifier /\ LOCKS[Identifier[i]] = {}
              /\ LOCKS' = [LOCKS EXCEPT ![Identifier[i]] = {o}]
  <2>1. CASE Identifier[i] # NoIdentifier /\ LOCKS[Identifier[i]] # {}
    BY <2>1 DEF InitLocks, LockMaps
  <2>2. CASE ~(Identifier[i] # NoIdentifier /\ LOCKS[Identifier[i]] # {})
    BY <2>2 DEF InitLocks
  <2> QED
    BY <2>1, <2>2
<1>2. locks'[i] = {o} /\ \A k \in Impls \ {i} : locks'[k] = locks[k]
  BY <1>1 DEF TypeOK
<1>3. TypeOK'
  <2>1. locks' \in [Impls -> SUBSET Impls]
    BY <1>1 DEF TypeOK
  <2>2. LOCKS' \in [{Identifier[k] : k \in Impls} -> SUBSET Impls]
    <3>1. LOCKS \in [{Identifier[k] : k \in Impls} -> SUBSET Impls] /\ {o} \in SUBSET Impls
      BY DEF TypeOK
    <3>2. LOCKS' = LOCKS \/ LOCKS' = [LOCKS EXCEPT ![Identifier[i]] = {o}]
      BY <1>1
    <3> QED
      BY <3>1, <3>2
  <2> QED
    BY <2>1, <2>2 DEF TypeOK, hostVars, nativeVars
<1>4. LockMaps'
  <2>1. \A k \in Impls : Identifier[k] \in {Identifier[m] : m \in Impls}
    OBVIOUS
  <2>2. CASE LOCKS' = LOCKS
    <3>1. Identifier[i] # NoIdentifier => LOCKS[Identifier[i]] = {o}
      BY <1>1, <2>2 DEF TypeOK
    <3>2. \A k \in Impls : locks'[k] = {} \/ \E p \in Impls : locks'[k] = {p}
      BY <1>2 DEF LockMaps
    <3>3. \A k \in Impls : Identifier[k] # NoIdentifier /\ locks'[k] # {} =>
            locks'[k] = LOCKS[Identifier[k]]
      BY <1>2, <3>1 DEF LockMaps
    <3> QED
      BY <2>2, <3>2, <3>3 DEF LockMaps
  <2>3. CASE /\ Identifier[i] # NoIdentifier /\ LOCKS[Identifier[i]] = {}
             /\ LOCKS' = [LOCKS EXCEPT ![Identifier[i]] = {o}]
    <3>1. /\ \A k \in Impls : LOCKS'[Identifier[k]] =
               IF Identifier[k] = Identifier[i] THEN {o} ELSE LOCKS[Identifier[k]]
      BY <2>1, <2>3 DEF TypeOK
    <3>2. \A k \in Impls \ {i} : Identifier[k] # NoIdentifier /\ locks[k] # {} =>
            locks[k] = LOCKS[Identifier[k]]
      BY DEF LockMaps
    <3>3. \A k \in Impls : locks[k] = {} \/ \E p \in Impls : locks[k] = {p}
      BY DEF LockMaps
    <3>4. \A k \in Impls : LOCKS[Identifier[k]] = {} \/ \E p \in Impls : LOCKS[Identifier[k]] = {p}
      BY DEF LockMaps
    <3>5. \A k \in Impls : locks'[k] = {} \/ \E p \in Impls : locks'[k] = {p}
      BY <1>2, <3>3
    <3>6. \A k \in Impls : LOCKS'[Identifier[k]] = {} \/ \E p \in Impls : LOCKS'[Identifier[k]] = {p}
      BY <3>1, <3>4
    <3>7. \A k \in Impls : Identifier[k] # NoIdentifier /\ locks'[k] # {} =>
            locks'[k] = LOCKS'[Identifier[k]]
      BY <1>2, <2>3, <3>1, <3>2
    <3> QED
      BY <3>5, <3>6, <3>7 DEF LockMaps
  <2> QED
    BY <1>1, <2>2, <2>3
<1>5. \A k \in Jobs : pc[k] # "idle" => k[1] \in Impls \ {i} /\ LockOf(k)' = LockOf(k)
  BY <1>2, LockOfStays DEF Queues, Jobs
<1>6. Queues'
  <2>1. \A l \in Jobs : \A n \in 1..Len(queue[l]) : queue[l][n] \in Jobs
    BY DEF TypeOK
  <2>2. \A l \in Jobs : \A n \in 1..Len(queue[l]) :
          pc[queue[l][n]] # "idle" /\ LockOf(queue[l][n]) = l
    BY DEF Queues
  <2>3. \A l \in Jobs : \A n \in 1..Len(queue[l]) : LockOf(queue[l][n])' = l
    BY <1>5, <2>1, <2>2
  <2>4. \A k \in Jobs : pc[k] # "idle" => locks'[k[1]] # {}
    BY <1>2, <1>5 DEF Queues
  <2>5. \A k \in Jobs : pc[k] \in HasLock \cup {"queued"} =>
          \E n \in 1..Len(queue[LockOf(k)']) : queue[LockOf(k)'][n] = k
    BY <1>5 DEF Queues
  <2>6. \A k \in Jobs : pc[k] \in HasLock => queue[LockOf(k)'][1] = k
    BY <1>5 DEF Queues
  <2> QED
    BY <2>3, <2>4, <2>5, <2>6 DEF Queues
<1> QED
  BY <1>3, <1>4, <1>6

-----------------------------------------------------------------------------
(* A job that waits for its lock, takes it, or gives it up.                 *)
LEMMA LockIInv ==
    ASSUME IInv, NEW j \in Jobs,
           ObtainLock(j) \/ LockGranted(j) \/ LockAbandoned(j) \/ Release(j) \/ ReadBody(j)
    PROVE  IInv'
<1> USE DEF IInv
<1>1. CASE ObtainLock(j)
  <2> USE <1>1 DEF ObtainLock, Goto, hostVars, nativeVars
  <2>1. HostWellFormed'
    BY DEF HostWellFormed
  <2>2. Requests' /\ Bodies'
    BY DEF TypeOK, Requests, SettledLeavesNothing, Bodies
  <2> QED
    BY <2>1, <2>2, EnterQueue
<1>2. CASE LockGranted(j)
  <2> USE <1>2 DEF LockGranted, Goto, hostVars, nativeVars
  <2>1. TypeOK' /\ HostWellFormed'
    BY DEF TypeOK, HostWellFormed, lockVars
  <2>2. Requests' /\ Bodies'
    BY DEF TypeOK, Requests, SettledLeavesNothing, Bodies
  <2>3. LockMaps' /\ Queues'
    BY KeepQueues DEF TypeOK, HasLock
  <2> QED
    BY <2>1, <2>2, <2>3
<1>3. ASSUME pc[j] \in HasLock \cup {"queued"}, UNCHANGED <<host, LOCKS, locks, via, aborted,
             listeners, calls, response>>, Goto(j, "done"),
             NEW n \in DOMAIN queue[LockOf(j)], queue[LockOf(j)][n] = j,
             NEW q, (q = Tail(queue[LockOf(j)]) /\ n = 1) \/ q = RemoveAt(queue[LockOf(j)], n),
             queue' = [queue EXCEPT ![LockOf(j)] = q]
      PROVE  LockMaps' /\ Queues' /\ queue' \in [Jobs -> Seq(Jobs)]
  <2> DEFINE q0 == queue[LockOf(j)]
  <2>1. LockOf(j) \in Jobs /\ queue \in [Jobs -> Seq(Jobs)]
    BY <1>3, LockOfIsLock DEF Queues, HasLock, TypeOK
  <2>2. q0 \in Seq(Jobs) /\ n \in 1..Len(q0) /\ q0 # <<>>
    BY <1>3, <2>1
  <2>3. /\ q \in Seq(Jobs) /\ Len(q) = Len(q0) - 1
        /\ \A m \in 1..(Len(q0) - 1) : q[m] = IF m < n THEN q0[m] ELSE q0[m + 1]
    <3>1. CASE q = Tail(q0) /\ n = 1
      BY <2>2, <3>1, TailParts
    <3>2. CASE q = RemoveAt(q0, n)
      BY <2>2, <3>2, RemoveAtParts
    <3> QED
      BY <1>3, <3>1, <3>2
  <2>4. queue' \in [Jobs -> Seq(Jobs)]
    BY <1>3, <2>1, <2>3
  <2> QED
    BY <1>3, <2>2, <2>3, <2>4, LeaveQueue
<1>4. CASE LockAbandoned(j)
  <2>1. PICK n \in DOMAIN queue[LockOf(j)] :
          /\ queue[LockOf(j)][n] = j
          /\ queue' = [queue EXCEPT ![LockOf(j)] = RemoveAt(queue[LockOf(j)], n)]
    BY <1>4, LockOfIsLock DEF LockAbandoned, Queues, TypeOK
  <2>2. LockMaps' /\ Queues' /\ queue' \in [Jobs -> Seq(Jobs)]
    BY <1>3, <1>4, <2>1 DEF LockAbandoned, hostVars, nativeVars
  <2> USE <1>4 DEF LockAbandoned, Goto, hostVars, nativeVars
  <2>3. TypeOK' /\ HostWellFormed'
    BY <2>2 DEF TypeOK, HostWellFormed
  <2>4. Requests' /\ Bodies'
    BY DEF TypeOK, Requests, SettledLeavesNothing, Bodies
  <2> QED
    BY <2>2, <2>3, <2>4
<1>5. CASE Release(j) \/ ReadBody(j)
  <2>1. pc[j] \in {"failed", "body"} /\ LockOf(j) \in Jobs
    BY <1>5, LockOfIsLock DEF Release, ReadBody, Queues
  <2>2. /\ 1 \in DOMAIN queue[LockOf(j)] /\ queue[LockOf(j)][1] = j
        /\ queue' = [queue EXCEPT ![LockOf(j)] = Tail(queue[LockOf(j)])]
    <3>1. queue[LockOf(j)] \in Seq(Jobs)
      BY <2>1 DEF TypeOK
    <3>2. queue[LockOf(j)][1] = j /\ \E n \in 1..Len(queue[LockOf(j)]) : queue[LockOf(j)][n] = j
      BY <2>1 DEF Queues, HasLock
    <3>3. 1 \in DOMAIN queue[LockOf(j)]
      BY <3>1, <3>2
    <3> QED
      BY <1>5, <3>2, <3>3 DEF Release, ReadBody, Unlock
  <2>3. LockMaps' /\ Queues' /\ queue' \in [Jobs -> Seq(Jobs)]
    BY <1>3, <1>5, <2>1, <2>2 DEF Release, ReadBody, hostVars, nativeVars, HasLock
  <2>4. /\ bodyReads' = bodyReads /\ response' = response
    BY <1>5 DEF Release, ReadBody, hostVars, Bodies, TypeOK
  <2> USE <1>5, <2>1, <2>4 DEF Release, ReadBody, Goto, nativeVars
  <2>5. TypeOK' /\ HostWellFormed'
    BY <2>3 DEF TypeOK, HostWellFormed
  <2>6. Requests'
    <3>1. /\ pc'[j] = "done" /\ \A k \in Jobs \ {j} : pc'[k] = pc[k]
          /\ UNCHANGED <<listeners, calls, threw>> /\ streams' \subseteq streams
          /\ pc[j] = "body" => j \notin streams'
          /\ host' = host /\ aborted' = aborted /\ via' = via
          /\ listeners \subseteq Jobs /\ calls \subseteq Jobs /\ streams \subseteq Jobs
          /\ threw \subseteq Jobs
      BY DEF TypeOK
    <3>2. j \notin listeners \ threw /\ (j \in calls => pc[j] = "failed")
      BY DEF Requests, SettledLeavesNothing
    <3>3. SettledLeavesNothing'
      BY <3>1, <3>2 DEF Requests, SettledLeavesNothing
    <3> QED
      BY <2>1, <3>1, <3>3 DEF Requests
  <2>7. Bodies'
    BY DEF TypeOK, Bodies
  <2> QED
    BY <2>3, <2>5, <2>6, <2>7
<1> QED
  BY <1>1, <1>2, <1>4, <1>5

(* A job that has its lock makes its request.                               *)
LEMMA FetchIInv ==
    ASSUME IInv, NEW j \in Jobs, Fetch(j)
    PROVE  IInv'
<1> USE DEF IInv, Fetch
<1>1. PickSyncStreamTransport(j) \in {"native-http", "lynx-fetch-module", "host-fetch"}
  BY DEF PickSyncStreamTransport
<1>2. /\ via'[j] = PickSyncStreamTransport(j) /\ \A k \in Jobs \ {j} : via'[k] = via[k]
      /\ via' \in [Jobs -> {"none", "native-http", "lynx-fetch-module", "host-fetch"}]
  BY <1>1 DEF TypeOK
<1>3. \/ /\ via'[j] = "native-http" /\ ~aborted[j[1]] /\ pc' = [pc EXCEPT ![j] = "waiting"]
         /\ listeners' = listeners \cup {j} /\ calls' = calls \cup {j}
         /\ UNCHANGED <<streams, threw>>
      \/ /\ via'[j] = "native-http" /\ ~aborted[j[1]] /\ pc' = [pc EXCEPT ![j] = "failed"]
         /\ listeners' = listeners \cup {j} /\ threw' = threw \cup {j}
         /\ UNCHANGED <<streams, calls>>
      \/ /\ pc' = [pc EXCEPT ![j] = "failed"] \/ pc' = [pc EXCEPT ![j] = "waiting"]
         /\ UNCHANGED nativeVars
  BY DEF FetchViaNativeHttp, FetchViaLynxModule, FetchViaHost, Goto
<1>4. pc'[j] \in {"waiting", "failed"} /\ \A k \in Jobs \ {j} : pc'[k] = pc[k]
  BY <1>3 DEF TypeOK
<1>5. TypeOK' /\ HostWellFormed'
  BY <1>2, <1>3 DEF TypeOK, HostWellFormed, lockVars, hostVars, nativeVars
<1>6. LockMaps' /\ Queues'
  BY <1>4, KeepQueues DEF HasLock
<1>7. Requests'
  <2>1. j \notin calls /\ j \notin listeners /\ j \notin threw
    BY DEF Requests, SettledLeavesNothing
  <2>2. /\ UNCHANGED <<host, aborted, streams>>
        /\ listeners \subseteq Jobs /\ calls \subseteq Jobs /\ streams \subseteq Jobs
        /\ threw \subseteq Jobs
    BY <1>3 DEF TypeOK, nativeVars
  <2>3. streams' = streams /\ \A k \in streams : k = j => GlobalEventEmitters(host) = {}
    BY <2>2 DEF Requests, SettledLeavesNothing
  <2>4. CASE /\ via'[j] = "native-http" /\ ~aborted[j[1]] /\ pc' = [pc EXCEPT ![j] = "waiting"]
             /\ listeners' = listeners \cup {j} /\ calls' = calls \cup {j} /\ threw' = threw
    <3>1. pc'[j] = "waiting"
      BY <2>4 DEF TypeOK
    <3> QED
      BY <1>2, <1>4, <2>1, <2>2, <2>3, <2>4, <3>1 DEF Requests, SettledLeavesNothing
  <2>5. CASE /\ via'[j] = "native-http" /\ ~aborted[j[1]] /\ pc' = [pc EXCEPT ![j] = "failed"]
             /\ listeners' = listeners \cup {j} /\ threw' = threw \cup {j} /\ calls' = calls
    <3>1. pc'[j] = "failed"
      BY <2>5 DEF TypeOK
    <3> QED
      BY <1>2, <1>4, <2>1, <2>2, <2>3, <2>5, <3>1 DEF Requests, SettledLeavesNothing
  <2>6. CASE UNCHANGED <<listeners, calls, threw>>
    BY <1>2, <1>4, <2>1, <2>2, <2>3, <2>6 DEF Requests, SettledLeavesNothing
  <2> QED
    BY <1>3, <2>4, <2>5, <2>6 DEF nativeVars
<1>8. Bodies'
  BY <1>4 DEF Bodies, hostVars, TypeOK
<1> QED
  BY <1>5, <1>6, <1>7, <1>8

(* Counting the first read of a body.                                       *)
LEMMA FirstRead ==
    ASSUME NEW f \in [Jobs -> 0..3], NEW j \in Jobs, f[j] = 0
    PROVE  /\ [f EXCEPT ![j] = @ + 1] \in [Jobs -> 0..3]
           /\ [f EXCEPT ![j] = @ + 1][j] = 1
           /\ \A k \in Jobs \ {j} : [f EXCEPT ![j] = @ + 1][k] = f[k]
<1> DEFINE g == [f EXCEPT ![j] = f[j] + 1]
<1>1. f[j] + 1 = 1
  OBVIOUS
<1>2. g = [f EXCEPT ![j] = 1]
  BY <1>1
<1>3. [f EXCEPT ![j] = 1] \in [Jobs -> 0..3] /\ [f EXCEPT ![j] = 1][j] = 1
  OBVIOUS
<1> QED
  BY <1>2, <1>3

(* The answers of the three transports.                                     *)
LEMMA HostIInv ==
    ASSUME IInv, NEW j \in Jobs, HostStep(j)
    PROVE  IInv'
<1> USE DEF IInv
<1>1. ASSUME NEW to \in {"body", "failed"}, pc[j] = "waiting", Goto(j, to)
      PROVE  /\ pc'[j] = to /\ \A k \in Jobs \ {j} : pc'[k] = pc[k]
             /\ pc' \in [Jobs -> {"idle", "queued", "locked", "waiting", "body", "failed", "done"}]
             /\ UNCHANGED lockVars => LockMaps' /\ Queues'
  <2>1. /\ pc'[j] = to /\ \A k \in Jobs \ {j} : pc'[k] = pc[k]
        /\ pc' \in [Jobs -> {"idle", "queued", "locked", "waiting", "body", "failed", "done"}]
    BY <1>1 DEF Goto, TypeOK
  <2> QED
    BY <1>1, <2>1, KeepQueues DEF HasLock
<1>2. UNCHANGED <<lockVars, pc>> => LockMaps' /\ Queues'
  BY KeepQueues
<1>3. CASE NativeStarts(j) \/ NativeFails(j)
  <2> USE <1>3 DEF NativeStarts, NativeFails, Settle
  <2>1. /\ \/ pc' = pc /\ pc[j] # "waiting"
           \/ pc[j] = "waiting" /\ Goto(j, "failed")
           \/ pc[j] = "waiting" /\ Goto(j, "body")
        /\ UNCHANGED <<host, lockVars, via, aborted, response, bodyReads>>
    BY DEF hostVars
  <2>2. LockMaps' /\ Queues'
    BY <1>1, <1>2, <2>1
  <2>3. TypeOK' /\ HostWellFormed'
    BY <1>1, <2>1 DEF TypeOK, HostWellFormed, lockVars
  <2>4. Bodies'
    BY <1>1, <2>1 DEF Bodies, TypeOK
  <2>5. Requests'
    <3>1. CASE pc[j] # "waiting" /\ UNCHANGED <<pc, listeners, streams>>
      BY <2>1, <3>1 DEF Requests, SettledLeavesNothing, TypeOK
    <3>2. CASE pc[j] = "waiting"
      <4>1. /\ listeners' = listeners \ {j} /\ calls' = calls \ {j}
            /\ streams' = streams \cup {j} \/ streams' = streams
            /\ pc'[j] \in {"failed", "body"} /\ \A k \in Jobs \ {j} : pc'[k] = pc[k]
            /\ streams' # streams =>
                 pc'[j] = IF GlobalEventEmitters(host) = {} THEN "failed" ELSE "body"
        BY <1>1, <3>2
      <4>2. j \in streams => GlobalEventEmitters(host) = {}
        BY <3>2 DEF Requests, SettledLeavesNothing
      <4> QED
        BY <2>1, <4>1, <4>2 DEF Requests, SettledLeavesNothing, TypeOK
    <3> QED
      BY <3>1, <3>2
  <2> QED
    BY <2>2, <2>3, <2>4, <2>5
<1>4. CASE LynxFetchAnswers(j) \/ HostAnswers(j) \/ HostFails(j)
  <2> USE <1>4 DEF LynxFetchAnswers, HostAnswers, HostFails
  <2>1. /\ pc[j] = "waiting" /\ via[j] # "native-http"
        /\ Goto(j, "failed") \/ Goto(j, "body")
        /\ UNCHANGED <<host, lockVars, via, aborted, nativeVars>>
    OBVIOUS
  <2>2. LockMaps' /\ Queues'
    BY <1>1, <2>1
  <2>3. Requests'
    BY <1>1, <2>1 DEF Requests, SettledLeavesNothing, TypeOK, nativeVars
  <2>4. \/ response' = response /\ bodyReads' = bodyReads
        \/ /\ \E r \in {"stable", "empty"} : response' = [response EXCEPT ![j] = r]
           /\ \/ bodyReads' = bodyReads
              \/ Streaming(j) /\ bodyReads' = [bodyReads EXCEPT ![j] = @ + 1]
    BY DEF hostVars, HostStreamingResponse
  <2>5. bodyReads[j] = 0
    BY <2>1 DEF Bodies
  <2>6. /\ response' \in [Jobs -> {"none", "raw", "stable", "empty"}] /\ response'[j] # "raw"
        /\ \A k \in Jobs \ {j} : response'[k] = response[k]
    BY <2>4 DEF Bodies, TypeOK
  <2>7. /\ bodyReads' \in [Jobs -> 0..3] /\ bodyReads'[j] \in {0, 1}
        /\ bodyReads'[j] = 1 => Streaming(j)
        /\ \A k \in Jobs \ {j} : bodyReads'[k] = bodyReads[k]
    <3>1. CASE bodyReads' = bodyReads
      BY <2>5, <3>1 DEF TypeOK
    <3>2. CASE Streaming(j) /\ bodyReads' = [bodyReads EXCEPT ![j] = @ + 1]
      <4>1. bodyReads \in [Jobs -> 0..3]
        BY DEF TypeOK
      <4> HIDE DEF IInv, LynxFetchAnswers, HostAnswers, HostFails
      <4>2. /\ [bodyReads EXCEPT ![j] = @ + 1] \in [Jobs -> 0..3]
            /\ [bodyReads EXCEPT ![j] = @ + 1][j] = 1
            /\ \A k \in Jobs \ {j} : [bodyReads EXCEPT ![j] = @ + 1][k] = bodyReads[k]
        BY <2>5, <4>1, FirstRead
      <4> QED
        BY <3>2, <4>2
    <3> QED
      BY <2>4, <3>1, <3>2
  <2>8. pc'[j] \in {"failed", "body"} /\ \A k \in Jobs \ {j} : pc'[k] = pc[k]
    BY <1>1, <2>1
  <2>9. TypeOK' /\ HostWellFormed'
    BY <1>1, <2>1, <2>6, <2>7 DEF TypeOK, HostWellFormed, lockVars, nativeVars
  <2>10. Bodies'
    BY <2>6, <2>7, <2>8 DEF Bodies
  <2> QED
    BY <2>2, <2>3, <2>9, <2>10
<1> QED
  BY <1>3, <1>4 DEF HostStep

(* An abort rejects the requests whose listener is on the signal.           *)
LEMMA AbortIInv ==
    ASSUME IInv, NEW i \in Impls, Abort(i)
    PROVE  IInv'
<1> USE DEF IInv, Abort
<1> DEFINE mine == {j \in listeners : j[1] = i}
<1>1. \A j \in mine : j \in Jobs /\ (pc[j] = "waiting" \/ j \in threw)
  BY DEF Requests, SettledLeavesNothing, TypeOK
<1>2. /\ \A j \in Jobs : pc'[j] = IF j \in mine /\ pc[j] = "waiting" THEN "failed" ELSE pc[j]
      /\ listeners' = listeners \ mine
  OBVIOUS
<1>3. TypeOK' /\ HostWellFormed'
  BY <1>1 DEF TypeOK, HostWellFormed, lockVars, hostVars
<1>4. LockMaps' /\ Queues'
  BY <1>1, <1>2, KeepQueues DEF HasLock
<1>5. Requests'
  <2>1. /\ aborted'[i] = TRUE /\ \A k \in Impls \ {i} : aborted'[k] = aborted[k]
        /\ \A j \in Jobs : j[1] \in Impls
        /\ UNCHANGED <<calls, streams, threw, via, host>>
        /\ listeners \subseteq Jobs /\ calls \subseteq Jobs /\ streams \subseteq Jobs
        /\ threw \subseteq Jobs
    BY DEF TypeOK, Jobs
  <2> QED
    BY <1>1, <1>2, <2>1 DEF Requests, SettledLeavesNothing
<1>6. Bodies'
  BY <1>1, <1>2 DEF Bodies, hostVars
<1> QED
  BY <1>3, <1>4, <1>5, <1>6

(* Another implementation, and another module, disturb no request.          *)
LEMMA GrowIInv ==
    ASSUME IInv,
           \/ \E i \in Impls : GenerateSyncStreamImplementation(i)
           \/ \E m \in Modules : RegisterModule(m)
    PROVE  IInv'
<1>1. ASSUME NEW i \in Impls, GenerateSyncStreamImplementation(i)
      PROVE  IInv'
  <2>1. TypeOK' /\ LockMaps' /\ Queues'
    BY <1>1, NewImplementation
  <2>2. UNCHANGED <<host, pc, via, aborted, listeners, calls, streams, threw, response, bodyReads>>
    BY <1>1 DEF GenerateSyncStreamImplementation, nativeVars, hostVars
  <2>3. HostWellFormed' /\ Requests' /\ Bodies'
    BY <2>2 DEF IInv, HostWellFormed, Requests, SettledLeavesNothing, Bodies
  <2> QED
    BY <2>1, <2>3 DEF IInv
<1>2. ASSUME NEW m \in Modules, RegisterModule(m)
      PROVE  IInv'
  <2>1. /\ host' = [host EXCEPT !.modules["bare"] = @ \cup {m}]
        /\ UNCHANGED <<lockVars, pc, via, aborted, listeners, calls, streams, threw, response, bodyReads>>
    BY <1>2 DEF RegisterModule, nativeVars, hostVars
  <2>2. /\ host' = [modules |-> [host.modules EXCEPT !["bare"] = @ \cup {m}],
                    httpFetch |-> host.httpFetch, runtime |-> host.runtime,
                    platform |-> host.platform, fetch |-> host.fetch,
                    emitters |-> host.emitters]
    BY <2>1 DEF IInv, HostWellFormed
  <2>3. /\ host'.modules = [host.modules EXCEPT !["bare"] = @ \cup {m}]
        /\ host'.httpFetch = host.httpFetch /\ host'.runtime = host.runtime
        /\ host'.platform = host.platform /\ host'.fetch = host.fetch
        /\ host'.emitters = host.emitters
    BY <2>2
  <2>4. HostWellFormed'
    <3>1. host'.modules \in [ToSet(Places) -> SUBSET Modules]
      BY <2>3 DEF IInv, HostWellFormed
    <3> QED
      BY <2>2, <2>3, <3>1 DEF HostWellFormed
  <2>5. GlobalEventEmitters(host') = GlobalEventEmitters(host)
    BY <2>3 DEF GlobalEventEmitters, Runtime
  <2>6. LockMaps' /\ Queues'
    BY <2>1, KeepQueues
  <2>7. TypeOK' /\ Requests' /\ Bodies'
    BY <2>1, <2>5 DEF IInv, TypeOK, Requests, SettledLeavesNothing, Bodies, lockVars
  <2> QED
    BY <2>4, <2>6, <2>7 DEF IInv
<1> QED
  BY <1>1, <1>2

(* A step that changes nothing.                                             *)
LEMMA StutterIInv ==
    ASSUME IInv, UNCHANGED vars
    PROVE  IInv'
<1>1. LockMaps' /\ Queues'
  BY KeepQueues DEF vars, lockVars
<1> QED
  BY <1>1 DEF vars, IInv, TypeOK, HostWellFormed, Requests, SettledLeavesNothing, Bodies

(* The invariant holds in every reachable state, for any implementations,   *)
(* identifiers and hosts.                                                   *)
THEOREM Inductive == Spec => []IInv
<1>1. Init => IInv
  BY InitIInv
<1>2. IInv /\ [Next]_vars => IInv'
  BY LockIInv, FetchIInv, HostIInv, AbortIInv, GrowIInv, StutterIInv DEF Next, ClientStep
<1> QED
  BY <1>1, <1>2, PTL DEF Spec

-----------------------------------------------------------------------------
(* Every variable keeps its type.                                           *)
THEOREM TypeCorrect == Spec => []TypeOK
<1>1. IInv => TypeOK
  BY DEF IInv
<1> QED
  BY <1>1, Inductive, PTL

(* Two jobs of one type never run under the locks of one identifier at the  *)
(* same time: they queue at one lock, and its holder is the first.          *)
THEOREM Exclusion == Spec => []LocksExclude
<1>1. IInv => LocksExclude
  <2> SUFFICES ASSUME IInv, NEW j \in Jobs, NEW k \in Jobs, j[2] = k[2],
                      Identifier[j[1]] = Identifier[k[1]], Identifier[j[1]] # NoIdentifier,
                      UnderLock(j), UnderLock(k)
               PROVE  j = k
    BY DEF LocksExclude
  <2>1. j[1] \in Impls /\ k[1] \in Impls /\ pc[j] \in HasLock /\ pc[k] \in HasLock
    BY DEF Jobs, UnderLock, HasLock
  <2>2. locks[j[1]] # {} /\ locks[k[1]] # {}
    BY <2>1 DEF IInv, Queues, HasLock
  <2>3. locks[j[1]] = locks[k[1]]
    BY <2>1, <2>2 DEF IInv, LockMaps
  <2>4. LockOf(j) = LockOf(k)
    BY <2>3 DEF LockOf
  <2> QED
    BY <2>1, <2>4 DEF IInv, Queues
<1> QED
  BY <1>1, Inductive, PTL

(* No listener of a settled request stays on a signal, unless its httpFetch *)
(* threw, and no stream stays open unread, where the host has an emitter to *)
(* read from.                                                               *)
THEOREM NothingLeft == Spec => []SettledLeavesNothing
<1>1. IInv => SettledLeavesNothing
  BY DEF IInv, Requests
<1> QED
  BY <1>1, Inductive, PTL

(* The getter of a one-shot body is read at most once.                      *)
THEOREM ReadOnce == Spec => []BodyReadOnce
<1>1. IInv => BodyReadOnce
  BY DEF IInv, Bodies, BodyReadOnce
<1> QED
  BY <1>1, Inductive, PTL
=============================================================================
