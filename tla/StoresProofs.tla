---------------------------- MODULE StoresProofs ----------------------------
(***************************************************************************)
(* Proofs about the stores (MCStores): the runtime event ledger, which     *)
(* implements the append-only log of EventLog, the audit ledgers that copy *)
(* each other's records and their Merkle tree, checkpoints, vector memory, *)
(* long-term memory and the contexts made from it, lessons, deltas,        *)
(* webhooks, metering, the request limiter and accounts.  Every store has  *)
(* state of its own; its invariant is kept by its own steps, and no other  *)
(* step touches its variables.                                             *)
(***************************************************************************)
EXTENDS MCStores, FiniteSetTheorems, SequenceTheorems, WellFoundedInduction, TLAPS

\* A set of positions that is not empty has a last one, and CHOOSE finds it.
LEMMA LastPosition ==
  ASSUME NEW m \in Nat, NEW S \in SUBSET (1 .. m), S # {}
  PROVE  LET last == CHOOSE i \in S : \A j \in S : j <= i
         IN  /\ last \in S
             /\ \A j \in S : j <= last
             /\ \A i \in S : (\A j \in S : j <= i) => i = last
<1> DEFINE T == {m - i : i \in S}
           last == CHOOSE i \in S : \A j \in S : j <= i
<1>1. PICK x \in T : \A y \in T : ~(<<y, x>> \in OpToRel(<, Nat))
  <2>1. T \subseteq Nat
    OBVIOUS
  <2>2. T # {}
    OBVIOUS
  <2> QED BY <2>1, <2>2, NatLessThanWellFounded, WFMin
<1>2. PICK i \in S : x = m - i
  BY <1>1
<1>3. \A j \in S : j <= i
  <2> SUFFICES ASSUME NEW j \in S, j > i PROVE FALSE
    OBVIOUS
  <2>1. m - j \in T /\ m - j \in Nat /\ x \in Nat /\ m - j < x
    BY <1>2
  <2>2. <<m - j, x>> \in OpToRel(<, Nat)
    BY <2>1 DEF OpToRel
  <2> QED BY <1>1, <2>1, <2>2
<1>4. last \in S /\ \A j \in S : j <= last
  BY <1>2, <1>3
<1>5. ASSUME NEW k \in S, \A j \in S : j <= k
      PROVE  k = last
  <2> HIDE DEF last
  <2>1. k <= last /\ last <= k /\ k \in Nat /\ last \in Nat
    BY <1>4, <1>5
  <2> QED BY <2>1
<1> QED BY <1>4, <1>5

-----------------------------------------------------------------------------
(* The runtime events.                                                      *)

\* The recorders of a process share one ledger object, and so one lock.
OneLedgerObject == \A r, q \in Recorders : LedgerOf[r] = LedgerOf[q]

EventRows == [task : LedgerTasks, event : Nat, prev : Seq(Nat), hash : Seq(Nat)]

RecorderStates == [phase : {"rest", "read"}, task : LedgerTasks \cup {<< >>}, prev : Seq(Nat)]

\* A recorder that has read the last hash of its task holds the lock, and the
\* hash is still the last one when it inserts.
ReadersHoldTheLock ==
    /\ \A r \in Recorders : rlRec[r].phase = "read" =>
         /\ LedgerOf[r] \in rlHeld
         /\ rlRec[r].task \in LedgerTasks
         /\ rlRec[r].prev = PreviousHash(rlRec[r].task)
    /\ \A r, q \in Recorders : rlRec[r].phase = "read" /\ rlRec[q].phase = "read" => r = q

\* A hash commits to events that are in the table.
HashesNameRows ==
    \A i \in DOMAIN rlRows : \A j \in DOMAIN rlRows[i].hash : rlRows[i].hash[j] <= Len(rlRows)

EventInv ==
    /\ rlRows \in Seq(EventRows)
    /\ rlRec \in [Recorders -> RecorderStates]
    /\ ReadersHoldTheLock
    /\ HashesNameRows
    /\ EventChainsVerify

LEMMA HashBeforeIs ==
  ASSUME rlRows \in Seq(EventRows), NEW k, NEW n \in 1 .. (Len(rlRows) + 1)
  PROVE  /\ HashBefore(k, n) \in Seq(Nat)
         /\ HashBefore(k, n) = Zero \/ \E i \in DOMAIN rlRows : HashBefore(k, n) = rlRows[i].hash
<1> DEFINE S == EventsBefore(k, n)
           last == CHOOSE i \in S : \A j \in S : j <= i
<1>1. S \in SUBSET (1 .. Len(rlRows)) /\ Len(rlRows) \in Nat
  BY DEF EventsBefore
<1>2. CASE S = {}
  <2>1. HashBefore(k, n) = Zero /\ Zero \in Seq(Nat)
    BY <1>2 DEF HashBefore, Zero
  <2> QED BY <2>1
<1>3. CASE S # {}
  <2>1. last \in S
    BY <1>1, <1>3, LastPosition
  <2>2. HashBefore(k, n) = rlRows[last].hash
    BY <1>3 DEF HashBefore
  <2>3. last \in DOMAIN rlRows /\ rlRows[last] \in EventRows
    BY <1>1, <2>1
  <2> QED BY <2>2, <2>3 DEF EventRows
<1> QED BY <1>2, <1>3

\* A new row changes the last hash of its own task only.
LEMMA RowAppended ==
  ASSUME rlRows \in Seq(EventRows), NEW row \in EventRows, rlRows' = Append(rlRows, row)
  PROVE  /\ \A k, n : n \in 1 .. (Len(rlRows) + 1) => HashBefore(k, n)' = HashBefore(k, n)
         /\ PreviousHash(row.task)' = row.hash
         /\ \A k : k # row.task => PreviousHash(k)' = PreviousHash(k)
<1> PICK L : L = Len(rlRows)
  OBVIOUS
<1>1. /\ L \in Nat /\ rlRows' \in Seq(EventRows) /\ Len(rlRows') = L + 1
      /\ \A i \in 1 .. L : rlRows'[i] = rlRows[i]
      /\ rlRows'[L + 1] = row
  BY AppendProperties
<1>2. \A k, n : n \in 1 .. (L + 1) => EventsBefore(k, n)' = EventsBefore(k, n)
  BY <1>1 DEF EventsBefore
<1>3. ASSUME NEW k, NEW n, EventsBefore(k, n) \in SUBSET (1 .. L),
             NEW q, EventsBefore(k, q)' = EventsBefore(k, n)
      PROVE  HashBefore(k, q)' = HashBefore(k, n)
  <2> DEFINE S == EventsBefore(k, n)
             last == CHOOSE i \in S : \A j \in S : j <= i
  <2>1. CASE S = {}
    BY <1>3, <2>1 DEF HashBefore
  <2>2. CASE S # {}
    <3>1. last \in 1 .. L
      BY <1>1, <1>3, <2>2, LastPosition
    <3>2. HashBefore(k, n) = rlRows[last].hash /\ HashBefore(k, q)' = rlRows'[last].hash
      BY <1>3, <2>2 DEF HashBefore
    <3> QED BY <1>1, <3>1, <3>2
  <2> QED BY <2>1, <2>2
<1>4. \A k, n : n \in 1 .. (L + 1) => HashBefore(k, n)' = HashBefore(k, n)
  <2> SUFFICES ASSUME NEW k, NEW n \in 1 .. (L + 1) PROVE HashBefore(k, n)' = HashBefore(k, n)
    OBVIOUS
  <2>1. EventsBefore(k, n) \in SUBSET (1 .. L)
    BY <1>1 DEF EventsBefore
  <2> QED BY <1>2, <1>3, <2>1
<1>5. \A k : k # row.task => PreviousHash(k)' = PreviousHash(k)
  <2> SUFFICES ASSUME NEW k, k # row.task PROVE PreviousHash(k)' = PreviousHash(k)
    OBVIOUS
  <2>1. EventsBefore(k, L + 1) \in SUBSET (1 .. L)
    BY <1>1 DEF EventsBefore
  <2>2. EventsBefore(k, L + 2)' = EventsBefore(k, L + 1)
    BY <1>1 DEF EventsBefore
  <2>3. HashBefore(k, L + 2)' = HashBefore(k, L + 1)
    BY <1>3, <2>1, <2>2
  <2>4. PreviousHash(k)' = HashBefore(k, L + 2)'
    <3>1. Len(rlRows)' + 1 = L + 2
      BY <1>1
    <3> QED BY <3>1 DEF PreviousHash
  <2> QED BY <2>3, <2>4 DEF PreviousHash
<1>6. PreviousHash(row.task)' = row.hash
  <2> DEFINE S == EventsBefore(row.task, L + 2)'
             last == CHOOSE i \in S : \A j \in S : j <= i
  <2>1. S \in SUBSET (1 .. (L + 1)) /\ L + 1 \in S /\ \A j \in S : j <= L + 1
    BY <1>1 DEF EventsBefore
  <2>2. last = L + 1
    BY <1>1, <2>1, LastPosition
  <2>3. PreviousHash(row.task)' = rlRows'[last].hash
    <3>1. EventsBefore(row.task, Len(rlRows) + 1)' = S
      BY <1>1 DEF EventsBefore
    <3> QED BY <2>1, <3>1 DEF PreviousHash, HashBefore
  <2> QED BY <1>1, <2>2, <2>3
<1> QED BY <1>4, <1>5, <1>6

LEMMA EventsStart ==
  ASSUME RlInit
  PROVE  EventInv
<1>1. rlRows = << >> /\ rlRec = [r \in Recorders |-> Resting]
  BY DEF RlInit
<1>2. rlRows \in Seq(EventRows) /\ Len(rlRows) = 0
  BY <1>1
<1>3. Resting \in RecorderStates /\ Resting.phase # "read"
  BY DEF Resting, RecorderStates, Zero
<1>4. rlRec \in [Recorders -> RecorderStates] /\ ReadersHoldTheLock
  BY <1>1, <1>3 DEF ReadersHoldTheLock
<1>5. HashesNameRows /\ EventChainsVerify
  BY <1>1, <1>2 DEF HashesNameRows, EventChainsVerify, ChainVerifies, EventsBefore
<1> QED BY <1>2, <1>4, <1>5 DEF EventInv

LEMMA EventsStay ==
  ASSUME EventInv, UNCHANGED << rlRows, rlRec, rlHeld >>
  PROVE  EventInv' /\ \A k : PreviousHash(k)' = PreviousHash(k)
<1>1. \A k, n : EventsBefore(k, n)' = EventsBefore(k, n) /\ HashBefore(k, n)' = HashBefore(k, n)
  BY DEF EventsBefore, HashBefore
<1>2. \A k : PreviousHash(k)' = PreviousHash(k) /\ ChainVerifies(k)' = ChainVerifies(k)
  BY <1>1 DEF PreviousHash, ChainVerifies
<1>3. ReadersHoldTheLock' /\ HashesNameRows' /\ EventChainsVerify'
  BY <1>2 DEF EventInv, ReadersHoldTheLock, HashesNameRows, EventChainsVerify
<1> QED BY <1>2, <1>3 DEF EventInv

\* A recorder that gives up, or has inserted, rests and has released the lock;
\* nobody else was reading.
LEMMA RecorderRests ==
  ASSUME EventInv, OneLedgerObject, NEW r \in Recorders, rlRec[r].phase = "read",
         rlRec' = [rlRec EXCEPT ![r] = Resting]
  PROVE  rlRec' \in [Recorders -> RecorderStates] /\ ReadersHoldTheLock'
<1>1. Resting \in RecorderStates /\ Resting.phase # "read"
  BY DEF Resting, RecorderStates, Zero
<1>2. rlRec' \in [Recorders -> RecorderStates]
  BY <1>1 DEF EventInv
<1>3. \A q \in Recorders : rlRec'[q].phase # "read"
  BY <1>1, <1>2 DEF EventInv, ReadersHoldTheLock
<1> QED BY <1>2, <1>3 DEF ReadersHoldTheLock

LEMMA LockAndReadKeeps ==
  ASSUME EventInv, OneLedgerObject, NEW r \in Recorders, NEW k \in LedgerTasks, LockAndRead(r, k)
  PROVE  EventInv' /\ \A x : PreviousHash(x)' = PreviousHash(x)
<1> DEFINE rec == [phase |-> "read", task |-> k, prev |-> PreviousHash(k)]
<1>1. /\ rlRec[r].phase = "rest" /\ LedgerOf[r] \notin rlHeld /\ rlRows' = rlRows
      /\ rlHeld' = rlHeld \cup {LedgerOf[r]} /\ rlRec' = [rlRec EXCEPT ![r] = rec]
  BY DEF LockAndRead, Locked
<1>2. \A x, n : EventsBefore(x, n)' = EventsBefore(x, n) /\ HashBefore(x, n)' = HashBefore(x, n)
  BY <1>1 DEF EventsBefore, HashBefore
<1>3. \A x : PreviousHash(x)' = PreviousHash(x) /\ ChainVerifies(x)' = ChainVerifies(x)
  BY <1>1, <1>2 DEF PreviousHash, ChainVerifies
<1>4. PreviousHash(k) \in Seq(Nat)
  <2>1. Len(rlRows) + 1 \in 1 .. (Len(rlRows) + 1)
    BY DEF EventInv
  <2> QED BY <2>1, HashBeforeIs DEF EventInv, PreviousHash
<1>5. rec \in RecorderStates
  BY <1>4 DEF RecorderStates
<1>6. rlRec' \in [Recorders -> RecorderStates] /\ rlRec'[r] = rec
      /\ \A q \in Recorders : q # r => rlRec'[q] = rlRec[q]
  BY <1>1, <1>5 DEF EventInv
<1>7. \A q \in Recorders : q # r => rlRec[q].phase # "read"
  BY <1>1 DEF EventInv, ReadersHoldTheLock, OneLedgerObject
<1>8. ReadersHoldTheLock'
  BY <1>1, <1>3, <1>6, <1>7 DEF ReadersHoldTheLock
<1>9. HashesNameRows' /\ EventChainsVerify'
  BY <1>1, <1>3 DEF EventInv, HashesNameRows, EventChainsVerify
<1> QED BY <1>1, <1>3, <1>6, <1>8, <1>9 DEF EventInv

\* AddEvent of EventLog, from one value of its history to the next.
Adds(hist, next, k) ==
    /\ Len(next[k]) = Len(hist[k]) + 1
    /\ LET e == next[k][Len(hist[k]) + 1]
       IN  /\ e \in Nat
           /\ \A j \in LedgerTasks : \A i \in DOMAIN hist[j] : hist[j][i] # e
           /\ next = [hist EXCEPT ![k] = Append(@, e)]

LEMMA EventAdded ==
  ASSUME NEW hist, NEW next, NEW k, NEW e \in Nat,
         Len(next[k]) = Len(hist[k]) + 1, next[k][Len(hist[k]) + 1] = e,
         \A j \in LedgerTasks : \A i \in DOMAIN hist[j] : hist[j][i] # e,
         next = [hist EXCEPT ![k] = Append(hist[k], e)]
  PROVE  Adds(hist, next, k)
<1> PICK e2 : e2 = next[k][Len(hist[k]) + 1]
  OBVIOUS
<1>1. e2 = e
  OBVIOUS
<1>2. next = [hist EXCEPT ![k] = Append(hist[k], e2)]
  BY <1>1
<1>3. next = [hist EXCEPT ![k] = Append(@, e2)]
  BY <1>2
<1> QED BY <1>1, <1>3 DEF Adds

\* The inserted event is new to every history and extends that of its task.
LEMMA InsertEventKeeps ==
  ASSUME EventInv, OneLedgerObject, NEW r \in Recorders, InsertEvent(r)
  PROVE  EventInv' /\ Log!LogNext
<1> PICK L : L = Len(rlRows)
  OBVIOUS
<1> PICK k : k = rlRec[r].task
  OBVIOUS
<1> PICK prev : prev = rlRec[r].prev
  OBVIOUS
<1> PICK row : row = [task |-> k, event |-> L + 1, prev |-> prev, hash |-> Append(prev, L + 1)]
  OBVIOUS
<1>1. /\ rlRec[r].phase = "read" /\ rlRows' = Append(rlRows, row)
      /\ rlRec' = [rlRec EXCEPT ![r] = Resting]
  BY DEF InsertEvent, HashOf
<1>2. /\ k \in LedgerTasks /\ prev = PreviousHash(k) /\ prev \in Seq(Nat) /\ L \in Nat
      /\ rlRows \in Seq(EventRows)
  BY <1>1 DEF EventInv, ReadersHoldTheLock, RecorderStates
<1>3. Append(prev, L + 1) \in Seq(Nat) /\ Len(Append(prev, L + 1)) = Len(prev) + 1
      /\ Append(prev, L + 1)[Len(prev) + 1] = L + 1
      /\ \A j \in 1 .. Len(prev) : Append(prev, L + 1)[j] = prev[j]
  BY <1>2, AppendProperties
<1>4. row \in EventRows
  BY <1>2, <1>3 DEF EventRows
<1>5. row.task = k /\ row.event = L + 1 /\ row.prev = prev /\ row.hash = Append(prev, L + 1)
  OBVIOUS
<1>6. /\ rlRows' \in Seq(EventRows) /\ Len(rlRows') = L + 1 /\ rlRows'[L + 1] = row
      /\ \A i \in 1 .. L : rlRows'[i] = rlRows[i]
  BY <1>1, <1>2, <1>4, AppendProperties
<1>7. /\ \A x, n : n \in 1 .. (L + 1) => HashBefore(x, n)' = HashBefore(x, n)
      /\ PreviousHash(k)' = Append(prev, L + 1)
      /\ \A x : x # k => PreviousHash(x)' = PreviousHash(x)
  BY <1>1, <1>2, <1>4, <1>5, RowAppended
<1>8. EventChainsVerify'
  <2> SUFFICES ASSUME NEW x \in LedgerTasks, NEW i \in 1 .. (L + 1), rlRows'[i].task = x
               PROVE  rlRows'[i].prev = HashBefore(x, i)'
                      /\ rlRows'[i].hash = HashOf(rlRows'[i].prev, rlRows'[i].event)
    BY <1>2, <1>6 DEF EventChainsVerify, ChainVerifies, EventsBefore
  <2>1. HashBefore(x, i)' = HashBefore(x, i)
    BY <1>7
  <2>2. CASE i = L + 1
    BY <1>2, <1>5, <1>6, <2>1, <2>2 DEF PreviousHash, HashOf
  <2>3. CASE i \in 1 .. L
    BY <1>2, <1>6, <2>1, <2>3 DEF EventInv, EventChainsVerify, ChainVerifies, EventsBefore
  <2> QED BY <1>2, <2>2, <2>3
<1>9. \A x \in LedgerTasks : \A j \in DOMAIN PreviousHash(x) : PreviousHash(x)[j] <= L
  <2> SUFFICES ASSUME NEW x \in LedgerTasks, NEW j \in DOMAIN PreviousHash(x)
               PROVE  PreviousHash(x)[j] <= L
    OBVIOUS
  <2>1. Len(rlRows) + 1 \in 1 .. (Len(rlRows) + 1)
    BY <1>2
  <2>2. PreviousHash(x) = Zero \/ \E i \in DOMAIN rlRows : PreviousHash(x) = rlRows[i].hash
    BY <1>2, <2>1, HashBeforeIs DEF PreviousHash
  <2> QED BY <2>2 DEF Zero, EventInv, HashesNameRows
<1>10. HashesNameRows'
  <2> SUFFICES ASSUME NEW i \in 1 .. (L + 1), NEW j \in DOMAIN rlRows'[i].hash
               PROVE  rlRows'[i].hash[j] <= L + 1
    BY <1>2, <1>6 DEF HashesNameRows
  <2>1. rlRows'[i].hash \in Seq(Nat)
    <3>1. rlRows'[i] \in EventRows
      BY <1>2, <1>6
    <3> QED BY <3>1 DEF EventRows
  <2>4. rlRows'[i].hash[j] \in Nat
    BY <2>1
  <2>2. CASE i = L + 1
    <3>1. rlRows'[i].hash = Append(prev, L + 1) /\ j \in 1 .. (Len(prev) + 1)
      BY <1>3, <1>5, <1>6, <2>2
    <3>2. \A y \in 1 .. Len(prev) : prev[y] <= L /\ prev[y] \in Nat
      BY <1>2, <1>9
    <3>3. CASE j = Len(prev) + 1
      BY <1>2, <1>3, <3>1, <3>3
    <3>4. CASE j \in 1 .. Len(prev)
      <4>1. Append(prev, L + 1)[j] = prev[j]
        BY <1>3, <3>4
      <4> QED BY <1>2, <3>1, <3>2, <3>4, <4>1
    <3>5. Len(prev) \in Nat
      BY <1>2
    <3> QED BY <3>1, <3>3, <3>4, <3>5
  <2>3. CASE i \in 1 .. L
    <3>1. rlRows'[i] = rlRows[i] /\ i \in DOMAIN rlRows
      BY <1>2, <1>6, <2>3
    <3>2. rlRows'[i].hash[j] <= L
      BY <3>1 DEF EventInv, HashesNameRows
    <3> QED BY <1>2, <2>4, <3>2
  <2> QED BY <1>2, <2>2, <2>3
<1>11. EventInv'
  BY <1>1, <1>6, <1>8, <1>10, RecorderRests DEF EventInv
<1>12. Log!AddEvent(k)
  <2> PICK hist : hist = [x \in LedgerTasks |-> PreviousHash(x)]
    OBVIOUS
  <2> PICK next : next = [x \in LedgerTasks |-> PreviousHash(x)]'
    OBVIOUS
  <2>1. hist[k] = prev /\ next[k] = Append(prev, L + 1)
    BY <1>2, <1>7
  <2>2. next = [hist EXCEPT ![k] = Append(hist[k], L + 1)]
    BY <1>2, <1>7, <2>1
  <2>3. Len(next[k]) = Len(hist[k]) + 1 /\ next[k][Len(hist[k]) + 1] = L + 1
    BY <1>3, <2>1
  <2>4. \A x \in LedgerTasks : \A j \in DOMAIN hist[x] : hist[x][j] # L + 1
    <3> SUFFICES ASSUME NEW x \in LedgerTasks, NEW j \in DOMAIN PreviousHash(x)
                 PROVE  PreviousHash(x)[j] # L + 1
      OBVIOUS
    <3>1. PreviousHash(x)[j] <= L
      BY <1>9
    <3>2. PreviousHash(x) \in Seq(Nat)
      <4>1. Len(rlRows) + 1 \in 1 .. (Len(rlRows) + 1)
        BY <1>2
      <4> QED BY <1>2, <4>1, HashBeforeIs DEF PreviousHash
    <3>3. PreviousHash(x)[j] \in Nat
      BY <3>2
    <3> QED BY <1>2, <3>1, <3>3
  <2>5. L + 1 \in Nat
    BY <1>2
  <2>6. Adds(hist, next, k)
    <3> PICK e : e = L + 1
      OBVIOUS
    <3>1. e \in Nat /\ Len(next[k]) = Len(hist[k]) + 1 /\ next[k][Len(hist[k]) + 1] = e
      BY <2>3, <2>5
    <3>2. \A x \in LedgerTasks : \A j \in DOMAIN hist[x] : hist[x][j] # e
      BY <2>4
    <3>3. next = [hist EXCEPT ![k] = Append(hist[k], e)]
      BY <2>2
    <3> HIDE DEF Adds
    <3> QED BY ONLY <3>1, <3>2, <3>3, EventAdded
  <2>7. Adds([x \in LedgerTasks |-> PreviousHash(x)], [x \in LedgerTasks |-> PreviousHash(x)]', k)
    BY <2>6
  <2> QED BY <2>7 DEF Log!AddEvent, Adds
<1> QED BY <1>2, <1>11, <1>12 DEF Log!LogNext

-----------------------------------------------------------------------------
LEMMA EventStepKeeps ==
  ASSUME EventInv, OneLedgerObject, RlNext
  PROVE  EventInv' /\ (Log!LogNext \/ \A x : PreviousHash(x)' = PreviousHash(x))
<1>1. ASSUME NEW r \in Recorders, InsertFails(r)
      PROVE  EventInv' /\ \A x : PreviousHash(x)' = PreviousHash(x)
  <2>1. rlRec[r].phase = "read" /\ rlRec' = [rlRec EXCEPT ![r] = Resting] /\ rlRows' = rlRows
    BY <1>1 DEF InsertFails
  <2>2. \A x, n : EventsBefore(x, n)' = EventsBefore(x, n) /\ HashBefore(x, n)' = HashBefore(x, n)
    BY <2>1 DEF EventsBefore, HashBefore
  <2>3. \A x : PreviousHash(x)' = PreviousHash(x) /\ ChainVerifies(x)' = ChainVerifies(x)
    BY <2>1, <2>2 DEF PreviousHash, ChainVerifies
  <2>4. HashesNameRows' /\ EventChainsVerify'
    BY <2>1, <2>3 DEF EventInv, HashesNameRows, EventChainsVerify
  <2>5. rlRec' \in [Recorders -> RecorderStates] /\ ReadersHoldTheLock'
    BY <2>1, RecorderRests
  <2> QED BY <2>1, <2>3, <2>4, <2>5 DEF EventInv
<1>2. CASE SaveBegins \/ SaveEnds \/ SaveInterrupted \/ LoadCheckpoint
  <2>1. UNCHANGED << rlRows, rlRec, rlHeld >>
    BY <1>2 DEF SaveBegins, SaveEnds, SaveInterrupted, LoadCheckpoint
  <2> QED BY <2>1, EventsStay
<1> QED BY <1>1, <1>2, InsertEventKeeps, LockAndReadKeeps DEF RlNext

LEMMA EventsInStores ==
  ASSUME EventInv, OneLedgerObject, [Next]_mcVars
  PROVE  EventInv' /\ (Log!LogNext \/ \A x : PreviousHash(x)' = PreviousHash(x))
<1>1. RlNext \/ UNCHANGED << rlRows, rlRec, rlHeld >>
  BY DEF Next, mcVars, hashes, rlVars, MerkleStep, AuditStep, EventStep, AccountStep, WebhookStep,
         MeteringStep, LimiterStep, DeltaStep, MemoryStep, RetrievalStep, LessonStep, VectorStep
<1> QED BY <1>1, EventStepKeeps, EventsStay

\* Through one ledger object the event chain of every task verifies at every
\* moment, however the recorders of several tasks interleave and whichever
\* inserts fail (record_event, verify_chain_integrity).
THEOREM StoresEventChainsVerify ==
  ASSUME OneLedgerObject
  PROVE  Spec => []EventChainsVerify
<1>1. Init => EventInv
  BY EventsStart DEF Init
<1>2. EventInv /\ [Next]_mcVars => EventInv'
  BY EventsInStores
<1>3. EventInv => EventChainsVerify
  BY DEF EventInv
<1> QED BY <1>1, <1>2, <1>3, PTL DEF Spec

\* The runtime event ledger implements the append-only log: every step of it
\* adds one new event to the history of one task, or leaves all histories as
\* they are.
THEOREM StoresImplementEventLog ==
  ASSUME OneLedgerObject
  PROVE  Spec => ImplementsEventLog
<1>1. Init => EventInv /\ Log!LogInit
  <2> SUFFICES ASSUME Init PROVE EventInv /\ Log!LogInit
    OBVIOUS
  <2>1. rlRows = << >> /\ EventInv
    BY EventsStart DEF Init, RlInit
  <2>2. \A k : EventsBefore(k, Len(rlRows) + 1) = {}
    BY <2>1 DEF EventsBefore
  <2>3. \A k : PreviousHash(k) = << >>
    BY <2>2 DEF PreviousHash, HashBefore, Zero
  <2> QED BY <2>1, <2>3 DEF Log!LogInit
<1>2. EventInv /\ [Next]_mcVars => EventInv' /\ [Log!LogNext]_([k \in LedgerTasks |-> PreviousHash(k)])
  <2> SUFFICES ASSUME EventInv, [Next]_mcVars
               PROVE  EventInv' /\ [Log!LogNext]_([k \in LedgerTasks |-> PreviousHash(k)])
    OBVIOUS
  <2>1. EventInv' /\ (Log!LogNext \/ \A x : PreviousHash(x)' = PreviousHash(x))
    BY EventsInStores
  <2> QED BY <2>1
<1> QED BY <1>1, <1>2, PTL DEF Spec, ImplementsEventLog, Log!LogSpec

-----------------------------------------------------------------------------
(* The audit ledgers.                                                       *)

\* Two ledgers are the same up to a row.
Agree(c, d, k) == \A x \in 1 .. k : c[x] = d[x]

\* Record r is, or is about to be, the row with id i: of a ledger, in a
\* response on its way, or in a merge that has not come to it yet.
Placed(i, r) ==
    \/ \E n \in Replicas : i \in 1 .. Len(chain[n]) /\ r = chain[n][i]
    \/ \E m \in auditNet : m.type = "logs_response"
         /\ \E k \in 1 .. Len(m.logs) : i = m.id + k - 1 /\ r = m.logs[k]
    \/ \E n \in Replicas : daemon[n].at = "merge"
         /\ \E k \in 1 .. Len(daemon[n].rest) : i = daemon[n].id + k - 1 /\ r = daemon[n].rest[k]

\* A hash is drawn for one row id, and what it is chained to has the id before.
WellPlaced ==
    /\ \A i, r : Placed(i, r) => /\ i \in Nat \ {0} /\ r \in AuditRecords
                                 /\ r.hash \in 1 .. drawn /\ r.prev \in 0 .. drawn
    /\ \A i, r, j, s : Placed(i, r) /\ Placed(j, s) =>
         (r.hash = s.hash => i = j) /\ (r.prev = s.hash => i = j + 1)

PeerStatuses == {"unknown", "synchronized", "peer_ahead", "local_ahead"}

LedgerTypes ==
    /\ chain \in [Replicas -> Seq(AuditRecords)]
    /\ \A n \in Replicas : Len(chain[n]) <= MaxRecords
    /\ drawn \in Nat

RequestTypes ==
    /\ pending \in [Replicas -> SUBSET (Replicas \X (0 .. MaxRecords))]
    /\ peerStates \in [Replicas -> [Replicas -> PeerStatuses]]

\* Ledgers have not been shorter than what a message says or asks of them.
MessageFits(m) ==
    /\ m.to \in Replicas /\ m.from \in Replicas \ {m.to}
    /\ m.type = "sync_ping" => m.count \in Nat /\ m.count <= Len(chain[m.from])
    /\ m.type = "logs_request" =>
         m.after \in Nat /\ m.after < Len(chain[m.to]) /\ m.after <= Len(chain[m.from])
    /\ m.type = "logs_response" =>
         /\ m.id \in Nat \ {0} /\ m.logs \in Seq(AuditRecords) /\ m.logs # << >>
         /\ m.id <= Len(chain[m.to]) + 1
         /\ m.id + Len(m.logs) - 1 <= Len(chain[m.from])

\* Nor has a handler d of node n read more than there is; and a merge inserts
\* after every row that it listed.
HandlerFits(n, d) ==
    /\ d.at = "ping" =>
         /\ d.from \in Replicas \ {n}
         /\ d.count \in Nat /\ d.count <= Len(chain[d.from])
    /\ d.at = "merge" =>
         /\ d.from \in Replicas \ {n} /\ d.id \in Nat \ {0} /\ d.rest \in Seq(AuditRecords)
         /\ d.id <= Len(chain[n]) + 1
         /\ d.id + Len(d.rest) - 1 <= Len(chain[d.from])
         /\ \A x \in d.read : x \in Nat /\ x < d.id

HealFits(h) ==
    /\ h.node \in Replicas /\ h.from \in Replicas \ {h.node} /\ h.upTo \in Nat
    /\ h.upTo <= Len(chain[h.node]) /\ h.upTo <= Len(chain[h.from])

\* What holds of the ledgers whatever a merge has overwritten.
LedgersFit ==
    /\ LedgerTypes /\ RequestTypes /\ WellPlaced
    /\ DOMAIN daemon = Replicas
    /\ \A m \in auditNet : MessageFits(m)
    /\ \A n \in Replicas : HandlerFits(n, daemon[n])
    /\ \A h \in healed : HealFits(h)

\* A hash stands for its row and everything before it, in whichever ledger.
SharesPast(c, d) ==
    \A i \in 1 .. Len(c), j \in 1 .. Len(d) : c[i].hash = d[j].hash => i = j /\ Agree(c, d, i)

\* Rows that were read from ledger d, from id on.
CopyOf(logs, id, d) == \A i \in 1 .. Len(logs) : logs[i] = d[id + i - 1]

MessageCopies(m) == m.type = "logs_response" => CopyOf(m.logs, m.id, chain[m.from])

HandlerCopies(n, d) ==
    d.at = "merge" =>
        /\ CopyOf(d.rest, d.id, chain[d.from])
        /\ Agree(chain[n], chain[d.from], d.id - 1)

\* What holds until a merge replaces a row by another one.
LedgersMatch ==
    /\ \A n \in Replicas : VerifyChainIntegrity(chain[n])
    /\ \A n, p \in Replicas : SharesPast(chain[n], chain[p])
    /\ \A m \in auditNet : MessageCopies(m)
    /\ \A n \in Replicas : HandlerCopies(n, daemon[n])
    /\ \A h \in healed : Agree(chain[h.node], chain[h.from], h.upTo)

AuditInv == overwritten \in BOOLEAN /\ LedgersFit /\ (~overwritten => LedgersMatch)

\* Ledgers only get longer; and their rows stay.
LedgersLengthen == \A n \in Replicas : Len(chain[n]) <= Len(chain'[n])
RowsStay == \A n \in Replicas : Agree(chain[n], chain'[n], Len(chain[n]))

\* get_logs lists no more rows than there are.
LEMMA SomeLogs ==
  ASSUME NEW c \in Seq(AuditRecords)
  PROVE  /\ LogCount(c) \in Nat /\ LogCount(c) <= Len(c)
         /\ Logs(c) # {} => \E p \in Logs(c) : /\ \A x \in Logs(c) : x <= p
                                               /\ LastLogHash(c) = c[p].hash
<1>1. Len(c) \in Nat /\ Logs(c) \subseteq 1 .. Len(c)
  BY DEF Logs
<1>2. IsFiniteSet(1 .. Len(c)) /\ Cardinality(1 .. Len(c)) = Len(c)
  <2>1. 1 \in Int /\ Len(c) \in Int
    BY <1>1
  <2>2. /\ IsFiniteSet(1 .. Len(c))
        /\ Cardinality(1 .. Len(c)) = IF 1 > Len(c) THEN 0 ELSE Len(c) - 1 + 1
    BY <2>1, FS_Interval
  <2> QED BY <1>1, <2>2
<1>3. IsFiniteSet(Logs(c)) /\ Cardinality(Logs(c)) <= Len(c)
  BY <1>1, <1>2, FS_Subset
<1>4. LogCount(c) \in Nat /\ LogCount(c) <= Len(c)
  BY <1>3, FS_CardinalityType DEF LogCount
<1>5. ASSUME Logs(c) # {}
      PROVE  \E p \in Logs(c) : (\A x \in Logs(c) : x <= p) /\ LastLogHash(c) = c[p].hash
  <2> PICK S : S = Logs(c)
    OBVIOUS
  <2> DEFINE last == CHOOSE i \in S : \A j \in S : j <= i
  <2>1. last \in S /\ \A j \in S : j <= last
    BY <1>1, <1>5, LastPosition
  <2>2. LastLogHash(c) = c[last].hash
    BY <1>5 DEF LastLogHash
  <2> HIDE DEF last
  <2> QED BY <2>1, <2>2
<1> QED BY <1>4, <1>5

-----------------------------------------------------------------------------
\* What is known stays known while ledgers lengthen, and keep their rows.
LEMMA FitsStay ==
  ASSUME LedgerTypes, LedgerTypes', LedgersLengthen
  PROVE  /\ \A m : MessageFits(m) => MessageFits(m)'
         /\ \A n \in Replicas : \A d : HandlerFits(n, d) => HandlerFits(n, d)'
         /\ \A h : HealFits(h) => HealFits(h)'
<1>1. \A n \in Replicas : Len(chain[n]) \in Nat /\ Len(chain'[n]) \in Nat /\ Len(chain[n]) <= Len(chain'[n])
  BY DEF LedgerTypes, LedgersLengthen
<1>2. ASSUME NEW m, MessageFits(m)
      PROVE  MessageFits(m)'
  <2>1. m.to \in Replicas /\ m.from \in Replicas \ {m.to}
    BY <1>2 DEF MessageFits
  <2>2. m.type = "sync_ping" => m.count \in Nat /\ m.count <= Len(chain'[m.from])
    BY <1>1, <1>2, <2>1 DEF MessageFits
  <2>3. m.type = "logs_request" =>
          m.after \in Nat /\ m.after < Len(chain'[m.to]) /\ m.after <= Len(chain'[m.from])
    BY <1>1, <1>2, <2>1 DEF MessageFits
  <2>4. m.type = "logs_response" =>
          /\ m.id \in Nat \ {0} /\ m.logs \in Seq(AuditRecords) /\ m.logs # << >>
          /\ m.id <= Len(chain'[m.to]) + 1
          /\ m.id + Len(m.logs) - 1 <= Len(chain'[m.from])
    <3> SUFFICES ASSUME m.type = "logs_response"
                 PROVE  /\ m.id \in Nat \ {0} /\ m.logs \in Seq(AuditRecords) /\ m.logs # << >>
                        /\ m.id <= Len(chain'[m.to]) + 1
                        /\ m.id + Len(m.logs) - 1 <= Len(chain'[m.from])
      OBVIOUS
    <3>1. /\ m.id \in Nat \ {0} /\ m.logs \in Seq(AuditRecords) /\ m.logs # << >>
          /\ m.id <= Len(chain[m.to]) + 1 /\ m.id + Len(m.logs) - 1 <= Len(chain[m.from])
      BY <1>2 DEF MessageFits
    <3> PICK k : k = Len(m.logs)
      OBVIOUS
    <3>2. /\ k \in Nat /\ Len(chain[m.to]) <= Len(chain'[m.to]) /\ Len(chain[m.from]) <= Len(chain'[m.from])
          /\ Len(chain[m.to]) \in Nat /\ Len(chain[m.from]) \in Nat
          /\ Len(chain'[m.to]) \in Nat /\ Len(chain'[m.from]) \in Nat
      BY <1>1, <2>1, <3>1
    <3>3. m.id \in Nat /\ m.id <= Len(chain[m.to]) + 1 /\ m.id + k - 1 <= Len(chain[m.from])
      BY <3>1
    <3>4. m.id <= Len(chain'[m.to]) + 1
      BY ONLY <3>2, <3>3
    <3>5. m.id + k - 1 <= Len(chain'[m.from])
      BY ONLY <3>2, <3>3
    <3> QED BY <3>1, <3>4, <3>5
  <2> QED BY <2>1, <2>2, <2>3, <2>4 DEF MessageFits
<1>3. ASSUME NEW n \in Replicas, NEW d, HandlerFits(n, d)
      PROVE  HandlerFits(n, d)'
  <2>1. d.at = "ping" =>
          d.from \in Replicas \ {n} /\ d.count \in Nat /\ d.count <= Len(chain'[d.from])
    BY <1>1, <1>3 DEF HandlerFits
  <2>2. d.at = "merge" =>
          /\ d.from \in Replicas \ {n} /\ d.id \in Nat \ {0} /\ d.rest \in Seq(AuditRecords)
          /\ d.id <= Len(chain'[n]) + 1
          /\ d.id + Len(d.rest) - 1 <= Len(chain'[d.from])
          /\ \A x \in d.read : x \in Nat /\ x < d.id
    <3> SUFFICES ASSUME d.at = "merge"
                 PROVE  /\ d.from \in Replicas \ {n} /\ d.id \in Nat \ {0} /\ d.rest \in Seq(AuditRecords)
                        /\ d.id <= Len(chain'[n]) + 1
                        /\ d.id + Len(d.rest) - 1 <= Len(chain'[d.from])
                        /\ \A x \in d.read : x \in Nat /\ x < d.id
      OBVIOUS
    <3>1. /\ d.from \in Replicas \ {n} /\ d.id \in Nat \ {0} /\ d.rest \in Seq(AuditRecords)
          /\ d.id <= Len(chain[n]) + 1 /\ d.id + Len(d.rest) - 1 <= Len(chain[d.from])
          /\ \A x \in d.read : x \in Nat /\ x < d.id
      BY <1>3 DEF HandlerFits
    <3> PICK k : k = Len(d.rest)
      OBVIOUS
    <3>2. /\ k \in Nat /\ Len(chain[n]) <= Len(chain'[n]) /\ Len(chain[d.from]) <= Len(chain'[d.from])
          /\ Len(chain[n]) \in Nat /\ Len(chain[d.from]) \in Nat
          /\ Len(chain'[n]) \in Nat /\ Len(chain'[d.from]) \in Nat
      BY <1>1, <3>1
    <3>3. d.id \in Nat /\ d.id <= Len(chain[n]) + 1 /\ d.id + k - 1 <= Len(chain[d.from])
      BY <3>1
    <3>4. d.id <= Len(chain'[n]) + 1 /\ d.id + k - 1 <= Len(chain'[d.from])
      BY ONLY <3>2, <3>3
    <3> QED BY <3>1, <3>4
  <2> QED BY <2>1, <2>2 DEF HandlerFits
<1>4. ASSUME NEW h, HealFits(h)
      PROVE  HealFits(h)'
  BY <1>1, <1>4 DEF HealFits
<1> QED BY <1>2, <1>3, <1>4

LEMMA CopiesStay ==
  ASSUME LedgerTypes, LedgerTypes', LedgersLengthen, RowsStay
  PROVE  /\ \A m : MessageFits(m) /\ MessageCopies(m) => MessageCopies(m)'
         /\ \A n \in Replicas : \A d : HandlerFits(n, d) /\ HandlerCopies(n, d) => HandlerCopies(n, d)'
         /\ \A h : HealFits(h) /\ Agree(chain[h.node], chain[h.from], h.upTo)
                     => Agree(chain'[h.node], chain'[h.from], h.upTo)
<1>1. \A n \in Replicas : Len(chain[n]) \in Nat /\ Len(chain'[n]) \in Nat /\ Len(chain[n]) <= Len(chain'[n])
  BY DEF LedgerTypes, LedgersLengthen
<1>2. ASSUME NEW p \in Replicas, NEW id \in Nat \ {0}, NEW logs \in Seq(AuditRecords),
             id + Len(logs) - 1 <= Len(chain[p]), CopyOf(logs, id, chain[p])
      PROVE  CopyOf(logs, id, chain'[p])
  <2> SUFFICES ASSUME NEW i \in 1 .. Len(logs) PROVE logs[i] = chain'[p][id + i - 1]
    BY DEF CopyOf
  <2>1. Len(logs) \in Nat /\ id + i - 1 \in 1 .. Len(chain[p])
    BY <1>1, <1>2
  <2>2. chain'[p][id + i - 1] = chain[p][id + i - 1]
    BY <2>1 DEF RowsStay, Agree
  <2> QED BY <1>2, <2>2 DEF CopyOf
<1>3. ASSUME NEW n \in Replicas, NEW p \in Replicas, NEW k \in Nat,
             k <= Len(chain[n]), k <= Len(chain[p]), Agree(chain[n], chain[p], k)
      PROVE  Agree(chain'[n], chain'[p], k)
  <2> SUFFICES ASSUME NEW x \in 1 .. k PROVE chain'[n][x] = chain'[p][x]
    BY DEF Agree
  <2>1. x \in 1 .. Len(chain[n]) /\ x \in 1 .. Len(chain[p])
    BY <1>1, <1>3
  <2> QED BY <1>3, <2>1 DEF RowsStay, Agree
<1>4. ASSUME NEW m, MessageFits(m), MessageCopies(m)
      PROVE  MessageCopies(m)'
  BY <1>2, <1>4 DEF MessageFits, MessageCopies
<1>5. ASSUME NEW n \in Replicas, NEW d, HandlerFits(n, d), HandlerCopies(n, d)
      PROVE  HandlerCopies(n, d)'
  <2> SUFFICES ASSUME d.at = "merge"
               PROVE  CopyOf(d.rest, d.id, chain'[d.from]) /\ Agree(chain'[n], chain'[d.from], d.id - 1)
    BY DEF HandlerCopies
  <2>1. /\ d.from \in Replicas \ {n} /\ d.id \in Nat \ {0} /\ d.rest \in Seq(AuditRecords)
        /\ d.id <= Len(chain[n]) + 1 /\ d.id + Len(d.rest) - 1 <= Len(chain[d.from])
        /\ CopyOf(d.rest, d.id, chain[d.from]) /\ Agree(chain[n], chain[d.from], d.id - 1)
    BY <1>5 DEF HandlerFits, HandlerCopies
  <2>2. d.id - 1 \in Nat /\ d.id - 1 <= Len(chain[n]) /\ d.id - 1 <= Len(chain[d.from])
    <3>1. Len(d.rest) \in Nat /\ Len(chain[d.from]) \in Nat
      BY <1>1, <2>1
    <3> QED BY <2>1, <3>1
  <2> QED BY <1>2, <1>3, <2>1, <2>2
<1>6. ASSUME NEW h, HealFits(h), Agree(chain[h.node], chain[h.from], h.upTo)
      PROVE  Agree(chain'[h.node], chain'[h.from], h.upTo)
  BY <1>3, <1>6 DEF HealFits
<1> QED BY <1>4, <1>5, <1>6

LEMMA PlacedStay ==
  ASSUME WellPlaced, drawn \in Nat, drawn' \in Nat, drawn <= drawn',
         \A i, r : Placed(i, r)' => Placed(i, r)
  PROVE  WellPlaced'
<1> PICK dd : dd = drawn'
  OBVIOUS
<1>1. \A i, r : Placed(i, r)' => /\ i \in Nat \ {0} /\ r \in AuditRecords
                                 /\ r.hash \in 1 .. dd /\ r.prev \in 0 .. dd
  <2> SUFFICES ASSUME NEW i, NEW r, Placed(i, r)'
               PROVE  /\ i \in Nat \ {0} /\ r \in AuditRecords
                      /\ r.hash \in 1 .. dd /\ r.prev \in 0 .. dd
    OBVIOUS
  <2>1. i \in Nat \ {0} /\ r \in AuditRecords /\ r.hash \in 1 .. drawn /\ r.prev \in 0 .. drawn
    BY DEF WellPlaced
  <2>2. drawn \in Nat /\ dd \in Nat /\ drawn <= dd
    OBVIOUS
  <2>3. r.hash \in 1 .. dd /\ r.prev \in 0 .. dd
    BY ONLY <2>1, <2>2
  <2> QED BY <2>1, <2>3
<1>2. \A i, r, j, s : Placed(i, r)' /\ Placed(j, s)' =>
         (r.hash = s.hash => i = j) /\ (r.prev = s.hash => i = j + 1)
  BY DEF WellPlaced
<1> QED BY <1>1, <1>2 DEF WellPlaced

\* The row that record_event inserts.
LEMMA NextRecordIs ==
  ASSUME LedgersFit, NEW n \in Replicas, NEW tenant \in AuditTenants,
         NEW kind \in {"event", "SOC2_VIOLATION", "CONSENSUS_RECOVERY"},
         NEW row, row = NextRecord(chain[n], kind, tenant)
  PROVE  /\ row \in AuditRecords /\ row.hash = drawn + 1 /\ row.prev = LastHash(chain[n])
         /\ chain[n] = << >> => row.prev = 0
         /\ chain[n] # << >> => /\ Len(chain[n]) \in 1 .. Len(chain[n])
                                /\ Placed(Len(chain[n]), chain[n][Len(chain[n])])
                                /\ row.prev = chain[n][Len(chain[n])].hash
<1> PICK c : c = chain[n]
  OBVIOUS
<1>1. c \in Seq(AuditRecords) /\ Len(c) \in Nat /\ drawn \in Nat
  BY DEF LedgersFit, LedgerTypes
<1>2. row.kind = kind /\ row.tenant = tenant /\ row.hash = drawn + 1 /\ row.prev = LastHash(c)
  BY DEF NextRecord
<1>3. c = << >> => LastHash(c) = 0
  BY DEF LastHash, Genesis
<1>4. ASSUME c # << >>
      PROVE  /\ Len(c) \in 1 .. Len(c) /\ Placed(Len(c), c[Len(c)])
             /\ LastHash(c) = c[Len(c)].hash /\ LastHash(c) \in Nat
  <2>1. Len(c) \in 1 .. Len(c)
    BY <1>1, <1>4
  <2>2. Placed(Len(c), c[Len(c)])
    BY <2>1 DEF Placed
  <2>3. LastHash(c) = c[Len(c)].hash
    BY <1>4 DEF LastHash, Last
  <2>4. c[Len(c)] \in AuditRecords
    BY <1>1, <2>1
  <2>5. c[Len(c)].hash \in Nat
    BY <2>4 DEF AuditRecords
  <2> QED BY <2>1, <2>2, <2>3, <2>5
<1>5. LastHash(c) \in Nat
  BY <1>3, <1>4
<1>6. row \in AuditRecords
  <2>1. drawn + 1 \in Nat
    BY <1>1
  <2> QED BY <1>5, <2>1 DEF NextRecord, AuditRecords
<1> QED BY <1>2, <1>3, <1>4, <1>6

LEMMA NoRows ==
  ASSUME NEW S, NEW c \in Seq(S), Len(c) = 0
  PROVE  c = << >>
OBVIOUS

\* Its hash is new, and it is chained to the row before it.
LEMMA PlacedRecord ==
  ASSUME LedgersFit, NEW n \in Replicas, NEW tenant \in AuditTenants,
         NEW kind \in {"event", "SOC2_VIOLATION", "CONSENSUS_RECOVERY"},
         NEW row, row = NextRecord(chain[n], kind, tenant), drawn' = drawn + 1,
         \A i, r : Placed(i, r)' => Placed(i, r) \/ (i = Len(chain[n]) + 1 /\ r = row)
  PROVE  WellPlaced'
<1> PICK k : k = Len(chain[n])
  OBVIOUS
<1>1. k \in Nat /\ drawn \in Nat
  BY DEF LedgersFit, LedgerTypes
<1>2. /\ row \in AuditRecords /\ row.hash = drawn + 1
      /\ k = 0 => row.prev = 0
      /\ k # 0 => Placed(k, chain[n][k]) /\ row.prev = chain[n][k].hash
  <2>1. chain[n] \in Seq(AuditRecords)
    BY DEF LedgersFit, LedgerTypes
  <2>2. k = 0 => chain[n] = << >>
    BY <2>1, NoRows
  <2>3. k # 0 => chain[n] # << >>
    OBVIOUS
  <2> QED BY <2>2, <2>3, NextRecordIs
<1>3. /\ \A i, r : Placed(i, r) => /\ i \in Nat \ {0} /\ r \in AuditRecords
                                   /\ r.hash \in 1 .. drawn /\ r.prev \in 0 .. drawn
      /\ \A i, r, j, s : Placed(i, r) /\ Placed(j, s) =>
           (r.hash = s.hash => i = j) /\ (r.prev = s.hash => i = j + 1)
  BY DEF LedgersFit, WellPlaced
<1>4. row.prev \in 0 .. drawn
  <2>1. CASE k = 0
    BY <1>1, <1>2, <2>1
  <2>2. CASE k # 0
    <3>1. chain[n][k].hash \in 1 .. drawn /\ row.prev = chain[n][k].hash
      BY <1>2, <1>3, <2>2
    <3> QED BY <1>1, <3>1
  <2> QED BY <2>1, <2>2
<1>5. \A i, r : Placed(i, r)' => /\ i \in Nat \ {0} /\ r \in AuditRecords
                                 /\ r.hash \in 1 .. (drawn + 1) /\ r.prev \in 0 .. (drawn + 1)
  <2> SUFFICES ASSUME NEW i, NEW r, Placed(i, r)'
               PROVE  /\ i \in Nat \ {0} /\ r \in AuditRecords
                      /\ r.hash \in 1 .. (drawn + 1) /\ r.prev \in 0 .. (drawn + 1)
    OBVIOUS
  <2>1. CASE Placed(i, r)
    <3>1. i \in Nat \ {0} /\ r \in AuditRecords /\ r.hash \in 1 .. drawn /\ r.prev \in 0 .. drawn
      BY <1>3, <2>1
    <3>2. r.hash \in 1 .. (drawn + 1) /\ r.prev \in 0 .. (drawn + 1)
      BY ONLY <1>1, <3>1
    <3> QED BY <3>1, <3>2
  <2>2. CASE i = k + 1 /\ r = row
    <3>1. row.hash \in 1 .. (drawn + 1) /\ row.prev \in 0 .. (drawn + 1)
      BY ONLY <1>1, <1>2, <1>4
    <3> QED BY <1>1, <1>2, <2>2, <3>1
  <2> QED BY <2>1, <2>2
<1>6. ASSUME NEW i, NEW r, NEW j, NEW s, Placed(i, r)', Placed(j, s)'
      PROVE  (r.hash = s.hash => i = j) /\ (r.prev = s.hash => i = j + 1)
  <2>1. CASE Placed(i, r) /\ Placed(j, s)
    BY <1>3, <2>1
  <2>2. CASE Placed(i, r) /\ j = k + 1 /\ s = row
    <3>1. r.hash \in 1 .. drawn /\ r.prev \in 0 .. drawn /\ s.hash = drawn + 1
      BY <1>2, <1>3, <2>2
    <3>2. r.hash # s.hash /\ r.prev # s.hash
      BY ONLY <1>1, <3>1
    <3> QED BY <3>2
  <2>3. CASE i = k + 1 /\ r = row /\ Placed(j, s)
    <3>1. s.hash \in 1 .. drawn /\ r.hash = drawn + 1
      BY <1>2, <1>3, <2>3
    <3>2. r.hash # s.hash /\ s.hash # 0
      BY ONLY <1>1, <3>1
    <3>3. ASSUME r.prev = s.hash
          PROVE  i = j + 1
      <4>1. k # 0
        BY <1>2, <2>3, <3>2, <3>3
      <4>2. Placed(k, chain[n][k]) /\ chain[n][k].hash = s.hash
        BY <1>2, <2>3, <3>3, <4>1
      <4>3. k = j
        BY <1>3, <2>3, <4>2
      <4> QED BY <2>3, <4>3
    <3> QED BY <3>2, <3>3
  <2>4. CASE i = k + 1 /\ r = row /\ j = k + 1 /\ s = row
    <3>1. row.prev # row.hash
      BY ONLY <1>1, <1>2, <1>4
    <3> QED BY <2>4, <3>1
  <2> QED BY <1>6, <2>1, <2>2, <2>3, <2>4
<1> QED BY <1>5, <1>6 DEF WellPlaced

\* A record is appended: ledgers lengthen, rows stay, chains verify.
LEMMA RecordGrows ==
  ASSUME LedgersFit, NEW n \in Replicas, Len(chain[n]) < MaxRecords, NEW tenant \in AuditTenants,
         NEW kind \in {"event", "SOC2_VIOLATION", "CONSENSUS_RECOVERY"},
         chain' = [chain EXCEPT ![n] = RecordedEvent(chain[n], kind, tenant)], drawn' = drawn + 1
  PROVE  /\ LedgerTypes' /\ LedgersLengthen /\ RowsStay
         /\ chain'[n] = Append(chain[n], NextRecord(chain[n], kind, tenant))
         /\ \A p \in Replicas \ {n} : chain'[p] = chain[p]
         /\ LedgersMatch => /\ \A p \in Replicas : VerifyChainIntegrity(chain'[p])
                            /\ \A p, q \in Replicas : SharesPast(chain'[p], chain'[q])
<1> PICK row : row = NextRecord(chain[n], kind, tenant)
  OBVIOUS
<1> PICK c : c = chain[n]
  OBVIOUS
<1> PICK e : e = Append(c, row)
  OBVIOUS
<1>1. c \in Seq(AuditRecords) /\ Len(c) \in Nat /\ drawn \in Nat /\ MaxRecords \in Nat
  BY AuditAssumption DEF LedgersFit, LedgerTypes
<1>2. /\ row \in AuditRecords /\ row.hash = drawn + 1 /\ row.prev = LastHash(c)
      /\ c = << >> => row.prev = 0
      /\ c # << >> => Len(c) \in 1 .. Len(c) /\ row.prev = c[Len(c)].hash
  BY NextRecordIs
<1>3. /\ e \in Seq(AuditRecords) /\ Len(e) = Len(c) + 1 /\ e[Len(c) + 1] = row
      /\ \A i \in 1 .. Len(c) : e[i] = c[i]
  BY <1>1, <1>2, AppendProperties
<1>4. /\ chain' \in [Replicas -> Seq(AuditRecords)] /\ chain'[n] = e
      /\ \A p \in Replicas \ {n} : chain'[p] = chain[p]
  BY <1>3 DEF LedgersFit, LedgerTypes, RecordedEvent
<1>5. LedgerTypes'
  <2>1. Len(e) <= MaxRecords
    BY <1>1, <1>3
  <2>2. drawn' \in Nat
    BY <1>1
  <2> QED BY <1>4, <2>1, <2>2 DEF LedgersFit, LedgerTypes
<1>6. LedgersLengthen /\ RowsStay
  <2>1. Len(c) <= Len(e) /\ Agree(c, e, Len(c))
    BY <1>1, <1>3 DEF Agree
  <2>2. \A p \in Replicas \ {n} : Len(chain[p]) \in Nat /\ Agree(chain[p], chain[p], Len(chain[p]))
    BY DEF LedgersFit, LedgerTypes, Agree
  <2>3. ASSUME NEW p \in Replicas \ {n} PROVE Len(chain[p]) <= Len(chain[p])
    <3> PICK k : k = Len(chain[p])
      OBVIOUS
    <3>1. k \in Nat
      BY <2>2
    <3> QED BY <3>1
  <2> QED BY <1>4, <2>1, <2>2, <2>3 DEF LedgersLengthen, RowsStay
<1>7. ASSUME LedgersMatch
      PROVE  /\ \A p \in Replicas : VerifyChainIntegrity(chain'[p])
             /\ \A p, q \in Replicas : SharesPast(chain'[p], chain'[q])
  <2>1. VerifyChainIntegrity(e)
    <3> SUFFICES ASSUME NEW i \in 1 .. Len(e)
                 PROVE  e[i].prev = IF i = 1 THEN Genesis ELSE e[i - 1].hash
      BY DEF VerifyChainIntegrity
    <3>1. CASE i \in 1 .. Len(c)
      <4>1. i # 1 => i - 1 \in 1 .. Len(c)
        BY <1>1, <3>1
      <4>2. VerifyChainIntegrity(c)
        BY <1>7 DEF LedgersMatch
      <4> QED BY <1>3, <3>1, <4>1, <4>2 DEF VerifyChainIntegrity
    <3>2. CASE i = Len(c) + 1
      <4>1. CASE c = << >>
        <5>1. i = 1
          BY <3>2, <4>1
        <5> QED BY <1>2, <1>3, <3>2, <4>1, <5>1 DEF Genesis
      <4>2. CASE c # << >>
        <5>1. Len(c) \in 1 .. Len(c) /\ i # 1 /\ i - 1 = Len(c)
          BY <1>1, <1>2, <3>2, <4>2
        <5> QED BY <1>2, <1>3, <3>2, <4>2, <5>1
      <4> QED BY <4>1, <4>2
    <3> QED BY <1>1, <1>3, <3>1, <3>2
  <2>2. \A p, q \in Replicas : SharesPast(chain[p], chain[q])
    BY <1>7 DEF LedgersMatch
  <2>3. \A p \in Replicas : \A j \in 1 .. Len(chain[p]) : chain[p][j].hash \in 1 .. drawn
    BY DEF LedgersFit, WellPlaced, Placed
  <2>4. \A p \in Replicas \ {n} : SharesPast(e, chain[p]) /\ SharesPast(chain[p], e)
    <3> SUFFICES ASSUME NEW p \in Replicas \ {n}, NEW i \in 1 .. Len(e), NEW j \in 1 .. Len(chain[p]),
                        e[i].hash = chain[p][j].hash
                 PROVE  i = j /\ Agree(e, chain[p], i) /\ Agree(chain[p], e, j)
      BY DEF SharesPast
    <3>1. i # Len(c) + 1
      <4>1. chain[p][j].hash \in 1 .. drawn
        BY <2>3
      <4> QED BY <1>1, <1>2, <1>3, <4>1
    <3>2. i \in 1 .. Len(c)
      BY <1>1, <1>3, <3>1
    <3>3. i = j /\ Agree(c, chain[p], i)
      BY <1>3, <2>2, <3>2 DEF SharesPast
    <3> QED BY <1>1, <1>3, <3>2, <3>3 DEF Agree
  <2>5. SharesPast(e, e)
    <3> SUFFICES ASSUME NEW i \in 1 .. Len(e), NEW j \in 1 .. Len(e), e[i].hash = e[j].hash
                 PROVE  i = j
      BY DEF SharesPast, Agree
    <3>1. CASE i \in 1 .. Len(c) /\ j \in 1 .. Len(c)
      BY <1>3, <2>2, <3>1 DEF SharesPast
    <3>2. \A x \in 1 .. Len(c) : e[x].hash # e[Len(c) + 1].hash
      <4> SUFFICES ASSUME NEW x \in 1 .. Len(c) PROVE e[x].hash # e[Len(c) + 1].hash
        OBVIOUS
      <4>1. c[x].hash \in 1 .. drawn
        BY <2>3
      <4> QED BY <1>1, <1>2, <1>3, <4>1
    <3> QED BY <1>1, <1>3, <3>1, <3>2
  <2>6. \A p \in Replicas : VerifyChainIntegrity(chain'[p])
    BY <1>4, <1>7, <2>1 DEF LedgersMatch
  <2> QED BY <1>4, <2>2, <2>4, <2>5, <2>6
<1> QED BY <1>4, <1>5, <1>6, <1>7

-----------------------------------------------------------------------------
LEMMA AuditStarts ==
  ASSUME AuditInit
  PROVE  AuditInv
<1>1. /\ chain = [n \in Replicas |-> << >>] /\ pending = [n \in Replicas |-> {}] /\ auditNet = {}
      /\ peerStates = [n \in Replicas |-> [p \in Replicas |-> "unknown"]] /\ drawn = 0
      /\ daemon = [n \in Replicas |-> NoHandler] /\ healed = {}
  BY DEF AuditInit
<1>1a. overwritten \in BOOLEAN
  BY DEF AuditInit
<1>2. chain \in [Replicas -> Seq(AuditRecords)] /\ \A n \in Replicas : Len(chain[n]) = 0
  BY <1>1
<1>3. LedgerTypes
  BY <1>1, <1>2, AuditAssumption DEF LedgerTypes
<1>4. RequestTypes
  BY <1>1 DEF RequestTypes, PeerStatuses
<1>5. /\ DOMAIN daemon = Replicas /\ \A n \in Replicas : daemon[n].at = "idle"
  <2>1. NoHandler.at = "idle"
    BY DEF NoHandler
  <2> QED BY <1>1, <2>1
<1>6. \A i, r : ~Placed(i, r)
  BY <1>1, <1>2, <1>5 DEF Placed
<1>7. LedgersFit
  BY <1>1, <1>3, <1>4, <1>5, <1>6 DEF LedgersFit, WellPlaced, HandlerFits
<1>8. LedgersMatch
  BY <1>1, <1>2, <1>5 DEF LedgersMatch, VerifyChainIntegrity, SharesPast, HandlerCopies
<1> QED BY <1>1a, <1>7, <1>8 DEF AuditInv

\* A step that leaves the ledgers alone: what is sent and what the handlers go
\* on to is placed, fits and copies.
LEMMA LedgersStay ==
  ASSUME AuditInv, UNCHANGED << chain, drawn, healed, overwritten >>, RequestTypes',
         DOMAIN daemon' = Replicas,
         \A m \in auditNet' : m \in auditNet \/ (MessageFits(m) /\ (~overwritten => MessageCopies(m))),
         \A n \in Replicas : \/ daemon'[n] = daemon[n]
                             \/ /\ HandlerFits(n, daemon'[n])
                                /\ ~overwritten => HandlerCopies(n, daemon'[n]),
         \A i, r : Placed(i, r)' => Placed(i, r)
  PROVE  AuditInv'
<1>1. LedgersFit /\ LedgerTypes /\ WellPlaced /\ drawn \in Nat /\ overwritten \in BOOLEAN
  BY DEF AuditInv, LedgersFit, LedgerTypes
<1>2. LedgerTypes'
  BY <1>1 DEF LedgerTypes
<1>3. WellPlaced'
  BY <1>1, PlacedStay
<1>4. \A m \in auditNet' : MessageFits(m)'
  <2>1. \A m \in auditNet' : MessageFits(m)
    BY <1>1 DEF LedgersFit
  <2> QED BY <2>1 DEF MessageFits
<1>5. \A n \in Replicas : HandlerFits(n, daemon'[n])
  BY <1>1 DEF LedgersFit
<1>6. \A n \in Replicas : HandlerFits(n, daemon[n])'
  BY <1>5 DEF HandlerFits
<1>7. \A h \in healed' : HealFits(h)'
  BY <1>1 DEF LedgersFit, HealFits
<1>8. LedgersFit'
  BY <1>2, <1>3, <1>4, <1>6, <1>7 DEF LedgersFit
<1>9. ASSUME ~overwritten
      PROVE  LedgersMatch'
  <2>1. LedgersMatch
    BY <1>9 DEF AuditInv
  <2>2. /\ \A n \in Replicas : VerifyChainIntegrity(chain'[n])
        /\ \A n, p \in Replicas : SharesPast(chain'[n], chain'[p])
    BY <2>1 DEF LedgersMatch
  <2>3. \A m \in auditNet' : MessageCopies(m)'
    <3>1. \A m \in auditNet' : MessageCopies(m)
      BY <1>9, <2>1 DEF LedgersMatch
    <3> QED BY <3>1 DEF MessageCopies
  <2>4. \A n \in Replicas : HandlerCopies(n, daemon'[n])
    BY <1>9, <2>1 DEF LedgersMatch
  <2>5. \A n \in Replicas : HandlerCopies(n, daemon[n])'
    BY <2>4 DEF HandlerCopies
  <2>6. \A h \in healed' : Agree(chain'[h.node], chain'[h.from], h.upTo)
    BY <2>1 DEF LedgersMatch
  <2> QED BY <2>2, <2>3, <2>5, <2>6 DEF LedgersMatch, VerifyChainIntegrity, SharesPast, Agree
<1> QED BY <1>1, <1>8, <1>9 DEF AuditInv

LEMMA AuditStays ==
  ASSUME AuditInv, UNCHANGED auditVars
  PROVE  AuditInv' /\ LedgersLengthen
<1>1. UNCHANGED << chain, pending, peerStates, auditNet, drawn, daemon, healed, overwritten >>
  BY DEF auditVars
<1>2. RequestTypes' /\ DOMAIN daemon' = Replicas
  BY <1>1 DEF AuditInv, LedgersFit, RequestTypes
<1>3. \A i, r : Placed(i, r)' => Placed(i, r)
  BY <1>1 DEF Placed
<1>4. AuditInv'
  BY <1>1, <1>2, <1>3, LedgersStay
<1>5. ASSUME NEW n \in Replicas PROVE Len(chain[n]) <= Len(chain'[n])
  <2> PICK k : k = Len(chain[n])
    OBVIOUS
  <2>1. k \in Nat /\ Len(chain'[n]) = k
    BY <1>1 DEF AuditInv, LedgersFit, LedgerTypes
  <2> QED BY <2>1
<1> QED BY <1>4, <1>5 DEF LedgersLengthen

\* A record on node n; handlers that go on do so to no merge.
LEMMA OwnRecordKeeps ==
  ASSUME AuditInv, NEW n \in Replicas, NEW tenant \in AuditTenants, Len(chain[n]) < MaxRecords,
         NEW kind \in {"event", "SOC2_VIOLATION", "CONSENSUS_RECOVERY"},
         chain' = [chain EXCEPT ![n] = RecordedEvent(chain[n], kind, tenant)], drawn' = drawn + 1,
         RequestTypes', auditNet' \subseteq auditNet, overwritten' = overwritten,
         DOMAIN daemon' = Replicas,
         \A x \in Replicas : daemon'[x] = daemon[x] \/ daemon'[x].at = "idle",
         \A h \in healed' : h \in healed \/ HealFits(h),
         ~overwritten => \A h \in healed' : h \in healed \/ Agree(chain[h.node], chain[h.from], h.upTo)
  PROVE  AuditInv' /\ LedgersLengthen /\ RowsStay
<1> PICK row : row = NextRecord(chain[n], kind, tenant)
  OBVIOUS
<1>1. LedgersFit /\ LedgerTypes /\ overwritten \in BOOLEAN
  BY DEF AuditInv, LedgersFit
<1>2. /\ LedgerTypes' /\ LedgersLengthen /\ RowsStay
      /\ chain'[n] = Append(chain[n], row)
      /\ \A p \in Replicas \ {n} : chain'[p] = chain[p]
      /\ LedgersMatch => /\ \A p \in Replicas : VerifyChainIntegrity(chain'[p])
                         /\ \A p, q \in Replicas : SharesPast(chain'[p], chain'[q])
  BY <1>1, RecordGrows
<1>3. ASSUME NEW i, NEW r, Placed(i, r)'
      PROVE  Placed(i, r) \/ (i = Len(chain[n]) + 1 /\ r = row)
  <2>1. CASE \E x \in Replicas : i \in 1 .. Len(chain'[x]) /\ r = chain'[x][i]
    <3>1. PICK x \in Replicas : i \in 1 .. Len(chain'[x]) /\ r = chain'[x][i]
      BY <2>1
    <3>2. CASE x = n
      <4> PICK c : c = chain[n]
        OBVIOUS
      <4>1. c \in Seq(AuditRecords) /\ Len(c) \in Nat
        BY <1>1 DEF LedgerTypes
      <4>2. row \in AuditRecords
        BY <1>1, NextRecordIs
      <4>3. /\ Len(chain'[n]) = Len(c) + 1 /\ chain'[n][Len(c) + 1] = row
            /\ \A k \in 1 .. Len(c) : chain'[n][k] = c[k]
        BY <1>2, <4>1, <4>2, AppendProperties
      <4>4. CASE i = Len(c) + 1
        BY <3>1, <3>2, <4>3, <4>4
      <4>5. CASE i # Len(c) + 1
        <5>1. i \in 1 .. Len(c) /\ r = c[i]
          BY <3>1, <3>2, <4>1, <4>3, <4>5
        <5> QED BY <5>1 DEF Placed
      <4> QED BY <4>4, <4>5
    <3>3. CASE x # n
      BY <1>2, <3>1, <3>3 DEF Placed
    <3> QED BY <3>2, <3>3
  <2>2. CASE \E m \in auditNet' : m.type = "logs_response"
               /\ \E k \in 1 .. Len(m.logs) : i = m.id + k - 1 /\ r = m.logs[k]
    BY <2>2 DEF Placed
  <2>3. CASE \E x \in Replicas : daemon'[x].at = "merge"
               /\ \E k \in 1 .. Len(daemon'[x].rest) : i = daemon'[x].id + k - 1 /\ r = daemon'[x].rest[k]
    <3>1. PICK x \in Replicas : daemon'[x].at = "merge"
               /\ \E k \in 1 .. Len(daemon'[x].rest) : i = daemon'[x].id + k - 1 /\ r = daemon'[x].rest[k]
      BY <2>3
    <3>2. daemon'[x] = daemon[x]
      BY <3>1
    <3> QED BY <3>1, <3>2 DEF Placed
  <2> QED BY <1>3, <2>1, <2>2, <2>3 DEF Placed
<1>4. WellPlaced'
  BY <1>1, <1>3, PlacedRecord
<1>5. /\ \A m : MessageFits(m) => MessageFits(m)'
      /\ \A x \in Replicas : \A d : HandlerFits(x, d) => HandlerFits(x, d)'
      /\ \A h : HealFits(h) => HealFits(h)'
  BY <1>1, <1>2, FitsStay
<1>6. \A x \in Replicas : HandlerFits(x, daemon[x])'
  <2> SUFFICES ASSUME NEW x \in Replicas PROVE HandlerFits(x, daemon[x])'
    OBVIOUS
  <2>1. CASE daemon'[x] = daemon[x]
    <3> PICK d : d = daemon[x]
      OBVIOUS
    <3>1. HandlerFits(x, d)'
      BY <1>1, <1>5 DEF LedgersFit
    <3> QED BY <2>1, <3>1 DEF HandlerFits
  <2>2. CASE daemon'[x].at = "idle"
    BY <2>2 DEF HandlerFits
  <2> QED BY <2>1, <2>2
<1>7. \A h \in healed' : HealFits(h) /\ HealFits(h)'
  <2>1. \A h \in healed : HealFits(h)
    BY <1>1 DEF LedgersFit
  <2> QED BY <1>5, <2>1
<1>8. LedgersFit'
  <2>1. \A m \in auditNet' : MessageFits(m)'
    BY <1>1, <1>5 DEF LedgersFit
  <2> QED BY <1>2, <1>4, <1>6, <1>7, <2>1 DEF LedgersFit
<1>9. ASSUME ~overwritten
      PROVE  LedgersMatch'
  <2>1. LedgersMatch
    BY <1>9 DEF AuditInv
  <2>2. /\ \A m : MessageFits(m) /\ MessageCopies(m) => MessageCopies(m)'
        /\ \A x \in Replicas : \A d : HandlerFits(x, d) /\ HandlerCopies(x, d) => HandlerCopies(x, d)'
        /\ \A h : HealFits(h) /\ Agree(chain[h.node], chain[h.from], h.upTo)
                    => Agree(chain'[h.node], chain'[h.from], h.upTo)
    BY <1>1, <1>2, CopiesStay
  <2>3. \A m \in auditNet' : MessageCopies(m)'
    BY <1>1, <2>1, <2>2 DEF LedgersFit, LedgersMatch
  <2>4. \A x \in Replicas : HandlerCopies(x, daemon[x])'
    <3> SUFFICES ASSUME NEW x \in Replicas PROVE HandlerCopies(x, daemon[x])'
      OBVIOUS
    <3>1. CASE daemon'[x] = daemon[x]
      <4> PICK d : d = daemon[x]
        OBVIOUS
      <4>1. HandlerCopies(x, d)'
        BY <1>1, <2>1, <2>2 DEF LedgersFit, LedgersMatch
      <4> QED BY <3>1, <4>1 DEF HandlerCopies
    <3>2. CASE daemon'[x].at = "idle"
      BY <3>2 DEF HandlerCopies
    <3> QED BY <3>1, <3>2
  <2>5. \A h \in healed' : Agree(chain'[h.node], chain'[h.from], h.upTo)
    BY <1>7, <1>9, <2>1, <2>2 DEF LedgersMatch
  <2>6. /\ \A p \in Replicas : VerifyChainIntegrity(chain'[p])
        /\ \A p, q \in Replicas : SharesPast(chain'[p], chain'[q])
    BY <1>2, <2>1
  <2> QED BY <2>3, <2>4, <2>5, <2>6 DEF LedgersMatch, VerifyChainIntegrity, SharesPast, Agree
<1> QED BY <1>1, <1>2, <1>8, <1>9 DEF AuditInv

-----------------------------------------------------------------------------
\* One inserted row.  It goes after every row the merge listed; and unless it
\* replaces another row it copies the provider's next one, or changes nothing.
LEMMA InsertKeeps ==
  ASSUME AuditInv, NEW n \in Replicas, InsertNext(n)
  PROVE  /\ AuditInv' /\ LedgersLengthen
         /\ \A x \in 1 .. Len(chain[n]) : chain'[n][x] = chain[n][x] \/ x \notin daemon[n].read
         /\ \A p \in Replicas \ {n} : chain'[p] = chain[p]
<1> PICK d : d = daemon[n]
  OBVIOUS
<1> PICK c : c = chain[n]
  OBVIOUS
<1> PICK p : p = d.from
  OBVIOUS
<1> PICK id : id = d.id
  OBVIOUS
<1> PICK rest : rest = d.rest
  OBVIOUS
<1> PICK row : row = Head(rest)
  OBVIOUS
<1> PICK e : e = InsertRawEvent(c, id, row)
  OBVIOUS
<1> PICK new : new = [at |-> "merge", from |-> p, read |-> d.read, id |-> id + 1, rest |-> Tail(rest)]
  OBVIOUS
<1>1. /\ d.at = "merge" /\ rest # << >>
      /\ chain' = [chain EXCEPT ![n] = e]
      /\ overwritten' = (overwritten \/ (id <= Len(c) /\ c[id] # row))
      /\ daemon' = [daemon EXCEPT ![n] = new]
      /\ UNCHANGED << pending, peerStates, auditNet, drawn, healed >>
  BY DEF InsertNext
<1>2. LedgersFit /\ LedgerTypes /\ WellPlaced /\ overwritten \in BOOLEAN /\ DOMAIN daemon = Replicas
  BY DEF AuditInv, LedgersFit
<1>3. /\ p \in Replicas \ {n} /\ id \in Nat \ {0} /\ rest \in Seq(AuditRecords)
      /\ id <= Len(c) + 1 /\ id + Len(rest) - 1 <= Len(chain[p])
      /\ \A x \in d.read : x \in Nat /\ x < id
  BY <1>1, <1>2 DEF LedgersFit, HandlerFits
<1>4. /\ c \in Seq(AuditRecords) /\ Len(c) \in Nat /\ Len(rest) \in Nat \ {0} /\ Len(chain[p]) \in Nat
      /\ Len(chain[p]) <= MaxRecords /\ Len(c) <= MaxRecords /\ MaxRecords \in Nat
  <2>1. Len(rest) \in Nat \ {0}
    BY <1>1, <1>3, EmptySeq
  <2>2. chain[p] \in Seq(AuditRecords) /\ chain[n] \in Seq(AuditRecords)
    BY <1>2, <1>3 DEF LedgerTypes
  <2>3. Len(chain[p]) \in Nat /\ Len(chain[n]) \in Nat
    BY <2>2, LenProperties
  <2>4. Len(chain[p]) <= MaxRecords /\ Len(chain[n]) <= MaxRecords
    BY <1>2, <1>3 DEF LedgerTypes
  <2>5. MaxRecords \in Nat
    BY AuditAssumption
  <2> QED BY <2>1, <2>2, <2>3, <2>4, <2>5
<1>5. /\ row = rest[1] /\ row \in AuditRecords
      /\ Tail(rest) \in Seq(AuditRecords) /\ Len(Tail(rest)) = Len(rest) - 1
      /\ \A k \in 1 .. Len(Tail(rest)) : k + 1 \in 1 .. Len(rest) /\ Tail(rest)[k] = rest[k + 1]
  <2>1. /\ Head(rest) \in AuditRecords /\ Tail(rest) \in Seq(AuditRecords)
        /\ Len(Tail(rest)) = Len(rest) - 1
        /\ \A i \in 1 .. Len(Tail(rest)) : Tail(rest)[i] = rest[i + 1]
    BY <1>1, <1>3, HeadTailProperties
  <2>2. Head(rest) = rest[1]
    BY <1>1, <1>3
  <2>3. \A k \in 1 .. Len(Tail(rest)) : k + 1 \in 1 .. Len(rest)
    <3> PICK l : l = Len(rest)
      OBVIOUS
    <3> PICK t : t = Len(Tail(rest))
      OBVIOUS
    <3>1. l \in Nat /\ t = l - 1
      BY <1>4, <2>1
    <3>2. \A k \in 1 .. t : k + 1 \in 1 .. l
      BY ONLY <3>1
    <3> QED BY <3>2
  <2> QED BY <2>1, <2>2, <2>3
<1> PICK top : top = IF id > Len(c) THEN id ELSE Len(c)
  OBVIOUS
<1>6. /\ top \in Nat /\ Len(c) <= top /\ id <= top /\ id \in 1 .. top /\ top <= MaxRecords
      /\ top = Len(c) \/ (top = Len(c) + 1 /\ top = id)
  <2> PICK k : k = Len(c)
    OBVIOUS
  <2> PICK l : l = Len(rest)
    OBVIOUS
  <2> PICK o : o = Len(chain[p])
    OBVIOUS
  <2>1. /\ k \in Nat /\ l \in Nat \ {0} /\ o \in Nat /\ MaxRecords \in Nat /\ id \in Nat \ {0}
        /\ id <= k + 1 /\ id + l - 1 <= o /\ o <= MaxRecords /\ k <= MaxRecords
        /\ top = IF id > k THEN id ELSE k
    BY <1>3, <1>4
  <2>2. CASE id > k
    <3>1. top = id
      BY <2>1, <2>2
    <3>2. id = k + 1 /\ id <= MaxRecords
      BY ONLY <2>1, <2>2
    <3>3. k <= id /\ id \in 1 .. id /\ id <= id
      BY ONLY <2>1, <2>2
    <3> QED BY <2>1, <3>1, <3>2, <3>3
  <2>3. CASE ~(id > k)
    <3>1. top = k
      BY <2>1, <2>3
    <3>2. id <= k /\ id \in 1 .. k /\ k <= k
      BY ONLY <2>1, <2>3
    <3> QED BY <2>1, <3>1, <3>2
  <2> QED BY <2>2, <2>3
<1>7. e = [i \in 1 .. top |-> IF i = id THEN row ELSE c[i]]
  BY DEF InsertRawEvent
<1>8. \A i \in 1 .. top : i # id => i \in 1 .. Len(c)
  BY <1>4, <1>6
<1>9. /\ e \in Seq(AuditRecords) /\ Len(e) = top /\ e[id] = row
      /\ \A i \in 1 .. top : i # id => e[i] = c[i]
  <2>1. \A i \in 1 .. top : (IF i = id THEN row ELSE c[i]) \in AuditRecords
    BY <1>4, <1>5, <1>8
  <2> QED BY <1>6, <1>7, <2>1
<1>10. /\ chain' \in [Replicas -> Seq(AuditRecords)] /\ chain'[n] = e
       /\ \A q \in Replicas \ {n} : chain'[q] = chain[q]
  BY <1>1, <1>2, <1>9 DEF LedgerTypes
<1>11. LedgerTypes'
  BY <1>1, <1>2, <1>6, <1>9, <1>10 DEF LedgerTypes
<1>12. LedgersLengthen
  <2> SUFFICES ASSUME NEW q \in Replicas PROVE Len(chain[q]) <= Len(chain'[q])
    BY DEF LedgersLengthen
  <2>1. CASE q = n
    BY <1>6, <1>9, <1>10, <2>1
  <2>2. CASE q # n
    <3> PICK k : k = Len(chain[q])
      OBVIOUS
    <3>1. k \in Nat /\ Len(chain'[q]) = k
      BY <1>2, <1>10, <2>2 DEF LedgerTypes
    <3> QED BY <3>1
  <2> QED BY <2>1, <2>2
<1>13. ASSUME NEW x \in 1 .. Len(c) PROVE e[x] = c[x] \/ x \notin d.read
  <2>1. CASE x = id
    BY <1>3, <2>1
  <2>2. CASE x # id
    <3>1. x \in 1 .. top
      BY <1>4, <1>6
    <3> QED BY <1>9, <2>2, <3>1
  <2> QED BY <2>1, <2>2
<1>14. /\ daemon'[n] = new /\ \A x \in Replicas \ {n} : daemon'[x] = daemon[x]
       /\ DOMAIN daemon' = Replicas
       /\ new.at = "merge" /\ new.from = p /\ new.read = d.read /\ new.id = id + 1 /\ new.rest = Tail(rest)
  BY <1>1, <1>2
<1>15. ASSUME NEW i, NEW r, Placed(i, r)' PROVE Placed(i, r)
  <2>1. \A k \in 1 .. Len(rest) : Placed(id + k - 1, rest[k])
    BY <1>1 DEF Placed
  <2>2. CASE \E x \in Replicas : i \in 1 .. Len(chain'[x]) /\ r = chain'[x][i]
    <3>1. PICK x \in Replicas : i \in 1 .. Len(chain'[x]) /\ r = chain'[x][i]
      BY <2>2
    <3>2. CASE x = n /\ i = id
      <4>1. 1 \in 1 .. Len(rest) /\ id + 1 - 1 = i /\ rest[1] = r
        BY <1>3, <1>4, <1>5, <1>9, <1>10, <3>1, <3>2
      <4> QED BY <2>1, <4>1
    <3>3. CASE x = n /\ i # id
      <4>1. i \in 1 .. Len(c) /\ r = c[i]
        BY <1>8, <1>9, <1>10, <3>1, <3>3
      <4> QED BY <4>1 DEF Placed
    <3>4. CASE x # n
      BY <1>10, <3>1, <3>4 DEF Placed
    <3> QED BY <3>2, <3>3, <3>4
  <2>3. CASE \E m \in auditNet' : m.type = "logs_response"
               /\ \E k \in 1 .. Len(m.logs) : i = m.id + k - 1 /\ r = m.logs[k]
    BY <1>1, <2>3 DEF Placed
  <2>4. CASE \E x \in Replicas : daemon'[x].at = "merge"
               /\ \E k \in 1 .. Len(daemon'[x].rest) : i = daemon'[x].id + k - 1 /\ r = daemon'[x].rest[k]
    <3>1. PICK x \in Replicas : daemon'[x].at = "merge"
               /\ \E k \in 1 .. Len(daemon'[x].rest) : i = daemon'[x].id + k - 1 /\ r = daemon'[x].rest[k]
      BY <2>4
    <3>2. CASE x = n
      <4>1. PICK k \in 1 .. Len(Tail(rest)) : i = id + 1 + k - 1 /\ r = Tail(rest)[k]
        BY <1>14, <3>1, <3>2
      <4>2. PICK l : l = k + 1
        OBVIOUS
      <4>3. l \in 1 .. Len(rest) /\ r = rest[l] /\ i = id + l - 1
        BY <1>3, <1>5, <4>1, <4>2
      <4> QED BY <2>1, <4>3
    <3>3. CASE x # n
      <4>1. daemon'[x] = daemon[x]
        BY <1>14, <3>3
      <4> QED BY <3>1, <4>1 DEF Placed
    <3> QED BY <3>2, <3>3
  <2> QED BY <1>15, <2>2, <2>3, <2>4 DEF Placed
<1>16. WellPlaced'
  <2>1. drawn \in Nat /\ drawn' = drawn /\ drawn <= drawn'
    BY <1>1, <1>2 DEF LedgerTypes
  <2> QED BY <1>2, <1>15, <2>1, PlacedStay
<1>17. /\ \A m : MessageFits(m) => MessageFits(m)'
       /\ \A x \in Replicas : \A y : HandlerFits(x, y) => HandlerFits(x, y)'
       /\ \A h : HealFits(h) => HealFits(h)'
  BY <1>2, <1>11, <1>12, FitsStay
<1>18. \A x \in Replicas : HandlerFits(x, daemon[x])'
  <2> SUFFICES ASSUME NEW x \in Replicas PROVE HandlerFits(x, daemon[x])'
    OBVIOUS
  <2>1. CASE x # n
    <3> PICK y : y = daemon[x]
      OBVIOUS
    <3>1. HandlerFits(x, y)'
      BY <1>2, <1>17 DEF LedgersFit
    <3>2. daemon'[x] = y
      BY <1>14, <2>1
    <3> QED BY <3>1, <3>2 DEF HandlerFits
  <2>2. CASE x = n
    <3>1. /\ id + 1 \in Nat \ {0} /\ id + 1 <= top + 1
          /\ id + 1 + Len(Tail(rest)) - 1 <= Len(chain[p])
          /\ \A y \in d.read : y \in Nat /\ y < id + 1
      <4> PICK k : k = Len(rest)
        OBVIOUS
      <4> PICK t : t = Len(Tail(rest))
        OBVIOUS
      <4> PICK l : l = Len(chain[p])
        OBVIOUS
      <4>1. id \in Nat /\ id <= top /\ id + k - 1 <= l /\ top \in Nat
            /\ t = k - 1 /\ k \in Nat /\ l \in Nat
        BY <1>3, <1>4, <1>5, <1>6
      <4>4. id + 1 \in Nat \ {0} /\ id + 1 <= top + 1
        BY ONLY <4>1
      <4>5. id + 1 + t - 1 <= l
        BY ONLY <4>1
      <4>2. id + 1 \in Nat \ {0} /\ id + 1 <= top + 1 /\ id + 1 + Len(Tail(rest)) - 1 <= Len(chain[p])
        BY <4>4, <4>5
      <4>3. \A y \in d.read : y \in Nat /\ y < id + 1
        BY <1>3, <4>1
      <4> QED BY <4>2, <4>3
    <3>2. chain'[p] = chain[p] /\ Len(chain'[n]) = top /\ p \in Replicas \ {n}
      BY <1>3, <1>9, <1>10
    <3>3. HandlerFits(n, new)'
      BY <1>5, <1>14, <3>1, <3>2 DEF HandlerFits
    <3> QED BY <1>14, <2>2, <3>3 DEF HandlerFits
  <2> QED BY <2>1, <2>2
<1>19. LedgersFit'
  <2>1. \A m \in auditNet' : MessageFits(m)'
    BY <1>1, <1>2, <1>17 DEF LedgersFit
  <2>2. \A h \in healed' : HealFits(h)'
    BY <1>1, <1>2, <1>17 DEF LedgersFit
  <2>3. RequestTypes'
    BY <1>1, <1>2 DEF LedgersFit, RequestTypes
  <2> QED BY <1>11, <1>14, <1>16, <1>18, <2>1, <2>2, <2>3 DEF LedgersFit
<1>20. ASSUME ~overwritten' PROVE LedgersMatch'
  <2>1. ~overwritten /\ LedgersMatch
    BY <1>1, <1>20 DEF AuditInv
  <2>2. ASSUME id <= Len(c) PROVE c[id] = row
    BY <1>1, <1>20, <2>2
  <2> PICK o : o = chain[p]
    OBVIOUS
  <2>3. CopyOf(rest, id, o) /\ Agree(c, o, id - 1)
    BY <1>1, <2>1 DEF LedgersMatch, HandlerCopies
  <2>4. id \in 1 .. Len(o) /\ row = o[id]
    <3>1. 1 \in 1 .. Len(rest) /\ id + 1 - 1 = id
      BY <1>3, <1>4
    <3>2. rest[1] = o[id]
      BY <2>3, <3>1 DEF CopyOf
    <3>3. id <= Len(o)
      BY <1>3, <1>4
    <3> QED BY <1>3, <1>4, <1>5, <3>2, <3>3
  <2>5. Agree(c, e, Len(c))
    <3> SUFFICES ASSUME NEW x \in 1 .. Len(c) PROVE c[x] = e[x]
      BY DEF Agree
    <3>1. CASE x = id
      BY <1>4, <1>9, <2>2, <3>1
    <3>2. CASE x # id
      <4>1. x \in 1 .. top
        BY <1>4, <1>6
      <4> QED BY <1>9, <3>2, <4>1
    <3> QED BY <3>1, <3>2
  <2>6. RowsStay
    <3> SUFFICES ASSUME NEW q \in Replicas PROVE Agree(chain[q], chain'[q], Len(chain[q]))
      BY DEF RowsStay
    <3>1. CASE q = n
      BY <1>10, <2>5, <3>1
    <3>2. CASE q # n
      BY <1>10, <3>2 DEF Agree
    <3> QED BY <3>1, <3>2
  <2>7. Agree(e, o, id)
    <3> SUFFICES ASSUME NEW x \in 1 .. id PROVE e[x] = o[x]
      BY DEF Agree
    <3>1. CASE x = id
      BY <1>9, <2>4, <3>1
    <3>2. CASE x # id
      <4>1. x \in 1 .. (id - 1) /\ x \in 1 .. top
        BY <1>3, <1>6, <3>2
      <4>2. e[x] = c[x]
        BY <1>9, <3>2, <4>1
      <4> QED BY <2>3, <4>1, <4>2 DEF Agree
    <3> QED BY <3>1, <3>2
  <2>8. /\ \A q \in Replicas : VerifyChainIntegrity(chain'[q])
        /\ \A q, s \in Replicas : SharesPast(chain'[q], chain'[s])
    <3>1. CASE top = Len(c)
      <4>1. \A i \in 1 .. Len(c) : e[i] = c[i]
        BY <2>5 DEF Agree
      <4>2. e = c
        <5>1. Len(e) = Len(c) /\ \A i \in 1 .. Len(e) : e[i] = c[i]
          BY <1>9, <3>1, <4>1
        <5> QED BY <1>4, <1>9, <5>1, SeqEqual
      <4>3. chain'[n] = chain[n]
        BY <1>10, <4>2
      <4> QED BY <1>10, <2>1, <4>3 DEF LedgersMatch
    <3>2. CASE top = id
      <4>1. \A i \in 1 .. Len(e) : i \in 1 .. Len(o) /\ e[i] = o[i]
        <5>1. Len(e) = id /\ id \in 1 .. Len(o) /\ Len(o) \in Nat
          BY <1>4, <1>9, <2>4, <3>2
        <5>2. \A i \in 1 .. id : i \in 1 .. Len(o)
          BY ONLY <5>1
        <5> QED BY <2>7, <5>1, <5>2 DEF Agree
      <4>2. /\ VerifyChainIntegrity(o)
            /\ \A q \in Replicas : SharesPast(o, chain[q]) /\ SharesPast(chain[q], o)
        BY <1>3, <2>1 DEF LedgersMatch
      <4>3. VerifyChainIntegrity(e)
        <5> SUFFICES ASSUME NEW i \in 1 .. Len(e)
                     PROVE  e[i].prev = IF i = 1 THEN Genesis ELSE e[i - 1].hash
          BY DEF VerifyChainIntegrity
        <5>1. o[i].prev = IF i = 1 THEN Genesis ELSE o[i - 1].hash
          BY <4>1, <4>2 DEF VerifyChainIntegrity
        <5>2. i # 1 => i - 1 \in 1 .. Len(e)
          BY <1>6, <1>9
        <5> QED BY <4>1, <5>1, <5>2
      <4>4. \A q \in Replicas : SharesPast(e, chain[q]) /\ SharesPast(chain[q], e)
        <5> SUFFICES ASSUME NEW q \in Replicas, NEW i \in 1 .. Len(e), NEW j \in 1 .. Len(chain[q]),
                            e[i].hash = chain[q][j].hash
                     PROVE  i = j /\ Agree(e, chain[q], i) /\ Agree(chain[q], e, j)
          BY DEF SharesPast
        <5>1. i = j /\ Agree(o, chain[q], i)
          BY <4>1, <4>2 DEF SharesPast
        <5> QED BY <1>6, <1>9, <4>1, <5>1 DEF Agree
      <4>5. SharesPast(e, e)
        <5> SUFFICES ASSUME NEW i \in 1 .. Len(e), NEW j \in 1 .. Len(e), e[i].hash = e[j].hash
                     PROVE  i = j
          BY DEF SharesPast, Agree
        <5>1. SharesPast(o, o) /\ i \in 1 .. Len(o) /\ j \in 1 .. Len(o) /\ o[i].hash = o[j].hash
          BY <1>3, <4>1, <4>2
        <5> QED BY <5>1 DEF SharesPast
      <4> QED BY <1>10, <2>1, <4>3, <4>4, <4>5 DEF LedgersMatch
    <3> QED BY <1>6, <3>1, <3>2
  <2>9. /\ \A m : MessageFits(m) /\ MessageCopies(m) => MessageCopies(m)'
        /\ \A x \in Replicas : \A y : HandlerFits(x, y) /\ HandlerCopies(x, y) => HandlerCopies(x, y)'
        /\ \A h : HealFits(h) /\ Agree(chain[h.node], chain[h.from], h.upTo)
                    => Agree(chain'[h.node], chain'[h.from], h.upTo)
    BY <1>2, <1>11, <1>12, <2>6, CopiesStay
  <2>10. \A m \in auditNet' : MessageCopies(m)'
    BY <1>1, <1>2, <2>1, <2>9 DEF LedgersFit, LedgersMatch
  <2>11. \A h \in healed' : Agree(chain'[h.node], chain'[h.from], h.upTo)
    BY <1>1, <1>2, <2>1, <2>9 DEF LedgersFit, LedgersMatch
  <2>12. \A x \in Replicas : HandlerCopies(x, daemon[x])'
    <3> SUFFICES ASSUME NEW x \in Replicas PROVE HandlerCopies(x, daemon[x])'
      OBVIOUS
    <3>1. CASE x # n
      <4> PICK y : y = daemon[x]
        OBVIOUS
      <4>1. HandlerCopies(x, y)'
        BY <1>2, <2>1, <2>9 DEF LedgersFit, LedgersMatch
      <4>2. daemon'[x] = y
        BY <1>14, <3>1
      <4> QED BY <4>1, <4>2 DEF HandlerCopies
    <3>2. CASE x = n
      <4>1. chain'[p] = o /\ chain'[n] = e /\ id + 1 - 1 = id
        BY <1>3, <1>10
      <4>2. CopyOf(Tail(rest), id + 1, o)
        <5> SUFFICES ASSUME NEW k \in 1 .. Len(Tail(rest)) PROVE Tail(rest)[k] = o[id + 1 + k - 1]
          BY DEF CopyOf
        <5>1. PICK l : l = k + 1
          OBVIOUS
        <5>4. l \in 1 .. Len(rest) /\ Tail(rest)[k] = rest[l]
          BY <1>5, <5>1
        <5>5. Len(Tail(rest)) \in Nat
          BY <1>5, LenProperties
        <5>6. id + 1 + k - 1 = id + l - 1
          <6>1. k \in Nat /\ id \in Nat /\ l = k + 1
            BY <1>3, <5>1, <5>5
          <6> QED BY ONLY <6>1
        <5>3. rest[l] = o[id + l - 1]
          BY <2>3, <5>4 DEF CopyOf
        <5> QED BY <5>4, <5>3, <5>6
      <4>4. CopyOf(new.rest, new.id, chain'[new.from])
        BY <1>14, <4>1, <4>2
      <4>5. Agree(chain'[n], chain'[new.from], new.id - 1)
        <5>1. new.from = p /\ new.id = id + 1
          BY ONLY <1>14
        <5>2. new.id - 1 = id
          <6>1. id \in Nat
            BY <1>3
          <6> QED BY ONLY <5>1, <6>1
        <5>3. chain'[new.from] = o
          BY <4>1, <5>1, Zenon
        <5> QED BY <2>7, <4>1, <5>2, <5>3, Zenon
      <4>3. HandlerCopies(n, new)'
        BY <4>4, <4>5 DEF HandlerCopies
      <4> QED BY <1>14, <3>2, <4>3 DEF HandlerCopies
    <3> QED BY <3>1, <3>2
  <2> QED BY <2>8, <2>10, <2>11, <2>12 DEF LedgersMatch
<1>21. overwritten' \in BOOLEAN
  BY <1>1
<1> QED BY <1>10, <1>12, <1>13, <1>19, <1>20, <1>21 DEF AuditInv

-----------------------------------------------------------------------------
\* A row changes at most under a merge, and not one that the merge listed.
RowsReplaced ==
    \A n \in Replicas : \A i \in 1 .. Len(chain[n]) :
        chain'[n][i] = chain[n][i] \/ (daemon[n].at = "merge" /\ i \notin daemon[n].read)

LEMMA RowsUntouched ==
  ASSUME LedgerTypes, chain' = chain
  PROVE  LedgersLengthen /\ RowsReplaced
<1>1. ASSUME NEW n \in Replicas PROVE Len(chain[n]) <= Len(chain'[n])
  <2> PICK k : k = Len(chain[n])
    OBVIOUS
  <2>1. k \in Nat /\ Len(chain'[n]) = k
    BY DEF LedgerTypes
  <2> QED BY <2>1
<1> QED BY <1>1 DEF LedgersLengthen, RowsReplaced

\* A handler of n goes on, not to a merge, and sends no rows.
LEMMA HandlerGoesOn ==
  ASSUME AuditInv, UNCHANGED << chain, drawn, healed, overwritten >>, RequestTypes',
         NEW n \in Replicas, NEW d, HandlerFits(n, d), d.at # "merge",
         daemon' = [daemon EXCEPT ![n] = d],
         \A m \in auditNet' : m \in auditNet \/ (MessageFits(m) /\ m.type # "logs_response")
  PROVE  AuditInv' /\ LedgersLengthen /\ RowsReplaced
<1>1. DOMAIN daemon = Replicas /\ LedgerTypes
  BY DEF AuditInv, LedgersFit
<1>2. /\ DOMAIN daemon' = Replicas /\ daemon'[n] = d
      /\ \A x \in Replicas \ {n} : daemon'[x] = daemon[x]
  BY <1>1
<1>3. HandlerCopies(n, daemon'[n])
  BY <1>2 DEF HandlerCopies
<1>4. \A m \in auditNet' : m \in auditNet \/ (MessageFits(m) /\ (~overwritten => MessageCopies(m)))
  BY DEF MessageCopies
<1>5. ASSUME NEW i, NEW r, Placed(i, r)' PROVE Placed(i, r)
  <2>1. CASE \E x \in Replicas : i \in 1 .. Len(chain'[x]) /\ r = chain'[x][i]
    BY <2>1 DEF Placed
  <2>2. CASE \E m \in auditNet' : m.type = "logs_response"
               /\ \E k \in 1 .. Len(m.logs) : i = m.id + k - 1 /\ r = m.logs[k]
    BY <2>2 DEF Placed
  <2>3. CASE \E x \in Replicas : daemon'[x].at = "merge"
               /\ \E k \in 1 .. Len(daemon'[x].rest) : i = daemon'[x].id + k - 1 /\ r = daemon'[x].rest[k]
    <3>1. PICK x \in Replicas : daemon'[x].at = "merge"
               /\ \E k \in 1 .. Len(daemon'[x].rest) : i = daemon'[x].id + k - 1 /\ r = daemon'[x].rest[k]
      BY <2>3
    <3>2. x # n
      BY <1>2, <3>1
    <3>3. daemon'[x] = daemon[x]
      BY <1>2, <3>2
    <3> QED BY <3>1, <3>3 DEF Placed
  <2> QED BY <1>5, <2>1, <2>2, <2>3 DEF Placed
<1>6. \A x \in Replicas : \/ daemon'[x] = daemon[x]
                          \/ /\ HandlerFits(x, daemon'[x])
                             /\ ~overwritten => HandlerCopies(x, daemon'[x])
  BY <1>2, <1>3
<1>7. AuditInv'
  BY <1>2, <1>4, <1>5, <1>6, LedgersStay
<1> QED BY <1>1, <1>7, RowsUntouched

\* A response lists rows of the ledger it comes from, at the ids they have there.
LEMMA RequestKeeps ==
  ASSUME AuditInv, NEW m \in auditNet, ProcessRequest(m)
  PROVE  AuditInv' /\ LedgersLengthen /\ RowsReplaced
<1> PICK c : c = chain[m.to]
  OBVIOUS
<1> PICK k : k = Len(chain[m.to])
  OBVIOUS
<1> PICK l : l = Len(chain[m.from])
  OBVIOUS
<1> PICK logs : logs = GetLogsAfter(c, m.after)
  OBVIOUS
<1> PICK r : r = [type |-> "logs_response", to |-> m.from, from |-> m.to, id |-> m.after + 1, logs |-> logs]
  OBVIOUS
<1>1. /\ m.type = "logs_request" /\ auditNet' = (auditNet \ {m}) \cup {r}
      /\ UNCHANGED << chain, pending, peerStates, drawn, daemon, healed, overwritten >>
  BY DEF ProcessRequest
<1>2. LedgersFit /\ LedgerTypes /\ RequestTypes /\ DOMAIN daemon = Replicas
  BY DEF AuditInv, LedgersFit
<1>3. /\ m.to \in Replicas /\ m.from \in Replicas /\ m.from # m.to
      /\ m.after \in Nat /\ m.after < k /\ m.after <= l
  <2>1. MessageFits(m)
    BY <1>2 DEF LedgersFit
  <2> QED BY <1>1, <2>1 DEF MessageFits
<1>4. c \in Seq(AuditRecords) /\ k \in Nat /\ l \in Nat /\ Len(c) = k
  BY <1>2, <1>3, LenProperties DEF LedgerTypes
<1>5. /\ logs \in Seq(AuditRecords) /\ Len(logs) = k - m.after
      /\ \A i \in 1 .. (k - m.after) : logs[i] = c[m.after + i]
  <2>1. m.after + 1 \in Int /\ k \in Int /\ m.after + 1 <= k
    BY <1>3, <1>4
  <2>2. \A i \in (m.after + 1) .. k : c[i] \in AuditRecords
    BY <1>3, <1>4
  <2>3. /\ SubSeq(c, m.after + 1, k) \in Seq(AuditRecords)
        /\ Len(SubSeq(c, m.after + 1, k)) = IF m.after + 1 <= k THEN k - (m.after + 1) + 1 ELSE 0
        /\ \A i \in 1 .. k - (m.after + 1) + 1 : SubSeq(c, m.after + 1, k)[i] = c[m.after + 1 + i - 1]
    BY <2>1, <2>2, SubSeqProperties
  <2>4. k - (m.after + 1) + 1 = k - m.after /\ k - m.after \in Nat
    BY ONLY <1>3, <1>4
  <2>5. \A i \in 1 .. (k - m.after) : m.after + 1 + i - 1 = m.after + i
    BY ONLY <1>3, <1>4
  <2>6. logs = SubSeq(c, m.after + 1, k)
    BY <1>4 DEF GetLogsAfter
  <2>7. Len(logs) = k - m.after
    BY ONLY <2>1, <2>3, <2>4, <2>6
  <2>8. ASSUME NEW i \in 1 .. (k - m.after) PROVE logs[i] = c[m.after + i]
    <3>1. SubSeq(c, m.after + 1, k)[i] = c[m.after + 1 + i - 1]
      BY <2>3, <2>4
    <3> QED BY <2>5, <2>6, <3>1
  <2> QED BY <2>3, <2>6, <2>7, <2>8
<1>6. \A i \in 1 .. Len(logs) : m.after + 1 + i - 1 \in 1 .. k /\ logs[i] = c[m.after + 1 + i - 1]
  <2> SUFFICES ASSUME NEW i \in 1 .. Len(logs)
               PROVE  m.after + 1 + i - 1 \in 1 .. k /\ logs[i] = c[m.after + 1 + i - 1]
    OBVIOUS
  <2>1. i \in 1 .. (k - m.after)
    BY <1>5
  <2>2. m.after + 1 + i - 1 = m.after + i /\ m.after + i \in 1 .. k
    BY ONLY <1>3, <1>4, <2>1
  <2> QED BY <1>5, <2>1, <2>2
<1>7. /\ r.type = "logs_response" /\ r.to = m.from /\ r.from = m.to
      /\ r.id = m.after + 1 /\ r.logs = logs
  OBVIOUS
<1>8. MessageFits(r)
  <2> PICK t : t = Len(logs)
    OBVIOUS
  <2>1. t = k - m.after
    BY <1>5
  <2>2. m.after + 1 \in Nat \ {0} /\ m.after + 1 <= l + 1
    BY ONLY <1>3, <1>4
  <2>3. m.after + 1 + t - 1 <= k /\ t # 0
    BY ONLY <1>3, <1>4, <2>1
  <2>4. logs # << >>
    BY <2>3, EmptySeq
  <2>5. r.id + Len(r.logs) - 1 <= Len(chain[r.from])
    BY <1>7, <2>3
  <2> QED BY <1>3, <1>5, <1>7, <2>2, <2>4, <2>5 DEF MessageFits
<1>9. MessageCopies(r)
  BY <1>6, <1>7 DEF MessageCopies, CopyOf
<1>10. ASSUME NEW i, NEW x, Placed(i, x)' PROVE Placed(i, x)
  <2>1. CASE \E y \in Replicas : i \in 1 .. Len(chain'[y]) /\ x = chain'[y][i]
    BY <1>1, <2>1 DEF Placed
  <2>2. CASE \E y \in auditNet' : y.type = "logs_response"
               /\ \E j \in 1 .. Len(y.logs) : i = y.id + j - 1 /\ x = y.logs[j]
    <3>1. PICK y \in auditNet' : y.type = "logs_response"
               /\ \E j \in 1 .. Len(y.logs) : i = y.id + j - 1 /\ x = y.logs[j]
      BY <2>2
    <3>2. CASE y \in auditNet
      BY <3>1, <3>2 DEF Placed
    <3>3. CASE y = r
      <4>1. PICK j \in 1 .. Len(logs) : i = m.after + 1 + j - 1 /\ x = logs[j]
        BY <1>7, <3>1, <3>3
      <4>2. i \in 1 .. Len(chain[m.to]) /\ x = chain[m.to][i]
        BY <1>6, <4>1
      <4> QED BY <1>3, <4>2 DEF Placed
    <3> QED BY <1>1, <3>2, <3>3
  <2>3. CASE \E y \in Replicas : daemon'[y].at = "merge"
               /\ \E j \in 1 .. Len(daemon'[y].rest) : i = daemon'[y].id + j - 1 /\ x = daemon'[y].rest[j]
    BY <1>1, <2>3 DEF Placed
  <2> QED BY <1>10, <2>1, <2>2, <2>3 DEF Placed
<1>11. RequestTypes' /\ DOMAIN daemon' = Replicas
  BY <1>1, <1>2 DEF RequestTypes
<1>12. \A y \in auditNet' : y \in auditNet \/ (MessageFits(y) /\ (~overwritten => MessageCopies(y)))
  BY <1>1, <1>8, <1>9
<1>13. \A x \in Replicas : daemon'[x] = daemon[x]
  BY <1>1
<1>14. AuditInv'
  BY <1>1, <1>10, <1>11, <1>12, <1>13, LedgersStay
<1> QED BY <1>1, <1>2, <1>14, RowsUntouched

\* Records that continue the last listed row come after it, and the ledger is
\* then the provider's up to there.
LEMMA ResponseContinues ==
  ASSUME AuditInv, NEW m \in auditNet, m.type = "logs_response", Continues(chain[m.to], m.logs)
  PROVE  /\ \A x \in Logs(chain[m.to]) : x \in Nat /\ x < m.id
         /\ ~overwritten => Agree(chain[m.to], chain[m.from], m.id - 1)
<1> PICK c : c = chain[m.to]
  OBVIOUS
<1> PICK o : o = chain[m.from]
  OBVIOUS
<1> PICK id : id = m.id
  OBVIOUS
<1> PICK logs : logs = m.logs
  OBVIOUS
<1>1. LedgersFit /\ LedgerTypes /\ WellPlaced
  BY DEF AuditInv, LedgersFit
<1>2. /\ m.to \in Replicas /\ m.from \in Replicas
      /\ id \in Nat \ {0} /\ logs \in Seq(AuditRecords) /\ logs # << >>
      /\ id + Len(logs) - 1 <= Len(o)
  <2>1. MessageFits(m)
    BY <1>1 DEF LedgersFit
  <2> QED BY <2>1 DEF MessageFits
<1>3. /\ c \in Seq(AuditRecords) /\ o \in Seq(AuditRecords) /\ Len(c) \in Nat /\ Len(o) \in Nat
      /\ Len(logs) \in Nat \ {0}
  BY <1>1, <1>2, LenProperties, EmptySeq DEF LedgerTypes
<1>4. 1 \in 1 .. Len(logs) /\ logs[1].prev = LastLogHash(c)
  BY <1>3 DEF Continues
<1>5. Placed(id, logs[1])
  <2>1. id = id + 1 - 1
    BY <1>2
  <2> QED BY <1>4, <2>1 DEF Placed
<1>6. id \in 1 .. Len(o)
  <2> PICK l : l = Len(logs)
    OBVIOUS
  <2> PICK k : k = Len(o)
    OBVIOUS
  <2>1. id \in Nat \ {0} /\ l \in Nat \ {0} /\ k \in Nat /\ id + l - 1 <= k
    BY <1>2, <1>3
  <2>2. id \in 1 .. k
    BY ONLY <2>1
  <2> QED BY <2>2
<1>7. /\ \A i, r : Placed(i, r) => i \in Nat \ {0} /\ r.hash \in 1 .. drawn
      /\ \A i, r, j, s : Placed(i, r) /\ Placed(j, s) => (r.prev = s.hash => i = j + 1)
  BY <1>1 DEF WellPlaced
<1>8. \A i \in 1 .. Len(o) : Placed(i, o[i])
  BY <1>2 DEF Placed
<1>9. drawn \in Nat
  BY <1>1 DEF LedgerTypes
<1>10. ASSUME ~overwritten
       PROVE  /\ logs[1] = o[id] /\ VerifyChainIntegrity(o) /\ SharesPast(c, o)
  <2>1. LedgersMatch /\ MessageCopies(m)
    BY <1>10 DEF AuditInv, LedgersMatch
  <2>2. logs[1] = o[id + 1 - 1]
    BY <1>4, <2>1 DEF MessageCopies, CopyOf
  <2>3. id + 1 - 1 = id
    BY <1>2
  <2> QED BY <1>2, <2>1, <2>2, <2>3 DEF LedgersMatch
<1>11. CASE Logs(c) = {}
  <2>1. ASSUME ~overwritten PROVE Agree(c, o, id - 1)
    <3>1. logs[1].prev = 0
      BY <1>4, <1>11 DEF LastLogHash, Genesis
    <3>2. id = 1
      <4> SUFFICES ASSUME id # 1 PROVE FALSE
        OBVIOUS
      <4>1. id - 1 \in 1 .. Len(o)
        BY <1>3, <1>6
      <4>2. o[id].prev = o[id - 1].hash
        BY <1>6, <1>10, <2>1 DEF VerifyChainIntegrity
      <4>3. o[id - 1].hash \in 1 .. drawn
        BY <1>7, <1>8, <4>1
      <4> QED BY <1>9, <1>10, <2>1, <3>1, <4>2, <4>3
    <3> QED BY <3>2 DEF Agree
  <2> QED BY <1>11, <2>1
<1>12. CASE Logs(c) # {}
  <2>1. PICK p \in Logs(c) : (\A x \in Logs(c) : x <= p) /\ LastLogHash(c) = c[p].hash
    BY <1>3, <1>12, SomeLogs
  <2>2. Logs(c) \subseteq 1 .. Len(c)
    BY DEF Logs
  <2>3. p \in 1 .. Len(c) /\ Placed(p, c[p])
    BY <1>2, <2>1, <2>2 DEF Placed
  <2>4. id = p + 1
    BY <1>4, <1>5, <1>7, <2>1, <2>3
  <2>5. \A x \in Logs(c) : x \in Nat /\ x < id
    <3> SUFFICES ASSUME NEW x \in Logs(c) PROVE x \in Nat /\ x < id
      OBVIOUS
    <3>1. x \in Nat /\ p \in Nat /\ x <= p
      BY <1>3, <2>1, <2>2
    <3> QED BY ONLY <2>4, <3>1
  <2>6. ASSUME ~overwritten PROVE Agree(c, o, id - 1)
    <3>1. id # 1 /\ id - 1 = p /\ p \in 1 .. Len(o)
      BY <1>3, <1>6, <2>3, <2>4
    <3>2. o[id].prev = o[id - 1].hash
      BY <1>6, <1>10, <2>6, <3>1 DEF VerifyChainIntegrity
    <3>3. c[p].hash = o[p].hash
      BY <1>4, <1>10, <2>1, <2>6, <3>1, <3>2
    <3>4. Agree(c, o, p)
      BY <1>10, <2>3, <2>6, <3>1, <3>3 DEF SharesPast
    <3> QED BY <3>1, <3>4
  <2> QED BY <2>5, <2>6
<1> QED BY <1>11, <1>12

LEMMA ResponseKeeps ==
  ASSUME AuditInv, NEW m \in auditNet, ProcessResponse(m)
  PROVE  AuditInv' /\ LedgersLengthen /\ RowsReplaced
<1> PICK n : n = m.to
  OBVIOUS
<1>1. /\ m.type = "logs_response" /\ auditNet' = auditNet \ {m}
      /\ UNCHANGED << chain, pending, peerStates, drawn, healed, overwritten >>
  BY DEF ProcessResponse
<1>2. LedgersFit /\ LedgerTypes /\ RequestTypes /\ DOMAIN daemon = Replicas
  BY DEF AuditInv, LedgersFit
<1>3. /\ MessageFits(m) /\ n \in Replicas
      /\ m.from \in Replicas \ {n} /\ m.id \in Nat \ {0} /\ m.logs \in Seq(AuditRecords)
      /\ m.id <= Len(chain[n]) + 1 /\ m.id + Len(m.logs) - 1 <= Len(chain[m.from])
  <2>1. MessageFits(m)
    BY <1>2 DEF LedgersFit
  <2> QED BY <1>1, <2>1 DEF MessageFits
<1>4. RequestTypes'
  BY <1>1, <1>2 DEF RequestTypes
<1>5. CASE ~Continues(chain[n], m.logs)
  <2> PICK d : d = [at |-> "violation"]
    OBVIOUS
  <2>1. daemon' = [daemon EXCEPT ![n] = d]
    BY <1>5 DEF ProcessResponse
  <2>2. d.at # "merge" /\ HandlerFits(n, d)
    BY DEF HandlerFits
  <2> QED BY <1>1, <1>3, <1>4, <2>1, <2>2, HandlerGoesOn
<1>6. CASE Continues(chain[n], m.logs)
  <2> PICK read : read = Logs(chain[n])
    OBVIOUS
  <2> PICK d : d = [at |-> "merge", from |-> m.from, read |-> read, id |-> m.id, rest |-> m.logs]
    OBVIOUS
  <2>1. daemon' = [daemon EXCEPT ![n] = d]
    BY <1>6 DEF ProcessResponse
  <2>2. d.at = "merge" /\ d.from = m.from /\ d.read = read /\ d.id = m.id /\ d.rest = m.logs
    OBVIOUS
  <2>3. daemon'[n] = d /\ \A x \in Replicas \ {n} : daemon'[x] = daemon[x]
    BY <1>2, <1>3, <2>1
  <2>4. DOMAIN daemon' = Replicas
    BY <1>2, <2>1
  <2>5. /\ \A x \in read : x \in Nat /\ x < m.id
        /\ ~overwritten => Agree(chain[n], chain[m.from], m.id - 1)
    BY <1>1, <1>6, ResponseContinues
  <2>6. HandlerFits(n, d)
    BY <1>3, <2>2, <2>5 DEF HandlerFits
  <2>7. ASSUME ~overwritten PROVE HandlerCopies(n, d)
    <3>1. CopyOf(m.logs, m.id, chain[m.from])
      BY <1>1, <2>7 DEF AuditInv, LedgersMatch, MessageCopies
    <3> QED BY <2>2, <2>5, <2>7, <3>1 DEF HandlerCopies
  <2>8. ASSUME NEW i, NEW x, Placed(i, x)' PROVE Placed(i, x)
    <3>1. CASE \E y \in Replicas : i \in 1 .. Len(chain'[y]) /\ x = chain'[y][i]
      BY <1>1, <3>1 DEF Placed
    <3>2. CASE \E y \in auditNet' : y.type = "logs_response"
                 /\ \E j \in 1 .. Len(y.logs) : i = y.id + j - 1 /\ x = y.logs[j]
      BY <1>1, <3>2 DEF Placed
    <3>3. CASE \E y \in Replicas : daemon'[y].at = "merge"
                 /\ \E j \in 1 .. Len(daemon'[y].rest) : i = daemon'[y].id + j - 1 /\ x = daemon'[y].rest[j]
      <4>1. PICK y \in Replicas : daemon'[y].at = "merge"
                 /\ \E j \in 1 .. Len(daemon'[y].rest) : i = daemon'[y].id + j - 1 /\ x = daemon'[y].rest[j]
        BY <3>3
      <4>2. CASE y = n
        <5>1. \E j \in 1 .. Len(m.logs) : i = m.id + j - 1 /\ x = m.logs[j]
          BY <2>2, <2>3, <4>1, <4>2
        <5> QED BY <1>1, <5>1 DEF Placed
      <4>3. CASE y # n
        <5>1. daemon'[y] = daemon[y]
          BY <2>3, <4>3
        <5> QED BY <4>1, <5>1 DEF Placed
      <4> QED BY <4>2, <4>3
    <3> QED BY <2>8, <3>1, <3>2, <3>3 DEF Placed
  <2>9. \A x \in Replicas : \/ daemon'[x] = daemon[x]
                            \/ /\ HandlerFits(x, daemon'[x])
                               /\ ~overwritten => HandlerCopies(x, daemon'[x])
    BY <2>3, <2>6, <2>7
  <2>10. \A y \in auditNet' : y \in auditNet \/ (MessageFits(y) /\ (~overwritten => MessageCopies(y)))
    BY <1>1
  <2>11. AuditInv'
    BY <1>1, <1>4, <2>4, <2>8, <2>9, <2>10, LedgersStay
  <2> QED BY <1>1, <1>2, <2>11, RowsUntouched
<1> QED BY <1>5, <1>6

\* The counts of the local ledger that a ping is compared with.
LEMMA CountsFit ==
  ASSUME AuditInv, NEW n \in Replicas
  PROVE  /\ LogCount(chain[n]) \in 0 .. MaxRecords /\ LogCount(chain[n]) <= Len(chain[n])
         /\ Len(chain[n]) \in Nat /\ MaxRecords \in Nat
<1> PICK c : c = chain[n]
  OBVIOUS
<1>1. c \in Seq(AuditRecords) /\ Len(c) <= MaxRecords /\ MaxRecords \in Nat
  BY AuditAssumption DEF AuditInv, LedgersFit, LedgerTypes
<1>2. LogCount(c) \in Nat /\ LogCount(c) <= Len(c)
  BY <1>1, SomeLogs
<1>3. Len(c) \in Nat
  BY <1>1
<1>4. LogCount(c) \in 0 .. MaxRecords
  BY ONLY <1>1, <1>2, <1>3
<1> QED BY <1>1, <1>2, <1>3, <1>4

\* Comparing a ping: a peer that is ahead is asked for what comes after.
LEMMA PingKeeps ==
  ASSUME AuditInv, NEW n \in Replicas, PingAhead(n) \/ PingFork(n) \/ PingQuiet(n)
  PROVE  AuditInv' /\ LedgersLengthen /\ RowsReplaced
<1> PICK p : p = daemon[n].from
  OBVIOUS
<1> PICK count : count = LogCount(chain[n])
  OBVIOUS
<1>1. /\ daemon[n].at = "ping" /\ NotePeer(n)
      /\ UNCHANGED << chain, drawn, healed, overwritten >>
  BY DEF PingAhead, PingFork, PingQuiet
<1>2. LedgersFit /\ RequestTypes /\ DOMAIN daemon = Replicas
  BY DEF AuditInv, LedgersFit
<1>3. p \in Replicas \ {n} /\ daemon[n].count \in Nat /\ daemon[n].count <= Len(chain[p])
  BY <1>1, <1>2 DEF LedgersFit, HandlerFits
<1>4. /\ count \in 0 .. MaxRecords /\ count <= Len(chain[n]) /\ MaxRecords \in Nat
      /\ Len(chain[n]) \in Nat /\ Len(chain[p]) \in Nat
  BY <1>3, CountsFit
<1>5. peerStates' \in [Replicas -> [Replicas -> PeerStatuses]]
  <2>1. PeerStatus(n) \in PeerStatuses
    BY DEF PeerStatus, PeerStatuses
  <2> QED BY <1>1, <1>2, <1>3, <2>1 DEF NotePeer, RequestTypes
<1>6. HandlerFits(n, NoHandler) /\ NoHandler.at # "merge"
  BY DEF HandlerFits, NoHandler
<1>7. CASE PingAhead(n)
  <2> PICK r : r = [type |-> "logs_request", to |-> p, from |-> n, after |-> count]
    OBVIOUS
  <2>1. /\ count < daemon[n].count
        /\ pending' = [pending EXCEPT ![n] = @ \cup {<< p, count >>}]
        /\ \A m \in auditNet' : m \in auditNet \/ m = r
        /\ daemon' = [daemon EXCEPT ![n] = NoHandler]
    BY <1>7 DEF PingAhead
  <2>2. RequestTypes'
    <3>1. << p, count >> \in Replicas \X (0 .. MaxRecords)
      BY <1>3, <1>4
    <3> QED BY <1>2, <1>5, <2>1, <3>1 DEF RequestTypes
  <2>3. MessageFits(r) /\ r.type # "logs_response"
    <3>1. count \in Nat /\ count < Len(chain[p])
      BY <1>3, <1>4, <2>1
    <3> QED BY <1>3, <1>4, <3>1 DEF MessageFits
  <2>4. \A m \in auditNet' : m \in auditNet \/ (MessageFits(m) /\ m.type # "logs_response")
    BY <2>1, <2>3
  <2> QED BY <1>1, <1>6, <2>1, <2>2, <2>4, HandlerGoesOn
<1>8. CASE PingFork(n)
  <2> PICK d : d = [at |-> "violation"]
    OBVIOUS
  <2>1. pending' = pending /\ auditNet' = auditNet /\ daemon' = [daemon EXCEPT ![n] = d]
    BY <1>8 DEF PingFork
  <2>2. HandlerFits(n, d) /\ d.at # "merge"
    BY DEF HandlerFits
  <2>3. RequestTypes'
    BY <1>2, <1>5, <2>1 DEF RequestTypes
  <2> QED BY <1>1, <2>1, <2>2, <2>3, HandlerGoesOn
<1>9. CASE PingQuiet(n)
  <2>1. pending' = pending /\ auditNet' = auditNet /\ daemon' = [daemon EXCEPT ![n] = NoHandler]
    BY <1>9 DEF PingQuiet
  <2>2. RequestTypes'
    BY <1>2, <1>5, <2>1 DEF RequestTypes
  <2> QED BY <1>1, <1>6, <2>1, <2>2, HandlerGoesOn
<1> QED BY <1>7, <1>8, <1>9

LEMMA RecoveryKeeps ==
  ASSUME AuditInv, NEW n \in Replicas, RecordRecovery(n)
  PROVE  AuditInv' /\ LedgersLengthen /\ RowsStay
<1> PICK d : d = daemon[n]
  OBVIOUS
<1> PICK h : h = [node |-> n, from |-> d.from, upTo |-> d.id - 1]
  OBVIOUS
<1>1. /\ d.at = "merge" /\ d.rest = << >> /\ Len(chain[n]) < MaxRecords
      /\ chain' = [chain EXCEPT ![n] = RecordedEvent(chain[n], "CONSENSUS_RECOVERY", DefaultTenant)]
      /\ drawn' = drawn + 1
      /\ pending' = [pending EXCEPT ![n] = @ \ {<<d.from, Cardinality(d.read)>>}]
      /\ healed' = healed \cup {h}
      /\ daemon' = [daemon EXCEPT ![n] = NoHandler]
      /\ UNCHANGED << peerStates, auditNet, overwritten >>
  BY DEF RecordRecovery
<1>2. LedgersFit /\ LedgerTypes /\ RequestTypes /\ DOMAIN daemon = Replicas
  BY DEF AuditInv, LedgersFit
<1>3. RequestTypes'
  BY <1>1, <1>2 DEF RequestTypes
<1>4. /\ d.from \in Replicas \ {n} /\ d.id \in Nat \ {0}
      /\ d.id <= Len(chain[n]) + 1 /\ d.id + Len(d.rest) - 1 <= Len(chain[d.from])
  BY <1>1, <1>2 DEF LedgersFit, HandlerFits
<1>5. HealFits(h)
  <2> PICK k : k = Len(chain[n])
    OBVIOUS
  <2> PICK l : l = Len(chain[d.from])
    OBVIOUS
  <2>1. k \in Nat /\ l \in Nat
    BY <1>2, <1>4, LenProperties DEF LedgerTypes
  <2>2. d.id \in Nat \ {0} /\ d.id <= k + 1 /\ d.id + 0 - 1 <= l
    BY <1>1, <1>4, EmptySeq
  <2> PICK u : u = d.id - 1
    OBVIOUS
  <2>3. u \in Nat /\ u <= k /\ u <= l
    BY <2>1, <2>2
  <2>4. h.node = n /\ h.from = d.from /\ h.upTo = u
    OBVIOUS
  <2> QED BY <1>4, <2>3, <2>4 DEF HealFits
<1>6. ASSUME ~overwritten
      PROVE  Agree(chain[h.node], chain[h.from], h.upTo)
  <2>1. HandlerCopies(n, d)
    BY <1>6 DEF AuditInv, LedgersMatch
  <2> QED BY <1>1, <2>1 DEF HandlerCopies
<1>7. /\ DOMAIN daemon' = Replicas
      /\ \A x \in Replicas : daemon'[x] = daemon[x] \/ daemon'[x].at = "idle"
  BY <1>1, <1>2 DEF NoHandler
<1>8. \A g \in healed' : g \in healed \/ HealFits(g)
  BY <1>1, <1>5
<1>9. ~overwritten => \A g \in healed' : g \in healed \/ Agree(chain[g.node], chain[g.from], g.upTo)
  BY <1>1, <1>6
<1>10. DefaultTenant \in AuditTenants
  BY AuditAssumption
<1>11. overwritten' = overwritten
  BY <1>1
<1> QED BY <1>1, <1>3, <1>7, <1>8, <1>9, <1>10, <1>11, OwnRecordKeeps

LEMMA DaemonKeeps ==
  ASSUME AuditInv, NEW n \in Replicas, DaemonStep(n)
  PROVE  AuditInv' /\ LedgersLengthen /\ RowsReplaced
<1>1. LedgersFit /\ LedgerTypes /\ RequestTypes /\ DOMAIN daemon = Replicas
  BY DEF AuditInv, LedgersFit
<1>2. HandlerFits(n, NoHandler) /\ NoHandler.at # "merge"
  BY DEF HandlerFits, NoHandler
<1>3. ASSUME RowsStay PROVE RowsReplaced
  BY <1>3 DEF RowsStay, RowsReplaced, Agree
<1>4. CASE BroadcastStatus(n) \/ TriggerManualSync(n)
  <2> PICK d : d = [at |-> "status", root |-> MerkleRoot(chain[n])]
    OBVIOUS
  <2>1. d.at # "merge" /\ HandlerFits(n, d)
    BY DEF HandlerFits
  <2>2. /\ daemon' = [daemon EXCEPT ![n] = d]
        /\ UNCHANGED << chain, pending, peerStates, drawn, healed, overwritten >>
    BY <1>4 DEF BroadcastStatus, TriggerManualSync, BeginStatus
  <2>3. RequestTypes'
    BY <1>1, <2>2 DEF RequestTypes
  <2>4. \A m \in auditNet' : \/ m \in auditNet
                             \/ \E p \in Replicas \ {n} : m = [type |-> "sync_query", to |-> p, from |-> n]
    BY <1>4 DEF BroadcastStatus, TriggerManualSync
  <2>5. \A m \in auditNet' : m \in auditNet \/ (MessageFits(m) /\ m.type # "logs_response")
    BY <2>4 DEF MessageFits
  <2> QED BY <2>1, <2>2, <2>3, <2>5, HandlerGoesOn
<1>5. CASE PublishStatus(n)
  <2>1. /\ daemon' = [daemon EXCEPT ![n] = NoHandler]
        /\ auditNet' = auditNet \cup Pings(n, daemon[n].root)
        /\ UNCHANGED << chain, pending, peerStates, drawn, healed, overwritten >>
    BY <1>5 DEF PublishStatus
  <2>2. RequestTypes'
    BY <1>1, <2>1 DEF RequestTypes
  <2>3. ASSUME NEW m \in Pings(n, daemon[n].root)
        PROVE  MessageFits(m) /\ m.type # "logs_response"
    <3>1. PICK p \in Replicas \ {n} :
            m = [type |-> "sync_ping", to |-> p, from |-> n, root |-> daemon[n].root,
                 count |-> LogCount(chain[n])]
      BY DEF Pings
    <3>2. /\ m.type = "sync_ping" /\ m.to = p /\ m.from = n /\ m.count = LogCount(chain[n])
      BY <3>1
    <3>3. m.count \in Nat /\ m.count <= Len(chain[n])
      BY <3>2, CountsFit
    <3> QED BY <3>2, <3>3 DEF MessageFits
  <2>4. \A m \in auditNet' : m \in auditNet \/ (MessageFits(m) /\ m.type # "logs_response")
    BY <2>1, <2>3
  <2> QED BY <1>2, <2>1, <2>2, <2>4, HandlerGoesOn
<1>6. CASE PingAhead(n) \/ PingFork(n) \/ PingQuiet(n)
  BY <1>6, PingKeeps
<1>7. CASE RecordViolation(n)
  <2>1. /\ Len(chain[n]) < MaxRecords
        /\ chain' = [chain EXCEPT ![n] = RecordedEvent(chain[n], "SOC2_VIOLATION", DefaultTenant)]
        /\ drawn' = drawn + 1 /\ daemon' = [daemon EXCEPT ![n] = NoHandler]
        /\ UNCHANGED << pending, peerStates, auditNet, healed >>
    BY <1>7 DEF RecordViolation
  <2>2. overwritten' = overwritten /\ DefaultTenant \in AuditTenants
    BY <1>7, AuditAssumption DEF RecordViolation
  <2>3. RequestTypes'
    BY <1>1, <2>1 DEF RequestTypes
  <2>4. /\ DOMAIN daemon' = Replicas
        /\ \A x \in Replicas : daemon'[x] = daemon[x] \/ daemon'[x].at = "idle"
    BY <1>1, <2>1 DEF NoHandler
  <2>5. auditNet' \subseteq auditNet /\ \A h \in healed' : h \in healed
    BY <2>1
  <2>6. AuditInv' /\ LedgersLengthen /\ RowsStay
    BY <2>1, <2>2, <2>3, <2>4, <2>5, OwnRecordKeeps
  <2> QED BY <1>3, <2>6
<1>8. CASE InsertNext(n)
  <2>1. /\ AuditInv' /\ LedgersLengthen
        /\ \A x \in 1 .. Len(chain[n]) : chain'[n][x] = chain[n][x] \/ x \notin daemon[n].read
        /\ \A p \in Replicas \ {n} : chain'[p] = chain[p]
    BY <1>8, InsertKeeps
  <2>2. daemon[n].at = "merge"
    BY <1>8 DEF InsertNext
  <2> QED BY <2>1, <2>2 DEF RowsReplaced
<1>9. CASE RecordRecovery(n)
  BY <1>3, <1>9, RecoveryKeeps
<1> QED BY <1>4, <1>5, <1>6, <1>7, <1>8, <1>9 DEF DaemonStep

LEMMA AuditStepKeeps ==
  ASSUME AuditInv, AuditNext
  PROVE  AuditInv' /\ LedgersLengthen /\ RowsReplaced
<1>1. LedgersFit /\ LedgerTypes /\ RequestTypes /\ DOMAIN daemon = Replicas
  BY DEF AuditInv, LedgersFit
<1>2. CASE \E n \in Replicas, t \in AuditTenants : RecordEvent(n, t)
  <2>1. PICK n \in Replicas, t \in AuditTenants : RecordEvent(n, t)
    BY <1>2
  <2>2. /\ Len(chain[n]) < MaxRecords
        /\ chain' = [chain EXCEPT ![n] = RecordedEvent(chain[n], "event", t)]
        /\ drawn' = drawn + 1
        /\ UNCHANGED << pending, peerStates, auditNet, daemon, healed >>
    BY <2>1 DEF RecordEvent
  <2>3. overwritten' = overwritten
    BY <2>1 DEF RecordEvent
  <2>4. RequestTypes' /\ DOMAIN daemon' = Replicas
    BY <1>1, <2>2 DEF RequestTypes
  <2>5. /\ auditNet' \subseteq auditNet /\ \A h \in healed' : h \in healed
        /\ \A x \in Replicas : daemon'[x] = daemon[x]
    BY <2>2
  <2>6. AuditInv' /\ LedgersLengthen /\ RowsStay
    BY <2>2, <2>3, <2>4, <2>5, OwnRecordKeeps
  <2> QED BY <2>6 DEF RowsStay, RowsReplaced, Agree
<1>3. CASE \E n \in Replicas : DaemonStep(n)
  BY <1>3, DaemonKeeps
<1>4. CASE \E m \in auditNet : Deliver(m) \/ LoseMessage(m)
  <2>1. PICK m \in auditNet : Deliver(m) \/ LoseMessage(m)
    BY <1>4
  <2>2. MessageFits(m) /\ m.to \in Replicas /\ m.from \in Replicas \ {m.to}
    BY <1>1 DEF LedgersFit, MessageFits
  <2>3. CASE ProcessQuery(m)
    <3> PICK d : d = [at |-> "status", root |-> MerkleRoot(chain[m.to])]
      OBVIOUS
    <3>1. d.at # "merge" /\ HandlerFits(m.to, d)
      BY DEF HandlerFits
    <3>2. /\ daemon' = [daemon EXCEPT ![m.to] = d] /\ auditNet' = auditNet \ {m}
          /\ UNCHANGED << chain, pending, peerStates, drawn, healed, overwritten >>
      BY <2>3 DEF ProcessQuery, BeginStatus
    <3>3. RequestTypes'
      BY <1>1, <3>2 DEF RequestTypes
    <3>4. \A x \in auditNet' : x \in auditNet
      BY <3>2
    <3> QED BY <2>2, <3>1, <3>2, <3>3, <3>4, HandlerGoesOn
  <2>4. CASE ProcessPing(m)
    <3> PICK root : root = MerkleRoot(chain[m.to])
      OBVIOUS
    <3> PICK d : d = [at |-> "ping", from |-> m.from, count |-> m.count, peerRoot |-> m.root, root |-> root]
      OBVIOUS
    <3>1. d.at = "ping" /\ d.from = m.from /\ d.count = m.count
      OBVIOUS
    <3>2. /\ m.type = "sync_ping"
          /\ daemon' = [daemon EXCEPT ![m.to] = d] /\ auditNet' = auditNet \ {m}
          /\ UNCHANGED << chain, pending, peerStates, drawn, healed, overwritten >>
      BY <2>4 DEF ProcessPing
    <3>3. HandlerFits(m.to, d) /\ d.at # "merge"
      BY <2>2, <3>1, <3>2 DEF HandlerFits, MessageFits
    <3>4. RequestTypes'
      BY <1>1, <3>2 DEF RequestTypes
    <3>5. \A x \in auditNet' : x \in auditNet
      BY <3>2
    <3> QED BY <2>2, <3>2, <3>3, <3>4, <3>5, HandlerGoesOn
  <2>5. CASE ProcessRequest(m)
    BY <2>5, RequestKeeps
  <2>6. CASE ProcessResponse(m)
    BY <2>6, ResponseKeeps
  <2>7. CASE LoseMessage(m)
    <3>1. /\ auditNet' = auditNet \ {m}
          /\ UNCHANGED << chain, pending, peerStates, drawn, daemon, healed, overwritten >>
      BY <2>7 DEF LoseMessage
    <3>2. RequestTypes' /\ DOMAIN daemon' = Replicas
      BY <1>1, <3>1 DEF RequestTypes
    <3>3. \A i, r : Placed(i, r)' => Placed(i, r)
      BY <3>1 DEF Placed
    <3>4. /\ \A x \in auditNet' : x \in auditNet
          /\ \A x \in Replicas : daemon'[x] = daemon[x]
      BY <3>1
    <3>5. AuditInv'
      BY <3>1, <3>2, <3>3, <3>4, LedgersStay
    <3> QED BY <1>1, <3>1, <3>5, RowsUntouched
  <2> QED BY <2>1, <2>3, <2>4, <2>5, <2>6, <2>7 DEF Deliver
<1> QED BY <1>2, <1>3, <1>4 DEF AuditNext

-----------------------------------------------------------------------------
LEMMA AgreeIsPrefix ==
  ASSUME NEW S, NEW c \in Seq(S), NEW d \in Seq(S), NEW k \in Nat,
         k <= Len(c), k <= Len(d), Agree(c, d, k)
  PROVE  IsPrefix(SubSeq(c, 1, k), d)
<1> PICK e : e = SubSeq(c, 1, k)
  OBVIOUS
<1> PICK f : f = SubSeq(d, 1, k)
  OBVIOUS
<1>1. 1 \in Int /\ k \in Int /\ k - 1 + 1 = k /\ (IF 1 <= k THEN k - 1 + 1 ELSE 0) = k
  OBVIOUS
<1>2. \A i \in 1 .. k : c[i] \in S /\ d[i] \in S /\ 1 + i - 1 = i /\ c[i] = d[i]
  BY DEF Agree
<1>3. e \in Seq(S) /\ Len(e) = k /\ \A i \in 1 .. k : e[i] = c[1 + i - 1]
  BY <1>1, <1>2, SubSeqProperties
<1>4. f \in Seq(S) /\ Len(f) = k /\ \A i \in 1 .. k : f[i] = d[1 + i - 1]
  BY <1>1, <1>2, SubSeqProperties
<1>5. e = f
  <2>1. \A i \in 1 .. k : e[i] = f[i]
    BY <1>2, <1>3, <1>4
  <2> QED BY <1>3, <1>4, <2>1
<1>6. SubSeq(e, 1, k) = e
  <2> PICK g : g = SubSeq(e, 1, k)
    OBVIOUS
  <2>1. \A i \in 1 .. k : e[i] \in S
    BY <1>3
  <2>2. g \in Seq(S) /\ Len(g) = k /\ \A i \in 1 .. k : g[i] = e[1 + i - 1]
    BY <1>1, <2>1, SubSeqProperties
  <2>3. \A i \in 1 .. k : g[i] = e[i]
    BY <1>2, <2>2
  <2>4. g = e
    BY <1>3, <2>2, <2>3
  <2> QED BY <2>4
<1> QED BY <1>3, <1>5, <1>6 DEF IsPrefix

LEMMA AuditHolds ==
  ASSUME AuditInv
  PROVE  AuditTypeOK /\ ChainsVerify /\ RecoveryMeansReplicated
<1>1. LedgersFit /\ LedgerTypes /\ RequestTypes
  BY DEF AuditInv, LedgersFit
<1>2. \A n \in Replicas : chain[n] \in Seq(AuditRecords) /\ Len(chain[n]) \in Nat /\ Len(chain[n]) <= MaxRecords
  BY <1>1 DEF LedgerTypes
<1>3. \A m \in auditNet : m.to \in Replicas /\ m.from \in Replicas \ {m.to}
  BY <1>1 DEF LedgersFit, MessageFits
<1>4. ASSUME NEW n \in Replicas, daemon[n].at = "merge"
      PROVE  daemon[n].id \in 1 .. (Len(chain[n]) + 1)
  <2>1. daemon[n].id \in Nat \ {0} /\ daemon[n].id <= Len(chain[n]) + 1
    BY <1>1, <1>4 DEF LedgersFit, HandlerFits
  <2> QED BY <1>2, <2>1
<1>5. AuditTypeOK
  <2>1. \A n \in Replicas : pending[n] \subseteq Replicas \X (0 .. MaxRecords)
    BY <1>1 DEF RequestTypes
  <2>2. peerStates \in [Replicas -> [Replicas -> {"unknown", "synchronized", "peer_ahead", "local_ahead"}]]
    BY <1>1 DEF RequestTypes, PeerStatuses
  <2> QED BY <1>2, <1>3, <1>4, <2>1, <2>2 DEF AuditTypeOK
<1>6. ChainsVerify
  BY DEF AuditInv, LedgersMatch, ChainsVerify
<1>7. ASSUME ~overwritten, NEW h \in healed
      PROVE  IsPrefix(SubSeq(chain[h.node], 1, h.upTo), chain[h.from])
  <2>1. /\ h.node \in Replicas /\ h.from \in Replicas /\ h.upTo \in Nat
        /\ h.upTo <= Len(chain[h.node]) /\ h.upTo <= Len(chain[h.from])
    BY <1>1 DEF LedgersFit, HealFits
  <2>2. Agree(chain[h.node], chain[h.from], h.upTo)
    BY <1>7 DEF AuditInv, LedgersMatch
  <2> QED BY <1>2, <2>1, <2>2, AgreeIsPrefix
<1>8. RecoveryMeansReplicated
  BY <1>7 DEF RecoveryMeansReplicated
<1> QED BY <1>5, <1>6, <1>8

LEMMA AuditInStores ==
  ASSUME AuditInv, [Next]_mcVars
  PROVE  AuditInv' /\ LedgersLengthen /\ (chain' = chain \/ RowsReplaced)
<1>1. AuditNext \/ UNCHANGED auditVars
  BY DEF Next, mcVars, hashes, MerkleStep, AuditStep, EventStep, AccountStep, WebhookStep,
         MeteringStep, LimiterStep, DeltaStep, MemoryStep, RetrievalStep, LessonStep, VectorStep
<1>2. CASE AuditNext
  BY <1>2, AuditStepKeeps
<1>3. CASE UNCHANGED auditVars
  <2>1. chain' = chain
    BY <1>3 DEF auditVars
  <2> QED BY <1>3, <2>1, AuditStays
<1> QED BY <1>1, <1>2, <1>3

\* Every hash chain verifies.  An audit ledger does, while daemons merge and
\* other threads record between any two calls of a handler, for as long as no
\* merge has replaced a row by another one: a response is merged only where it
\* continues what was listed, and then it copies the provider's rows
\* (process_response, insert_raw_event).  The event chains do while recorders
\* share one ledger object.
THEOREM StoresHashesVerify ==
  ASSUME OneLedgerObject
  PROVE  Spec => []HashesVerify
<1>1. Init => EventInv /\ AuditInv
  BY EventsStart, AuditStarts DEF Init
<1>2. EventInv /\ AuditInv /\ [Next]_mcVars => EventInv' /\ AuditInv'
  BY EventsInStores, AuditInStores
<1>3. EventInv /\ AuditInv => HashesVerify
  BY AuditHolds DEF EventInv, HashesVerify
<1> QED BY <1>1, <1>2, <1>3, PTL DEF Spec

\* What process_response announces as recovered is the provider's ledger, row
\* by row and what was there before included, unless a merge has replaced a
\* row; however many nodes record and heal, and whoever records in between.
THEOREM StoresRecoveryMeansReplicated == Spec => []RecoveryMeansReplicated
<1>1. Init => AuditInv
  BY AuditStarts DEF Init
<1>2. AuditInv /\ [Next]_mcVars => AuditInv'
  BY AuditInStores
<1>3. AuditInv => RecoveryMeansReplicated
  BY AuditHolds
<1> QED BY <1>1, <1>2, <1>3, PTL DEF Spec

\* No step of a recorder, of a daemon or of a merge takes a row away; and what
\* a merge replaces (insert_raw_event) are rows that process_response had not
\* listed when it compared: recorded since, or of another tenant.
THEOREM StoresLedgersAreAppendOnly == Spec => LedgerAppendOnly
<1>1. Init => AuditInv
  BY AuditStarts DEF Init
<1> DEFINE Kept == \A n \in Replicas :
                     /\ Len(chain[n]) <= Len(chain'[n])
                     /\ \A i \in 1 .. Len(chain[n]) :
                          \/ chain'[n][i] = chain[n][i]
                          \/ daemon[n].at = "merge" /\ i \notin daemon[n].read
<1>2. AuditInv /\ [Next]_mcVars => AuditInv' /\ [Kept]_chain
  BY AuditInStores DEF LedgersLengthen, RowsReplaced
<1> HIDE DEF Kept
<1>3. Spec => [][Kept]_chain
  BY <1>1, <1>2, PTL DEF Spec
<1> QED BY <1>3 DEF LedgerAppendOnly, Kept

-----------------------------------------------------------------------------
(* Vector memory.                                                           *)

VmVersions == [VmIds -> Nat]

VmTypes ==
    /\ vmClock \in Nat
    /\ vmEntries \in [VmNodes -> VmVersions]
    /\ vmDirty \in [VmNodes -> BOOLEAN]
    /\ DOMAIN vmRoot = VmNodes /\ DOMAIN vmSeen = VmNodes
    /\ \A p \in vmPackets : p.entries \in VmVersions

\* A node holds the newest version of an id that it stored or was sent.
NewestIsHeld ==
    \A n \in VmNodes, i \in VmIds :
        /\ vmEntries[n][i] = 0 \/ <<i, vmEntries[n][i]>> \in vmSeen[n]
        /\ \A v \in Nat : <<i, v>> \in vmSeen[n] => v <= vmEntries[n][i]

\* A version is the time of a write that has happened.
VersionsAreWrites ==
    /\ \A n \in VmNodes, i \in VmIds : vmEntries[n][i] <= vmClock
    /\ \A p \in vmPackets, i \in VmIds : p.entries[i] <= vmClock

VmRules ==
    [type : {"isolation", "drop"}, source : VmNodes, target : {"all"}]
      \cup [type : {"partition"}, source : VmNodes, target : VmNodes]

VmInv ==
    /\ VmTypes
    /\ NewestIsHeld
    /\ VersionsAreWrites
    /\ CachedRootIsCurrent
    /\ vmRules \subseteq VmRules
    /\ IsolationHolds

LEMMA VmStarts ==
  ASSUME VmInit
  PROVE  VmInv
<1>1. /\ vmClock = 0 /\ vmEntries = [n \in VmNodes |-> [i \in VmIds |-> 0]]
      /\ vmDirty = [n \in VmNodes |-> TRUE] /\ vmRoot = [n \in VmNodes |-> {}]
      /\ vmSeen = [n \in VmNodes |-> {}] /\ vmPackets = {} /\ vmRules = {} /\ vmThrough = << >>
  BY DEF VmInit
<1>2. [i \in VmIds |-> 0] \in VmVersions
  BY DEF VmVersions
<1>3. VmTypes
  BY <1>1, <1>2 DEF VmTypes
<1>4. NewestIsHeld /\ VersionsAreWrites /\ CachedRootIsCurrent
  BY <1>1 DEF NewestIsHeld, VersionsAreWrites, CachedRootIsCurrent
<1>5. IsolationHolds
  BY <1>1 DEF IsolationHolds
<1> QED BY <1>1, <1>3, <1>4, <1>5 DEF VmInv

LEMMA VmStays ==
  ASSUME VmInv, UNCHANGED vmVars
  PROVE  VmInv'
BY DEF VmInv, vmVars, VmTypes, NewestIsHeld, VersionsAreWrites, CachedRootIsCurrent, Root, IsolationHolds

\* A write, or a merge of what a peer exported, at node n: afterwards it holds
\* e, the newest of what it had and of what it was given.
LEMMA VmTaken ==
  ASSUME VmInv, NEW n \in VmNodes, NEW e \in VmVersions, NEW given, NEW dirty \in BOOLEAN,
         vmClock' \in Nat, vmClock <= vmClock',
         \A i \in VmIds : vmEntries[n][i] <= e[i] /\ e[i] <= vmClock',
         \A i \in VmIds : e[i] = vmEntries[n][i] \/ <<i, e[i]>> \in given,
         \A i \in VmIds, v \in Nat : <<i, v>> \in given => v <= e[i],
         (dirty = TRUE) \/ (e = vmEntries[n] /\ dirty = vmDirty[n]),
         vmEntries' = [vmEntries EXCEPT ![n] = e], vmDirty' = [vmDirty EXCEPT ![n] = dirty],
         vmSeen' = [vmSeen EXCEPT ![n] = @ \cup given],
         UNCHANGED << vmRoot, vmPackets, vmRules >>
  PROVE  VmTypes' /\ NewestIsHeld' /\ VersionsAreWrites' /\ CachedRootIsCurrent'
<1>1. /\ vmEntries' \in [VmNodes -> VmVersions] /\ vmEntries'[n] = e
      /\ \A m \in VmNodes \ {n} : vmEntries'[m] = vmEntries[m]
  BY DEF VmInv, VmTypes
<1>2. /\ vmDirty' \in [VmNodes -> BOOLEAN] /\ vmDirty'[n] = dirty
      /\ \A m \in VmNodes \ {n} : vmDirty'[m] = vmDirty[m]
  BY DEF VmInv, VmTypes
<1>3. /\ DOMAIN vmSeen' = VmNodes /\ vmSeen'[n] = vmSeen[n] \cup given
      /\ \A m \in VmNodes \ {n} : vmSeen'[m] = vmSeen[m]
  BY DEF VmInv, VmTypes
<1>4. VmTypes'
  BY <1>1, <1>2, <1>3 DEF VmInv, VmTypes
<1>5. NewestIsHeld'
  <2> SUFFICES ASSUME NEW m \in VmNodes, NEW i \in VmIds
               PROVE  /\ vmEntries'[m][i] = 0 \/ <<i, vmEntries'[m][i]>> \in vmSeen'[m]
                      /\ \A v \in Nat : <<i, v>> \in vmSeen'[m] => v <= vmEntries'[m][i]
    BY DEF NewestIsHeld
  <2>1. CASE m # n
    BY <1>1, <1>3, <2>1 DEF VmInv, NewestIsHeld
  <2>2. CASE m = n
    <3>1. e[i] = 0 \/ <<i, e[i]>> \in vmSeen[n] \cup given
      BY DEF VmInv, NewestIsHeld
    <3>2. ASSUME NEW v \in Nat, <<i, v>> \in vmSeen[n] \cup given
          PROVE  v <= e[i]
      <4>1. e[i] \in Nat /\ vmEntries[n][i] \in Nat /\ vmEntries[n][i] <= e[i]
        BY DEF VmInv, VmTypes, VmVersions
      <4>2. CASE <<i, v>> \in given
        BY <4>2
      <4>3. CASE <<i, v>> \in vmSeen[n]
        <5>1. v <= vmEntries[n][i]
          BY <4>3 DEF VmInv, NewestIsHeld
        <5> QED BY <4>1, <5>1
      <4> QED BY <3>2, <4>2, <4>3
    <3> QED BY <1>1, <1>3, <2>2, <3>1, <3>2
  <2> QED BY <2>1, <2>2
<1>6. VersionsAreWrites'
  <2>1. \A m \in VmNodes, i \in VmIds : vmEntries'[m][i] <= vmClock'
    <3> SUFFICES ASSUME NEW m \in VmNodes, NEW i \in VmIds PROVE vmEntries'[m][i] <= vmClock'
      OBVIOUS
    <3>1. vmEntries[m][i] \in Nat /\ vmEntries[m][i] <= vmClock /\ vmClock \in Nat
      BY DEF VmInv, VmTypes, VmVersions, VersionsAreWrites
    <3> QED BY <1>1, <3>1
  <2>2. \A p \in vmPackets, i \in VmIds : p.entries[i] <= vmClock'
    <3> SUFFICES ASSUME NEW p \in vmPackets, NEW i \in VmIds PROVE p.entries[i] <= vmClock'
      OBVIOUS
    <3>1. p.entries[i] \in Nat /\ p.entries[i] <= vmClock /\ vmClock \in Nat
      BY DEF VmInv, VmTypes, VmVersions, VersionsAreWrites
    <3> QED BY <3>1
  <2> QED BY <2>1, <2>2 DEF VersionsAreWrites
<1>7. CachedRootIsCurrent'
  <2> SUFFICES ASSUME NEW m \in VmNodes, ~vmDirty'[m] PROVE vmRoot'[m] = Root(vmEntries'[m])
    BY DEF CachedRootIsCurrent, Root
  <2>1. vmEntries'[m] = vmEntries[m] /\ ~vmDirty[m]
    BY <1>1, <1>2
  <2> QED BY <2>1 DEF VmInv, CachedRootIsCurrent
<1> QED BY <1>4, <1>5, <1>6, <1>7

LEMMA VmStored ==
  ASSUME VmInv, NEW n \in VmNodes, NEW i \in VmIds, StoreEntry(n, i)
  PROVE  VmInv'
<1> DEFINE v == vmClock + 1
           e == [vmEntries[n] EXCEPT ![i] = v]
<1>1. /\ vmClock \in Nat /\ vmEntries[n] \in VmVersions /\ v \in Nat
      /\ \A j \in VmIds : vmEntries[n][j] \in Nat /\ vmEntries[n][j] <= vmClock
  BY DEF VmInv, VmTypes, VmVersions, VersionsAreWrites
<1>2. /\ vmClock' = v /\ vmEntries' = [vmEntries EXCEPT ![n] = e]
      /\ vmDirty' = [vmDirty EXCEPT ![n] = TRUE]
      /\ vmSeen' = [vmSeen EXCEPT ![n] = @ \cup {<<i, v>>}]
      /\ UNCHANGED << vmRoot, vmPackets, vmRules, vmThrough >>
  BY DEF StoreEntry
<1>3. e \in VmVersions
  BY <1>1 DEF VmVersions
<1>4. e[i] = v /\ \A j \in VmIds \ {i} : e[j] = vmEntries[n][j]
  BY <1>1 DEF VmVersions
<1> HIDE DEF e, v
<1>5. v = vmClock + 1
  BY DEF v
<1>6. vmClock' \in Nat /\ vmClock <= vmClock'
  BY <1>1, <1>2, <1>5
<1>7. \A j \in VmIds : vmEntries[n][j] <= e[j] /\ e[j] <= vmClock'
  BY <1>1, <1>2, <1>4, <1>5
<1>8. \A j \in VmIds : e[j] = vmEntries[n][j] \/ <<j, e[j]>> \in {<<i, v>>}
  BY <1>4
<1>9. \A j \in VmIds, u \in Nat : <<j, u>> \in {<<i, v>>} => u <= e[j]
  BY <1>1, <1>4
<1>10. VmTypes' /\ NewestIsHeld' /\ VersionsAreWrites' /\ CachedRootIsCurrent'
  <2> PICK dirty : dirty = TRUE
    OBVIOUS
  <2> PICK given : given = {<<i, v>>}
    OBVIOUS
  <2>0. dirty \in BOOLEAN
    OBVIOUS
  <2>1. (dirty = TRUE) \/ (e = vmEntries[n] /\ dirty = vmDirty[n])
    OBVIOUS
  <2>2. vmDirty' = [vmDirty EXCEPT ![n] = dirty] /\ vmSeen' = [vmSeen EXCEPT ![n] = @ \cup given]
    BY <1>2
  <2>3. \A j \in VmIds : e[j] = vmEntries[n][j] \/ <<j, e[j]>> \in given
    BY <1>8
  <2>4. \A j \in VmIds, u \in Nat : <<j, u>> \in given => u <= e[j]
    BY <1>9
  <2> QED BY <1>2, <1>3, <1>6, <1>7, <2>0, <2>1, <2>2, <2>3, <2>4, VmTaken
<1>11. IsolationHolds'
  BY <1>2 DEF VmInv, IsolationHolds
<1> QED BY <1>2, <1>10, <1>11 DEF VmInv

\* What passes the rules of this moment passes no isolation or partition.
LEMMA PassedIsAllowed ==
  ASSUME VmInv, NEW n \in VmNodes, NEW p, n # p, MayPass(n, p),
         vmThrough' = [at |-> n, peer |-> p, rules |-> vmRules]
  PROVE  IsolationHolds'
<1>1. vmThrough'.at = n /\ vmThrough'.peer = p /\ vmThrough'.rules = vmRules
  OBVIOUS
<1>2. ASSUME NEW r \in vmRules, r.type = "isolation"
      PROVE  r.source \notin {n, p}
  <2>1. r.target = "all"
    BY <1>2 DEF VmInv, VmRules
  <2> QED BY <1>2, <2>1 DEF MayPass, Blocking, Matches
<1>3. ASSUME NEW r \in vmRules, r.type = "partition"
      PROVE  {r.source, r.target} # {n, p}
               \/ [r EXCEPT !.source = r.target, !.target = r.source] \notin vmRules
  <2> SUFFICES ASSUME {r.source, r.target} = {n, p},
                      [r EXCEPT !.source = r.target, !.target = r.source] \in vmRules
               PROVE  FALSE
    OBVIOUS
  <2> PICK back : back = [r EXCEPT !.source = r.target, !.target = r.source]
    OBVIOUS
  <2>1. r \in [type : {"partition"}, source : VmNodes, target : VmNodes]
    BY <1>3 DEF VmInv, VmRules
  <2>2. back.type = "partition" /\ back.source = r.target /\ back.target = r.source /\ back \in vmRules
    BY <2>1
  <2>3. CASE r.source = n /\ r.target = p
    BY <1>3, <2>3 DEF MayPass, Blocking, Matches
  <2>4. CASE r.source = p /\ r.target = n
    BY <2>2, <2>4 DEF MayPass, Blocking, Matches
  <2> QED BY <2>3, <2>4
<1> QED BY <1>1, <1>2, <1>3 DEF IsolationHolds

LEMMA VmMerged ==
  ASSUME VmInv, NEW n \in VmNodes, NEW p \in vmPackets, SyncVectorMemory(n, p)
  PROVE  VmInv'
<1> DEFINE old == vmEntries[n]
           e == [i \in VmIds |-> IF Newer(old[i], p.entries[i]) THEN p.entries[i] ELSE old[i]]
           changed == \E i \in VmIds : Newer(old[i], p.entries[i])
           dirty == vmDirty[n] \/ changed
           given == Root(p.entries)
<1>1. /\ vmClock \in Nat /\ old \in VmVersions /\ p.entries \in VmVersions
      /\ \A j \in VmIds : old[j] \in Nat /\ old[j] <= vmClock
      /\ \A j \in VmIds : p.entries[j] \in Nat /\ p.entries[j] <= vmClock
      /\ vmDirty[n] \in BOOLEAN
  BY DEF VmInv, VmTypes, VmVersions, VersionsAreWrites
<1>2. /\ vmEntries' = [vmEntries EXCEPT ![n] = e]
      /\ vmDirty' = [vmDirty EXCEPT ![n] = dirty]
      /\ vmSeen' = [vmSeen EXCEPT ![n] = @ \cup given]
      /\ vmThrough' = [at |-> n, peer |-> p.from, rules |-> vmRules]
      /\ UNCHANGED << vmRoot, vmPackets, vmClock, vmRules >>
      /\ n # p.from /\ MayPass(n, p.from)
  BY DEF SyncVectorMemory, MergeEntries, MergeDirty
<1>3. \A j \in VmIds : e[j] = IF p.entries[j] > old[j] THEN p.entries[j] ELSE old[j]
  BY DEF Newer
<1>4. e \in VmVersions
  BY <1>1 DEF VmVersions
<1>5. changed \/ e = old
  BY <1>1 DEF VmVersions
<1>6. \A i, v : <<i, v>> \in given <=> i \in VmIds /\ v = p.entries[i] /\ v # 0
  BY DEF Root
<1> HIDE DEF e, given, changed
<1>7. \A j \in VmIds : old[j] <= e[j] /\ e[j] <= vmClock
  BY <1>1, <1>3
<1>8. \A j \in VmIds : e[j] = old[j] \/ <<j, e[j]>> \in given
  BY <1>1, <1>3, <1>6
<1>9. \A j \in VmIds, u \in Nat : <<j, u>> \in given => u <= e[j]
  BY <1>1, <1>3, <1>6
<1>10. dirty \in BOOLEAN
  OBVIOUS
<1>13. (dirty = TRUE) \/ (e = old /\ dirty = vmDirty[n])
  <2>1. CASE changed
    <3>1. dirty <=> TRUE
      BY <2>1
    <3> QED BY <1>10, <3>1
  <2>2. CASE ~changed
    <3>1. dirty <=> vmDirty[n]
      BY <2>2
    <3>2. dirty = vmDirty[n]
      BY <1>1, <1>10, <3>1
    <3> QED BY <1>5, <2>2, <3>2
  <2> QED BY <2>1, <2>2
<1> HIDE DEF dirty
<1>11. VmTypes' /\ NewestIsHeld' /\ VersionsAreWrites' /\ CachedRootIsCurrent'
  <2>1. vmClock' \in Nat /\ vmClock <= vmClock'
    BY <1>1, <1>2
  <2>2. \A j \in VmIds : vmEntries[n][j] <= e[j] /\ e[j] <= vmClock'
    BY <1>2, <1>7
  <2> QED BY <1>2, <1>4, <1>8, <1>9, <1>10, <1>13, <2>1, <2>2, VmTaken
<1>12. IsolationHolds'
  BY <1>2, PassedIsAllowed
<1> QED BY <1>2, <1>11, <1>12 DEF VmInv

LEMMA VmStepKeeps ==
  ASSUME VmInv, VmNext
  PROVE  VmInv'
<1>1. ASSUME UNCHANGED << vmEntries, vmRoot, vmDirty, vmClock, vmPackets, vmSeen, vmThrough >>,
             vmRules' \subseteq VmRules
      PROVE  VmInv'
  BY <1>1 DEF VmInv, VmTypes, NewestIsHeld, VersionsAreWrites, CachedRootIsCurrent, Root, IsolationHolds
<1>2. ASSUME NEW n \in VmNodes, ReadRoot(n)
      PROVE  VmInv'
  <2>1. /\ vmRoot' = [vmRoot EXCEPT ![n] = Reported(n)] /\ vmDirty' = [vmDirty EXCEPT ![n] = FALSE]
        /\ UNCHANGED << vmEntries, vmPackets, vmClock, vmRules, vmSeen, vmThrough >>
    BY <1>2 DEF ReadRoot
  <2>2. VmTypes' /\ NewestIsHeld' /\ VersionsAreWrites' /\ IsolationHolds'
    BY <2>1 DEF VmInv, VmTypes, NewestIsHeld, VersionsAreWrites, IsolationHolds
  <2>3. Reported(n) = Root(vmEntries[n])
    BY DEF VmInv, CachedRootIsCurrent, Reported
  <2>4. CachedRootIsCurrent'
    <3> SUFFICES ASSUME NEW m \in VmNodes, ~vmDirty'[m] PROVE vmRoot'[m] = Root(vmEntries[m])
      BY <2>1 DEF CachedRootIsCurrent, Root
    <3>1. CASE m = n
      BY <2>1, <2>3, <3>1 DEF VmInv, VmTypes
    <3>2. CASE m # n
      BY <2>1, <3>2 DEF VmInv, VmTypes, CachedRootIsCurrent
    <3> QED BY <3>1, <3>2
  <2> QED BY <2>1, <2>2, <2>4 DEF VmInv
<1>3. ASSUME NEW n \in VmNodes, NEW m \in VmNodes, ExportEntries(n, m)
      PROVE  VmInv'
  <2>1. UNCHANGED << vmEntries, vmRoot, vmDirty, vmClock, vmRules, vmSeen, vmThrough >>
    BY <1>3 DEF ExportEntries
  <2>2. PICK delta : vmPackets' = vmPackets \cup
          {[from |-> n, entries |-> [i \in VmIds |-> IF i \in delta THEN vmEntries[n][i] ELSE 0]]}
    BY <1>3 DEF ExportEntries
  <2> PICK e : e = [i \in VmIds |-> IF i \in delta THEN vmEntries[n][i] ELSE 0]
    OBVIOUS
  <2>3. /\ vmClock \in Nat
        /\ \A i \in VmIds : vmEntries[n][i] \in Nat /\ vmEntries[n][i] <= vmClock
    BY DEF VmInv, VmTypes, VmVersions, VersionsAreWrites
  <2>4. e \in VmVersions /\ \A i \in VmIds : e[i] <= vmClock
    BY <2>3 DEF VmVersions
  <2>5. \A p \in vmPackets' : p.entries \in VmVersions /\ \A i \in VmIds : p.entries[i] <= vmClock
    BY <2>2, <2>4 DEF VmInv, VmTypes, VersionsAreWrites
  <2> QED BY <2>1, <2>5 DEF VmInv, VmTypes, NewestIsHeld, VersionsAreWrites, CachedRootIsCurrent,
                            Root, IsolationHolds
<1>4. ASSUME NEW n \in VmNodes, NEW m \in VmNodes, CreatePartition(n, m)
      PROVE  VmInv'
  BY <1>1, <1>4 DEF CreatePartition, VmInv, VmRules
<1>5. ASSUME NEW r \in Injected, InjectFault(r)
      PROVE  VmInv'
  BY <1>1, <1>5 DEF InjectFault, Injected, VmInv, VmRules
<1>6. ASSUME NEW r \in vmRules, ClearFault(r)
      PROVE  VmInv'
  BY <1>1, <1>6 DEF ClearFault, VmInv
<1>7. CASE ClearAllFaults
  BY <1>1, <1>7 DEF ClearAllFaults, VmInv
<1> QED BY <1>2, <1>3, <1>4, <1>5, <1>6, <1>7, VmStored, VmMerged DEF VmNext

LEMMA VmConverges ==
  ASSUME VmInv
  PROVE  VectorsConverge
<1> SUFFICES ASSUME NEW n \in VmNodes, NEW m \in VmNodes, vmSeen[n] = vmSeen[m]
             PROVE  vmEntries[n] = vmEntries[m] /\ Reported(n) = Reported(m)
  BY DEF VectorsConverge
<1>1. ASSUME NEW i \in VmIds
      PROVE  vmEntries[n][i] = vmEntries[m][i]
  <2>1. vmEntries[n][i] \in Nat /\ vmEntries[m][i] \in Nat
    BY DEF VmInv, VmTypes, VmVersions
  <2>2. vmEntries[n][i] <= vmEntries[m][i] /\ vmEntries[m][i] <= vmEntries[n][i]
    <3>1. ASSUME NEW x \in VmNodes, NEW y \in VmNodes, vmSeen[x] = vmSeen[y]
          PROVE  vmEntries[x][i] <= vmEntries[y][i]
      <4>1. vmEntries[x][i] \in Nat /\ vmEntries[y][i] \in Nat
        BY DEF VmInv, VmTypes, VmVersions
      <4>2. CASE vmEntries[x][i] = 0
        BY <4>1, <4>2
      <4>3. CASE <<i, vmEntries[x][i]>> \in vmSeen[x]
        BY <3>1, <4>1, <4>3 DEF VmInv, NewestIsHeld
      <4> QED BY <4>2, <4>3 DEF VmInv, NewestIsHeld
    <3> QED BY <3>1
  <2> QED BY <2>1, <2>2
<1>2. vmEntries[n] = vmEntries[m]
  BY <1>1 DEF VmInv, VmTypes, VmVersions
<1>3. Reported(n) = Root(vmEntries[n]) /\ Reported(m) = Root(vmEntries[m])
  BY DEF VmInv, CachedRootIsCurrent, Reported
<1> QED BY <1>2, <1>3

-----------------------------------------------------------------------------
(* Lessons.  The file is whole while no writer begins in the middle of      *)
(* another: one that does puts back what it read, and removes what the      *)
(* other has added meanwhile.                                               *)

NobodyElse(v) == \A w \in Servers \ {v} : lsPend[w].at = "idle"
OneAtATime == \A v \in Servers : lsPend[v].at # "idle" => NobodyElse(v)

BatchIds == UNION {{b[i] : i \in DOMAIN b} : b \in Batches}
LessonIdSet == (Nat \X Mistakes) \cup PushedIds \cup BatchIds
LessonSet == [id : LessonIdSet, from : {"sync", "push", "summary"}, by : Senders \cup Servers]

LsTypes ==
    /\ lsFile \in Seq(LessonSet)
    /\ lsDay \in Nat
    /\ lsPend \in [Servers -> [at : {"idle", "scanned", "read"}, new : Seq(LessonSet), text : Seq(LessonSet)]]

Signed(list) == \A i \in DOMAIN list : list[i].from = "push" => list[i].by \in TrustedSenders

\* Wherever a pushed lesson waits, it was signed.
PendingWereSigned == \A v \in Servers : Signed(lsPend[v].new) /\ Signed(lsPend[v].text)

LsInv == LsTypes /\ PushedWereSigned /\ PendingWereSigned

\* An entry of a scan or a push repeats no id before it.
Fresh(list) == \A i, j \in DOMAIN list : i < j /\ list[j].from # "summary" => list[i].id # list[j].id

\* The one writer writes back the file as it is, with lessons that are new to it.
WritesAreWhole ==
    \A v \in Servers :
        /\ lsPend[v].at = "read" => lsPend[v].text = lsFile
        /\ lsPend[v].at # "idle" => Fresh(lsFile \o lsPend[v].new)

LsWhole == lsOverlap \/ (OneAtATime /\ WritesAreWhole /\ Fresh(lsFile))

LEMMA LsStarts ==
  ASSUME LessonsInit
  PROVE  LsInv /\ LsWhole
<1>1. lsFile = << >> /\ lsDay = 1 /\ lsPend = [v \in Servers |-> IdlePend]
  BY DEF LessonsInit
<1>2. << >> \in Seq(LessonSet) /\ DOMAIN << >> = {}
  OBVIOUS
<1>3. IdlePend \in [at : {"idle", "scanned", "read"}, new : Seq(LessonSet), text : Seq(LessonSet)]
  BY <1>2 DEF IdlePend
<1>4. \A v \in Servers : lsPend[v].at = "idle" /\ lsPend[v].new = << >> /\ lsPend[v].text = << >>
  BY <1>1 DEF IdlePend
<1>5. LsTypes
  BY <1>1, <1>2, <1>3 DEF LsTypes
<1>6. PushedWereSigned /\ PendingWereSigned /\ Fresh(lsFile)
  BY <1>1, <1>2, <1>4 DEF PushedWereSigned, PendingWereSigned, Signed, Fresh
<1>7. OneAtATime /\ WritesAreWhole
  BY <1>4 DEF OneAtATime, WritesAreWhole
<1> QED BY <1>5, <1>6, <1>7 DEF LsInv, LsWhole

LEMMA LsStays ==
  ASSUME LsInv, UNCHANGED lsVars
  PROVE  /\ LsInv'
         /\ LsWhole => LsWhole'
BY DEF LsInv, lsVars, LsTypes, PushedWereSigned, PendingWereSigned, LsWhole, OneAtATime, NobodyElse,
       WritesAreWhole, Fresh

\* A writer has something to add.
LEMMA LsPended ==
  ASSUME LsInv, NEW v \in Servers, NEW new \in Seq(LessonSet), NEW text \in Seq(LessonSet),
         NEW at \in {"idle", "scanned", "read"}, Signed(new), Signed(text),
         lsPend' = [lsPend EXCEPT ![v] = [at |-> at, new |-> new, text |-> text]],
         lsFile' \in Seq(LessonSet), Signed(lsFile'), lsDay' = lsDay
  PROVE  LsInv'
<1> DEFINE p == [at |-> at, new |-> new, text |-> text]
<1>1. /\ p \in [at : {"idle", "scanned", "read"}, new : Seq(LessonSet), text : Seq(LessonSet)]
      /\ p.new = new /\ p.text = text
  OBVIOUS
<1> HIDE DEF p
<1>2. lsPend' = [lsPend EXCEPT ![v] = p]
  BY DEF p
<1>3. LsTypes'
  BY <1>1, <1>2 DEF LsInv, LsTypes
<1>4. PendingWereSigned'
  <2> SUFFICES ASSUME NEW w \in Servers PROVE Signed(lsPend'[w].new) /\ Signed(lsPend'[w].text)
    BY DEF PendingWereSigned, Signed
  <2>1. CASE w = v
    BY <1>1, <1>2, <2>1 DEF LsInv, LsTypes
  <2>2. CASE w # v
    <3>1. lsPend'[w] = lsPend[w]
      BY <1>2, <2>2 DEF LsInv, LsTypes
    <3> QED BY <3>1 DEF LsInv, PendingWereSigned
  <2> QED BY <2>1, <2>2
<1>5. PushedWereSigned'
  BY DEF Signed, PushedWereSigned
<1> QED BY <1>3, <1>4, <1>5 DEF LsInv

\* The one writer holds what it is about to write.
LEMMA LsPendedWhole ==
  ASSUME NEW v \in Servers, LsInv, WritesAreWhole, Fresh(lsFile), NobodyElse(v),
         NEW new, NEW text, NEW at,
         at = "read" => text = lsFile,
         at # "idle" => Fresh(lsFile \o new),
         lsPend' = [lsPend EXCEPT ![v] = [at |-> at, new |-> new, text |-> text]],
         lsFile' = lsFile
  PROVE  OneAtATime' /\ WritesAreWhole' /\ Fresh(lsFile')
<1>1. \A w \in Servers \ {v} : lsPend'[w].at = "idle"
  BY DEF NobodyElse, LsInv, LsTypes
<1>2. lsPend'[v].at = at /\ lsPend'[v].new = new /\ lsPend'[v].text = text
  BY DEF LsInv, LsTypes
<1>3. WritesAreWhole'
  <2> SUFFICES ASSUME NEW w \in Servers
               PROVE  /\ lsPend'[w].at = "read" => lsPend'[w].text = lsFile
                      /\ lsPend'[w].at # "idle" => Fresh(lsFile \o lsPend'[w].new)
    BY DEF WritesAreWhole
  <2> QED BY <1>1, <1>2
<1>4. OneAtATime'
  BY <1>1 DEF OneAtATime, NobodyElse
<1> QED BY <1>3, <1>4

LEMMA FreshAdded ==
  ASSUME NEW list \in Seq(LessonSet), NEW new \in Seq(LessonSet), Fresh(list),
         \A j \in DOMAIN new : new[j].from # "summary" =>
            /\ \A i \in DOMAIN list : list[i].id # new[j].id
            /\ \A i \in DOMAIN new : i < j => new[i].id # new[j].id
  PROVE  Fresh(list \o new)
<1> PICK all : all = list \o new
  OBVIOUS
<1> PICK n : n = Len(list)
  OBVIOUS
<1> PICK m : m = Len(new)
  OBVIOUS
<1>1. n \in Nat /\ m \in Nat /\ DOMAIN list = 1 .. n /\ DOMAIN new = 1 .. m
  OBVIOUS
<1>2. DOMAIN all = 1 .. n + m
  BY LenProperties
<1>3. \A i \in 1 .. n : all[i] = list[i]
  OBVIOUS
<1>4. \A i \in 1 .. m : all[n + i] = new[i]
  OBVIOUS
<1> SUFFICES ASSUME NEW i \in 1 .. n + m, NEW j \in 1 .. n + m, i < j, all[j].from # "summary"
             PROVE  all[i].id # all[j].id
  BY <1>2 DEF Fresh
<1>5. CASE j <= n
  <2>1. i \in DOMAIN list /\ j \in DOMAIN list /\ all[i] = list[i] /\ all[j] = list[j]
    BY <1>1, <1>3, <1>5
  <2> QED BY <2>1 DEF Fresh
<1>6. CASE j > n
  <2> PICK k \in 1 .. m : j = n + k
    <3>1. j - n \in 1 .. m /\ j = n + (j - n)
      BY <1>1, <1>6
    <3> QED BY <3>1
  <2>1. all[j] = new[k] /\ k \in DOMAIN new
    BY <1>1, <1>4
  <2>2. CASE i <= n
    <3>1. i \in DOMAIN list /\ all[i] = list[i]
      BY <1>1, <1>3, <2>2
    <3> QED BY <2>1, <3>1
  <2>3. CASE i > n
    <3> PICK h \in 1 .. m : i = n + h
      <4>1. i - n \in 1 .. m /\ i = n + (i - n)
        BY <1>1, <2>3
      <4> QED BY <4>1
    <3>1. all[i] = new[h] /\ h \in DOMAIN new /\ h < k
      BY <1>1, <1>4
    <3> QED BY <2>1, <3>1
  <2> QED BY <1>1, <2>2, <2>3
<1> QED BY <1>1, <1>5, <1>6

LEMMA LsScanned ==
  ASSUME LsInv, NEW v \in Servers, NEW found,
         found \in {<<m>> : m \in Mistakes} \union {<<m, n>> : m, n \in Mistakes},
         \A i, j \in DOMAIN found : i # j => found[i] # found[j],
         Scan(v, found)
  PROVE  /\ LsInv'
         /\ NobodyElse(v) /\ WritesAreWhole /\ Fresh(lsFile)
               => OneAtATime' /\ WritesAreWhole' /\ Fresh(lsFile')
<1>1. PICK new : new = Compiled(v, found)
  OBVIOUS
<1>2. PICK text : text = lsPend[v].text
  OBVIOUS
<1>3. lsPend[v] = [at |-> lsPend[v].at, new |-> lsPend[v].new, text |-> text] /\ text \in Seq(LessonSet) /\ Signed(text)
  BY <1>2 DEF LsInv, LsTypes, PendingWereSigned
<1>4. lsPend' = [lsPend EXCEPT ![v] = [at |-> "scanned", new |-> new, text |-> text]]
  <2>1. lsPend' = [lsPend EXCEPT ![v].at = "scanned", ![v].new = new]
    BY <1>1 DEF Scan
  <2>2. PICK r : r = lsPend[v]
    OBVIOUS
  <2>3. [[r EXCEPT !.at = "scanned"] EXCEPT !.new = new] = [at |-> "scanned", new |-> new, text |-> text]
    <3>1. r \in [at : {"idle", "scanned", "read"}, new : Seq(LessonSet), text : Seq(LessonSet)] /\ r.text = text
      BY <1>2, <2>2 DEF LsInv, LsTypes
    <3>2. PICK q : q = [r EXCEPT !.at = "scanned"]
      OBVIOUS
    <3>3. q = [at |-> "scanned", new |-> r.new, text |-> text]
      BY <3>1, <3>2
    <3>4. [q EXCEPT !.new = new] = [at |-> "scanned", new |-> new, text |-> text]
      BY <3>3
    <3> QED BY <3>2, <3>4
  <2>4. lsPend' = [lsPend EXCEPT ![v] = [[r EXCEPT !.at = "scanned"] EXCEPT !.new = new]]
    BY <2>1, <2>2 DEF LsInv, LsTypes
  <2> QED BY <2>3, <2>4
<1>5. /\ UNCHANGED << lsFile, lsDay >>
      /\ \A i \in DOMAIN found : LessonId(found[i]) \notin ExistingIds(lsFile)
  BY DEF Scan
<1>6. found \in Seq(Mistakes)
  OBVIOUS
<1>7. /\ DOMAIN new = DOMAIN found
      /\ \A i \in DOMAIN found : new[i] = [id |-> <<lsDay, found[i]>>, from |-> "sync", by |-> v]
  BY <1>1 DEF Compiled, Lesson, LessonId
<1>8. new \in Seq(LessonSet)
  <2>1. \A i \in DOMAIN found : found[i] \in Mistakes
    BY <1>6
  <2>2. \A i \in DOMAIN found : <<lsDay, found[i]>> \in LessonIdSet
    BY <2>1 DEF LessonIdSet, LsInv, LsTypes
  <2>3. \A i \in DOMAIN found : new[i] \in LessonSet
    BY <1>7, <2>2 DEF LessonSet
  <2>4. new = [i \in 1 .. Len(found) |-> new[i]]
    BY <1>1, <1>6 DEF Compiled
  <2> QED BY <1>6, <1>7, <2>3, <2>4, IsASeq
<1>9. Signed(new)
  BY <1>7 DEF Signed
<1>10. LsInv'
  BY <1>3, <1>4, <1>5, <1>8, <1>9, LsPended DEF LsInv, LsTypes, PushedWereSigned, Signed
<1>11. ASSUME NobodyElse(v), WritesAreWhole, Fresh(lsFile)
       PROVE  OneAtATime' /\ WritesAreWhole' /\ Fresh(lsFile')
  <2>1. lsFile \in Seq(LessonSet) /\ Fresh(lsFile)
    BY <1>11 DEF LsInv, LsTypes
  <2>2. ASSUME NEW j \in DOMAIN new, NEW i \in DOMAIN lsFile
        PROVE  lsFile[i].id # new[j].id
    BY <1>5, <1>7 DEF ExistingIds, LessonId
  <2>3. ASSUME NEW j \in DOMAIN new, NEW i \in DOMAIN new, i < j
        PROVE  new[i].id # new[j].id
    <3>1. i \in Nat /\ j \in Nat
      BY <1>6, <1>7
    <3>2. found[i] # found[j]
      BY <1>7, <2>3, <3>1
    <3> QED BY <1>7, <3>2
  <2>4. Fresh(lsFile \o new)
    BY <1>8, <2>1, <2>2, <2>3, FreshAdded
  <2> QED BY <1>4, <1>5, <1>11, <2>4, LsPendedWhole
<1> QED BY <1>10, <1>11

LEMMA LsPushed ==
  ASSUME LsInv, NEW v \in Servers, NEW e \in Envelopes, Push(v, e)
  PROVE  /\ LsInv'
         /\ NobodyElse(v) /\ WritesAreWhole /\ Fresh(lsFile)
               => OneAtATime' /\ WritesAreWhole' /\ Fresh(lsFile')
<1>1. PICK lesson : lesson = Lesson(e.id, "push", e.signer)
  OBVIOUS
<1>2. PICK new : new = <<lesson>>
  OBVIOUS
<1>3. /\ lsPend' = [lsPend EXCEPT ![v] = [at |-> "read", new |-> new, text |-> lsFile]]
      /\ UNCHANGED << lsFile, lsDay >> /\ ~InText(e.id, lsFile) /\ VerifiedLesson(e)
  BY <1>1, <1>2 DEF Push
<1>4. e.id \in PushedIds /\ e.signer \in Senders /\ e.signer \in TrustedSenders
  BY <1>3 DEF Envelopes, VerifiedLesson, SignatureOf
<1>5. lesson \in LessonSet /\ lesson.id = e.id /\ lesson.by = e.signer
  BY <1>1, <1>4 DEF Lesson, LessonSet, LessonIdSet
<1>6. new \in Seq(LessonSet) /\ DOMAIN new = {1} /\ new[1] = lesson
  BY <1>2, <1>5
<1>7. Signed(new)
  BY <1>4, <1>5, <1>6 DEF Signed
<1>8. lsFile \in Seq(LessonSet) /\ Signed(lsFile)
  BY DEF LsInv, LsTypes, PushedWereSigned, Signed
<1>9. LsInv'
  BY <1>3, <1>6, <1>7, <1>8, LsPended
<1>10. ASSUME NobodyElse(v), WritesAreWhole, Fresh(lsFile)
       PROVE  OneAtATime' /\ WritesAreWhole' /\ Fresh(lsFile')
  <2>1. Fresh(lsFile)
    BY <1>10
  <2>2. IsPrefix(e.id, e.id)
    <3>1. Len(e.id) \in Nat
      BY <1>4, LessonsAssumption
    <3> QED BY <3>1 DEF IsPrefix
  <2>3. \A i \in DOMAIN lsFile : lsFile[i].id # e.id
    BY <1>3, <2>2 DEF InText
  <2>4. Fresh(lsFile \o new)
    BY <1>5, <1>6, <1>8, <2>1, <2>3, FreshAdded
  <2> QED BY <1>3, <1>10, <2>4, LsPendedWhole
<1> QED BY <1>9, <1>10

LEMMA LsSummarized ==
  ASSUME LsInv, NEW v \in Servers, NEW batch \in Batches, Summarize(v, batch)
  PROVE  /\ LsInv'
         /\ NobodyElse(v) /\ WritesAreWhole /\ Fresh(lsFile)
               => OneAtATime' /\ WritesAreWhole' /\ Fresh(lsFile')
<1>1. PICK new : new = [i \in DOMAIN batch |-> Lesson(batch[i], "summary", v)]
  OBVIOUS
<1>2. /\ lsPend' = [lsPend EXCEPT ![v] = [at |-> "read", new |-> new, text |-> lsFile]]
      /\ UNCHANGED << lsFile, lsDay >>
  BY <1>1 DEF Summarize
<1>3. Len(batch) \in Nat /\ DOMAIN batch = 1 .. Len(batch)
  BY LessonsAssumption
<1>4. /\ DOMAIN new = DOMAIN batch
      /\ \A i \in DOMAIN batch : new[i] = [id |-> batch[i], from |-> "summary", by |-> v]
  BY <1>1 DEF Lesson
<1>5. \A i \in DOMAIN batch : new[i] \in LessonSet
  BY <1>4 DEF LessonSet, LessonIdSet, BatchIds
<1>6. new \in Seq(LessonSet)
  <2>1. new = [i \in 1 .. Len(batch) |-> new[i]]
    BY <1>1, <1>3
  <2> QED BY <1>3, <1>5, <2>1, IsASeq
<1>7. Signed(new)
  BY <1>4 DEF Signed
<1>8. lsFile \in Seq(LessonSet) /\ Signed(lsFile)
  BY DEF LsInv, LsTypes, PushedWereSigned, Signed
<1>9. LsInv'
  BY <1>2, <1>6, <1>7, <1>8, LsPended
<1>10. ASSUME NobodyElse(v), WritesAreWhole, Fresh(lsFile)
       PROVE  OneAtATime' /\ WritesAreWhole' /\ Fresh(lsFile')
  <2>1. Fresh(lsFile)
    BY <1>10
  <2>2. Fresh(lsFile \o new)
    BY <1>4, <1>6, <1>8, <2>1, FreshAdded
  <2> QED BY <1>2, <1>10, <2>2, LsPendedWhole
<1> QED BY <1>9, <1>10

LEMMA LsWritten ==
  ASSUME LsInv, NEW v \in Servers, WriteLessons(v)
  PROVE  /\ LsInv'
         /\ NobodyElse(v) /\ WritesAreWhole /\ Fresh(lsFile)
               => /\ OneAtATime' /\ WritesAreWhole' /\ Fresh(lsFile')
                  /\ lsFile' = lsFile \o lsPend[v].new
<1>1. /\ lsPend[v].at = "read" /\ lsFile' = lsPend[v].text \o lsPend[v].new
      /\ lsPend' = [lsPend EXCEPT ![v] = IdlePend] /\ lsDay' = lsDay
  BY DEF WriteLessons, Written
<1>2. PICK new : new = lsPend[v].new
  OBVIOUS
<1>3. PICK text : text = lsPend[v].text
  OBVIOUS
<1>4. new \in Seq(LessonSet) /\ text \in Seq(LessonSet) /\ Signed(new) /\ Signed(text)
  BY <1>2, <1>3 DEF LsInv, LsTypes, PendingWereSigned
<1>5. PICK all : all = text \o new
  OBVIOUS
<1>6. all \in Seq(LessonSet)
  BY <1>4, <1>5
<1>7. Signed(all)
  <2> SUFFICES ASSUME NEW i \in DOMAIN all, all[i].from = "push"
               PROVE  all[i].by \in TrustedSenders
    BY DEF Signed
  <2>1. /\ Len(all) = Len(text) + Len(new) /\ Len(text) \in Nat /\ Len(new) \in Nat
        /\ i \in 1 .. Len(all)
        /\ \A k \in 1 .. Len(text) : all[k] = text[k]
        /\ \A k \in 1 .. Len(new) : all[Len(text) + k] = new[k]
    BY <1>4, <1>5, <1>6
  <2>2. CASE i <= Len(text)
    <3>1. i \in DOMAIN text /\ all[i] = text[i]
      BY <1>4, <2>1, <2>2
    <3> QED BY <1>4, <3>1 DEF Signed
  <2>3. CASE i > Len(text)
    <3> PICK k \in 1 .. Len(new) : i = Len(text) + k
      <4>1. i - Len(text) \in 1 .. Len(new) /\ i = Len(text) + (i - Len(text))
        BY <2>1, <2>3
      <4> QED BY <4>1
    <3>1. k \in DOMAIN new /\ all[i] = new[k]
      BY <1>4, <2>1
    <3> QED BY <1>4, <3>1 DEF Signed
  <2> QED BY <2>1, <2>2, <2>3
<1>8. << >> \in Seq(LessonSet) /\ Signed(<< >>)
  BY DEF Signed
<1>9. lsPend' = [lsPend EXCEPT ![v] = [at |-> "idle", new |-> << >>, text |-> << >>]]
  BY <1>1 DEF IdlePend
<1>10. LsInv'
  <2>1. lsFile' = all
    BY <1>1, <1>2, <1>3, <1>5
  <2> QED BY <1>1, <1>6, <1>7, <1>8, <1>9, <2>1, LsPended
<1>11. ASSUME NobodyElse(v), WritesAreWhole, Fresh(lsFile)
       PROVE  /\ OneAtATime' /\ WritesAreWhole' /\ Fresh(lsFile')
              /\ lsFile' = lsFile \o lsPend[v].new
  <2>1. lsFile' = lsFile \o new /\ Fresh(lsFile \o new)
    BY <1>1, <1>2, <1>11 DEF WritesAreWhole
  <2>2. Fresh(lsFile')
    BY <2>1
  <2>3. \A w \in Servers \ {v} : lsPend'[w].at = "idle"
    BY <1>9, <1>11 DEF NobodyElse, LsInv, LsTypes
  <2>4. lsPend'[v].at = "idle"
    BY <1>9 DEF LsInv, LsTypes
  <2>5. OneAtATime' /\ WritesAreWhole'
    <3> SUFFICES ASSUME NEW w \in Servers PROVE lsPend'[w].at = "idle"
      BY DEF OneAtATime, WritesAreWhole
    <3> QED BY <2>3, <2>4
  <2> QED BY <1>2, <2>1, <2>2, <2>5
<1> QED BY <1>10, <1>11

LEMMA LsReadAgain ==
  ASSUME LsInv, NEW v \in Servers, ReadForSync(v)
  PROVE  /\ LsInv'
         /\ NobodyElse(v) /\ WritesAreWhole /\ Fresh(lsFile)
               => OneAtATime' /\ WritesAreWhole' /\ Fresh(lsFile')
<1>1. PICK new : new = lsPend[v].new
  OBVIOUS
<1>2. /\ lsPend' = [lsPend EXCEPT ![v].at = "read", ![v].text = lsFile]
      /\ UNCHANGED << lsFile, lsDay >> /\ lsPend[v].at = "scanned"
  BY DEF ReadForSync
<1>3. lsPend' = [lsPend EXCEPT ![v] = [at |-> "read", new |-> new, text |-> lsFile]]
  <2>1. PICK r : r = lsPend[v]
    OBVIOUS
  <2>2. [[r EXCEPT !.at = "read"] EXCEPT !.text = lsFile] = [at |-> "read", new |-> new, text |-> lsFile]
    <3>1. r \in [at : {"idle", "scanned", "read"}, new : Seq(LessonSet), text : Seq(LessonSet)] /\ r.new = new
      BY <1>1, <2>1 DEF LsInv, LsTypes
    <3>2. PICK q : q = [r EXCEPT !.at = "read"]
      OBVIOUS
    <3>3. q = [at |-> "read", new |-> new, text |-> r.text]
      BY <3>1, <3>2
    <3>4. [q EXCEPT !.text = lsFile] = [at |-> "read", new |-> new, text |-> lsFile]
      BY <3>3
    <3> QED BY <3>2, <3>4
  <2>3. lsPend' = [lsPend EXCEPT ![v] = [[r EXCEPT !.at = "read"] EXCEPT !.text = lsFile]]
    BY <1>2, <2>1 DEF LsInv, LsTypes
  <2> QED BY <2>2, <2>3
<1>4. new \in Seq(LessonSet) /\ Signed(new) /\ lsFile \in Seq(LessonSet) /\ Signed(lsFile)
  BY <1>1 DEF LsInv, LsTypes, PendingWereSigned, PushedWereSigned, Signed
<1>5. LsInv'
  BY <1>2, <1>3, <1>4, LsPended
<1>6. ASSUME NobodyElse(v), WritesAreWhole, Fresh(lsFile)
      PROVE  OneAtATime' /\ WritesAreWhole' /\ Fresh(lsFile')
  <2>1. Fresh(lsFile \o new)
    BY <1>1, <1>2, <1>6 DEF WritesAreWhole
  <2> QED BY <1>2, <1>3, <1>6, <2>1, LsPendedWhole
<1> QED BY <1>5, <1>6

\* Every step keeps what was signed; and unless a writer begins in the middle
\* of another, it adds ids that are new and leaves what the file held.
LEMMA LsStepKeeps ==
  ASSUME LsInv, LsWhole, LessonsNext
  PROVE  /\ LsInv' /\ LsWhole'
         /\ \/ lsOverlap \/ lsFile' = lsFile
            \/ \E new \in Seq(LessonSet) : lsFile' = lsFile \o new
<1> DEFINE Whole == OneAtATime /\ WritesAreWhole /\ Fresh(lsFile)
           Grows == lsFile' = lsFile \/ \E new \in Seq(LessonSet) : lsFile' = lsFile \o new
<1>1. CASE NextDay
  <2>1. lsDay' \in Nat /\ UNCHANGED << lsFile, lsPend, lsOverlap >>
    BY <1>1 DEF NextDay, LsInv, LsTypes
  <2> QED BY <2>1 DEF LsInv, LsTypes, PushedWereSigned, PendingWereSigned, LsWhole, OneAtATime, NobodyElse,
                      WritesAreWhole, Fresh
<1>2. ASSUME NEW v \in Servers, WriteLessons(v) \/ ReadForSync(v)
      PROVE  LsInv' /\ LsWhole' /\ (lsOverlap \/ Grows)
  <2>1. lsPend[v].at # "idle" /\ lsOverlap' = lsOverlap
    BY <1>2 DEF WriteLessons, ReadForSync
  <2>2. LsInv'
    BY <1>2, LsWritten, LsReadAgain
  <2>3. ASSUME ~lsOverlap PROVE (OneAtATime' /\ WritesAreWhole' /\ Fresh(lsFile')) /\ Grows
    <3>1. Whole
      BY <2>3 DEF LsWhole
    <3>2. NobodyElse(v)
      BY <2>1, <3>1 DEF OneAtATime
    <3>3. CASE WriteLessons(v)
      <4>1. lsPend[v].new \in Seq(LessonSet)
        BY DEF LsInv, LsTypes
      <4> QED BY <3>1, <3>2, <3>3, <4>1, LsWritten
    <3>4. CASE ReadForSync(v)
      <4>1. lsFile' = lsFile
        BY <3>4 DEF ReadForSync
      <4> QED BY <3>1, <3>2, <3>4, <4>1, LsReadAgain
    <3> QED BY <1>2, <3>3, <3>4
  <2> QED BY <2>1, <2>2, <2>3 DEF LsWhole, Fresh
<1>3. ASSUME NEW v \in Servers, Begins(v), lsFile' = lsFile, LsInv',
             NobodyElse(v) /\ WritesAreWhole /\ Fresh(lsFile) => OneAtATime' /\ WritesAreWhole' /\ Fresh(lsFile')
      PROVE  LsInv' /\ LsWhole' /\ (lsOverlap \/ Grows)
  <2>1. ASSUME ~lsOverlap' PROVE OneAtATime' /\ WritesAreWhole' /\ Fresh(lsFile')
    <3>1. ~lsOverlap /\ NobodyElse(v)
      BY <1>3, <2>1 DEF Begins, NobodyElse
    <3> QED BY <1>3, <3>1 DEF LsWhole
  <2> QED BY <1>3, <2>1 DEF LsWhole, Fresh
<1>4. ASSUME NEW v \in Servers, NEW found, Scan(v, found),
             found \in {<<m>> : m \in Mistakes} \union {<<m, n>> : m, n \in Mistakes},
             \A i, j \in DOMAIN found : i # j => found[i] # found[j]
      PROVE  LsInv' /\ LsWhole' /\ (lsOverlap \/ Grows)
  <2>1. Begins(v) /\ lsFile' = lsFile
    BY <1>4 DEF Scan
  <2> QED BY <1>3, <1>4, <2>1, LsScanned
<1>5. ASSUME NEW v \in Servers, NEW e \in Envelopes, Push(v, e)
      PROVE  LsInv' /\ LsWhole' /\ (lsOverlap \/ Grows)
  <2>1. Begins(v) /\ lsFile' = lsFile
    BY <1>5 DEF Push
  <2> QED BY <1>3, <1>5, <2>1, LsPushed
<1>6. ASSUME NEW v \in Servers, NEW batch \in Batches, Summarize(v, batch)
      PROVE  LsInv' /\ LsWhole' /\ (lsOverlap \/ Grows)
  <2>1. Begins(v) /\ lsFile' = lsFile
    BY <1>6 DEF Summarize
  <2> QED BY <1>3, <1>6, <2>1, LsSummarized
<1> HIDE DEF Grows
<1>7. LsInv' /\ LsWhole' /\ (lsOverlap \/ Grows)
  BY <1>1, <1>2, <1>4, <1>5, <1>6 DEF LessonsNext, Grows
<1> QED BY <1>7 DEF Grows

-----------------------------------------------------------------------------
(* Billing: the webhook.                                                    *)

Statuses == {"active", "frozen", "canceled"}

HookTypes ==
    /\ subscription \in [BillTenants -> [status : Statuses, customer : Customers \cup {"none", "admin"}]]
    /\ claimedEvents \subseteq [event : StripeEvents, tenant : BillTenants]
    /\ appliedEvents \in [StripeEvents -> Nat]
    /\ lostClaim \in BOOLEAN

\* The customer of an event is no other tenant's.
OneOwner ==
    \A t, u \in BillTenants :
        subscription[t].customer \in Customers /\ subscription[u].customer = subscription[t].customer => t = u

\* An event is applied under its claim, and a claim without an effect is a
\* handler that failed.
ClaimsCount ==
    \A e \in StripeEvents :
        /\ appliedEvents[e] <= 1
        /\ appliedEvents[e] # 0 => Claimed(e)
        /\ \A t \in BillTenants : [event |-> e, tenant |-> t] \in claimedEvents /\ ~lostClaim => appliedEvents[e] = 1
        /\ e \in ackedEvents /\ ~lostClaim => appliedEvents[e] = 1

HookInv == HookTypes /\ OneOwner /\ ClaimsCount

LEMMA EventTypes ==
  ASSUME NEW e \in StripeEvents
  PROVE  e.status \in Statuses /\ e.customer \in Customers /\ e.metadata \in BillTenants \cup {NoTenant}
BY BillingAssumption DEF Statuses

LEMMA HookStarts ==
  ASSUME BillInit
  PROVE  HookInv
<1>1. /\ subscription = [t \in BillTenants |-> NoRow] /\ claimedEvents = {} /\ ackedEvents = {}
      /\ lostClaim = FALSE /\ appliedEvents = [e \in StripeEvents |-> 0]
  BY DEF BillInit
<1>2. NoRow \in [status : Statuses, customer : Customers \cup {"none", "admin"}] /\ NoRow.customer = "none"
  BY DEF NoRow, Statuses
<1>3. HookTypes
  BY <1>1, <1>2 DEF HookTypes
<1>4. OneOwner
  BY <1>1, <1>2, BillingAssumption DEF OneOwner
<1>5. ClaimsCount
  BY <1>1 DEF ClaimsCount
<1> QED BY <1>3, <1>4, <1>5 DEF HookInv

LEMMA HookStays ==
  ASSUME HookInv, UNCHANGED hookVars
  PROVE  HookInv'
BY DEF HookInv, hookVars, HookTypes, OneOwner, ClaimsCount, Claimed

\* The tenant that gets an event is the only one its customer may have.
LEMMA ResolvedIsTheOwner ==
  ASSUME HookInv, NEW e \in StripeEvents, NEW t \in ResolveStripeTenant(e)
  PROVE  t \in BillTenants /\ \A u \in BillTenants : subscription[u].customer = e.customer => u = t
<1>1. e.customer \in Customers /\ e.metadata \in BillTenants \cup {NoTenant}
  BY EventTypes
<1>2. CASE e.metadata = NoTenant
  <2>1. t \in MappedTenants(e.customer)
    BY <1>2 DEF ResolveStripeTenant
  <2>2. t \in BillTenants /\ subscription[t].customer = e.customer
    BY <2>1 DEF MappedTenants
  <2> QED BY <1>1, <2>2 DEF HookInv, OneOwner
<1>3. CASE e.metadata # NoTenant
  <2>1. t = e.metadata /\ (MappedTenants(e.customer) = {} \/ MappedTenants(e.customer) = {e.metadata})
    BY <1>3 DEF ResolveStripeTenant
  <2> QED BY <1>1, <1>3, <2>1 DEF MappedTenants
<1> QED BY <1>2, <1>3

LEMMA RowOfAnEvent ==
  ASSUME HookInv, NEW e \in StripeEvents, NEW t \in BillTenants,
         \A u \in BillTenants : subscription[u].customer = e.customer => u = t,
         subscription' = [subscription EXCEPT ![t] = [status |-> e.status, customer |-> e.customer]]
  PROVE  /\ subscription' \in [BillTenants -> [status : Statuses, customer : Customers \cup {"none", "admin"}]]
         /\ OneOwner'
<1> PICK row : row = [status |-> e.status, customer |-> e.customer]
  OBVIOUS
<1>1. row \in [status : Statuses, customer : Customers \cup {"none", "admin"}] /\ row.customer = e.customer
  BY EventTypes
<1>2. subscription' = [subscription EXCEPT ![t] = row]
  OBVIOUS
<1>3. /\ subscription' \in [BillTenants -> [status : Statuses, customer : Customers \cup {"none", "admin"}]]
      /\ subscription'[t] = row
      /\ \A u \in BillTenants \ {t} : subscription'[u] = subscription[u]
  BY <1>1, <1>2 DEF HookInv, HookTypes
<1>4. OneOwner'
  <2> SUFFICES ASSUME NEW x \in BillTenants, NEW u \in BillTenants, x # u,
                      subscription'[x].customer \in Customers,
                      subscription'[u].customer = subscription'[x].customer
               PROVE  FALSE
    BY DEF OneOwner
  <2>1. CASE x = t
    BY <1>1, <1>3, <2>1
  <2>2. CASE u = t
    BY <1>1, <1>3, <2>2
  <2>3. CASE x # t /\ u # t
    BY <1>3, <2>3 DEF HookInv, OneOwner
  <2> QED BY <2>1, <2>2, <2>3
<1> QED BY <1>3, <1>4

LEMMA HookStepKeeps ==
  ASSUME HookInv, HookNext
  PROVE  HookInv'
<1>1. ASSUME NEW e \in StripeEvents, Webhook(e)
      PROVE  HookInv'
  <2> PICK t \in ResolveStripeTenant(e) :
          /\ ~Claimed(e) /\ Claim(e, t) /\ ackedEvents' = ackedEvents \cup {e}
          /\ subscription' = [subscription EXCEPT ![t] = [status |-> e.status, customer |-> e.customer]]
          /\ appliedEvents' = [appliedEvents EXCEPT ![e] = @ + 1]
          /\ UNCHANGED lostClaim
    BY <1>1 DEF Webhook
  <2>1. t \in BillTenants /\ \A u \in BillTenants : subscription[u].customer = e.customer => u = t
    BY ResolvedIsTheOwner
  <2>2. /\ subscription' \in [BillTenants -> [status : Statuses, customer : Customers \cup {"none", "admin"}]]
        /\ OneOwner'
    BY <2>1, RowOfAnEvent
  <2>3. claimedEvents' = claimedEvents \cup {[event |-> e, tenant |-> t]}
    BY DEF Claim
  <2>4. claimedEvents' \subseteq [event : StripeEvents, tenant : BillTenants]
    BY <2>1, <2>3 DEF HookInv, HookTypes
  <2>5. appliedEvents[e] \in Nat /\ appliedEvents[e] = 0
    BY DEF HookInv, HookTypes, ClaimsCount
  <2>6. /\ appliedEvents' \in [StripeEvents -> Nat] /\ appliedEvents'[e] = 1
        /\ \A f \in StripeEvents \ {e} : appliedEvents'[f] = appliedEvents[f]
    BY <2>5 DEF HookInv, HookTypes
  <2>7. HookTypes'
    BY <2>2, <2>4, <2>6 DEF HookInv, HookTypes
  <2>8. ClaimsCount'
    <3> SUFFICES ASSUME NEW f \in StripeEvents
                 PROVE  /\ appliedEvents'[f] <= 1
                        /\ appliedEvents'[f] # 0 => \E d \in claimedEvents' : d.event.id = f.id
                        /\ \A u \in BillTenants : [event |-> f, tenant |-> u] \in claimedEvents' /\ ~lostClaim'
                              => appliedEvents'[f] = 1
                        /\ f \in ackedEvents' /\ ~lostClaim' => appliedEvents'[f] = 1
      BY DEF ClaimsCount, Claimed
    <3>1. CASE f = e
      <4>1. [event |-> e, tenant |-> t].event.id = e.id
        OBVIOUS
      <4> QED BY <2>3, <2>6, <3>1, <4>1
    <3>2. CASE f # e
      <4>1. appliedEvents'[f] = appliedEvents[f] /\ (f \in ackedEvents' => f \in ackedEvents)
        BY <2>6, <3>2
      <4>2. \A u \in BillTenants : [event |-> f, tenant |-> u] \in claimedEvents' => [event |-> f, tenant |-> u] \in claimedEvents
        BY <2>3, <3>2
      <4>3. (\E d \in claimedEvents : d.event.id = f.id) => \E d \in claimedEvents' : d.event.id = f.id
        BY <2>3
      <4> QED BY <4>1, <4>2, <4>3 DEF HookInv, ClaimsCount, Claimed
    <3> QED BY <3>1, <3>2
  <2> QED BY <2>2, <2>7, <2>8 DEF HookInv
<1>2. ASSUME NEW e \in StripeEvents, WebhookDuplicate(e)
      PROVE  HookInv'
  <2> PICK t \in ResolveStripeTenant(e) :
          /\ ackedEvents' = IF [event |-> e, tenant |-> t] \in claimedEvents
                              THEN ackedEvents \cup {e} ELSE ackedEvents
          /\ UNCHANGED << subscription, claimedEvents, appliedEvents, lostClaim >>
    BY <1>2 DEF WebhookDuplicate
  <2>1. t \in BillTenants
    BY ResolvedIsTheOwner
  <2>2. ClaimsCount'
    <3> SUFFICES ASSUME NEW f \in StripeEvents, f \in ackedEvents', ~lostClaim
                 PROVE  appliedEvents[f] = 1
      BY DEF HookInv, ClaimsCount, Claimed
    <3> QED BY <2>1 DEF HookInv, ClaimsCount
  <2> QED BY <2>2 DEF HookInv, HookTypes, OneOwner
<1>3. ASSUME NEW e \in StripeEvents, WebhookFailsAfterClaim(e)
      PROVE  HookInv'
  <2> PICK t \in ResolveStripeTenant(e) :
          Claim(e, t) /\ lostClaim' = TRUE /\ UNCHANGED << subscription, appliedEvents, ackedEvents >>
    BY <1>3 DEF WebhookFailsAfterClaim
  <2>1. t \in BillTenants
    BY ResolvedIsTheOwner
  <2>2. claimedEvents' = claimedEvents \cup {[event |-> e, tenant |-> t]}
    BY DEF Claim
  <2>3. HookTypes' /\ OneOwner'
    BY <2>1, <2>2 DEF HookInv, HookTypes, OneOwner
  <2>4. ClaimsCount'
    BY <2>2 DEF HookInv, ClaimsCount, Claimed
  <2> QED BY <2>3, <2>4 DEF HookInv
<1>4. ASSUME NEW t \in BillTenants, NEW s \in Statuses, AdminUpdateSubscription(t, s)
      PROVE  HookInv'
  <2> PICK row : row = [status |-> s, customer |-> "admin"]
    OBVIOUS
  <2>1. /\ subscription' = [subscription EXCEPT ![t] = row]
        /\ UNCHANGED << claimedEvents, appliedEvents, ackedEvents, lostClaim >>
    BY <1>4 DEF AdminUpdateSubscription
  <2>2. row \in [status : Statuses, customer : Customers \cup {"none", "admin"}] /\ row.customer \notin Customers
    BY BillingAssumption
  <2>3. /\ subscription' \in [BillTenants -> [status : Statuses, customer : Customers \cup {"none", "admin"}]]
        /\ subscription'[t] = row
        /\ \A u \in BillTenants \ {t} : subscription'[u] = subscription[u]
    BY <2>1, <2>2 DEF HookInv, HookTypes
  <2>4. HookTypes'
    BY <2>1, <2>3 DEF HookInv, HookTypes
  <2>5. OneOwner'
    BY <2>2, <2>3 DEF HookInv, OneOwner
  <2> QED BY <2>1, <2>4, <2>5 DEF HookInv, ClaimsCount, Claimed
<1> QED BY <1>1, <1>2, <1>3, <1>4 DEF HookNext, Statuses

LEMMA OwnersAreExclusive ==
  ASSUME HookInv
  PROVE  CustomersAreExclusive
<1> SUFFICES ASSUME NEW c \in Customers PROVE Cardinality(MappedTenants(c)) <= 1
  BY DEF CustomersAreExclusive
<1>1. CASE MappedTenants(c) = {}
  BY <1>1, FS_EmptySet
<1>2. CASE \E t : t \in MappedTenants(c)
  <2> PICK t : t \in MappedTenants(c)
    BY <1>2
  <2>1. \A u \in MappedTenants(c) : u = t
    BY DEF MappedTenants, HookInv, OneOwner
  <2>2. MappedTenants(c) = {t}
    BY <2>1
  <2>3. Cardinality({t}) = 1
    BY FS_Singleton
  <2> QED BY <2>2, <2>3
<1> QED BY <1>1, <1>2

LEMMA EventsAreAppliedOnce ==
  ASSUME HookInv
  PROVE  EventsAppliedOnce
BY DEF HookInv, ClaimsCount, EventsAppliedOnce

-----------------------------------------------------------------------------
(* Billing: usage for Stripe.                                               *)

MeterTypes ==
    /\ ledgerTop \in [BillTenants -> 0 .. MaxRows]
    /\ lastSynced \in [BillTenants -> 0 .. MaxRows]
    /\ reported \in [BillTenants -> [1 .. MaxRows -> Nat]]
    /\ syncing = Idle \/ syncing \in [tenant : BillTenants, top : 0 .. MaxRows]

MeterInv == MeterTypes /\ SyncedWasReported

LEMMA MeterStarts ==
  ASSUME BillInit
  PROVE  MeterInv
<1>1. /\ ledgerTop = [t \in BillTenants |-> 0] /\ lastSynced = [t \in BillTenants |-> 0]
      /\ syncing = Idle /\ reported = [t \in BillTenants |-> [i \in 1..MaxRows |-> 0]]
  BY DEF BillInit
<1>2. MaxRows \in Nat
  BY BillingAssumption
<1>3. [i \in 1..MaxRows |-> 0] \in [1 .. MaxRows -> Nat]
  OBVIOUS
<1>4. MeterTypes
  BY <1>1, <1>2, <1>3 DEF MeterTypes
<1>5. SyncedWasReported
  BY <1>1 DEF SyncedWasReported
<1> QED BY <1>4, <1>5 DEF MeterInv

LEMMA MeterStays ==
  ASSUME MeterInv, UNCHANGED syncVars
  PROVE  MeterInv'
BY DEF MeterInv, syncVars, MeterTypes, SyncedWasReported, Idle

\* What was posted is reported.
LEMMA PostedIsReported ==
  ASSUME MeterInv, NEW t \in BillTenants, NEW top \in 0 .. MaxRows
  PROVE  /\ Posted(t, top) \in [BillTenants -> [1 .. MaxRows -> Nat]]
         /\ \A u \in BillTenants : \A i \in 1 .. lastSynced[u] : Posted(t, top)[u][i] >= 1
         /\ \A i \in 1 .. top : Posted(t, top)[t][i] >= 1
<1> PICK mark : mark = lastSynced[t]
  OBVIOUS
<1> PICK old : old = reported[t]
  OBVIOUS
<1> PICK new : new = [i \in 1..MaxRows |-> IF i > mark /\ i <= top /\ old[i] < 2 THEN old[i] + 1 ELSE old[i]]
  OBVIOUS
<1>1. MaxRows \in Nat
  BY BillingAssumption
<1>2. mark \in 0 .. MaxRows /\ old \in [1 .. MaxRows -> Nat]
  BY DEF MeterInv, MeterTypes
<1>3. Posted(t, top) = [reported EXCEPT ![t] = new]
  BY DEF Posted, MeterInv, MeterTypes
<1>4. /\ new \in [1 .. MaxRows -> Nat]
      /\ \A i \in 1 .. MaxRows : new[i] >= old[i] /\ (i > mark /\ i <= top => new[i] >= 1)
  <2>1. DOMAIN new = 1 .. MaxRows
    OBVIOUS
  <2>2. ASSUME NEW i \in 1 .. MaxRows
        PROVE  new[i] \in Nat /\ new[i] >= old[i] /\ (i > mark /\ i <= top => new[i] >= 1)
    <3> PICK x : x = old[i]
      OBVIOUS
    <3>1. x \in Nat /\ new[i] = IF i > mark /\ i <= top /\ x < 2 THEN x + 1 ELSE x
      BY <1>2
    <3> QED BY <3>1
  <2>3. new = [i \in 1 .. MaxRows |-> new[i]]
    OBVIOUS
  <2> QED BY <2>2, <2>3
<1> HIDE DEF Posted
<1>5. /\ Posted(t, top) \in [BillTenants -> [1 .. MaxRows -> Nat]]
      /\ Posted(t, top)[t] = new
      /\ \A u \in BillTenants \ {t} : Posted(t, top)[u] = reported[u]
  BY <1>3, <1>4 DEF MeterInv, MeterTypes
<1>6. \A i \in 1 .. mark : old[i] >= 1
  BY DEF MeterInv, SyncedWasReported
<1>7. \A i \in 1 .. mark : new[i] >= 1
  <2> SUFFICES ASSUME NEW i \in 1 .. mark PROVE new[i] >= 1
    OBVIOUS
  <2>1. i \in 1 .. MaxRows /\ old[i] \in Nat /\ new[i] \in Nat
    BY <1>1, <1>2, <1>4
  <2> QED BY <1>4, <1>6, <2>1
<1>8. \A i \in 1 .. top : new[i] >= 1
  <2> SUFFICES ASSUME NEW i \in 1 .. top PROVE new[i] >= 1
    OBVIOUS
  <2>1. i \in 1 .. MaxRows
    BY <1>1
  <2>2. CASE i <= mark
    BY <1>2, <1>7, <2>1, <2>2
  <2>3. CASE i > mark
    BY <1>4, <2>1, <2>3
  <2> QED BY <1>2, <2>2, <2>3
<1>9. ASSUME NEW u \in BillTenants, NEW i \in 1 .. lastSynced[u]
      PROVE  Posted(t, top)[u][i] >= 1
  <2>1. CASE u = t
    BY <1>5, <1>7, <2>1
  <2>2. CASE u # t
    BY <1>5, <2>2 DEF MeterInv, SyncedWasReported
  <2> QED BY <2>1, <2>2
<1> QED BY <1>5, <1>8, <1>9

LEMMA MeterStepKeeps ==
  ASSUME MeterInv, SyncNext
  PROVE  MeterInv'
<1>0. MaxRows \in Nat
  BY BillingAssumption
<1>1. ASSUME NEW t \in BillTenants, RecordRow(t)
      PROVE  MeterInv'
  <2>1. ledgerTop[t] \in 0 .. MaxRows /\ ledgerTop[t] < MaxRows
    BY <1>1 DEF RecordRow, MeterInv, MeterTypes
  <2>2. ledgerTop[t] + 1 \in 0 .. MaxRows
    BY <1>0, <2>1
  <2>3. ledgerTop' = [ledgerTop EXCEPT ![t] = ledgerTop[t] + 1] /\ UNCHANGED << lastSynced, syncing, reported >>
    BY <1>1 DEF RecordRow
  <2>4. ledgerTop' \in [BillTenants -> 0 .. MaxRows]
    BY <2>2, <2>3 DEF MeterInv, MeterTypes
  <2> QED BY <2>3, <2>4 DEF MeterInv, MeterTypes, SyncedWasReported, Idle
<1>2. ASSUME NEW t \in BillTenants, SyncRead(t)
      PROVE  MeterInv'
  <2>1. syncing' = [tenant |-> t, top |-> ledgerTop[t]] /\ UNCHANGED << ledgerTop, lastSynced, reported >>
    BY <1>2 DEF SyncRead
  <2>2. syncing' \in [tenant : BillTenants, top : 0 .. MaxRows]
    BY <2>1 DEF MeterInv, MeterTypes
  <2> QED BY <2>1, <2>2 DEF MeterInv, MeterTypes, SyncedWasReported
<1>3. CASE SyncPosted
  <2> PICK t : t = syncing.tenant
    OBVIOUS
  <2> PICK top : top = syncing.top
    OBVIOUS
  <2>1. t \in BillTenants /\ top \in 0 .. MaxRows
    BY <1>3 DEF SyncPosted, MeterInv, MeterTypes
  <2>2. /\ reported' = Posted(t, top) /\ lastSynced' = [lastSynced EXCEPT ![t] = top]
        /\ syncing' = Idle /\ UNCHANGED ledgerTop
    BY <1>3 DEF SyncPosted
  <2>3. /\ lastSynced' \in [BillTenants -> 0 .. MaxRows] /\ lastSynced'[t] = top
        /\ \A u \in BillTenants \ {t} : lastSynced'[u] = lastSynced[u]
    BY <2>1, <2>2 DEF MeterInv, MeterTypes
  <2>4. MeterTypes'
    BY <2>1, <2>2, <2>3, PostedIsReported DEF MeterInv, MeterTypes, Idle
  <2>5. ASSUME NEW u \in BillTenants, NEW i \in 1 .. lastSynced'[u]
        PROVE  reported'[u][i] >= 1
    <3>1. CASE u = t
      BY <2>1, <2>2, <2>3, <3>1, PostedIsReported
    <3>2. CASE u # t
      BY <2>1, <2>2, <2>3, <3>2, PostedIsReported
    <3> QED BY <3>1, <3>2
  <2> QED BY <2>4, <2>5 DEF MeterInv, SyncedWasReported
<1>4. CASE SyncFails
  <2>1. syncing' = Idle /\ UNCHANGED << ledgerTop, lastSynced >> /\ syncing # Idle
    BY <1>4 DEF SyncFails
  <2>2. CASE UNCHANGED reported
    BY <2>1, <2>2 DEF MeterInv, MeterTypes, SyncedWasReported, Idle
  <2>3. CASE reported' = Posted(syncing.tenant, syncing.top)
    <3>1. syncing.tenant \in BillTenants /\ syncing.top \in 0 .. MaxRows
      BY <2>1 DEF MeterInv, MeterTypes
    <3> QED BY <2>1, <2>3, <3>1, PostedIsReported DEF MeterInv, MeterTypes, SyncedWasReported, Idle
  <2> QED BY <1>4, <2>2, <2>3 DEF SyncFails
<1> QED BY <1>1, <1>2, <1>3, <1>4 DEF SyncNext

-----------------------------------------------------------------------------
(* Billing: the limiter.                                                    *)

RateRows == [tenant : BillTenants, at : Nat, n : Nat]

RateTypes ==
    /\ billClock \in Nat
    /\ waitingReqs \subseteq [slot : 1 .. MaxPending, tenant : BillTenants, now : Nat]
    /\ rateRows \subseteq RateRows /\ IsFiniteSet(rateRows)
    /\ admitted \subseteq RateRows /\ IsFiniteSet(admitted)

\* A thread that waits read the clock not longer ago than it may wait.
WaitersAreRecent == \A r \in waitingReqs : r.now <= billClock /\ billClock <= r.now + MaxWait

\* No thread has a clock that prunes a row of the last window.
RecentRowsAreKept == \A b \in admitted : b.at >= billClock - Window => b \in rateRows

Held(t, a) == {b \in admitted : b.tenant = t /\ b.at <= a /\ b.at >= a - (Window - MaxWait)}

\* The bound, for a window that ends at any time.
WindowsAreBounded == \A t \in BillTenants, a \in Nat : Cardinality(Held(t, a)) <= RequestLimit

RateInv == RateTypes /\ WaitersAreRecent /\ RecentRowsAreKept /\ WindowsAreBounded

LEMMA BillingNumbers == MaxRows \in Nat /\ RequestLimit \in Nat /\ Window \in Nat /\ MaxWait \in Nat /\ MaxWait <= Window
BY BillingAssumption

LEMMA RateStarts ==
  ASSUME BillInit
  PROVE  RateInv
<1>1. billClock = 0 /\ waitingReqs = {} /\ rateRows = {} /\ admitted = {}
  BY DEF BillInit
<1>2. RateTypes
  BY <1>1, FS_EmptySet DEF RateTypes
<1>3. WaitersAreRecent /\ RecentRowsAreKept
  BY <1>1 DEF WaitersAreRecent, RecentRowsAreKept
<1>4. WindowsAreBounded
  <2> SUFFICES ASSUME NEW t \in BillTenants, NEW a \in Nat PROVE Cardinality(Held(t, a)) <= RequestLimit
    BY DEF WindowsAreBounded
  <2>1. Held(t, a) = {}
    BY <1>1 DEF Held
  <2>2. Cardinality({}) = 0
    BY FS_EmptySet
  <2> QED BY <2>1, <2>2, BillingNumbers
<1> QED BY <1>2, <1>3, <1>4 DEF RateInv

LEMMA RateStays ==
  ASSUME RateInv, UNCHANGED rateVars
  PROVE  RateInv'
BY DEF RateInv, rateVars, RateTypes, WaitersAreRecent, RecentRowsAreKept, WindowsAreBounded, Held

LEMMA Consumed ==
  ASSUME RateInv, NEW r \in waitingReqs, Consume(r)
  PROVE  RateInv'
<1> PICK now : now = r.now
  OBVIOUS
<1> PICK t : t = r.tenant
  OBVIOUS
<1> PICK kept : kept = Prune(rateRows, now)
  OBVIOUS
<1> PICK row : row = [tenant |-> t, at |-> now, n |-> Cardinality(admitted)]
  OBVIOUS
<1>1. /\ now \in Nat /\ t \in BillTenants /\ billClock \in Nat
      /\ now <= billClock /\ billClock <= now + MaxWait
  BY DEF RateInv, RateTypes, WaitersAreRecent
<1>2. /\ waitingReqs' = waitingReqs \ {r} /\ billClock' = billClock
      /\ \/ CountOf(kept, t, now) >= RequestLimit /\ rateRows' = kept /\ UNCHANGED admitted
         \/ /\ ~(CountOf(kept, t, now) >= RequestLimit)
            /\ rateRows' = kept \cup {row} /\ admitted' = admitted \cup {row}
  BY DEF Consume
<1>3. row \in RateRows /\ row.tenant = t /\ row.at = now
  <2>1. Cardinality(admitted) \in Nat
    BY FS_CardinalityType DEF RateInv, RateTypes
  <2> QED BY <1>1, <2>1 DEF RateRows
<1>4. kept \subseteq rateRows /\ IsFiniteSet(kept)
  BY FS_Subset DEF Prune, RateInv, RateTypes
<1>5. RateTypes'
  <2>1. IsFiniteSet(kept \cup {row}) /\ IsFiniteSet(admitted \cup {row})
    BY <1>4, FS_AddElement DEF RateInv, RateTypes
  <2> QED BY <1>2, <1>3, <1>4, <2>1 DEF RateInv, RateTypes
<1>6. WaitersAreRecent'
  BY <1>2 DEF RateInv, WaitersAreRecent
<1>7. \A b \in admitted : b.at \in Nat
  BY DEF RateInv, RateTypes, RateRows
<1>8. \A b \in admitted : b.at >= billClock - Window => b \in kept
  <2> SUFFICES ASSUME NEW b \in admitted, b.at >= billClock - Window PROVE b \in kept
    OBVIOUS
  <2>1. b \in rateRows
    BY DEF RateInv, RecentRowsAreKept
  <2>2. b.at >= now - Window
    <3> PICK x : x = b.at
      OBVIOUS
    <3>1. x \in Nat
      BY <1>7
    <3> QED BY <1>1, <3>1, BillingNumbers
  <2> QED BY <2>1, <2>2 DEF Prune
<1>9. RecentRowsAreKept'
  BY <1>2, <1>8 DEF RecentRowsAreKept
<1>10. WindowsAreBounded'
  <2>1. CASE UNCHANGED admitted
    BY <2>1 DEF RateInv, WindowsAreBounded, Held
  <2>2. CASE ~(CountOf(kept, t, now) >= RequestLimit) /\ admitted' = admitted \cup {row}
    <3> SUFFICES ASSUME NEW u \in BillTenants, NEW a \in Nat
                 PROVE  Cardinality(Held(u, a)') <= RequestLimit
      BY DEF WindowsAreBounded
    <3> PICK low : low = a - (Window - MaxWait)
      OBVIOUS
    <3>1. low \in Int
      BY BillingNumbers
    <3>2. CASE u = t /\ now <= a /\ now >= low
      <4> DEFINE counted == {b \in kept : b.tenant = t /\ b.at >= now - Window}
      <4>1. IsFiniteSet(counted) /\ Cardinality(counted) \in Nat
        BY <1>4, FS_Subset, FS_CardinalityType
      <4>2. CountOf(kept, t, now) = Cardinality(counted)
        BY DEF CountOf
      <4>3. Held(t, a) \subseteq counted
        <5> SUFFICES ASSUME NEW b \in Held(t, a) PROVE b \in counted
          OBVIOUS
        <5>1. b \in admitted /\ b.tenant = t /\ b.at >= low
          BY DEF Held
        <5>2. b.at >= billClock - Window /\ b.at >= now - Window
          <6> PICK x : x = b.at
            OBVIOUS
          <6>1. x \in Nat /\ x >= low
            BY <1>7, <5>1
          <6> QED BY <1>1, <3>2, <6>1, BillingNumbers
        <5> QED BY <1>8, <5>1, <5>2
      <4> HIDE DEF counted
      <4>4. /\ IsFiniteSet(Held(t, a)) /\ Cardinality(Held(t, a)) \in Nat
            /\ Cardinality(Held(t, a)) <= Cardinality(counted)
        BY <4>1, <4>3, FS_Subset, FS_CardinalityType
      <4>5. Held(u, a)' = Held(t, a) \cup {row}
        BY <1>3, <2>2, <3>2 DEF Held
      <4>6. Cardinality(Held(t, a) \cup {row}) <= Cardinality(Held(t, a)) + 1
        <5>1. CASE row \in Held(t, a)
          <6>1. Held(t, a) \cup {row} = Held(t, a)
            BY <5>1
          <6>2. Cardinality(Held(t, a) \cup {row}) = Cardinality(Held(t, a))
            BY <6>1
          <6> QED BY <4>4, <6>2
        <5>2. CASE row \notin Held(t, a)
          <6>1. Cardinality(Held(t, a) \cup {row}) = Cardinality(Held(t, a)) + 1
            BY <4>4, <5>2, FS_AddElement
          <6> QED BY <4>4, <6>1
        <5> QED BY <5>1, <5>2
      <4>7. IsFiniteSet(Held(t, a) \cup {row}) /\ Cardinality(Held(t, a) \cup {row}) \in Nat
        BY <4>4, FS_AddElement, FS_CardinalityType
      <4> QED BY <2>2, <4>1, <4>2, <4>4, <4>5, <4>6, <4>7, BillingNumbers
    <3>3. CASE ~(u = t /\ now <= a /\ now >= low)
      <4>1. Held(u, a)' = Held(u, a)
        BY <1>3, <2>2, <3>3 DEF Held
      <4> QED BY <4>1 DEF RateInv, WindowsAreBounded
    <3> QED BY <3>2, <3>3
  <2> QED BY <1>2, <2>1, <2>2
<1> QED BY <1>5, <1>6, <1>9, <1>10 DEF RateInv

LEMMA RateStepKeeps ==
  ASSUME RateInv, RateNext
  PROVE  RateInv'
<1>1. ASSUME NEW t \in BillTenants, RequestArrives(t)
      PROVE  RateInv'
  <2> PICK n \in 1 .. MaxPending :
         waitingReqs' = waitingReqs \cup {[slot |-> n, tenant |-> t, now |-> billClock]}
    BY <1>1 DEF RequestArrives
  <2>1. UNCHANGED << billClock, rateRows, admitted >>
    BY <1>1 DEF RequestArrives
  <2>2. PICK r : r = [slot |-> n, tenant |-> t, now |-> billClock]
    OBVIOUS
  <2>3. r \in [slot : 1 .. MaxPending, tenant : BillTenants, now : Nat] /\ r.now = billClock /\ billClock \in Nat
    BY <2>2 DEF RateInv, RateTypes
  <2>4. RateTypes' /\ RecentRowsAreKept' /\ WindowsAreBounded'
    BY <2>1, <2>2, <2>3 DEF RateInv, RateTypes, RecentRowsAreKept, WindowsAreBounded, Held
  <2>5. WaitersAreRecent'
    BY <2>1, <2>2, <2>3, BillingNumbers DEF RateInv, WaitersAreRecent
  <2> QED BY <2>4, <2>5 DEF RateInv
<1>2. CASE Tick
  <2>1. /\ billClock' = billClock + 1 /\ UNCHANGED << waitingReqs, rateRows, admitted >>
        /\ \A r \in waitingReqs : billClock < r.now + MaxWait
    BY <1>2 DEF Tick
  <2>2. billClock \in Nat /\ \A r \in waitingReqs : r.now \in Nat
    BY DEF RateInv, RateTypes
  <2>3. RateTypes' /\ WindowsAreBounded'
    BY <2>1, <2>2 DEF RateInv, RateTypes, WindowsAreBounded, Held
  <2>4. WaitersAreRecent'
    <3> SUFFICES ASSUME NEW r \in waitingReqs PROVE r.now <= billClock' /\ billClock' <= r.now + MaxWait
      BY <2>1 DEF WaitersAreRecent
    <3> PICK x : x = r.now
      OBVIOUS
    <3>1. x \in Nat /\ x <= billClock /\ billClock < x + MaxWait
      BY <2>1, <2>2 DEF RateInv, WaitersAreRecent
    <3> QED BY <2>1, <2>2, <3>1, BillingNumbers
  <2>5. RecentRowsAreKept'
    <3> SUFFICES ASSUME NEW b \in admitted, b.at >= billClock' - Window PROVE b \in rateRows
      BY <2>1 DEF RecentRowsAreKept
    <3> PICK x : x = b.at
      OBVIOUS
    <3>1. x \in Nat
      BY DEF RateInv, RateTypes, RateRows
    <3>2. x >= billClock - Window
      BY <2>1, <2>2, <3>1, BillingNumbers
    <3> QED BY <3>2 DEF RateInv, RecentRowsAreKept
  <2> QED BY <2>3, <2>4, <2>5 DEF RateInv
<1> QED BY <1>1, <1>2, Consumed DEF RateNext

LEMMA WindowsHold ==
  ASSUME RateInv
  PROVE  WindowBound
<1> SUFFICES ASSUME NEW t \in BillTenants, NEW a \in admitted
             PROVE  Cardinality({b \in admitted : b.tenant = t /\ b.at <= a.at
                                      /\ b.at >= a.at - (Window - MaxWait)}) <= RequestLimit
  BY DEF WindowBound
<1>1. a.at \in Nat
  BY DEF RateInv, RateTypes, RateRows
<1> QED BY <1>1 DEF RateInv, WindowsAreBounded, Held

-----------------------------------------------------------------------------
(* Accounts: the file.                                                      *)

AccountFiles == [list : Seq(AccountRecords), active : AccountIds \cup {NoAccount}]

\* An id is there once, and the active one is there.
FileOK(f) ==
    /\ f \in AccountFiles
    /\ \A i, j \in DOMAIN f.list : f.list[i].id = f.list[j].id => i = j
    /\ IF f.list = << >> THEN f.active = NoAccount ELSE HasAccount(f, f.active)

\* g has no tokens that f did not have, and none less, but for the ids given.
SameTokens(g, f, ids) ==
    \A i \in DOMAIN g.list :
        \/ g.list[i].id \in ids
        \/ \E j \in DOMAIN f.list : f.list[j].id = g.list[i].id /\ f.list[j].used = g.list[i].used

LEMMA FileParts ==
  ASSUME NEW f, FileOK(f)
  PROVE  /\ f = [list |-> f.list, active |-> f.active]
         /\ f.list \in Seq(AccountRecords) /\ f.active \in AccountIds \cup {NoAccount}
         /\ Len(f.list) \in Nat /\ DOMAIN f.list = 1 .. Len(f.list)
         /\ \A i \in DOMAIN f.list : f.list[i] \in AccountRecords
BY DEF FileOK, AccountFiles

LEMMA PositionIs ==
  ASSUME NEW f, FileOK(f), NEW id, HasAccount(f, id)
  PROVE  /\ PositionOf(f, id) \in DOMAIN f.list
         /\ f.list[PositionOf(f, id)].id = id
         /\ \A i \in DOMAIN f.list : f.list[i].id = id => i = PositionOf(f, id)
         /\ id \in AccountIds
<1>1. PositionOf(f, id) \in Positions(f, id)
  BY DEF HasAccount, PositionOf
<1>2. PositionOf(f, id) \in DOMAIN f.list /\ f.list[PositionOf(f, id)].id = id
  BY <1>1 DEF Positions
<1>3. id \in AccountIds
  BY <1>2, FileParts DEF AccountRecords
<1> QED BY <1>2, <1>3 DEF FileOK

LEMMA PositionHas ==
  ASSUME NEW f, NEW i \in DOMAIN f.list
  PROVE  HasAccount(f, f.list[i].id)
BY DEF HasAccount, Positions

\* One record of the file is replaced, by one of the same id.
LEMMA RecordReplaced ==
  ASSUME NEW f, FileOK(f), NEW p \in DOMAIN f.list, NEW r \in AccountRecords, r.id = f.list[p].id,
         NEW active \in {f.active, r.id}, NEW g,
         g = [list |-> [f.list EXCEPT ![p] = r], active |-> active]
  PROVE  /\ FileOK(g)
         /\ g.list[p] = r /\ DOMAIN g.list = DOMAIN f.list
         /\ \A i \in DOMAIN f.list : i # p => g.list[i] = f.list[i]
<1> PICK list : list = f.list
  OBVIOUS
<1> PICK new : new = [list EXCEPT ![p] = r]
  OBVIOUS
<1>1. list \in Seq(AccountRecords) /\ f.active \in AccountIds \cup {NoAccount} /\ p \in DOMAIN list
  BY FileParts
<1>2. /\ new \in Seq(AccountRecords) /\ DOMAIN new = DOMAIN list /\ new[p] = r
      /\ \A i \in DOMAIN list : i # p => new[i] = list[i]
  BY <1>1, ExceptSeq
<1>3. \A i \in DOMAIN list : new[i].id = list[i].id
  BY <1>2
<1>4. g.list = new /\ g.active = active /\ g = [list |-> new, active |-> active]
  OBVIOUS
<1>5. list # << >> /\ new # << >>
  <2>1. DOMAIN << >> = {}
    OBVIOUS
  <2> QED BY <1>1, <1>2, <2>1
<1>6. HasAccount(f, f.active)
  BY <1>5 DEF FileOK
<1>7. HasAccount(g, f.active) /\ HasAccount(g, r.id)
  <2>1. HasAccount(g, r.id)
    BY <1>1, <1>2, <1>4 DEF HasAccount, Positions
  <2>2. HasAccount(g, f.active)
    BY <1>2, <1>3, <1>4, <1>6 DEF HasAccount, Positions
  <2> QED BY <2>1, <2>2
<1>8. r.id \in AccountIds
  BY DEF AccountRecords
<1>9. g \in AccountFiles
  BY <1>1, <1>2, <1>4, <1>8 DEF AccountFiles
<1>10. \A i, j \in DOMAIN g.list : g.list[i].id = g.list[j].id => i = j
  BY <1>2, <1>3, <1>4 DEF FileOK
<1>11. FileOK(g)
  BY <1>4, <1>5, <1>7, <1>9, <1>10 DEF FileOK
<1> QED BY <1>2, <1>4, <1>11

LEMMA Activated ==
  ASSUME NEW f, FileOK(f), NEW id, HasAccount(f, id)
  PROVE  FileOK(Activate(f, id)) /\ SameTokens(Activate(f, id), f, {})
<1> PICK list : list = f.list
  OBVIOUS
<1> PICK new : new = [i \in DOMAIN list |-> [list[i] EXCEPT !.isActive = (list[i].id = id)]]
  OBVIOUS
<1> PICK g : g = Activate(f, id)
  OBVIOUS
<1>1. list \in Seq(AccountRecords) /\ Len(list) \in Nat /\ DOMAIN list = 1 .. Len(list)
  BY FileParts
<1>2. g = [list |-> new, active |-> id] /\ g.list = new /\ g.active = id
  BY DEF Activate
<1>3. ASSUME NEW i \in DOMAIN list
      PROVE  new[i] \in AccountRecords /\ new[i].id = list[i].id /\ new[i].used = list[i].used
  <2> PICK a : a = list[i]
    OBVIOUS
  <2>1. a \in AccountRecords
    BY <1>1
  <2>2. new[i] = [a EXCEPT !.isActive = (a.id = id)]
    OBVIOUS
  <2>3. (a.id = id) \in BOOLEAN
    OBVIOUS
  <2> PICK flag : flag = (a.id = id)
    OBVIOUS
  <2>4. flag \in BOOLEAN
    BY <2>3
  <2>5. new[i] = [a EXCEPT !.isActive = flag]
    BY <2>2
  <2> QED BY <2>1, <2>4, <2>5 DEF AccountRecords
<1>4. new \in Seq(AccountRecords) /\ DOMAIN new = DOMAIN list
  <2>1. DOMAIN new = 1 .. Len(list) /\ new = [i \in DOMAIN list |-> new[i]]
    BY <1>1
  <2>2. new \in [1 .. Len(list) -> AccountRecords]
    BY <1>1, <1>3, <2>1
  <2> QED BY <1>1, <2>1, <2>2, SeqDef
<1>5. id \in AccountIds
  BY PositionIs
<1>6. g \in AccountFiles
  BY <1>2, <1>4, <1>5 DEF AccountFiles
<1>7. \A i, j \in DOMAIN g.list : g.list[i].id = g.list[j].id => i = j
  BY <1>2, <1>3, <1>4 DEF FileOK
<1>8. HasAccount(g, id)
  <2> PICK p : p = PositionOf(f, id)
    OBVIOUS
  <2>1. p \in DOMAIN list /\ list[p].id = id
    BY PositionIs
  <2>2. p \in DOMAIN g.list /\ g.list[p].id = id
    BY <1>2, <1>3, <1>4, <2>1
  <2> QED BY <2>2 DEF HasAccount, Positions
<1>9. new # << >>
  <2>1. PositionOf(f, id) \in DOMAIN new
    BY <1>4, PositionIs
  <2>2. DOMAIN << >> = {}
    OBVIOUS
  <2> QED BY <2>1, <2>2
<1>10. FileOK(g)
  BY <1>2, <1>6, <1>7, <1>8, <1>9 DEF FileOK
<1>11. SameTokens(g, f, {})
  BY <1>2, <1>3, <1>4 DEF SameTokens
<1> QED BY <1>10, <1>11

LEMMA FirstFallback ==
  ASSUME NEW f, FileOK(f), Fallbacks(f) # {}
  PROVE  Min(Fallbacks(f)) \in DOMAIN f.list
<1>1. Fallbacks(f) \subseteq DOMAIN f.list /\ Fallbacks(f) \subseteq Nat
  BY FileParts DEF Fallbacks
<1>2. PICK x \in Fallbacks(f) : \A y \in Fallbacks(f) : <<y, x>> \notin OpToRel(<, Nat)
  BY <1>1, NatLessThanWellFounded, WFMin
<1>3. \A y \in Fallbacks(f) : x =< y
  <2> SUFFICES ASSUME NEW y \in Fallbacks(f), y < x PROVE FALSE
    BY <1>1
  <2>1. <<y, x>> \in OpToRel(<, Nat)
    BY <1>1 DEF OpToRel
  <2> QED BY <1>2, <2>1
<1>4. Min(Fallbacks(f)) \in Fallbacks(f)
  BY <1>2, <1>3 DEF Min
<1> QED BY <1>1, <1>4

LEMMA Swapped ==
  ASSUME NEW f, FileOK(f), Fallbacks(f) # {}
  PROVE  FileOK(SwapToFallback(f)) /\ SameTokens(SwapToFallback(f), f, {})
<1>1. Min(Fallbacks(f)) \in DOMAIN f.list
  BY FirstFallback
<1>2. HasAccount(f, f.list[Min(Fallbacks(f))].id)
  BY <1>1, PositionHas
<1> QED BY <1>2, Activated DEF SwapToFallback

LEMMA SameIsSame ==
  ASSUME NEW f
  PROVE  SameTokens(f, f, {})
BY DEF SameTokens

LEMMA Rotated ==
  ASSUME NEW f, FileOK(f)
  PROVE  FileOK(Rotate(f)) /\ SameTokens(Rotate(f), f, {})
<1>1. CASE \E i \in Positions(f, f.active) : f.list[i].model = "pro"
  <2> PICK p : p = PositionOf(f, f.active)
    OBVIOUS
  <2> PICK old : old = f.list[p]
    OBVIOUS
  <2> PICK r : r = [old EXCEPT !.model = "flash"]
    OBVIOUS
  <2> PICK g : g = [list |-> [f.list EXCEPT ![p] = r], active |-> f.active]
    OBVIOUS
  <2>1. HasAccount(f, f.active)
    BY <1>1 DEF HasAccount
  <2>2. p \in DOMAIN f.list
    BY <2>1, PositionIs
  <2>3. old \in AccountRecords
    BY <2>2, FileParts
  <2>4. r \in AccountRecords /\ r.id = old.id /\ r.used = old.used
    BY <2>3 DEF AccountRecords
  <2>5. /\ FileOK(g) /\ g.list[p] = r /\ DOMAIN g.list = DOMAIN f.list
        /\ \A i \in DOMAIN f.list : i # p => g.list[i] = f.list[i]
    <3>1. r.id = f.list[p].id /\ f.active \in {f.active, r.id}
      BY <2>4
    <3> PICK active : active = f.active
      OBVIOUS
    <3>2. g = [list |-> [f.list EXCEPT ![p] = r], active |-> active] /\ active \in {f.active, r.id}
      OBVIOUS
    <3>3. r \in AccountRecords
      BY <2>4
    <3> QED BY ONLY FileOK(f), <2>2, <3>1, <3>2, <3>3, RecordReplaced
  <2>6. SameTokens(g, f, {})
    BY <2>2, <2>4, <2>5 DEF SameTokens
  <2>7. Rotate(f) = g
    <3>1. Rotate(f) = [f EXCEPT !.list[p].model = "flash"]
      BY <1>1 DEF Rotate
    <3>2. f = [list |-> f.list, active |-> f.active]
      BY FileParts
    <3>3. [f EXCEPT !.list[p].model = "flash"] = g
      BY <3>2
    <3> QED BY <3>1, <3>3
  <2> QED BY <2>5, <2>6, <2>7
<1>2. CASE ~\E i \in Positions(f, f.active) : f.list[i].model = "pro"
  <2>1. CASE Fallbacks(f) = {}
    BY <1>2, <2>1, SameIsSame DEF Rotate
  <2>2. CASE Fallbacks(f) # {}
    BY <1>2, <2>2, Swapped DEF Rotate
  <2> QED BY <2>1, <2>2
<1> QED BY <1>1, <1>2

LEMMA RecordAdded ==
  ASSUME NEW f, FileOK(f), NEW id \in AccountIds, ~HasAccount(f, id),
         NEW a \in AccountRecords, a.id = id, NEW active \in {f.active, id},
         f.active = NoAccount => active = id,
         NEW g, g = [list |-> Append(f.list, a), active |-> active]
  PROVE  FileOK(g) /\ SameTokens(g, f, {id})
<1> PICK list : list = f.list
  OBVIOUS
<1> PICK n : n = Len(list)
  OBVIOUS
<1> PICK new : new = Append(list, a)
  OBVIOUS
<1>1. list \in Seq(AccountRecords) /\ n \in Nat /\ DOMAIN list = 1 .. n /\ f.active \in AccountIds \cup {NoAccount}
  BY FileParts
<1>2. /\ new \in Seq(AccountRecords) /\ DOMAIN new = 1 .. n + 1 /\ new[n + 1] = a
      /\ \A i \in 1 .. n : new[i] = list[i]
  BY <1>1, AppendProperties
<1>3. g.list = new /\ g.active = active /\ g = [list |-> new, active |-> active]
  OBVIOUS
<1>4. g \in AccountFiles
  BY <1>1, <1>2, <1>3 DEF AccountFiles
<1>5. \A i \in 1 .. n : list[i].id # id
  BY <1>1 DEF HasAccount, Positions
<1>6. \A i, j \in DOMAIN g.list : g.list[i].id = g.list[j].id => i = j
  <2> SUFFICES ASSUME NEW i \in 1 .. n + 1, NEW j \in 1 .. n + 1, new[i].id = new[j].id PROVE i = j
    BY <1>2, <1>3
  <2>1. CASE i \in 1 .. n /\ j \in 1 .. n
    BY <1>1, <1>2, <2>1 DEF FileOK
  <2>2. CASE i = n + 1 \/ j = n + 1
    <3>1. ASSUME NEW k \in 1 .. n + 1, new[k].id = id
          PROVE  k = n + 1
      BY <1>1, <1>2, <1>5, <3>1
    <3> QED BY <1>2, <2>2, <3>1
  <2> QED BY <1>1, <2>1, <2>2
<1>7. HasAccount(g, active)
  <2>1. CASE active = id
    <3>1. n + 1 \in DOMAIN g.list /\ g.list[n + 1].id = id
      BY <1>1, <1>2, <1>3
    <3> QED BY <2>1, <3>1 DEF HasAccount, Positions
  <2>2. CASE active # id
    <3>1. active = f.active /\ f.active # NoAccount
      BY <2>2
    <3>2. HasAccount(f, f.active)
      BY <3>1 DEF FileOK
    <3>3. PICK i \in DOMAIN list : list[i].id = f.active
      BY <3>2, PositionIs
    <3>4. i \in DOMAIN g.list /\ g.list[i].id = active
      BY <1>1, <1>2, <1>3, <3>1, <3>3
    <3> QED BY <3>4 DEF HasAccount, Positions
  <2> QED BY <2>1, <2>2
<1>8. new # << >>
  <2>1. n + 1 \in DOMAIN new
    BY <1>1, <1>2
  <2>2. DOMAIN << >> = {}
    OBVIOUS
  <2> QED BY <2>1, <2>2
<1>9. FileOK(g)
  BY <1>3, <1>4, <1>6, <1>7, <1>8 DEF FileOK
<1>10. SameTokens(g, f, {id})
  <2> SUFFICES ASSUME NEW i \in 1 .. n + 1
               PROVE  new[i].id = id \/ \E j \in DOMAIN list : list[j].id = new[i].id /\ list[j].used = new[i].used
    BY <1>2, <1>3 DEF SameTokens
  <2>1. CASE i = n + 1
    BY <1>2, <2>1
  <2>2. CASE i \in 1 .. n
    BY <1>1, <1>2, <2>2
  <2> QED BY <1>1, <2>1, <2>2
<1> QED BY <1>9, <1>10

LEMMA Joined ==
  ASSUME NEW S, NEW a \in Seq(S), NEW b \in Seq(S), NEW p \in Nat \ {0}, NEW n \in Nat, p <= n,
         Len(a) = p - 1, Len(b) = n - p
  PROVE  /\ a \o b \in Seq(S) /\ DOMAIN (a \o b) = 1 .. n - 1
         /\ \A k \in 1 .. n - 1 : (a \o b)[k] = IF k < p THEN a[k] ELSE b[k + 1 - p]
<1>1. a \o b \in Seq(S) /\ Len(a \o b) = (p - 1) + (n - p)
  OBVIOUS
<1>2. DOMAIN (a \o b) = 1 .. n - 1
  BY <1>1
<1>3. ASSUME NEW k \in 1 .. n - 1
      PROVE  (a \o b)[k] = IF k < p THEN a[k] ELSE b[k + 1 - p]
  <2>1. (a \o b)[k] = IF k <= p - 1 THEN a[k] ELSE b[k - (p - 1)]
    OBVIOUS
  <2>2. (k <= p - 1 <=> k < p) /\ k - (p - 1) = k + 1 - p
    OBVIOUS
  <2> QED BY <2>1, <2>2
<1> QED BY <1>1, <1>2, <1>3

LEMMA Removed ==
  ASSUME NEW S, NEW list \in Seq(S), NEW p \in DOMAIN list, NEW n, n = Len(list)
  PROVE  /\ RemoveAt(list, p) \in Seq(S) /\ DOMAIN RemoveAt(list, p) = 1 .. n - 1
         /\ \A k \in 1 .. n - 1 : RemoveAt(list, p)[k] = list[IF k < p THEN k ELSE k + 1]
<1>1. n \in Nat /\ p \in 1 .. n /\ DOMAIN list = 1 .. n
  OBVIOUS
<1>2. \A i \in 1 .. n : list[i] \in S
  BY <1>1
<1>3. PICK a : a = SubSeq(list, 1, p - 1)
  OBVIOUS
<1>4. a \in Seq(S) /\ Len(a) = p - 1 /\ \A i \in 1 .. p - 1 : a[i] = list[i]
  <2>0. PICK m : m = p - 1
    OBVIOUS
  <2>1. 1 \in Int /\ m \in Int /\ \A i \in 1 .. m : list[i] \in S
    BY ONLY <1>1, <1>2, <2>0
  <2>2. /\ SubSeq(list, 1, m) \in Seq(S)
        /\ Len(SubSeq(list, 1, m)) = IF 1 <= m THEN m - 1 + 1 ELSE 0
        /\ \A i \in 1 .. m - 1 + 1 : SubSeq(list, 1, m)[i] = list[1 + i - 1]
    BY <2>1, SubSeqProperties
  <2> QED BY ONLY <1>1, <1>3, <2>0, <2>2
<1>5. PICK b : b = SubSeq(list, p + 1, n)
  OBVIOUS
<1>6. b \in Seq(S) /\ Len(b) = n - p /\ \A i \in 1 .. n - p : b[i] = list[p + i]
  <2>0. PICK q : q = p + 1
    OBVIOUS
  <2>1. q \in Int /\ n \in Int /\ \A i \in q .. n : list[i] \in S
    BY ONLY <1>1, <1>2, <2>0
  <2>2. /\ SubSeq(list, q, n) \in Seq(S)
        /\ Len(SubSeq(list, q, n)) = IF q <= n THEN n - q + 1 ELSE 0
        /\ \A i \in 1 .. n - q + 1 : SubSeq(list, q, n)[i] = list[q + i - 1]
    BY <2>1, SubSeqProperties
  <2> QED BY ONLY <1>1, <1>5, <2>0, <2>2
<1>7. /\ a \o b \in Seq(S) /\ DOMAIN (a \o b) = 1 .. n - 1
      /\ \A k \in 1 .. n - 1 : (a \o b)[k] = IF k < p THEN a[k] ELSE b[k + 1 - p]
  <2>1. p \in Nat \ {0} /\ p <= n
    BY ONLY <1>1
  <2> QED BY ONLY <1>1, <1>4, <1>6, <2>1, Joined
<1>8. RemoveAt(list, p) = a \o b
  BY <1>3, <1>5 DEF RemoveAt
<1>9. ASSUME NEW k \in 1 .. n - 1
      PROVE  (a \o b)[k] = list[IF k < p THEN k ELSE k + 1]
  <2>1. CASE k < p
    <3>1. k \in 1 .. p - 1
      BY ONLY <1>1, <2>1, k \in 1 .. n - 1
    <3> QED BY ONLY <1>4, <1>7, <2>1, <3>1, k \in 1 .. n - 1
  <2>2. CASE ~(k < p)
    <3>1. k + 1 - p \in 1 .. n - p /\ p + (k + 1 - p) = k + 1
      BY ONLY <1>1, <2>2, k \in 1 .. n - 1
    <3> QED BY ONLY <1>6, <1>7, <2>2, <3>1, k \in 1 .. n - 1
  <2> QED BY <2>1, <2>2
<1> QED BY <1>7, <1>8, <1>9

LEMMA RecordDeleted ==
  ASSUME NEW f, FileOK(f), NEW id, HasAccount(f, id),
         NEW list, list = RemoveAt(f.list, PositionOf(f, id)),
         NEW g, g = [list |-> list,
                     active |-> IF f.active # id THEN f.active
                                ELSE IF list = <<>> THEN NoAccount ELSE list[1].id]
  PROVE  FileOK(g) /\ SameTokens(g, f, {})
<1> PICK old : old = f.list
  OBVIOUS
<1>0. PICK n : n = Len(old)
  OBVIOUS
<1> PICK p : p = PositionOf(f, id)
  OBVIOUS
<1>1. old \in Seq(AccountRecords) /\ n \in Nat /\ DOMAIN old = 1 .. n /\ f.active \in AccountIds \cup {NoAccount}
  BY <1>0, FileParts
<1>2. p \in 1 .. n /\ old[p].id = id /\ \A i \in 1 .. n : old[i].id = id => i = p
  BY <1>1, PositionIs
<1>3. /\ list \in Seq(AccountRecords) /\ DOMAIN list = 1 .. n - 1
      /\ \A k \in 1 .. n - 1 : list[k] = old[IF k < p THEN k ELSE k + 1]
  <2>1. list = RemoveAt(old, p) /\ p \in DOMAIN old
    BY <1>1, <1>2
  <2> QED BY ONLY <1>0, <1>1, <2>1, Removed
<1>4. \A k \in 1 .. n - 1 : (IF k < p THEN k ELSE k + 1) \in 1 .. n
  BY <1>1, <1>2
<1>5. g.list = list
  OBVIOUS
<1>6. \A i, j \in DOMAIN g.list : g.list[i].id = g.list[j].id => i = j
  <2> SUFFICES ASSUME NEW i \in 1 .. n - 1, NEW j \in 1 .. n - 1, list[i].id = list[j].id PROVE i = j
    BY <1>3, <1>5
  <2> PICK x : x = IF i < p THEN i ELSE i + 1
    OBVIOUS
  <2> PICK y : y = IF j < p THEN j ELSE j + 1
    OBVIOUS
  <2>1. x \in 1 .. n /\ y \in 1 .. n /\ list[i] = old[x] /\ list[j] = old[y]
    BY <1>3, <1>4
  <2>2. x = y
    BY <1>1, <2>1 DEF FileOK
  <2> QED BY <1>1, <1>2, <2>2
<1>7. SameTokens(g, f, {})
  BY <1>1, <1>3, <1>4, <1>5 DEF SameTokens
<1>8. list = << >> \/ 1 \in DOMAIN list
  <2>1. CASE n - 1 = 0
    BY <1>3, <2>1, EmptySeq
  <2>2. CASE n - 1 # 0
    BY <1>1, <1>2, <1>3, <2>2
  <2> QED BY <2>1, <2>2
<1>9. CASE f.active # id
  <2>1. old # << >>
    <3>1. DOMAIN << >> = {}
      OBVIOUS
    <3> QED BY <1>1, <1>2, <3>1
  <2>2. PICK i \in 1 .. n : old[i].id = f.active
    <3>1. HasAccount(f, f.active)
      BY <2>1 DEF FileOK
    <3> QED BY <1>1, <3>1, PositionIs
  <2>3. i # p
    BY <1>2, <1>9, <2>2
  <2> PICK k : k = IF i < p THEN i ELSE i - 1
    OBVIOUS
  <2>4. k \in 1 .. n - 1 /\ (IF k < p THEN k ELSE k + 1) = i
    BY <1>1, <1>2, <2>3
  <2>5. k \in DOMAIN g.list /\ g.list[k].id = f.active /\ g.active = f.active
    BY <1>3, <1>5, <1>9, <2>2, <2>4
  <2>6. list # << >>
    <3>1. DOMAIN << >> = {}
      OBVIOUS
    <3> QED BY <1>5, <2>5, <3>1
  <2>7. HasAccount(g, g.active)
    BY <2>5 DEF HasAccount, Positions
  <2>8. g \in AccountFiles
    BY <1>1, <1>3, <1>9 DEF AccountFiles
  <2> QED BY <1>5, <1>6, <1>7, <2>6, <2>7, <2>8 DEF FileOK
<1>10. CASE f.active = id
  <2>1. CASE list = << >>
    <3>1. g.active = NoAccount /\ g \in AccountFiles
      BY <1>3, <1>10, <2>1 DEF AccountFiles
    <3> QED BY <1>5, <1>6, <1>7, <2>1, <3>1 DEF FileOK
  <2>2. CASE list # << >>
    <3>1. 1 \in DOMAIN g.list /\ g.active = g.list[1].id
      BY <1>5, <1>8, <1>10, <2>2
    <3>2. HasAccount(g, g.active)
      BY <3>1 DEF HasAccount, Positions
    <3>3. g.active \in AccountIds
      <4>1. list[1] \in AccountRecords
        BY <1>3, <1>5, <3>1
      <4> QED BY <1>5, <3>1, <4>1 DEF AccountRecords
    <3>4. g = [list |-> list, active |-> g.active]
      OBVIOUS
    <3>5. g \in AccountFiles
      BY <1>3, <3>3, <3>4 DEF AccountFiles
    <3> QED BY <1>5, <1>6, <1>7, <2>2, <3>2, <3>5 DEF FileOK
  <2> QED BY <2>1, <2>2
<1> QED BY <1>9, <1>10

-----------------------------------------------------------------------------
(* Accounts: the calls that record usage.                                   *)

RowsOf(id) == {r \in usageRows : r.account = id}

\* The calls that have counted their tokens and not billed them yet.
Owing(id) == {c \in Callers : usagePc[c] = "saved" /\ usageReq[c][2] = id}

AcctTypes ==
    /\ FileOK(accountFile)
    /\ usagePc \in [Callers -> {"idle", "checked", "loaded", "saved", "billed"}]
    /\ DOMAIN usageReq = Callers /\ DOMAIN loadedFile = Callers
    /\ \A c \in Callers : usagePc[c] = "loaded" => FileOK(loadedFile[c][1])
    /\ IsFiniteSet(usageRows)
    /\ overlapped \in BOOLEAN

\* No call has been overtaken, as long as the history says so.
LoadedIsCurrent ==
    ~overlapped => \A c \in Callers : usagePc[c] = "loaded" => loadedFile[c][1] = accountFile

\* An account covers its rows and what will be billed to it.
TokensCoverAll ==
    ~overlapped =>
        \A i \in DOMAIN accountFile.list, id \in AccountIds \ touched :
            accountFile.list[i].id = id =>
                accountFile.list[i].used >= Cardinality(RowsOf(id)) + Cardinality(Owing(id))

AcctInv == AcctTypes /\ BilledOnce /\ LoadedIsCurrent /\ TokensCoverAll

LEMMA CountsAreNumbers ==
  ASSUME AcctTypes, NEW id
  PROVE  /\ IsFiniteSet(RowsOf(id)) /\ Cardinality(RowsOf(id)) \in Nat
         /\ IsFiniteSet(Owing(id)) /\ Cardinality(Owing(id)) \in Nat
<1>1. RowsOf(id) \subseteq usageRows /\ Owing(id) \subseteq Callers
  BY DEF RowsOf, Owing
<1>2. IsFiniteSet(usageRows) /\ IsFiniteSet(Callers)
  BY AccountsAssumption DEF AcctTypes
<1> QED BY <1>1, <1>2, FS_Subset, FS_CardinalityType

LEMMA AcctStarts ==
  ASSUME AcctInit
  PROVE  AcctInv
<1> PICK id : id = CHOOSE a \in AccountIds : TRUE
  OBVIOUS
<1> PICK r : r = [id |-> id, used |-> 0, budget |-> Unlimited, isActive |-> TRUE, model |-> "pro"]
  OBVIOUS
<1>1. /\ accountFile = [list |-> <<r>>, active |-> id]
      /\ usageRows = {} /\ credits = StartCredits
      /\ usagePc = [c \in Callers |-> "idle"] /\ usageReq = [c \in Callers |-> <<>>]
      /\ loadedFile = [c \in Callers |-> <<>>] /\ overlapped = FALSE /\ touched = {}
  BY DEF AcctInit
<1>2. id \in AccountIds
  BY AccountsAssumption
<1>3. r \in AccountRecords /\ r.id = id /\ r.used = 0
  BY <1>2, AccountsAssumption DEF AccountRecords
<1>4. /\ accountFile.list = <<r>> /\ accountFile.active = id
      /\ <<r>> \in Seq(AccountRecords) /\ DOMAIN <<r>> = {1} /\ <<r>>[1] = r /\ <<r>> # << >>
  <2>1. accountFile.list = <<r>> /\ accountFile.active = id
    BY <1>1
  <2>2. \A x \in AccountRecords : <<x>> \in Seq(AccountRecords) /\ DOMAIN <<x>> = {1} /\ <<x>>[1] = x /\ <<x>> # << >>
    OBVIOUS
  <2> QED BY <1>3, <2>1, <2>2
<1>5. HasAccount(accountFile, id)
  BY <1>3, <1>4 DEF HasAccount, Positions
<1>6. accountFile \in AccountFiles
  BY <1>1, <1>2, <1>4 DEF AccountFiles
<1>7. FileOK(accountFile)
  BY <1>4, <1>5, <1>6 DEF FileOK
<1>8. Cardinality({}) = 0 /\ IsFiniteSet({})
  BY FS_EmptySet
<1>9. AcctTypes
  BY <1>1, <1>7, <1>8 DEF AcctTypes
<1>10. BilledOnce
  <2>1. StartCredits \in Nat
    BY AccountsAssumption
  <2> QED BY <1>1, <1>8, <2>1 DEF BilledOnce
<1>11. LoadedIsCurrent
  BY <1>1 DEF LoadedIsCurrent
<1>12. TokensCoverAll
  <2>1. \A a : RowsOf(a) = {} /\ Owing(a) = {}
    BY <1>1 DEF RowsOf, Owing
  <2>2. \A a : Cardinality(RowsOf(a)) = 0 /\ Cardinality(Owing(a)) = 0
    BY <1>8, <2>1
  <2>3. \A i \in DOMAIN accountFile.list : accountFile.list[i].used = 0
    BY <1>3, <1>4
  <2> QED BY <2>2, <2>3 DEF TokensCoverAll
<1> QED BY <1>9, <1>10, <1>11, <1>12 DEF AcctInv

LEMMA AcctStays ==
  ASSUME AcctInv, UNCHANGED acctVars
  PROVE  AcctInv'
<1>1. UNCHANGED << accountFile, usageRows, credits, usagePc, usageReq, loadedFile, overlapped, touched >>
  BY DEF acctVars
<1>2. AcctTypes'
  BY <1>1 DEF AcctInv, AcctTypes
<1>3. BilledOnce'
  BY <1>1 DEF AcctInv, BilledOnce
<1>4. LoadedIsCurrent'
  BY <1>1 DEF AcctInv, LoadedIsCurrent
<1>5. TokensCoverAll'
  BY <1>1 DEF AcctInv, TokensCoverAll, RowsOf, Owing
<1> QED BY <1>2, <1>3, <1>4, <1>5 DEF AcctInv

\* Nothing is billed, nothing more is owed, and the file keeps its tokens.
LEMMA CoverKept ==
  ASSUME AcctTypes, AcctTypes', TokensCoverAll, ~overlapped' => ~overlapped,
         SameTokens(accountFile', accountFile, touched'), touched \subseteq touched',
         usageRows' = usageRows, \A id : Owing(id)' \subseteq Owing(id)
  PROVE  TokensCoverAll'
<1> SUFFICES ASSUME ~overlapped', NEW i \in DOMAIN accountFile'.list, NEW id \in AccountIds \ touched',
                    accountFile'.list[i].id = id
             PROVE  accountFile'.list[i].used >= Cardinality(RowsOf(id)') + Cardinality(Owing(id)')
  BY DEF TokensCoverAll
<1>1. PICK j \in DOMAIN accountFile.list :
        accountFile.list[j].id = id /\ accountFile.list[j].used = accountFile'.list[i].used
  BY DEF SameTokens
<1>2. accountFile.list[j].used \in Nat
  <2>1. accountFile.list[j] \in AccountRecords
    BY FileParts DEF AcctTypes
  <2> QED BY <2>1 DEF AccountRecords
<1>3. accountFile.list[j].used >= Cardinality(RowsOf(id)) + Cardinality(Owing(id))
  BY <1>1 DEF TokensCoverAll
<1>4. RowsOf(id)' = RowsOf(id)
  BY DEF RowsOf
<1>5. /\ Cardinality(RowsOf(id)) \in Nat /\ Cardinality(Owing(id)) \in Nat
      /\ Cardinality(Owing(id)') \in Nat
      /\ Cardinality(Owing(id)') <= Cardinality(Owing(id))
  <2>1. IsFiniteSet(Owing(id)) /\ Owing(id)' \subseteq Owing(id)
    BY CountsAreNumbers
  <2>2. IsFiniteSet(Owing(id)') /\ Cardinality(Owing(id)') <= Cardinality(Owing(id))
    BY <2>1, FS_Subset
  <2> QED BY <2>2, CountsAreNumbers, FS_CardinalityType
<1>6. Cardinality(RowsOf(id)') = Cardinality(RowsOf(id))
  BY <1>4
<1> QED BY <1>1, <1>2, <1>3, <1>5, <1>6

\* A call moves to where it owes nothing.
LEMMA OwesLess ==
  ASSUME AcctTypes, NEW c \in Callers, NEW at, at # "saved",
         usagePc' = [usagePc EXCEPT ![c] = at],
         \A d \in Callers \ {c} : usageReq'[d] = usageReq[d]
  PROVE  \A id : Owing(id)' \subseteq Owing(id)
<1> SUFFICES ASSUME NEW id, NEW d \in Owing(id)' PROVE d \in Owing(id)
  OBVIOUS
<1>1. d \in Callers /\ usagePc'[d] = "saved" /\ usageReq'[d][2] = id
  BY DEF Owing
<1>2. d # c
  BY <1>1 DEF AcctTypes
<1>3. usagePc[d] = "saved"
  BY <1>1, <1>2 DEF AcctTypes
<1> QED BY <1>1, <1>2, <1>3 DEF Owing

LEMMA FileChanged ==
  ASSUME AcctInv, NEW g, FileOK(g), NEW ids, SameTokens(g, accountFile, ids), ChangeFile(g, ids)
  PROVE  AcctInv'
<1>1. /\ accountFile' = g /\ touched' = touched \cup ids
      /\ overlapped' = (overlapped \/ \E c \in Callers \ {NoAccount} : usagePc[c] = "loaded")
      /\ UNCHANGED << usageRows, credits, usagePc, usageReq, loadedFile >>
  BY DEF ChangeFile, NoteOverlap, ledgerVars, usageVars
<1>2. overlapped' \in BOOLEAN /\ (~overlapped' => ~overlapped /\ \A c \in Callers : usagePc[c] # "loaded")
  BY <1>1, AccountsAssumption DEF NoAccount, AcctInv, AcctTypes
<1>3. AcctTypes'
  BY <1>1, <1>2 DEF AcctInv, AcctTypes
<1>4. BilledOnce' /\ LoadedIsCurrent'
  BY <1>1, <1>2 DEF AcctInv, BilledOnce, LoadedIsCurrent
<1>5. SameTokens(accountFile', accountFile, touched')
  BY <1>1 DEF SameTokens
<1>6. \A id : Owing(id)' \subseteq Owing(id)
  BY <1>1 DEF Owing
<1>7. TokensCoverAll'
  BY <1>1, <1>2, <1>3, <1>5, <1>6, CoverKept DEF AcctInv
<1> QED BY <1>3, <1>4, <1>7 DEF AcctInv

LEMMA AccountAdded ==
  ASSUME AcctInv, NEW id \in AccountIds, NEW b \in {Unlimited, TokenBudget}, NEW flag \in BOOLEAN,
         AddAccount(id, b, flag)
  PROVE  AcctInv'
<1> PICK f : f = accountFile
  OBVIOUS
<1> PICK a : a = [id |-> id, used |-> 0, budget |-> b, isActive |-> flag, model |-> "flash"]
  OBVIOUS
<1> PICK active : active = IF f.active = NoAccount \/ flag THEN id ELSE f.active
  OBVIOUS
<1>1. a \in AccountRecords /\ a.id = id
  BY AccountsAssumption DEF AccountRecords
<1>2. active \in {f.active, id} /\ (f.active = NoAccount => active = id)
  OBVIOUS
<1>3. FileOK(f)
  BY DEF AcctInv, AcctTypes
<1>4. CASE HasAccount(f, id)
  <2> PICK p : p = PositionOf(f, id)
    OBVIOUS
  <2> PICK g : g = [list |-> [f.list EXCEPT ![p] = a], active |-> active]
    OBVIOUS
  <2>1. ChangeFile(g, {id})
    BY <1>4 DEF AddAccount
  <2>2. p \in DOMAIN f.list /\ f.list[p].id = id
    BY <1>3, <1>4, PositionIs
  <2>3. /\ FileOK(g) /\ g.list[p] = a /\ DOMAIN g.list = DOMAIN f.list
        /\ \A i \in DOMAIN f.list : i # p => g.list[i] = f.list[i]
    <3>1. active \in {f.active, a.id} /\ a.id = f.list[p].id
      BY <1>1, <1>2, <2>2
    <3> QED BY <1>1, <1>3, <2>2, <3>1, RecordReplaced
  <2>4. SameTokens(g, f, {id})
    BY <1>1, <2>2, <2>3 DEF SameTokens
  <2> QED BY <2>1, <2>3, <2>4, FileChanged
<1>5. CASE ~HasAccount(f, id)
  <2> PICK g : g = [list |-> Append(f.list, a), active |-> active]
    OBVIOUS
  <2>1. ChangeFile(g, {id})
    BY <1>5 DEF AddAccount
  <2>2. FileOK(g) /\ SameTokens(g, f, {id})
    BY <1>1, <1>2, <1>3, <1>5, RecordAdded
  <2> QED BY <2>1, <2>2, FileChanged
<1> QED BY <1>4, <1>5

LEMMA AccountDeleted ==
  ASSUME AcctInv, NEW id \in AccountIds, DeleteAccount(id)
  PROVE  AcctInv'
<1> PICK f : f = accountFile
  OBVIOUS
<1> PICK list : list = RemoveAt(f.list, PositionOf(f, id))
  OBVIOUS
<1> PICK g : g = [list |-> list,
                  active |-> IF f.active # id THEN f.active ELSE IF list = <<>> THEN NoAccount ELSE list[1].id]
  OBVIOUS
<1>1. HasAccount(f, id) /\ ChangeFile(g, {id})
  BY DEF DeleteAccount
<1>2. FileOK(f)
  BY DEF AcctInv, AcctTypes
<1>3. FileOK(g) /\ SameTokens(g, f, {})
  BY <1>1, <1>2, RecordDeleted
<1>4. SameTokens(g, f, {id})
  BY <1>3 DEF SameTokens
<1> QED BY <1>1, <1>3, <1>4, FileChanged

\* The tokens are counted: the call writes back what it loaded, and owes a row.
LEMMA TokensSaved ==
  ASSUME AcctInv, NEW c \in Callers, UsageSave(c)
  PROVE  AcctInv'
<1>20. PICK f : f = loadedFile[c][1]
  OBVIOUS
<1>21. PICK id : id = usageReq[c][2]
  OBVIOUS
<1>22. PICK p : p = PositionOf(f, id)
  OBVIOUS
<1>23. PICK old : old = f.list[p]
  OBVIOUS
<1>24. PICK u : u = old.used
  OBVIOUS
<1>25. PICK r : r = [old EXCEPT !.used = u + 1]
  OBVIOUS
<1>26. PICK g : g = [list |-> [f.list EXCEPT ![p] = r], active |-> f.active]
  OBVIOUS
<1>1. /\ usagePc[c] = "loaded" /\ HasAccount(f, id) /\ u < MaxTokens
      /\ accountFile' = [f EXCEPT !.list[p].used = @ + 1]
      /\ loadedFile' = [loadedFile EXCEPT ![c] = <<>>]
      /\ usagePc' = [usagePc EXCEPT ![c] = "saved"]
      /\ overlapped' = (overlapped \/ \E d \in Callers \ {c} : usagePc[d] = "loaded")
      /\ UNCHANGED << usageRows, credits, usageReq, touched >>
  BY <1>20, <1>21, <1>22, <1>23, <1>24 DEF UsageSave, NoteOverlap, ledgerVars
<1>2. FileOK(f) /\ \A k \in DOMAIN f.list : f.list[k] \in AccountRecords
  <2>1. FileOK(f)
    BY <1>1, <1>20 DEF AcctInv, AcctTypes
  <2> QED BY <2>1, FileParts
<1>3. p \in DOMAIN f.list /\ old.id = id /\ id \in AccountIds
  BY <1>1, <1>2, <1>22, <1>23, PositionIs
<1>4. old \in AccountRecords
  BY <1>2, <1>3, <1>23
<1>5. r \in AccountRecords /\ r.id = id /\ r.used = u + 1 /\ u \in Nat
  <2>1. MaxTokens \in Nat
    BY AccountsAssumption
  <2>2. u \in 0 .. MaxTokens
    BY <1>4, <1>24 DEF AccountRecords
  <2>3. u + 1 \in 0 .. MaxTokens /\ u \in Nat
    BY <1>1, <2>1, <2>2
  <2>4. PICK v : v = u + 1
    OBVIOUS
  <2>5. r = [old EXCEPT !.used = v] /\ v \in 0 .. MaxTokens
    BY <1>25, <2>3, <2>4
  <2>6. r \in AccountRecords /\ r.id = old.id /\ r.used = v
    BY <1>4, <2>5 DEF AccountRecords
  <2> QED BY <1>3, <2>3, <2>4, <2>6
<1>6. accountFile' = g
  <2>1. PICK list : list = f.list
    OBVIOUS
  <2>2. PICK active : active = f.active
    OBVIOUS
  <2>3. f = [list |-> list, active |-> active]
    BY <1>2, <2>1, <2>2, FileParts
  <2>4. accountFile' = [f EXCEPT !.list = [list EXCEPT ![p] = [old EXCEPT !.used = u + 1]]]
    BY <1>1, <1>3, <1>23, <1>24, <2>1
  <2>5. accountFile' = [f EXCEPT !.list = [list EXCEPT ![p] = r]]
    BY <1>25, <2>4
  <2>6. PICK new : new = [list EXCEPT ![p] = r]
    OBVIOUS
  <2>7. [f EXCEPT !.list = new] = [list |-> new, active |-> active]
    BY <2>3
  <2> QED BY <1>26, <2>1, <2>2, <2>5, <2>6, <2>7
<1>7. /\ FileOK(g) /\ g.list[p] = r /\ DOMAIN g.list = DOMAIN f.list
      /\ \A i \in DOMAIN f.list : i # p => g.list[i] = f.list[i]
  <2>0. PICK active : active = f.active
    OBVIOUS
  <2>1. active \in {f.active, r.id} /\ r.id = f.list[p].id
    BY <1>3, <1>5, <1>23, <2>0
  <2>2. g = [list |-> [f.list EXCEPT ![p] = r], active |-> active]
    BY <1>26, <2>0
  <2> QED BY ONLY <1>2, <1>3, <1>5, <2>1, <2>2, RecordReplaced
<1>8. AcctTypes'
  <2>1. usagePc' \in [Callers -> {"idle", "checked", "loaded", "saved", "billed"}]
    BY <1>1 DEF AcctInv, AcctTypes
  <2>2. \A d \in Callers : usagePc'[d] = "loaded" => FileOK(loadedFile'[d][1])
    <3> SUFFICES ASSUME NEW d \in Callers, usagePc'[d] = "loaded" PROVE FileOK(loadedFile'[d][1])
      OBVIOUS
    <3>1. d # c /\ usagePc[d] = "loaded" /\ loadedFile'[d] = loadedFile[d]
      BY <1>1 DEF AcctInv, AcctTypes
    <3> QED BY <3>1 DEF AcctInv, AcctTypes
  <2>3. DOMAIN loadedFile' = Callers /\ overlapped' \in BOOLEAN
    BY <1>1 DEF AcctInv, AcctTypes
  <2>4. FileOK(accountFile')
    BY <1>6, <1>7
  <2> QED BY <1>1, <2>1, <2>2, <2>3, <2>4 DEF AcctInv, AcctTypes
<1>9. BilledOnce'
  BY <1>1 DEF AcctInv, BilledOnce
<1>10. LoadedIsCurrent'
  <2> SUFFICES ASSUME ~overlapped', NEW d \in Callers, usagePc'[d] = "loaded" PROVE FALSE
    BY DEF LoadedIsCurrent
  <2>1. d # c /\ usagePc[d] = "loaded"
    BY <1>1 DEF AcctInv, AcctTypes
  <2> QED BY <1>1, <2>1
<1>11. TokensCoverAll'
  <2> SUFFICES ASSUME ~overlapped', NEW i \in DOMAIN accountFile'.list, NEW x \in AccountIds \ touched',
                      accountFile'.list[i].id = x
               PROVE  accountFile'.list[i].used >= Cardinality(RowsOf(x)') + Cardinality(Owing(x)')
    BY DEF TokensCoverAll
  <2>1. ~overlapped /\ accountFile = f
    BY <1>1, <1>20 DEF AcctInv, LoadedIsCurrent
  <2>2. RowsOf(x)' = RowsOf(x)
    BY <1>1 DEF RowsOf
  <2>3. Cardinality(RowsOf(x)') = Cardinality(RowsOf(x))
    BY <2>2
  <2>4. /\ Cardinality(RowsOf(x)) \in Nat /\ Cardinality(Owing(x)) \in Nat /\ IsFiniteSet(Owing(x))
        /\ Cardinality(Owing(x)') \in Nat
    <3>1. Owing(x)' \subseteq Callers /\ IsFiniteSet(Callers)
      BY AccountsAssumption DEF Owing
    <3>2. Cardinality(Owing(x)') \in Nat
      BY <3>1, FS_Subset, FS_CardinalityType
    <3> QED BY <3>2, CountsAreNumbers DEF AcctInv
  <2>5. i \in DOMAIN f.list /\ accountFile' = g
    BY <1>6, <1>7
  <2>6. CASE i = p
    <3>1. x = id /\ accountFile'.list[i].used = u + 1
      BY <1>5, <1>7, <2>5, <2>6
    <3>2. u >= Cardinality(RowsOf(x)) + Cardinality(Owing(x))
      BY <1>1, <1>3, <1>23, <1>24, <2>1, <3>1 DEF AcctInv, TokensCoverAll
    <3>3. Owing(x)' \subseteq Owing(x) \cup {c}
      BY <1>1 DEF Owing, AcctInv, AcctTypes
    <3>4. IsFiniteSet(Owing(x) \cup {c}) /\ Cardinality(Owing(x) \cup {c}) \in Nat
      BY <2>4, FS_AddElement, FS_CardinalityType
    <3>5. Cardinality(Owing(x)') <= Cardinality(Owing(x) \cup {c})
      BY <3>3, <3>4, FS_Subset
    <3>6. c \notin Owing(x)
      BY <1>1 DEF Owing
    <3>7. Cardinality(Owing(x) \cup {c}) = Cardinality(Owing(x)) + 1
      BY <2>4, <3>6, FS_AddElement
    <3> QED BY <1>5, <2>3, <2>4, <3>1, <3>2, <3>4, <3>5, <3>7
  <2>7. CASE i # p
    <3>1. accountFile'.list[i] = f.list[i]
      BY <1>7, <2>5, <2>7
    <3>2. x # id
      BY <1>2, <1>3, <1>23, <2>5, <2>7, <3>1 DEF FileOK
    <3>3. Owing(x)' \subseteq Owing(x)
      BY <1>1, <1>21, <3>2 DEF Owing, AcctInv, AcctTypes
    <3>4. Cardinality(Owing(x)') <= Cardinality(Owing(x))
      BY <2>4, <3>3, FS_Subset
    <3>5. f.list[i].used >= Cardinality(RowsOf(x)) + Cardinality(Owing(x))
      BY <1>1, <2>1, <2>5, <3>1 DEF AcctInv, TokensCoverAll
    <3>6. f.list[i].used \in Nat
      <4>1. f.list[i] \in AccountRecords
        BY <1>2, <2>5
      <4> QED BY <4>1 DEF AccountRecords
    <3> QED BY <2>3, <2>4, <3>1, <3>4, <3>5, <3>6
  <2> QED BY <2>6, <2>7
<1> QED BY <1>8, <1>9, <1>10, <1>11 DEF AcctInv

\* The call ends, or moves on without a debt; the file may have rotated.
LEMMA CallMoved ==
  ASSUME AcctInv, NEW c \in Callers, NEW at \in {"idle", "checked"},
         usagePc' = [usagePc EXCEPT ![c] = at],
         \A d \in Callers \ {c} : usageReq'[d] = usageReq[d] /\ loadedFile'[d] = loadedFile[d],
         DOMAIN usageReq' = Callers, DOMAIN loadedFile' = Callers,
         FileOK(accountFile'), SameTokens(accountFile', accountFile, {}),
         overlapped' \in BOOLEAN, ~overlapped' => ~overlapped,
         ~overlapped' => accountFile' = accountFile \/ \A d \in Callers \ {c} : usagePc[d] # "loaded",
         UNCHANGED << usageRows, credits, touched >>
  PROVE  AcctInv'
<1>1. /\ usagePc' \in [Callers -> {"idle", "checked", "loaded", "saved", "billed"}]
      /\ \A d \in Callers : usagePc'[d] = "loaded" => d # c /\ usagePc[d] = "loaded" /\ loadedFile'[d] = loadedFile[d]
  BY DEF AcctInv, AcctTypes
<1>2. AcctTypes'
  BY <1>1 DEF AcctInv, AcctTypes
<1>3. BilledOnce'
  BY DEF AcctInv, BilledOnce
<1>4. LoadedIsCurrent'
  BY <1>1 DEF AcctInv, LoadedIsCurrent
<1>5. SameTokens(accountFile', accountFile, touched')
  BY DEF SameTokens
<1>6. \A id : Owing(id)' \subseteq Owing(id)
  BY OwesLess DEF AcctInv
<1>7. TokensCoverAll'
  BY <1>2, <1>5, <1>6, CoverKept DEF AcctInv
<1> QED BY <1>2, <1>3, <1>4, <1>7 DEF AcctInv

LEMMA FileLoaded ==
  ASSUME AcctInv, NEW c \in Callers, UsageLoad(c)
  PROVE  AcctInv'
<1>1. /\ usagePc[c] = "checked" /\ usagePc' = [usagePc EXCEPT ![c] = "loaded"]
      /\ loadedFile' = [loadedFile EXCEPT ![c] = <<accountFile>>]
      /\ UNCHANGED << accountFile, usageRows, credits, usageReq, overlapped, touched >>
  BY DEF UsageLoad, ledgerVars
<1>2. loadedFile'[c][1] = accountFile /\ DOMAIN loadedFile' = Callers
  <2>1. PICK one : one = <<accountFile>>
    OBVIOUS
  <2>2. loadedFile'[c] = one /\ DOMAIN loadedFile' = Callers
    BY <1>1, <2>1 DEF AcctInv, AcctTypes
  <2> QED BY <2>1, <2>2
<1>3. \A d \in Callers \ {c} : loadedFile'[d] = loadedFile[d] /\ usagePc'[d] = usagePc[d]
  BY <1>1 DEF AcctInv, AcctTypes
<1>4. usagePc' \in [Callers -> {"idle", "checked", "loaded", "saved", "billed"}]
  BY <1>1 DEF AcctInv, AcctTypes
<1>5. AcctTypes'
  BY <1>1, <1>2, <1>3, <1>4 DEF AcctInv, AcctTypes
<1>6. BilledOnce' /\ LoadedIsCurrent'
  BY <1>1, <1>2, <1>3 DEF AcctInv, BilledOnce, LoadedIsCurrent
<1>7. \A id : Owing(id)' \subseteq Owing(id)
  BY <1>1, OwesLess DEF AcctInv
<1>8. TokensCoverAll'
  <2>1. SameTokens(accountFile', accountFile, touched')
    BY <1>1 DEF SameTokens
  <2> QED BY <1>1, <1>5, <1>7, <2>1, CoverKept DEF AcctInv
<1> QED BY <1>5, <1>6, <1>8 DEF AcctInv

\* The row and the credit, under a key that no row has.
LEMMA UsageBilled ==
  ASSUME AcctInv, NEW c \in Callers, UsageLedger(c)
  PROVE  AcctInv'
<1>1. /\ usagePc[c] = "saved" /\ usagePc' = [usagePc EXCEPT ![c] = "billed"]
      /\ UNCHANGED << accountFile, usageReq, loadedFile, overlapped, touched >>
  BY DEF UsageLedger
<1>2. /\ usagePc' \in [Callers -> {"idle", "checked", "loaded", "saved", "billed"}]
      /\ \A d \in Callers : usagePc'[d] = "loaded" => usagePc[d] = "loaded"
  BY <1>1 DEF AcctInv, AcctTypes
<1>3. LoadedIsCurrent'
  BY <1>1, <1>2 DEF AcctInv, LoadedIsCurrent
<1>4. FileOK(accountFile)' /\ \A d \in Callers : usagePc'[d] = "loaded" => FileOK(loadedFile'[d][1])
  BY <1>1, <1>2 DEF AcctInv, AcctTypes
<1>5. \A id : Owing(id)' \subseteq Owing(id)
  BY <1>1, OwesLess DEF AcctInv
<1>6. SameTokens(accountFile', accountFile, touched')
  BY <1>1 DEF SameTokens
<1>7. CASE KeyUsed(usageReq[c][1])
  <2>1. UNCHANGED << usageRows, credits >>
    BY <1>7 DEF UsageLedger, ledgerVars
  <2>2. AcctTypes'
    BY <1>1, <1>2, <1>4, <2>1 DEF AcctInv, AcctTypes
  <2>3. BilledOnce'
    BY <2>1 DEF AcctInv, BilledOnce
  <2>4. TokensCoverAll'
    BY <1>1, <1>5, <1>6, <2>1, <2>2, CoverKept DEF AcctInv
  <2> QED BY <1>3, <2>2, <2>3, <2>4 DEF AcctInv
<1>8. CASE ~KeyUsed(usageReq[c][1])
  <2>1. PICK key : key = usageReq[c][1]
    OBVIOUS
  <2>2. PICK a : a = usageReq[c][2]
    OBVIOUS
  <2>3. PICK row : row = [key |-> key, account |-> a]
    OBVIOUS
  <2>4. /\ usageRows' = usageRows \cup {row} /\ row.key = key /\ row.account = a
        /\ credits' = IF credits > 0 THEN credits - 1 ELSE 0
    BY <1>8, <2>1, <2>2, <2>3 DEF UsageLedger, Bill
  <2>5. \A r \in usageRows : r.key # key
    BY <1>8, <2>1 DEF KeyUsed
  <2>6. IsFiniteSet(usageRows)
    BY DEF AcctInv, AcctTypes
  <2>7. /\ IsFiniteSet(usageRows') /\ Cardinality(usageRows) \in Nat
        /\ Cardinality(usageRows') = Cardinality(usageRows) + 1
    <3>1. row \notin usageRows
      BY <2>4, <2>5
    <3>2. IsFiniteSet(usageRows \cup {row}) /\ Cardinality(usageRows \cup {row}) = Cardinality(usageRows) + 1
      BY <2>6, <3>1, FS_AddElement
    <3> QED BY <2>4, <2>6, <3>2, FS_CardinalityType
  <2>8. AcctTypes'
    BY <1>1, <1>2, <1>4, <2>7 DEF AcctInv, AcctTypes
  <2>9. BilledOnce'
    <3>1. \A r, s \in usageRows' : r.key = s.key => r = s
      BY <2>4, <2>5 DEF AcctInv, BilledOnce
    <3>2. StartCredits \in Nat
      BY AccountsAssumption
    <3>3. PICK n : n = Cardinality(usageRows)
      OBVIOUS
    <3>4. n \in Nat /\ Cardinality(usageRows') = n + 1
      BY <2>7, <3>3
    <3>5. credits = IF n < StartCredits THEN StartCredits - n ELSE 0
      BY <3>3 DEF AcctInv, BilledOnce
    <3>6. credits' = IF n + 1 < StartCredits THEN StartCredits - (n + 1) ELSE 0
      BY <2>4, <3>2, <3>4, <3>5
    <3> QED BY <3>1, <3>4, <3>6 DEF BilledOnce
  <2>10. TokensCoverAll'
    <3> SUFFICES ASSUME ~overlapped', NEW i \in DOMAIN accountFile'.list, NEW x \in AccountIds \ touched',
                        accountFile'.list[i].id = x
                 PROVE  accountFile'.list[i].used >= Cardinality(RowsOf(x)') + Cardinality(Owing(x)')
      BY DEF TokensCoverAll
    <3>1. PICK used : used = accountFile.list[i].used
      OBVIOUS
    <3>2. used \in Nat /\ accountFile'.list[i].used = used
      <4>1. accountFile.list[i] \in AccountRecords
        BY <1>1, FileParts DEF AcctInv, AcctTypes
      <4> QED BY <1>1, <3>1, <4>1 DEF AccountRecords
    <3>3. used >= Cardinality(RowsOf(x)) + Cardinality(Owing(x))
      BY <1>1, <3>1 DEF AcctInv, TokensCoverAll
    <3>4. /\ IsFiniteSet(RowsOf(x)) /\ Cardinality(RowsOf(x)) \in Nat
          /\ IsFiniteSet(Owing(x)) /\ Cardinality(Owing(x)) \in Nat
      BY CountsAreNumbers DEF AcctInv
    <3>5. CASE x = a
      <4>1. RowsOf(x)' = RowsOf(x) \cup {row} /\ row \notin RowsOf(x)
        BY <2>4, <2>5, <3>5 DEF RowsOf
      <4>2. Cardinality(RowsOf(x)') = Cardinality(RowsOf(x)) + 1
        BY <3>4, <4>1, FS_AddElement
      <4>3. c \in Owing(x) /\ Owing(x)' \subseteq Owing(x) \ {c}
        BY <1>1, <2>2, <3>5 DEF Owing, AcctInv, AcctTypes
      <4>4. IsFiniteSet(Owing(x) \ {c}) /\ Cardinality(Owing(x) \ {c}) = Cardinality(Owing(x)) - 1
        BY <3>4, <4>3, FS_RemoveElement
      <4>5. /\ Cardinality(Owing(x)') \in Nat
            /\ Cardinality(Owing(x)') <= Cardinality(Owing(x) \ {c})
        BY <4>3, <4>4, FS_Subset, FS_CardinalityType
      <4> QED BY <3>2, <3>3, <3>4, <4>2, <4>4, <4>5
    <3>6. CASE x # a
      <4>1. RowsOf(x)' = RowsOf(x)
        BY <2>4, <3>6 DEF RowsOf
      <4>2. Cardinality(RowsOf(x)') = Cardinality(RowsOf(x))
        BY <4>1
      <4>3. /\ Cardinality(Owing(x)') \in Nat
            /\ Cardinality(Owing(x)') <= Cardinality(Owing(x))
        BY <1>5, <3>4, FS_Subset, FS_CardinalityType
      <4> QED BY <3>2, <3>3, <3>4, <4>2, <4>3
    <3> QED BY <3>5, <3>6
  <2> QED BY <1>3, <2>8, <2>9, <2>10 DEF AcctInv
<1> QED BY <1>7, <1>8

LEMMA AcctStepKeeps ==
  ASSUME AcctInv, AcctNext
  PROVE  AcctInv'
<1>0. FileOK(accountFile) /\ overlapped \in BOOLEAN /\ DOMAIN usageReq = Callers /\ DOMAIN loadedFile = Callers
  BY DEF AcctInv, AcctTypes
<1>1. ASSUME NEW id \in AccountIds, SetActiveAccount(id)
      PROVE  AcctInv'
  <2>1. HasAccount(accountFile, id) /\ ChangeFile(Activate(accountFile, id), {})
    BY <1>1 DEF SetActiveAccount
  <2>2. FileOK(Activate(accountFile, id)) /\ SameTokens(Activate(accountFile, id), accountFile, {})
    BY <1>0, <2>1, Activated
  <2> QED BY <2>1, <2>2, FileChanged
<1>2. CASE SwapActive
  <2>1. Fallbacks(accountFile) # {} /\ ChangeFile(SwapToFallback(accountFile), {})
    BY <1>2 DEF SwapActive
  <2>2. FileOK(SwapToFallback(accountFile)) /\ SameTokens(SwapToFallback(accountFile), accountFile, {})
    BY <1>0, <2>1, Swapped
  <2> QED BY <2>1, <2>2, FileChanged
<1>3. ASSUME NEW id \in AccountIds, NEW g \in AccountIds, RegisterFailover(id, g)
      PROVE  AcctInv'
  <2>1. UNCHANGED << accountFile, usageRows, credits, usagePc, usageReq, loadedFile, overlapped, touched >>
    BY <1>3 DEF RegisterFailover, ledgerVars, usageVars
  <2>2. AcctTypes' /\ BilledOnce' /\ LoadedIsCurrent'
    BY <2>1 DEF AcctInv, AcctTypes, BilledOnce, LoadedIsCurrent
  <2>3. TokensCoverAll'
    BY <2>1 DEF AcctInv, TokensCoverAll, RowsOf, Owing
  <2> QED BY <2>2, <2>3 DEF AcctInv
<1>4. ASSUME NEW c \in Callers, NEW key \in UsageIds, NEW id \in AccountIds, UsageCheck(c, key, id)
      PROVE  AcctInv'
  <2>1. PICK req : req = <<key, FailoverOf(id)>>
    OBVIOUS
  <2>2. /\ usagePc' = [usagePc EXCEPT ![c] = "checked"] /\ usageReq' = [usageReq EXCEPT ![c] = req]
        /\ UNCHANGED << accountFile, usageRows, credits, loadedFile, overlapped, touched >>
    BY <1>4, <2>1 DEF UsageCheck, ledgerVars
  <2>3. DOMAIN usageReq' = Callers /\ \A d \in Callers \ {c} : usageReq'[d] = usageReq[d] /\ loadedFile'[d] = loadedFile[d]
    BY <1>0, <2>2
  <2> QED BY <1>0, <2>2, <2>3, SameIsSame, CallMoved
<1>5. ASSUME NEW c \in Callers, UsageUnknown(c)
      PROVE  AcctInv'
  <2>1. /\ usagePc' = [usagePc EXCEPT ![c] = "idle"] /\ usageReq' = [usageReq EXCEPT ![c] = <<>>]
        /\ loadedFile' = [loadedFile EXCEPT ![c] = <<>>]
        /\ UNCHANGED << accountFile, usageRows, credits, overlapped, touched >>
    BY <1>5 DEF UsageUnknown, ledgerVars
  <2>2. /\ DOMAIN usageReq' = Callers /\ DOMAIN loadedFile' = Callers
        /\ \A d \in Callers \ {c} : usageReq'[d] = usageReq[d] /\ loadedFile'[d] = loadedFile[d]
    BY <1>0, <2>1
  <2> QED BY <1>0, <2>1, <2>2, SameIsSame, CallMoved
<1>6. ASSUME NEW c \in Callers, UsageAborts(c)
      PROVE  AcctInv'
  <2>1. /\ usagePc' = [usagePc EXCEPT ![c] = "idle"] /\ usageReq' = [usageReq EXCEPT ![c] = <<>>]
        /\ loadedFile' = [loadedFile EXCEPT ![c] = <<>>]
        /\ UNCHANGED << accountFile, usageRows, credits, overlapped, touched >>
    BY <1>6 DEF UsageAborts, ledgerVars
  <2>2. /\ DOMAIN usageReq' = Callers /\ DOMAIN loadedFile' = Callers
        /\ \A d \in Callers \ {c} : usageReq'[d] = usageReq[d] /\ loadedFile'[d] = loadedFile[d]
    BY <1>0, <2>1
  <2> QED BY <1>0, <2>1, <2>2, SameIsSame, CallMoved
<1>7. ASSUME NEW c \in Callers, UsageRotate(c)
      PROVE  AcctInv'
  <2>0. PICK exceeded : exceeded = (Cardinality(usageRows) >= CostThreshold)
    OBVIOUS
  <2>1. /\ usagePc' = [usagePc EXCEPT ![c] = "idle"] /\ usageReq' = [usageReq EXCEPT ![c] = <<>>]
        /\ UNCHANGED << usageRows, credits, loadedFile, touched >>
    BY <1>7 DEF UsageRotate, ledgerVars
  <2>2. DOMAIN usageReq' = Callers /\ \A d \in Callers \ {c} : usageReq'[d] = usageReq[d] /\ loadedFile'[d] = loadedFile[d]
    BY <1>0, <2>1
  <2>3. CASE ~(Cardinality(usageRows) >= CostThreshold)
    <3>1. accountFile' = accountFile
      BY <1>7, <2>3 DEF UsageRotate
    <3>2. overlapped' = overlapped
      BY <1>0, <1>7, <2>3 DEF UsageRotate
    <3> QED BY <1>0, <2>1, <2>2, <3>1, <3>2, SameIsSame, CallMoved
  <2>4. CASE Cardinality(usageRows) >= CostThreshold
    <3>1. accountFile' = Rotate(accountFile)
      BY <1>7, <2>4 DEF UsageRotate
    <3>2. overlapped' = (overlapped \/ \E d \in Callers \ {c} : usagePc[d] = "loaded")
      BY <1>7, <2>4 DEF UsageRotate
    <3>3. FileOK(accountFile') /\ SameTokens(accountFile', accountFile, {})
      BY <1>0, <3>1, Rotated
    <3>4. /\ overlapped' \in BOOLEAN /\ (~overlapped' => ~overlapped)
          /\ ~overlapped' => \A d \in Callers \ {c} : usagePc[d] # "loaded"
      BY <1>0, <3>2
    <3> QED BY <1>0, <2>1, <2>2, <3>3, <3>4, CallMoved
  <2> QED BY <2>3, <2>4
<1> QED BY <1>1, <1>2, <1>3, <1>4, <1>5, <1>6, <1>7, AccountAdded, AccountDeleted, TokensSaved,
           FileLoaded, UsageBilled DEF AcctNext

LEMMA AccountsHold ==
  ASSUME AcctInv
  PROVE  AccountTypeOK /\ BilledOnce /\ TokensCoverLedger /\ ActiveAccountExists
<1>1. FileOK(accountFile)
  BY DEF AcctInv, AcctTypes
<1>2. AccountTypeOK
  BY <1>1, FileParts DEF AccountTypeOK
<1>3. ActiveAccountExists
  BY <1>1 DEF FileOK, ActiveAccountExists
<1>4. TokensCoverLedger
  <2> SUFFICES ASSUME ~overlapped, NEW i \in DOMAIN accountFile.list, accountFile.list[i].id \notin touched
               PROVE  accountFile.list[i].used >= Cardinality({r \in usageRows : r.account = accountFile.list[i].id})
    BY DEF TokensCoverLedger
  <2>1. PICK id : id = accountFile.list[i].id
    OBVIOUS
  <2>2. PICK used : used = accountFile.list[i].used
    OBVIOUS
  <2>3. id \in AccountIds /\ used \in Nat
    <3>1. accountFile.list[i] \in AccountRecords
      BY <1>1, FileParts
    <3> QED BY <2>1, <2>2, <3>1 DEF AccountRecords
  <2>4. used >= Cardinality(RowsOf(id)) + Cardinality(Owing(id))
    BY <2>1, <2>2, <2>3 DEF AcctInv, TokensCoverAll
  <2>5. used >= Cardinality(RowsOf(id))
    BY <2>3, <2>4, CountsAreNumbers DEF AcctInv
  <2> QED BY <2>1, <2>2, <2>5 DEF RowsOf
<1> QED BY <1>2, <1>3, <1>4 DEF AcctInv

-----------------------------------------------------------------------------
(* Deltas.  K says of every timestamp whether it was an update or a delete: *)
(* a state is the newest of the deltas it has seen.                         *)

DeltaKinds == [Nat -> {"update", "delete"}]
DeltaStates == [stamp : Nat, tomb : Nat, seen : SUBSET Nat]
DeltaRecords == [kind : {"update", "delete"}, t : Nat, by : DsReplicas]

IsNewest(K, clock, st) ==
    /\ st \in DeltaStates
    /\ st.stamp = 0 \/ st.tomb = 0
    /\ \A x \in st.seen : 1 <= x /\ x <= clock
    /\ \/ st.stamp = 0 /\ st.tomb = 0 /\ st.seen = {}
       \/ /\ st.stamp # 0 /\ st.stamp \in st.seen /\ K[st.stamp] = "update"
          /\ \A x \in st.seen : x <= st.stamp
       \/ /\ st.tomb # 0 /\ st.tomb \in st.seen /\ K[st.tomb] = "delete"
          /\ \A x \in st.seen : x <= st.tomb

Agrees(K, clock, d) == d \in DeltaRecords /\ 1 <= d.t /\ d.t <= clock /\ K[d.t] = d.kind

DsWith(K) ==
    /\ dsClock \in Nat
    /\ dsFiles \in [DsReplicas -> [DsFiles -> [x : {Torn, "ok"}, st : DeltaStates]]]
    /\ \A r \in DsReplicas, f \in DsFiles : IsNewest(K, dsClock, dsFiles[r][f].st)
    /\ DOMAIN dsSave = DsReplicas
    /\ \A r \in DsReplicas : dsSave[r] # << >> =>
          /\ dsSave[r] \in [st : DeltaStates, file : DsFiles, delta : SUBSET DeltaRecords]
          /\ IsNewest(K, dsClock, dsSave[r].st)
          /\ \A d \in dsSave[r].delta : Agrees(K, dsClock, d)
    /\ \A d \in dsDeltas : Agrees(K, dsClock, d)

DsInv == \E K \in DeltaKinds : DsWith(K)

LEMMA EmptyIsNewest ==
  ASSUME NEW K, NEW clock
  PROVE  IsNewest(K, clock, Empty)
<1>1. Empty \in DeltaStates /\ Empty.stamp = 0 /\ Empty.tomb = 0 /\ Empty.seen = {}
  BY DEF Empty, DeltaStates
<1> QED BY <1>1 DEF IsNewest

LEMMA LoadedIsNewest ==
  ASSUME NEW K, DsWith(K), NEW r \in DsReplicas
  PROVE  /\ IsNewest(K, dsClock, Load(r)) /\ Load(r) \in DeltaStates
         /\ Load(r) = Empty \/ \E f \in DsFiles : Load(r) = dsFiles[r][f].st
<1> DEFINE ok == {f \in DsFiles : Readable(dsFiles[r][f])}
           first == CHOOSE f \in ok : \A g \in ok : f <= g
<1>1. CASE ok = {}
  <2>1. Load(r) = Empty
    BY <1>1 DEF Load
  <2> QED BY <2>1, EmptyIsNewest DEF IsNewest
<1>2. CASE ok # {}
  <2>1. ok \subseteq Nat
    BY DeltaStateAssumption DEF DsFiles
  <2>2. PICK x \in ok : \A y \in ok : <<y, x>> \notin OpToRel(<, Nat)
    BY <1>2, <2>1, NatLessThanWellFounded, WFMin
  <2>3. \A y \in ok : x <= y
    <3> SUFFICES ASSUME NEW y \in ok, y < x PROVE FALSE
      BY <2>1
    <3>1. <<y, x>> \in OpToRel(<, Nat)
      BY <2>1 DEF OpToRel
    <3> QED BY <2>2, <3>1
  <2>4. first \in ok
    BY <2>2, <2>3
  <2>5. Load(r) = dsFiles[r][first].st /\ first \in DsFiles
    BY <1>2, <2>4 DEF Load
  <2> HIDE DEF first
  <2> QED BY <2>5 DEF DsWith, IsNewest
<1> QED BY <1>1, <1>2

\* A delta that has been seen or is absorbed leaves the newest.
LEMMA AbsorbedIsNewest ==
  ASSUME NEW K \in DeltaKinds, NEW clock \in Nat, NEW st, IsNewest(K, clock, st), NEW d, Agrees(K, clock, d)
  PROVE  IsNewest(K, clock, Absorb(st, d)) /\ Absorb(st, d) \in DeltaStates
<1>1. PICK stamp : stamp = st.stamp
  OBVIOUS
<1>2. PICK tomb : tomb = st.tomb
  OBVIOUS
<1>3. PICK seen : seen = st.seen
  OBVIOUS
<1>4. PICK t : t = d.t
  OBVIOUS
<1>5. stamp \in Nat /\ tomb \in Nat /\ seen \in SUBSET Nat /\ st = [stamp |-> stamp, tomb |-> tomb, seen |-> seen]
  BY <1>1, <1>2, <1>3 DEF IsNewest, DeltaStates
<1>6. t \in Nat /\ 1 <= t /\ t <= clock /\ K[t] = d.kind /\ d.kind \in {"update", "delete"}
  BY <1>4 DEF Agrees, DeltaRecords
<1>7. /\ stamp = 0 \/ tomb = 0
      /\ \A x \in seen : 1 <= x /\ x <= clock
      /\ \/ stamp = 0 /\ tomb = 0 /\ seen = {}
         \/ stamp # 0 /\ stamp \in seen /\ K[stamp] = "update" /\ \A x \in seen : x <= stamp
         \/ tomb # 0 /\ tomb \in seen /\ K[tomb] = "delete" /\ \A x \in seen : x <= tomb
  BY <1>1, <1>2, <1>3 DEF IsNewest
<1>8. ASSUME NEW a \in Nat, NEW b \in Nat, NEW s \in SUBSET Nat, a = 0 \/ b = 0,
             \A x \in s : 1 <= x /\ x <= clock,
             \/ a = 0 /\ b = 0 /\ s = {}
             \/ a # 0 /\ a \in s /\ K[a] = "update" /\ \A x \in s : x <= a
             \/ b # 0 /\ b \in s /\ K[b] = "delete" /\ \A x \in s : x <= b,
             Absorb(st, d) = [stamp |-> a, tomb |-> b, seen |-> s]
      PROVE  IsNewest(K, clock, Absorb(st, d)) /\ Absorb(st, d) \in DeltaStates
  <2>1. PICK q : q = Absorb(st, d)
    OBVIOUS
  <2>2. q \in DeltaStates /\ q.stamp = a /\ q.tomb = b /\ q.seen = s
    BY <1>8, <2>1 DEF DeltaStates
  <2>3. IsNewest(K, clock, q)
    BY <1>8, <2>2 DEF IsNewest
  <2> QED BY <2>1, <2>2, <2>3
<1>9. CASE t > stamp /\ t > tomb
  <2>1. \A x \in seen : x <= t
    BY <1>5, <1>6, <1>7, <1>9
  <2>2. CASE d.kind = "delete"
    <3>1. Absorb(st, d) = [stamp |-> 0, tomb |-> t, seen |-> seen \cup {t}]
      <4>1. Merge(st, d) = [stamp |-> 0, tomb |-> t, seen |-> seen]
        BY <1>4, <1>5, <1>9, <2>2 DEF Merge
      <4> QED BY <1>4, <4>1 DEF Absorb
    <3>2. \A x \in seen \cup {t} : 1 <= x /\ x <= clock /\ x <= t
      BY <1>6, <1>7, <2>1
    <3> QED BY <1>5, <1>6, <1>8, <2>2, <3>1, <3>2
  <2>3. CASE d.kind = "update"
    <3>1. Absorb(st, d) = [stamp |-> t, tomb |-> 0, seen |-> seen \cup {t}]
      <4>1. Merge(st, d) = [stamp |-> t, tomb |-> 0, seen |-> seen]
        BY <1>4, <1>5, <1>6, <1>9, <2>3 DEF Merge
      <4> QED BY <1>4, <4>1 DEF Absorb
    <3>2. \A x \in seen \cup {t} : 1 <= x /\ x <= clock /\ x <= t
      BY <1>6, <1>7, <2>1
    <3> QED BY <1>5, <1>6, <1>8, <2>3, <3>1, <3>2
  <2> QED BY <1>6, <2>2, <2>3
<1>10. CASE ~(t > stamp /\ t > tomb)
  <2>1. Absorb(st, d) = [stamp |-> stamp, tomb |-> tomb, seen |-> seen \cup {t}]
    <3>1. Merge(st, d) = st
      BY <1>1, <1>2, <1>4, <1>5, <1>6, <1>10 DEF Merge
    <3> QED BY <1>4, <1>5, <3>1 DEF Absorb
  <2>2. \A x \in seen \cup {t} : 1 <= x /\ x <= clock
    BY <1>6, <1>7
  <2>3. CASE stamp # 0
    <3>1. tomb = 0 /\ t <= stamp /\ stamp \in seen /\ K[stamp] = "update" /\ \A x \in seen \cup {t} : x <= stamp
      BY <1>5, <1>6, <1>7, <1>10, <2>3
    <3> QED BY <1>5, <1>6, <1>8, <2>1, <2>2, <2>3, <3>1
  <2>4. CASE tomb # 0
    <3>1. stamp = 0 /\ t <= tomb /\ tomb \in seen /\ K[tomb] = "delete" /\ \A x \in seen \cup {t} : x <= tomb
      BY <1>5, <1>6, <1>7, <1>10, <2>4
    <3> QED BY <1>5, <1>6, <1>8, <2>1, <2>2, <2>4, <3>1
  <2>5. CASE stamp = 0 /\ tomb = 0
    BY <1>6, <1>10, <2>5
  <2> QED BY <2>3, <2>4, <2>5
<1> QED BY <1>5, <1>6, <1>9, <1>10

\* What was the newest still is, when time goes on.
LEMMA NewestLater ==
  ASSUME NEW K \in DeltaKinds, NEW L \in DeltaKinds, NEW clock \in Nat, NEW t \in Nat, clock <= t,
         \A x \in Nat : x <= clock => L[x] = K[x]
  PROVE  /\ \A st : IsNewest(K, clock, st) => IsNewest(L, t, st)
         /\ \A d : Agrees(K, clock, d) => Agrees(L, t, d)
<1>3. ASSUME NEW st, IsNewest(K, clock, st)
      PROVE  IsNewest(L, t, st)
  <2>1. st.stamp \in Nat /\ st.tomb \in Nat /\ st.seen \subseteq Nat /\ \A x \in st.seen : 1 <= x /\ x <= clock
    BY <1>3 DEF IsNewest, DeltaStates
  <2>2. \A x \in st.seen : 1 <= x /\ x <= t /\ L[x] = K[x]
    BY <2>1
  <2> QED BY <1>3, <2>1, <2>2 DEF IsNewest
<1>4. ASSUME NEW d, Agrees(K, clock, d)
      PROVE  Agrees(L, t, d)
  <2>1. d.t \in Nat /\ d.t <= clock
    BY <1>4 DEF Agrees, DeltaRecords
  <2> QED BY <1>4, <2>1 DEF Agrees
<1> QED BY <1>3, <1>4

DeltaFile == [x : {Torn, "ok"}, st : DeltaStates]

FilesWith(K, clock, files) ==
    /\ files \in [DsReplicas -> [DsFiles -> DeltaFile]]
    /\ \A r \in DsReplicas, f \in DsFiles : IsNewest(K, clock, files[r][f].st)

LEMMA FileWritten ==
  ASSUME NEW K, NEW clock, NEW files, FilesWith(K, clock, files), NEW r \in DsReplicas, NEW f \in DsFiles,
         NEW file \in DeltaFile, IsNewest(K, clock, file.st)
  PROVE  FilesWith(K, clock, [files EXCEPT ![r][f] = file])
<1>1. PICK row : row = [files[r] EXCEPT ![f] = file]
  OBVIOUS
<1>2. PICK new : new = [files EXCEPT ![r] = row]
  OBVIOUS
<1>3. files[r] \in [DsFiles -> DeltaFile]
  BY DEF FilesWith
<1>4. row \in [DsFiles -> DeltaFile] /\ \A g \in DsFiles : IsNewest(K, clock, row[g].st)
  <2>1. row \in [DsFiles -> DeltaFile] /\ row[f] = file /\ \A g \in DsFiles \ {f} : row[g] = files[r][g]
    BY <1>1, <1>3
  <2> QED BY <2>1 DEF FilesWith
<1>5. new \in [DsReplicas -> [DsFiles -> DeltaFile]] /\ new[r] = row /\ \A q \in DsReplicas \ {r} : new[q] = files[q]
  BY <1>2, <1>4 DEF FilesWith
<1>6. FilesWith(K, clock, new)
  BY <1>4, <1>5 DEF FilesWith
<1>7. [files EXCEPT ![r][f] = file] = new
  BY <1>1, <1>2 DEF FilesWith
<1> QED BY <1>6, <1>7

LEMMA HealedIsNewest ==
  ASSUME NEW K, DsWith(K), NEW r \in DsReplicas
  PROVE  FilesWith(K, dsClock, Healed(r))
<1>1. FilesWith(K, dsClock, dsFiles)
  BY DEF DsWith, FilesWith, DeltaFile
<1>2. CASE \E f \in DsFiles : Readable(dsFiles[r][f])
  <2>1. PICK file : file = [x |-> "ok", st |-> Load(r)]
    OBVIOUS
  <2>2. Healed(r) = [dsFiles EXCEPT ![r][0] = file]
    BY <1>2, <2>1 DEF Healed
  <2>3. file \in DeltaFile /\ file.st = Load(r) /\ IsNewest(K, dsClock, Load(r))
    BY <2>1, LoadedIsNewest DEF DeltaFile
  <2>4. 0 \in DsFiles
    BY DeltaStateAssumption DEF DsFiles
  <2>5. FilesWith(K, dsClock, [dsFiles EXCEPT ![r][0] = file])
    BY <1>1, <2>3, <2>4, FileWritten
  <2> QED BY <2>2, <2>5
<1>3. CASE ~\E f \in DsFiles : Readable(dsFiles[r][f])
  BY <1>1, <1>3 DEF Healed
<1> QED BY <1>2, <1>3

\* The parts of DsWith that a step has to show.
LEMMA DsPut ==
  ASSUME NEW K, NEW clock \in Nat, dsClock' = clock, FilesWith(K, clock, dsFiles'),
         DOMAIN dsSave' = DsReplicas,
         \A r \in DsReplicas : dsSave'[r] # << >> =>
            /\ dsSave'[r] \in [st : DeltaStates, file : DsFiles, delta : SUBSET DeltaRecords]
            /\ IsNewest(K, clock, dsSave'[r].st)
            /\ \A d \in dsSave'[r].delta : Agrees(K, clock, d),
         \A d \in dsDeltas' : Agrees(K, clock, d)
  PROVE  DsWith(K)'
BY DEF DsWith, FilesWith, DeltaFile, IsNewest, Agrees

LEMMA DsStarts ==
  ASSUME DsInit
  PROVE  DsInv
<1>1. PICK K \in DeltaKinds : TRUE
  <2>1. [x \in Nat |-> "update"] \in DeltaKinds
    BY DEF DeltaKinds
  <2> QED BY <2>1
<1>2. /\ dsFiles = [r \in DsReplicas |-> [f \in DsFiles |-> [x |-> Torn, st |-> Empty]]]
      /\ dsSave = [r \in DsReplicas |-> << >>] /\ dsDeltas = {} /\ dsClock = 0
  BY DEF DsInit
<1>3. PICK file : file = [x |-> Torn, st |-> Empty]
  OBVIOUS
<1>4. file \in DeltaFile /\ file.st = Empty /\ IsNewest(K, 0, Empty)
  BY <1>3, EmptyIsNewest DEF DeltaFile, IsNewest
<1>5. dsFiles = [r \in DsReplicas |-> [f \in DsFiles |-> file]]
  BY <1>2, <1>3
<1>6. DsWith(K)
  BY <1>2, <1>4, <1>5 DEF DsWith, DeltaFile
<1> QED BY <1>6 DEF DsInv

LEMMA DsStays ==
  ASSUME DsInv, UNCHANGED dsVars
  PROVE  DsInv'
BY DEF DsInv, dsVars, DsWith, IsNewest, Agrees

\* A new update or delete is newer than all there is.
LEMMA DeltaApplied ==
  ASSUME DsInv, NEW r \in DsReplicas, NEW kind \in {"update", "delete"}, Apply(r, kind)
  PROVE  DsInv'
<1>1. PICK K \in DeltaKinds : DsWith(K)
  BY DEF DsInv
<1>2. PICK clock : clock = dsClock
  OBVIOUS
<1>3. PICK t : t = clock + 1
  OBVIOUS
<1>4. PICK L : L = [K EXCEPT ![t] = kind]
  OBVIOUS
<1>5. clock \in Nat /\ t \in Nat
  BY <1>1, <1>2, <1>3 DEF DsWith
<1>6. /\ L \in DeltaKinds /\ L[t] = kind
      /\ \A st : IsNewest(K, clock, st) => IsNewest(L, t, st)
      /\ \A d : Agrees(K, clock, d) => Agrees(L, t, d)
  <2>1. L \in DeltaKinds /\ L[t] = kind /\ \A x \in Nat : x <= clock => L[x] = K[x]
    BY <1>1, <1>3, <1>4, <1>5 DEF DeltaKinds
  <2>2. clock <= t
    BY <1>3, <1>5
  <2> QED BY <1>1, <1>5, <2>1, <2>2, NewestLater
<1>7. PICK old : old = Load(r)
  OBVIOUS
<1>8. PICK st : st = IF kind = "update" THEN Update(old, t) ELSE Delete(old, t)
  OBVIOUS
<1>9. PICK d : d = [kind |-> kind, t |-> t, by |-> r]
  OBVIOUS
<1>10. PICK sv : sv = [st |-> st, file |-> 0, delta |-> {d}]
  OBVIOUS
<1>11. /\ dsClock' = t /\ dsFiles' = Healed(r) /\ dsSave' = [dsSave EXCEPT ![r] = sv] /\ dsDeltas' = dsDeltas
  BY <1>2, <1>3, <1>7, <1>8, <1>9, <1>10 DEF Apply
<1>12. IsNewest(K, clock, old) /\ old \in DeltaStates
  BY <1>1, <1>2, <1>7, LoadedIsNewest
<1>13. old.stamp \in Nat /\ old.tomb \in Nat /\ old.stamp <= clock /\ old.tomb <= clock /\ old.seen \in SUBSET Nat
       /\ \A x \in old.seen : 1 <= x /\ x <= clock
  BY <1>5, <1>12 DEF IsNewest, DeltaStates
<1>14. ~(old.stamp >= t) /\ ~(old.tomb >= t)
  BY <1>3, <1>5, <1>13
<1>15. st = [stamp |-> IF kind = "update" THEN t ELSE 0, tomb |-> IF kind = "update" THEN 0 ELSE t,
             seen |-> old.seen \cup {t}]
  BY <1>8, <1>14 DEF Update, Delete
<1>16. \A x \in old.seen \cup {t} : x \in Nat /\ 1 <= x /\ x <= t
  BY <1>3, <1>5, <1>13
<1>17. st \in DeltaStates /\ IsNewest(L, t, st)
  <2>1. CASE kind = "update"
    <3>1. st = [stamp |-> t, tomb |-> 0, seen |-> old.seen \cup {t}]
      BY <1>15, <2>1
    <3>2. st \in DeltaStates /\ st.stamp = t /\ st.tomb = 0 /\ st.seen = old.seen \cup {t}
      BY <1>5, <1>16, <3>1 DEF DeltaStates
    <3> QED BY <1>3, <1>5, <1>6, <1>16, <2>1, <3>2 DEF IsNewest
  <2>2. CASE kind = "delete"
    <3>1. st = [stamp |-> 0, tomb |-> t, seen |-> old.seen \cup {t}]
      BY <1>15, <2>2
    <3>2. st \in DeltaStates /\ st.stamp = 0 /\ st.tomb = t /\ st.seen = old.seen \cup {t}
      BY <1>5, <1>16, <3>1 DEF DeltaStates
    <3> QED BY <1>3, <1>5, <1>6, <1>16, <2>2, <3>2 DEF IsNewest
  <2> QED BY <2>1, <2>2
<1>18. Agrees(L, t, d)
  <2>1. d \in DeltaRecords /\ d.t = t /\ d.kind = kind
    BY <1>5, <1>9 DEF DeltaRecords
  <2> QED BY <1>3, <1>5, <1>6, <2>1 DEF Agrees
<1>19. FilesWith(L, t, dsFiles')
  <2>1. FilesWith(K, clock, Healed(r))
    BY <1>1, <1>2, HealedIsNewest
  <2> QED BY <1>6, <1>11, <2>1 DEF FilesWith
<1>20. /\ sv \in [st : DeltaStates, file : DsFiles, delta : SUBSET DeltaRecords]
       /\ sv.st = st /\ sv.delta = {d}
  <2>1. 0 \in DsFiles
    BY DeltaStateAssumption DEF DsFiles
  <2>2. {d} \in SUBSET DeltaRecords
    BY <1>18 DEF Agrees
  <2> QED BY <1>10, <1>17, <2>1, <2>2
<1>21. DOMAIN dsSave' = DsReplicas /\ dsSave'[r] = sv /\ \A q \in DsReplicas \ {r} : dsSave'[q] = dsSave[q]
  BY <1>1, <1>11 DEF DsWith
<1>22. ASSUME NEW q \in DsReplicas, dsSave'[q] # << >>
       PROVE  /\ dsSave'[q] \in [st : DeltaStates, file : DsFiles, delta : SUBSET DeltaRecords]
              /\ IsNewest(L, t, dsSave'[q].st)
              /\ \A e \in dsSave'[q].delta : Agrees(L, t, e)
  <2>1. CASE q = r
    BY <1>17, <1>18, <1>20, <1>21, <2>1
  <2>2. CASE q # r
    BY <1>1, <1>2, <1>6, <1>21, <1>22, <2>2 DEF DsWith
  <2> QED BY <2>1, <2>2
<1>23. \A e \in dsDeltas' : Agrees(L, t, e)
  BY <1>1, <1>2, <1>6, <1>11 DEF DsWith
<1>24. DsWith(L)'
  BY <1>5, <1>11, <1>19, <1>21, <1>22, <1>23, DsPut
<1> QED BY <1>6, <1>24 DEF DsInv

LEMMA DeltaMerged ==
  ASSUME DsInv, NEW r \in DsReplicas, NEW d \in dsDeltas, MergeDelta(r, d)
  PROVE  DsInv'
<1>1. PICK K \in DeltaKinds : DsWith(K)
  BY DEF DsInv
<1>2. PICK clock : clock = dsClock
  OBVIOUS
<1>3. clock \in Nat /\ Agrees(K, clock, d) /\ FilesWith(K, clock, Healed(r))
  BY <1>1, <1>2, HealedIsNewest DEF DsWith
<1>4. dsClock' = clock /\ dsDeltas' = dsDeltas
  BY <1>2 DEF MergeDelta
<1>5. \A e \in dsDeltas' : Agrees(K, clock, e)
  BY <1>1, <1>2, <1>4 DEF DsWith
<1>6. CASE Merge(Load(r), d) # Load(r)
  <2>1. PICK st : st = Absorb(Load(r), d)
    OBVIOUS
  <2>2. PICK sv : sv = [st |-> st, file |-> 0, delta |-> {}]
    OBVIOUS
  <2>3. dsFiles' = Healed(r) /\ dsSave' = [dsSave EXCEPT ![r] = sv]
    BY <1>6, <2>1, <2>2 DEF MergeDelta
  <2>4. IsNewest(K, clock, st) /\ st \in DeltaStates
    <3>1. IsNewest(K, clock, Load(r))
      BY <1>1, <1>2, LoadedIsNewest
    <3> QED BY <1>3, <2>1, <3>1, AbsorbedIsNewest
  <2>5. sv \in [st : DeltaStates, file : DsFiles, delta : SUBSET DeltaRecords] /\ sv.st = st /\ sv.delta = {}
    <3>1. 0 \in DsFiles
      BY DeltaStateAssumption DEF DsFiles
    <3> QED BY <2>2, <2>4, <3>1
  <2>6. DOMAIN dsSave' = DsReplicas /\ dsSave'[r] = sv /\ \A q \in DsReplicas \ {r} : dsSave'[q] = dsSave[q]
    BY <1>1, <2>3 DEF DsWith
  <2>7. ASSUME NEW q \in DsReplicas, dsSave'[q] # << >>
        PROVE  /\ dsSave'[q] \in [st : DeltaStates, file : DsFiles, delta : SUBSET DeltaRecords]
               /\ IsNewest(K, clock, dsSave'[q].st)
               /\ \A e \in dsSave'[q].delta : Agrees(K, clock, e)
    <3>1. CASE q = r
      BY <2>4, <2>5, <2>6, <3>1
    <3>2. CASE q # r
      BY <1>1, <1>2, <2>6, <2>7, <3>2 DEF DsWith
    <3> QED BY <3>1, <3>2
  <2>8. DsWith(K)'
    BY <1>3, <1>4, <1>5, <2>3, <2>6, <2>7, DsPut
  <2> QED BY <2>8 DEF DsInv
<1>7. CASE Merge(Load(r), d) = Load(r)
  <2> DEFINE files == Healed(r)
             row == AbsorbUnchanged(files[r], d)
  <2>1. dsFiles' = [files EXCEPT ![r] = row] /\ dsSave' = dsSave
    BY <1>7 DEF MergeDelta
  <2>2. /\ row = [f \in DsFiles |-> row[f]]
        /\ \A f \in DsFiles : row[f] = IF Readable(files[r][f]) /\ Merge(files[r][f].st, d) = files[r][f].st
                                      THEN [files[r][f] EXCEPT !.st = Absorb(@, d)] ELSE files[r][f]
    BY DEF AbsorbUnchanged
  <2>3. FilesWith(K, clock, files)
    BY <1>3
  <2> HIDE DEF files, row
  <2>4. ASSUME NEW f \in DsFiles
        PROVE  row[f] \in DeltaFile /\ IsNewest(K, clock, row[f].st)
    <3>1. PICK file : file = files[r][f]
      OBVIOUS
    <3>2. file \in DeltaFile /\ IsNewest(K, clock, file.st)
      BY <2>3, <3>1 DEF FilesWith
    <3>3. PICK st : st = Absorb(file.st, d)
      OBVIOUS
    <3>4. st \in DeltaStates /\ IsNewest(K, clock, st)
      BY <1>3, <3>2, <3>3, AbsorbedIsNewest
    <3>5. row[f] = [file EXCEPT !.st = st] \/ row[f] = file
      BY <2>2, <3>1, <3>3
    <3>6. [file EXCEPT !.st = st] \in DeltaFile /\ [file EXCEPT !.st = st].st = st
      BY <3>2, <3>4 DEF DeltaFile
    <3>7. CASE row[f] = file
      BY <3>2, <3>7
    <3>8. CASE row[f] = [file EXCEPT !.st = st]
      <4>1. row[f] \in DeltaFile /\ row[f].st = st
        BY <3>6, <3>8
      <4> QED BY <3>4, <4>1
    <3> QED BY <3>5, <3>7, <3>8
  <2>5. row \in [DsFiles -> DeltaFile]
    BY <2>2, <2>4
  <2>7. dsFiles' \in [DsReplicas -> [DsFiles -> DeltaFile]] /\ dsFiles'[r] = row
        /\ \A q \in DsReplicas \ {r} : dsFiles'[q] = files[q]
    BY <2>1, <2>3, <2>5 DEF FilesWith
  <2>8. FilesWith(K, clock, dsFiles')
    BY <2>3, <2>4, <2>7 DEF FilesWith
  <2>9. DsWith(K)'
    BY <1>1, <1>2, <1>3, <1>4, <1>5, <2>1, <2>8, DsPut DEF DsWith
  <2> QED BY <2>9 DEF DsInv
<1> QED BY <1>6, <1>7

LEMMA DeltaSaved ==
  ASSUME DsInv, NEW r \in DsReplicas, SaveFile(r)
  PROVE  DsInv'
<1>1. PICK K \in DeltaKinds : DsWith(K)
  BY DEF DsInv
<1>2. PICK clock : clock = dsClock
  OBVIOUS
<1>3. PICK sv : sv = dsSave[r]
  OBVIOUS
<1>4. PICK f : f = sv.file
  OBVIOUS
<1>5. /\ clock \in Nat /\ FilesWith(K, clock, dsFiles)
      /\ sv \in [st : DeltaStates, file : DsFiles, delta : SUBSET DeltaRecords]
      /\ f \in DsFiles /\ sv.st \in DeltaStates /\ IsNewest(K, clock, sv.st)
      /\ \A d \in sv.delta : Agrees(K, clock, d)
  <2>1. sv # << >>
    BY <1>3 DEF SaveFile
  <2>2. /\ sv \in [st : DeltaStates, file : DsFiles, delta : SUBSET DeltaRecords]
        /\ IsNewest(K, clock, sv.st) /\ \A d \in sv.delta : Agrees(K, clock, d)
    BY <1>1, <1>2, <1>3, <2>1 DEF DsWith
  <2>3. clock \in Nat /\ FilesWith(K, clock, dsFiles)
    BY <1>1, <1>2 DEF DsWith, FilesWith, DeltaFile
  <2> QED BY <1>4, <2>2, <2>3
<1>6. FilesWith(K, clock, dsFiles')
  <2>1. PICK file : file = [x |-> "ok", st |-> sv.st]
    OBVIOUS
  <2>2. file \in DeltaFile /\ file.st = sv.st
    BY <1>5, <2>1 DEF DeltaFile
  <2>3. dsFiles' = [dsFiles EXCEPT ![r][f] = file] \/ dsFiles' = dsFiles
    BY <1>3, <1>4, <2>1 DEF SaveFile
  <2>4. FilesWith(K, clock, [dsFiles EXCEPT ![r][f] = file])
    BY <1>5, <2>2, FileWritten
  <2> QED BY <1>5, <2>3, <2>4
<1>7. dsClock' = clock
  BY <1>2 DEF SaveFile
<1>8. CASE f = Mirrors
  <2>1. dsSave' = [dsSave EXCEPT ![r] = << >>] /\ dsDeltas' = dsDeltas \cup sv.delta
    BY <1>3, <1>4, <1>8 DEF SaveFile
  <2>2. \A e \in dsDeltas' : Agrees(K, clock, e)
    BY <1>1, <1>2, <1>5, <2>1 DEF DsWith
  <2>3. DOMAIN dsSave' = DsReplicas /\ dsSave'[r] = << >> /\ \A q \in DsReplicas \ {r} : dsSave'[q] = dsSave[q]
    BY <1>1, <2>1 DEF DsWith
  <2>4. ASSUME NEW q \in DsReplicas, dsSave'[q] # << >>
        PROVE  /\ dsSave'[q] \in [st : DeltaStates, file : DsFiles, delta : SUBSET DeltaRecords]
               /\ IsNewest(K, clock, dsSave'[q].st)
               /\ \A e \in dsSave'[q].delta : Agrees(K, clock, e)
    <3>1. q # r /\ dsSave'[q] = dsSave[q]
      BY <2>3, <2>4
    <3> QED BY <1>1, <1>2, <2>4, <3>1 DEF DsWith
  <2>5. DsWith(K)'
    BY <1>5, <1>6, <1>7, <2>2, <2>3, <2>4, DsPut
  <2> QED BY <2>5 DEF DsInv
<1>9. CASE f # Mirrors
  <2>1. PICK g : g = f + 1
    OBVIOUS
  <2>2. g \in DsFiles
    BY <1>5, <1>9, <2>1, DeltaStateAssumption DEF DsFiles
  <2>3. PICK new : new = [sv EXCEPT !.file = g]
    OBVIOUS
  <2>4. dsSave' = [dsSave EXCEPT ![r] = new] /\ dsDeltas' = dsDeltas
    <3>1. dsSave' = [dsSave EXCEPT ![r].file = @ + 1] /\ dsDeltas' = dsDeltas
      BY <1>3, <1>4, <1>9 DEF SaveFile
    <3>2. [dsSave EXCEPT ![r].file = @ + 1] = [dsSave EXCEPT ![r] = [sv EXCEPT !.file = f + 1]]
      BY <1>1, <1>3, <1>4 DEF DsWith
    <3> QED BY <2>1, <2>3, <3>1, <3>2
  <2>5. new \in [st : DeltaStates, file : DsFiles, delta : SUBSET DeltaRecords] /\ new.st = sv.st /\ new.delta = sv.delta
    BY <1>5, <2>2, <2>3
  <2>6. DOMAIN dsSave' = DsReplicas /\ dsSave'[r] = new /\ \A q \in DsReplicas \ {r} : dsSave'[q] = dsSave[q]
    BY <1>1, <2>4 DEF DsWith
  <2>7. ASSUME NEW q \in DsReplicas, dsSave'[q] # << >>
        PROVE  /\ dsSave'[q] \in [st : DeltaStates, file : DsFiles, delta : SUBSET DeltaRecords]
               /\ IsNewest(K, clock, dsSave'[q].st)
               /\ \A e \in dsSave'[q].delta : Agrees(K, clock, e)
    <3>1. CASE q = r
      BY <1>5, <2>5, <2>6, <3>1
    <3>2. CASE q # r
      BY <1>1, <1>2, <2>6, <2>7, <3>2 DEF DsWith
    <3> QED BY <3>1, <3>2
  <2>8. \A e \in dsDeltas' : Agrees(K, clock, e)
    BY <1>1, <1>2, <2>4 DEF DsWith
  <2>9. DsWith(K)'
    BY <1>5, <1>6, <1>7, <2>6, <2>7, <2>8, DsPut
  <2> QED BY <2>9 DEF DsInv
<1> QED BY <1>8, <1>9

LEMMA DeltaCrashed ==
  ASSUME DsInv, NEW r \in DsReplicas, CrashInSave(r)
  PROVE  DsInv'
<1>1. PICK K \in DeltaKinds : DsWith(K)
  BY DEF DsInv
<1>2. PICK clock : clock = dsClock
  OBVIOUS
<1>3. PICK f : f = dsSave[r].file
  OBVIOUS
<1>4. clock \in Nat /\ FilesWith(K, clock, dsFiles) /\ f \in DsFiles
  BY <1>1, <1>2, <1>3 DEF DsWith, FilesWith, DeltaFile, CrashInSave
<1>5. PICK old : old = dsFiles[r][f]
  OBVIOUS
<1>6. PICK file : file = [old EXCEPT !.x = Torn]
  OBVIOUS
<1>7. file \in DeltaFile /\ IsNewest(K, clock, file.st)
  <2>1. old \in DeltaFile /\ IsNewest(K, clock, old.st)
    BY <1>4, <1>5 DEF FilesWith
  <2>2. file \in DeltaFile /\ file.st = old.st
    BY <1>6, <2>1 DEF DeltaFile
  <2> QED BY <2>1, <2>2
<1>8. /\ dsFiles' = [dsFiles EXCEPT ![r][f] = file] /\ dsSave' = [dsSave EXCEPT ![r] = << >>]
      /\ dsClock' = clock /\ dsDeltas' = dsDeltas
  <2>1. dsFiles' = [dsFiles EXCEPT ![r][f].x = Torn]
    BY <1>3 DEF CrashInSave
  <2>2. [dsFiles EXCEPT ![r][f].x = Torn] = [dsFiles EXCEPT ![r][f] = [dsFiles[r][f] EXCEPT !.x = Torn]]
    BY <1>4 DEF FilesWith
  <2> QED BY <1>2, <1>5, <1>6, <2>1, <2>2 DEF CrashInSave
<1>9. FilesWith(K, clock, dsFiles')
  BY <1>4, <1>7, <1>8, FileWritten
<1>10. DOMAIN dsSave' = DsReplicas /\ dsSave'[r] = << >> /\ \A q \in DsReplicas \ {r} : dsSave'[q] = dsSave[q]
  BY <1>1, <1>8 DEF DsWith
<1>11. ASSUME NEW q \in DsReplicas, dsSave'[q] # << >>
       PROVE  /\ dsSave'[q] \in [st : DeltaStates, file : DsFiles, delta : SUBSET DeltaRecords]
              /\ IsNewest(K, clock, dsSave'[q].st)
              /\ \A e \in dsSave'[q].delta : Agrees(K, clock, e)
  <2>1. q # r /\ dsSave'[q] = dsSave[q]
    BY <1>10, <1>11
  <2> QED BY <1>1, <1>2, <1>11, <2>1 DEF DsWith
<1>12. \A e \in dsDeltas' : Agrees(K, clock, e)
  BY <1>1, <1>2, <1>8 DEF DsWith
<1>13. DsWith(K)'
  BY <1>4, <1>8, <1>9, <1>10, <1>11, <1>12, DsPut
<1> QED BY <1>13 DEF DsInv

LEMMA DsStepKeeps ==
  ASSUME DsInv, DsNext
  PROVE  DsInv'
BY DeltaApplied, DeltaMerged, DeltaSaved, DeltaCrashed DEF DsNext

\* Two states that have seen the same have the same newest.
LEMMA DeltasConverge ==
  ASSUME DsInv
  PROVE  SameDeltasSameState
<1>1. PICK K \in DeltaKinds : DsWith(K)
  BY DEF DsInv
<1> SUFFICES ASSUME NEW r \in DsReplicas, NEW q \in DsReplicas, Load(r).seen = Load(q).seen
             PROVE  Load(r).stamp = Load(q).stamp /\ Load(r).tomb = Load(q).tomb
  BY DEF SameDeltasSameState, Visible
<1>2. PICK a : a = Load(r)
  OBVIOUS
<1>3. PICK b : b = Load(q)
  OBVIOUS
<1>4. IsNewest(K, dsClock, a) /\ IsNewest(K, dsClock, b) /\ a.seen = b.seen
  BY <1>1, <1>2, <1>3, LoadedIsNewest
<1>5. a.stamp \in Nat /\ a.tomb \in Nat /\ b.stamp \in Nat /\ b.tomb \in Nat
  BY <1>4 DEF IsNewest, DeltaStates
<1>6. CASE a.seen = {}
  BY <1>2, <1>3, <1>4, <1>5, <1>6 DEF IsNewest
<1>7. CASE a.seen # {}
  <2>1. PICK x \in a.seen : \/ a.stamp = x /\ a.tomb = 0 /\ K[x] = "update" /\ x # 0 /\ \A y \in a.seen : y <= x
                            \/ a.stamp = 0 /\ a.tomb = x /\ K[x] = "delete" /\ x # 0 /\ \A y \in a.seen : y <= x
    BY <1>4, <1>7 DEF IsNewest
  <2>2. PICK z \in a.seen : \/ b.stamp = z /\ b.tomb = 0 /\ K[z] = "update" /\ z # 0 /\ \A y \in a.seen : y <= z
                            \/ b.stamp = 0 /\ b.tomb = z /\ K[z] = "delete" /\ z # 0 /\ \A y \in a.seen : y <= z
    BY <1>4, <1>7 DEF IsNewest
  <2>3. x = z
    <3>1. x \in Nat /\ z \in Nat /\ x <= z /\ z <= x
      BY <1>5, <2>1, <2>2
    <3> QED BY <3>1
  <2> QED BY <1>2, <1>3, <2>1, <2>2, <2>3
<1> QED BY <1>6, <1>7

\* What an acknowledged delta rests on: every file that can be read has it, and
\* no more files are torn than there were crashes.
Covers(seen, ds) == \A d \in ds : d.t \in seen
Own(r) == {d \in dsDeltas : d.by = r}
TornOf(row) == {f \in DsFiles : ~Readable(row[f])}

RowKeeps(row, own, crashes) ==
    /\ \A f \in DsFiles : Readable(row[f]) => Covers(row[f].st.seen, own)
    /\ own # {} => Cardinality(TornOf(row)) <= crashes

\* A save in progress: the files behind it have the delta it will acknowledge.
SaveKeeps(row, sv, own, r) ==
    /\ Covers(sv.st.seen, own) /\ Covers(sv.st.seen, sv.delta)
    /\ \A d \in sv.delta : d.by = r
    /\ \A g \in DsFiles : g < sv.file => Readable(row[g]) /\ Covers(row[g].st.seen, sv.delta)

KeepsOwn(r) ==
    /\ RowKeeps(dsFiles[r], Own(r), dsCrashes)
    /\ dsSave[r] # << >> => SaveKeeps(dsFiles[r], dsSave[r], Own(r), r)

DeltasKept ==
    /\ dsCrashes \in Nat /\ dsRefused \in Nat
    /\ dsRefused = 0 /\ dsCrashes <= Mirrors => \A r \in DsReplicas : KeepsOwn(r)

LEMMA TornAreFew ==
  ASSUME NEW row
  PROVE  /\ IsFiniteSet(TornOf(row)) /\ Cardinality(TornOf(row)) \in Nat
         /\ \A other : TornOf(other) \subseteq TornOf(row) => Cardinality(TornOf(other)) <= Cardinality(TornOf(row))
         /\ Cardinality(TornOf(row)) <= Mirrors => \E f \in DsFiles : Readable(row[f])
<1>1. IsFiniteSet(DsFiles) /\ Cardinality(DsFiles) = Mirrors + 1 /\ Mirrors \in Nat
  BY FS_Interval, DeltaStateAssumption DEF DsFiles
<1>2. TornOf(row) \subseteq DsFiles
  BY DEF TornOf
<1>3. IsFiniteSet(TornOf(row)) /\ Cardinality(TornOf(row)) \in Nat
  BY <1>1, <1>2, FS_Subset, FS_CardinalityType
<1>4. \A other : TornOf(other) \subseteq TornOf(row) => Cardinality(TornOf(other)) <= Cardinality(TornOf(row))
  BY <1>3, FS_Subset
<1>5. Cardinality(TornOf(row)) <= Mirrors => TornOf(row) # DsFiles
  BY <1>1, <1>3
<1>6. TornOf(row) # DsFiles => \E f \in DsFiles : Readable(row[f])
  BY DEF TornOf
<1> QED BY <1>3, <1>4, <1>5, <1>6

LEMMA RowLater ==
  ASSUME NEW row, NEW new, NEW own, NEW more, NEW crashes \in Nat, NEW later \in Nat, crashes <= later,
         RowKeeps(row, own, crashes), TornOf(new) \subseteq TornOf(row), more = {} \/ own # {},
         \A f \in DsFiles : Readable(new[f]) => Covers(new[f].st.seen, more)
  PROVE  RowKeeps(new, more, later)
<1>1. more # {} => Cardinality(TornOf(row)) <= crashes
  BY DEF RowKeeps
<1>2. Cardinality(TornOf(new)) <= Cardinality(TornOf(row)) /\ Cardinality(TornOf(row)) \in Nat
      /\ Cardinality(TornOf(new)) \in Nat
  BY TornAreFew
<1>3. more # {} => Cardinality(TornOf(new)) <= later
  BY <1>1, <1>2
<1> QED BY <1>3 DEF RowKeeps

\* The state that is loaded is that of a file, if there is one that parses.
LEMMA LoadReadsAFile ==
  ASSUME NEW r \in DsReplicas, NEW g \in DsFiles, Readable(dsFiles[r][g])
  PROVE  \E f \in DsFiles : Readable(dsFiles[r][f]) /\ Load(r) = dsFiles[r][f].st
<1> DEFINE ok == {f \in DsFiles : Readable(dsFiles[r][f])}
           first == CHOOSE f \in ok : \A h \in ok : f <= h
<1>1. ok \subseteq Nat /\ ok # {}
  BY DeltaStateAssumption DEF DsFiles
<1>2. PICK x \in ok : \A y \in ok : <<y, x>> \notin OpToRel(<, Nat)
  BY <1>1, NatLessThanWellFounded, WFMin
<1>3. \A y \in ok : x <= y
  <2> SUFFICES ASSUME NEW y \in ok, y < x PROVE FALSE
    BY <1>1
  <2>1. <<y, x>> \in OpToRel(<, Nat)
    BY <1>1 DEF OpToRel
  <2> QED BY <1>2, <2>1
<1>4. first \in ok
  BY <1>2, <1>3
<1>5. Load(r) = dsFiles[r][first].st
  BY <1>1 DEF Load
<1> HIDE DEF first
<1> QED BY <1>4, <1>5

LEMMA LoadCovers ==
  ASSUME NEW r \in DsReplicas, RowKeeps(dsFiles[r], Own(r), dsCrashes), dsCrashes \in Nat, dsCrashes <= Mirrors
  PROVE  Covers(Load(r).seen, Own(r))
<1>1. CASE Own(r) = {}
  BY <1>1 DEF Covers
<1>2. CASE Own(r) # {}
  <2>1. PICK row : row = dsFiles[r]
    OBVIOUS
  <2>2. Cardinality(TornOf(row)) <= Mirrors
    <3>1. Cardinality(TornOf(row)) <= dsCrashes /\ Cardinality(TornOf(row)) \in Nat
      BY <1>2, <2>1, TornAreFew DEF RowKeeps
    <3> QED BY <3>1, DeltaStateAssumption
  <2>3. PICK g \in DsFiles : Readable(dsFiles[r][g])
    BY <2>1, <2>2, TornAreFew
  <2>4. PICK f \in DsFiles : Readable(dsFiles[r][f]) /\ Load(r) = dsFiles[r][f].st
    BY <2>3, LoadReadsAFile
  <2> QED BY <2>4 DEF RowKeeps
<1> QED BY <1>1, <1>2

\* Healing the primary puts the loaded state there.
LEMMA HealedCovers ==
  ASSUME DsInv, NEW r \in DsReplicas, RowKeeps(dsFiles[r], Own(r), dsCrashes), dsCrashes \in Nat, dsCrashes <= Mirrors
  PROVE  /\ RowKeeps(Healed(r)[r], Own(r), dsCrashes)
         /\ DOMAIN Healed(r) = DsReplicas
         /\ \A q \in DsReplicas \ {r} : Healed(r)[q] = dsFiles[q]
<1>1. dsFiles \in [DsReplicas -> [DsFiles -> DeltaFile]]
  BY DEF DsInv, DsWith, DeltaFile
<1>2. PICK file : file = [x |-> "ok", st |-> Load(r)]
  OBVIOUS
<1>3. PICK row : row = [dsFiles[r] EXCEPT ![0] = file]
  OBVIOUS
<1>4. CASE Healed(r) = dsFiles
  BY <1>1, <1>4
<1>5. CASE Healed(r) # dsFiles
  <2>1. Healed(r) = [dsFiles EXCEPT ![r][0] = file]
    BY <1>2, <1>5 DEF Healed
  <2>2. Healed(r) = [dsFiles EXCEPT ![r] = row]
    BY <1>1, <1>3, <2>1
  <2>3. DOMAIN Healed(r) = DsReplicas /\ Healed(r)[r] = row /\ \A q \in DsReplicas \ {r} : Healed(r)[q] = dsFiles[q]
    BY <1>1, <2>2
  <2>4. \A f \in DsFiles : row[f] = IF f = 0 THEN file ELSE dsFiles[r][f]
    <3>1. dsFiles[r] \in [DsFiles -> DeltaFile]
      BY <1>1
    <3> QED BY <1>3, <3>1
  <2>5. Readable(file) /\ file.st = Load(r)
    BY <1>2 DEF Readable, Torn
  <2>6. TornOf(row) \subseteq TornOf(dsFiles[r])
    BY <2>4, <2>5 DEF TornOf
  <2>7. \A f \in DsFiles : Readable(row[f]) => Covers(row[f].st.seen, Own(r))
    BY <2>4, <2>5, LoadCovers DEF RowKeeps
  <2>8. RowKeeps(row, Own(r), dsCrashes)
    BY <2>6, <2>7, RowLater
  <2> QED BY <2>3, <2>8
<1> QED BY <1>4, <1>5

LEMMA OthersOwn ==
  ASSUME NEW q \in DsReplicas, KeepsOwn(q), dsFiles'[q] = dsFiles[q], dsSave'[q] = dsSave[q],
         Own(q)' = Own(q), dsCrashes \in Nat, dsCrashes' \in Nat, dsCrashes <= dsCrashes'
  PROVE  KeepsOwn(q)'
<1>1. RowKeeps(dsFiles[q], Own(q), dsCrashes)
  BY DEF KeepsOwn
<1>2. PICK row : row = dsFiles[q]
  OBVIOUS
<1>3. PICK own : own = Own(q)
  OBVIOUS
<1>4. RowKeeps(row, own, dsCrashes')
  <2>1. \A f \in DsFiles : Readable(row[f]) => Covers(row[f].st.seen, own)
    BY <1>1, <1>2, <1>3 DEF RowKeeps
  <2>2. RowKeeps(row, own, dsCrashes)
    BY <1>1, <1>2, <1>3
  <2>3. PICK c \in Nat : c = dsCrashes
    OBVIOUS
  <2>4. PICK e \in Nat : e = dsCrashes'
    OBVIOUS
  <2>5. RowKeeps(row, own, c) /\ c <= e
    BY <2>2, <2>3, <2>4
  <2>6. TornOf(row) \subseteq TornOf(row) /\ (own = {} \/ own # {})
    OBVIOUS
  <2>7. RowKeeps(row, own, e)
    BY ONLY <2>1, <2>5, <2>6, RowLater
  <2> QED BY <2>4, <2>7
<1>5. PICK sv : sv = dsSave[q]
  OBVIOUS
<1>6. sv # << >> => SaveKeeps(row, sv, own, q)
  BY <1>2, <1>3, <1>5 DEF KeepsOwn
<1>7. dsFiles'[q] = row /\ dsSave'[q] = sv /\ Own(q)' = own
  BY <1>2, <1>3, <1>5
<1>8. RowKeeps(dsFiles'[q], Own(q)', dsCrashes') /\ (dsSave'[q] # << >> => SaveKeeps(dsFiles'[q], dsSave'[q], Own(q)', q))
  BY <1>4, <1>6, <1>7
<1> QED BY <1>8 DEF KeepsOwn, RowKeeps, SaveKeeps, Covers, TornOf, Readable

\* What the replica of a step has to show.
LEMMA OwnPut ==
  ASSUME NEW r \in DsReplicas, NEW row, NEW sv, NEW own, NEW crashes,
         dsFiles'[r] = row, dsSave'[r] = sv, Own(r)' = own, dsCrashes' = crashes,
         RowKeeps(row, own, crashes), sv # << >> => SaveKeeps(row, sv, own, r)
  PROVE  KeepsOwn(r)'
<1>1. RowKeeps(dsFiles'[r], Own(r)', dsCrashes') /\ (dsSave'[r] # << >> => SaveKeeps(dsFiles'[r], dsSave'[r], Own(r)', r))
  OBVIOUS
<1> QED BY <1>1 DEF KeepsOwn, RowKeeps, SaveKeeps, Covers, TornOf, Readable

LEMMA ApplyCovers ==
  ASSUME DsInv, DeltasKept, NEW r \in DsReplicas, NEW kind \in {"update", "delete"}, Apply(r, kind)
  PROVE  DeltasKept'
<1>1. PICK K \in DeltaKinds : DsWith(K)
  BY DEF DsInv
<1>2. PICK t : t = dsClock + 1
  OBVIOUS
<1>3. PICK old : old = Load(r)
  OBVIOUS
<1>4. PICK st : st = IF kind = "update" THEN Update(old, t) ELSE Delete(old, t)
  OBVIOUS
<1>5. PICK d : d = [kind |-> kind, t |-> t, by |-> r]
  OBVIOUS
<1>6. PICK sv : sv = [st |-> st, file |-> 0, delta |-> {d}]
  OBVIOUS
<1>7. /\ dsFiles' = Healed(r) /\ dsSave' = [dsSave EXCEPT ![r] = sv] /\ dsDeltas' = dsDeltas
      /\ dsCrashes' = dsCrashes /\ dsRefused' = dsRefused
  BY <1>2, <1>3, <1>4, <1>5, <1>6 DEF Apply
<1>8. old.seen \subseteq st.seen /\ t \in st.seen
  <2>1. IsNewest(K, dsClock, old) /\ dsClock \in Nat
    BY <1>1, <1>3, LoadedIsNewest DEF DsWith
  <2>2. old.stamp \in Nat /\ old.tomb \in Nat /\ old.stamp <= dsClock /\ old.tomb <= dsClock
    BY <2>1 DEF IsNewest, DeltaStates
  <2>3. ~(old.stamp >= t) /\ ~(old.tomb >= t)
    BY <1>2, <2>1, <2>2
  <2>4. st = [stamp |-> IF kind = "update" THEN t ELSE 0, tomb |-> IF kind = "update" THEN 0 ELSE t,
              seen |-> old.seen \cup {t}]
    BY <1>4, <2>3 DEF Update, Delete
  <2> QED BY <2>4
<1>9. ASSUME dsRefused = 0, dsCrashes <= Mirrors, NEW q \in DsReplicas
      PROVE  KeepsOwn(q)'
  <2>1. \A p \in DsReplicas : KeepsOwn(p)
    BY <1>9 DEF DeltasKept
  <2>2. Own(q)' = Own(q) /\ DOMAIN dsSave = DsReplicas /\ dsCrashes \in Nat
    BY <1>1, <1>7 DEF Own, DsWith, DeltasKept
  <2>3. RowKeeps(dsFiles[r], Own(r), dsCrashes)
    BY <2>1 DEF KeepsOwn
  <2>4. /\ RowKeeps(Healed(r)[r], Own(r), dsCrashes)
        /\ \A p \in DsReplicas \ {r} : Healed(r)[p] = dsFiles[p]
    BY <1>9, <2>2, <2>3, HealedCovers
  <2>5. CASE q # r
    <3>1. dsFiles'[q] = dsFiles[q] /\ dsSave'[q] = dsSave[q]
      BY <1>7, <2>2, <2>4, <2>5
    <3>2. dsCrashes' = dsCrashes
      BY <1>7
    <3> QED BY <2>1, <2>2, <3>1, <3>2, OthersOwn
  <2>6. CASE q = r
    <3>1. Covers(old.seen, Own(r))
      BY <1>3, <1>9, <2>2, <2>3, LoadCovers
    <3>2. sv.st = st /\ sv.delta = {d} /\ sv.file = 0
      BY <1>6
    <3>3. d.t = t /\ d.by = r
      BY <1>5
    <3>4. \A g \in DsFiles : ~(g < 0)
      BY DeltaStateAssumption DEF DsFiles
    <3>5. PICK row : row = Healed(r)[r]
      OBVIOUS
    <3>6. SaveKeeps(row, sv, Own(r), r)
      BY <1>8, <3>1, <3>2, <3>3, <3>4 DEF SaveKeeps, Covers
    <3>7. PICK own : own = Own(r)
      OBVIOUS
    <3>8. dsFiles'[r] = row /\ dsSave'[r] = sv /\ Own(r)' = own /\ RowKeeps(row, own, dsCrashes') /\ SaveKeeps(row, sv, own, r)
      BY <1>7, <2>2, <2>4, <2>6, <3>5, <3>6, <3>7
    <3>9. PICK crashes : crashes = dsCrashes'
      OBVIOUS
    <3>10. RowKeeps(row, own, crashes)
      BY <3>8, <3>9
    <3> QED BY <2>6, <3>8, <3>9, <3>10, OwnPut
  <2> QED BY <2>5, <2>6
<1> QED BY <1>7, <1>9 DEF DeltasKept

LEMMA MergeCovers ==
  ASSUME DsInv, DeltasKept, NEW r \in DsReplicas, NEW d \in dsDeltas, MergeDelta(r, d)
  PROVE  DeltasKept'
<1>1. PICK K \in DeltaKinds : DsWith(K)
  BY DEF DsInv
<1>2. dsDeltas' = dsDeltas /\ dsCrashes' = dsCrashes /\ dsRefused' = dsRefused /\ dsSave[r] = << >>
  BY DEF MergeDelta
<1>3. ASSUME NEW st \in DeltaStates
      PROVE  Absorb(st, d).seen = st.seen \cup {d.t}
  <2>1. PICK new : new = Merge(st, d)
    OBVIOUS
  <2>2. new \in [stamp : {st.stamp, 0, d.t}, tomb : {st.tomb, 0, d.t}, seen : {st.seen}]
    BY <2>1 DEF Merge, DeltaStates
  <2>3. Absorb(st, d) = [new EXCEPT !.seen = new.seen \cup {d.t}]
    BY <2>1 DEF Absorb
  <2> QED BY <2>2, <2>3
<1>4. ASSUME dsRefused = 0, dsCrashes <= Mirrors, NEW q \in DsReplicas
      PROVE  KeepsOwn(q)'
  <2>1. \A p \in DsReplicas : KeepsOwn(p)
    BY <1>4 DEF DeltasKept
  <2>2. Own(q)' = Own(q) /\ DOMAIN dsSave = DsReplicas /\ dsCrashes \in Nat
    BY <1>1, <1>2 DEF Own, DsWith, DeltasKept
  <2>3. RowKeeps(dsFiles[r], Own(r), dsCrashes)
    BY <2>1 DEF KeepsOwn
  <2>4. PICK files : files = Healed(r)
    OBVIOUS
  <2>5. /\ RowKeeps(files[r], Own(r), dsCrashes) /\ DOMAIN files = DsReplicas
        /\ \A p \in DsReplicas \ {r} : files[p] = dsFiles[p]
    BY <1>4, <2>2, <2>3, <2>4, HealedCovers
  <2>6. PICK sv : sv = [st |-> Absorb(Load(r), d), file |-> 0, delta |-> {}]
    OBVIOUS
  <2>7. PICK row : row = AbsorbUnchanged(files[r], d)
    OBVIOUS
  <2>8. \/ dsFiles' = files /\ dsSave' = [dsSave EXCEPT ![r] = sv]
        \/ dsFiles' = [files EXCEPT ![r] = row] /\ dsSave' = dsSave
    BY <2>4, <2>6, <2>7 DEF MergeDelta
  <2>9. CASE q # r
    <3>1. dsFiles'[q] = dsFiles[q] /\ dsSave'[q] = dsSave[q]
      BY <2>2, <2>5, <2>8, <2>9
    <3> QED BY <1>2, <2>1, <2>2, <3>1, OthersOwn
  <2>10. CASE q = r /\ dsFiles' = files /\ dsSave' = [dsSave EXCEPT ![r] = sv]
    <3>1. Covers(Load(r).seen, Own(r))
      BY <1>4, <2>2, <2>3, LoadCovers
    <3>2. Load(r) \in DeltaStates
      BY <1>1, LoadedIsNewest
    <3>3. PICK st : st = Absorb(Load(r), d)
      OBVIOUS
    <3>4. Covers(st.seen, Own(r))
      BY <1>3, <3>1, <3>2, <3>3 DEF Covers
    <3>5. sv.st = st /\ sv.delta = {} /\ sv.file = 0
      BY <2>6, <3>3
    <3>6. \A g \in DsFiles : ~(g < 0)
      BY DeltaStateAssumption DEF DsFiles
    <3>7. PICK own : own = Own(r)
      OBVIOUS
    <3>8. PICK old : old = files[r]
      OBVIOUS
    <3>9. SaveKeeps(old, sv, own, r)
      BY <3>4, <3>5, <3>6, <3>7 DEF SaveKeeps, Covers
    <3>10. dsFiles'[r] = old /\ dsSave'[r] = sv /\ Own(r)' = own /\ RowKeeps(old, own, dsCrashes)
      BY <2>2, <2>5, <2>10, <3>7, <3>8
    <3>11. PICK crashes : crashes = dsCrashes
      OBVIOUS
    <3>12. dsCrashes' = crashes /\ RowKeeps(old, own, crashes)
      BY <1>2, <3>10, <3>11
    <3> QED BY <2>10, <3>9, <3>10, <3>12, OwnPut
  <2>11. CASE q = r /\ dsFiles' = [files EXCEPT ![r] = row] /\ dsSave' = dsSave
    <3>1. PICK old : old = files[r]
      OBVIOUS
    <3>2. PICK own : own = Own(r)
      OBVIOUS
    <3>3. \A f \in DsFiles : row[f] = IF Readable(old[f]) /\ Merge(old[f].st, d) = old[f].st
                                      THEN [old[f] EXCEPT !.st = Absorb(@, d)] ELSE old[f]
      BY <2>7, <3>1 DEF AbsorbUnchanged
    <3>4. old \in [DsFiles -> DeltaFile]
      <4>1. FilesWith(K, dsClock, files)
        BY <1>1, <2>4, HealedIsNewest
      <4> QED BY <3>1, <4>1 DEF FilesWith
    <3>5. ASSUME NEW f \in DsFiles
          PROVE  /\ Readable(row[f]) <=> Readable(old[f])
                 /\ old[f].st.seen \subseteq row[f].st.seen
      <4>1. PICK file : file = old[f]
        OBVIOUS
      <4>2. file \in DeltaFile
        BY <3>4, <4>1
      <4>3. PICK st : st = Absorb(file.st, d)
        OBVIOUS
      <4>4. file.st.seen \subseteq st.seen
        BY <1>3, <4>2, <4>3 DEF DeltaFile
      <4>5. row[f] = file \/ row[f] = [file EXCEPT !.st = st]
        BY <3>3, <4>1, <4>3
      <4>6. row[f].x = file.x /\ (row[f].st = file.st \/ row[f].st = st)
        BY <4>2, <4>5 DEF DeltaFile
      <4> QED BY <4>1, <4>4, <4>6 DEF Readable
    <3>6. TornOf(row) \subseteq TornOf(old)
      BY <3>5 DEF TornOf
    <3>7. \A f \in DsFiles : Readable(row[f]) => Covers(row[f].st.seen, own)
      BY <2>5, <3>1, <3>2, <3>5 DEF RowKeeps, Covers
    <3>8. PICK crashes \in Nat : crashes = dsCrashes
      BY <2>2
    <3>9. RowKeeps(old, own, crashes) /\ crashes <= crashes /\ (own = {} \/ own # {})
      BY <2>5, <3>1, <3>2, <3>8
    <3>10. RowKeeps(row, own, crashes)
      BY ONLY <3>6, <3>7, <3>9, RowLater
    <3>11. PICK sv2 : sv2 = << >>
      OBVIOUS
    <3>12. dsFiles'[r] = row /\ dsSave'[r] = sv2 /\ Own(r)' = own /\ dsCrashes' = crashes /\ ~(sv2 # << >>)
      BY <1>2, <2>2, <2>5, <2>11, <3>2, <3>8, <3>11
    <3> QED BY <2>11, <3>10, <3>12, OwnPut
  <2> QED BY <2>8, <2>9, <2>10, <2>11
<1> QED BY <1>2, <1>4 DEF DeltasKept

LEMMA SaveCovers ==
  ASSUME DsInv, DeltasKept, NEW r \in DsReplicas, SaveFile(r)
  PROVE  DeltasKept'
<1>1. PICK K \in DeltaKinds : DsWith(K)
  BY DEF DsInv
<1>2. PICK sv : sv = dsSave[r]
  OBVIOUS
<1>3. PICK f : f = sv.file
  OBVIOUS
<1>4. /\ sv \in [st : DeltaStates, file : DsFiles, delta : SUBSET DeltaRecords] /\ sv # << >>
      /\ f \in DsFiles /\ f \in Nat /\ Mirrors \in Nat
      /\ DOMAIN dsSave = DsReplicas /\ dsFiles \in [DsReplicas -> [DsFiles -> DeltaFile]]
  <2>1. sv # << >>
    BY <1>2 DEF SaveFile
  <2>2. sv \in [st : DeltaStates, file : DsFiles, delta : SUBSET DeltaRecords]
    BY <1>1, <1>2, <2>1 DEF DsWith
  <2> QED BY <1>1, <1>3, <2>1, <2>2, DeltaStateAssumption DEF DsWith, DsFiles, DeltaFile
<1>5. PICK file : file = [x |-> "ok", st |-> sv.st]
  OBVIOUS
<1>6. PICK row : row = [dsFiles[r] EXCEPT ![f] = file]
  OBVIOUS
<1>7. /\ dsCrashes' = dsCrashes /\ dsRefused' \in Nat
      /\ dsRefused' = 0 => dsRefused = 0 /\ dsFiles' = [dsFiles EXCEPT ![r] = row]
  <2>1. \/ dsFiles' = [dsFiles EXCEPT ![r][f] = file] /\ dsRefused' = dsRefused
        \/ dsRefused' = dsRefused + 1
    BY <1>2, <1>3, <1>5 DEF SaveFile
  <2>2. [dsFiles EXCEPT ![r][f] = file] = [dsFiles EXCEPT ![r] = row]
    BY <1>4, <1>6
  <2> QED BY <2>1, <2>2 DEF DeltasKept, SaveFile
<1>8. ASSUME dsRefused' = 0, dsCrashes <= Mirrors, NEW q \in DsReplicas
      PROVE  KeepsOwn(q)'
  <2>1. (\A p \in DsReplicas : KeepsOwn(p)) /\ dsCrashes \in Nat
    BY <1>7, <1>8 DEF DeltasKept
  <2>2. dsFiles' = [dsFiles EXCEPT ![r] = row]
    BY <1>7, <1>8
  <2>3. PICK own : own = Own(r)
    OBVIOUS
  <2>4. PICK old : old = dsFiles[r]
    OBVIOUS
  <2>5. PICK crashes \in Nat : crashes = dsCrashes
    BY <2>1
  <2>6. RowKeeps(old, own, crashes) /\ SaveKeeps(old, sv, own, r)
    BY <1>2, <1>4, <2>1, <2>3, <2>4, <2>5 DEF KeepsOwn
  <2>7. /\ row[f] = file /\ \A g \in DsFiles \ {f} : row[g] = old[g]
        /\ file.st = sv.st /\ Readable(file)
    <3>1. old \in [DsFiles -> DeltaFile]
      BY <1>4, <2>4
    <3> QED BY <1>4, <1>5, <1>6, <2>4, <3>1 DEF Readable, Torn
  <2>8. /\ \A g \in DsFiles : Readable(row[g]) => Covers(row[g].st.seen, own)
        /\ TornOf(row) \subseteq TornOf(old)
        /\ \A g \in DsFiles : (g < f \/ g = f) => Readable(row[g]) /\ Covers(row[g].st.seen, sv.delta)
    <3>1. /\ \A g \in DsFiles : Readable(old[g]) => Covers(old[g].st.seen, own)
          /\ Covers(sv.st.seen, own) /\ Covers(sv.st.seen, sv.delta)
          /\ \A g \in DsFiles : g < f => Readable(old[g]) /\ Covers(old[g].st.seen, sv.delta)
      BY <1>3, <2>6 DEF RowKeeps, SaveKeeps
    <3>2. \A g \in DsFiles : g \in Nat
      BY DeltaStateAssumption DEF DsFiles
    <3> QED BY <1>4, <2>7, <3>1, <3>2 DEF TornOf
  <2>9. CASE q # r
    <3>1. dsFiles'[q] = dsFiles[q] /\ dsSave'[q] = dsSave[q]
      <4>1. dsSave' = [dsSave EXCEPT ![r] = << >>] \/ dsSave' = [dsSave EXCEPT ![r].file = @ + 1]
        BY DEF SaveFile
      <4> QED BY <1>4, <2>2, <2>9, <4>1
    <3>2. Own(q)' = Own(q)
      <4>1. \A d \in sv.delta : d.by = r
        BY <2>6 DEF SaveKeeps
      <4>2. dsDeltas' = dsDeltas \/ dsDeltas' = dsDeltas \cup sv.delta
        BY <1>2 DEF SaveFile
      <4> QED BY <2>9, <4>1, <4>2 DEF Own
    <3> QED BY <1>7, <2>1, <3>1, <3>2, OthersOwn
  <2>10. CASE q = r /\ f = Mirrors
    <3>1. dsSave' = [dsSave EXCEPT ![r] = << >>] /\ dsDeltas' = dsDeltas \cup sv.delta
      BY <1>2, <1>3, <2>10 DEF SaveFile
    <3>2. PICK more : more = own \cup sv.delta
      OBVIOUS
    <3>3. Own(r)' = more
      <4>1. \A d \in sv.delta : d.by = r
        BY <2>6 DEF SaveKeeps
      <4> QED BY <2>3, <3>1, <3>2, <4>1 DEF Own
    <3>4. \A g \in DsFiles : Readable(row[g]) /\ Covers(row[g].st.seen, sv.delta)
      BY <1>4, <2>8, <2>10 DEF DsFiles
    <3>5. \A g \in DsFiles : Readable(row[g]) => Covers(row[g].st.seen, more)
      BY <2>8, <3>2, <3>4 DEF Covers
    <3>6. TornOf(row) = {}
      BY <3>4 DEF TornOf
    <3>7. Cardinality(TornOf(row)) = 0
      BY <3>6, FS_EmptySet
    <3>8. RowKeeps(row, more, crashes)
      BY <2>5, <3>5, <3>7 DEF RowKeeps
    <3>9. PICK sv2 : sv2 = << >>
      OBVIOUS
    <3>10. dsFiles'[r] = row /\ dsSave'[r] = sv2 /\ dsCrashes' = crashes /\ ~(sv2 # << >>)
      BY <1>4, <1>7, <2>2, <2>5, <3>1, <3>9
    <3> QED BY <2>10, <3>3, <3>8, <3>10, OwnPut
  <2>11. CASE q = r /\ f # Mirrors
    <3>1. dsSave' = [dsSave EXCEPT ![r].file = @ + 1] /\ dsDeltas' = dsDeltas
      BY <1>2, <1>3, <2>11 DEF SaveFile
    <3>2. PICK next : next = [sv EXCEPT !.file = f + 1]
      OBVIOUS
    <3>3. dsSave' = [dsSave EXCEPT ![r] = next]
      BY <1>2, <1>3, <1>4, <3>1, <3>2
    <3>4. next.st = sv.st /\ next.delta = sv.delta /\ next.file = f + 1
      BY <1>4, <3>2
    <3>5. RowKeeps(row, own, crashes)
      <4>1. RowKeeps(old, own, crashes) /\ crashes <= crashes /\ TornOf(row) \subseteq TornOf(old)
            /\ (own = {} \/ own # {}) /\ \A g \in DsFiles : Readable(row[g]) => Covers(row[g].st.seen, own)
        BY <2>5, <2>6, <2>8
      <4> QED BY ONLY <4>1, <2>5, RowLater
    <3>6. SaveKeeps(row, next, own, r)
      <4>1. \A g \in DsFiles : g < f + 1 => g < f \/ g = f
        BY <1>4 DEF DsFiles
      <4>2. Covers(sv.st.seen, own) /\ Covers(sv.st.seen, sv.delta) /\ \A d \in sv.delta : d.by = r
        BY <2>6 DEF SaveKeeps
      <4> QED BY <2>8, <3>4, <4>1, <4>2 DEF SaveKeeps
    <3>7. dsFiles'[r] = row /\ dsSave'[r] = next /\ dsCrashes' = crashes /\ Own(r)' = own
      BY <1>4, <1>7, <2>2, <2>3, <2>5, <3>1, <3>3 DEF Own
    <3> QED BY <2>11, <3>5, <3>6, <3>7, OwnPut
  <2> QED BY <2>9, <2>10, <2>11
<1> QED BY <1>7, <1>8 DEF DeltasKept

\* A crash tears one more file.
LEMMA CrashCovers ==
  ASSUME DsInv, DeltasKept, NEW r \in DsReplicas, CrashInSave(r)
  PROVE  DeltasKept'
<1>1. PICK K \in DeltaKinds : DsWith(K)
  BY DEF DsInv
<1>2. PICK f : f = dsSave[r].file
  OBVIOUS
<1>3. /\ f \in DsFiles /\ DOMAIN dsSave = DsReplicas /\ dsFiles \in [DsReplicas -> [DsFiles -> DeltaFile]]
  BY <1>1, <1>2 DEF DsWith, DeltaFile, CrashInSave
<1>4. PICK old : old = dsFiles[r]
  OBVIOUS
<1>5. PICK file : file = [old[f] EXCEPT !.x = Torn]
  OBVIOUS
<1>6. PICK row : row = [old EXCEPT ![f] = file]
  OBVIOUS
<1>7. old \in [DsFiles -> DeltaFile]
  BY <1>3, <1>4
<1>8. row[f] = file /\ \A g \in DsFiles \ {f} : row[g] = old[g]
  BY <1>3, <1>6, <1>7
<1>9. ~Readable(file)
  BY <1>3, <1>5, <1>7 DEF Readable, DeltaFile
<1>10. /\ dsFiles' = [dsFiles EXCEPT ![r] = row] /\ dsSave' = [dsSave EXCEPT ![r] = << >>]
       /\ dsDeltas' = dsDeltas /\ dsRefused' = dsRefused /\ dsCrashes' = dsCrashes + 1
  <2>1. [dsFiles EXCEPT ![r][f].x = Torn] = [dsFiles EXCEPT ![r] = row]
    BY <1>3, <1>4, <1>5, <1>6
  <2> QED BY <1>2, <2>1 DEF CrashInSave
<1>11. dsCrashes \in Nat /\ dsRefused \in Nat /\ Mirrors \in Nat
  BY DeltaStateAssumption DEF DeltasKept
<1>12. ASSUME dsRefused = 0, dsCrashes + 1 <= Mirrors, NEW q \in DsReplicas
       PROVE  KeepsOwn(q)'
  <2>1. \A p \in DsReplicas : KeepsOwn(p)
    BY <1>11, <1>12 DEF DeltasKept
  <2>2. Own(q)' = Own(q)
    BY <1>10 DEF Own
  <2>3. CASE q # r
    <3>1. dsFiles'[q] = dsFiles[q] /\ dsSave'[q] = dsSave[q]
      BY <1>3, <1>10, <2>3
    <3>2. dsCrashes' \in Nat /\ dsCrashes <= dsCrashes'
      BY <1>10, <1>11
    <3> QED BY <1>11, <2>1, <2>2, <3>1, <3>2, OthersOwn
  <2>4. CASE q = r
    <3>1. PICK own : own = Own(r)
      OBVIOUS
    <3>2. RowKeeps(old, own, dsCrashes)
      BY <1>4, <2>1, <3>1 DEF KeepsOwn
    <3>3. \A g \in DsFiles : Readable(row[g]) => Covers(row[g].st.seen, own)
      BY <1>8, <1>9, <3>2 DEF RowKeeps
    <3>4. ASSUME own # {}
          PROVE  Cardinality(TornOf(row)) <= dsCrashes + 1
      <4>1. TornOf(row) \subseteq TornOf(old) \cup {f}
        BY <1>8 DEF TornOf
      <4>2. IsFiniteSet(TornOf(old)) /\ Cardinality(TornOf(old)) \in Nat
        BY TornAreFew
      <4>3. /\ IsFiniteSet(TornOf(old) \cup {f})
            /\ Cardinality(TornOf(old) \cup {f}) = IF f \in TornOf(old) THEN Cardinality(TornOf(old))
                                                    ELSE Cardinality(TornOf(old)) + 1
        BY <4>2, FS_AddElement
      <4>4. Cardinality(TornOf(row)) <= Cardinality(TornOf(old) \cup {f}) /\ Cardinality(TornOf(row)) \in Nat
        BY <4>1, <4>3, FS_Subset, TornAreFew
      <4>5. Cardinality(TornOf(old)) <= dsCrashes
        BY <3>2, <3>4 DEF RowKeeps
      <4> QED BY <1>11, <4>2, <4>3, <4>4, <4>5
    <3>5. PICK crashes : crashes = dsCrashes + 1
      OBVIOUS
    <3>6. RowKeeps(row, own, crashes)
      BY <3>3, <3>4, <3>5 DEF RowKeeps
    <3>7. PICK sv2 : sv2 = << >>
      OBVIOUS
    <3>8. dsFiles'[r] = row /\ dsSave'[r] = sv2 /\ Own(r)' = own /\ dsCrashes' = crashes /\ ~(sv2 # << >>)
      BY <1>3, <1>10, <2>2, <2>4, <3>1, <3>5, <3>7
    <3> QED BY <2>4, <3>6, <3>8, OwnPut
  <2> QED BY <2>3, <2>4
<1> QED BY <1>10, <1>11, <1>12 DEF DeltasKept

LEMMA DeltasKeptStart ==
  ASSUME DsInit
  PROVE  DeltasKept
<1>1. /\ dsSave = [r \in DsReplicas |-> << >>] /\ dsDeltas = {} /\ dsCrashes = 0 /\ dsRefused = 0
  BY DEF DsInit
<1>2. ASSUME NEW r \in DsReplicas
      PROVE  KeepsOwn(r)
  <2>1. Own(r) = {} /\ dsSave[r] = << >>
    BY <1>1 DEF Own
  <2> QED BY <2>1 DEF KeepsOwn, RowKeeps, Covers
<1> QED BY <1>1, <1>2 DEF DeltasKept

LEMMA DeltasKeptStays ==
  ASSUME DeltasKept, UNCHANGED dsVars
  PROVE  DeltasKept'
BY DEF dsVars, DeltasKept, KeepsOwn, Own, RowKeeps, SaveKeeps, Covers, TornOf, Readable

LEMMA DeltasKeptNext ==
  ASSUME DsInv, DeltasKept, DsNext
  PROVE  DeltasKept'
BY ApplyCovers, MergeCovers, SaveCovers, CrashCovers DEF DsNext

LEMMA AcknowledgedAreKept ==
  ASSUME DsInv, DeltasKept
  PROVE  AcknowledgedDeltasStay
<1> SUFFICES ASSUME dsRefused = 0, dsCrashes <= Mirrors, NEW d \in dsDeltas
             PROVE  d.t \in Load(d.by).seen
  BY DEF AcknowledgedDeltasStay
<1>1. PICK r : r = d.by
  OBVIOUS
<1>2. r \in DsReplicas
  BY <1>1 DEF DsInv, DsWith, Agrees, DeltaRecords
<1>3. RowKeeps(dsFiles[r], Own(r), dsCrashes) /\ dsCrashes \in Nat
  BY <1>2 DEF DeltasKept, KeepsOwn
<1>4. Covers(Load(r).seen, Own(r))
  BY <1>2, <1>3, LoadCovers
<1>5. d \in Own(r)
  BY <1>1 DEF Own
<1> QED BY <1>1, <1>4, <1>5 DEF Covers

-----------------------------------------------------------------------------
(* Checkpoints: what loads as whole was written to its end.                 *)

CkInv ==
    /\ LoadedWasWhole
    /\ ckFile = << >> \/ \E n : ckFile = << "cut", n >> \/ (ckFile = << "ok", n >> /\ n \in ckWhole)

LEMMA CkStepKeeps ==
  ASSUME CkInv, RlNext \/ UNCHANGED rlVars
  PROVE  CkInv'
<1>1. CASE SaveBegins
  BY <1>1 DEF SaveBegins, CkInv, LoadedWasWhole
<1>2. CASE SaveEnds
  BY <1>2 DEF SaveEnds, CkInv, LoadedWasWhole
<1>3. CASE LoadCheckpoint
  <2>1. PICK file : file = ckFile
    OBVIOUS
  <2>2. UNCHANGED << ckFile, ckWhole >> /\ ckLoaded' = IF file[1] = "ok" THEN file[2] ELSE 0
    BY <1>3, <2>1 DEF LoadCheckpoint, Loads
  <2>3. PICK n : file = << "cut", n >> \/ (file = << "ok", n >> /\ n \in ckWhole)
    BY <1>3, <2>1 DEF CkInv, LoadCheckpoint
  <2>4. ckLoaded' # 0 => ckLoaded' \in ckWhole
    BY <2>2, <2>3
  <2> QED BY <2>2, <2>4 DEF CkInv, LoadedWasWhole
<1>4. CASE UNCHANGED << ckFile, ckWhole, ckLoaded >>
  BY <1>4 DEF CkInv, LoadedWasWhole
<1> QED BY <1>1, <1>2, <1>3, <1>4 DEF RlNext, rlVars, InsertEvent, InsertFails, LockAndRead, SaveInterrupted

-----------------------------------------------------------------------------
(* Runs.  The recursive functions of the model are runs of a step from a    *)
(* base; a run of any length exists, by induction on its length.            *)

LEMMA LeastNat ==
  ASSUME NEW S \in SUBSET Nat, S # {}
  PROVE  \E x \in S : \A y \in S : x <= y
<1>1. PICK x \in S : \A y \in S : <<y, x>> \notin OpToRel(<, Nat)
  BY NatLessThanWellFounded, WFMin
<1>2. \A y \in S : ~(y < x)
  BY <1>1 DEF OpToRel
<1> QED BY <1>2

LEMMA NatsAreIn ==
  ASSUME NEW A, 0 \in A, \A k \in Nat : k \in A => k + 1 \in A
  PROVE  Nat \subseteq A
<1> SUFFICES ASSUME Nat \ A # {} PROVE FALSE
  OBVIOUS
<1>1. PICK m \in Nat \ A : \A y \in Nat \ A : m <= y
  <2>1. Nat \ A \in SUBSET Nat
    OBVIOUS
  <2> QED BY <2>1, LeastNat
<1>2. m # 0 /\ m \in Nat
  BY <1>1
<1>3. m - 1 \in Nat /\ m - 1 \in A
  BY <1>1, <1>2
<1>4. m - 1 + 1 = m
  BY <1>2
<1> QED BY <1>1, <1>3, <1>4

\* The steps of the recursions: a level of a Merkle tree from the one below,
\* the index above, the hash that verify_merkle_proof makes of a step of the
\* proof, and the records that are shown after one more candidate.
RunStep(what, data, x, k) ==
    CASE what = "level" -> (IF Len(x) > 1 THEN ParentLevel(x) ELSE x)
      [] what = "index" -> (x + 1) \div 2
      [] what = "proof" -> (IF data[k].position = "left" THEN Combined(data[k].hash, x) ELSE Combined(x, data[k].hash))
      [] what = "shown" -> IF \/ Len(x) >= retLimit
                              \/ data[k] = "episodic" /\ Cardinality(Episodes(x)) >= MaxEpisodic
                           THEN x ELSE Append(x, data[k])

RunOf(what, proof, base, n, F) ==
    F = [k \in 0 .. n |-> IF k = 0 THEN base ELSE RunStep(what, proof, F[k - 1], k)]

LEMMA RunsExist ==
  ASSUME NEW n \in Nat, NEW what, NEW proof, NEW base
  PROVE  \E F : RunOf(what, proof, base, n, F)
<1> DEFINE A == {k \in Nat : \E F : RunOf(what, proof, base, k, F)}
<1>1. 0 \in A
  <2>1. PICK F : F = [k \in 0 .. 0 |-> base]
    OBVIOUS
  <2>2. F = [k \in 0 .. 0 |-> IF k = 0 THEN base ELSE RunStep(what, proof, F[k - 1], k)]
    BY <2>1
  <2>3. RunOf(what, proof, base, 0, F)
    BY <2>2 DEF RunOf
  <2> QED BY <2>3
<1>2. ASSUME NEW k \in Nat, k \in A
      PROVE  k + 1 \in A
  <2>1. PICK F : RunOf(what, proof, base, k, F)
    BY <1>2
  <2>2. /\ DOMAIN F = 0 .. k
        /\ \A i \in 0 .. k : F[i] = IF i = 0 THEN base ELSE RunStep(what, proof, F[i - 1], i)
    <3>1. PICK R : R = [i \in 0 .. k |-> IF i = 0 THEN base ELSE RunStep(what, proof, F[i - 1], i)]
      OBVIOUS
    <3>2. F = R
      BY <2>1, <3>1 DEF RunOf
    <3>3. DOMAIN R = 0 .. k /\ \A i \in 0 .. k : R[i] = IF i = 0 THEN base ELSE RunStep(what, proof, F[i - 1], i)
      BY <3>1
    <3> QED BY <3>2, <3>3
  <2>3. PICK last : last = RunStep(what, proof, F[k], k + 1)
    OBVIOUS
  <2>4. PICK G : G = [i \in 0 .. k + 1 |-> IF i = k + 1 THEN last ELSE F[i]]
    OBVIOUS
  <2>5. \A i \in 0 .. k : G[i] = F[i]
    BY <2>4
  <2>6. ASSUME NEW i \in 0 .. k + 1
        PROVE  G[i] = IF i = 0 THEN base ELSE RunStep(what, proof, G[i - 1], i)
    <3>1. CASE i = k + 1
      <4>1. G[i] = last /\ i # 0 /\ i - 1 = k /\ k \in 0 .. k
        BY <2>4, <3>1
      <4>2. G[i - 1] = F[k]
        BY <2>5, <4>1
      <4> QED BY <2>3, <3>1, <4>1, <4>2
    <3>2. CASE i \in 1 .. k
      <4>1. G[i] = F[i] /\ G[i - 1] = F[i - 1] /\ i # 0
        BY <2>5, <3>2
      <4> QED BY <2>2, <3>2, <4>1
    <3>3. CASE i = 0
      <4>1. G[i] = F[i] /\ i \in 0 .. k
        BY <2>5, <3>3
      <4> QED BY <2>2, <3>3, <4>1
    <3> QED BY <3>1, <3>2, <3>3
  <2>7. PICK H : H = [i \in 0 .. k + 1 |-> IF i = 0 THEN base ELSE RunStep(what, proof, G[i - 1], i)]
    OBVIOUS
  <2>8. G = H
    <3>1. \A i \in 0 .. k + 1 : H[i] = G[i]
      BY <2>6, <2>7
    <3> QED BY <2>4, <2>7, <3>1
  <2>9. RunOf(what, proof, base, k + 1, G)
    BY <2>7, <2>8 DEF RunOf
  <2> QED BY <2>9
<1>3. n \in A
  <2> HIDE DEF A
  <2> QED BY <1>1, <1>2, NatsAreIn
<1> QED BY <1>3

\* What CHOOSE finds is a run.
LEMMA RunSteps ==
  ASSUME NEW n \in Nat, NEW what, NEW proof, NEW base, NEW F, RunOf(what, proof, base, n, F)
  PROVE  F[0] = base /\ \A k \in 1 .. n : F[k] = RunStep(what, proof, F[k - 1], k)
<1>1. PICK R : R = [k \in 0 .. n |-> IF k = 0 THEN base ELSE RunStep(what, proof, F[k - 1], k)]
  OBVIOUS
<1>2. F = R
  BY <1>1 DEF RunOf
<1>3. R[0] = base /\ \A k \in 1 .. n : R[k] = RunStep(what, proof, F[k - 1], k)
  BY <1>1
<1> QED BY <1>2, <1>3

-----------------------------------------------------------------------------
(* The Merkle tree.                                                         *)

IsLevel(s, m) == m \in Nat \ {0} /\ s = [i \in 1 .. m |-> s[i]]

LEMMA LevelLength ==
  ASSUME NEW s, NEW m, IsLevel(s, m)
  PROVE  Len(s) = m /\ m \in Nat /\ m >= 1
<1>1. PICK X : X = {s[i] : i \in 1 .. m}
  OBVIOUS
<1>2. s \in [1 .. m -> X] /\ m \in Nat /\ m >= 1
  BY <1>1 DEF IsLevel
<1> QED BY <1>2

\* The parent of an element is the hash of the element and its proof step.
LEMMA ParentOf ==
  ASSUME NEW s, NEW m, IsLevel(s, m), m > 1, NEW x \in 1 .. m
  PROVE  /\ IsLevel(ParentLevel(s), (m + 1) \div 2) /\ (m + 1) \div 2 < m
         /\ (x + 1) \div 2 \in 1 .. ((m + 1) \div 2)
         /\ ParentLevel(s)[(x + 1) \div 2] =
              IF ProofStep(s, x).position = "left" THEN Combined(ProofStep(s, x).hash, s[x])
              ELSE Combined(s[x], ProofStep(s, x).hash)
<1>1. Len(s) = m /\ m \in Nat
  BY LevelLength
<1>2. PICK h : h = (m + 1) \div 2
  OBVIOUS
<1>3. h \in Nat /\ h >= 1 /\ h < m
  BY <1>1, <1>2
<1>4. ParentLevel(s) = [i \in 1 .. h |->
          Combined(s[2*i - 1], IF 2*i <= m THEN s[2*i] ELSE s[2*i - 1])]
  BY <1>1, <1>2 DEF ParentLevel
<1>5. IsLevel(ParentLevel(s), h)
  <2>1. PICK q : q = ParentLevel(s)
    OBVIOUS
  <2>2. PICK w : w = [i \in 1 .. h |-> q[i]]
    OBVIOUS
  <2>3. \A i \in 1 .. h : w[i] = q[i]
    BY <2>2
  <2>4. q = w
    BY <1>4, <2>1, <2>2, <2>3
  <2>5. q = [i \in 1 .. h |-> q[i]]
    BY ONLY <2>2, <2>4
  <2>6. IsLevel(q, h)
    BY ONLY <1>3, <2>5 DEF IsLevel
  <2> QED BY <2>1, <2>6
<1>6. PICK y : y = (x + 1) \div 2
  OBVIOUS
<1>7. y \in 1 .. h
  BY <1>1, <1>2, <1>6
<1>8. ParentLevel(s)[y] = Combined(s[2*y - 1], IF 2*y <= m THEN s[2*y] ELSE s[2*y - 1])
  BY <1>4, <1>7
<1>9. PICK step : step = ProofStep(s, x)
  OBVIOUS
<1>10. CASE x % 2 = 1
  <2>1. 2*y = x + 1 /\ 2*y - 1 = x
    BY <1>1, <1>6, <1>10
  <2>2. step.position = "right" /\ step.hash = IF x + 1 <= m THEN s[x + 1] ELSE s[x]
    BY <1>1, <1>9, <1>10 DEF ProofStep
  <2>3. ParentLevel(s)[y] = Combined(s[x], IF x + 1 <= m THEN s[x + 1] ELSE s[x])
    BY <1>8, <2>1
  <2>4. ParentLevel(s)[y] = IF step.position = "left" THEN Combined(step.hash, s[x]) ELSE Combined(s[x], step.hash)
    BY <2>2, <2>3
  <2> QED BY <1>2, <1>3, <1>5, <1>6, <1>7, <1>9, <2>4
<1>11. CASE x % 2 = 0
  <2>1. 2*y = x /\ 2*y - 1 = x - 1 /\ 2*y <= m
    BY <1>1, <1>6, <1>11
  <2>2. step.position = "left" /\ step.hash = s[x - 1]
    BY <1>1, <1>9, <1>11 DEF ProofStep
  <2>3. ParentLevel(s)[y] = Combined(s[x - 1], s[x])
    BY <1>8, <2>1
  <2>4. ParentLevel(s)[y] = IF step.position = "left" THEN Combined(step.hash, s[x]) ELSE Combined(s[x], step.hash)
    BY <2>2, <2>3
  <2> QED BY <1>2, <1>3, <1>5, <1>6, <1>7, <1>9, <2>4
<1> QED BY <1>1, <1>10, <1>11

LEMMA HashesDiffer ==
  ASSUME NEW h, NEW x, NEW y
  PROVE  /\ Combined(h, x) = Combined(h, y) => x = y
         /\ Combined(x, h) = Combined(y, h) => x = y
         /\ Hashed(x) = Hashed(y) => x = y
<1>1. ASSUME NEW a, NEW b, NEW c, NEW d, << "node", a, b >> = << "node", c, d >>
      PROVE  a = c /\ b = d
  BY <1>1
<1>2. << "leaf", x >> = << "leaf", y >> => x = y
  OBVIOUS
<1> QED BY <1>1, <1>2 DEF Combined, Hashed

Leaves(leaves) == [i \in 1 .. Len(leaves) |-> Hashed(leaves[i])]

LEMMA LevelsRun ==
  ASSUME NEW leaves, NEW n \in Nat, n = Len(leaves)
  PROVE  RunOf("level", << >>, Leaves(leaves), n, TreeLevels(leaves))
<1> DEFINE Rule(F) == F = [k \in 0 .. Len(leaves) |->
             IF k = 0 THEN [i \in 1 .. Len(leaves) |-> Hashed(leaves[i])]
             ELSE LET below == F[k-1] IN IF Len(below) > 1 THEN ParentLevel(below) ELSE below]
           K == CHOOSE F : Rule(F)
<1>1. TreeLevels(leaves) = K
  BY DEF TreeLevels
<1>2. \A F : Rule(F) <=> RunOf("level", << >>, Leaves(leaves), n, F)
  BY DEF RunOf, RunStep, Leaves
<1>3. \E F : Rule(F)
  <2>1. \E F : RunOf("level", << >>, Leaves(leaves), n, F)
    BY RunsExist
  <2> HIDE DEF Rule
  <2> QED BY <1>2, <2>1
<1>4. Rule(K)
  <2> HIDE DEF Rule
  <2> QED BY <1>3
<1>5. RunOf("level", << >>, Leaves(leaves), n, K)
  <2> HIDE DEF Rule, K
  <2> QED BY <1>2, <1>4
<1> HIDE DEF K
<1> QED BY <1>1, <1>5

\* A proof is made of the steps of some run of the index.
LEMMA ProofRun ==
  ASSUME NEW leaves, NEW n \in Nat, n = Len(leaves), NEW i
  PROVE  \E F : /\ RunOf("index", << >>, i, n, F)
                /\ MerkleProof(leaves, i) =
                     [k \in 1 .. Cardinality({k \in 0 .. n : Len(TreeLevels(leaves)[k]) > 1}) |->
                        ProofStep(TreeLevels(leaves)[k-1], F[k-1])]
<1> DEFINE Rule(F) == F = [k \in 0 .. Len(leaves) |-> IF k = 0 THEN i ELSE (F[k-1] + 1) \div 2]
           K == CHOOSE F : Rule(F)
<1>1. PICK lev : lev = TreeLevels(leaves)
  OBVIOUS
<1>2. MerkleProof(leaves, i) = [k \in 1 .. Cardinality({k \in 0 .. n : Len(lev[k]) > 1}) |-> ProofStep(lev[k-1], K[k-1])]
  BY <1>1 DEF MerkleProof
<1>3. \A F : Rule(F) <=> RunOf("index", << >>, i, n, F)
  BY DEF RunOf, RunStep
<1>4. \E F : Rule(F)
  <2>1. \E F : RunOf("index", << >>, i, n, F)
    BY RunsExist
  <2> HIDE DEF Rule
  <2> QED BY <1>3, <2>1
<1>5. Rule(K)
  <2> HIDE DEF Rule
  <2> QED BY <1>4
<1>6. RunOf("index", << >>, i, n, K)
  <2> HIDE DEF Rule, K
  <2> QED BY <1>3, <1>5
<1> HIDE DEF K
<1> QED BY <1>1, <1>2, <1>6

LEMMA VerifyRun ==
  ASSUME NEW proof, NEW K \in Nat, Len(proof) = K, NEW hash, NEW root
  PROVE  \E F : /\ RunOf("proof", proof, Hashed(hash), K, F)
                /\ VerifyMerkleProof(hash, proof, root) <=> F[K] = root
<1> DEFINE Rule(F) == F = [k \in 0 .. Len(proof) |->
             IF k = 0 THEN Hashed(hash)
             ELSE IF proof[k].position = "left" THEN Combined(proof[k].hash, F[k-1])
             ELSE Combined(F[k-1], proof[k].hash)]
           U == CHOOSE F : Rule(F)
<1>1. VerifyMerkleProof(hash, proof, root) <=> U[K] = root
  BY DEF VerifyMerkleProof
<1>2. \A F : Rule(F) <=> RunOf("proof", proof, Hashed(hash), K, F)
  BY DEF RunOf, RunStep
<1>3. \E F : Rule(F)
  <2>1. \E F : RunOf("proof", proof, Hashed(hash), K, F)
    BY RunsExist
  <2> HIDE DEF Rule
  <2> QED BY <1>2, <2>1
<1>4. Rule(U)
  <2> HIDE DEF Rule
  <2> QED BY <1>3
<1>5. RunOf("proof", proof, Hashed(hash), K, U)
  <2> HIDE DEF Rule, U
  <2> QED BY <1>2, <1>4
<1> HIDE DEF U
<1> QED BY <1>1, <1>5

\* The levels shrink to the root, and the index stays within its level.
LEMMA TreeShrinks ==
  ASSUME NEW leaves, NEW n \in Nat \ {0}, n = Len(leaves), NEW lev, NEW index, NEW i \in 1 .. n,
         RunOf("level", << >>, Leaves(leaves), n, lev), RunOf("index", << >>, i, n, index)
  PROVE  \A k \in 0 .. n : \E m \in Nat :
            IsLevel(lev[k], m) /\ index[k] \in 1 .. m /\ (m = 1 \/ m <= n - k)
<1>1. /\ lev[0] = Leaves(leaves) /\ \A k \in 1 .. n : lev[k] = RunStep("level", << >>, lev[k - 1], k)
      /\ index[0] = i /\ \A k \in 1 .. n : index[k] = RunStep("index", << >>, index[k - 1], k)
  BY RunSteps
<1> DEFINE Fits(k) == \E m \in Nat : IsLevel(lev[k], m) /\ index[k] \in 1 .. m /\ (m = 1 \/ m <= n - k)
           A == {k \in Nat : k <= n => Fits(k)}
<1>2. 0 \in A
  <2>1. PICK q : q = Leaves(leaves)
    OBVIOUS
  <2>2. q = [x \in 1 .. n |-> q[x]]
    BY <2>1 DEF Leaves
  <2>3. IsLevel(q, n)
    BY ONLY <2>2, n \in Nat \ {0} DEF IsLevel
  <2> QED BY <1>1, <2>1, <2>3
<1>3. ASSUME NEW k \in Nat, k \in A
      PROVE  k + 1 \in A
  <2> SUFFICES ASSUME k + 1 <= n PROVE Fits(k + 1)
    OBVIOUS
  <2>1. PICK m \in Nat : IsLevel(lev[k], m) /\ index[k] \in 1 .. m /\ (m = 1 \/ m <= n - k)
    BY <1>3
  <2>2. k + 1 \in 1 .. n /\ k + 1 - 1 = k
    BY <1>3
  <2>3. PICK s : s = lev[k]
    OBVIOUS
  <2>4. PICK x : x = index[k]
    OBVIOUS
  <2>5. lev[k + 1] = (IF Len(s) > 1 THEN ParentLevel(s) ELSE s) /\ index[k + 1] = (x + 1) \div 2
    BY <1>1, <2>2, <2>3, <2>4 DEF RunStep
  <2>6. Len(s) = m /\ m >= 1 /\ IsLevel(s, m) /\ x \in 1 .. m
    BY <2>1, <2>3, <2>4, LevelLength
  <2>7. CASE m = 1
    <3>1. lev[k + 1] = s /\ index[k + 1] \in 1 .. 1
      BY <2>5, <2>6, <2>7
    <3> QED BY <2>6, <2>7, <3>1
  <2>8. CASE m > 1
    <3>1. PICK h : h = (m + 1) \div 2
      OBVIOUS
    <3>2. IsLevel(ParentLevel(s), h) /\ h < m /\ index[k + 1] \in 1 .. h /\ lev[k + 1] = ParentLevel(s)
      BY <2>5, <2>6, <2>8, <3>1, ParentOf
    <3>3. h \in Nat /\ h <= n - (k + 1)
      BY <1>3, <2>1, <2>8, <3>1, <3>2
    <3> QED BY <3>2, <3>3
  <2> QED BY <2>1, <2>6, <2>7, <2>8
<1>4. \A k \in 0 .. n : k \in A
  <2> HIDE DEF A
  <2> QED BY <1>2, <1>3, NatsAreIn
<1> QED BY <1>4

\* A level of one element stays as it is, up to the root.
LEMMA RootRepeats ==
  ASSUME NEW leaves, NEW n \in Nat, NEW lev, RunOf("level", << >>, Leaves(leaves), n, lev),
         NEW K \in 0 .. n, ~(Len(lev[K]) > 1)
  PROVE  \A k \in K .. n : lev[k] = lev[K]
<1>1. \A k \in 1 .. n : lev[k] = RunStep("level", << >>, lev[k - 1], k)
  BY RunSteps
<1> DEFINE A == {j \in Nat : K + j <= n => lev[K + j] = lev[K]}
<1>2. 0 \in A
  OBVIOUS
<1>3. ASSUME NEW j \in Nat, j \in A
      PROVE  j + 1 \in A
  <2> SUFFICES ASSUME K + (j + 1) <= n PROVE lev[K + (j + 1)] = lev[K]
    OBVIOUS
  <2>1. PICK k : k = K + j
    OBVIOUS
  <2>2. lev[k] = lev[K] /\ k + 1 \in 1 .. n /\ k + 1 - 1 = k /\ K + (j + 1) = k + 1
    BY <1>3, <2>1
  <2>3. lev[k + 1] = IF Len(lev[k]) > 1 THEN ParentLevel(lev[k]) ELSE lev[k]
    <3>1. PICK s : s = lev[k]
      OBVIOUS
    <3>2. PICK p : p = k + 1
      OBVIOUS
    <3>3. p \in 1 .. n /\ p - 1 = k
      <4>1. k \in Nat
        BY <2>1
      <4> QED BY ONLY <2>2, <3>2, <4>1
    <3>4. lev[p] = RunStep("level", << >>, lev[p - 1], p)
      BY <1>1, <3>3
    <3>5. lev[p - 1] = s
      BY <3>1, <3>3
    <3> QED BY ONLY <3>1, <3>2, <3>4, <3>5 DEF RunStep
  <2>4. ~(Len(lev[k]) > 1)
    BY <2>2
  <2> QED BY <2>2, <2>3, <2>4
<1>4. Nat \subseteq A
  <2> HIDE DEF A
  <2> QED BY <1>2, <1>3, NatsAreIn
<1>5. ASSUME NEW k \in K .. n
      PROVE  lev[k] = lev[K]
  <2>1. k - K \in A /\ K + (k - K) = k
    BY <1>4
  <2> QED BY <2>1
<1> QED BY <1>5

\* For the hash of the record, the proof goes through its elements up to the
\* root; another hash takes another way at every level.
LEMMA ProofsVerify ==
  ASSUME NEW leaves, NEW n \in Nat \ {0}, n = Len(leaves), NEW i \in 1 .. n, NEW j \in 1 .. n
  PROVE  VerifyMerkleProof(leaves[j], MerkleProof(leaves, i), TreeRoot(leaves)) <=> leaves[i] = leaves[j]
<1>1. PICK lev : lev = TreeLevels(leaves)
  OBVIOUS
<1>2. RunOf("level", << >>, Leaves(leaves), n, lev)
  BY <1>1, LevelsRun
<1>3. PICK index : /\ RunOf("index", << >>, i, n, index)
                   /\ MerkleProof(leaves, i) = [k \in 1 .. Cardinality({k \in 0 .. n : Len(lev[k]) > 1}) |->
                                                  ProofStep(lev[k-1], index[k-1])]
  BY <1>1, ProofRun
<1>4. \A k \in 0 .. n : \E m \in Nat :
         IsLevel(lev[k], m) /\ index[k] \in 1 .. m /\ (m = 1 \/ m <= n - k)
  BY <1>2, <1>3, TreeShrinks
<1>5. \A k \in 0 .. n : Len(lev[k]) \in Nat /\ Len(lev[k]) >= 1 /\ IsLevel(lev[k], Len(lev[k])) /\ index[k] \in 1 .. Len(lev[k])
                        /\ (Len(lev[k]) = 1 \/ Len(lev[k]) <= n - k)
  <2> TAKE k \in 0 .. n
  <2>1. PICK m \in Nat : IsLevel(lev[k], m) /\ index[k] \in 1 .. m /\ (m = 1 \/ m <= n - k)
    BY <1>4
  <2>2. Len(lev[k]) = m /\ m >= 1
    BY <2>1, LevelLength
  <2> QED BY ONLY <2>1, <2>2
<1>6. PICK K \in 0 .. n : ~(Len(lev[K]) > 1) /\ \A k \in 0 .. n : ~(Len(lev[k]) > 1) => K <= k
  <2> DEFINE S == {k \in 0 .. n : ~(Len(lev[k]) > 1)}
  <2>1. S \in SUBSET Nat
    OBVIOUS
  <2>2. n \in S
    <3>1. PICK len : len = Len(lev[n])
      OBVIOUS
    <3>2. n \in 0 .. n /\ len \in Nat /\ (len = 1 \/ len <= n - n)
      BY <1>5, <3>1
    <3>3. ~(len > 1)
      BY ONLY <3>2, n \in Nat
    <3> QED BY <3>1, <3>2, <3>3
  <2>3. PICK x \in S : \A y \in S : x <= y
    BY <2>1, <2>2, LeastNat
  <2> QED BY <2>3
<1>7. \A k \in K .. n : lev[k] = lev[K]
  <2>1. n \in Nat
    OBVIOUS
  <2> QED BY <1>2, <1>6, <2>1, RootRepeats
<1>8. {k \in 0 .. n : Len(lev[k]) > 1} = 0 .. (K - 1)
  <2>1. \A k \in K .. n : ~(Len(lev[k]) > 1)
    BY <1>6, <1>7
  <2>2. \A k \in 0 .. (K - 1) : k \in 0 .. n /\ Len(lev[k]) > 1
    BY <1>6
  <2>3. \A k \in 0 .. n : k \in K .. n \/ k \in 0 .. (K - 1)
    OBVIOUS
  <2> QED BY <2>1, <2>2, <2>3
<1>9. Cardinality(0 .. (K - 1)) = K
  <2>1. PICK top \in Int : top = K - 1
    OBVIOUS
  <2>2. Cardinality(0 .. top) = IF 0 > top THEN 0 ELSE top - 0 + 1
    BY ONLY top \in Int, FS_Interval
  <2>3. K \in Nat
    OBVIOUS
  <2> QED BY ONLY <2>1, <2>2, <2>3
<1>10. PICK proof : proof = MerkleProof(leaves, i)
  OBVIOUS
<1>11. proof = [k \in 1 .. K |-> ProofStep(lev[k-1], index[k-1])]
  BY <1>3, <1>8, <1>9, <1>10
<1>12. Len(proof) = K /\ K \in Nat
  <2>1. PICK X : X = {ProofStep(lev[k-1], index[k-1]) : k \in 1 .. K}
    OBVIOUS
  <2>2. proof \in [1 .. K -> X]
    BY <1>11, <2>1
  <2> QED BY <2>2
<1>13. PICK root : root = lev[n][1]
  OBVIOUS
<1>14. TreeRoot(leaves) = root /\ root = lev[K][1]
  <2>1. leaves # << >>
    OBVIOUS
  <2>2. n \in K .. n
    OBVIOUS
  <2> QED BY <1>1, <1>7, <1>13, <2>1, <2>2 DEF TreeRoot
<1>15. PICK up : /\ RunOf("proof", proof, Hashed(leaves[i]), K, up)
                 /\ VerifyMerkleProof(leaves[i], proof, root) <=> up[K] = root
  BY <1>12, VerifyRun
<1>16. PICK way : /\ RunOf("proof", proof, Hashed(leaves[j]), K, way)
                  /\ VerifyMerkleProof(leaves[j], proof, root) <=> way[K] = root
  BY <1>12, VerifyRun
<1>17. /\ up[0] = Hashed(leaves[i]) /\ \A k \in 1 .. K : up[k] = RunStep("proof", proof, up[k - 1], k)
       /\ way[0] = Hashed(leaves[j]) /\ \A k \in 1 .. K : way[k] = RunStep("proof", proof, way[k - 1], k)
  BY <1>12, <1>15, <1>16, RunSteps
<1>18. /\ lev[0] = Leaves(leaves) /\ \A k \in 1 .. n : lev[k] = RunStep("level", << >>, lev[k - 1], k)
       /\ index[0] = i /\ \A k \in 1 .. n : index[k] = RunStep("index", << >>, index[k - 1], k)
  BY <1>2, <1>3, RunSteps
<1> DEFINE A == {k \in Nat : k <= K => up[k] = lev[k][index[k]] /\ (way[k] = up[k] <=> leaves[i] = leaves[j])}
<1>19. 0 \in A
  <2>1. lev[0][index[0]] = Hashed(leaves[i])
    BY <1>18 DEF Leaves
  <2> QED BY <1>17, <2>1, HashesDiffer
<1>20. ASSUME NEW k \in Nat, k \in A
       PROVE  k + 1 \in A
  <2> SUFFICES ASSUME k + 1 <= K
               PROVE  up[k + 1] = lev[k + 1][index[k + 1]] /\ (way[k + 1] = up[k + 1] <=> leaves[i] = leaves[j])
    OBVIOUS
  <2>1. up[k] = lev[k][index[k]] /\ (way[k] = up[k] <=> leaves[i] = leaves[j])
    BY <1>20
  <2>2. k + 1 \in 1 .. K /\ k + 1 \in 1 .. n /\ k + 1 - 1 = k /\ k \in 0 .. n /\ k \in 0 .. (K - 1)
    BY <1>6, <1>20
  <2>3. PICK s : s = lev[k]
    OBVIOUS
  <2>4. PICK x : x = index[k]
    OBVIOUS
  <2>5. PICK m : m = Len(s)
    OBVIOUS
  <2>6. m > 1 /\ IsLevel(s, m) /\ x \in 1 .. m
    BY <1>5, <1>8, <2>2, <2>3, <2>4, <2>5
  <2>7. PICK step : step = ProofStep(s, x)
    OBVIOUS
  <2>8. proof[k + 1] = step
    BY <1>11, <2>2, <2>3, <2>4, <2>7
  <2>9. lev[k + 1] = ParentLevel(s) /\ index[k + 1] = (x + 1) \div 2
    BY <1>18, <2>2, <2>3, <2>4, <2>5, <2>6 DEF RunStep
  <2>10. lev[k + 1][index[k + 1]] = IF step.position = "left" THEN Combined(step.hash, s[x]) ELSE Combined(s[x], step.hash)
    BY <2>6, <2>7, <2>9, ParentOf
  <2>11. /\ up[k + 1] = IF step.position = "left" THEN Combined(step.hash, up[k]) ELSE Combined(up[k], step.hash)
         /\ way[k + 1] = IF step.position = "left" THEN Combined(step.hash, way[k]) ELSE Combined(way[k], step.hash)
    BY <1>17, <2>2, <2>8 DEF RunStep
  <2>12. up[k + 1] = lev[k + 1][index[k + 1]]
    BY <2>1, <2>3, <2>4, <2>10, <2>11
  <2>13. way[k + 1] = up[k + 1] <=> way[k] = up[k]
    BY <2>11, HashesDiffer
  <2> QED BY <2>1, <2>12, <2>13
<1>21. K \in A
  <2> HIDE DEF A
  <2> QED BY <1>12, <1>19, <1>20, NatsAreIn
<1>22. up[K] = lev[K][index[K]] /\ (way[K] = up[K] <=> leaves[i] = leaves[j])
  BY <1>21
<1>23. index[K] = 1
  <2>1. PICK len : len = Len(lev[K])
    OBVIOUS
  <2>2. len \in Nat /\ index[K] \in 1 .. len /\ ~(len > 1)
    BY <1>5, <1>6, <2>1
  <2> QED BY ONLY <2>2
<1>24. up[K] = root
  BY <1>14, <1>22, <1>23
<1> QED BY <1>10, <1>14, <1>16, <1>22, <1>24

\* The hashes of a ledger are all different.
HashInv ==
    /\ ledgerHashes \in Seq(Nat)
    /\ \A i \in 1 .. Len(ledgerHashes) : ledgerHashes[i] = i

LEMMA HashesStart ==
  ASSUME MerkleInit
  PROVE  HashInv
BY DEF MerkleInit, HashInv

LEMMA HashesKept ==
  ASSUME HashInv, AddLeaf \/ UNCHANGED ledgerHashes
  PROVE  HashInv'
<1>1. CASE AddLeaf
  <2>1. PICK h \in Seq(Nat) : h = ledgerHashes
    BY DEF HashInv
  <2>2. PICK e \in Nat : e = Len(h) + 1
    OBVIOUS
  <2>3. PICK q : q = Append(h, e)
    OBVIOUS
  <2>4. ledgerHashes' = q
    BY <1>1, <2>1, <2>2, <2>3 DEF AddLeaf
  <2>5. q \in Seq(Nat) /\ Len(q) = e /\ q[e] = e /\ \A i \in 1 .. Len(h) : q[i] = h[i]
    BY <2>2, <2>3
  <2>6. \A i \in 1 .. Len(q) : q[i] = i
    BY <2>1, <2>2, <2>5 DEF HashInv
  <2> QED BY <2>4, <2>5, <2>6 DEF HashInv
<1>2. CASE UNCHANGED ledgerHashes
  BY <1>2 DEF HashInv
<1> QED BY <1>1, <1>2

LEMMA ProofsAreSound ==
  ASSUME HashInv
  PROVE  InclusionProofsSound
<1>1. PICK leaves \in Seq(Nat) : leaves = ledgerHashes
  BY DEF HashInv
<1>2. PICK n : n = Len(leaves)
  OBVIOUS
<1>3. ASSUME NEW i \in 1 .. n, NEW j \in 1 .. n
      PROVE  VerifyMerkleProof(leaves[j], MerkleProof(leaves, i), TreeRoot(leaves)) <=> i = j
  <2>1. n \in Nat \ {0}
    BY <1>2
  <2>2. VerifyMerkleProof(leaves[j], MerkleProof(leaves, i), TreeRoot(leaves)) <=> leaves[i] = leaves[j]
    BY <1>2, <2>1, ProofsVerify
  <2>3. leaves[i] = i /\ leaves[j] = j
    BY <1>1, <1>2 DEF HashInv
  <2> QED BY <2>2, <2>3
<1> QED BY <1>1, <1>2, <1>3 DEF InclusionProofsSound

-----------------------------------------------------------------------------
(* The records of a context.                                                *)

LEMMA KindsCounted ==
  ASSUME NEW s \in Seq(MemoryDomains)
  PROVE  /\ Cardinality(Episodes(s)) \in Nat /\ Cardinality(Facts(s)) \in Nat
         /\ IsFiniteSet(Episodes(s)) /\ IsFiniteSet(Facts(s))
         /\ Cardinality(Episodes(s)) + Cardinality(Facts(s)) = Len(s)
<1>1. PICK n \in Nat : n = Len(s)
  OBVIOUS
<1>2. DOMAIN s = 1 .. n /\ IsFiniteSet(1 .. n) /\ Cardinality(1 .. n) = n
  <2>1. DOMAIN s = 1 .. n
    BY <1>1
  <2>2. IsFiniteSet(1 .. n) /\ Cardinality(1 .. n) = IF 1 > n THEN 0 ELSE n - 1 + 1
    <3>1. 1 \in Int /\ n \in Int
      OBVIOUS
    <3> QED BY <3>1, FS_Interval
  <2>3. (IF 1 > n THEN 0 ELSE n - 1 + 1) = n
    OBVIOUS
  <2> QED BY <2>1, <2>2, <2>3
<1>3. Episodes(s) \subseteq 1 .. n /\ Facts(s) = (1 .. n) \ Episodes(s) /\ (1 .. n) \cap Episodes(s) = Episodes(s)
  BY <1>2 DEF Episodes, Facts
<1>4. IsFiniteSet(Episodes(s)) /\ Cardinality(Episodes(s)) \in Nat
  BY <1>2, <1>3, FS_Subset, FS_CardinalityType
<1>5. IsFiniteSet(Facts(s)) /\ Cardinality(Facts(s)) = Cardinality(1 .. n) - Cardinality((1 .. n) \cap Episodes(s))
  BY <1>2, <1>3, FS_Difference
<1>6. Cardinality(Facts(s)) \in Nat
  BY <1>5, FS_CardinalityType
<1>7. Cardinality(Facts(s)) = n - Cardinality(Episodes(s))
  BY <1>2, <1>3, <1>5
<1>8. Cardinality(Episodes(s)) + Cardinality(Facts(s)) = n
  BY <1>4, <1>6, <1>7
<1> QED BY <1>1, <1>4, <1>5, <1>6, <1>8

LEMMA KindsAppended ==
  ASSUME NEW s \in Seq(MemoryDomains), NEW x \in MemoryDomains
  PROVE  /\ Append(s, x) \in Seq(MemoryDomains) /\ Len(Append(s, x)) = Len(s) + 1
         /\ x = "episodic" => /\ Cardinality(Episodes(Append(s, x))) = Cardinality(Episodes(s)) + 1
                              /\ Cardinality(Facts(Append(s, x))) = Cardinality(Facts(s))
         /\ x # "episodic" => /\ Cardinality(Episodes(Append(s, x))) = Cardinality(Episodes(s))
                              /\ Cardinality(Facts(Append(s, x))) = Cardinality(Facts(s)) + 1
<1>1. PICK n \in Nat : n = Len(s)
  OBVIOUS
<1>2. PICK q : q = Append(s, x)
  OBVIOUS
<1>3. /\ q \in Seq(MemoryDomains) /\ Len(q) = n + 1 /\ DOMAIN q = 1 .. (n + 1) /\ DOMAIN s = 1 .. n
      /\ q[n + 1] = x /\ \A i \in 1 .. n : q[i] = s[i]
  BY <1>1, <1>2
<1>4. Episodes(q) = (IF x = "episodic" THEN Episodes(s) \cup {n + 1} ELSE Episodes(s))
  BY <1>3 DEF Episodes
<1>5. n + 1 \notin Episodes(s)
  BY <1>3 DEF Episodes
<1>6. x = "episodic" => Cardinality(Episodes(q)) = Cardinality(Episodes(s)) + 1
  BY <1>4, <1>5, KindsCounted, FS_AddElement
<1>7. x # "episodic" => Cardinality(Episodes(q)) = Cardinality(Episodes(s))
  BY <1>4
<1>8. /\ Cardinality(Episodes(s)) + Cardinality(Facts(s)) = n
      /\ Cardinality(Episodes(q)) + Cardinality(Facts(q)) = n + 1
      /\ Cardinality(Episodes(s)) \in Nat /\ Cardinality(Facts(s)) \in Nat /\ Cardinality(Facts(q)) \in Nat
      /\ Cardinality(Episodes(q)) \in Nat
  BY <1>1, <1>3, KindsCounted
<1> QED BY <1>1, <1>2, <1>3, <1>6, <1>7, <1>8

FactsTo(s, n) == {i \in 1 .. n : s[i] # "episodic"}

LEMMA FactsCounted ==
  ASSUME NEW s, NEW n \in Nat \ {0}
  PROVE  /\ Cardinality(FactsTo(s, n - 1)) \in Nat
         /\ Cardinality(FactsTo(s, n)) = Cardinality(FactsTo(s, n - 1)) + (IF s[n] = "episodic" THEN 0 ELSE 1)
<1>1. FactsTo(s, n - 1) \subseteq 1 .. n /\ IsFiniteSet(1 .. n)
  BY FS_Interval DEF FactsTo
<1>2. IsFiniteSet(FactsTo(s, n - 1)) /\ Cardinality(FactsTo(s, n - 1)) \in Nat
  BY <1>1, FS_Subset, FS_CardinalityType
<1>3. n \notin FactsTo(s, n - 1)
  BY DEF FactsTo
<1>4. CASE s[n] = "episodic"
  <2>1. FactsTo(s, n) = FactsTo(s, n - 1)
    BY <1>4 DEF FactsTo
  <2> QED BY <1>2, <1>4, <2>1
<1>5. CASE s[n] # "episodic"
  <2>1. FactsTo(s, n) = FactsTo(s, n - 1) \cup {n}
    BY <1>5 DEF FactsTo
  <2>2. Cardinality(FactsTo(s, n - 1) \cup {n}) = Cardinality(FactsTo(s, n - 1)) + 1
    BY <1>2, <1>3, FS_AddElement
  <2>3. (IF s[n] = "episodic" THEN 0 ELSE 1) = 1
    BY <1>5
  <2>4. Cardinality(FactsTo(s, n)) = Cardinality(FactsTo(s, n - 1)) + 1
    BY <2>1, <2>2
  <2> QED BY <1>2, <2>3, <2>4
<1> QED BY <1>2, <1>4, <1>5

\* What is shown is a run over the candidates.
LEMMA ShownRun ==
  ASSUME NEW scored, NEW n \in Nat, n = Len(scored)
  PROVE  \E F : RunOf("shown", scored, << >>, n, F) /\ Shown(scored) = F[n]
<1> DEFINE Rule(F) == F = [k \in 0 .. Len(scored) |->
             IF k = 0 THEN << >>
             ELSE IF \/ Len(F[k-1]) >= retLimit
                     \/ scored[k] = "episodic" /\ Cardinality(Episodes(F[k-1])) >= MaxEpisodic
                  THEN F[k-1] ELSE Append(F[k-1], scored[k])]
           K == CHOOSE F : Rule(F)
<1>1. Shown(scored) = K[n]
  BY DEF Shown
<1>2. \A F : Rule(F) <=> RunOf("shown", scored, << >>, n, F)
  BY DEF RunOf, RunStep
<1>3. \E F : Rule(F)
  <2>1. \E F : RunOf("shown", scored, << >>, n, F)
    BY RunsExist
  <2> HIDE DEF Rule
  <2> QED BY <1>2, <2>1
<1>4. Rule(K)
  <2> HIDE DEF Rule
  <2> QED BY <1>3
<1>5. RunOf("shown", scored, << >>, n, K)
  <2> HIDE DEF Rule, K
  <2> QED BY <1>2, <1>4
<1> HIDE DEF K
<1> QED BY <1>1, <1>5

\* Up to the limit every fact is kept, and episodes up to their cap.
LEMMA ShownKeeps ==
  ASSUME retLimit \in Nat \ {0}, NEW scored \in Seq(MemoryDomains)
  PROVE  LET s == Shown(scored)
         IN  /\ s \in Seq(MemoryDomains) /\ Len(s) <= retLimit /\ Cardinality(Episodes(s)) <= MaxEpisodic
             /\ Len(s) = retLimit \/ Cardinality(Facts(s)) = Cardinality(FactsTo(scored, Len(scored)))
<1>1. PICK n \in Nat : n = Len(scored)
  OBVIOUS
<1>2. PICK F : RunOf("shown", scored, << >>, n, F) /\ Shown(scored) = F[n]
  BY <1>1, ShownRun
<1>3. F[0] = << >> /\ \A k \in 1 .. n : F[k] = RunStep("shown", scored, F[k - 1], k)
  BY <1>2, RunSteps
<1>4. PICK limit \in Nat \ {0} : limit = retLimit
  OBVIOUS
<1>5. PICK cap : cap = MaxEpisodic
  OBVIOUS
<1>6. cap \in Nat \ {0}
  BY <1>4, <1>5 DEF MaxEpisodic, Larger
<1> DEFINE Fits(k) == /\ F[k] \in Seq(MemoryDomains) /\ Len(F[k]) <= limit /\ Cardinality(Episodes(F[k])) <= cap
                      /\ Len(F[k]) = limit \/ Cardinality(Facts(F[k])) = Cardinality(FactsTo(scored, k))
           A == {k \in Nat : k <= n => Fits(k)}
<1>7. 0 \in A
  <2>1. PICK none : none = << >>
    OBVIOUS
  <2>2. none \in Seq(MemoryDomains) /\ Len(none) = 0 /\ Episodes(none) = {} /\ Facts(none) = {}
    BY <2>1 DEF Episodes, Facts
  <2>3. FactsTo(scored, 0) = {}
    BY DEF FactsTo
  <2>4. Cardinality(Episodes(none)) = 0 /\ Cardinality(Facts(none)) = Cardinality(FactsTo(scored, 0))
    BY <2>2, <2>3, FS_EmptySet
  <2>5. F[0] = none
    BY <1>3, <2>1
  <2>6. 0 <= limit /\ 0 <= cap
    BY <1>4, <1>6
  <2>7. Fits(0)
    <3>1. Len(none) <= limit /\ Cardinality(Episodes(none)) <= cap
      BY <2>2, <2>4, <2>6
    <3>2. none \in Seq(MemoryDomains)
      BY <2>2
    <3> QED BY ONLY <2>4, <2>5, <3>1, <3>2
  <2> HIDE DEF Fits
  <2> QED BY <2>7
<1>8. ASSUME NEW k \in Nat, k \in A
      PROVE  k + 1 \in A
  <2> SUFFICES ASSUME k + 1 <= n PROVE Fits(k + 1)
    OBVIOUS
  <2>1. Fits(k)
    BY <1>8
  <2>2. PICK m \in 1 .. n : m = k + 1
    OBVIOUS
  <2>3. PICK old : old = F[k]
    OBVIOUS
  <2>4. PICK x : x = scored[m]
    OBVIOUS
  <2>5. m - 1 = k /\ m \in Nat \ {0}
    BY <2>2
  <2>6. F[m] = RunStep("shown", scored, F[m - 1], m)
    BY <1>3
  <2>7. F[m - 1] = old
    BY <2>3, <2>5
  <2>8. F[m] = IF Len(old) >= limit \/ (x = "episodic" /\ Cardinality(Episodes(old)) >= cap)
               THEN old ELSE Append(old, x)
    BY ONLY <1>4, <1>5, <2>4, <2>6, <2>7 DEF RunStep
  <2>9. /\ old \in Seq(MemoryDomains) /\ Len(old) <= limit /\ Cardinality(Episodes(old)) <= cap
        /\ Len(old) = limit \/ Cardinality(Facts(old)) = Cardinality(FactsTo(scored, k))
    BY <2>1, <2>3
  <2>10. PICK len \in Nat : len = Len(old)
    BY <2>9
  <2>11. PICK e \in Nat : e = Cardinality(Episodes(old))
    BY <2>9, KindsCounted
  <2>12. PICK f \in Nat : f = Cardinality(Facts(old))
    BY <2>9, KindsCounted
  <2>13. PICK before \in Nat : before = Cardinality(FactsTo(scored, k))
    BY <2>5, FactsCounted
  <2>14. Cardinality(FactsTo(scored, m)) = before + (IF x = "episodic" THEN 0 ELSE 1)
    BY <2>4, <2>5, <2>13, FactsCounted
  <2>15. len <= limit /\ e <= cap /\ (len = limit \/ f = before)
    BY <2>9, <2>10, <2>11, <2>12, <2>13
  <2>16. CASE len >= limit
    <3>1. F[m] = old /\ len = limit
      BY <2>8, <2>10, <2>15, <2>16
    <3> QED BY <1>4, <2>2, <2>9, <2>10, <3>1
  <2>17. CASE len < limit /\ x = "episodic" /\ e >= cap
    <3>1. F[m] = old
      BY <2>8, <2>11, <2>17
    <3>2. Cardinality(FactsTo(scored, m)) = before /\ f = before
      BY <2>14, <2>15, <2>17
    <3>3. Cardinality(Facts(old)) = Cardinality(FactsTo(scored, m))
      BY <2>12, <3>2
    <3> QED BY <2>2, <2>9, <3>1, <3>3
  <2>18. CASE len < limit /\ ~(x = "episodic" /\ e >= cap)
    <3>1. F[m] = Append(old, x)
      BY <2>8, <2>10, <2>11, <2>18
    <3>2. x \in MemoryDomains
      BY <1>1, <2>4
    <3>3. PICK q : q = Append(old, x)
      OBVIOUS
    <3>4. /\ q \in Seq(MemoryDomains) /\ Len(q) = len + 1
          /\ x = "episodic" => Cardinality(Episodes(q)) = e + 1 /\ Cardinality(Facts(q)) = f
          /\ x # "episodic" => Cardinality(Episodes(q)) = e /\ Cardinality(Facts(q)) = f + 1
      BY <2>9, <2>10, <2>11, <2>12, <3>2, <3>3, KindsAppended
    <3>5. Len(q) <= limit /\ Cardinality(Episodes(q)) <= cap
      BY <1>6, <2>15, <2>18, <3>4
    <3>6. Cardinality(Facts(q)) = Cardinality(FactsTo(scored, m))
      BY <2>14, <2>15, <2>18, <3>4
    <3> QED BY <2>2, <3>1, <3>3, <3>4, <3>5, <3>6
  <2> QED BY <2>10, <2>16, <2>17, <2>18
<1>9. n \in A
  <2> HIDE DEF A
  <2> QED BY <1>7, <1>8, NatsAreIn
<1>10. Fits(n)
  BY <1>9
<1> QED BY <1>1, <1>2, <1>4, <1>5, <1>10

RetInv == retFound \in Seq(MemoryDomains) /\ retLimit \in ResultLimits

LEMMA RetStarts ==
  ASSUME RetInit
  PROVE  RetInv
BY DEF RetInit, RetInv

LEMMA RetStepKeeps ==
  ASSUME RetInv, RetNext \/ UNCHANGED retVars
  PROVE  RetInv'
BY DEF RetInv, RetNext, Match, retVars

\* A scoring orders the candidates: it has as many facts as they have.
LEMMA ContextsAreDiverse ==
  ASSUME RetInv
  PROVE  ContextIsDiverse
<1>1. PICK limit \in Nat \ {0} : limit = retLimit
  BY LongTermMemoryAssumption DEF RetInv
<1>2. PICK cand : cand = Candidates
  OBVIOUS
<1>3. PICK n \in Nat : n = Smaller(limit, Len(retFound))
  BY <1>1 DEF RetInv, Smaller
<1>4. cand \in Seq(MemoryDomains) /\ Len(cand) = n /\ DOMAIN cand = 1 .. n
  BY <1>1, <1>2, <1>3 DEF Candidates, RetInv, Smaller
<1>5. SUFFICES ASSUME NEW scored \in Scorings
               PROVE  /\ Len(Shown(scored)) <= retLimit
                      /\ Cardinality(Facts(Shown(scored))) >= Smaller(retLimit - MaxEpisodic, Cardinality(Facts(cand)))
                      /\ Cardinality(Episodes(Shown(scored))) <= Larger(1, retLimit - 2)
  BY <1>2 DEF ContextIsDiverse
<1>6. PICK p \in [1 .. n -> 1 .. n] : /\ \A i, j \in 1 .. n : p[i] = p[j] => i = j
                                      /\ scored = [i \in 1 .. n |-> cand[p[i]]]
  <2>1. PICK D : D = 1 .. n
    OBVIOUS
  <2>2. scored \in {[i \in DOMAIN cand |-> cand[q[i]]] :
                      q \in {f \in [DOMAIN cand -> DOMAIN cand] : \A i, j \in DOMAIN f : f[i] = f[j] => i = j}}
    BY <1>2, <1>5 DEF Scorings
  <2>3. PICK q \in {f \in [D -> D] : \A i, j \in DOMAIN f : f[i] = f[j] => i = j} : scored = [i \in D |-> cand[q[i]]]
    BY ONLY <1>4, <2>1, <2>2
  <2>4. q \in [D -> D] /\ \A i, j \in D : q[i] = q[j] => i = j
    BY ONLY <2>3
  <2> QED BY <2>1, <2>3, <2>4
<1>7. scored \in Seq(MemoryDomains) /\ Len(scored) = n
  <2>1. scored \in [1 .. n -> MemoryDomains]
    BY <1>4, <1>6
  <2> QED BY <2>1
<1>8. Cardinality(FactsTo(scored, n)) = Cardinality(Facts(scored))
  <2>1. FactsTo(scored, n) = Facts(scored)
    BY <1>7 DEF FactsTo, Facts, Episodes
  <2> QED BY <2>1
<1>9. Cardinality(Facts(scored)) >= Cardinality(Facts(cand))
  <2>1. PICK inj : inj = [i \in Episodes(scored) |-> p[i]]
    OBVIOUS
  <2>2. Episodes(scored) \subseteq 1 .. n /\ \A i \in Episodes(scored) : p[i] \in Episodes(cand)
    BY <1>4, <1>6, <1>7 DEF Episodes
  <2>3. inj \in Injection(Episodes(scored), Episodes(cand))
    <3>1. PICK S : S = Episodes(scored)
      OBVIOUS
    <3>2. PICK T : T = Episodes(cand)
      OBVIOUS
    <3>3. inj = [i \in S |-> p[i]] /\ \A i \in S : p[i] \in T
      BY ONLY <2>1, <2>2, <3>1, <3>2
    <3>4. inj \in [S -> T] /\ DOMAIN inj = S /\ \A i \in S : inj[i] = p[i]
      BY ONLY <3>3
    <3>5. \A i, j \in S : inj[i] = inj[j] => i = j
      BY ONLY <1>6, <2>2, <3>1, <3>4
    <3>6. inj \in Injection(S, T)
      BY ONLY <3>4, <3>5 DEF Injection, IsInjective
    <3> QED BY <3>1, <3>2, <3>6
  <2>4. Cardinality(Episodes(scored)) <= Cardinality(Episodes(cand))
    BY <1>4, <2>3, KindsCounted, FS_Injection
  <2>5. /\ Cardinality(Episodes(scored)) + Cardinality(Facts(scored)) = n
        /\ Cardinality(Episodes(cand)) + Cardinality(Facts(cand)) = n
        /\ Cardinality(Facts(scored)) \in Nat /\ Cardinality(Facts(cand)) \in Nat
        /\ Cardinality(Episodes(scored)) \in Nat /\ Cardinality(Episodes(cand)) \in Nat
    BY <1>4, <1>7, KindsCounted
  <2> QED BY <2>4, <2>5
<1>10. PICK s : s = Shown(scored)
  OBVIOUS
<1>11. PICK cap : cap = MaxEpisodic
  OBVIOUS
<1>12. /\ s \in Seq(MemoryDomains) /\ Len(s) <= limit /\ Cardinality(Episodes(s)) <= cap
       /\ Len(s) = limit \/ Cardinality(Facts(s)) = Cardinality(Facts(scored))
  BY <1>1, <1>7, <1>8, <1>10, <1>11, ShownKeeps
<1>13. cap = Larger(1, limit - 2) /\ cap \in Nat
  BY <1>1, <1>11 DEF MaxEpisodic, Larger
<1>14. /\ Cardinality(Episodes(s)) \in Nat /\ Cardinality(Facts(s)) \in Nat
       /\ Cardinality(Episodes(s)) + Cardinality(Facts(s)) = Len(s)
       /\ Cardinality(Facts(cand)) \in Nat /\ Cardinality(Facts(scored)) \in Nat
  BY <1>4, <1>7, <1>12, KindsCounted
<1>15. Cardinality(Facts(s)) >= Smaller(limit - cap, Cardinality(Facts(cand)))
  <2>1. PICK c \in Nat : c = Cardinality(Facts(cand))
    BY <1>14
  <2>2. PICK f \in Nat : f = Cardinality(Facts(s))
    BY <1>14
  <2>3. f >= limit - cap \/ f >= c
    BY <1>9, <1>12, <1>13, <1>14, <2>1, <2>2
  <2>4. f >= Smaller(limit - cap, c)
    BY <1>13, <2>3 DEF Smaller
  <2> QED BY <2>1, <2>2, <2>4
<1> QED BY <1>1, <1>10, <1>11, <1>12, <1>13, <1>15

-----------------------------------------------------------------------------
(* Long-term memory.  Every statement of a store reads one database and     *)
(* writes at most that one, so each step is a case of Moved.                *)

Whole(x) ==
    x = [pc |-> x.pc, record |-> x.record, prune |-> x.prune, fallback |-> x.fallback,
         cache |-> x.cache, overtaken |-> x.overtaken]

FoundBy(db, s) == {r \in db : r.session = s}

Answers(x, db) == \A s \in MemorySessions : x.cache[s] # << >> => x.cache[s] = << FoundBy(db, s) >>

\* What a store remembers: a cache that is not behind answers as its database.
StoreOK(x, remote, local) ==
    /\ Whole(x)
    /\ x.pc \in {"idle", "write", "prune"}
    /\ x.pc = "write" => x.record \in MemoryRecords
    /\ x.prune \subseteq MemoryRecords
    /\ x.fallback \in BOOLEAN /\ x.overtaken \in BOOLEAN
    /\ DOMAIN x.cache = MemorySessions
    /\ ~x.overtaken /\ x.pc # "prune" => Answers(x, IF x.fallback THEN local ELSE remote)

OneRowPerKey(db) == \A r, q \in db : SessionKey(r) = SessionKey(q) => r = q

\* A row that keeps what session s was told of key k.
Keeps(r, s, k) == r.key = k /\ (ltmBackend \in Keyed => r.session = s)

LtmInv ==
    /\ LtmTypeOK
    /\ DOMAIN ltmStores = Stores
    /\ \A st \in Stores : StoreOK(ltmStores[st], ltmRemote, ltmLocal)
    /\ \A a \in ltmAcked : \E r \in ltmRemote \cup ltmLocal : Keeps(r, a.session, a.key)

LEMMA BecameParts ==
  ASSUME LtmInv, NEW st \in Stores, NEW new, NEW cleared \in BOOLEAN, NEW changed \in BOOLEAN,
         Whole(new), Became(st, new, cleared, changed)
  PROVE  /\ DOMAIN ltmStores' = Stores
         /\ ltmStores'[st] = [pc |-> new.pc, record |-> new.record, prune |-> new.prune, fallback |-> OnLocal(st),
                              cache |-> IF cleared THEN [s \in MemorySessions |-> << >>] ELSE new.cache,
                              overtaken |-> ~cleared /\ (new.overtaken \/ OnLocal(st) # ltmStores[st].fallback)]
         /\ \A t \in Stores \ {st} : ltmStores'[t] = [ltmStores[t] EXCEPT !.overtaken = @ \/ changed]
<1>1. PICK own : own = [new EXCEPT !.fallback = OnLocal(st),
                                   !.cache = IF cleared THEN [s \in MemorySessions |-> << >>] ELSE @,
                                   !.overtaken = ~cleared /\ (@ \/ OnLocal(st) # ltmStores[st].fallback)]
  OBVIOUS
<1>2. ltmStores' = [t \in Stores |-> IF t = st THEN own ELSE [ltmStores[t] EXCEPT !.overtaken = @ \/ changed]]
  BY <1>1 DEF Became
<1>3. own = [pc |-> new.pc, record |-> new.record, prune |-> new.prune, fallback |-> OnLocal(st),
             cache |-> IF cleared THEN [s \in MemorySessions |-> << >>] ELSE new.cache,
             overtaken |-> ~cleared /\ (new.overtaken \/ OnLocal(st) # ltmStores[st].fallback)]
  <2>1. PICK cache : cache = IF cleared THEN [s \in MemorySessions |-> << >>] ELSE new.cache
    OBVIOUS
  <2>2. PICK late : late = (~cleared /\ (new.overtaken \/ OnLocal(st) # ltmStores[st].fallback))
    OBVIOUS
  <2>3. own = [new EXCEPT !.fallback = OnLocal(st), !.cache = cache, !.overtaken = late]
    BY <1>1, <2>1, <2>2
  <2>4. new = [pc |-> new.pc, record |-> new.record, prune |-> new.prune, fallback |-> new.fallback,
               cache |-> new.cache, overtaken |-> new.overtaken]
    BY DEF Whole
  <2>5. own = [pc |-> new.pc, record |-> new.record, prune |-> new.prune, fallback |-> OnLocal(st),
               cache |-> cache, overtaken |-> late]
    BY <2>3, <2>4
  <2> QED BY <2>1, <2>2, <2>5
<1> QED BY <1>2, <1>3

\* The others' caches fall behind when rows change, and only then.
LEMMA OthersKept ==
  ASSUME NEW x, NEW y, NEW remote, NEW local, NEW newRemote, NEW newLocal, NEW changed \in BOOLEAN,
         StoreOK(x, remote, local), y = [x EXCEPT !.overtaken = @ \/ changed],
         changed \/ (newRemote = remote /\ newLocal = local)
  PROVE  StoreOK(y, newRemote, newLocal)
<1>1. PICK late : late = (x.overtaken \/ changed)
  OBVIOUS
<1>2. /\ x = [pc |-> x.pc, record |-> x.record, prune |-> x.prune, fallback |-> x.fallback,
              cache |-> x.cache, overtaken |-> x.overtaken]
      /\ y = [x EXCEPT !.overtaken = late]
  BY <1>1 DEF StoreOK, Whole
<1>3. y = [pc |-> x.pc, record |-> x.record, prune |-> x.prune, fallback |-> x.fallback,
           cache |-> x.cache, overtaken |-> late]
  BY <1>2
<1>4. /\ y.pc = x.pc /\ y.record = x.record /\ y.prune = x.prune /\ y.fallback = x.fallback
      /\ y.cache = x.cache /\ y.overtaken = late /\ Whole(y)
  <2>1. /\ y.pc = x.pc /\ y.record = x.record /\ y.prune = x.prune /\ y.fallback = x.fallback
        /\ y.cache = x.cache /\ y.overtaken = late
    BY ONLY <1>3
  <2>2. Whole(y)
    BY ONLY <1>3, <2>1 DEF Whole
  <2> QED BY <2>1, <2>2
<1>5. late \in BOOLEAN /\ (~late => ~x.overtaken /\ ~changed)
  BY <1>1 DEF StoreOK
<1>6. ~y.overtaken /\ y.pc # "prune" => Answers(y, IF y.fallback THEN newLocal ELSE newRemote)
  BY <1>4, <1>5 DEF StoreOK, Answers
<1> QED BY <1>4, <1>5, <1>6 DEF StoreOK

\* A statement of store st on its database: db is what it leaves there.
LEMMA LtmMoved ==
  ASSUME LtmInv, NEW st \in Stores, NEW new, NEW cleared \in BOOLEAN, NEW changed \in BOOLEAN, NEW db,
         Whole(new), new.pc \in {"idle", "write", "prune"}, new.pc = "write" => new.record \in MemoryRecords,
         new.prune \subseteq MemoryRecords, new.overtaken \in BOOLEAN, DOMAIN new.cache = MemorySessions,
         cleared \/ new.pc = "prune" \/ new.overtaken \/ OnLocal(st) # ltmStores[st].fallback \/ Answers(new, db),
         Became(st, new, cleared, changed), WriteDb(st, db), db \subseteq MemoryRecords,
         ltmBackend \in Keyed => OneRowPerKey(db), changed \/ db = Db(st), UNCHANGED << ltmBackend, ltmUp >>,
         \A a \in ltmAcked' : \E r \in ltmRemote' \cup ltmLocal' : Keeps(r, a.session, a.key)
  PROVE  LtmInv'
<1>1. /\ ltmBackend \in Backends /\ ltmUp \in BOOLEAN
      /\ ltmRemote \subseteq MemoryRecords /\ ltmLocal \subseteq MemoryRecords
      /\ ltmBackend \notin WithFallback => ltmLocal = {} /\ \A t \in Stores : ~ltmStores[t].fallback
      /\ ltmBackend \in Keyed => OneRowPerKey(ltmRemote) /\ OneRowPerKey(ltmLocal)
  BY DEF LtmInv, LtmTypeOK, OneRowPerKey
<1>2. PICK on : on = OnLocal(st)
  OBVIOUS
<1>3. on \in BOOLEAN /\ (ltmBackend \notin WithFallback => ~on)
  <2>1. ltmStores[st].fallback \in BOOLEAN
    BY DEF LtmInv, StoreOK
  <2> QED BY <1>1, <1>2, <2>1 DEF OnLocal
<1>4. \/ on /\ ltmLocal' = db /\ ltmRemote' = ltmRemote /\ Db(st) = ltmLocal
      \/ ~on /\ ltmRemote' = db /\ ltmLocal' = ltmLocal /\ Db(st) = ltmRemote
  BY <1>2, <1>3 DEF WriteDb, Db
<1>5. PICK own : own = ltmStores'[st]
  OBVIOUS
<1>6. PICK cache : cache = IF cleared THEN [s \in MemorySessions |-> << >>] ELSE new.cache
  OBVIOUS
<1>7. PICK late : late = (~cleared /\ (new.overtaken \/ OnLocal(st) # ltmStores[st].fallback))
  OBVIOUS
<1>8. /\ DOMAIN ltmStores' = Stores
      /\ own = [pc |-> new.pc, record |-> new.record, prune |-> new.prune, fallback |-> on,
                cache |-> cache, overtaken |-> late]
      /\ \A t \in Stores \ {st} : ltmStores'[t] = [ltmStores[t] EXCEPT !.overtaken = @ \/ changed]
  BY <1>2, <1>5, <1>6, <1>7, BecameParts
<1>9. /\ own.pc = new.pc /\ own.record = new.record /\ own.prune = new.prune /\ own.fallback = on
      /\ own.cache = cache /\ own.overtaken = late
  BY ONLY <1>8
<1>10. Whole(own)
  BY ONLY <1>8, <1>9 DEF Whole
<1>11. late \in BOOLEAN /\ DOMAIN cache = MemorySessions
  BY <1>6, <1>7
<1>12. ASSUME ~late, new.pc # "prune"
       PROVE  Answers(own, IF on THEN ltmLocal' ELSE ltmRemote')
  <2>1. (IF on THEN ltmLocal' ELSE ltmRemote') = db
    BY <1>3, <1>4
  <2>2. CASE cleared
    BY <1>6, <1>9, <2>1, <2>2 DEF Answers
  <2>3. CASE ~cleared
    <3>1. Answers(new, db) /\ cache = new.cache
      BY <1>6, <1>7, <1>12, <2>3
    <3> QED BY <1>9, <2>1, <3>1 DEF Answers
  <2> QED BY <2>2, <2>3
<1>13. StoreOK(own, ltmRemote', ltmLocal')
  BY <1>3, <1>9, <1>10, <1>11, <1>12 DEF StoreOK
<1>14. ASSUME NEW t \in Stores \ {st}
       PROVE  StoreOK(ltmStores'[t], ltmRemote', ltmLocal')
  <2>1. StoreOK(ltmStores[t], ltmRemote, ltmLocal)
    BY DEF LtmInv
  <2>2. changed \/ (ltmRemote' = ltmRemote /\ ltmLocal' = ltmLocal)
    BY <1>4
  <2> QED BY <1>8, <2>1, <2>2, OthersKept
<1>15. \A t \in Stores : StoreOK(ltmStores'[t], ltmRemote', ltmLocal')
  BY <1>5, <1>13, <1>14
<1>16. ASSUME ltmBackend \notin WithFallback
       PROVE  ltmLocal' = {} /\ \A t \in Stores : ~ltmStores'[t].fallback
  <2>1. ltmLocal' = {} /\ ~own.fallback
    BY <1>1, <1>3, <1>4, <1>9, <1>16
  <2>2. ASSUME NEW t \in Stores \ {st}
        PROVE  ~ltmStores'[t].fallback
    <3>1. PICK x : x = ltmStores[t]
      OBVIOUS
    <3>2. Whole(x) /\ ltmStores'[t] = [x EXCEPT !.overtaken = @ \/ changed] /\ ~x.fallback
      BY <1>1, <1>8, <1>16, <3>1 DEF LtmInv, StoreOK
    <3>3. ltmStores'[t].fallback = x.fallback
      BY ONLY <3>2 DEF Whole
    <3> QED BY <3>2, <3>3
  <2> QED BY <1>5, <2>1, <2>2
<1>17. ltmRemote' \subseteq MemoryRecords /\ ltmLocal' \subseteq MemoryRecords
       /\ (ltmBackend \in Keyed => OneRowPerKey(ltmRemote') /\ OneRowPerKey(ltmLocal'))
  BY <1>1, <1>4
<1>18. LtmTypeOK'
  <2>1. \A t \in Stores : ltmStores'[t].pc \in {"idle", "write", "prune"}
    BY <1>15 DEF StoreOK
  <2> QED BY <1>1, <1>16, <1>17, <2>1 DEF LtmTypeOK, OneRowPerKey, SessionKey
<1> QED BY <1>8, <1>15, <1>18 DEF LtmInv, StoreOK, Answers, Keeps, Whole, FoundBy

\* What a store that is not in the middle of a prune can rely on.
LEMMA StoreReads ==
  ASSUME LtmInv, NEW st \in Stores
  PROVE  /\ StoreOK(ltmStores[st], ltmRemote, ltmLocal)
         /\ Db(st) \subseteq MemoryRecords /\ Db(st) \subseteq ltmRemote \cup ltmLocal
         /\ ltmBackend \in Keyed => OneRowPerKey(Db(st))
         /\ \/ ltmStores[st].overtaken \/ ltmStores[st].pc = "prune"
            \/ OnLocal(st) # ltmStores[st].fallback
            \/ Answers(ltmStores[st], Db(st))
         /\ UNCHANGED << ltmRemote, ltmLocal >> => WriteDb(st, Db(st))
         /\ OnLocal(st) \in BOOLEAN
<1>1. StoreOK(ltmStores[st], ltmRemote, ltmLocal)
  BY DEF LtmInv
<1>2. /\ ltmRemote \subseteq MemoryRecords /\ ltmLocal \subseteq MemoryRecords
      /\ ltmBackend \in Keyed => OneRowPerKey(ltmRemote) /\ OneRowPerKey(ltmLocal)
  BY DEF LtmInv, LtmTypeOK, OneRowPerKey
<1>3. Db(st) = (IF OnLocal(st) THEN ltmLocal ELSE ltmRemote) /\ OnLocal(st) \in BOOLEAN
  BY <1>1 DEF Db, OnLocal, StoreOK
<1>4. \/ ltmStores[st].overtaken \/ ltmStores[st].pc = "prune"
      \/ OnLocal(st) # ltmStores[st].fallback
      \/ Answers(ltmStores[st], Db(st))
  BY <1>1, <1>3 DEF StoreOK
<1>5. UNCHANGED << ltmRemote, ltmLocal >> => WriteDb(st, Db(st))
  BY <1>3 DEF WriteDb
<1> QED BY <1>1, <1>2, <1>3, <1>4, <1>5

\* A statement that only changes what the store is about to do.
LEMMA StorePrepares ==
  ASSUME LtmInv, NEW st \in Stores, NEW new, Whole(new), ltmStores[st].pc = "idle",
         new.pc \in {"idle", "write", "prune"}, new.pc = "write" => new.record \in MemoryRecords,
         new.prune \subseteq MemoryRecords, new.cache = ltmStores[st].cache,
         new.overtaken = ltmStores[st].overtaken, Became(st, new, FALSE, FALSE),
         UNCHANGED << ltmBackend, ltmUp, ltmRemote, ltmLocal >>,
         \A a \in ltmAcked' : \E r \in ltmRemote \cup ltmLocal : Keeps(r, a.session, a.key)
  PROVE  LtmInv'
<1>1. PICK db : db = Db(st)
  OBVIOUS
<1>2. StoreOK(ltmStores[st], ltmRemote, ltmLocal)
  BY StoreReads
<1>3. new.overtaken \in BOOLEAN /\ DOMAIN new.cache = MemorySessions
  BY <1>2 DEF StoreOK
<1>4. new.overtaken \/ OnLocal(st) # ltmStores[st].fallback \/ Answers(new, db)
  <2>1. ltmStores[st].overtaken \/ OnLocal(st) # ltmStores[st].fallback \/ Answers(ltmStores[st], db)
    BY <1>1, StoreReads
  <2> QED BY <2>1 DEF Answers
<1>5. db \subseteq MemoryRecords /\ (ltmBackend \in Keyed => OneRowPerKey(db)) /\ WriteDb(st, db)
  BY <1>1, StoreReads
<1>6. \A a \in ltmAcked' : \E r \in ltmRemote' \cup ltmLocal' : Keeps(r, a.session, a.key)
  OBVIOUS
<1> QED BY <1>1, <1>3, <1>4, <1>5, <1>6, LtmMoved

LEMMA RecordsKept ==
  ASSUME LtmInv, NEW st \in Stores, NEW s \in MemorySessions, NEW text \in Texts, NEW kind \in RecordKinds,
         AddRecord(st, s, text, kind[1], kind[2])
  PROVE  LtmInv'
<1>1. PICK x : x = ltmStores[st]
  OBVIOUS
<1>2. PICK rec : rec = RecordOf(s, text, kind[1], kind[2])
  OBVIOUS
<1>3. rec \in MemoryRecords
  <2>1. kind[1] \in {"episodic", "preference"} /\ kind[2] \in BOOLEAN
    BY LongTermMemoryAssumption
  <2> QED BY <1>2, <2>1 DEF RecordOf, MemoryRecords, MemoryDomains
<1>4. PICK found : found = RowsAt(Db(st), s, text, OnLocal(st))
  OBVIOUS
<1>5. x.pc = "idle" /\ UNCHANGED << ltmBackend, ltmUp, ltmRemote, ltmLocal >>
  BY <1>1 DEF AddRecord, LtmIdle
<1>6. StoreOK(x, ltmRemote, ltmLocal) /\ Db(st) \subseteq ltmRemote \cup ltmLocal
  BY <1>1, StoreReads
<1>7. Whole(x) /\ x.prune \subseteq MemoryRecords
  BY <1>6 DEF StoreOK
<1>8. \A a \in ltmAcked : \E r \in ltmRemote \cup ltmLocal : Keeps(r, a.session, a.key)
  BY DEF LtmInv
<1>9. CASE found # {}
  <2>1. Became(st, x, FALSE, FALSE) /\ ltmAcked' = ltmAcked \cup {Acked(r.session, text) : r \in found}
    BY <1>1, <1>4, <1>9 DEF AddRecord
  <2>2. \A r \in found : r \in ltmRemote \cup ltmLocal /\ r.key = text
    BY <1>4, <1>6 DEF RowsAt
  <2>3. ASSUME NEW a \in ltmAcked'
        PROVE  \E r \in ltmRemote \cup ltmLocal : Keeps(r, a.session, a.key)
    <3>1. CASE a \in ltmAcked
      BY <1>8, <3>1
    <3>2. CASE a \notin ltmAcked
      <4>1. PICK r \in found : a = Acked(r.session, text)
        BY <2>1, <3>2
      <4>2. a.session = r.session /\ a.key = text
        BY <4>1 DEF Acked
      <4> QED BY <2>2, <4>2 DEF Keeps
    <3> QED BY <3>1, <3>2
  <2> QED BY <1>1, <1>5, <1>7, <2>1, <2>3, StorePrepares
<1>10. CASE found = {}
  <2>1. PICK new : new = [x EXCEPT !.pc = "write", !.record = rec]
    OBVIOUS
  <2>2. Became(st, new, FALSE, FALSE) /\ ltmAcked' = ltmAcked
    BY <1>1, <1>2, <1>4, <1>10, <2>1 DEF AddRecord
  <2>3. /\ new = [pc |-> "write", record |-> rec, prune |-> x.prune, fallback |-> x.fallback,
                  cache |-> x.cache, overtaken |-> x.overtaken]
    BY <1>7, <2>1 DEF Whole
  <2>4. /\ new.pc = "write" /\ new.record = rec /\ new.prune = x.prune /\ new.cache = x.cache
        /\ new.overtaken = x.overtaken /\ new.fallback = x.fallback
    BY ONLY <2>3
  <2>5. Whole(new)
    BY ONLY <2>3, <2>4 DEF Whole
  <2> QED BY <1>1, <1>3, <1>5, <1>7, <1>8, <2>2, <2>4, <2>5, StorePrepares
<1> QED BY <1>9, <1>10

LEMMA RecordRead ==
  ASSUME LtmInv, NEW st \in Stores, NEW s \in MemorySessions, NEW k \in Texts, NEW text \in Texts,
         NEW kind \in RecordKinds, UpdateRecord(st, s, k, text, kind[1], kind[2])
  PROVE  LtmInv'
<1>1. PICK x : x = ltmStores[st]
  OBVIOUS
<1>2. PICK rec : rec = [RecordOf(s, text, kind[1], kind[2]) EXCEPT !.key = k]
  OBVIOUS
<1>3. rec \in MemoryRecords
  <2>1. kind[1] \in {"episodic", "preference"} /\ kind[2] \in BOOLEAN
    BY LongTermMemoryAssumption
  <2> QED BY <1>2, <2>1 DEF RecordOf, MemoryRecords, MemoryDomains
<1>4. PICK new : new = [x EXCEPT !.pc = "write", !.record = rec]
  OBVIOUS
<1>5. /\ x.pc = "idle" /\ UNCHANGED << ltmBackend, ltmUp, ltmRemote, ltmLocal >>
      /\ Became(st, new, FALSE, FALSE) /\ ltmAcked' = ltmAcked
  BY <1>1, <1>2, <1>4 DEF UpdateRecord, LtmIdle
<1>6. Whole(x) /\ x.prune \subseteq MemoryRecords
  BY <1>1, StoreReads DEF StoreOK
<1>7. new = [pc |-> "write", record |-> rec, prune |-> x.prune, fallback |-> x.fallback,
             cache |-> x.cache, overtaken |-> x.overtaken]
  BY <1>4, <1>6 DEF Whole
<1>8. /\ new.pc = "write" /\ new.record = rec /\ new.prune = x.prune /\ new.cache = x.cache
      /\ new.overtaken = x.overtaken /\ new.fallback = x.fallback
  BY ONLY <1>7
<1>9. Whole(new)
  BY ONLY <1>7, <1>8 DEF Whole
<1>10. \A a \in ltmAcked' : \E r \in ltmRemote \cup ltmLocal : Keeps(r, a.session, a.key)
  BY <1>5 DEF LtmInv
<1> QED BY <1>1, <1>3, <1>5, <1>6, <1>8, <1>9, <1>10, StorePrepares

LEMMA PruneRead ==
  ASSUME LtmInv, NEW st \in Stores, PruneStart(st)
  PROVE  LtmInv'
<1>1. PICK x : x = ltmStores[st]
  OBVIOUS
<1>2. PICK expired : expired = {r \in Db(st) : r.expired}
  OBVIOUS
<1>3. PICK new : new = [x EXCEPT !.pc = "prune", !.prune = expired]
  OBVIOUS
<1>4. /\ x.pc = "idle" /\ UNCHANGED << ltmBackend, ltmUp, ltmRemote, ltmLocal >>
      /\ Became(st, new, FALSE, FALSE) /\ ltmAcked' = ltmAcked
  BY <1>1, <1>2, <1>3 DEF PruneStart, LtmIdle
<1>5. Whole(x) /\ expired \subseteq MemoryRecords
  BY <1>1, <1>2, StoreReads DEF StoreOK
<1>6. new = [pc |-> "prune", record |-> x.record, prune |-> expired, fallback |-> x.fallback,
             cache |-> x.cache, overtaken |-> x.overtaken]
  BY <1>3, <1>5 DEF Whole
<1>7. /\ new.pc = "prune" /\ new.record = x.record /\ new.prune = expired /\ new.cache = x.cache
      /\ new.overtaken = x.overtaken /\ new.fallback = x.fallback
  BY ONLY <1>6
<1>8. Whole(new)
  BY ONLY <1>6, <1>7 DEF Whole
<1>9. \A a \in ltmAcked' : \E r \in ltmRemote \cup ltmLocal : Keeps(r, a.session, a.key)
  BY <1>4 DEF LtmInv
<1> QED BY <1>1, <1>4, <1>5, <1>7, <1>8, <1>9, StorePrepares

\* A delete takes nothing that somebody still counts on.
LEMMA DeleteForgets ==
  ASSUME LtmInv, NEW st \in Stores, NEW s, NEW k, NEW rows, rows = RowsAt(Db(st), s, k, OnLocal(st)),
         WriteDb(st, Db(st) \ rows), ltmAcked' = ltmAcked \ Forget(s, k, rows), UNCHANGED ltmBackend,
         NEW a \in ltmAcked'
  PROVE  \E r \in ltmRemote' \cup ltmLocal' : Keeps(r, a.session, a.key)
<1>1. PICK r \in ltmRemote \cup ltmLocal : Keeps(r, a.session, a.key)
  BY DEF LtmInv
<1>2. ltmRemote \cup ltmLocal \subseteq ltmRemote' \cup ltmLocal' \cup rows
  BY StoreReads DEF WriteDb, Db
<1>3. CASE r \notin rows
  BY <1>1, <1>2, <1>3
<1>4. CASE r \in rows
  <2>1. r.key = k /\ (r.session = s \/ ltmBackend = "file")
    BY <1>4 DEF RowsAt
  <2>2. a.key = k /\ (ltmBackend \in Keyed => a.session = s)
    BY <1>1, <2>1 DEF Keeps, Keyed
  <2>3. a \in Forget(s, k, rows)
    BY <1>4, <2>2 DEF Forget
  <2> QED BY <2>3
<1> QED BY <1>3, <1>4

LEMMA RowsDeleted ==
  ASSUME LtmInv, NEW st \in Stores, NEW s, NEW k, NEW rows, rows = RowsAt(Db(st), s, k, OnLocal(st)),
         NEW cleared \in BOOLEAN, NEW new, WriteDb(st, Db(st) \ rows), UNCHANGED << ltmBackend, ltmUp >>,
         ltmAcked' = ltmAcked \ Forget(s, k, rows), Became(st, new, cleared, rows # {}),
         Whole(new), new.pc \in {"idle", "prune"}, new.prune \subseteq MemoryRecords,
         new.cache = ltmStores[st].cache, new.overtaken = ltmStores[st].overtaken,
         cleared \/ new.pc = "prune" \/ (rows = {} /\ ltmStores[st].pc = "idle")
  PROVE  LtmInv'
<1>1. PICK db : db = Db(st) \ rows
  OBVIOUS
<1>2. StoreOK(ltmStores[st], ltmRemote, ltmLocal)
  BY StoreReads
<1>3. new.overtaken \in BOOLEAN /\ DOMAIN new.cache = MemorySessions
  BY <1>2 DEF StoreOK
<1>4. cleared \/ new.pc = "prune" \/ new.overtaken \/ OnLocal(st) # ltmStores[st].fallback \/ Answers(new, db)
  <2>1. CASE rows = {} /\ ltmStores[st].pc = "idle"
    <3>1. db = Db(st)
      BY <1>1, <2>1
    <3>2. ltmStores[st].overtaken \/ OnLocal(st) # ltmStores[st].fallback \/ Answers(ltmStores[st], db)
      BY <2>1, <3>1, StoreReads
    <3> QED BY <3>2 DEF Answers
  <2> QED BY <2>1
<1>5. db \subseteq MemoryRecords /\ (ltmBackend \in Keyed => OneRowPerKey(db)) /\ WriteDb(st, db)
  BY <1>1, StoreReads DEF OneRowPerKey
<1>6. \A a \in ltmAcked' : \E r \in ltmRemote' \cup ltmLocal' : Keeps(r, a.session, a.key)
  BY DeleteForgets
<1>7. PICK changed \in BOOLEAN : changed = (rows # {})
  OBVIOUS
<1>8. Became(st, new, cleared, changed) /\ (changed \/ db = Db(st))
  BY <1>1, <1>7
<1>9. new.pc \in {"idle", "write", "prune"} /\ new.pc # "write"
  OBVIOUS
<1> QED BY <1>3, <1>4, <1>5, <1>6, <1>8, <1>9, LtmMoved

LEMMA MemoryDeleted ==
  ASSUME LtmInv, NEW st \in Stores, NEW s \in MemorySessions, NEW k \in Texts, DeleteRecord(st, s, k)
  PROVE  LtmInv'
<1>1. PICK x : x = ltmStores[st]
  OBVIOUS
<1>2. PICK rows : rows = RowsAt(Db(st), s, k, OnLocal(st))
  OBVIOUS
<1>3. PICK cleared \in BOOLEAN : cleared = (rows # {})
  OBVIOUS
<1>4. /\ x.pc = "idle" /\ WriteDb(st, Db(st) \ rows) /\ Became(st, x, cleared, rows # {})
      /\ ltmAcked' = ltmAcked \ Forget(s, k, rows) /\ UNCHANGED << ltmBackend, ltmUp >>
  BY <1>1, <1>2, <1>3 DEF DeleteRecord, Deleted, LtmIdle
<1>5. Whole(x) /\ x.prune \subseteq MemoryRecords
  BY <1>1, StoreReads DEF StoreOK
<1>6. cleared \/ x.pc = "prune" \/ (rows = {} /\ ltmStores[st].pc = "idle")
  BY <1>1, <1>3, <1>4
<1> QED BY <1>1, <1>2, <1>4, <1>5, <1>6, RowsDeleted

LEMMA OnePruned ==
  ASSUME LtmInv, NEW st \in Stores, PruneOne(st)
  PROVE  LtmInv'
<1>1. PICK x : x = ltmStores[st]
  OBVIOUS
<1>2. Whole(x) /\ x.prune \subseteq MemoryRecords
  BY <1>1, StoreReads DEF StoreOK
<1>3. PICK r \in x.prune :
        LET rows == RowsAt(Db(st), r.session, r.key, OnLocal(st))
            left == x.prune \ {r}
        IN  /\ x.pc = "prune"
            /\ WriteDb(st, Db(st) \ rows)
            /\ Became(st, [x EXCEPT !.pc = IF left = {} THEN "idle" ELSE "prune", !.prune = left],
                      left = {}, rows # {})
            /\ ltmAcked' = ltmAcked \ Forget(r.session, r.key, rows)
            /\ UNCHANGED <<ltmBackend, ltmUp, ltmChanges>>
  BY <1>1 DEF PruneOne
<1>4. PICK rows : rows = RowsAt(Db(st), r.session, r.key, OnLocal(st))
  OBVIOUS
<1>5. PICK left : left = x.prune \ {r}
  OBVIOUS
<1>6. PICK cleared \in BOOLEAN : cleared = (left = {})
  OBVIOUS
<1>7. PICK pc : pc = IF left = {} THEN "idle" ELSE "prune"
  OBVIOUS
<1>8. PICK new : new = [x EXCEPT !.pc = pc, !.prune = left]
  OBVIOUS
<1>9. /\ WriteDb(st, Db(st) \ rows) /\ Became(st, new, cleared, rows # {})
      /\ ltmAcked' = ltmAcked \ Forget(r.session, r.key, rows) /\ UNCHANGED << ltmBackend, ltmUp >>
  BY <1>3, <1>4, <1>5, <1>6, <1>7, <1>8
<1>10. new = [pc |-> pc, record |-> x.record, prune |-> left, fallback |-> x.fallback,
              cache |-> x.cache, overtaken |-> x.overtaken]
  BY <1>2, <1>8 DEF Whole
<1>11. /\ new.pc = pc /\ new.record = x.record /\ new.prune = left /\ new.cache = x.cache
       /\ new.overtaken = x.overtaken /\ new.fallback = x.fallback
  BY ONLY <1>10
<1>12. Whole(new)
  BY ONLY <1>10, <1>11 DEF Whole
<1>13. pc \in {"idle", "prune"} /\ (cleared \/ pc = "prune") /\ left \subseteq MemoryRecords
  BY <1>2, <1>5, <1>6, <1>7
<1> QED BY <1>1, <1>4, <1>9, <1>11, <1>12, <1>13, RowsDeleted

LEMMA RecordWritten ==
  ASSUME LtmInv, NEW st \in Stores, WriteRecord(st)
  PROVE  LtmInv'
<1>1. PICK x : x = ltmStores[st]
  OBVIOUS
<1>2. PICK rec : rec = x.record
  OBVIOUS
<1>3. PICK on : on = OnLocal(st)
  OBVIOUS
<1>4. PICK old : old = Db(st)
  OBVIOUS
<1>5. PICK db : db = Upsert(old, rec, on)
  OBVIOUS
<1>6. PICK new : new = [x EXCEPT !.pc = "idle", !.record = NoRecord]
  OBVIOUS
<1>7. /\ x.pc = "write" /\ WriteDb(st, db) /\ Became(st, new, TRUE, TRUE)
      /\ ltmAcked' = ltmAcked \cup {Acked(rec.session, rec.key)} /\ UNCHANGED << ltmBackend, ltmUp >>
  BY <1>1, <1>2, <1>3, <1>4, <1>5, <1>6 DEF WriteRecord
<1>8. /\ Whole(x) /\ x.prune \subseteq MemoryRecords /\ rec \in MemoryRecords
      /\ x.overtaken \in BOOLEAN /\ DOMAIN x.cache = MemorySessions
  BY <1>1, <1>2, <1>7, StoreReads DEF StoreOK
<1>9. new = [pc |-> "idle", record |-> NoRecord, prune |-> x.prune, fallback |-> x.fallback,
             cache |-> x.cache, overtaken |-> x.overtaken]
  BY <1>6, <1>8 DEF Whole
<1>10. /\ new.pc = "idle" /\ new.record = NoRecord /\ new.prune = x.prune /\ new.cache = x.cache
       /\ new.overtaken = x.overtaken /\ new.fallback = x.fallback
  BY ONLY <1>9
<1>11. Whole(new)
  BY ONLY <1>9, <1>10 DEF Whole
<1>12. /\ old \subseteq MemoryRecords /\ (ltmBackend \in Keyed => OneRowPerKey(old))
       /\ ltmBackend \in Backends /\ on \in BOOLEAN
  BY <1>3, <1>4, StoreReads DEF LtmInv, LtmTypeOK
<1>13. db = {q \in old : ~Replaces(rec, q, on)} \cup {rec}
  BY <1>5 DEF Upsert
<1>14. db \subseteq MemoryRecords
  BY <1>8, <1>12, <1>13
<1>15. ASSUME ltmBackend \in Keyed
       PROVE  OneRowPerKey(db)
  <2>1. \A q \in old : SessionKey(rec) = SessionKey(q) => Replaces(rec, q, on)
    BY <1>15 DEF Replaces
  <2>2. \A q \in db : q = rec \/ (q \in old /\ SessionKey(rec) # SessionKey(q))
    BY <1>13, <2>1
  <2> QED BY <1>12, <1>15, <2>2 DEF OneRowPerKey
<1>16. ASSUME NEW q \in old, Replaces(rec, q, on)
       PROVE  rec.key = q.key /\ (ltmBackend \in Keyed => rec.session = q.session)
  <2>1. CASE on \/ ltmBackend \in Keyed
    <3>1. SessionKey(rec) = SessionKey(q)
      BY <1>12, <1>16, <2>1 DEF Replaces, Keyed
    <3> QED BY <3>1 DEF SessionKey
  <2>2. CASE ~on /\ ltmBackend = "chroma"
    BY <1>16, <2>2 DEF Replaces, Keyed
  <2>3. CASE ~on /\ ltmBackend = "file"
    BY <1>16, <2>3 DEF Replaces, Keyed, SameFile
  <2> QED BY <1>12, <2>1, <2>2, <2>3 DEF Backends
<1>17. rec \in ltmRemote' \cup ltmLocal'
  BY <1>7, <1>13 DEF WriteDb
<1>18. ltmRemote \cup ltmLocal \subseteq ltmRemote' \cup ltmLocal' \cup {q \in old : Replaces(rec, q, on)}
  BY <1>3, <1>4, <1>7, <1>12, <1>13 DEF WriteDb, Db
<1>19. ASSUME NEW a \in ltmAcked'
       PROVE  \E r \in ltmRemote' \cup ltmLocal' : Keeps(r, a.session, a.key)
  <2>1. CASE a \in ltmAcked
    <3>1. PICK r \in ltmRemote \cup ltmLocal : Keeps(r, a.session, a.key)
      BY <2>1 DEF LtmInv
    <3>2. CASE r \in old /\ Replaces(rec, r, on)
      <4>1. Keeps(rec, a.session, a.key)
        BY <1>16, <3>1, <3>2 DEF Keeps
      <4> QED BY <1>17, <4>1
    <3>3. CASE ~(r \in old /\ Replaces(rec, r, on))
      BY <1>18, <3>1, <3>3
    <3> QED BY <3>2, <3>3
  <2>2. CASE a \notin ltmAcked
    <3>1. a.session = rec.session /\ a.key = rec.key
      BY <1>7, <2>2 DEF Acked
    <3> QED BY <1>17, <3>1 DEF Keeps
  <2> QED BY <2>1, <2>2
<1> QED BY <1>7, <1>8, <1>10, <1>11, <1>14, <1>15, <1>19, LtmMoved

LEMMA QueryAnswered ==
  ASSUME LtmInv, NEW st \in Stores, NEW s \in MemorySessions, Query(st, s)
  PROVE  LtmInv'
<1>1. PICK x : x = ltmStores[st]
  OBVIOUS
<1>2. PICK db : db = Db(st)
  OBVIOUS
<1>3. PICK answer : answer = << FoundBy(db, s) >>
  OBVIOUS
<1>4. PICK late : late = (x.overtaken /\ \E q \in MemorySessions \ {s} : x.cache[q] # << >>)
  OBVIOUS
<1>5. PICK cache : cache = [x.cache EXCEPT ![s] = answer]
  OBVIOUS
<1>6. PICK new : new = [x EXCEPT !.cache = cache, !.overtaken = late]
  OBVIOUS
<1>7. /\ Whole(x) /\ x.prune \subseteq MemoryRecords /\ x.overtaken \in BOOLEAN /\ DOMAIN x.cache = MemorySessions
      /\ x.pc = "idle" /\ x.cache[s] = << >>
  BY <1>1, StoreReads DEF StoreOK, Query
<1>8. /\ Became(st, new, FALSE, FALSE) /\ ltmAcked' = ltmAcked
      /\ UNCHANGED << ltmBackend, ltmUp, ltmRemote, ltmLocal >>
  <2>1. Became(st, [x EXCEPT !.cache[s] = << {r \in Db(st) : r.session = s} >>,
                             !.overtaken = @ /\ \E q \in MemorySessions \ {s} : x.cache[q] # << >>], FALSE, FALSE)
    BY <1>1 DEF Query
  <2>2. << {r \in Db(st) : r.session = s} >> = answer
    BY <1>2, <1>3 DEF FoundBy
  <2>3. [x EXCEPT !.cache[s] = << {r \in Db(st) : r.session = s} >>,
                  !.overtaken = @ /\ \E q \in MemorySessions \ {s} : x.cache[q] # << >>]
          = new
    BY <1>4, <1>5, <1>6, <2>2
  <2> QED BY <2>1, <2>3 DEF Query
<1>9. new = [pc |-> x.pc, record |-> x.record, prune |-> x.prune, fallback |-> x.fallback,
             cache |-> cache, overtaken |-> late]
  BY <1>6, <1>7 DEF Whole
<1>10. /\ new.pc = x.pc /\ new.record = x.record /\ new.prune = x.prune /\ new.cache = cache
       /\ new.overtaken = late /\ new.fallback = x.fallback
  BY ONLY <1>9
<1>11. Whole(new)
  BY ONLY <1>9, <1>10 DEF Whole
<1>12. late \in BOOLEAN /\ (~late => ~x.overtaken \/ \A q \in MemorySessions \ {s} : x.cache[q] = << >>)
  BY <1>4, <1>7
<1>13. DOMAIN cache = MemorySessions /\ cache[s] = answer /\ \A q \in MemorySessions \ {s} : cache[q] = x.cache[q]
  BY <1>5, <1>7
<1>14. ASSUME ~late, OnLocal(st) = ltmStores[st].fallback
       PROVE  Answers(new, db)
  <2>1. \A q \in MemorySessions \ {s} : cache[q] # << >> => cache[q] = << FoundBy(db, q) >>
    <3>1. CASE x.overtaken
      BY <1>12, <1>13, <1>14, <3>1
    <3>2. CASE ~x.overtaken
      <4>1. Answers(x, db)
        BY <1>1, <1>2, <1>7, <1>14, <3>2, StoreReads
      <4> QED BY <1>13, <4>1 DEF Answers
    <3> QED BY <3>1, <3>2
  <2> QED BY <1>3, <1>10, <1>13, <2>1 DEF Answers
<1>15. db \subseteq MemoryRecords /\ (ltmBackend \in Keyed => OneRowPerKey(db)) /\ WriteDb(st, db)
  BY <1>2, <1>8, StoreReads
<1>16. \A a \in ltmAcked' : \E r \in ltmRemote' \cup ltmLocal' : Keeps(r, a.session, a.key)
  BY <1>8 DEF LtmInv
<1>17. new.pc = "idle" /\ new.overtaken \in BOOLEAN /\ DOMAIN new.cache = MemorySessions
       /\ new.prune \subseteq MemoryRecords
       /\ (new.overtaken \/ OnLocal(st) # ltmStores[st].fallback \/ Answers(new, db))
  BY <1>7, <1>10, <1>12, <1>13, <1>14
<1> QED BY <1>2, <1>8, <1>11, <1>15, <1>16, <1>17, LtmMoved

\* A store that was just built has no cache to be behind.
LEMMA NewStoreOK ==
  ASSUME NEW down \in BOOLEAN, NEW remote, NEW local
  PROVE  StoreOK(NewStore(down), remote, local) /\ NewStore(down).fallback = down
<1>1. PICK cache : cache = [s \in MemorySessions |-> << >>]
  OBVIOUS
<1>2. PICK x : x = NewStore(down)
  OBVIOUS
<1>3. x = [pc |-> "idle", record |-> NoRecord, prune |-> {}, fallback |-> down, cache |-> cache, overtaken |-> FALSE]
  BY <1>1, <1>2 DEF NewStore
<1>4. /\ x.pc = "idle" /\ x.record = NoRecord /\ x.prune = {} /\ x.fallback = down
      /\ x.cache = cache /\ x.overtaken = FALSE
  BY ONLY <1>3
<1>5. Whole(x)
  BY ONLY <1>3, <1>4 DEF Whole
<1>6. \A db : Answers(x, db)
  BY <1>1, <1>4 DEF Answers
<1> QED BY <1>1, <1>2, <1>4, <1>5, <1>6 DEF StoreOK

LEMMA StoreReplaced ==
  ASSUME LtmInv, NEW st \in Stores, NextStore(st)
  PROVE  LtmInv'
<1>1. PICK down \in BOOLEAN : down = (ltmBackend \in WithFallback /\ ~ltmUp)
  OBVIOUS
<1>2. PICK new : new = NewStore(down)
  OBVIOUS
<1>3. /\ ltmStores' = [ltmStores EXCEPT ![st] = new]
      /\ UNCHANGED << ltmBackend, ltmUp, ltmRemote, ltmLocal, ltmAcked >>
  BY <1>1, <1>2 DEF NextStore
<1>4. /\ StoreOK(new, ltmRemote, ltmLocal)
      /\ new.fallback = down
  BY <1>1, <1>2, NewStoreOK
<1>5. DOMAIN ltmStores = Stores /\ \A t \in Stores : StoreOK(ltmStores[t], ltmRemote, ltmLocal)
  BY DEF LtmInv
<1>6. DOMAIN ltmStores' = Stores /\ \A t \in Stores : ltmStores'[t] = ltmStores[t] \/ ltmStores'[t] = new
  BY <1>3, <1>5
<1>7. \A t \in Stores : StoreOK(ltmStores'[t], ltmRemote, ltmLocal)
  BY <1>4, <1>5, <1>6
<1>8. LtmTypeOK'
  <2>1. \A t \in Stores : ltmStores'[t].pc \in {"idle", "write", "prune"}
    BY <1>7 DEF StoreOK
  <2>2. ltmBackend \notin WithFallback => ltmLocal = {} /\ \A t \in Stores : ~ltmStores'[t].fallback
    BY <1>1, <1>4, <1>6 DEF LtmInv, LtmTypeOK
  <2> QED BY <1>3, <2>1, <2>2 DEF LtmInv, LtmTypeOK, SessionKey
<1> QED BY <1>3, <1>6, <1>7, <1>8 DEF LtmInv, StoreOK, Answers, Keeps, Whole, FoundBy

LEMMA LtmStarts ==
  ASSUME LtmInit
  PROVE  LtmInv
<1>1. PICK x : x = NewStore(FALSE)
  OBVIOUS
<1>2. /\ ltmBackend \in Backends /\ ltmUp = TRUE /\ ltmRemote = {} /\ ltmLocal = {} /\ ltmAcked = {}
      /\ ltmStores = [st \in Stores |-> x]
  BY <1>1 DEF LtmInit
<1>3. StoreOK(x, ltmRemote, ltmLocal) /\ x.fallback = FALSE
  BY <1>1, NewStoreOK
<1>4. LtmTypeOK
  BY <1>2, <1>3 DEF LtmTypeOK, StoreOK
<1> QED BY <1>2, <1>3, <1>4 DEF LtmInv

LEMMA LtmStays ==
  ASSUME LtmInv, UNCHANGED ltmVars
  PROVE  LtmInv'
BY DEF LtmInv, ltmVars, LtmTypeOK, StoreOK, Answers, Keeps, Whole, FoundBy, SessionKey

LEMMA LtmStepKeeps ==
  ASSUME LtmInv, LtmNext
  PROVE  LtmInv'
<1>1. CASE Outage
  BY <1>1 DEF Outage, LtmInv, LtmTypeOK, StoreOK, Answers, Keeps, Whole, FoundBy, SessionKey
<1>2. ASSUME NEW st \in Stores,
             \/ WriteRecord(st) \/ PruneStart(st) \/ PruneOne(st) \/ NextStore(st)
             \/ \E s \in MemorySessions :
                   \/ Query(st, s)
                   \/ \E k \in Texts :
                         \/ DeleteRecord(st, s, k)
                         \/ \E kind \in RecordKinds :
                               \/ AddRecord(st, s, k, kind[1], kind[2])
                               \/ \E text \in Texts : UpdateRecord(st, s, k, text, kind[1], kind[2])
      PROVE  LtmInv'
  BY <1>2, RecordWritten, PruneRead, OnePruned, StoreReplaced, QueryAnswered, MemoryDeleted, RecordsKept, RecordRead
<1> QED BY <1>1, <1>2 DEF LtmNext

LEMMA LtmHolds ==
  ASSUME LtmInv
  PROVE  LtmTypeOK /\ AcknowledgedSurvives /\ CachesAreCurrent
<1>1. AcknowledgedSurvives
  BY DEF LtmInv, AcknowledgedSurvives, Keeps
<1>2. ASSUME NEW st \in Stores, NEW s \in MemorySessions, NEW c, c = ltmStores[st].cache[s], c # << >>,
             ~ltmStores[st].overtaken, ltmStores[st].pc # "prune"
      PROVE  c[1] = {r \in IF ltmStores[st].fallback THEN ltmLocal ELSE ltmRemote : r.session = s}
  <2>1. PICK db : db = IF ltmStores[st].fallback THEN ltmLocal ELSE ltmRemote
    OBVIOUS
  <2>2. Answers(ltmStores[st], db)
    BY <1>2, <2>1 DEF LtmInv, StoreOK
  <2>3. c = << FoundBy(db, s) >>
    BY <1>2, <2>2 DEF Answers
  <2>4. c[1] = FoundBy(db, s)
    BY <2>3
  <2> QED BY <2>1, <2>4 DEF FoundBy
<1>3. CachesAreCurrent
  BY <1>2 DEF CachesAreCurrent
<1> QED BY <1>1, <1>3 DEF LtmInv

-----------------------------------------------------------------------------
(* The stores together.                                                     *)

\* A step of the instance is a step of a store, and leaves the others alone.
LEMMA OneStoreSteps ==
  ASSUME [Next]_mcVars
  PROVE  /\ AcctNext \/ UNCHANGED acctVars
         /\ HookNext \/ UNCHANGED hookVars
         /\ SyncNext \/ UNCHANGED syncVars
         /\ RateNext \/ UNCHANGED rateVars
         /\ DsNext \/ UNCHANGED dsVars
         /\ LessonsNext \/ UNCHANGED lsVars
         /\ VmNext \/ UNCHANGED vmVars
<1>1. HookNext => UNCHANGED << syncVars, rateVars >>
  BY DEF HookNext, Webhook, WebhookDuplicate, WebhookFailsAfterClaim, AdminUpdateSubscription
<1>2. SyncNext => UNCHANGED << hookVars, rateVars >>
  BY DEF SyncNext, RecordRow, SyncRead, SyncPosted, SyncFails
<1>3. RateNext => UNCHANGED << hookVars, syncVars >>
  BY DEF RateNext, RequestArrives, Tick, Consume
<1>4. \/ UNCHANGED << acctVars, billVars, dsVars, lsVars, vmVars >>
      \/ AcctNext /\ UNCHANGED << billVars, dsVars, lsVars, vmVars >>
      \/ (HookNext \/ SyncNext \/ RateNext) /\ UNCHANGED << acctVars, dsVars, lsVars, vmVars >>
      \/ DsNext /\ UNCHANGED << acctVars, billVars, lsVars, vmVars >>
      \/ LessonsNext /\ UNCHANGED << acctVars, billVars, dsVars, vmVars >>
      \/ VmNext /\ UNCHANGED << acctVars, billVars, dsVars, lsVars >>
  BY DEF Next, mcVars, money, memory, MerkleStep, AuditStep, EventStep, AccountStep, WebhookStep,
         MeteringStep, LimiterStep, DeltaStep, MemoryStep, RetrievalStep, LessonStep, VectorStep
<1> QED BY <1>1, <1>2, <1>3, <1>4 DEF billVars

LEMMA OneReaderSteps ==
  ASSUME [Next]_mcVars
  PROVE  /\ AddLeaf \/ UNCHANGED ledgerHashes
         /\ RlNext \/ UNCHANGED rlVars
         /\ LtmNext \/ UNCHANGED ltmVars
         /\ RetNext \/ UNCHANGED retVars
<1>1. CASE MerkleStep
  BY <1>1 DEF MerkleStep, memory
<1>2. CASE EventStep
  BY <1>2 DEF EventStep, memory
<1>3. CASE MemoryStep
  BY <1>3 DEF MemoryStep, hashes
<1>4. CASE RetrievalStep
  BY <1>4 DEF RetrievalStep, hashes
<1>5. CASE AuditStep
  BY <1>5 DEF AuditStep, memory
<1>6. CASE AccountStep \/ WebhookStep \/ MeteringStep \/ LimiterStep
  BY <1>6 DEF AccountStep, WebhookStep, MeteringStep, LimiterStep, hashes, memory
<1>7. CASE DeltaStep \/ LessonStep \/ VectorStep
  BY <1>7 DEF DeltaStep, LessonStep, VectorStep, hashes
<1>8. CASE UNCHANGED mcVars
  BY <1>8 DEF mcVars, hashes, memory
<1> QED BY <1>1, <1>2, <1>3, <1>4, <1>5, <1>6, <1>7, <1>8 DEF Next

\* Nothing crosses from one tenant to another: whatever events Stripe sends and
\* retries, a customer has one tenant (resolve_stripe_tenant); no merge passes
\* a rule of its moment (sync_vector_memory); a pushed lesson was signed by a
\* trusted sender, also while it waits to be written (decrypt_and_verify_lesson).
THEOREM StoresTenantsAreSeparate == Spec => []TenantsAreSeparate
<1> DEFINE Inv == HookInv /\ VmInv /\ LsInv /\ LsWhole
<1>1. Init => Inv
  BY HookStarts, VmStarts, LsStarts DEF Init
<1>2. Inv /\ [Next]_mcVars => Inv'
  BY OneStoreSteps, HookStepKeeps, HookStays, VmStepKeeps, VmStays, LsStepKeeps, LsStays
<1>3. Inv => TenantsAreSeparate
  BY OwnersAreExclusive DEF VmInv, LsInv, TenantsAreSeparate
<1> QED BY <1>1, <1>2, <1>3, PTL DEF Spec

\* What is reported as replicated is: no announced recovery without the rows
\* of a provider, the same deltas make the same state in whatever order and
\* after whatever crash (merge_delta, _load_state), and the newest vector wins
\* at every node that was sent it (sync_vector_memory).
THEOREM StoresReplicasConverge == Spec => []ReplicasConverge
<1> DEFINE Inv == AuditInv /\ DsInv /\ VmInv
<1>1. Init => Inv
  BY AuditStarts, DsStarts, VmStarts DEF Init
<1>2. Inv /\ [Next]_mcVars => Inv'
  BY OneStoreSteps, AuditInStores, DsStepKeeps, DsStays, VmStepKeeps, VmStays
<1>3. Inv => ReplicasConverge
  BY AuditHolds, DeltasConverge, VmConverges DEF ReplicasConverge
<1> QED BY <1>1, <1>2, <1>3, PTL DEF Spec

\* A row and a credit for a usage key, an event for a Stripe id, a post for
\* every metered row, a window of the limiter with no more than the limit, and
\* an accounts file whose active account is there and whose tokens cover the
\* ledger: for any number of callers, crashes and retries.
THEOREM StoresMoneyIsCountedOnce ==
  Spec => [](/\ AccountTypeOK /\ BilledOnce /\ TokensCoverLedger /\ ActiveAccountExists
             /\ EventsAppliedOnce /\ SyncedWasReported /\ WindowBound)
<1> DEFINE Inv == AcctInv /\ HookInv /\ MeterInv /\ RateInv
<1>1. Init => Inv
  BY AcctStarts, HookStarts, MeterStarts, RateStarts DEF Init
<1>2. Inv /\ [Next]_mcVars => Inv'
  BY OneStoreSteps, AcctStepKeeps, AcctStays, HookStepKeeps, HookStays, MeterStepKeeps, MeterStays,
     RateStepKeeps, RateStays
<1>3. Inv => /\ AccountTypeOK /\ BilledOnce /\ TokensCoverLedger /\ ActiveAccountExists
             /\ EventsAppliedOnce /\ SyncedWasReported /\ WindowBound
  BY AccountsHold, EventsAreAppliedOnce, WindowsHold DEF MeterInv
<1> QED BY <1>1, <1>2, <1>3, PTL DEF Spec

LEMMA LessonsInStores ==
  /\ Init => LsInv /\ LsWhole
  /\ LsInv /\ LsWhole /\ [Next]_mcVars
        => /\ LsInv' /\ LsWhole'
           /\ \/ lsOverlap \/ lsFile' = lsFile
              \/ \E new \in Seq(LessonSet) : lsFile' = lsFile \o new
<1>1. Init => LsInv /\ LsWhole
  BY LsStarts DEF Init
<1>2. ASSUME LsInv, LsWhole, [Next]_mcVars
      PROVE  /\ LsInv' /\ LsWhole'
             /\ \/ lsOverlap \/ lsFile' = lsFile
                \/ \E new \in Seq(LessonSet) : lsFile' = lsFile \o new
  <2>1. CASE LessonsNext
    BY <1>2, <2>1, LsStepKeeps
  <2>2. CASE UNCHANGED lsVars
    <3>1. lsFile' = lsFile
      BY <2>2 DEF lsVars
    <3> QED BY <1>2, <2>2, <3>1, LsStays
  <2> QED BY <1>2, <2>1, <2>2, OneStoreSteps
<1> QED BY <1>1, <1>2

\* Everything that may come twice counts once: usage, webhook events, metered
\* rows, requests in a window, and the lessons of scans and pushes as long as
\* no writer of the file has begun in the middle of another.
THEOREM StoresEffectsHappenOnce == Spec => []EffectsHappenOnce
<1>1. Init => LsInv /\ LsWhole
  BY LessonsInStores
<1>2. LsInv /\ LsWhole /\ [Next]_mcVars => LsInv' /\ LsWhole'
  BY LessonsInStores
<1>2a. LsWhole => ScansAndPushesAreNew
  BY DEF LsWhole, Fresh, ScansAndPushesAreNew
<1>3. Spec => []ScansAndPushesAreNew
  BY <1>1, <1>2, <1>2a, PTL DEF Spec
<1>4. /\ AccountTypeOK /\ BilledOnce /\ TokensCoverLedger /\ ActiveAccountExists
      /\ EventsAppliedOnce /\ SyncedWasReported /\ WindowBound /\ ScansAndPushesAreNew
      => EffectsHappenOnce
  BY DEF EffectsHappenOnce
<1> QED BY <1>3, <1>4, StoresMoneyIsCountedOnce, PTL

\* A history is only extended: no step takes a row from an audit ledger, and
\* none replaces one that the merge had compared (insert_raw_event); and no
\* writer removes a lesson (_write_lessons_to_md, merge_lesson, merge_lessons)
\* as long as none has begun in the middle of another.
THEOREM StoresHistoriesOnlyGrow == Spec => HistoriesOnlyGrow
<1>1. Init => LsInv /\ LsWhole
  BY LessonsInStores
<1>2. LsInv /\ LsWhole /\ [Next]_mcVars
        => LsInv' /\ LsWhole' /\ [lsOverlap \/ IsPrefix(lsFile, lsFile')]_lsVars
  <2> SUFFICES ASSUME LsInv, LsWhole, [Next]_mcVars
               PROVE  LsInv' /\ LsWhole' /\ (lsOverlap \/ IsPrefix(lsFile, lsFile'))
    OBVIOUS
  <2>1. /\ LsInv' /\ LsWhole'
        /\ \/ lsOverlap \/ lsFile' = lsFile
           \/ \E new \in Seq(LessonSet) : lsFile' = lsFile \o new
    BY LessonsInStores
  <2>2. PICK a : a = lsFile
    OBVIOUS
  <2>3. a \in Seq(LessonSet)
    BY <2>2 DEF LsInv, LsTypes
  <2>4. ASSUME NEW b \in Seq(LessonSet), NEW c \in Seq(LessonSet), b = a \/ b = a \o c
        PROVE  IsPrefix(a, b)
    <3>1. Len(a) <= Len(b) /\ \A i \in 1 .. Len(a) : a[i] = b[i]
      BY <2>3, <2>4
    <3>2. SubSeq(a, 1, Len(a)) = SubSeq(b, 1, Len(a))
      BY <2>3, <2>4, <3>1
    <3> QED BY <3>1, <3>2 DEF IsPrefix
  <2>5. lsOverlap \/ IsPrefix(lsFile, lsFile')
    <3>1. lsFile' \in Seq(LessonSet) /\ << >> \in Seq(LessonSet)
      BY <2>1 DEF LsInv, LsTypes
    <3> QED BY <2>1, <2>2, <2>3, <2>4, <3>1
  <2> QED BY <2>1, <2>5
<1>3. Spec => LessonsOnlyGrow
  BY <1>1, <1>2, PTL DEF Spec, LessonsOnlyGrow
<1> QED BY <1>3, StoresLedgersAreAppendOnly DEF HistoriesOnlyGrow

\* What a store acknowledged can be read back: a memory after any outage and
\* any new store object (_write_record, delete_record and prune_expired of
\* LongTermMemoryStore, over backends that fall back to SQLite), a delta after
\* as many crashes of a save as there are mirrors (_save_state, _load_state);
\* a loaded checkpoint is a whole one (load_checkpoint); no cached query and no
\* cached vector root is older than the last write; a context has room for
\* facts beside its episodes (retrieve_and_format_context); and a proof of
\* inclusion verifies for its record alone (generate_merkle_proof,
\* verify_merkle_proof), in a ledger of any length.
THEOREM StoresReadsSeeWrites == Spec => []ReadsSeeWrites
<1> DEFINE Inv == LtmInv /\ DsInv /\ DeltasKept /\ CkInv /\ VmInv /\ RetInv /\ HashInv
<1>1. Init => Inv
  <2> SUFFICES ASSUME Init PROVE Inv
    OBVIOUS
  <2>1. LtmInit /\ DsInit /\ RlInit /\ VmInit /\ RetInit /\ MerkleInit
    BY DEF Init
  <2>2. CkInv
    BY <2>1 DEF RlInit, CkInv, LoadedWasWhole
  <2> QED BY <2>1, <2>2, LtmStarts, DsStarts, DeltasKeptStart, VmStarts, RetStarts, HashesStart
<1>2. Inv /\ [Next]_mcVars => Inv'
  <2> SUFFICES ASSUME Inv, [Next]_mcVars PROVE Inv'
    OBVIOUS
  <2>1. LtmInv'
    BY OneReaderSteps, LtmStepKeeps, LtmStays
  <2>2. DsInv' /\ DeltasKept'
    BY OneStoreSteps, DsStepKeeps, DsStays, DeltasKeptNext, DeltasKeptStays
  <2>3. CkInv'
    BY OneReaderSteps, CkStepKeeps
  <2>4. VmInv'
    BY OneStoreSteps, VmStepKeeps, VmStays
  <2>5. RetInv' /\ HashInv'
    BY OneReaderSteps, RetStepKeeps, HashesKept
  <2> QED BY <2>1, <2>2, <2>3, <2>4, <2>5
<1>3. Inv => ReadsSeeWrites
  BY LtmHolds, AcknowledgedAreKept, ContextsAreDiverse, ProofsAreSound DEF CkInv, VmInv, ReadsSeeWrites
<1> QED BY <1>1, <1>2, <1>3, PTL DEF Spec

=============================================================================
