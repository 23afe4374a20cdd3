------------------------- MODULE UsageMeteringProofs -------------------------
(***************************************************************************)
(* Proofs about UsageMetering, for any calls, buffer size and calendar.    *)
(* Held is what is in memory: the buffer and the batches.  The strengthening *)
(* says that the places of an event exclude each other, and that whoever   *)
(* has a batch is waiting for its insert, so that no batch is overwritten. *)
(***************************************************************************)
EXTENDS UsageMetering, TLAPS, FiniteSetTheorems

InBatches == UNION {batch[t] : t \in Tasks}
Held == Buffered \cup InBatches

DatesAreReal == task.today <= MaxDay

BufferIsDistinct ==
  \A i, j \in 1..Len(buffer) : buffer[i] = buffer[j] => i = j

BatchesAreDisjoint ==
  /\ \A t \in Tasks : batch[t] \cap Buffered = {}
  /\ \A t, u \in Tasks : t # u => batch[t] \cap batch[u] = {}

StoredOnce ==
  \A c \in Calls : rows[c] # 0 => rows[c] = 1 /\ c \notin Held /\ c \notin dropped

DroppedIsGone == dropped \cap Held = {}

\* A call has begun if and only if its event is somewhere.
BegunIsKnown ==
  \A c \in Calls : pc[c] = "idle" <=> c \notin Held \cup dropped /\ rows[c] = 0

BatchIsAwaited ==
  /\ \A c \in Calls : batch[c] # {} => pc[c] = "flushing"
  /\ batch[Aggregator] # {} => task.at = "flushing"

Places ==
  /\ BufferIsDistinct /\ BatchesAreDisjoint /\ StoredOnce
  /\ DroppedIsGone /\ BegunIsKnown /\ BatchIsAwaited

Inv == TypeOK /\ DatesAreReal /\ BufferBelowLimit /\ Places

-----------------------------------------------------------------------------
(* The sequences and the calendar.                                         *)

Elements(b) == {b[i] : i \in 1..Len(b)}
IsDistinct(b) == \A i, j \in 1..Len(b) : b[i] = b[j] => i = j

LEMMA Appended ==
  ASSUME NEW b \in Seq(Calls), NEW c \in Calls, c \notin Elements(b), IsDistinct(b)
  PROVE  /\ Append(b, c) \in Seq(Calls)
         /\ Len(Append(b, c)) = Len(b) + 1
         /\ Elements(Append(b, c)) = Elements(b) \cup {c}
         /\ IsDistinct(Append(b, c))
<1> DEFINE s == Append(b, c)
<1>1. s \in Seq(Calls) /\ Len(s) = Len(b) + 1 /\ Len(b) \in Nat
  OBVIOUS
<1>2. \A i \in 1..Len(b) : s[i] = b[i] /\ i \in 1..Len(s)
  OBVIOUS
<1>3. s[Len(b) + 1] = c /\ Len(b) + 1 \in 1..Len(s)
  OBVIOUS
<1>4. \A i \in 1..Len(s) : i \in 1..Len(b) \/ i = Len(b) + 1
  BY <1>1
<1> HIDE DEF s
<1>5. Elements(s) = Elements(b) \cup {c}
  BY <1>2, <1>3, <1>4 DEF Elements
<1>6. IsDistinct(s)
  <2> SUFFICES ASSUME NEW i \in 1..Len(s), NEW j \in 1..Len(s), s[i] = s[j]
               PROVE  i = j
    BY DEF IsDistinct
  <2> QED
    BY <1>2, <1>3, <1>4 DEF IsDistinct, Elements
<1> QED
  BY <1>1, <1>5, <1>6 DEF s

LEMMA EmptyElements == Elements(<<>>) = {} /\ IsDistinct(<<>>) /\ <<>> \in Seq(Calls)
BY DEF Elements, IsDistinct

\* A flush takes the whole of a buffer that is not beyond its limit.
LEMMA Flushed ==
  ASSUME NEW b \in Seq(Calls), Len(b) <= BufferSize, NEW t \in Tasks, Flush(t, b)
  PROVE  /\ batch' = [batch EXCEPT ![t] = Elements(b)]
         /\ buffer' = <<>>
<1> DEFINE n == IF Len(b) < BufferSize THEN Len(b) ELSE BufferSize
<1>1. n = Len(b)
  BY MeteringAssumption
<1>2. batch' = [batch EXCEPT ![t] = {b[i] : i \in 1..n}] /\ buffer' = SubSeq(b, n + 1, Len(b))
  BY DEF Flush
<1>3. SubSeq(b, Len(b) + 1, Len(b)) = <<>>
  OBVIOUS
<1> QED
  BY <1>1, <1>2, <1>3 DEF Elements

LEMMA MonthIsNat == ASSUME NEW d \in Nat PROVE Month(d) \in Nat
BY MeteringAssumption DEF Month

-----------------------------------------------------------------------------
(* Types.                                                                  *)

LEMMA TotalIsBounded ==
  ASSUME NEW d PROVE Total(d) \in 0..Cardinality(Calls)
<1>1. StoredOn(d) \subseteq Calls /\ IsFiniteSet(Calls)
  BY MeteringAssumption DEF StoredOn
<1>2. Cardinality(StoredOn(d)) <= Cardinality(Calls) /\ IsFiniteSet(StoredOn(d))
  BY <1>1, FS_Subset
<1>3. Cardinality(StoredOn(d)) \in Nat /\ Cardinality(Calls) \in Nat
  BY <1>1, <1>2, FS_CardinalityType
<1> QED
  BY <1>2, <1>3 DEF Total

LEMMA PartitionEndIsNat == ASSUME NEW d \in Days PROVE PartitionEnd(d) \in Nat
<1>1. d + DaysPerMonth + 1 \in Nat
  BY MeteringAssumption DEF Days
<1> QED
  BY <1>1, MonthIsNat DEF PartitionEnd

TaskStates == [at : {"sleeping", "flushing", "aggregating"}, today : Nat]

\* The states the task takes.
LEMMA TaskTypes ==
  /\ Asleep \in TaskStates /\ Asleep.today = 0 /\ Asleep.at = "sleeping"
  /\ \A d \in Days : /\ [at |-> "aggregating", today |-> d] \in TaskStates
                     /\ [at |-> "aggregating", today |-> d].today <= MaxDay
BY MeteringAssumption DEF Asleep, TaskStates, Days

LEMMA InitHolds == Init => Inv
<1> SUFFICES ASSUME Init PROVE Inv
  OBVIOUS
<1>1. Cardinality(Calls) \in Nat
  BY MeteringAssumption, FS_CardinalityType
<1>2. TypeOK /\ DatesAreReal
  <2>1. totals \in [Days -> 0..Cardinality(Calls)]
    BY <1>1 DEF Init
  <2>2. task \in TaskStates /\ task.today <= MaxDay
    BY MeteringAssumption, TaskTypes DEF Init
  <2>3. 0 \in Days
    BY MeteringAssumption DEF Days
  <2>4. /\ pc \in [Calls -> {"idle", "flushing", "counting", "done", "failed"}]
        /\ at \in [Calls -> Days]
        /\ batch \in [Tasks -> SUBSET Calls]
        /\ rows \in [Calls -> Nat]
        /\ parts \in [0..Month(MaxDay) -> Nat]
    BY <2>3 DEF Init
  <2> QED
    BY <2>1, <2>2, <2>3, <2>4, EmptyElements DEF Init, TypeOK, DatesAreReal, TaskStates
<1>3. BufferBelowLimit /\ Places
  BY MeteringAssumption, EmptyElements
  DEF Init, BufferBelowLimit, Places, BufferIsDistinct, BatchesAreDisjoint, StoredOnce,
      DroppedIsGone, BegunIsKnown, BatchIsAwaited, Held, InBatches, Buffered, Tasks
<1> QED
  BY <1>2, <1>3 DEF Inv

LEMMA WrittenTypes ==
  ASSUME TypeOK, NEW t \in Tasks, Written(t)
  PROVE  rows' \in [Calls -> Nat] /\ buffer' = buffer
BY DEF TypeOK, Written

LEMMA TypesKept ==
  ASSUME Inv, [Next]_vars
  PROVE  TypeOK' /\ DatesAreReal'
<1> USE DEF Inv, TypeOK, DatesAreReal
<1>1. CASE Start
  <2>1. parts' \in [0..Month(MaxDay) -> Nat]
    BY <1>1, PartitionEndIsNat DEF Start
  <2> QED
    BY <1>1, <2>1 DEF Start
<1>2. CASE Stop
  <2>1. rows' \in [Calls -> Nat]
    BY <1>2 DEF Stop
  <2>2. dropped' \in SUBSET Calls
    <3>1. Buffered \cup InBatches \subseteq Calls
      BY DEF Buffered, InBatches
    <3> QED
      BY <1>2, <3>1 DEF Stop, InBatches
  <2>3. buffer' \in Seq(Calls) /\ batch' \in [Tasks -> SUBSET Calls]
    BY <1>2, EmptyElements DEF Stop
  <2>4. pc' \in [Calls -> {"idle", "flushing", "counting", "done", "failed"}]
    BY <1>2 DEF Stop
  <2>5. task' \in TaskStates /\ task'.today <= MaxDay
    BY <1>2, TaskTypes, MeteringAssumption DEF Stop
  <2> QED
    BY <1>2, <2>1, <2>2, <2>3, <2>4, <2>5 DEF Stop, TaskStates
<1>3. CASE NextDay
  BY <1>3, MeteringAssumption DEF NextDay, Days
<1>4. ASSUME NEW c \in Calls, Track(c) PROVE TypeOK' /\ DatesAreReal'
  <2> DEFINE b == Append(buffer, c)
  <2>1. b \in Seq(Calls) /\ Elements(b) \in SUBSET Calls /\ c \in Tasks
    BY DEF Elements, Tasks
  <2>2. Len(b) <= BufferSize
    BY MeteringAssumption DEF BufferBelowLimit
  <2>3. buffer' \in Seq(Calls) /\ batch' \in [Tasks -> SUBSET Calls]
    <3>1. CASE Full(b)
      <4>1. batch' = [batch EXCEPT ![c] = Elements(b)] /\ buffer' = <<>>
        BY <1>4, <2>1, <2>2, <3>1, Flushed DEF Track
      <4> QED
        BY <2>1, <4>1, EmptyElements
    <3> QED
      BY <1>4, <2>1, <3>1 DEF Track
  <2>4. pc' \in [Calls -> {"idle", "flushing", "counting", "done", "failed"}]
    BY <1>4 DEF Track
  <2> QED
    BY <1>4, <2>3, <2>4 DEF Track
<1>5. ASSUME NEW c \in Calls, Count(c) \/ CountFails(c) PROVE TypeOK' /\ DatesAreReal'
  BY <1>5 DEF Count, CountFails
<1>6. ASSUME NEW t \in Tasks, Inserts(t) PROVE TypeOK' /\ DatesAreReal'
  <2>1. t # Aggregator => t \in Calls
    BY DEF Tasks
  <2>2. pc' \in [Calls -> {"idle", "flushing", "counting", "done", "failed"}]
    BY <1>6, <2>1 DEF Inserts, InsertOk, InsertFails, InsertUnanswered, FlushRaises
  <2>3. task' \in TaskStates /\ task'.today <= MaxDay
    <3>1. task' \in {task, Asleep, [at |-> "aggregating", today |-> day]}
      BY <1>6 DEF Inserts, InsertOk, InsertFails, InsertUnanswered, FlushRaises
    <3> QED
      BY <3>1, TaskTypes, MeteringAssumption DEF TaskStates
  <2>4. batch' \in [Tasks -> SUBSET Calls]
    BY <1>6 DEF Inserts, InsertOk, InsertFails, InsertUnanswered
  <2>5. rows' \in [Calls -> Nat] /\ buffer' \in Seq(Calls)
    BY <1>6, WrittenTypes DEF Inserts, InsertOk, InsertFails, InsertUnanswered
  <2>6. dropped' \in SUBSET Calls
    BY <1>6 DEF Inserts, InsertOk, InsertFails, InsertUnanswered
  <2> QED
    BY <1>6, <2>2, <2>3, <2>4, <2>5, <2>6
    DEF Inserts, InsertOk, InsertFails, InsertUnanswered, TaskStates
<1>7. CASE Wake
  <2>1. CASE buffer = <<>>
    BY <1>7, <2>1, TaskTypes DEF Wake, TaskStates
  <2>2. CASE buffer # <<>>
    <3>1. Flush(Aggregator, buffer) /\ Aggregator \in Tasks /\ Len(buffer) <= BufferSize
      BY <1>7, <2>2, MeteringAssumption DEF Wake, Tasks, BufferBelowLimit
    <3>2. batch' = [batch EXCEPT ![Aggregator] = Elements(buffer)] /\ buffer' = <<>>
      BY <3>1, Flushed
    <3>3. Elements(buffer) \in SUBSET Calls
      BY DEF Elements
    <3>4. task' \in TaskStates /\ task'.today <= MaxDay
      BY <1>7, <2>2, MeteringAssumption DEF Wake, Asleep, TaskStates
    <3>5. batch' \in [Tasks -> SUBSET Calls] /\ buffer' \in Seq(Calls)
      BY <3>2, <3>3, EmptyElements
    <3> QED
      BY <1>7, <3>4, <3>5 DEF Wake, TaskStates
  <2> QED
    BY <2>1, <2>2
<1>8. CASE Aggregate
  <2>1. totals' \in [Days -> 0..Cardinality(Calls)]
    BY <1>8, TotalIsBounded DEF Aggregate
  <2> QED
    BY <1>8, <2>1, TaskTypes, MeteringAssumption DEF Aggregate, TaskStates
<1>9. CASE AggregateFails
  BY <1>9, TaskTypes, MeteringAssumption DEF AggregateFails, TaskStates
<1>10. CASE UNCHANGED vars
  BY <1>10 DEF vars
<1> QED
  BY <1>1, <1>2, <1>3, <1>4, <1>5, <1>6, <1>7, <1>8, <1>9, <1>10 DEF Next

-----------------------------------------------------------------------------
(* Places.                                                                 *)

LEMMA HeldMembers ==
  ASSUME NEW c
  PROVE  /\ c \in Held <=> c \in Elements(buffer) \/ \E t \in Tasks : c \in batch[t]
         /\ c \in Held' <=> c \in Elements(buffer') \/ \E t \in Tasks : c \in batch'[t]
         /\ Buffered = Elements(buffer) /\ Buffered' = Elements(buffer')
BY DEF Held, InBatches, Buffered, Elements

\* Steps that move no event.
LEMMA Unmoved ==
  ASSUME Inv, UNCHANGED <<buffer, batch, rows, dropped>>,
         \A c \in Calls : \/ pc'[c] = pc[c]
                          \/ pc[c] = "counting" /\ pc'[c] \in {"done", "failed"},
         task' = task \/ batch[Aggregator] = {}
  PROVE  BufferBelowLimit' /\ Places'
<1>1. Held' = Held
  BY DEF Held, InBatches, Buffered
<1>2. BufferBelowLimit' /\ BufferIsDistinct' /\ BatchesAreDisjoint'
  BY DEF Inv, Places, BufferBelowLimit, BufferIsDistinct, BatchesAreDisjoint, Buffered
<1>3. StoredOnce' /\ DroppedIsGone'
  BY <1>1 DEF Inv, Places, StoredOnce, DroppedIsGone
<1>4. BegunIsKnown'
  BY <1>1 DEF Inv, Places, BegunIsKnown
<1>5. BatchIsAwaited'
  BY DEF Inv, Places, BatchIsAwaited
<1> QED
  BY <1>2, <1>3, <1>4, <1>5 DEF Places

\* A call tracks its event: the buffer gets it, or is flushed with it.
LEMMA TrackKeeps ==
  ASSUME Inv, NEW c \in Calls, Track(c)
  PROVE  /\ BufferBelowLimit' /\ Places'
         /\ Held' = Held \cup {c}
<1> DEFINE b == Append(buffer, c)
<1>1. c \notin Held /\ c \notin dropped /\ rows[c] = 0 /\ pc[c] = "idle"
  BY DEF Track, Inv, Places, BegunIsKnown
<1>2. /\ buffer \in Seq(Calls) /\ c \notin Elements(buffer) /\ IsDistinct(buffer)
      /\ c \in Tasks /\ batch \in [Tasks -> SUBSET Calls]
  BY <1>1, HeldMembers DEF Inv, TypeOK, Places, BufferIsDistinct, IsDistinct, Tasks
<1>3. /\ b \in Seq(Calls) /\ Len(b) = Len(buffer) + 1
      /\ Elements(b) = Elements(buffer) \cup {c} /\ IsDistinct(b)
  BY <1>2, Appended
<1>4. batch[c] = {} /\ \A t \in Tasks : c \notin batch[t]
  BY <1>1, <1>2, HeldMembers DEF Inv, Places, BatchIsAwaited
<1>5. \/ /\ batch' = [batch EXCEPT ![c] = Elements(b)]
         /\ buffer' = <<>>
         /\ pc' = [pc EXCEPT ![c] = "flushing"]
      \/ /\ buffer' = b /\ batch' = batch
         /\ pc' = [pc EXCEPT ![c] = "counting"]
         /\ Len(b) < BufferSize
  <2>1. Len(b) \in Nat /\ Len(b) <= BufferSize
    BY <1>2, <1>3, MeteringAssumption DEF Inv, BufferBelowLimit
  <2>2. CASE Full(b)
    BY <1>2, <1>3, <2>1, <2>2, Flushed DEF Track
  <2>3. CASE ~Full(b)
    BY <2>1, <2>3, MeteringAssumption DEF Track, Full
  <2> QED
    BY <2>2, <2>3
<1> HIDE DEF b
<1>6. rows' = rows /\ dropped' = dropped /\ task' = task
      /\ pc \in [Calls -> {"idle", "flushing", "counting", "done", "failed"}]
  BY DEF Track, Inv, TypeOK
<1>7. \A x : x \in Elements(buffer') \/ (\E t \in Tasks : x \in batch'[t])
        <=> x \in Elements(buffer) \/ (\E t \in Tasks : x \in batch[t]) \/ x = c
  <2>1. CASE buffer' = b /\ batch' = batch
    BY <1>3, <2>1
  <2>2. CASE batch' = [batch EXCEPT ![c] = Elements(b)] /\ buffer' = <<>>
    <3>1. batch'[c] = Elements(buffer) \cup {c} /\ \A t \in Tasks : t # c => batch'[t] = batch[t]
      BY <1>2, <1>3, <2>2
    <3>2. Elements(buffer') = {}
      BY <2>2, EmptyElements
    <3> QED
      BY <1>2, <1>4, <3>1, <3>2
  <2> QED
    BY <1>5, <2>1, <2>2
<1>8. Held' = Held \cup {c}
  BY <1>7, HeldMembers
<1>9. BufferBelowLimit' /\ BufferIsDistinct'
  <2>1. Len(buffer') < BufferSize /\ IsDistinct(buffer')
    BY <1>3, <1>5, EmptyElements, MeteringAssumption
  <2> QED
    BY <2>1 DEF BufferBelowLimit, BufferIsDistinct, IsDistinct
<1>10. BatchesAreDisjoint'
  <2>1. \A t \in Tasks : batch[t] \cap Elements(buffer) = {}
    BY HeldMembers DEF Inv, Places, BatchesAreDisjoint
  <2>2. \A t, u \in Tasks : t # u => batch[t] \cap batch[u] = {}
    BY DEF Inv, Places, BatchesAreDisjoint
  <2>3. /\ \A t \in Tasks : batch'[t] \cap Elements(buffer') = {}
        /\ \A t, u \in Tasks : t # u => batch'[t] \cap batch'[u] = {}
    <3>1. CASE buffer' = b /\ batch' = batch
      BY <1>3, <1>4, <2>1, <2>2, <3>1
    <3>2. CASE batch' = [batch EXCEPT ![c] = Elements(b)] /\ buffer' = <<>>
      <4>1. batch'[c] = Elements(buffer) \cup {c} /\ \A t \in Tasks : t # c => batch'[t] = batch[t]
        BY <1>2, <1>3, <3>2
      <4>2. Elements(buffer') = {}
        BY <3>2, EmptyElements
      <4> QED
        BY <1>4, <2>1, <2>2, <4>1, <4>2
    <3> QED
      BY <1>5, <3>1, <3>2
  <2> QED
    BY <2>3, HeldMembers DEF BatchesAreDisjoint
<1>11. StoredOnce' /\ DroppedIsGone'
  BY <1>1, <1>6, <1>8 DEF Inv, Places, StoredOnce, DroppedIsGone
<1>12. BegunIsKnown'
  <2>1. pc'[c] # "idle" /\ \A x \in Calls : x # c => pc'[x] = pc[x]
    BY <1>5, <1>6
  <2> QED
    BY <1>6, <1>8, <2>1 DEF Inv, Places, BegunIsKnown
<1>13. BatchIsAwaited'
  <2>1. c # Aggregator /\ Aggregator \in Tasks
    BY MeteringAssumption DEF Tasks
  <2>2. \A x \in Calls : x \in Tasks
    BY DEF Tasks
  <2> QED
    BY <1>1, <1>2, <1>4, <1>5, <1>6, <2>1, <2>2 DEF Inv, Places, BatchIsAwaited
<1> QED
  BY <1>8, <1>9, <1>10, <1>11, <1>12, <1>13 DEF Places

\* The task wakes: what was buffered becomes its batch.
LEMMA WakeKeeps ==
  ASSUME Inv, Wake
  PROVE  /\ BufferBelowLimit' /\ Places'
         /\ Held' = Held
<1>1. rows' = rows /\ dropped' = dropped /\ pc' = pc /\ task.at = "sleeping"
  BY TaskTypes DEF Wake
<1>2. /\ Aggregator \in Tasks /\ buffer \in Seq(Calls) /\ batch \in [Tasks -> SUBSET Calls]
      /\ Len(buffer) \in Nat /\ Len(buffer) <= BufferSize
  BY MeteringAssumption DEF Inv, TypeOK, Tasks, BufferBelowLimit
<1>3. batch[Aggregator] = {}
  BY <1>1 DEF Inv, Places, BatchIsAwaited
<1>4. CASE buffer = <<>>
  <2>1. UNCHANGED <<buffer, batch>>
    BY <1>4 DEF Wake
  <2>2. Held' = Held
    BY <2>1 DEF Held, InBatches, Buffered
  <2> QED
    BY <1>1, <1>3, <2>1, <2>2, Unmoved
<1>5. CASE buffer # <<>>
  <2>1. batch' = [batch EXCEPT ![Aggregator] = Elements(buffer)] /\ buffer' = <<>>
    BY <1>2, <1>5, Flushed DEF Wake
  <2>2. /\ batch'[Aggregator] = Elements(buffer)
        /\ \A t \in Tasks : t # Aggregator => batch'[t] = batch[t]
        /\ Elements(buffer') = {} /\ IsDistinct(buffer') /\ Len(buffer') = 0
    BY <1>2, <2>1, EmptyElements
  <2>3. Held' = Held
    BY <1>2, <1>3, <2>2, HeldMembers
  <2>4. BufferBelowLimit' /\ BufferIsDistinct'
    BY <2>2, MeteringAssumption DEF BufferBelowLimit, BufferIsDistinct, IsDistinct
  <2>5. BatchesAreDisjoint'
    <3>1. /\ \A t \in Tasks : batch[t] \cap Elements(buffer) = {}
          /\ \A t, u \in Tasks : t # u => batch[t] \cap batch[u] = {}
      BY HeldMembers DEF Inv, Places, BatchesAreDisjoint
    <3>2. /\ \A t \in Tasks : batch'[t] \cap Elements(buffer') = {}
          /\ \A t, u \in Tasks : t # u => batch'[t] \cap batch'[u] = {}
      BY <2>2, <3>1
    <3> QED
      BY <3>2, HeldMembers DEF BatchesAreDisjoint
  <2>6. StoredOnce' /\ DroppedIsGone' /\ BegunIsKnown'
    BY <1>1, <2>3 DEF Inv, Places, StoredOnce, DroppedIsGone, BegunIsKnown
  <2>7. BatchIsAwaited'
    <3>1. task'.at = "flushing"
      BY <1>5 DEF Wake, Asleep
    <3>2. \A c \in Calls : c \in Tasks /\ c # Aggregator
      BY MeteringAssumption DEF Tasks
    <3> QED
      BY <1>1, <2>2, <3>1, <3>2 DEF Inv, Places, BatchIsAwaited
  <2> QED
    BY <2>3, <2>4, <2>5, <2>6, <2>7 DEF Places
<1> QED
  BY <1>4, <1>5

\* An insert is over: its batch is stored or dropped.
Settled(t, S) ==
  /\ batch' = [batch EXCEPT ![t] = {}]
  /\ buffer' = buffer
  /\ rows' = [c \in Calls |-> IF c \in S THEN rows[c] + 1 ELSE rows[c]]
  /\ dropped' = dropped \cup (batch[t] \ S)

LEMMA InsertsSettle ==
  ASSUME Inv, NEW t \in Tasks, Inserts(t)
  PROVE  \/ Settled(t, batch[t]) /\ \A c \in batch[t] : rows[c] = 0
         \/ Settled(t, {})
<1>1. CASE InsertOk(t) \/ InsertUnanswered(t)
  <2>1. /\ batch' = [batch EXCEPT ![t] = {}] /\ buffer' = buffer /\ dropped' = dropped
        /\ rows' = [c \in Calls |-> IF c \in batch[t] THEN rows[c] + 1 ELSE rows[c]]
        /\ \A c \in batch[t] : rows[c] = 0
    BY <1>1 DEF InsertOk, InsertUnanswered, Written, Insertable
  <2> QED
    BY <2>1 DEF Settled
<1>2. CASE InsertFails(t)
  <2>1. rows = [c \in Calls |-> rows[c]]
    BY DEF Inv, TypeOK
  <2>2. rows = [c \in Calls |-> IF c \in {} THEN rows[c] + 1 ELSE rows[c]]
    BY <2>1
  <2> QED
    BY <1>2, <2>2 DEF InsertFails, Settled
<1> QED
  BY <1>1, <1>2 DEF Inserts

LEMMA InsertsKeep ==
  ASSUME Inv, NEW t \in Tasks, Inserts(t)
  PROVE  /\ BufferBelowLimit' /\ Places'
         /\ Held' = Held \ batch[t]
<1>1. PICK S \in {{}, batch[t]} : Settled(t, S)
  BY InsertsSettle
<1>2. /\ batch[t] # {}
      /\ batch \in [Tasks -> SUBSET Calls] /\ rows \in [Calls -> Nat]
      /\ pc \in [Calls -> {"idle", "flushing", "counting", "done", "failed"}]
  BY DEF Inserts, InsertOk, InsertFails, InsertUnanswered, Inv, TypeOK
<1>3. /\ batch'[t] = {} /\ \A u \in Tasks : u # t => batch'[u] = batch[u]
      /\ buffer' = buffer /\ dropped' = dropped \cup (batch[t] \ S)
      /\ \A c \in Calls : rows'[c] = IF c \in S THEN rows[c] + 1 ELSE rows[c]
  BY <1>1, <1>2 DEF Settled
<1>4. /\ \A u \in Tasks : batch[u] \cap Elements(buffer) = {}
      /\ \A u, v \in Tasks : u # v => batch[u] \cap batch[v] = {}
  BY HeldMembers DEF Inv, Places, BatchesAreDisjoint
<1>5. Held' = Held \ batch[t]
  BY <1>3, <1>4, HeldMembers
<1>6. \A c \in batch[t] : c \in Calls /\ c \in Held /\ rows[c] = 0 /\ c \notin dropped
  <2>1. \A c \in batch[t] : c \in Calls /\ c \in Held
    BY <1>2, HeldMembers
  <2> QED
    BY <2>1 DEF Inv, Places, StoredOnce, DroppedIsGone
<1>7. BufferBelowLimit' /\ BufferIsDistinct'
  BY <1>3 DEF Inv, Places, BufferBelowLimit, BufferIsDistinct
<1>8. BatchesAreDisjoint'
  <2>1. /\ \A u \in Tasks : batch'[u] \cap Elements(buffer') = {}
        /\ \A u, v \in Tasks : u # v => batch'[u] \cap batch'[v] = {}
    BY <1>3, <1>4
  <2> QED
    BY <2>1, HeldMembers DEF BatchesAreDisjoint
<1>9. StoredOnce'
  <2> SUFFICES ASSUME NEW c \in Calls, rows'[c] # 0
               PROVE  rows'[c] = 1 /\ c \notin Held' /\ c \notin dropped'
    BY DEF StoredOnce
  <2>1. CASE c \in batch[t]
    BY <1>1, <1>3, <1>5, <1>6, <2>1
  <2>2. CASE c \notin batch[t]
    BY <1>1, <1>3, <1>5, <2>2 DEF Inv, Places, StoredOnce
  <2> QED
    BY <2>1, <2>2
<1>10. DroppedIsGone'
  BY <1>3, <1>5 DEF Inv, Places, DroppedIsGone
<1>11. \A c \in Calls : pc'[c] = "idle" <=> pc[c] = "idle"
  <2>1. t # Aggregator => t \in Calls /\ pc[t] = "flushing"
    BY <1>2 DEF Tasks, Inv, Places, BatchIsAwaited
  <2>2. \/ pc' = pc
        \/ t # Aggregator /\ \E x \in {"counting", "failed"} : pc' = [pc EXCEPT ![t] = x]
    BY DEF Inserts, InsertOk, InsertFails, InsertUnanswered, FlushRaises
  <2> QED
    BY <1>2, <2>1, <2>2
<1>12. BegunIsKnown'
  <2> SUFFICES ASSUME NEW c \in Calls
               PROVE  pc[c] = "idle" <=> c \notin Held' \cup dropped' /\ rows'[c] = 0
    BY <1>11 DEF BegunIsKnown
  <2>1. pc[c] = "idle" <=> c \notin Held \cup dropped /\ rows[c] = 0
    BY DEF Inv, Places, BegunIsKnown
  <2>2. CASE c \in batch[t]
    BY <1>1, <1>2, <1>3, <1>6, <2>1, <2>2
  <2>3. CASE c \notin batch[t]
    BY <1>1, <1>3, <1>5, <2>1, <2>3
  <2> QED
    BY <2>2, <2>3
<1>13. BatchIsAwaited'
  <2>1. \A c \in Calls : c \in Tasks /\ c # Aggregator
    BY MeteringAssumption DEF Tasks
  <2>2. \A c \in Calls : c # t => pc'[c] = pc[c]
    BY <1>2 DEF Inserts, InsertOk, InsertFails, InsertUnanswered, FlushRaises
  <2>3. t # Aggregator => task' = task
    BY DEF Inserts, InsertOk, InsertFails, InsertUnanswered, FlushRaises
  <2>4. Aggregator \in Tasks
    BY DEF Tasks
  <2> QED
    BY <1>3, <2>1, <2>2, <2>3, <2>4 DEF Inv, Places, BatchIsAwaited
<1> QED
  BY <1>5, <1>7, <1>8, <1>9, <1>10, <1>12, <1>13 DEF Places

\* The process stops: all that is in memory is stored or dropped.
LEMMA StopKeeps ==
  ASSUME Inv, Stop
  PROVE  /\ BufferBelowLimit' /\ Places'
         /\ \E W \in SUBSET Held :
              /\ rows' = [c \in Calls |-> IF c \in W THEN rows[c] + 1 ELSE rows[c]]
              /\ dropped' = dropped \cup (Held \ W)
         /\ Held' = {}
<1>1. PICK committed \in SUBSET {t \in Tasks : batch[t] # {}} :
        LET saved == UNION {batch[t] : t \in committed} IN
        /\ \A c \in saved : rows[c] = 0
        /\ rows' = [c \in Calls |-> IF c \in saved THEN rows[c] + 1 ELSE rows[c]]
        /\ dropped' = dropped \cup (Held \ saved)
  BY DEF Stop, Held, InBatches
<1> DEFINE W == UNION {batch[t] : t \in committed}
<1>2. W \subseteq Held
  BY DEF Held, InBatches
<1>3. /\ rows' = [c \in Calls |-> IF c \in W THEN rows[c] + 1 ELSE rows[c]]
      /\ dropped' = dropped \cup (Held \ W)
      /\ \A c \in W : rows[c] = 0
  BY <1>1
<1> HIDE DEF W
<1>4. /\ buffer' = <<>> /\ batch' = [t \in Tasks |-> {}]
      /\ pc' = [c \in Calls |-> IF pc[c] \in {"flushing", "counting"} THEN "failed" ELSE pc[c]]
  BY DEF Stop
<1>5. Elements(buffer') = {} /\ IsDistinct(buffer') /\ Len(buffer') = 0
  BY <1>4, EmptyElements
<1>6. Held' = {}
  BY <1>4, <1>5, HeldMembers
<1>7. /\ \A c \in Calls : rows[c] \in Nat /\ rows'[c] = IF c \in W THEN rows[c] + 1 ELSE rows[c]
      /\ \A c \in Calls : pc'[c] = "idle" <=> pc[c] = "idle"
  BY <1>3, <1>4 DEF Inv, TypeOK
<1>8. BufferBelowLimit' /\ BufferIsDistinct' /\ BatchesAreDisjoint'
  BY <1>4, <1>5, MeteringAssumption
  DEF BufferBelowLimit, BufferIsDistinct, IsDistinct, BatchesAreDisjoint
<1>9. StoredOnce'
  BY <1>2, <1>3, <1>6, <1>7 DEF Inv, Places, StoredOnce, DroppedIsGone
<1>10. DroppedIsGone' /\ BegunIsKnown'
  BY <1>2, <1>3, <1>6, <1>7 DEF Inv, Places, DroppedIsGone, BegunIsKnown
<1>11. BatchIsAwaited'
  BY <1>4 DEF BatchIsAwaited, Tasks
<1> QED
  BY <1>2, <1>3, <1>6, <1>8, <1>9, <1>10, <1>11 DEF Places

LEMMA PlacesKept ==
  ASSUME Inv, [Next]_vars
  PROVE  BufferBelowLimit' /\ Places'
<1>1. CASE Start \/ NextDay \/ UNCHANGED vars
  BY <1>1, Unmoved DEF Start, NextDay, vars
<1>2. CASE Stop
  BY <1>2, StopKeeps
<1>3. ASSUME NEW c \in Calls, Track(c) PROVE BufferBelowLimit' /\ Places'
  BY <1>3, TrackKeeps
<1>4. ASSUME NEW c \in Calls, Count(c) \/ CountFails(c) PROVE BufferBelowLimit' /\ Places'
  <2>1. /\ UNCHANGED <<buffer, batch, rows, dropped>> /\ task' = task
        /\ \A x \in Calls : \/ pc'[x] = pc[x]
                            \/ pc[x] = "counting" /\ pc'[x] \in {"done", "failed"}
    BY <1>4 DEF Count, CountFails, Inv, TypeOK
  <2> QED
    BY <2>1, Unmoved
<1>5. ASSUME NEW t \in Tasks, Inserts(t) PROVE BufferBelowLimit' /\ Places'
  BY <1>5, InsertsKeep
<1>6. CASE Wake
  BY <1>6, WakeKeeps
<1>7. CASE Aggregate \/ AggregateFails
  <2>1. UNCHANGED <<buffer, batch, rows, dropped, pc>> /\ task.at = "aggregating"
    BY <1>7 DEF Aggregate, AggregateFails
  <2>2. batch[Aggregator] = {}
    BY <2>1 DEF Inv, Places, BatchIsAwaited
  <2> QED
    BY <2>1, <2>2, Unmoved
<1> QED
  BY <1>1, <1>2, <1>3, <1>4, <1>5, <1>6, <1>7 DEF Next

\* The strengthening holds of every behaviour.
LEMMA InvHolds == Spec => []Inv
<1>1. Inv /\ [Next]_vars => Inv'
  BY TypesKept, PlacesKept DEF Inv
<1> QED
  BY InitHolds, <1>1, PTL DEF Spec

-----------------------------------------------------------------------------
(* What is in one place is in no other.                                    *)

LEMMA CopiesCount ==
  ASSUME Inv, NEW c \in Calls
  PROVE  /\ Copies(c) <= 1
         /\ c \in Held \/ rows[c] # 0 => Copies(c) = 1
<1> DEFINE P == {i \in 1..Len(buffer) : buffer[i] = c}
           Q == {t \in Tasks : c \in batch[t]}
<1>1. Copies(c) = Cardinality(P) + Cardinality(Q) + rows[c]
  BY DEF Copies
<1>2. c \in Held <=> P # {} \/ Q # {}
  BY HeldMembers DEF Elements
<1>3. P = {} \/ \E i : P = {i}
  <2>1. \A i, j \in P : i = j
    BY DEF Inv, Places, BufferIsDistinct
  <2> QED
    BY <2>1
<1>4. Q = {} \/ \E t : Q = {t}
  BY DEF Inv, Places, BatchesAreDisjoint
<1>5. P = {} \/ Q = {}
  BY HeldMembers DEF Inv, Places, BatchesAreDisjoint, Elements
<1>6. rows[c] \in {0, 1} /\ (rows[c] = 1 => c \notin Held)
  BY DEF Inv, TypeOK, Places, StoredOnce
<1>7. /\ P = {} => Cardinality(P) = 0
      /\ P # {} => Cardinality(P) = 1
      /\ Q = {} => Cardinality(Q) = 0
      /\ Q # {} => Cardinality(Q) = 1
  BY <1>3, <1>4, FS_EmptySet, FS_Singleton
<1> HIDE DEF P, Q
<1> QED
  BY <1>1, <1>2, <1>5, <1>6, <1>7

\* The variables of metering keep their types: a day's aggregate never counts
\* more than there are events, and a task's batch is one of events.
THEOREM TypeCorrect == Spec => []TypeOK
BY InvHolds, PTL DEF Inv

\* usage_buffer never reaches its limit between two steps, whatever fails: the call
\* that fills it empties it at once.  Batches that wait for their insert are not in
\* it and not bounded by this.
THEOREM BufferIsBounded == Spec => []BufferBelowLimit
BY InvHolds, PTL DEF Inv

\* No event is in two places, for any calls and however flushes interleave.
THEOREM HeldCorrect == Spec => []HeldOnce
<1>1. Inv => HeldOnce
  BY CopiesCount DEF HeldOnce
<1> QED
  BY <1>1, InvHolds, PTL

\* An event that was tracked is in one place, or was given up with a failed
\* insert or with the process.
THEOREM NothingLost == Spec => []NothingVanishes
<1>1. Inv => NothingVanishes
  <2> SUFFICES ASSUME Inv, NEW c \in Calls, pc[c] # "idle", c \notin dropped
               PROVE  Copies(c) = 1
    BY DEF NothingVanishes
  <2>1. c \in Held \/ rows[c] # 0
    BY DEF Inv, Places, BegunIsKnown
  <2> QED
    BY <2>1, CopiesCount
<1> QED
  BY <1>1, InvHolds, PTL

-----------------------------------------------------------------------------
(* The refinement.                                                         *)

\* Stored(W) is what the log says of the events that are stored in one step.
Stores(W) == rows' = [e \in Calls |-> IF e \in W THEN rows[e] + 1 ELSE rows[e]]

LEMMA SettleStep ==
  ASSUME NEW S, NEW W, S \subseteq Held, W \subseteq S, S # {}, Stores(W),
         Held' = Held \ S, dropped' = dropped \cup (S \ W), UNCHANGED <<at, totals>>
  PROVE  Log!Next
<1>1. S \in (SUBSET Held) \ {{}} /\ W \in SUBSET S
  OBVIOUS
<1>2. Log!Settle(S, W)
  BY DEF Log!Settle, Stores, Held, InBatches
<1> QED
  BY <1>1, <1>2 DEF Log!Next, Held, InBatches

LEMMA LogStep == ASSUME Inv, Inv', [Next]_vars PROVE [Log!Next]_(Log!vars)
<1> DEFINE Stutters == Held' = Held /\ UNCHANGED <<rows, dropped, at, totals>>
<1>0. Stutters => UNCHANGED Log!vars
  BY DEF Log!vars, Held, InBatches
<1>1. CASE Start \/ NextDay \/ AggregateFails \/ UNCHANGED vars
  BY <1>0, <1>1 DEF Start, NextDay, AggregateFails, vars, Held, InBatches, Buffered
<1>2. CASE Stop
  <2>1. PICK W \in SUBSET Held : Stores(W) /\ dropped' = dropped \cup (Held \ W)
    BY <1>2, StopKeeps DEF Stores
  <2>2. Held' = {} /\ UNCHANGED <<at, totals>>
    BY <1>2, StopKeeps DEF Stop
  <2>3. CASE Held = {}
    <3>1. rows' = rows
      <4>1. \A e \in Calls : e \notin W
        BY <2>3
      <4>2. rows' = [e \in Calls |-> rows[e]]
        BY <2>1, <4>1 DEF Stores
      <4> QED
        BY <4>2 DEF Inv, TypeOK
    <3> QED
      BY <1>0, <2>1, <2>2, <2>3, <3>1
  <2>4. CASE Held # {}
    BY <2>1, <2>2, <2>4, SettleStep
  <2> QED
    BY <2>3, <2>4
<1>3. ASSUME NEW c \in Calls, Track(c) PROVE Log!Next
  <2>1. c \notin Held /\ c \notin dropped /\ rows[c] = 0
    BY <1>3 DEF Track, Inv, Places, BegunIsKnown
  <2>2. /\ Held' = Held \cup {c} /\ at' = [at EXCEPT ![c] = day]
        /\ UNCHANGED <<rows, dropped, totals>> /\ day \in Days
    BY <1>3, TrackKeeps DEF Track, Inv, TypeOK
  <2>3. PICK d \in Days : d = day
    BY <2>2
  <2>4. Log!Record(c, d)
    BY <2>1, <2>2, <2>3 DEF Log!Record, Log!New, Held, InBatches
  <2> QED
    BY <1>3, <2>4 DEF Log!Next
<1>4. ASSUME NEW c \in Calls, Count(c) \/ CountFails(c) PROVE UNCHANGED Log!vars
  BY <1>0, <1>4 DEF Count, CountFails, Held, InBatches, Buffered
<1>5. ASSUME NEW t \in Tasks, Inserts(t) PROVE Log!Next
  <2>1. /\ Held' = Held \ batch[t] /\ batch[t] # {} /\ batch[t] \subseteq Held
        /\ UNCHANGED <<at, totals>>
    BY <1>5, InsertsKeep
    DEF Inserts, InsertOk, InsertFails, InsertUnanswered, Held, InBatches
  <2>2. PICK S \in {{}, batch[t]} : Settled(t, S)
    BY <1>5, InsertsSettle
  <2>3. Stores(S) /\ S \subseteq batch[t] /\ dropped' = dropped \cup (batch[t] \ S)
    BY <2>2 DEF Settled, Stores
  <2> QED
    BY <2>1, <2>3, SettleStep
<1>6. CASE Wake
  BY <1>0, <1>6, WakeKeeps DEF Wake
<1>7. CASE Aggregate
  <2>1. Held' = Held /\ UNCHANGED <<rows, dropped, at>>
    BY <1>7 DEF Aggregate, Held, InBatches, Buffered
  <2>2. CASE totals' = totals
    BY <1>0, <2>1, <2>2
  <2>3. CASE totals' # totals
    <3> DEFINE d == task.today - 1
    <3>1. task.today # 0 /\ totals' = [totals EXCEPT ![d] = Total(d)]
      BY <1>7, <2>3 DEF Aggregate
    <3>2. d \in Days
      BY <3>1, MeteringAssumption DEF Days, Inv, TypeOK, DatesAreReal
    <3>3. Total(d) = Log!Cardinality({e \in Calls : at[e] = d /\ rows[e] > 0})
      BY DEF Total, StoredOn, Log!Cardinality, Cardinality
    <3> HIDE DEF d
    <3>4. Log!Report(d)
      BY <2>1, <3>1, <3>3 DEF Log!Report, Held, InBatches
    <3> QED
      BY <3>2, <3>4 DEF Log!Next
  <2> QED
    BY <2>2, <2>3
<1> QED
  BY <1>1, <1>2, <1>3, <1>4, <1>5, <1>6, <1>7 DEF Next

\* Metering implements the log: it starts as one, and each of its steps is one of
\* the log or leaves it alone.  (The liveness of the log is left to IsLog.)
THEOREM ImplementsLog == Spec => Log!Init /\ [][Log!Next]_(Log!vars)
<1>1. Init => Log!Init
  BY EmptyElements DEF Init, Log!Init, Buffered, Days
<1>2. Inv /\ Inv' /\ [Next]_vars => [Log!Next]_(Log!vars)
  BY LogStep
<1> QED
  BY <1>1, <1>2, InvHolds, PTL DEF Spec
=============================================================================
