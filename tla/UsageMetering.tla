--------------------------- MODULE UsageMetering ---------------------------
(***************************************************************************)
(* Usage metering in core/billing/billing_service.py: track_usage buffers  *)
(* events in memory, a full buffer is flushed by the call that filled it,  *)
(* a background task flushes what is left and aggregates yesterday's rows. *)
(*                                                                         *)
(* Each call of track_usage records one event, named by the call.  Every   *)
(* await on PostgreSQL or Redis is a point where other calls and the task  *)
(* run.  The calendar is scaled down: months have DaysPerMonth days, and   *)
(* the 32 days of the code are DaysPerMonth + 1.                           *)
(***************************************************************************)
EXTENDS Naturals, Sequences, FiniteSets

CONSTANTS
  Calls,         \* calls of track_usage, each used once
  Aggregator,    \* the background task _usage_aggregator
  BufferSize,    \* config buffer_size
  DaysPerMonth,
  MaxDay,        \* bound: days are 0..MaxDay
  MayFail        \* may PostgreSQL or Redis fail, or the process stop?

ASSUME MeteringAssumption ==
  /\ IsFiniteSet(Calls) /\ Aggregator \notin Calls
  /\ BufferSize \in Nat \ {0}
  /\ DaysPerMonth \in Nat \ {0}
  /\ MaxDay \in Nat
  /\ MayFail \in BOOLEAN

VARIABLES
  up,       \* is the service running?
  day,      \* today
  pc,       \* where each call is
  at,       \* the timestamp of each call's event
  buffer,   \* self.usage_buffer
  batch,    \* what a call or the task is inserting
  task,     \* where the task is
  rows,     \* usage_events: how many rows each event has
  counted,  \* calls whose value is in the Redis counter
  totals,   \* usage_aggregates.count by day
  parts,    \* partitions of usage_events: name |-> first month not covered
  dropped   \* history: events given up by a failed insert or with the process

vars == <<up, day, pc, at, buffer, batch, task, rows, counted, totals, parts, dropped>>

Days == 0..MaxDay
Month(d) == d \div DaysPerMonth
Tasks == Calls \cup {Aggregator}
Asleep == [at |-> "sleeping", today |-> 0]

TypeOK ==
  /\ up \in BOOLEAN
  /\ day \in Days
  /\ pc \in [Calls -> {"idle", "flushing", "counting", "done", "failed"}]
  /\ at \in [Calls -> Days]
  /\ buffer \in Seq(Calls)
  /\ batch \in [Tasks -> SUBSET Calls]
  /\ task \in [at : {"sleeping", "flushing", "aggregating"}, today : Nat]
  /\ rows \in [Calls -> Nat]
  /\ counted \in SUBSET Calls
  /\ totals \in [Days -> 0..Cardinality(Calls)]
  /\ parts \in [0..Month(MaxDay) -> Nat]
  /\ dropped \in SUBSET Calls

Init ==
  /\ up = FALSE
  /\ day = 0
  /\ pc = [c \in Calls |-> "idle"]
  /\ at = [c \in Calls |-> 0]
  /\ buffer = <<>>
  /\ batch = [t \in Tasks |-> {}]
  /\ task = Asleep
  /\ rows = [c \in Calls |-> 0]
  /\ counted = {}
  /\ totals = [d \in Days |-> 0]
  /\ parts = [m \in 0..Month(MaxDay) |-> 0]
  /\ dropped = {}

Buffered == {buffer[i] : i \in 1..Len(buffer)}

-----------------------------------------------------------------------------
(* The service starts and stops.                                           *)

\* Partition m is the table named after month m, for the months m..parts[m]-1.
Covered(m) == \E n \in DOMAIN parts : n <= m /\ m < parts[n]

\* Where the partition created on day d ends: the month of now + 32 days.
PartitionEnd(d) == Month(d + DaysPerMonth + 1)

Overlaps(m) == \E n \in m..(PartitionEnd(day) - 1) : Covered(n)

\* CREATE TABLE IF NOT EXISTS looks at the name alone; a new partition that
\* overlaps an older one is refused, and the service does not come up.
Start ==
  /\ ~up
  /\ LET m == Month(day) IN
     IF parts[m] # 0 THEN UNCHANGED parts
     ELSE /\ ~Overlaps(m)
          /\ parts' = [parts EXCEPT ![m] = PartitionEnd(day)]
  /\ up' = TRUE
  /\ UNCHANGED <<day, pc, at, buffer, batch, task, rows, counted, totals, dropped>>

\* The process dies, or cleanup closes the pool: nobody flushes the buffer.  An
\* insert under way may or may not have been committed.
Stop ==
  /\ MayFail
  /\ up
  /\ \E committed \in SUBSET {t \in Tasks : batch[t] # {}} :
       LET saved == UNION {batch[t] : t \in committed}
           lost  == (Buffered \cup UNION {batch[t] : t \in Tasks}) \ saved
       IN  /\ \A c \in saved : Covered(Month(at[c])) /\ rows[c] = 0
           /\ rows' = [c \in Calls |-> IF c \in saved THEN rows[c] + 1 ELSE rows[c]]
           /\ dropped' = dropped \cup lost
  /\ up' = FALSE
  /\ buffer' = <<>>
  /\ batch' = [t \in Tasks |-> {}]
  /\ task' = Asleep
  /\ pc' = [c \in Calls |-> IF pc[c] \in {"flushing", "counting"} THEN "failed" ELSE pc[c]]
  /\ UNCHANGED <<day, at, counted, totals, parts>>

NextDay ==
  /\ day < MaxDay
  /\ day' = day + 1
  /\ UNCHANGED <<up, pc, at, buffer, batch, task, rows, counted, totals, parts, dropped>>

-----------------------------------------------------------------------------
(* Flushing.                                                               *)

\* Mutant: the events leave the buffer only with the next flush.
FlushCopies(t, b) ==
  /\ batch' = [batch EXCEPT ![t] = {b[i] : i \in 1..Len(b)}]
  /\ buffer' = b

\* The part of _flush_usage_buffer before its first await, on buffer b: the
\* events leave the buffer before they are written.
Flush(t, b) ==
  LET n == IF Len(b) < BufferSize THEN Len(b) ELSE BufferSize IN
  /\ batch' = [batch EXCEPT ![t] = {b[i] : i \in 1..n}]
  /\ buffer' = SubSeq(b, n + 1, Len(b))

\* Mutant: the buffer is emptied once the rows are written.
EmptiedAfterInsert(t) ==
  /\ rows' = [c \in Calls |-> IF c \in batch[t] THEN rows[c] + 1 ELSE rows[c]]
  /\ buffer' = <<>>

\* executemany writes all rows or none.
Written(t) ==
  /\ rows' = [c \in Calls |-> IF c \in batch[t] THEN rows[c] + 1 ELSE rows[c]]
  /\ UNCHANGED buffer

Insertable(t) == \A c \in batch[t] : Covered(Month(at[c])) /\ rows[c] = 0

\* The flush raises: the caller of track_usage gets the exception and skips the
\* counter, the task logs it and sleeps.
FlushRaises(t) ==
  /\ pc' = IF t = Aggregator THEN pc ELSE [pc EXCEPT ![t] = "failed"]
  /\ task' = IF t = Aggregator THEN Asleep ELSE task

InsertOk(t) ==
  /\ batch[t] # {}
  /\ Insertable(t)
  /\ Written(t)
  /\ batch' = [batch EXCEPT ![t] = {}]
  /\ pc' = IF t = Aggregator THEN pc ELSE [pc EXCEPT ![t] = "counting"]
  /\ task' = IF t = Aggregator THEN [at |-> "aggregating", today |-> day] ELSE task
  /\ UNCHANGED <<up, day, at, counted, totals, parts, dropped>>

\* The insert is refused or the database unreachable: the batch is gone.
InsertFails(t) ==
  /\ batch[t] # {}
  /\ MayFail \/ ~Insertable(t)
  /\ dropped' = dropped \cup batch[t]
  /\ batch' = [batch EXCEPT ![t] = {}]
  /\ FlushRaises(t)
  /\ UNCHANGED <<up, day, at, buffer, rows, counted, totals, parts>>

\* The rows are committed and the connection breaks before the answer.
InsertUnanswered(t) ==
  /\ MayFail
  /\ batch[t] # {}
  /\ Insertable(t)
  /\ Written(t)
  /\ batch' = [batch EXCEPT ![t] = {}]
  /\ FlushRaises(t)
  /\ UNCHANGED <<up, day, at, counted, totals, parts, dropped>>

-----------------------------------------------------------------------------
(* track_usage.                                                            *)

\* Mutant: the buffer is flushed once it holds more than buffer_size events.
FullLate(b) == Len(b) > BufferSize

Full(b) == Len(b) >= BufferSize

Track(c) ==
  /\ up
  /\ pc[c] = "idle"
  /\ at' = [at EXCEPT ![c] = day]
  /\ LET b == Append(buffer, c) IN
     IF Full(b)
     THEN Flush(c, b) /\ pc' = [pc EXCEPT ![c] = "flushing"]
     ELSE buffer' = b /\ UNCHANGED batch /\ pc' = [pc EXCEPT ![c] = "counting"]
  /\ UNCHANGED <<up, day, task, rows, counted, totals, parts, dropped>>

\* incrbyfloat and expire on the counter of the month.
Count(c) ==
  /\ pc[c] = "counting"
  /\ counted' = counted \cup {c}
  /\ pc' = [pc EXCEPT ![c] = "done"]
  /\ UNCHANGED <<up, day, at, buffer, batch, task, rows, totals, parts, dropped>>

CountFails(c) ==
  /\ MayFail
  /\ pc[c] = "counting"
  /\ pc' = [pc EXCEPT ![c] = "failed"]
  /\ UNCHANGED <<up, day, at, buffer, batch, task, rows, counted, totals, parts, dropped>>

-----------------------------------------------------------------------------
(* The background task.                                                    *)

\* Mutant: the task does not flush a buffer that is not full.
WakeLazily ==
  /\ up
  /\ task = Asleep
  /\ task' = [at |-> "aggregating", today |-> day]
  /\ UNCHANGED <<up, day, pc, at, buffer, batch, rows, counted, totals, parts, dropped>>

\* The date is read as _aggregate_daily_usage starts, before its first await.
Wake ==
  /\ up
  /\ task = Asleep
  /\ IF buffer # <<>>
     THEN Flush(Aggregator, buffer) /\ task' = [Asleep EXCEPT !.at = "flushing"]
     ELSE UNCHANGED <<batch, buffer>> /\ task' = [at |-> "aggregating", today |-> day]
  /\ UNCHANGED <<up, day, pc, at, rows, counted, totals, parts, dropped>>

StoredOn(d) == {c \in Calls : at[c] = d /\ rows[c] > 0}

\* Mutant: an aggregate that exists is added to.
TotalAdded(d) == totals[d] + Cardinality(StoredOn(d))

\* ON CONFLICT the count is replaced.
Total(d) == Cardinality(StoredOn(d))

\* yesterday's rows are counted by one statement, so a consistent snapshot.
Aggregate ==
  /\ task.at = "aggregating"
  /\ totals' = IF task.today = 0 \/ StoredOn(task.today - 1) = {} THEN totals
               ELSE [totals EXCEPT ![task.today - 1] = Total(task.today - 1)]
  /\ task' = Asleep
  /\ UNCHANGED <<up, day, pc, at, buffer, batch, rows, counted, parts, dropped>>

AggregateFails ==
  /\ MayFail
  /\ task.at = "aggregating"
  /\ task' = Asleep
  /\ UNCHANGED <<up, day, pc, at, buffer, batch, rows, counted, totals, parts, dropped>>

-----------------------------------------------------------------------------
Inserts(t) == InsertOk(t) \/ InsertFails(t) \/ InsertUnanswered(t)

Next ==
  \/ Start \/ Stop \/ NextDay
  \/ \E c \in Calls : Track(c) \/ Count(c) \/ CountFails(c)
  \/ \E t \in Tasks : Inserts(t)
  \/ Wake \/ Aggregate \/ AggregateFails

Spec == Init /\ [][Next]_vars

\* The event loop runs what can run and PostgreSQL answers or fails; the task
\* is a `while True` that catches every exception, so it wakes for ever.
Fairness ==
  /\ \A t \in Tasks : WF_vars(Inserts(t))
  /\ WF_vars(Wake)
  /\ WF_vars(Aggregate \/ AggregateFails)

FairSpec == Spec /\ Fairness

-----------------------------------------------------------------------------
\* The buffer is below buffer_size whenever another call can run: the call that
\* fills it empties it before it awaits.  This bounds usage_buffer alone: each flush
\* that hangs in its insert keeps a batch of its own, and nothing bounds those.
BufferBelowLimit == Len(buffer) < BufferSize

Copies(c) ==
  Cardinality({i \in 1..Len(buffer) : buffer[i] = c})
  + Cardinality({t \in Tasks : c \in batch[t]})
  + rows[c]

\* No event is in two places, however flushes of calls and of the task
\* interleave: none is charged twice.
HeldOnce == \A c \in Calls : Copies(c) <= 1

\* An event that was tracked is buffered, being written, stored, or was given
\* up with a failed insert or with the process: none vanishes in between.
NothingVanishes ==
  \A c \in Calls : pc[c] # "idle" => Copies(c) = 1 \/ c \in dropped

\* The service is a log of usage: every event tracked is stored once or given up,
\* and in the end one of both, however calls, task, failures and restarts
\* interleave; a day's aggregate is what was stored for it when it was made.
Log == INSTANCE UsageLog WITH
  Events <- Calls,
  held   <- Buffered \cup UNION {batch[t] : t \in Tasks},
  stored <- rows,
  lost   <- dropped,
  on     <- at,
  report <- totals

IsLog == Log!Spec
=============================================================================
