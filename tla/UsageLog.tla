------------------------------ MODULE UsageLog ------------------------------
(***************************************************************************)
(* What usage metering promises, without buffers, batches and tasks: an    *)
(* event that was recorded is held in memory until it is either stored,    *)
(* once, or given up, and it is not held for ever; a day's report says     *)
(* what was stored for that day when the report was made.                  *)
(***************************************************************************)
EXTENDS Naturals, FiniteSets

CONSTANTS Events, Days

VARIABLES
  held,    \* events in memory
  stored,  \* how often each event is in the table
  lost,    \* events given up
  on,      \* the day of each event
  report   \* the count reported for each day

vars == <<held, stored, lost, on, report>>

Init ==
  /\ held = {}
  /\ stored = [e \in Events |-> 0]
  /\ lost = {}
  /\ on = [e \in Events |-> 0]
  /\ report = [d \in Days |-> 0]

New(e) == e \notin held \cup lost /\ stored[e] = 0

Record(e, d) ==
  /\ New(e)
  /\ held' = held \cup {e}
  /\ on' = [on EXCEPT ![e] = d]
  /\ UNCHANGED <<stored, lost, report>>

\* Held events S are settled: those of W are stored, the others given up.
Settle(S, W) ==
  /\ held' = held \ S
  /\ stored' = [e \in Events |-> IF e \in W THEN stored[e] + 1 ELSE stored[e]]
  /\ lost' = lost \cup (S \ W)
  /\ UNCHANGED <<on, report>>

Report(d) ==
  /\ report' = [report EXCEPT ![d] = Cardinality({e \in Events : on[e] = d /\ stored[e] > 0})]
  /\ UNCHANGED <<held, stored, lost, on>>

Next ==
  \/ \E e \in Events, d \in Days : Record(e, d)
  \/ \E S \in (SUBSET held) \ {{}} : \E W \in SUBSET S : Settle(S, W)
  \/ \E d \in Days : Report(d)

\* Nothing is held for ever.
Settled == \A e \in Events : e \in held ~> e \notin held

Spec == Init /\ [][Next]_vars /\ Settled
=============================================================================
