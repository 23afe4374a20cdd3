------------------------------ MODULE Payments ------------------------------
(***************************************************************************)
(* Automatic payments of core/billing/billing_service.py.  Every process   *)
(* with a BillingService (the billing service, every API gateway) runs its *)
(* own _payment_processor over the shared tables; no query is in a         *)
(* transaction, and each await is a point where the others run and where   *)
(* the sweep may fail or die.                                              *)
(*                                                                         *)
(* Stripe is external.  The code confirms a payment intent and looks at    *)
(* nothing but whether that raises: an intent that does not may have moved *)
(* the money, may move it later (status processing), or never (status      *)
(* requires_action).                                                       *)
(***************************************************************************)
EXTENDS Naturals, FiniteSets

CONSTANTS
  Processes,
  Invoices,    \* ids of invoices of one tenant
  Subs,        \* its subscriptions, active or ended, that renew with a method
  MaxIntents,  \* bound on the intents of a process for an invoice
  NoInvoice

ASSUME PaymentsAssumption ==
  /\ MaxIntents \in Nat \ {0}
  /\ NoInvoice \notin Invoices

VARIABLES
  invoice,   \* invoices.status, "overdue" being pending beyond the due date
  pay,       \* per process: the pass of _process_auto_payments
  intents,   \* history: intents Stripe confirmed, per process and invoice
  moved,     \* history: invoices whose money an intent has moved
  payments,  \* rows of payments, per process that inserted them and invoice
  failed     \* history: intents whose call did not get to mark the invoice paid

vars == <<invoice, pay, intents, moved, payments, failed>>
records == <<intents, moved, payments, failed>>

\* "loop" is between two invoices, "read" after the read of the default payment
\* method, "unpaid" after that of the invoice, "answered" after Stripe's
\* answer and "recorded" after the insertion of the payment.
Sweeps == [at   : {"idle", "loop", "read", "unpaid", "answered", "recorded"},
           todo : SUBSET (Invoices \X Subs),
           on   : Invoices \cup {NoInvoice}]

NoSweep == [at |-> "idle", todo |-> {}, on |-> NoInvoice]

Counts == [Processes -> [Invoices -> 0..MaxIntents]]
Zero == [p \in Processes |-> [i \in Invoices |-> 0]]
Incremented(count, p, i) == [count EXCEPT ![p][i] = @ + 1]

TypeOK ==
  /\ invoice \in [Invoices -> {"pending", "overdue", "paid"}]
  /\ pay \in [Processes -> Sweeps]
  /\ intents \in Counts /\ payments \in Counts /\ failed \in Counts
  /\ moved \in SUBSET Invoices

Init ==
  /\ invoice = [i \in Invoices |-> "pending"]
  /\ pay = [p \in Processes |-> NoSweep]
  /\ intents = Zero /\ payments = Zero /\ failed = Zero
  /\ moved = {}

\* The due date of an invoice passes.
FallsDue(i) ==
  /\ invoice[i] = "pending"
  /\ invoice' = [invoice EXCEPT ![i] = "overdue"]
  /\ UNCHANGED <<pay, records>>

-----------------------------------------------------------------------------
(* _process_auto_payments and process_payment.                             *)

\* The join gives each overdue invoice once per subscription.
Due == {i \in Invoices : invoice[i] = "overdue"} \X Subs

SweepStart(p) ==
  /\ pay[p].at = "idle"
  /\ Due # {}
  /\ pay' = [pay EXCEPT ![p] = [at |-> "loop", todo |-> Due, on |-> NoInvoice]]
  /\ UNCHANGED <<invoice, records>>

\* The tenant of the next one has a default payment method; without one, and
\* when a query fails, the loop goes on (SweepSkips).
SweepNext(p, x) ==
  /\ pay[p].at = "loop"
  /\ x \in pay[p].todo
  /\ pay' = [pay EXCEPT ![p] = [at |-> "read", todo |-> @.todo \ {x}, on |-> x[1]]]
  /\ UNCHANGED <<invoice, records>>

\* Mutant: process_payment trusts the status the sweep read.
PayableAnyway(i) == TRUE

Payable(i) == invoice[i] # "paid"

\* process_payment reads the invoice again; it raises when it is paid.
PayRead(p) ==
  /\ pay[p].at = "read"
  /\ Payable(pay[p].on)
  /\ pay' = [pay EXCEPT ![p].at = "unpaid"]
  /\ UNCHANGED <<invoice, records>>

\* Mutant: the invoice is marked paid without a record of the payment.
UnrecordedStep == "recorded"

StepAfterCharge == "answered"

\* Stripe confirms an intent of p for the invoice it is on, which moves the money
\* or does not.
Confirms(p) ==
  /\ pay[p].at = "unpaid"
  /\ intents[p][pay[p].on] < MaxIntents
  /\ intents' = Incremented(intents, p, pay[p].on)
  /\ moved' \in {moved, moved \cup {pay[p].on}}

\* The intent is answered.  Whatever its status, the code goes on.
PayCharge(p) ==
  /\ Confirms(p)
  /\ pay' = [pay EXCEPT ![p].at = StepAfterCharge]
  /\ UNCHANGED <<invoice, payments, failed>>

PayRecord(p) ==
  /\ pay[p].at = "answered"
  /\ payments' = Incremented(payments, p, pay[p].on)
  /\ pay' = [pay EXCEPT ![p].at = "recorded"]
  /\ UNCHANGED <<invoice, intents, moved, failed>>

\* Mutant: the status of the payment intent becomes that of the invoice.
IntentStatus == "succeeded"

PaidStatus == "paid"

PayMark(p) ==
  /\ pay[p].at = "recorded"
  /\ invoice' = [invoice EXCEPT ![pay[p].on] = PaidStatus]
  /\ pay' = [pay EXCEPT ![p].at = "loop", ![p].on = NoInvoice]
  /\ UNCHANGED records

\* The intent stands and the invoice stays pending.
FailedBy(p) ==
  IF pay[p].at \in {"answered", "recorded"} THEN Incremented(failed, p, pay[p].on) ELSE failed

\* No default payment method, an invoice already paid, a charge that Stripe
\* refuses, or a query that fails, before or after the intent: the loop goes on.
SweepSkips(p) ==
  /\ pay[p].at \in {"read", "unpaid", "answered", "recorded"}
  /\ failed' = FailedBy(p)
  /\ pay' = [pay EXCEPT ![p].at = "loop", ![p].on = NoInvoice]
  /\ UNCHANGED <<invoice, intents, moved, payments>>

\* The intent is confirmed and its answer is lost: a StripeError all the same.
AnswerLost(p) ==
  /\ Confirms(p)
  /\ failed' = Incremented(failed, p, pay[p].on)
  /\ pay' = [pay EXCEPT ![p].at = "loop", ![p].on = NoInvoice]
  /\ UNCHANGED <<invoice, payments>>

SweepEnd(p) ==
  /\ pay[p].at = "loop"
  /\ pay[p].todo = {}
  /\ pay' = [pay EXCEPT ![p] = NoSweep]
  /\ UNCHANGED <<invoice, records>>

-----------------------------------------------------------------------------
\* A process dies and starts again, and its sweep with it.
Restart(p) ==
  /\ failed' = FailedBy(p)
  /\ pay' = [pay EXCEPT ![p] = NoSweep]
  /\ UNCHANGED <<invoice, intents, moved, payments>>

\* An intent that was processing moves the money.
Settles(i) ==
  /\ \E p \in Processes : intents[p][i] > 0
  /\ moved' = moved \cup {i}
  /\ UNCHANGED <<invoice, pay, intents, payments, failed>>

Next ==
  \/ \E i \in Invoices : FallsDue(i) \/ Settles(i)
  \/ \E p \in Processes :
       \/ SweepStart(p) \/ PayRead(p) \/ PayCharge(p) \/ PayRecord(p) \/ PayMark(p)
       \/ SweepSkips(p) \/ AnswerLost(p) \/ SweepEnd(p) \/ Restart(p)
       \/ \E x \in Invoices \X Subs : SweepNext(p, x)

Spec == Init /\ [][Next]_vars

-----------------------------------------------------------------------------
(* Properties.                                                             *)

\* One process asks Stripe twice for the money of an invoice only if an earlier
\* call of its own had an intent and failed to mark the invoice paid: a sweep that
\* meets the invoice once per subscription, or that began before another payment,
\* does not.
EachChargesOnce ==
  \A p \in Processes, i \in Invoices : intents[p][i] <= 1 + failed[p][i]

\* An invoice is paid only when the table has a payment of it, and behind every
\* payment of that process is an intent of its own.  Whether the intent moved money
\* is another matter, see PaidIsCharged.
PaidIsRecorded ==
  \A i \in Invoices : invoice[i] = "paid" =>
    \E p \in Processes : payments[p][i] > 0 /\ payments[p][i] <= intents[p][i]

\* Money that moved for an invoice has the invoice paid, unless a call for it is
\* still under way or failed after Stripe had confirmed its intent.
MoneyIsBooked ==
  \A i \in moved :
    \/ invoice[i] = "paid"
    \/ \E p \in Processes :
         \/ pay[p].on = i /\ pay[p].at \in {"answered", "recorded"}
         \/ failed[p][i] > 0

(* What the source says of a payment and does not keep.                    *)

\* billing_service.py:769 "Payment processed successfully for invoice": the money
\* of an invoice that was marked paid has moved.
PaidIsCharged == \A i \in Invoices : invoice[i] = "paid" => i \in moved
=============================================================================
