--------------------------- MODULE PaymentsProofs ---------------------------
(***************************************************************************)
(* What is proved of Payments for every set of processes, invoices and     *)
(* subscriptions and every bound on the intents.                           *)
(***************************************************************************)
EXTENDS Payments, TLAPS

\* The call of process_payment that process p has under way for invoice i.
At(p, i, steps) == pay[p].on = i /\ pay[p].at \in steps

\* A sweep that is past its loop works on an invoice.
OnInvoice ==
  \A p \in Processes :
    pay[p].at \in {"read", "unpaid", "answered", "recorded"} => pay[p].on \in Invoices

\* The balance of a process and an invoice: an intent that is neither failed nor
\* under way has marked the invoice paid.
Balance(p, i) ==
  /\ failed[p][i] <= intents[p][i]
  /\ payments[p][i] <= intents[p][i]
  /\ intents[p][i] <= failed[p][i] + 1
  /\ invoice[i] # "paid" /\ ~At(p, i, {"answered", "recorded"}) =>
       intents[p][i] <= failed[p][i]
  /\ At(p, i, {"unpaid"}) => intents[p][i] <= failed[p][i]
  /\ At(p, i, {"answered", "recorded"}) => failed[p][i] < intents[p][i]
  /\ At(p, i, {"answered"}) => payments[p][i] < intents[p][i]
  /\ At(p, i, {"recorded"}) => payments[p][i] > 0

PaidHasPayment ==
  \A i \in Invoices : invoice[i] = "paid" => \E p \in Processes : payments[p][i] > 0

\* Money is moved by intents.
MovedHasIntent ==
  \A i \in moved : \E p \in Processes : intents[p][i] > 0

IInv ==
  /\ TypeOK
  /\ OnInvoice
  /\ \A p \in Processes, i \in Invoices : Balance(p, i)
  /\ PaidHasPayment
  /\ MovedHasIntent

-----------------------------------------------------------------------------

LEMMA IncrementedAt ==
  ASSUME NEW count \in Counts, NEW p \in Processes, NEW i \in Invoices,
         count[p][i] < MaxIntents
  PROVE  /\ Incremented(count, p, i) \in Counts
         /\ \A q \in Processes, j \in Invoices :
              Incremented(count, p, i)[q][j] =
                IF q = p /\ j = i THEN count[q][j] + 1 ELSE count[q][j]
BY PaymentsAssumption DEF Incremented, Counts

LEMMA InitHolds == Init => IInv
<1>1. \A p \in Processes, i \in Invoices : Zero[p][i] = 0
  BY DEF Zero
<1>2. Zero \in Counts
  BY PaymentsAssumption DEF Zero, Counts
<1> QED
  BY <1>1, <1>2
  DEF Init, IInv, TypeOK, OnInvoice, Balance, At, PaidHasPayment, MovedHasIntent, Sweeps,
      NoSweep

\* The counts are bounded naturals.
LEMMA CountsAreNat ==
  ASSUME TypeOK, NEW p \in Processes, NEW i \in Invoices
  PROVE  /\ intents[p][i] \in Nat /\ intents[p][i] <= MaxIntents
         /\ payments[p][i] \in Nat /\ failed[p][i] \in Nat
BY PaymentsAssumption DEF TypeOK, Counts

\* What the restart, or the failure, of a sweep leaves in `failed`.
LEMMA FailedByCounts ==
  ASSUME IInv, NEW p \in Processes
  PROVE  /\ FailedBy(p) \in Counts
         /\ \A q \in Processes, j \in Invoices :
              FailedBy(p)[q][j] = IF q = p /\ At(p, j, {"answered", "recorded"})
                                  THEN failed[q][j] + 1 ELSE failed[q][j]
<1> USE DEF IInv
<1>1. CASE pay[p].at \in {"answered", "recorded"}
  <2>1. pay[p].on \in Invoices
    BY <1>1 DEF OnInvoice
  <2>2. failed[p][pay[p].on] < intents[p][pay[p].on]
    BY <1>1, <2>1 DEF Balance, At
  <2>3. failed[p][pay[p].on] < MaxIntents
    BY <2>1, <2>2, CountsAreNat, PaymentsAssumption
  <2>4. failed \in Counts
    BY DEF TypeOK
  <2> QED
    BY <1>1, <2>1, <2>3, <2>4, IncrementedAt DEF FailedBy, At
<1>2. CASE pay[p].at \notin {"answered", "recorded"}
  BY <1>2 DEF FailedBy, At, TypeOK
<1> QED
  BY <1>1, <1>2

\* Steps that move no money.
LEMMA LoopStepHolds ==
  ASSUME IInv, NEW p \in Processes,
         \/ SweepStart(p) \/ SweepEnd(p) \/ PayRead(p)
         \/ \E x \in Invoices \X Subs : SweepNext(p, x)
  PROVE  IInv'
<1> USE DEF IInv
<1>1. /\ UNCHANGED <<invoice, intents, moved, payments, failed>>
      /\ \A q \in Processes : q # p => pay'[q] = pay[q]
      /\ pay'[p].at \in {"idle", "loop", "read", "unpaid"}
      /\ pay'[p].at \in {"read", "unpaid"} => pay'[p].on \in Invoices
      /\ pay'[p].at = "unpaid" => invoice[pay'[p].on] # "paid" /\ pay[p].at = "read"
      /\ pay[p].at \notin {"answered", "recorded"}
      /\ pay' \in [Processes -> Sweeps]
  BY DEF SweepStart, SweepEnd, PayRead, SweepNext, Due, NoSweep, Payable, records,
         TypeOK, Sweeps, OnInvoice
<1>2. TypeOK' /\ OnInvoice' /\ PaidHasPayment' /\ MovedHasIntent'
  BY <1>1 DEF TypeOK, OnInvoice, PaidHasPayment, MovedHasIntent
<1>3. ASSUME NEW q \in Processes, NEW j \in Invoices PROVE Balance(q, j)'
  BY <1>1, CountsAreNat DEF Balance, At
<1> QED
  BY <1>2, <1>3

\* The count of an intent, and the money it may have moved.
LEMMA ConfirmsCounts ==
  ASSUME IInv, NEW p \in Processes, Confirms(p)
  PROVE  /\ pay[p].at = "unpaid" /\ pay[p].on \in Invoices
         /\ intents' \in Counts
         /\ intents[p][pay[p].on] < MaxIntents
         /\ \A q \in Processes, j \in Invoices :
              intents'[q][j] = IF q = p /\ j = pay[p].on THEN intents[q][j] + 1 ELSE intents[q][j]
         /\ moved' \in SUBSET Invoices /\ MovedHasIntent'
<1> USE DEF IInv
<1>1. /\ pay[p].at = "unpaid" /\ pay[p].on \in Invoices
      /\ intents \in Counts
      /\ intents[p][pay[p].on] < MaxIntents
  BY DEF Confirms, OnInvoice, TypeOK
<1>2. /\ intents' \in Counts
      /\ \A q \in Processes, j \in Invoices :
           intents'[q][j] = IF q = p /\ j = pay[p].on THEN intents[q][j] + 1 ELSE intents[q][j]
  BY <1>1, IncrementedAt DEF Confirms
<1>3. moved' \subseteq moved \cup {pay[p].on} /\ moved \in SUBSET Invoices
  BY DEF Confirms, TypeOK
<1>4. intents'[p][pay[p].on] > 0
  BY <1>1, <1>2, CountsAreNat
<1>5. ASSUME NEW i \in moved PROVE \E q \in Processes : intents'[q][i] > 0
  BY <1>2, <1>3, <1>5, CountsAreNat DEF MovedHasIntent
<1>6. MovedHasIntent'
  BY <1>3, <1>4, <1>5 DEF MovedHasIntent
<1> QED
  BY <1>1, <1>2, <1>3, <1>6

\* Stripe answers.
LEMMA PayChargeHolds ==
  ASSUME IInv, NEW p \in Processes, PayCharge(p)
  PROVE  IInv'
<1> USE DEF IInv
<1>1. /\ pay[p].at = "unpaid" /\ pay[p].on \in Invoices
      /\ intents' \in Counts
      /\ \A q \in Processes, j \in Invoices :
           intents'[q][j] = IF q = p /\ j = pay[p].on THEN intents[q][j] + 1 ELSE intents[q][j]
      /\ moved' \in SUBSET Invoices /\ MovedHasIntent'
  BY ConfirmsCounts DEF PayCharge
<1>3. /\ UNCHANGED <<invoice, payments, failed>>
      /\ \A q \in Processes : q # p => pay'[q] = pay[q]
      /\ pay'[p].at = "answered" /\ pay'[p].on = pay[p].on
      /\ pay' \in [Processes -> Sweeps]
  BY DEF PayCharge, StepAfterCharge, TypeOK, Sweeps
<1>4. TypeOK' /\ OnInvoice' /\ PaidHasPayment'
  BY <1>1, <1>3 DEF TypeOK, OnInvoice, PaidHasPayment
<1>5. ASSUME NEW q \in Processes, NEW j \in Invoices PROVE Balance(q, j)'
  BY <1>1, <1>3, CountsAreNat DEF Balance, At
<1> QED
  BY <1>1, <1>4, <1>5

\* The payment is inserted.
LEMMA PayRecordHolds ==
  ASSUME IInv, NEW p \in Processes, PayRecord(p)
  PROVE  IInv'
<1> USE DEF IInv
<1>1. pay[p].at = "answered" /\ pay[p].on \in Invoices /\ payments \in Counts
  BY DEF PayRecord, OnInvoice, TypeOK
<1>2. payments[p][pay[p].on] < MaxIntents
  BY <1>1, CountsAreNat, PaymentsAssumption DEF Balance, At
<1>3. /\ payments' \in Counts
      /\ \A q \in Processes, j \in Invoices :
           payments'[q][j] = IF q = p /\ j = pay[p].on THEN payments[q][j] + 1 ELSE payments[q][j]
  BY <1>1, <1>2, IncrementedAt DEF PayRecord
<1>4. /\ UNCHANGED <<invoice, intents, moved, failed>>
      /\ \A q \in Processes : q # p => pay'[q] = pay[q]
      /\ pay'[p].at = "recorded" /\ pay'[p].on = pay[p].on
      /\ pay' \in [Processes -> Sweeps]
  BY DEF PayRecord, TypeOK, Sweeps
<1>5. TypeOK' /\ OnInvoice' /\ MovedHasIntent'
  BY <1>1, <1>3, <1>4 DEF TypeOK, OnInvoice, MovedHasIntent
<1>6. PaidHasPayment'
  BY <1>3, <1>4, CountsAreNat DEF PaidHasPayment
<1>7. ASSUME NEW q \in Processes, NEW j \in Invoices PROVE Balance(q, j)'
  BY <1>1, <1>3, <1>4, CountsAreNat DEF Balance, At
<1> QED
  BY <1>5, <1>6, <1>7

\* The invoice is marked paid.
LEMMA PayMarkHolds ==
  ASSUME IInv, NEW p \in Processes, PayMark(p)
  PROVE  IInv'
<1> USE DEF IInv
<1>1. pay[p].at = "recorded" /\ pay[p].on \in Invoices
  BY DEF PayMark, OnInvoice
<1>2. /\ UNCHANGED <<intents, moved, payments, failed>>
      /\ \A q \in Processes : q # p => pay'[q] = pay[q]
      /\ pay'[p].at = "loop" /\ pay'[p].on = NoInvoice
      /\ pay' \in [Processes -> Sweeps]
      /\ invoice' \in [Invoices -> {"pending", "overdue", "paid"}]
      /\ \A j \in Invoices : invoice'[j] = IF j = pay[p].on THEN "paid" ELSE invoice[j]
  BY DEF PayMark, PaidStatus, records, TypeOK, Sweeps
<1>3. TypeOK' /\ OnInvoice' /\ MovedHasIntent'
  BY <1>2 DEF TypeOK, OnInvoice, MovedHasIntent
<1>4. payments[p][pay[p].on] > 0
  BY <1>1 DEF Balance, At
<1>5. PaidHasPayment'
  BY <1>1, <1>2, <1>4 DEF PaidHasPayment
<1>6. ASSUME NEW q \in Processes, NEW j \in Invoices PROVE Balance(q, j)'
  BY <1>1, <1>2, CountsAreNat, PaymentsAssumption DEF Balance, At
<1> QED
  BY <1>3, <1>5, <1>6

\* A payment fails, or its process restarts, before or after Stripe confirmed the intent.
LEMMA AbandonHolds ==
  ASSUME IInv, NEW p \in Processes, SweepSkips(p) \/ Restart(p)
  PROVE  IInv'
<1> USE DEF IInv
<1>1. /\ UNCHANGED <<invoice, intents, moved, payments>>
      /\ failed' = FailedBy(p)
      /\ \A q \in Processes : q # p => pay'[q] = pay[q]
      /\ pay'[p].at \in {"idle", "loop"} /\ pay'[p].on = NoInvoice
      /\ pay' \in [Processes -> Sweeps]
  BY DEF SweepSkips, Restart, NoSweep, TypeOK, Sweeps
<1>2. /\ failed' \in Counts
      /\ \A q \in Processes, j \in Invoices :
           failed'[q][j] = IF q = p /\ At(p, j, {"answered", "recorded"})
                           THEN failed[q][j] + 1 ELSE failed[q][j]
  BY <1>1, FailedByCounts
<1>3. TypeOK' /\ OnInvoice' /\ PaidHasPayment' /\ MovedHasIntent'
  BY <1>1, <1>2 DEF TypeOK, OnInvoice, PaidHasPayment, MovedHasIntent
<1>4. ASSUME NEW q \in Processes, NEW j \in Invoices PROVE Balance(q, j)'
  BY <1>1, <1>2, CountsAreNat, PaymentsAssumption DEF Balance, At
<1> QED
  BY <1>3, <1>4

\* Stripe's answer is lost.
LEMMA AnswerLostHolds ==
  ASSUME IInv, NEW p \in Processes, AnswerLost(p)
  PROVE  IInv'
<1> USE DEF IInv
<1>1. /\ pay[p].at = "unpaid" /\ pay[p].on \in Invoices
      /\ intents' \in Counts
      /\ intents[p][pay[p].on] < MaxIntents
      /\ \A q \in Processes, j \in Invoices :
           intents'[q][j] = IF q = p /\ j = pay[p].on THEN intents[q][j] + 1 ELSE intents[q][j]
      /\ moved' \in SUBSET Invoices /\ MovedHasIntent'
  BY ConfirmsCounts DEF AnswerLost
<1>2. failed \in Counts /\ failed[p][pay[p].on] < MaxIntents
  BY <1>1, CountsAreNat, PaymentsAssumption DEF Balance, TypeOK
<1>3. /\ failed' \in Counts
      /\ \A q \in Processes, j \in Invoices :
           failed'[q][j] = IF q = p /\ j = pay[p].on THEN failed[q][j] + 1 ELSE failed[q][j]
  BY <1>1, <1>2, IncrementedAt DEF AnswerLost
<1>4. /\ UNCHANGED <<invoice, payments>>
      /\ \A q \in Processes : q # p => pay'[q] = pay[q]
      /\ pay'[p].at = "loop" /\ pay'[p].on = NoInvoice
      /\ pay' \in [Processes -> Sweeps]
  BY DEF AnswerLost, TypeOK, Sweeps
<1>5. TypeOK' /\ OnInvoice' /\ PaidHasPayment'
  BY <1>1, <1>3, <1>4 DEF TypeOK, OnInvoice, PaidHasPayment
<1>6. ASSUME NEW q \in Processes, NEW j \in Invoices PROVE Balance(q, j)'
  BY <1>1, <1>3, <1>4, CountsAreNat, PaymentsAssumption DEF Balance, At
<1> QED
  BY <1>1, <1>5, <1>6

LEMMA StepHolds == IInv /\ [Next]_vars => IInv'
<1> SUFFICES ASSUME IInv, [Next]_vars PROVE IInv'
  OBVIOUS
<1>1. CASE UNCHANGED vars
  BY <1>1 DEF vars, IInv, TypeOK, OnInvoice, Balance, At, PaidHasPayment, MovedHasIntent
<1>2. ASSUME NEW i \in Invoices, FallsDue(i) \/ Settles(i) PROVE IInv'
  BY <1>2 DEF FallsDue, Settles, records, IInv, TypeOK, OnInvoice, Balance, At,
              PaidHasPayment, MovedHasIntent
<1>3. ASSUME NEW p \in Processes,
             \/ SweepStart(p) \/ PayRead(p) \/ SweepEnd(p)
             \/ \E x \in Invoices \X Subs : SweepNext(p, x)
      PROVE  IInv'
  BY <1>3, LoopStepHolds
<1>4. ASSUME NEW p \in Processes, PayCharge(p) \/ PayRecord(p) \/ PayMark(p) PROVE IInv'
  BY <1>4, PayChargeHolds, PayRecordHolds, PayMarkHolds
<1>5. ASSUME NEW p \in Processes, SweepSkips(p) \/ AnswerLost(p) \/ Restart(p) PROVE IInv'
  BY <1>5, AbandonHolds, AnswerLostHolds
<1> QED
  BY <1>1, <1>2, <1>3, <1>4, <1>5 DEF Next

THEOREM Invariant == Spec => []IInv
BY InitHolds, StepHolds, PTL DEF Spec

-----------------------------------------------------------------------------

\* Every state is of the declared type, so no count passes the bound on intents.
THEOREM TypeCorrect == Spec => []TypeOK
<1>1. IInv => TypeOK
  BY DEF IInv
<1> QED
  BY <1>1, Invariant, PTL

\* A process of the billing service has at most one intent more for an invoice than
\* its calls failed between Stripe's confirmation and the marking of the invoice,
\* however many processes sweep at once and however often an invoice is listed.
THEOREM ChargesCorrect == Spec => []EachChargesOnce
<1>1. IInv => EachChargesOnce
  <2> SUFFICES ASSUME IInv, NEW p \in Processes, NEW i \in Invoices
               PROVE  intents[p][i] <= 1 + failed[p][i]
    BY DEF EachChargesOnce
  <2> QED
    BY CountsAreNat DEF IInv, Balance
<1> QED
  BY <1>1, Invariant, PTL

\* A paid invoice has a row in payments that an intent of the same process stands
\* behind, whatever became of that intent.
THEOREM RecordCorrect == Spec => []PaidIsRecorded
<1>1. IInv => PaidIsRecorded
  BY DEF IInv, PaidHasPayment, Balance, PaidIsRecorded
<1> QED
  BY <1>1, Invariant, PTL

\* Money that moved is booked: the invoice is paid, or a call for it is past
\* Stripe's answer, or one failed there.
THEOREM MoneyCorrect == Spec => []MoneyIsBooked
<1>1. IInv => MoneyIsBooked
  <2> SUFFICES ASSUME IInv, NEW i \in moved, invoice[i] # "paid"
               PROVE  \E p \in Processes :
                        \/ pay[p].on = i /\ pay[p].at \in {"answered", "recorded"}
                        \/ failed[p][i] > 0
    BY DEF MoneyIsBooked
  <2>1. PICK p \in Processes : intents[p][i] > 0
    BY DEF IInv, MovedHasIntent
  <2>2. i \in Invoices
    BY DEF IInv, TypeOK
  <2>3. ~At(p, i, {"answered", "recorded"}) => intents[p][i] <= failed[p][i]
    BY <2>2 DEF IInv, Balance
  <2> QED
    BY <2>1, <2>2, <2>3, CountsAreNat DEF IInv, At
<1> QED
  BY <1>1, Invariant, PTL
=============================================================================
