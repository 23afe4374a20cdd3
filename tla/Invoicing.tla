----------------------------- MODULE Invoicing ------------------------------
(***************************************************************************)
(* Subscriptions and invoices of core/billing/billing_service.py.  Every   *)
(* process with a BillingService (the billing service, every API gateway)  *)
(* runs its own _invoice_generator over the shared tables; no query is in  *)
(* a transaction, and each await is a point where the others run and where *)
(* the caller may fail or die.  Amounts are left out; the payment of an    *)
(* invoice, which no query here looks at, is in Payments.                  *)
(***************************************************************************)
EXTENDS Naturals, FiniteSets

CONSTANTS
  Processes,
  Tenants,
  Subs,       \* ids of subscriptions
  Invoices,   \* ids of invoices
  MaxMonth,   \* bound on the calendar
  NoTenant, NoSub, NoProcess

ASSUME InvoicingAssumption ==
  /\ MaxMonth \in Nat \ {0}
  /\ NoTenant \notin Tenants
  /\ NoSub \notin Subs
  /\ NoProcess \notin Processes

VARIABLES
  month,     \* the calendar month
  firstDay,  \* whether today is its first day
  sub,       \* per id: the row of subscriptions, or the call creating it
  invoice,   \* per id: the row of invoices
  gen        \* per process: the pass of _generate_monthly_invoices

vars == <<month, firstDay, sub, invoice, gen>>

\* "checked" and "replacing" are the awaits of create_subscription before the
\* row of the subscription exists; `old` is the active one it found.
SubRows == [at     : {"unborn", "checked", "replacing", "lost", "active", "ended"},
            tenant : Tenants \cup {NoTenant},
            yearly : BOOLEAN,
            old    : Subs \cup {NoSub}]

\* `by` is history: the process that made the invoice.
InvoiceRows == [tenant : Tenants \cup {NoTenant},
                period : 0..(MaxMonth - 1),
                by     : Processes \cup {NoProcess}]

\* "loop" is between two subscriptions, "missing" after the look for an
\* existing invoice of `tenant`, "priced" after its usage and subscription.
Passes == [at     : {"idle", "loop", "missing", "priced", "done"},
           period : 0..(MaxMonth - 1),
           seen   : SUBSET Subs,  \* the active subscriptions at its start
           todo   : SUBSET Subs,
           tenant : Tenants \cup {NoTenant},
           clean  : BOOLEAN]      \* no subscription has failed

NoInvoiceYet == [tenant |-> NoTenant, period |-> 0, by |-> NoProcess]
NoPass == [at |-> "idle", period |-> 0, seen |-> {}, todo |-> {},
           tenant |-> NoTenant, clean |-> TRUE]

TypeOK ==
  /\ month \in 0..MaxMonth
  /\ firstDay \in BOOLEAN
  /\ sub \in [Subs -> SubRows]
  /\ invoice \in [Invoices -> InvoiceRows]
  /\ gen \in [Processes -> Passes]

Init ==
  /\ month = 0
  /\ firstDay = FALSE
  /\ sub = [s \in Subs |-> [at |-> "unborn", tenant |-> NoTenant, yearly |-> FALSE,
                            old |-> NoSub]]
  /\ invoice = [i \in Invoices |-> NoInvoiceYet]
  /\ gen = [p \in Processes |-> NoPass]

Active == {s \in Subs : sub[s].at = "active"}
ActiveOf(t) == {s \in Active : sub[s].tenant = t}

\* Invoices of a tenant for a month.
InvoicesOf(t, m) ==
  {i \in Invoices : invoice[i].tenant = t /\ invoice[i].period = m}

calendar == <<month, firstDay>>

-----------------------------------------------------------------------------
(* create_subscription.                                                    *)

\* It looks for an active subscription of the tenant.
CreateCheck(s, t, yearly, old) ==
  /\ sub[s].at = "unborn"
  /\ IF ActiveOf(t) = {} THEN old = NoSub ELSE old \in ActiveOf(t)
  /\ sub' = [sub EXCEPT ![s] = [at |-> "checked", tenant |-> t, yearly |-> yearly,
                                old |-> old]]
  /\ UNCHANGED <<calendar, invoice, gen>>

\* It ends the one it found.
EndOld(s) ==
  /\ sub[s].at = "checked"
  /\ sub[s].old # NoSub
  /\ sub' = [sub EXCEPT ![s].at = "replacing", ![sub[s].old].at = "ended"]
  /\ UNCHANGED <<calendar, invoice, gen>>

\* It inserts the new one.
CreateInsert(s) ==
  /\ \/ sub[s].at = "checked" /\ sub[s].old = NoSub
     \/ sub[s].at = "replacing"
  /\ sub' = [sub EXCEPT ![s].at = "active"]
  /\ UNCHANGED <<calendar, invoice, gen>>

\* A query fails or the process dies: an ended subscription stays ended.
CreateFails(s) ==
  /\ sub[s].at \in {"checked", "replacing"}
  /\ sub' = [sub EXCEPT ![s].at = "lost"]
  /\ UNCHANGED <<calendar, invoice, gen>>

-----------------------------------------------------------------------------
(* _invoice_generator: a pass every hour of the first day of a month.      *)

Monthly(S) == {s \in S : ~sub[s].yearly}

\* Mutant: the month that begins.
CurrentMonth == month

BilledMonth == month - 1

\* The pass for the previous month begins: the active monthly subscriptions.
PassStart(p) ==
  /\ firstDay
  /\ gen[p].at \in {"idle", "done"}
  /\ gen' = [gen EXCEPT ![p] = [NoPass EXCEPT !.at = "loop", !.period = BilledMonth,
                                !.seen = Active, !.todo = Monthly(Active)]]
  /\ UNCHANGED <<calendar, sub, invoice>>

\* Mutant: the look for an invoice is forgotten.
NeverExisting(t, m) == FALSE

\* Mutant: an invoice of any month counts.
ExistingEver(t, m) == \E n \in 0..(MaxMonth - 1) : InvoicesOf(t, n) # {}

Existing(t, m) == InvoicesOf(t, m) # {}

\* The next subscription, whose tenant is skipped if it has the invoice.
PassCheck(p, s) ==
  /\ gen[p].at = "loop"
  /\ s \in gen[p].todo
  /\ gen' = [gen EXCEPT
       ![p].todo = @ \ {s},
       ![p].at = IF Existing(sub[s].tenant, gen[p].period) THEN "loop" ELSE "missing",
       ![p].tenant = IF Existing(sub[s].tenant, gen[p].period) THEN @ ELSE sub[s].tenant]
  /\ UNCHANGED <<calendar, sub, invoice>>

\* generate_invoice finds an active subscription and adds the invoice up.
PassPrice(p) ==
  /\ gen[p].at = "missing"
  /\ ActiveOf(gen[p].tenant) # {}
  /\ gen' = [gen EXCEPT ![p].at = "priced"]
  /\ UNCHANGED <<calendar, sub, invoice>>

\* generate_invoice inserts it, due in thirty days.
PassInsert(p, i) ==
  /\ gen[p].at = "priced"
  /\ invoice[i] = NoInvoiceYet
  /\ invoice' = [invoice EXCEPT ![i] = [tenant |-> gen[p].tenant,
                                        period |-> gen[p].period, by |-> p]]
  /\ gen' = [gen EXCEPT ![p].at = "loop", ![p].tenant = NoTenant]
  /\ UNCHANGED <<calendar, sub>>

\* The look for an existing invoice fails: the loop goes on.
CheckFails(p, s) ==
  /\ gen[p].at = "loop"
  /\ s \in gen[p].todo
  /\ gen' = [gen EXCEPT ![p].todo = @ \ {s}, ![p].clean = FALSE]
  /\ UNCHANGED <<calendar, sub, invoice>>

\* generate_invoice raises, for want of an active subscription or because a
\* query fails: the loop goes on.
GenerateFails(p) ==
  /\ gen[p].at \in {"missing", "priced"}
  /\ gen' = [gen EXCEPT ![p].at = "loop", ![p].tenant = NoTenant, ![p].clean = FALSE]
  /\ UNCHANGED <<calendar, sub, invoice>>

PassEnd(p) ==
  /\ gen[p].at = "loop"
  /\ gen[p].todo = {}
  /\ gen' = [gen EXCEPT ![p].at = "done"]
  /\ UNCHANGED <<calendar, sub, invoice>>

-----------------------------------------------------------------------------
(* The environment.                                                        *)

\* The day is over, or a new month begins.
DayPasses ==
  /\ firstDay' = ~firstDay
  /\ ~firstDay => month < MaxMonth
  /\ month' = IF firstDay THEN month ELSE month + 1
  /\ UNCHANGED <<sub, invoice, gen>>

\* A process dies and starts again, and its generator with it.
Restart(p) ==
  /\ gen' = [gen EXCEPT ![p] = NoPass]
  /\ UNCHANGED <<calendar, sub, invoice>>

Next ==
  \/ \E s \in Subs :
       \/ \E t \in Tenants, yearly \in BOOLEAN, old \in Subs \cup {NoSub} :
            CreateCheck(s, t, yearly, old)
       \/ EndOld(s) \/ CreateInsert(s) \/ CreateFails(s)
  \/ \E p \in Processes :
       \/ PassStart(p) \/ PassPrice(p) \/ GenerateFails(p) \/ PassEnd(p)
       \/ \E s \in Subs : PassCheck(p, s) \/ CheckFails(p, s)
       \/ \E i \in Invoices : PassInsert(p, i)
       \/ Restart(p)
  \/ DayPasses

Spec == Init /\ [][Next]_vars

-----------------------------------------------------------------------------
(* Properties.                                                             *)

\* Two invoices of a tenant for one month were made by different processes: the
\* hourly passes of one process, restarted or not, never repeat an invoice,
\* even for a tenant that racing upgrades left with two active subscriptions.
OneInvoicePerGenerator ==
  \A i, j \in Invoices :
    /\ i # j
    /\ invoice[i] # NoInvoiceYet
    /\ invoice[i].tenant = invoice[j].tenant
    /\ invoice[i].period = invoice[j].period
    => invoice[i].by # invoice[j].by

\* After a pass in which nothing failed, every tenant that had an active monthly
\* subscription at its start has the invoice of the month, though subscriptions
\* are replaced and other processes invoice meanwhile.  Where a subscription is
\* found ended, generate_invoice raises, and the pass is not one of these.
MonthlyIsInvoiced ==
  \A p \in Processes : gen[p].at = "done" /\ gen[p].clean =>
    \A s \in Monthly(gen[p].seen) : InvoicesOf(sub[s].tenant, gen[p].period) # {}
=============================================================================
