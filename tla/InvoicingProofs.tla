--------------------------- MODULE InvoicingProofs ---------------------------
(***************************************************************************)
(* Proofs about Invoicing, for any processes, tenants, subscriptions and   *)
(* months.  The strengthening follows a pass of the generator: what it has *)
(* still to do, and what it knows of the tenant it is at.                  *)
(***************************************************************************)
EXTENDS Invoicing, TLAPS

Born(s) == sub[s].at # "unborn"

\* Between the look for an invoice and its insert.
Writing(p) == gen[p].at \in {"missing", "priced"}

FirstDayBillsAMonth == firstDay => month # 0

\* A subscription has a tenant, and the one it replaces exists.
SubsAreSound ==
  \A s \in Subs : Born(s) =>
    /\ sub[s].tenant \in Tenants
    /\ sub[s].old # NoSub => Born(sub[s].old)

PassesAreSound ==
  \A p \in Processes :
    /\ \A s \in gen[p].seen : Born(s)
    /\ gen[p].todo \subseteq gen[p].seen
    /\ Writing(p) => gen[p].tenant \in Tenants
    /\ gen[p].at = "done" => gen[p].todo = {}

InvoicesAreSound ==
  \A i \in Invoices : invoice[i] # NoInvoiceYet =>
    invoice[i].tenant \in Tenants /\ invoice[i].by \in Processes

\* What a process is about to insert it has not inserted before.
NotYetMade ==
  \A p \in Processes : Writing(p) =>
    \A i \in InvoicesOf(gen[p].tenant, gen[p].period) : invoice[i].by # p

\* A subscription that a clean pass has seen is still to do, invoiced, or at hand.
PassAccounts ==
  \A p \in Processes : gen[p].at # "idle" /\ gen[p].clean =>
    \A s \in Monthly(gen[p].seen) :
      \/ s \in gen[p].todo
      \/ InvoicesOf(sub[s].tenant, gen[p].period) # {}
      \/ Writing(p) /\ gen[p].tenant = sub[s].tenant

Sound == FirstDayBillsAMonth /\ SubsAreSound /\ PassesAreSound /\ InvoicesAreSound

IInv == TypeOK /\ Sound /\ NotYetMade /\ OneInvoicePerGenerator /\ PassAccounts

-----------------------------------------------------------------------------
LEMMA InitHolds == Init => IInv
<1> SUFFICES ASSUME Init PROVE IInv
  OBVIOUS
<1>1. NoPass \in Passes /\ NoPass.at = "idle" /\ NoPass.seen = {} /\ NoPass.todo = {}
  BY InvoicingAssumption DEF NoPass, Passes
<1>2. NoInvoiceYet \in InvoiceRows
  BY InvoicingAssumption DEF NoInvoiceYet, InvoiceRows
<1>3. TypeOK
  <2>1. sub \in [Subs -> SubRows]
    BY DEF Init, SubRows
  <2>2. MaxMonth \in Nat
    BY InvoicingAssumption
  <2>3. month \in 0..MaxMonth
    BY <2>2 DEF Init
  <2> QED
    BY <1>1, <1>2, <2>1, <2>3 DEF Init, TypeOK
<1>4. Sound
  BY <1>1 DEF Init, Sound, FirstDayBillsAMonth, SubsAreSound, PassesAreSound,
              InvoicesAreSound, Born, Writing
<1>5. NotYetMade /\ PassAccounts
  BY <1>1 DEF Init, NotYetMade, PassAccounts, Writing
<1>6. OneInvoicePerGenerator
  BY DEF Init, OneInvoicePerGenerator
<1> QED
  BY <1>3, <1>4, <1>5, <1>6 DEF IInv

-----------------------------------------------------------------------------
(* create_subscription.                                                    *)

\* Passes look only at the tenant and the plan of subscriptions that exist, and
\* those never change.
LEMMA SubsStep ==
  ASSUME IInv, UNCHANGED <<calendar, invoice, gen>>,
         sub' \in [Subs -> SubRows], SubsAreSound',
         \A s \in Subs : Born(s) =>
           /\ Born(s)'
           /\ sub'[s].tenant = sub[s].tenant
           /\ sub'[s].yearly = sub[s].yearly
  PROVE  IInv'
<1>1. UNCHANGED <<month, firstDay>> /\ \A p \in Processes : Writing(p)' <=> Writing(p)
  BY DEF calendar, Writing
<1>2. TypeOK'
  BY <1>1 DEF IInv, TypeOK
<1>3. \A p \in Processes : gen[p].seen \subseteq Subs
  BY DEF IInv, TypeOK, Passes
<1>4. Sound'
  <2>1. PassesAreSound'
    BY <1>1, <1>3 DEF IInv, Sound, PassesAreSound
  <2> QED
    BY <1>1, <2>1 DEF IInv, Sound, FirstDayBillsAMonth, InvoicesAreSound
<1>5. NotYetMade' /\ OneInvoicePerGenerator'
  BY <1>1 DEF IInv, NotYetMade, OneInvoicePerGenerator, InvoicesOf
<1>6. PassAccounts'
  <2> SUFFICES ASSUME NEW p \in Processes, gen[p].at # "idle", gen[p].clean,
                      NEW s \in Monthly(gen[p].seen)'
               PROVE  \/ s \in gen[p].todo
                      \/ InvoicesOf(sub'[s].tenant, gen[p].period) # {}
                      \/ Writing(p) /\ gen[p].tenant = sub'[s].tenant
    BY <1>1 DEF PassAccounts, InvoicesOf
  <2>1. s \in gen[p].seen /\ s \in Subs /\ ~sub'[s].yearly
    BY <1>3 DEF Monthly
  <2>2. Born(s)
    BY <2>1 DEF IInv, Sound, PassesAreSound
  <2>3. sub'[s].tenant = sub[s].tenant /\ s \in Monthly(gen[p].seen)
    BY <2>1, <2>2 DEF Monthly
  <2> QED
    BY <2>3 DEF IInv, PassAccounts
<1> QED
  BY <1>2, <1>4, <1>5, <1>6 DEF IInv

LEMMA CreateCheckHolds ==
  ASSUME IInv, NEW s \in Subs, NEW t \in Tenants, NEW yearly \in BOOLEAN,
         NEW old \in Subs \cup {NoSub}, CreateCheck(s, t, yearly, old)
  PROVE  IInv'
<1> DEFINE r == [at |-> "checked", tenant |-> t, yearly |-> yearly, old |-> old]
<1>1. /\ sub' = [sub EXCEPT ![s] = r] /\ sub[s].at = "unborn"
      /\ UNCHANGED <<calendar, invoice, gen>>
  BY DEF CreateCheck
<1>2. r \in SubRows /\ r.at = "checked" /\ r.tenant = t /\ r.old = old
  BY DEF SubRows
<1> HIDE DEF r
<1>3. sub \in [Subs -> SubRows]
  BY DEF IInv, TypeOK
<1>4. sub' \in [Subs -> SubRows] /\ sub'[s] = r /\ \A u \in Subs \ {s} : sub'[u] = sub[u]
  BY <1>1, <1>2, <1>3
<1>5. old # NoSub => Born(old) /\ old \in Subs
  BY DEF CreateCheck, ActiveOf, Active, Born
<1>6. \A u \in Subs : Born(u) => u # s
  BY <1>1 DEF Born
<1>7. \A u \in Subs : Born(u) => Born(u)'
  BY <1>4, <1>6 DEF Born
<1>8. SubsAreSound'
  <2> SUFFICES ASSUME NEW u \in Subs, Born(u)'
               PROVE  /\ sub'[u].tenant \in Tenants
                      /\ sub'[u].old # NoSub => sub'[sub'[u].old].at # "unborn"
    BY DEF SubsAreSound, Born
  <2>1. CASE u = s
    BY <2>1, <1>2, <1>4, <1>5, <1>7 DEF Born
  <2>2. CASE u # s
    <3>1. sub'[u] = sub[u] /\ Born(u) /\ sub[u] \in SubRows
      BY <2>2, <1>3, <1>4 DEF Born
    <3>2. sub[u].old \in Subs \cup {NoSub}
      BY <3>1 DEF SubRows
    <3> QED
      BY <3>1, <3>2, <1>7 DEF IInv, Sound, SubsAreSound, Born
  <2> QED
    BY <2>1, <2>2
<1> QED
  BY <1>1, <1>4, <1>6, <1>7, <1>8, SubsStep

\* The later steps of a creation change where subscriptions are, and nothing else.
LEMMA MovesHold ==
  ASSUME IInv, UNCHANGED <<calendar, invoice, gen>>, sub' \in [Subs -> SubRows],
         \A u \in Subs : /\ sub'[u].tenant = sub[u].tenant
                         /\ sub'[u].yearly = sub[u].yearly
                         /\ sub'[u].old = sub[u].old
                         /\ Born(u)' <=> Born(u)
  PROVE  IInv'
<1>1. \A u \in Subs : sub[u].old \in Subs \cup {NoSub}
  BY DEF IInv, TypeOK, SubRows
<1>2. SubsAreSound'
  BY <1>1 DEF IInv, Sound, SubsAreSound
<1> QED
  BY <1>2, SubsStep

LEMMA EndOldHolds ==
  ASSUME IInv, NEW s \in Subs, EndOld(s)
  PROVE  IInv'
<1> DEFINE o == sub[s].old
<1>1. /\ sub' = [sub EXCEPT ![s].at = "replacing", ![o].at = "ended"]
      /\ sub[s].at = "checked" /\ o # NoSub
      /\ UNCHANGED <<calendar, invoice, gen>>
  BY DEF EndOld
<1>2. sub \in [Subs -> SubRows] /\ o \in Subs
  BY <1>1 DEF IInv, TypeOK, SubRows
<1>3. Born(s) /\ Born(o)
  BY <1>1 DEF IInv, Sound, SubsAreSound, Born
<1> HIDE DEF o
<1>4. \A u \in Subs :
        \/ sub'[u] = sub[u]
        \/ sub'[u] = [sub[u] EXCEPT !.at = "replacing"] /\ u = s
        \/ sub'[u] = [sub[u] EXCEPT !.at = "ended"] /\ u = o
  <2> DEFINE f == [sub EXCEPT ![s].at = "replacing"]
  <2>1. f \in [Subs -> SubRows] /\ f[s] = [sub[s] EXCEPT !.at = "replacing"]
        /\ \A u \in Subs \ {s} : f[u] = sub[u]
    BY <1>2 DEF SubRows
  <2>2. sub' = [f EXCEPT ![o].at = "ended"]
    BY <1>1
  <2> HIDE DEF f
  <2>3. sub'[o] = [f[o] EXCEPT !.at = "ended"] /\ \A u \in Subs \ {o} : sub'[u] = f[u]
    BY <1>2, <2>1, <2>2
  <2>4. o = s => sub'[o] = [sub[o] EXCEPT !.at = "ended"]
    BY <1>2, <2>1, <2>3 DEF SubRows
  <2> QED
    BY <1>2, <2>1, <2>3, <2>4
<1>5. ASSUME NEW u \in Subs
      PROVE  /\ sub'[u] \in SubRows
             /\ sub'[u].tenant = sub[u].tenant
             /\ sub'[u].yearly = sub[u].yearly
             /\ sub'[u].old = sub[u].old
             /\ Born(u)' <=> Born(u)
  <2>1. sub[u] \in SubRows
    BY <1>2
  <2>2. CASE sub'[u] = sub[u]
    BY <2>1, <2>2 DEF Born
  <2>3. CASE sub'[u] = [sub[u] EXCEPT !.at = "replacing"] /\ u = s
    BY <2>1, <2>3, <1>3 DEF SubRows, Born
  <2>4. CASE sub'[u] = [sub[u] EXCEPT !.at = "ended"] /\ u = o
    BY <2>1, <2>4, <1>3 DEF SubRows, Born
  <2> QED
    BY <1>4, <2>2, <2>3, <2>4
<1>6. sub' \in [Subs -> SubRows]
  BY <1>1, <1>2, <1>5
<1> QED
  BY <1>1, <1>5, <1>6, MovesHold

LEMMA CreateEndsHolds ==
  ASSUME IInv, NEW s \in Subs, CreateInsert(s) \/ CreateFails(s)
  PROVE  IInv'
<1>1. PICK a \in {"active", "lost"} : sub' = [sub EXCEPT ![s].at = a]
  BY DEF CreateInsert, CreateFails
<1>2. UNCHANGED <<calendar, invoice, gen>> /\ Born(s)
  BY DEF CreateInsert, CreateFails, Born
<1>3. sub \in [Subs -> SubRows]
  BY DEF IInv, TypeOK
<1>4. sub'[s] = [sub[s] EXCEPT !.at = a] /\ \A u \in Subs \ {s} : sub'[u] = sub[u]
  BY <1>1, <1>3
<1>5. \A u \in Subs : /\ sub'[u] \in SubRows
                      /\ sub'[u].tenant = sub[u].tenant
                      /\ sub'[u].yearly = sub[u].yearly
                      /\ sub'[u].old = sub[u].old
                      /\ Born(u)' <=> Born(u)
  BY <1>2, <1>3, <1>4 DEF SubRows, Born
<1>6. sub' \in [Subs -> SubRows]
  BY <1>1, <1>3, <1>5
<1> QED
  BY <1>2, <1>5, <1>6, MovesHold

-----------------------------------------------------------------------------
(* _invoice_generator.                                                     *)

\* What a pass that becomes g has to show, where the tables stay as they are.
LEMMA PassStep ==
  ASSUME IInv, NEW p \in Processes, NEW g \in Passes,
         UNCHANGED <<calendar, sub, invoice>>, gen' = [gen EXCEPT ![p] = g],
         \A s \in g.seen : Born(s),
         g.todo \subseteq g.seen,
         g.at = "done" => g.todo = {},
         g.at \in {"missing", "priced"} =>
           /\ g.tenant \in Tenants
           /\ \A i \in InvoicesOf(g.tenant, g.period) : invoice[i].by # p,
         g.at # "idle" /\ g.clean => \A s \in Monthly(g.seen) :
           \/ s \in g.todo
           \/ InvoicesOf(sub[s].tenant, g.period) # {}
           \/ g.at \in {"missing", "priced"} /\ g.tenant = sub[s].tenant
  PROVE  IInv'
<1>1. UNCHANGED <<month, firstDay>>
  BY DEF calendar
<1>2. gen \in [Processes -> Passes]
  BY DEF IInv, TypeOK
<1>3. gen'[p] = g /\ \A q \in Processes \ {p} : gen'[q] = gen[q]
  BY <1>2
<1>4. TypeOK'
  BY <1>1, <1>2 DEF IInv, TypeOK
<1>5. Sound'
  <2>1. PassesAreSound'
    BY <1>3 DEF IInv, Sound, PassesAreSound, Writing, Born
  <2>2. SubsAreSound' /\ InvoicesAreSound'
    BY DEF IInv, Sound, SubsAreSound, InvoicesAreSound, Born
  <2> QED
    BY <1>1, <2>1, <2>2 DEF IInv, Sound, FirstDayBillsAMonth
<1>6. NotYetMade'
  BY <1>3 DEF IInv, NotYetMade, Writing, InvoicesOf
<1>7. OneInvoicePerGenerator'
  BY DEF IInv, OneInvoicePerGenerator
<1>8. PassAccounts'
  <2> SUFFICES ASSUME NEW q \in Processes, gen'[q].at # "idle", gen'[q].clean,
                      NEW s \in Monthly(gen'[q].seen)
               PROVE  \/ s \in gen'[q].todo
                      \/ InvoicesOf(sub[s].tenant, gen'[q].period) # {}
                      \/ gen'[q].at \in {"missing", "priced"}
                         /\ gen'[q].tenant = sub[s].tenant
    BY DEF PassAccounts, Writing, InvoicesOf, Monthly
  <2>1. CASE q = p
    BY <2>1, <1>3
  <2>2. CASE q # p
    <3>1. gen'[q] = gen[q]
      BY <2>2, <1>3
    <3> QED
      BY <3>1 DEF IInv, PassAccounts, Writing
  <2> QED
    BY <2>1, <2>2
<1> QED
  BY <1>4, <1>5, <1>6, <1>7, <1>8 DEF IInv

LEMMA PassStartHolds ==
  ASSUME IInv, NEW p \in Processes, PassStart(p)
  PROVE  IInv'
<1> DEFINE g == [NoPass EXCEPT !.at = "loop", !.period = BilledMonth,
                               !.seen = Active, !.todo = Monthly(Active)]
<1>1. gen' = [gen EXCEPT ![p] = g] /\ UNCHANGED <<calendar, sub, invoice>>
  BY DEF PassStart
<1>2. BilledMonth \in 0..(MaxMonth - 1)
  <2>1. month \in 0..MaxMonth /\ month # 0
    BY DEF PassStart, IInv, TypeOK, Sound, FirstDayBillsAMonth
  <2>2. MaxMonth \in Nat
    BY InvoicingAssumption
  <2> QED
    BY <2>1, <2>2 DEF BilledMonth
<1>3. Active \subseteq Subs /\ Monthly(Active) \subseteq Active
      /\ \A s \in Active : Born(s)
  BY DEF Active, Monthly, Born
<1>4. /\ g \in Passes /\ g.at = "loop" /\ g.period = BilledMonth
      /\ g.seen = Active /\ g.todo = Monthly(Active)
  BY <1>2, <1>3 DEF NoPass, Passes
<1> HIDE DEF g
<1> QED
  BY <1>1, <1>3, <1>4, PassStep

LEMMA RestartHolds ==
  ASSUME IInv, NEW p \in Processes, Restart(p)
  PROVE  IInv'
<1>1. NoPass \in Passes /\ NoPass.at = "idle" /\ NoPass.seen = {} /\ NoPass.todo = {}
  BY InvoicingAssumption DEF NoPass, Passes
<1> QED
  BY <1>1, PassStep DEF Restart

\* A subscription that is looked at was active when the pass began.
LEMMA TodoIsBorn ==
  ASSUME IInv, NEW p \in Processes, NEW s \in gen[p].todo
  PROVE  s \in Subs /\ Born(s) /\ sub[s].tenant \in Tenants
BY DEF IInv, TypeOK, Passes, Sound, PassesAreSound, SubsAreSound

LEMMA PassCheckHolds ==
  ASSUME IInv, NEW p \in Processes, NEW s \in Subs, PassCheck(p, s)
  PROVE  IInv'
<1> DEFINE t == sub[s].tenant
           has == Existing(t, gen[p].period)
           g == [gen[p] EXCEPT !.todo = @ \ {s},
                               !.at = IF has THEN "loop" ELSE "missing",
                               !.tenant = IF has THEN @ ELSE t]
<1>1. gen[p] \in Passes /\ gen \in [Processes -> Passes]
  BY DEF IInv, TypeOK
<1>2. gen' = [gen EXCEPT ![p] = g] /\ UNCHANGED <<calendar, sub, invoice>>
  BY <1>1 DEF PassCheck
<1>3. gen[p].at = "loop" /\ t \in Tenants /\ Born(s)
  BY TodoIsBorn DEF PassCheck
<1>4. has <=> InvoicesOf(t, gen[p].period) # {}
  BY DEF Existing
<1> HIDE DEF t, has
<1>5. /\ g \in Passes /\ g.seen = gen[p].seen /\ g.todo = gen[p].todo \ {s}
      /\ g.period = gen[p].period /\ g.clean = gen[p].clean
      /\ has => g.at = "loop"
      /\ ~has => g.at = "missing" /\ g.tenant = t
  BY <1>1, <1>3 DEF Passes
<1> HIDE DEF g
<1>6. /\ \A u \in g.seen : Born(u)
      /\ g.todo \subseteq g.seen
  BY <1>5 DEF IInv, Sound, PassesAreSound
<1>7. g.at \in {"missing", "priced"} =>
        /\ g.tenant \in Tenants
        /\ \A i \in InvoicesOf(g.tenant, g.period) : invoice[i].by # p
  BY <1>3, <1>4, <1>5
<1>8. ASSUME g.clean, NEW u \in Monthly(g.seen)
      PROVE  \/ u \in g.todo
             \/ InvoicesOf(sub[u].tenant, g.period) # {}
             \/ g.at \in {"missing", "priced"} /\ g.tenant = sub[u].tenant
  <2>1. u \in gen[p].todo \/ InvoicesOf(sub[u].tenant, gen[p].period) # {}
    BY <1>3, <1>5, <1>8 DEF IInv, PassAccounts, Writing
  <2>2. CASE u = s
    BY <2>2, <1>4, <1>5 DEF t
  <2> QED
    BY <2>1, <2>2, <1>5
<1> QED
  BY <1>2, <1>5, <1>6, <1>7, <1>8, PassStep

LEMMA PassPriceHolds ==
  ASSUME IInv, NEW p \in Processes, PassPrice(p)
  PROVE  IInv'
<1> DEFINE g == [gen[p] EXCEPT !.at = "priced"]
<1>1. gen[p] \in Passes /\ gen \in [Processes -> Passes]
  BY DEF IInv, TypeOK
<1>2. /\ gen' = [gen EXCEPT ![p] = g] /\ UNCHANGED <<calendar, sub, invoice>>
      /\ gen[p].at = "missing" /\ Writing(p)
  BY <1>1 DEF PassPrice, Writing
<1>3. /\ g \in Passes /\ g.at = "priced" /\ g.seen = gen[p].seen
      /\ g.todo = gen[p].todo /\ g.period = gen[p].period
      /\ g.tenant = gen[p].tenant /\ g.clean = gen[p].clean
  BY <1>1 DEF Passes
<1> HIDE DEF g
<1>4. /\ \A u \in g.seen : Born(u)
      /\ g.todo \subseteq g.seen
      /\ g.tenant \in Tenants
      /\ \A i \in InvoicesOf(g.tenant, g.period) : invoice[i].by # p
  BY <1>2, <1>3 DEF IInv, Sound, PassesAreSound, NotYetMade
<1>5. g.clean => \A u \in Monthly(g.seen) :
        \/ u \in g.todo
        \/ InvoicesOf(sub[u].tenant, g.period) # {}
        \/ g.tenant = sub[u].tenant
  BY <1>2, <1>3 DEF IInv, PassAccounts
<1> QED
  BY <1>2, <1>3, <1>4, <1>5, PassStep

\* A pass in which something failed promises nothing.
LEMMA FailuresHold ==
  ASSUME IInv, NEW p \in Processes,
         GenerateFails(p) \/ \E s \in Subs : CheckFails(p, s)
  PROVE  IInv'
<1> DEFINE F(T, t) == [gen[p] EXCEPT !.at = "loop", !.todo = T, !.tenant = t,
                                     !.clean = FALSE]
<1>1. gen[p] \in Passes /\ gen \in [Processes -> Passes]
  BY DEF IInv, TypeOK
<1>2. PICK T \in SUBSET gen[p].todo, t \in Tenants \cup {NoTenant} :
        gen' = [gen EXCEPT ![p] = F(T, t)]
  <2>1. CASE GenerateFails(p)
    <3>1. gen' = [gen EXCEPT ![p] = F(gen[p].todo, NoTenant)]
      BY <2>1, <1>1 DEF GenerateFails, Passes
    <3> QED
      BY <3>1
  <2>2. ASSUME NEW s \in Subs, CheckFails(p, s)
        PROVE  \E T \in SUBSET gen[p].todo, t \in Tenants \cup {NoTenant} :
                 gen' = [gen EXCEPT ![p] = F(T, t)]
    <3>1. gen' = [gen EXCEPT ![p] = F(gen[p].todo \ {s}, gen[p].tenant)]
      <4> DEFINE g == [gen[p] EXCEPT !.todo = @ \ {s}, !.clean = FALSE]
      <4>1. gen' = [gen EXCEPT ![p] = g] /\ gen[p].at = "loop"
        BY <2>2, <1>1 DEF CheckFails
      <4>2. g = F(gen[p].todo \ {s}, gen[p].tenant)
        BY <4>1, <1>1 DEF Passes
      <4> QED
        BY <4>1, <4>2
    <3>2. gen[p].tenant \in Tenants \cup {NoTenant} /\ gen[p].todo \ {s} \subseteq gen[p].todo
      BY <1>1 DEF Passes
    <3> QED
      BY <3>1, <3>2
  <2> QED
    BY <2>1, <2>2
<1>3. UNCHANGED <<calendar, sub, invoice>>
  BY DEF GenerateFails, CheckFails
<1> DEFINE g == F(T, t)
<1>4. /\ g \in Passes /\ g.at = "loop" /\ g.seen = gen[p].seen
      /\ g.todo \subseteq gen[p].todo /\ ~g.clean
  BY <1>1 DEF Passes
<1>5. gen' = [gen EXCEPT ![p] = g]
  BY <1>2
<1> HIDE DEF g
<1>6. (\A u \in g.seen : Born(u)) /\ g.todo \subseteq g.seen
  BY <1>4 DEF IInv, Sound, PassesAreSound
<1> QED
  BY <1>3, <1>4, <1>5, <1>6, PassStep

LEMMA PassEndHolds ==
  ASSUME IInv, NEW p \in Processes, PassEnd(p)
  PROVE  IInv'
<1> DEFINE g == [gen[p] EXCEPT !.at = "done"]
<1>1. gen[p] \in Passes /\ gen \in [Processes -> Passes]
  BY DEF IInv, TypeOK
<1>2. /\ gen' = [gen EXCEPT ![p] = g] /\ UNCHANGED <<calendar, sub, invoice>>
      /\ gen[p].at = "loop" /\ gen[p].todo = {} /\ ~Writing(p)
  BY <1>1 DEF PassEnd, Writing
<1>3. /\ g \in Passes /\ g.at = "done" /\ g.seen = gen[p].seen
      /\ g.todo = gen[p].todo /\ g.period = gen[p].period /\ g.clean = gen[p].clean
  BY <1>1 DEF Passes
<1> HIDE DEF g
<1>4. (\A u \in g.seen : Born(u)) /\ g.todo \subseteq g.seen
  BY <1>3 DEF IInv, Sound, PassesAreSound
<1>5. g.clean => \A u \in Monthly(g.seen) : InvoicesOf(sub[u].tenant, g.period) # {}
  BY <1>2, <1>3 DEF IInv, PassAccounts
<1> QED
  BY <1>2, <1>3, <1>4, <1>5, PassStep


\* The new invoice is the first that p makes for its tenant and month: since p
\* found none, only another process can have made one.
LEMMA PassInsertHolds ==
  ASSUME IInv, NEW p \in Processes, NEW i \in Invoices, PassInsert(p, i)
  PROVE  IInv'
<1> DEFINE n == [tenant |-> gen[p].tenant, period |-> gen[p].period, by |-> p]
           g == [gen[p] EXCEPT !.at = "loop", !.tenant = NoTenant]
<1>1. /\ gen \in [Processes -> Passes] /\ gen[p] \in Passes
      /\ invoice \in [Invoices -> InvoiceRows]
  BY DEF IInv, TypeOK
<1>2. /\ invoice' = [invoice EXCEPT ![i] = n] /\ gen' = [gen EXCEPT ![p] = g]
      /\ invoice[i] = NoInvoiceYet /\ gen[p].at = "priced"
      /\ UNCHANGED <<month, firstDay, sub>>
  BY <1>1 DEF PassInsert, calendar
<1>3. /\ n \in InvoiceRows /\ n.tenant = gen[p].tenant /\ n.period = gen[p].period
      /\ n.by = p
  BY <1>1 DEF Passes, InvoiceRows
<1>4. /\ g \in Passes /\ g.at = "loop" /\ g.seen = gen[p].seen
      /\ g.todo = gen[p].todo /\ g.period = gen[p].period /\ g.clean = gen[p].clean
  BY <1>1 DEF Passes
<1> HIDE DEF n, g
<1>5. invoice'[i] = n /\ \A j \in Invoices \ {i} : invoice'[j] = invoice[j]
  BY <1>1, <1>2
<1>6. gen'[p] = g /\ \A q \in Processes \ {p} : gen'[q] = gen[q]
  BY <1>1, <1>2
<1>7. Writing(p) /\ gen[p].tenant \in Tenants
  BY <1>2 DEF IInv, Sound, PassesAreSound, Writing
<1>8. invoice[i].tenant \notin Tenants
  BY <1>2, InvoicingAssumption DEF NoInvoiceYet
<1>9. TypeOK'
  <2>1. gen' \in [Processes -> Passes] /\ invoice' \in [Invoices -> InvoiceRows]
    BY <1>1, <1>2, <1>3, <1>4
  <2> QED
    BY <1>2, <2>1 DEF IInv, TypeOK
<1>10. Sound'
  <2>1. PassesAreSound'
    BY <1>2, <1>4, <1>6 DEF IInv, Sound, PassesAreSound, Writing, Born
  <2>2. InvoicesAreSound'
    BY <1>3, <1>5, <1>7 DEF IInv, Sound, InvoicesAreSound, NoInvoiceYet
  <2> QED
    BY <1>2, <2>1, <2>2 DEF IInv, Sound, FirstDayBillsAMonth, SubsAreSound, Born
<1>11. NotYetMade'
  <2> SUFFICES ASSUME NEW q \in Processes, gen'[q].at \in {"missing", "priced"},
                      NEW j \in Invoices, invoice'[j].tenant = gen'[q].tenant,
                      invoice'[j].period = gen'[q].period
               PROVE  invoice'[j].by # q
    BY DEF NotYetMade, Writing, InvoicesOf
  <2>1. q # p /\ gen'[q] = gen[q]
    BY <1>4, <1>6
  <2>2. CASE j = i
    BY <2>1, <2>2, <1>3, <1>5
  <2>3. CASE j # i
    BY <2>1, <2>3, <1>5 DEF IInv, NotYetMade, Writing, InvoicesOf
  <2> QED
    BY <2>2, <2>3
<1>12. OneInvoicePerGenerator'
  <2>1. ASSUME NEW j \in Invoices, j # i, invoice[j].tenant = n.tenant,
               invoice[j].period = n.period
        PROVE  invoice[j].by # p
    BY <2>1, <1>3, <1>7 DEF IInv, NotYetMade, InvoicesOf
  <2> SUFFICES ASSUME NEW j \in Invoices, NEW k \in Invoices, j # k,
                      invoice'[j] # NoInvoiceYet,
                      invoice'[j].tenant = invoice'[k].tenant,
                      invoice'[j].period = invoice'[k].period
               PROVE  invoice'[j].by # invoice'[k].by
    BY DEF OneInvoicePerGenerator, NoInvoiceYet
  <2>2. CASE j = i
    BY <2>1, <2>2, <1>3, <1>5
  <2>3. CASE k = i
    BY <2>1, <2>3, <1>3, <1>5
  <2>4. CASE j # i /\ k # i
    BY <2>4, <1>5 DEF IInv, OneInvoicePerGenerator
  <2> QED
    BY <2>2, <2>3, <2>4
<1>13. PassAccounts'
  <2> SUFFICES ASSUME NEW q \in Processes, gen'[q].at # "idle", gen'[q].clean,
                      NEW s \in gen'[q].seen, ~sub[s].yearly
               PROVE  \/ s \in gen'[q].todo
                      \/ \E j \in Invoices : /\ invoice'[j].tenant = sub[s].tenant
                                             /\ invoice'[j].period = gen'[q].period
                      \/ gen'[q].at \in {"missing", "priced"}
                         /\ gen'[q].tenant = sub[s].tenant
    BY <1>2 DEF PassAccounts, Writing, InvoicesOf, Monthly
  <2>1. /\ gen'[q].seen = gen[q].seen /\ gen'[q].todo = gen[q].todo
        /\ gen'[q].period = gen[q].period /\ gen'[q].clean = gen[q].clean
    BY <1>4, <1>6
  <2>2. s \in gen[q].seen /\ sub[s].tenant \in Tenants
    BY <2>1 DEF IInv, TypeOK, Passes, Sound, PassesAreSound, SubsAreSound
  <2>3. gen[q].at # "idle"
    BY <1>2, <1>6
  <2>4. \/ s \in gen[q].todo
        \/ InvoicesOf(sub[s].tenant, gen[q].period) # {}
        \/ Writing(q) /\ gen[q].tenant = sub[s].tenant
    BY <2>1, <2>2, <2>3 DEF IInv, PassAccounts, Monthly
  <2>5. CASE InvoicesOf(sub[s].tenant, gen[q].period) # {}
    <3>1. PICK j \in Invoices : invoice[j].tenant = sub[s].tenant
                                /\ invoice[j].period = gen[q].period
      BY <2>5 DEF InvoicesOf
    <3>2. j # i
      BY <3>1, <2>2, <1>8
    <3> QED
      BY <3>1, <3>2, <2>1, <1>5
  <2>6. CASE Writing(q) /\ gen[q].tenant = sub[s].tenant
    <3>1. CASE q = p
      BY <3>1, <2>1, <2>6, <1>3, <1>5
    <3>2. CASE q # p
      BY <3>2, <2>6, <1>6 DEF Writing
    <3> QED
      BY <3>1, <3>2
  <2> QED
    BY <2>1, <2>4, <2>5, <2>6
<1> QED
  BY <1>9, <1>10, <1>11, <1>12, <1>13 DEF IInv

-----------------------------------------------------------------------------
LEMMA DayPassesHolds ==
  ASSUME IInv, DayPasses
  PROVE  IInv'
<1>1. /\ firstDay' = ~firstDay
      /\ ~firstDay => month < MaxMonth
      /\ month' = IF firstDay THEN month ELSE month + 1
      /\ UNCHANGED <<sub, invoice, gen>>
  BY DEF DayPasses
<1>2. month \in 0..MaxMonth /\ firstDay \in BOOLEAN
  BY DEF IInv, TypeOK
<1>3. MaxMonth \in Nat
  BY InvoicingAssumption
<1>4. /\ month' \in 0..MaxMonth
      /\ firstDay' \in BOOLEAN
      /\ FirstDayBillsAMonth'
  <2>1. firstDay' \in BOOLEAN /\ (firstDay' <=> ~firstDay)
    BY <1>1
  <2>2. CASE firstDay
    BY <2>1, <2>2, <1>1, <1>2 DEF FirstDayBillsAMonth
  <2>3. CASE ~firstDay
    <3>1. month' = month + 1 /\ month < MaxMonth
      BY <1>1, <2>3
    <3>2. month' \in 0..MaxMonth /\ month' # 0
      BY <3>1, <1>2, <1>3
    <3> QED
      BY <2>1, <3>2 DEF FirstDayBillsAMonth
  <2> QED
    BY <2>2, <2>3
<1>5. TypeOK'
  BY <1>1, <1>4 DEF IInv, TypeOK
<1>6. Sound'
  BY <1>1, <1>4 DEF IInv, Sound, SubsAreSound, PassesAreSound, InvoicesAreSound,
                    Born, Writing
<1>7. NotYetMade' /\ OneInvoicePerGenerator' /\ PassAccounts'
  BY <1>1 DEF IInv, NotYetMade, OneInvoicePerGenerator, PassAccounts, Writing,
              InvoicesOf, Monthly
<1> QED
  BY <1>5, <1>6, <1>7 DEF IInv

LEMMA StutterHolds == IInv /\ UNCHANGED vars => IInv'
BY DEF vars, IInv, TypeOK, Sound, FirstDayBillsAMonth, SubsAreSound, PassesAreSound,
       InvoicesAreSound, NotYetMade, OneInvoicePerGenerator, PassAccounts, Born,
       Writing, InvoicesOf, Monthly

LEMMA StepHolds == IInv /\ [Next]_vars => IInv'
<1> SUFFICES ASSUME IInv, [Next]_vars PROVE IInv'
  OBVIOUS
<1>1. ASSUME NEW s \in Subs, NEW t \in Tenants, NEW yearly \in BOOLEAN,
             NEW old \in Subs \cup {NoSub}, CreateCheck(s, t, yearly, old)
      PROVE  IInv'
  BY <1>1, CreateCheckHolds
<1>2. ASSUME NEW s \in Subs, EndOld(s) \/ CreateInsert(s) \/ CreateFails(s)
      PROVE  IInv'
  BY <1>2, EndOldHolds, CreateEndsHolds
<1>3. ASSUME NEW p \in Processes, PassStart(p) \/ PassPrice(p) \/ PassEnd(p) \/ Restart(p)
      PROVE  IInv'
  BY <1>3, PassStartHolds, PassPriceHolds, PassEndHolds, RestartHolds
<1>4. ASSUME NEW p \in Processes,
             GenerateFails(p) \/ \E s \in Subs : CheckFails(p, s)
      PROVE  IInv'
  BY <1>4, FailuresHold
<1>5. ASSUME NEW p \in Processes, NEW s \in Subs, PassCheck(p, s)
      PROVE  IInv'
  BY <1>5, PassCheckHolds
<1>6. ASSUME NEW p \in Processes, NEW i \in Invoices, PassInsert(p, i)
      PROVE  IInv'
  BY <1>6, PassInsertHolds
<1> QED
  BY <1>1, <1>2, <1>3, <1>4, <1>5, <1>6, DayPassesHolds, StutterHolds DEF Next

LEMMA Invariant == Spec => []IInv
BY InitHolds, StepHolds, PTL DEF Spec

-----------------------------------------------------------------------------
\* Rows and passes keep their types, and a pass bills a month that is over.
THEOREM TypeCorrect == Spec => []TypeOK
<1>1. IInv => TypeOK
  BY DEF IInv
<1> QED
  BY <1>1, Invariant, PTL

\* One process never makes two invoices of a tenant for a month.
THEOREM OneInvoiceHolds == Spec => []OneInvoicePerGenerator
<1>1. IInv => OneInvoicePerGenerator
  BY DEF IInv
<1> QED
  BY <1>1, Invariant, PTL

\* A pass in which nothing failed leaves every monthly subscription invoiced.
THEOREM MonthlyIsInvoicedHolds == Spec => []MonthlyIsInvoiced
<1>1. IInv => MonthlyIsInvoiced
  BY DEF IInv, Sound, PassesAreSound, PassAccounts, MonthlyIsInvoiced, Writing
<1> QED
  BY <1>1, Invariant, PTL

\* billing_service.py:904 "Check if invoice already exists": a tenant has one
\* invoice a month, whoever makes it.
OneInvoiceAMonth ==
  \A i, j \in Invoices :
    /\ invoice[i] # NoInvoiceYet
    /\ invoice[i].tenant = invoice[j].tenant
    /\ invoice[i].period = invoice[j].period
    => i = j

\* The code keeps that where a single process runs the generator; two that both look
\* before either inserts make two invoices.
THEOREM SingleGenerator ==
  ASSUME NEW p, Processes = {p}
  PROVE  Spec => []OneInvoiceAMonth
<1>1. ASSUME IInv PROVE OneInvoiceAMonth
  <2> SUFFICES ASSUME NEW i \in Invoices, NEW j \in Invoices, i # j,
                      invoice[i] # NoInvoiceYet,
                      invoice[i].tenant = invoice[j].tenant,
                      invoice[i].period = invoice[j].period
               PROVE  FALSE
    BY DEF OneInvoiceAMonth
  <2>1. invoice[i].tenant \in Tenants /\ invoice[i].by \in Processes
    BY <1>1 DEF IInv, Sound, InvoicesAreSound
  <2>2. invoice[j] # NoInvoiceYet
    BY <2>1, InvoicingAssumption DEF NoInvoiceYet
  <2>3. invoice[j].by \in Processes
    BY <1>1, <2>2 DEF IInv, Sound, InvoicesAreSound
  <2>4. invoice[i].by # invoice[j].by
    BY <1>1 DEF IInv, OneInvoicePerGenerator
  <2> QED
    BY <2>1, <2>3, <2>4
<1> QED
  BY <1>1, Invariant, PTL
=============================================================================
