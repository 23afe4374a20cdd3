--------------------------- MODULE ConnectionPool ---------------------------
(***************************************************************************)
(* The two asyncpg pools of a process: the one of core/auth/auth_service   *)
(* and the one of core/billing/billing_service, each with max_size 20.     *)
(* Several operations call another operation of their service while they   *)
(* hold a connection, and that one acquires its own; acquire() has no      *)
(* timeout.                                                                *)
(*                                                                         *)
(* A task is a coroutine: a request, or a background loop.  What it does   *)
(* with its connections between two acquisitions or releases is left out,  *)
(* and the operations of a service with the same pattern are one.          *)
(***************************************************************************)
EXTENDS Naturals, Sequences, FiniteSets

CONSTANTS
  Tasks,
  AuthConns, BillingConns,  \* the connections of each pool
  NoTask, NoOp

ASSUME PoolAssumption ==
  /\ IsFiniteSet(Tasks) /\ IsFiniteSet(AuthConns) /\ IsFiniteSet(BillingConns)
  /\ AuthConns \cap BillingConns = {}
  /\ NoTask \notin Tasks

VARIABLES
  op,     \* the operation each task is in
  step,   \* how many acquisitions and releases of it are done
  owner   \* the task that holds each connection

vars == <<op, step, owner>>

A == "acquire"
R == "release"

\* check_permission, get_user_by_id, update_user, verify_token, validate_api_key,
\* refresh_access_token, revoke_token.
Query == <<A, R>>

\* create_user, create_tenant, create_api_key, delete_user and a login that is
\* refused: audit_log is called with the own connection held.
Change == <<A, A, R, R>>

\* Mutant: the connection of the session is kept until the login is logged.
LoginKeeping == <<A, A, A, R, R, R>>

\* authenticate: _create_session, then audit_log.
Login == <<A, A, R, A, R, R>>

\* _flush_usage_buffer, _aggregate_daily_usage, create_subscription,
\* get_active_subscription, add_payment_method.
Flush == <<A, R>>

\* get_usage_summary asks for the active subscription.
Summary == <<A, A, R, R>>

\* _generate_monthly_invoices, with the generate_invoice of one subscription:
\* the summary, the subscription, the insert.
\* Bound, here and in Paying: a second invoice repeats what lies between the
\* first acquisition and the last release.
Generator == <<A,  A, A, R, R,  A, R,  A, R,  R>>

\* _process_auto_payments, with the process_payment of one invoice.
Paying == <<A, A, R, R>>

AuthScripts == [query |-> Query, change |-> Change, login |-> Login]
BillingScripts ==
  [flush |-> Flush, summary |-> Summary, invoicing |-> Generator, paying |-> Paying]

AuthOps == DOMAIN AuthScripts
BillingOps == DOMAIN BillingScripts
Operations == AuthOps \cup BillingOps

\* One task of each kind runs in a process; its loop catches what a single
\* invoice or subscription raises and goes on with its own connection.
Sweeps == {"invoicing", "paying"}

Script(o) == IF o \in AuthOps THEN AuthScripts[o] ELSE BillingScripts[o]
ConnsOf(o) == IF o \in AuthOps THEN AuthConns ELSE BillingConns

Running(t) == op[t] # NoOp
Asks(t) == Running(t) /\ Script(op[t])[step[t] + 1] = A
Holds(t) == {c \in DOMAIN owner : owner[c] = t}

TypeOK ==
  /\ op \in [Tasks -> Operations \cup {NoOp}]
  /\ step \in [Tasks -> Nat]
  /\ \A t \in Tasks : step[t] \in 0..(IF Running(t) THEN Len(Script(op[t])) - 1 ELSE 0)
  /\ owner \in [AuthConns \cup BillingConns -> Tasks \cup {NoTask}]

Init ==
  /\ op = [t \in Tasks |-> NoOp]
  /\ step = [t \in Tasks |-> 0]
  /\ owner = [c \in AuthConns \cup BillingConns |-> NoTask]

Begin(t, o) ==
  /\ ~Running(t)
  /\ o \in Sweeps => \A u \in Tasks : op[u] # o
  /\ op' = [op EXCEPT ![t] = o]
  /\ UNCHANGED <<step, owner>>

\* `async with self.db_pool.acquire()`.
Acquire(t) ==
  /\ Asks(t)
  /\ \E c \in ConnsOf(op[t]) :
       /\ owner[c] = NoTask
       /\ owner' = [owner EXCEPT ![c] = t]
  /\ step' = [step EXCEPT ![t] = @ + 1]
  /\ UNCHANGED op

\* Mutant: an operation goes on after its last release.
EndsLate(t) == step[t] = Len(Script(op[t]))

Ends(t) == step[t] + 1 = Len(Script(op[t]))

\* The end of such a block.
Release(t) ==
  /\ Running(t) /\ ~Asks(t)
  /\ \E c \in Holds(t) : owner' = [owner EXCEPT ![c] = NoTask]
  /\ op' = [op EXCEPT ![t] = IF Ends(t) THEN NoOp ELSE @]
  /\ step' = [step EXCEPT ![t] = IF Ends(t) THEN 0 ELSE @ + 1]

\* Mutant: a connection in use when an exception passes is not given back.
AbandonedBy(t, kept) == owner

\* An exception leaves every block but those around its handler; a release
\* waits for no other task, so they are left in one step.
LeftBy(t, kept) ==
  [c \in DOMAIN owner |-> IF c \in Holds(t) \ kept THEN NoTask ELSE owner[c]]

\* A statement fails, in the block entered last.
Fail(t) ==
  /\ Running(t) /\ ~Asks(t)
  /\ \/ /\ owner' = LeftBy(t, {})
        /\ op' = [op EXCEPT ![t] = NoOp]
        /\ step' = [step EXCEPT ![t] = 0]
     \/ /\ op[t] \in Sweeps
        /\ \E c \in Holds(t) : owner' = LeftBy(t, {c})
        /\ step' = [step EXCEPT ![t] = Len(Script(op[t])) - 1]
        /\ UNCHANGED op

Next ==
  \E t \in Tasks :
    \/ \E o \in Operations : Begin(t, o)
    \/ Acquire(t)
    \/ Release(t)
    \/ Fail(t)

Spec == Init /\ [][Next]_vars

\* The event loop runs what can run and PostgreSQL answers or fails; a pool
\* serves those who wait in the order they came, so none is passed over for ever.
Fairness ==
  \A t \in Tasks : WF_vars(Release(t) \/ Fail(t)) /\ SF_vars(Acquire(t))

FairSpec == Spec /\ Fairness

-----------------------------------------------------------------------------
\* How many connections of its own a task may hold while it asks for one more.
Nesting(o) ==
  CASE o \in {"query", "flush"} -> 0
    [] o \in {"change", "login", "summary", "paying"} -> 1
    [] o = "invoicing" -> 2

\* The load of a pool: what its tasks could hold between them and all ask again.
Load(ops) ==
  LET running(n) == Cardinality({t \in Tasks : op[t] \in ops /\ Nesting(op[t]) = n})
  IN  running(1) + 2 * running(2)

\* Every connection is held by a task that asks for another: nobody can go on.
Stuck(conns) == \A c \in conns : owner[c] # NoTask /\ Asks(owner[c])

\* The deadlock of nested acquisition (auth 389 and 506, billing 893 and 683)
\* needs as many nested operations as there are connections, the invoice generator
\* counting for two because it nests two acquisitions: below that load, however the
\* tasks interleave and fail, somebody can go on.
StuckIsOverloaded ==
  /\ Stuck(AuthConns) => Load(AuthOps) >= Cardinality(AuthConns)
  /\ Stuck(BillingConns) => Load(BillingOps) >= Cardinality(BillingConns)

Light ==
  /\ Load(AuthOps) < Cardinality(AuthConns)
  /\ Load(BillingOps) < Cardinality(BillingConns)

\* As long as no pool is overloaded every operation comes to an end, though no
\* acquisition has a timeout.
LightLoadCompletes ==
  []Light => \A t \in Tasks : Running(t) ~> ~Running(t)
=============================================================================
