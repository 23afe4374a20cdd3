------------------------------- MODULE Gateway -------------------------------
(***************************************************************************)
(* A request to execute a module, through api/gateway.py: its API key is   *)
(* validated (auth, with a cache in Redis), the rate limit is checked      *)
(* (billing), then circuit breaker and response cache, the hub is asked,   *)
(* the usage is tracked (billing) and the answer is cached.                *)
(*                                                                         *)
(* Each await is a point where other requests run.  A target is what a     *)
(* request asks for: tenant, module, action and payload, the parts of its  *)
(* cache key.  Times are abstracted to which of two durations has passed.  *)
(* Requests with a JWT, which AuthTokens models, go the same way from the  *)
(* rate limit on.                                                          *)
(***************************************************************************)
EXTENDS Naturals, Sequences

CONSTANTS
  Clients,       \* places for a request, each used over and over
  Keys,          \* API keys
  LastingKeys,   \* those created without expires_at
  Targets,
  Services,      \* breakers
  ServiceOf,     \* the module_id of a target, or its action if it names none
  MaxFailures,   \* 5
  MinSuccesses,  \* 5
  MaxEntries,    \* 1000
  Evicted,       \* 100
  Nothing

ASSUME GatewayAssumption ==
  /\ Nothing \notin Keys \cup Targets
  /\ LastingKeys \subseteq Keys
  /\ ServiceOf \in [Targets -> Services]
  /\ MaxFailures \in Nat /\ MinSuccesses \in Nat /\ MaxEntries \in Nat
  /\ Evicted \in 1..MaxEntries

VARIABLES
  req,         \* where each request is, with its key or, later, its target
  \* circuit_breakers
  state, failures, successes,
  recent,      \* was last_failure less than 60 seconds ago?
  \* request_cache in the order of its timestamps; fresh within cache_ttl
  cache,
  \* API keys
  expired,     \* expires_at has passed
  cachedKeys   \* in Redis

breakers == <<state, failures, successes, recent>>
keyVars == <<expired, cachedKeys>>
vars == <<req, breakers, cache, keyVars>>

Waiting(places, S) == [at : places, of : S]

None == [at |-> "none", of |-> Nothing]

TypeOK ==
  /\ req \in [Clients -> {None}
                \cup Waiting({"key lookup", "key select", "key store"}, Keys)
                \cup Waiting({"limit", "route", "track"}, Targets)]
  /\ state \in [Services -> {"closed", "open", "half-open"}]
  /\ failures \in [Services -> 0..MaxFailures + 1]
  /\ successes \in [Services -> 0..MinSuccesses + 1]
  /\ recent \in [Services -> BOOLEAN]
  /\ cache \in Seq([target : Targets, fresh : BOOLEAN])
  /\ expired \in SUBSET (Keys \ LastingKeys)
  /\ cachedKeys \in SUBSET Keys

Init ==
  /\ req = [c \in Clients |-> None]
  /\ state = [s \in Services |-> "closed"]
  /\ failures = [s \in Services |-> 0]
  /\ successes = [s \in Services |-> 0]
  /\ recent = [s \in Services |-> FALSE]
  /\ cache = <<>>
  /\ expired = {}
  /\ cachedKeys = {}

At(c, place) == req[c].at = place
Goes(c, place) == req' = [req EXCEPT ![c].at = place]
Ends(c) == req' = [req EXCEPT ![c] = None]
Admitted(c) == \E t \in Targets : req' = [req EXCEPT ![c] = [at |-> "limit", of |-> t]]
Service(c) == ServiceOf[req[c].of]

-----------------------------------------------------------------------------
(* Circuit breakers.  Counters stop one beyond their threshold.            *)

Up(n, max) == IF n > max THEN n ELSE n + 1

RecordFailure(s) ==
  /\ failures' = [failures EXCEPT ![s] = Up(@, MaxFailures)]
  /\ recent' = [recent EXCEPT ![s] = TRUE]
  /\ state' = [state EXCEPT ![s] = IF failures[s] >= MaxFailures THEN "open" ELSE @]
  /\ UNCHANGED successes

\* Mutant: a breaker that closes keeps its failures.
ClosedWithFailures(s) ==
  /\ successes' = [successes EXCEPT ![s] = Up(@, MinSuccesses)]
  /\ state' = [state EXCEPT ![s] =
                 IF @ = "half-open" /\ successes[s] >= MinSuccesses THEN "closed" ELSE @]
  /\ UNCHANGED <<failures, recent>>

\* Successes count from the start of the process, in every state.
RecordSuccess(s) ==
  LET closes == state[s] = "half-open" /\ successes[s] >= MinSuccesses IN
  /\ successes' = [successes EXCEPT ![s] = Up(@, MinSuccesses)]
  /\ state' = [state EXCEPT ![s] = IF closes THEN "closed" ELSE @]
  /\ failures' = [failures EXCEPT ![s] = IF closes THEN 0 ELSE @]
  /\ UNCHANGED recent

IsCircuitOpen(s) == state[s] = "open" /\ recent[s]

\* Mutant: the breaker lets a request through and stays open.
LetThrough(s) == UNCHANGED breakers

\* Mutant: the state has another name here than where a success looks for it.
Misspelt(s) ==
  /\ state' = [state EXCEPT ![s] = IF @ = "open" THEN "half_open" ELSE @]
  /\ UNCHANGED <<failures, successes, recent>>

\* A breaker that lets a request through although it was open is half open.
HalfOpen(s) ==
  /\ state' = [state EXCEPT ![s] = IF @ = "open" THEN "half-open" ELSE @]
  /\ UNCHANGED <<failures, successes, recent>>

-----------------------------------------------------------------------------
(* The response cache.                                                     *)

IsCached(t) == \E i \in DOMAIN cache : cache[i].target = t /\ cache[i].fresh

Entry(t) == [target |-> t, fresh |-> TRUE]

\* The cache without the entry of a target, if it has one.
Others(t) ==
  IF \E i \in DOMAIN cache : cache[i].target = t
  THEN LET at == CHOOSE i \in DOMAIN cache : cache[i].target = t
       IN  SubSeq(cache, 1, at - 1) \o SubSeq(cache, at + 1, Len(cache))
  ELSE cache

\* Mutant: an entry is made room for, whatever it replaces, with > for >=.
StoredLate(t) ==
  LET room == IF Len(cache) > MaxEntries
              THEN SubSeq(Others(t), Evicted + 1, Len(Others(t))) ELSE Others(t)
  IN  Append(room, Entry(t))

\* The entry of a target is replaced; the oldest go when there are too many.
Stored(t) ==
  LET all == Append(Others(t), Entry(t))
  IN  IF Len(all) > MaxEntries THEN SubSeq(all, Evicted + 1, Len(all)) ELSE all

-----------------------------------------------------------------------------
(* The key of the request.                                                 *)

\* The target of a request is fixed when it is first looked at.
Arrive(c, k) ==
  /\ At(c, "none")
  /\ req' = [req EXCEPT ![c] = [at |-> "key lookup", of |-> k]]
  /\ UNCHANGED <<breakers, cache, keyVars>>

\* What Redis has is taken as it is.
LookUpKey(c) ==
  /\ At(c, "key lookup")
  /\ IF req[c].of \in cachedKeys THEN Admitted(c) ELSE Goes(c, "key select")
  /\ UNCHANGED <<breakers, cache, keyVars>>

\* Mutant: the query forgets expires_at.
Selectable(k) == k \in Keys

\* is_active is never cleared, so a row is refused only by its expires_at.
Selected(k) == k \notin expired

\* The row is read, or the request is refused with status 401.
SelectKey(c) ==
  /\ At(c, "key select")
  /\ IF Selected(req[c].of) THEN Goes(c, "key store") ELSE Ends(c)
  /\ UNCHANGED <<breakers, cache, keyVars>>

\* last_used is updated and the key is cached, for five minutes.
StoreKey(c) ==
  /\ At(c, "key store")
  /\ cachedKeys' = cachedKeys \cup {req[c].of}
  /\ Admitted(c)
  /\ UNCHANGED <<breakers, cache, expired>>

\* PostgreSQL or Redis raise, outside of any handler: status 500.
KeyFails(c) ==
  /\ req[c].at \in {"key lookup", "key select", "key store"}
  /\ Ends(c)
  /\ UNCHANGED <<breakers, cache, keyVars>>

-----------------------------------------------------------------------------
(* _execute_module.                                                        *)

\* Any exception, the handler's own HTTPExceptions among them, is a failure of
\* the service asked for, and an answer with status "error".
Raises(c) ==
  /\ RecordFailure(Service(c))
  /\ Ends(c)
  /\ UNCHANGED <<cache, keyVars>>

\* The tenant has no active subscription (429), or a query of it raises.  The
\* limit itself is never reached: nothing writes the counter it reads.
LimitRefuses(c) ==
  /\ At(c, "limit")
  /\ Raises(c)

BreakerRefuses(c) ==
  /\ At(c, "limit")
  /\ IsCircuitOpen(Service(c))
  /\ Raises(c)

\* What the handler does after the rate limit, up to the next await.
Passes(c) ==
  /\ At(c, "limit")
  /\ ~IsCircuitOpen(Service(c))
  /\ HalfOpen(Service(c))
  /\ UNCHANGED <<cache, keyVars>>

AnswerCached(c) == Passes(c) /\ IsCached(req[c].of) /\ Ends(c)

\* A streaming answer is returned before the hub is asked, and is neither
\* tracked nor counted by the breaker.
AnswerStream(c) == Passes(c) /\ ~IsCached(req[c].of) /\ Ends(c)

Route(c) == Passes(c) /\ ~IsCached(req[c].of) /\ Goes(c, "route")

\* The hub answers.  (At this commit MCPHub has no method route, and the call
\* raises: RouteRaises.)
Routed(c) ==
  /\ At(c, "route")
  /\ Goes(c, "track")
  /\ UNCHANGED <<breakers, cache, keyVars>>

RouteRaises(c) ==
  /\ At(c, "route")
  /\ Raises(c)

\* track_usage returns: the answer is cached, the breaker told, all at once.
Tracked(c) ==
  /\ At(c, "track")
  /\ cache' = Stored(req[c].of)
  /\ RecordSuccess(Service(c))
  /\ Ends(c)
  /\ UNCHANGED keyVars

\* A flush or the counter raises: the module has run and the answer is lost.
TrackRaises(c) ==
  /\ At(c, "track")
  /\ Raises(c)

-----------------------------------------------------------------------------
(* Time.                                                                   *)

MinutePasses(s) ==
  /\ recent[s]
  /\ recent' = [recent EXCEPT ![s] = FALSE]
  /\ UNCHANGED <<req, state, failures, successes, cache, keyVars>>

\* The oldest of the fresh entries reaches cache_ttl.
EntryAges ==
  \E i \in DOMAIN cache :
    /\ cache[i].fresh
    /\ \A j \in 1..i - 1 : ~cache[j].fresh
    /\ cache' = [cache EXCEPT ![i].fresh = FALSE]
    /\ UNCHANGED <<req, breakers, keyVars>>

KeyExpires(k) ==
  /\ k \in Keys \ (LastingKeys \cup expired)
  /\ expired' = expired \cup {k}
  /\ UNCHANGED <<req, breakers, cache, cachedKeys>>

\* Redis drops the key.
KeyLeavesCache(k) ==
  /\ k \in cachedKeys
  /\ cachedKeys' = cachedKeys \ {k}
  /\ UNCHANGED <<req, breakers, cache, expired>>

-----------------------------------------------------------------------------
Handles(c) ==
  \/ LookUpKey(c) \/ SelectKey(c) \/ StoreKey(c) \/ KeyFails(c)
  \/ LimitRefuses(c) \/ BreakerRefuses(c)
  \/ AnswerCached(c) \/ AnswerStream(c) \/ Route(c)
  \/ Routed(c) \/ RouteRaises(c)
  \/ Tracked(c) \/ TrackRaises(c)

Next ==
  \/ \E c \in Clients :
       \/ \E k \in Keys : Arrive(c, k)
       \/ Handles(c)
  \/ \E s \in Services : MinutePasses(s)
  \/ EntryAges
  \/ \E k \in Keys : KeyExpires(k) \/ KeyLeavesCache(k)

Spec == Init /\ [][Next]_vars

\* The event loop goes on with every request, whose awaits return or raise;
\* time passes, for the breakers and for Redis.  Nothing is assumed of clients,
\* of the subscriptions or of the hub's answers.
Fairness ==
  /\ \A c \in Clients : WF_vars(Handles(c))
  /\ \A s \in Services : WF_vars(MinutePasses(s))
  /\ \A k \in Keys : WF_vars(KeyLeavesCache(k))

FairSpec == Spec /\ Fairness

-----------------------------------------------------------------------------
\* A breaker is closed exactly as long as its failures are within the limit,
\* though requests admitted in one state succeed and fail in another.
ClosedIsWithinLimit ==
  \A s \in Services : state[s] = "closed" <=> failures[s] <= MaxFailures

\* The cache is bounded whenever a request waits, names a target once, and is
\* ordered by age, so that what it drops is the oldest.
CacheIsBounded ==
  /\ Len(cache) <= MaxEntries
  /\ \A i, j \in DOMAIN cache : i < j =>
       /\ cache[i].target # cache[j].target
       /\ cache[i].fresh => cache[j].fresh

\* A key that has expired is in the end no longer accepted from the cache, even
\* if it was being validated when it expired and is used all the time.
ExpiredKeyDies ==
  \A k \in Keys : k \in expired ~> [](k \notin cachedKeys)

\* A breaker that stays open for ever although its service is asked for does so
\* because of the traffic itself: every minute a call, be it one that the breaker
\* rejected, is counted as a failure.
OpenIsKeptByTraffic ==
  \A s \in Services :
    /\ <>[](state[s] = "open")
    /\ []<>(\E c \in Clients : At(c, "limit") /\ Service(c) = s)
    => []<>recent[s]
=============================================================================
