---------------------------- MODULE GatewayProofs ----------------------------
(***************************************************************************)
(* Proofs about the circuit breakers and the response cache of Gateway,    *)
(* for any clients, targets, services, thresholds and limits.              *)
(***************************************************************************)
EXTENDS Gateway, SequenceTheorems, TLAPS

\* What a step changes of the breakers is about the service of a target.
RequestTypes ==
  req \in [Clients -> {None}
             \cup Waiting({"key lookup", "key select", "key store"}, Keys)
             \cup Waiting({"limit", "route", "track"}, Targets)]

BreakerTypes ==
  /\ state \in [Services -> {"closed", "open", "half-open"}]
  /\ failures \in [Services -> 0..MaxFailures + 1]

IInv == RequestTypes /\ BreakerTypes /\ ClosedIsWithinLimit

LEMMA InitHolds == Init => IInv
<1>1. MaxFailures \in Nat
  BY GatewayAssumption
<1> QED
  BY <1>1 DEF Init, IInv, RequestTypes, BreakerTypes, ClosedIsWithinLimit

\* A request at one of these places has a target, and so a service.
LEMMA HasService ==
  ASSUME RequestTypes, NEW c \in Clients, req[c].at \in {"limit", "route", "track"}
  PROVE  req[c].of \in Targets /\ Service(c) \in Services
<1>1. req[c] \in {None} \cup Waiting({"key lookup", "key select", "key store"}, Keys)
                   \cup Waiting({"limit", "route", "track"}, Targets)
  BY DEF RequestTypes
<1>2. req[c] \in Waiting({"limit", "route", "track"}, Targets)
  <2>1. ASSUME NEW r \in Waiting({"key lookup", "key select", "key store"}, Keys)
        PROVE  r.at \in {"key lookup", "key select", "key store"}
    BY DEF Waiting
  <2>2. None.at = "none"
    BY DEF None
  <2> QED
    BY <1>1, <2>1, <2>2
<1>3. req[c].of \in Targets
  BY <1>2 DEF Waiting
<1> QED
  BY <1>3, GatewayAssumption DEF Service

-----------------------------------------------------------------------------
(* Requests.                                                               *)

LEMMA EndsKeepsTypes ==
  ASSUME RequestTypes, NEW c \in Clients, Ends(c)
  PROVE  RequestTypes'
BY DEF RequestTypes, Ends

LEMMA AdmittedKeepsTypes ==
  ASSUME RequestTypes, NEW c \in Clients, Admitted(c)
  PROVE  RequestTypes'
<1>1. PICK t \in Targets : req' = [req EXCEPT ![c] = [at |-> "limit", of |-> t]]
  BY DEF Admitted
<1>2. [at |-> "limit", of |-> t] \in Waiting({"limit", "route", "track"}, Targets)
  BY DEF Waiting
<1> QED
  BY <1>1, <1>2 DEF RequestTypes

\* A request goes on among the places where it has a key, or among those where
\* it has a target.
LEMMA GoesKeepsTypes ==
  ASSUME RequestTypes, NEW c \in Clients, NEW place, Goes(c, place),
         \/ /\ req[c].at \in {"key lookup", "key select", "key store"}
            /\ place \in {"key lookup", "key select", "key store"}
         \/ /\ req[c].at \in {"limit", "route", "track"}
            /\ place \in {"limit", "route", "track"}
  PROVE  RequestTypes'
<1> DEFINE K == Waiting({"key lookup", "key select", "key store"}, Keys)
           T == Waiting({"limit", "route", "track"}, Targets)
<1>1. req[c] \in {None} \cup K \cup T
  BY DEF RequestTypes
<1>2. [req[c] EXCEPT !.at = place] \in K \cup T
  <2>1. None.at = "none"
    BY DEF None
  <2>2. /\ \A r \in K : r.at \in {"key lookup", "key select", "key store"}
        /\ \A r \in T : r.at \in {"limit", "route", "track"}
    BY DEF Waiting
  <2>3. /\ \A r \in K, a \in {"key lookup", "key select", "key store"} : [r EXCEPT !.at = a] \in K
        /\ \A r \in T, a \in {"limit", "route", "track"} : [r EXCEPT !.at = a] \in T
    BY DEF Waiting
  <2> HIDE DEF K, T
  <2> QED
    BY <1>1, <2>1, <2>2, <2>3
<1>3. req' = [req EXCEPT ![c] = [req[c] EXCEPT !.at = place]]
  BY DEF Goes, RequestTypes
<1> QED
  BY <1>2, <1>3 DEF RequestTypes

-----------------------------------------------------------------------------
(* Breakers.                                                               *)

LEMMA FailureKeepsBreakers ==
  ASSUME BreakerTypes, ClosedIsWithinLimit, NEW s \in Services, RecordFailure(s)
  PROVE  BreakerTypes' /\ ClosedIsWithinLimit'
<1>1. MaxFailures \in Nat /\ failures[s] \in 0..MaxFailures + 1
  BY GatewayAssumption DEF BreakerTypes
<1>2. Up(failures[s], MaxFailures) \in 0..MaxFailures + 1
  BY <1>1 DEF Up
<1>3. BreakerTypes'
  BY <1>2 DEF BreakerTypes, RecordFailure
<1>4. ASSUME NEW r \in Services PROVE state'[r] = "closed" <=> failures'[r] <= MaxFailures
  <2>1. CASE r # s
    BY <2>1 DEF RecordFailure, BreakerTypes, ClosedIsWithinLimit
  <2>2. CASE r = s
    BY <2>2, <1>1 DEF RecordFailure, BreakerTypes, ClosedIsWithinLimit, Up
  <2> QED
    BY <2>1, <2>2
<1> QED
  BY <1>3, <1>4 DEF ClosedIsWithinLimit

LEMMA SuccessKeepsBreakers ==
  ASSUME BreakerTypes, ClosedIsWithinLimit, NEW s \in Services, RecordSuccess(s)
  PROVE  BreakerTypes' /\ ClosedIsWithinLimit'
<1>1. MaxFailures \in Nat
  BY GatewayAssumption
<1>2. BreakerTypes'
  BY <1>1 DEF BreakerTypes, RecordSuccess
<1>3. ASSUME NEW r \in Services PROVE state'[r] = "closed" <=> failures'[r] <= MaxFailures
  <2>1. CASE r # s
    BY <2>1 DEF RecordSuccess, BreakerTypes, ClosedIsWithinLimit
  <2>2. CASE r = s
    BY <2>2, <1>1 DEF RecordSuccess, BreakerTypes, ClosedIsWithinLimit
  <2> QED
    BY <2>1, <2>2
<1> QED
  BY <1>2, <1>3 DEF ClosedIsWithinLimit

LEMMA HalfOpenKeepsBreakers ==
  ASSUME BreakerTypes, ClosedIsWithinLimit, NEW s \in Services, HalfOpen(s)
  PROVE  BreakerTypes' /\ ClosedIsWithinLimit'
BY DEF BreakerTypes, ClosedIsWithinLimit, HalfOpen

LEMMA OthersKeepBreakers ==
  ASSUME BreakerTypes, ClosedIsWithinLimit, UNCHANGED <<state, failures>>
  PROVE  BreakerTypes' /\ ClosedIsWithinLimit'
BY DEF BreakerTypes, ClosedIsWithinLimit

-----------------------------------------------------------------------------
LEMMA RaisesHolds ==
  ASSUME IInv, NEW c \in Clients, req[c].at \in {"limit", "route", "track"}, Raises(c)
  PROVE  IInv'
BY HasService, FailureKeepsBreakers, EndsKeepsTypes DEF IInv, Raises

LEMMA PassesHolds ==
  ASSUME IInv, NEW c \in Clients, Passes(c), RequestTypes'
  PROVE  IInv'
<1>1. Service(c) \in Services
  BY HasService DEF IInv, Passes, At
<1> QED
  BY <1>1, HalfOpenKeepsBreakers DEF IInv, Passes

LEMMA HandlesHolds ==
  ASSUME IInv, NEW c \in Clients, Handles(c)
  PROVE  IInv'
<1> USE DEF IInv
<1>1. CASE LookUpKey(c)
  <2>1. RequestTypes'
    BY <1>1, AdmittedKeepsTypes, GoesKeepsTypes DEF LookUpKey, At
  <2> QED
    BY <1>1, <2>1, OthersKeepBreakers DEF LookUpKey, breakers
<1>2. CASE SelectKey(c)
  <2>1. RequestTypes'
    BY <1>2, EndsKeepsTypes, GoesKeepsTypes DEF SelectKey, At
  <2> QED
    BY <1>2, <2>1, OthersKeepBreakers DEF SelectKey, breakers
<1>3. CASE StoreKey(c)
  <2>1. RequestTypes'
    BY <1>3, AdmittedKeepsTypes DEF StoreKey
  <2> QED
    BY <1>3, <2>1, OthersKeepBreakers DEF StoreKey, breakers
<1>4. CASE KeyFails(c)
  <2>1. RequestTypes'
    BY <1>4, EndsKeepsTypes DEF KeyFails
  <2> QED
    BY <1>4, <2>1, OthersKeepBreakers DEF KeyFails, breakers
<1>5. CASE LimitRefuses(c) \/ BreakerRefuses(c)
  BY <1>5, RaisesHolds DEF LimitRefuses, BreakerRefuses, At
<1>6. CASE AnswerCached(c) \/ AnswerStream(c)
  BY <1>6, EndsKeepsTypes, PassesHolds DEF AnswerCached, AnswerStream
<1>7. CASE Route(c)
  <2>1. RequestTypes'
    BY <1>7, GoesKeepsTypes DEF Route, Passes, At
  <2> QED
    BY <1>7, <2>1, PassesHolds DEF Route
<1>8. CASE Routed(c)
  <2>1. RequestTypes'
    BY <1>8, GoesKeepsTypes DEF Routed, At
  <2> QED
    BY <1>8, <2>1, OthersKeepBreakers DEF Routed, breakers
<1>9. CASE RouteRaises(c) \/ TrackRaises(c)
  BY <1>9, RaisesHolds DEF RouteRaises, TrackRaises, At
<1>10. CASE Tracked(c)
  <2>1. Service(c) \in Services
    BY <1>10, HasService DEF Tracked, At
  <2> QED
    BY <1>10, <2>1, EndsKeepsTypes, SuccessKeepsBreakers DEF Tracked
<1> QED
  BY <1>1, <1>2, <1>3, <1>4, <1>5, <1>6, <1>7, <1>8, <1>9, <1>10 DEF Handles

LEMMA ArriveHolds ==
  ASSUME IInv, NEW c \in Clients, NEW k \in Keys, Arrive(c, k)
  PROVE  IInv'
<1>1. [at |-> "key lookup", of |-> k] \in Waiting({"key lookup", "key select", "key store"}, Keys)
  BY DEF Waiting
<1>2. RequestTypes'
  BY <1>1 DEF Arrive, IInv, RequestTypes
<1> QED
  BY <1>2, OthersKeepBreakers DEF Arrive, IInv, breakers

LEMMA StepHolds == IInv /\ [Next]_vars => IInv'
<1> SUFFICES ASSUME IInv, [Next]_vars PROVE IInv'
  OBVIOUS
<1>1. ASSUME NEW c \in Clients, NEW k \in Keys, Arrive(c, k) PROVE IInv'
  BY <1>1, ArriveHolds
<1>2. ASSUME NEW c \in Clients, Handles(c) PROVE IInv'
  BY <1>2, HandlesHolds
<1>3. CASE UNCHANGED <<req, state, failures>>
  BY <1>3, OthersKeepBreakers DEF IInv, RequestTypes
<1>4. ASSUME NEW s \in Services, MinutePasses(s) PROVE UNCHANGED <<req, state, failures>>
  BY <1>4 DEF MinutePasses
<1>5. CASE EntryAges
  BY <1>5, <1>3 DEF EntryAges, breakers
<1>6. ASSUME NEW k \in Keys, KeyExpires(k) \/ KeyLeavesCache(k)
      PROVE  UNCHANGED <<req, state, failures>>
  BY <1>6 DEF KeyExpires, KeyLeavesCache, breakers
<1>7. CASE UNCHANGED vars
  BY <1>7, <1>3 DEF vars, breakers
<1> QED
  BY <1>1, <1>2, <1>3, <1>4, <1>5, <1>6, <1>7 DEF Next

\* For any traffic and any thresholds, a breaker is closed exactly as long as its
\* failures are within the limit, though a request admitted in one state of the
\* breaker succeeds or fails in another.
THEOREM BreakerCorrect == Spec => []ClosedIsWithinLimit
<1>1. IInv => ClosedIsWithinLimit
  BY DEF IInv
<1> QED
  BY <1>1, InitHolds, StepHolds, PTL DEF Spec

-----------------------------------------------------------------------------
(* The response cache.                                                     *)

Entries == [target : Targets, fresh : BOOLEAN]

\* A sequence of entries names a target once and is ordered by age.
InOrder(q) ==
  \A i, j \in 1..Len(q) : i < j =>
    q[i].target # q[j].target /\ (q[i].fresh => q[j].fresh)

CacheInv == cache \in Seq(Entries) /\ InOrder(cache) /\ Len(cache) <= MaxEntries

\* Any part of a cache in order, taken in order, is in order.
LEMMA PartInOrder ==
  ASSUME NEW q \in Seq(Entries), InOrder(q), NEW r \in Seq(Entries),
         NEW f \in [1..Len(r) -> 1..Len(q)],
         \A i \in 1..Len(r) : r[i] = q[f[i]],
         \A i, j \in 1..Len(r) : i < j => f[i] < f[j]
  PROVE  InOrder(r)
<1> SUFFICES ASSUME NEW i \in 1..Len(r), NEW j \in 1..Len(r), i < j
             PROVE  r[i].target # r[j].target /\ (r[i].fresh => r[j].fresh)
  BY DEF InOrder
<1>1. f[i] \in 1..Len(q) /\ f[j] \in 1..Len(q) /\ f[i] < f[j]
  OBVIOUS
<1>2. r[i] = q[f[i]] /\ r[j] = q[f[j]]
  OBVIOUS
<1> QED
  BY <1>1, <1>2 DEF InOrder

\* The entry of a target leaves, and the rest stays in order.
LEMMA OthersInOrder ==
  ASSUME CacheInv, NEW t \in Targets
  PROVE  /\ Others(t) \in Seq(Entries)
         /\ InOrder(Others(t))
         /\ Len(Others(t)) <= Len(cache)
         /\ \A i \in 1..Len(Others(t)) : Others(t)[i].target # t
<1> DEFINE n == Len(cache)
<1>1. /\ cache \in Seq(Entries) /\ n \in Nat /\ DOMAIN cache = 1..n /\ InOrder(cache)
      /\ \A i \in 1..n : cache[i] \in Entries
  BY LenProperties, ElementOfSeq DEF CacheInv
<1>2. CASE ~\E i \in 1..n : cache[i].target = t
  BY <1>1, <1>2 DEF Others
<1>3. CASE \E i \in 1..n : cache[i].target = t
  <2> DEFINE at == CHOOSE i \in 1..n : cache[i].target = t
             a  == SubSeq(cache, 1, at - 1)
             b  == SubSeq(cache, at + 1, n)
             q  == Others(t)
             f  == [i \in 1..n - 1 |-> IF i < at THEN i ELSE i + 1]
  <2>1. at \in 1..n /\ cache[at].target = t
    BY <1>3
  <2>2. q = a \o b
    BY <1>1, <1>3 DEF Others
  <2> HIDE DEF at, q
  <2>3. /\ a \in Seq(Entries) /\ Len(a) = at - 1
        /\ \A i \in 1..at - 1 : a[i] = cache[i]
    <3>1. 1 \in Int /\ at - 1 \in Int /\ \A i \in 1..at - 1 : cache[i] \in Entries
      BY <1>1, <2>1
    <3> HIDE DEF n
    <3>2. /\ SubSeq(cache, 1, at - 1) \in Seq(Entries)
          /\ Len(SubSeq(cache, 1, at - 1)) = IF 1 <= at - 1 THEN at - 1 - 1 + 1 ELSE 0
          /\ \A i \in 1..at - 1 - 1 + 1 : SubSeq(cache, 1, at - 1)[i] = cache[1 + i - 1]
      BY <3>1, SubSeqProperties
    <3> QED
      BY <3>2, <2>1, <1>1
  <2>4. /\ b \in Seq(Entries) /\ Len(b) = n - at
        /\ \A i \in 1..n - at : b[i] = cache[at + i]
    <3>1. at + 1 \in Int /\ n \in Int /\ \A i \in at + 1..n : cache[i] \in Entries
      BY <1>1, <2>1
    <3> HIDE DEF n
    <3>2. /\ SubSeq(cache, at + 1, n) \in Seq(Entries)
          /\ Len(SubSeq(cache, at + 1, n))
               = IF at + 1 <= n THEN n - (at + 1) + 1 ELSE 0
          /\ \A i \in 1..n - (at + 1) + 1 :
               SubSeq(cache, at + 1, n)[i] = cache[at + 1 + i - 1]
      BY <3>1, SubSeqProperties
    <3> QED
      BY <3>2, <2>1, <1>1
  <2> HIDE DEF a, b, n
  <2>5. /\ q \in Seq(Entries) /\ Len(q) = n - 1
        /\ \A i \in 1..n - 1 : q[i] = IF i <= at - 1 THEN a[i] ELSE b[i - (at - 1)]
    BY <1>1, <2>1, <2>2, <2>3, <2>4, ConcatProperties
  <2>6. /\ f \in [1..n - 1 -> 1..n]
        /\ \A i \in 1..n - 1 : q[i] = cache[f[i]] /\ f[i] # at
        /\ \A i, j \in 1..n - 1 : i < j => f[i] < f[j]
    <3>1. ASSUME NEW i \in 1..n - 1
          PROVE  f[i] \in 1..n /\ q[i] = cache[f[i]] /\ f[i] # at
      <4>1. CASE i < at
        BY <4>1, <1>1, <2>1, <2>3, <2>5
      <4>2. CASE ~(i < at)
        <5>1. i - (at - 1) \in 1..n - at /\ at + (i - (at - 1)) = i + 1
          BY <4>2, <1>1, <2>1
        <5> QED
          BY <5>1, <4>2, <1>1, <2>1, <2>4, <2>5
      <4> QED
        BY <4>1, <4>2
    <3> QED
      BY <3>1, <1>1, <2>1
  <2> HIDE DEF f
  <2>7. InOrder(q)
    BY <1>1, <2>5, <2>6, PartInOrder DEF n
  <2>8. \A i \in 1..n - 1 : q[i].target # t
    BY <1>1, <2>1, <2>6 DEF InOrder, n
  <2> QED
    BY <1>1, <2>5, <2>7, <2>8 DEF q, n
<1> QED
  BY <1>2, <1>3

\* The new entry is the youngest and fresh, and the only one of its target.
LEMMA StoredInOrder ==
  ASSUME CacheInv, NEW t \in Targets, cache' = Stored(t)
  PROVE  CacheInv'
<1> DEFINE o   == Others(t)
           e   == Entry(t)
           all == Append(o, e)
           m   == Len(o)
<1>1. /\ o \in Seq(Entries) /\ InOrder(o) /\ m <= Len(cache) /\ m \in Nat
      /\ \A i \in 1..m : o[i].target # t
  BY OthersInOrder, LenProperties
<1>2. e \in Entries /\ e.target = t /\ e.fresh = TRUE
  BY DEF Entry, Entries
<1>3. /\ MaxEntries \in Nat /\ Evicted \in 1..MaxEntries
      /\ Len(cache) \in Nat /\ Len(cache) <= MaxEntries
  BY GatewayAssumption, LenProperties DEF CacheInv
<1>4. cache' = IF Len(all) > MaxEntries THEN SubSeq(all, Evicted + 1, Len(all)) ELSE all
  BY DEF Stored
<1> HIDE DEF o, e
<1>5. /\ all \in Seq(Entries) /\ Len(all) = m + 1
      /\ all[m + 1] = e /\ \A i \in 1..m : all[i] = o[i]
  BY <1>1, <1>2, AppendProperties
<1> HIDE DEF all, m
<1>6. InOrder(all)
  <2> SUFFICES ASSUME NEW i \in 1..m + 1, NEW j \in 1..m + 1, i < j
               PROVE  all[i].target # all[j].target /\ (all[i].fresh => all[j].fresh)
    BY <1>5 DEF InOrder
  <2>1. i \in 1..m
    BY <1>1
  <2>2. CASE j = m + 1
    BY <2>1, <2>2, <1>1, <1>2, <1>5
  <2>3. CASE j # m + 1
    <3>1. j \in 1..m
      BY <2>3, <1>1
    <3> QED
      BY <2>1, <3>1, <1>1, <1>5 DEF InOrder, m
  <2> QED
    BY <2>2, <2>3
<1>7. CASE Len(all) <= MaxEntries
  <2>1. cache' = all
    BY <1>4, <1>5, <1>7, <1>1, <1>3
  <2> QED
    BY <2>1, <1>5, <1>6, <1>7 DEF CacheInv, InOrder
<1>8. CASE ~(Len(all) <= MaxEntries)
  <2> DEFINE k  == m + 1 - Evicted
             lo == Evicted + 1
             hi == m + 1
             q  == SubSeq(all, lo, hi)
             f  == [i \in 1..k |-> i + Evicted]
  <2>1. m = MaxEntries /\ k \in 0..MaxEntries
    BY <1>1, <1>3, <1>5, <1>8
  <2>2. cache' = q
    BY <1>4, <1>5, <1>8, <1>1, <1>3
  <2>3. q \in Seq(Entries) /\ Len(q) = k /\ \A i \in 1..k : q[i] = all[i + Evicted]
    <3>1. lo \in Int /\ hi \in Int /\ \A i \in lo..hi : all[i] \in Entries
      BY <1>1, <1>3, <1>5, ElementOfSeq
    <3>2. /\ lo <= hi /\ hi - lo + 1 = k
          /\ \A i \in 1..k : lo + i - 1 = i + Evicted
      BY <1>1, <1>3, <2>1
    <3> HIDE DEF lo, hi, k
    <3>3. /\ q \in Seq(Entries)
          /\ Len(q) = IF lo <= hi THEN hi - lo + 1 ELSE 0
          /\ \A i \in 1..hi - lo + 1 : q[i] = all[lo + i - 1]
      BY <3>1, SubSeqProperties
    <3> QED
      BY <3>2, <3>3
  <2> HIDE DEF q
  <2>4. /\ f \in [1..k -> 1..m + 1]
        /\ \A i \in 1..k : q[i] = all[f[i]]
        /\ \A i, j \in 1..k : i < j => f[i] < f[j]
    BY <1>1, <1>3, <2>1, <2>3
  <2> HIDE DEF f, k
  <2>5. InOrder(q)
    BY <1>5, <1>6, <2>3, <2>4, PartInOrder
  <2> QED
    BY <2>1, <2>2, <2>3, <2>5, <1>3 DEF CacheInv, InOrder
<1> QED
  BY <1>7, <1>8

\* The oldest of the fresh entries is the next to age.
LEMMA AgingKeepsOrder ==
  ASSUME CacheInv, EntryAges
  PROVE  CacheInv'
<1>1. PICK i \in DOMAIN cache :
        /\ cache[i].fresh
        /\ \A j \in 1..i - 1 : ~cache[j].fresh
        /\ cache' = [cache EXCEPT ![i].fresh = FALSE]
  BY DEF EntryAges
<1> DEFINE n == Len(cache)
           e == [cache[i] EXCEPT !.fresh = FALSE]
<1>2. /\ cache \in Seq(Entries) /\ n \in Nat /\ i \in 1..n /\ InOrder(cache)
      /\ cache[i] \in Entries
  BY <1>1, LenProperties, ElementOfSeq DEF CacheInv
<1>3. e \in Entries /\ e.target = cache[i].target /\ e.fresh = FALSE
  BY <1>2 DEF Entries
<1>4. cache' = [cache EXCEPT ![i] = e]
  BY <1>1
<1> HIDE DEF e
<1>5. /\ cache' \in Seq(Entries) /\ Len(cache') = n
      /\ \A j \in 1..n : cache'[j] = IF j = i THEN e ELSE cache[j]
  BY <1>2, <1>3, <1>4, ExceptSeq
<1>6. InOrder(cache)'
  <2> SUFFICES ASSUME NEW j \in 1..n, NEW k \in 1..n, j < k
               PROVE  /\ cache'[j].target # cache'[k].target
                      /\ cache'[j].fresh => cache'[k].fresh
    BY <1>5 DEF InOrder
  <2>1. \A l \in 1..n : cache'[l].target = cache[l].target
    BY <1>3, <1>5
  <2>2. cache'[j].fresh => cache[j].fresh
    BY <1>3, <1>5
  <2>3. k = i => j \in 1..i - 1
    BY <1>2
  <2>4. k # i => cache'[k] = cache[k]
    BY <1>5
  <2>5. cache[j].target # cache[k].target /\ (cache[j].fresh => cache[k].fresh)
    BY <1>2 DEF InOrder
  <2> QED
    BY <2>1, <2>2, <2>3, <2>4, <2>5, <1>1
<1> QED
  BY <1>5, <1>6 DEF CacheInv

-----------------------------------------------------------------------------
\* What no other part of the state depends on.
OtherTypes ==
  /\ successes \in [Services -> 0..MinSuccesses + 1]
  /\ recent \in [Services -> BOOLEAN]
  /\ expired \in SUBSET (Keys \ LastingKeys)
  /\ cachedKeys \in SUBSET Keys

LEMMA OthersTyped ==
  ASSUME IInv, OtherTypes, Next
  PROVE  OtherTypes'
<1>1. MinSuccesses \in Nat
  BY GatewayAssumption
<1>2. ASSUME NEW s \in Services, RecordFailure(s)
      PROVE  UNCHANGED successes /\ recent' \in [Services -> BOOLEAN]
  BY <1>2 DEF RecordFailure, OtherTypes
<1>3. ASSUME NEW s \in Services, RecordSuccess(s)
      PROVE  UNCHANGED recent /\ successes' \in [Services -> 0..MinSuccesses + 1]
  <2>1. Up(successes[s], MinSuccesses) \in 0..MinSuccesses + 1
    BY <1>1 DEF Up, OtherTypes
  <2> QED
    BY <1>3, <2>1 DEF RecordSuccess, OtherTypes
<1>4. ASSUME NEW c \in Clients, Raises(c), req[c].at \in {"limit", "route", "track"}
      PROVE  OtherTypes'
  BY <1>4, <1>2, HasService DEF Raises, keyVars, OtherTypes, IInv
<1>5. ASSUME NEW c \in Clients, Handles(c)
      PROVE  OtherTypes'
  <2>1. CASE LookUpKey(c) \/ SelectKey(c) \/ KeyFails(c) \/ Routed(c)
    BY <2>1 DEF LookUpKey, SelectKey, KeyFails, Routed, breakers, keyVars, OtherTypes
  <2>2. CASE StoreKey(c)
    <3>1. req[c].of \in Keys
      <4>1. req[c] \in {None} \cup Waiting({"key lookup", "key select", "key store"}, Keys)
                         \cup Waiting({"limit", "route", "track"}, Targets)
        BY DEF IInv, RequestTypes
      <4>2. req[c].at = "key store"
        BY <2>2 DEF StoreKey, At
      <4>3. None.at = "none"
        BY DEF None
      <4> QED
        BY <4>1, <4>2, <4>3 DEF Waiting
    <3> QED
      BY <2>2, <3>1 DEF StoreKey, breakers, OtherTypes
  <2>3. CASE LimitRefuses(c) \/ BreakerRefuses(c) \/ RouteRaises(c) \/ TrackRaises(c)
    BY <2>3, <1>4 DEF LimitRefuses, BreakerRefuses, RouteRaises, TrackRaises, At
  <2>4. CASE AnswerCached(c) \/ AnswerStream(c) \/ Route(c)
    BY <2>4 DEF AnswerCached, AnswerStream, Route, Passes, HalfOpen, keyVars, OtherTypes
  <2>5. CASE Tracked(c)
    <3>1. Service(c) \in Services
      BY <2>5, HasService DEF IInv, Tracked, At
    <3> QED
      BY <2>5, <3>1, <1>3 DEF Tracked, keyVars, OtherTypes
  <2> QED
    BY <1>5, <2>1, <2>2, <2>3, <2>4, <2>5 DEF Handles
<1>6. ASSUME NEW c \in Clients, NEW k \in Keys, Arrive(c, k)
      PROVE  OtherTypes'
  BY <1>6 DEF Arrive, breakers, keyVars, OtherTypes
<1>7. ASSUME NEW s \in Services, MinutePasses(s)
      PROVE  OtherTypes'
  BY <1>7 DEF MinutePasses, keyVars, OtherTypes
<1>8. CASE EntryAges
  BY <1>8 DEF EntryAges, breakers, keyVars, OtherTypes
<1>9. ASSUME NEW k \in Keys, KeyExpires(k) \/ KeyLeavesCache(k)
      PROVE  OtherTypes'
  BY <1>9 DEF KeyExpires, KeyLeavesCache, breakers, OtherTypes
<1> QED
  BY <1>5, <1>6, <1>7, <1>8, <1>9 DEF Next

LEMMA CacheHolds ==
  ASSUME IInv, CacheInv, Next
  PROVE  CacheInv'
<1>1. ASSUME NEW c \in Clients, Tracked(c)
      PROVE  CacheInv'
  <2>1. req[c].of \in Targets
    BY <1>1, HasService DEF IInv, Tracked, At
  <2> QED
    BY <1>1, <2>1, StoredInOrder DEF Tracked
<1>2. ASSUME NEW c \in Clients, Handles(c), ~Tracked(c)
      PROVE  UNCHANGED cache
  BY <1>2 DEF Handles, LookUpKey, SelectKey, StoreKey, KeyFails, LimitRefuses,
       BreakerRefuses, RouteRaises, TrackRaises, Raises, AnswerCached, AnswerStream,
       Route, Passes, Routed
<1>3. CASE UNCHANGED cache
  BY <1>3 DEF CacheInv, InOrder
<1>4. CASE EntryAges
  BY <1>4, AgingKeepsOrder
<1> QED
  BY <1>1, <1>2, <1>3, <1>4 DEF Next, Arrive, MinutePasses, KeyExpires, KeyLeavesCache

FullInv == IInv /\ OtherTypes /\ CacheInv

LEMMA FullInvariant == Spec => []FullInv
<1>1. Init => FullInv
  <2> SUFFICES ASSUME Init PROVE OtherTypes /\ CacheInv
    BY InitHolds DEF FullInv
  <2>1. MinSuccesses \in Nat /\ MaxEntries \in Nat
    BY GatewayAssumption
  <2>2. OtherTypes
    BY <2>1 DEF Init, OtherTypes
  <2>3. cache \in Seq(Entries) /\ Len(cache) = 0
    BY EmptySeq DEF Init
  <2> QED
    BY <2>1, <2>2, <2>3 DEF CacheInv, InOrder
<1>2. FullInv /\ [Next]_vars => FullInv'
  <2> SUFFICES ASSUME FullInv, [Next]_vars PROVE OtherTypes' /\ CacheInv'
    BY StepHolds DEF FullInv
  <2>1. CASE Next
    BY <2>1, OthersTyped, CacheHolds DEF FullInv
  <2>2. CASE UNCHANGED vars
    BY <2>2 DEF FullInv, vars, breakers, keyVars, OtherTypes, CacheInv, InOrder
  <2> QED
    BY <2>1, <2>2
<1> QED
  BY <1>1, <1>2, PTL DEF Spec

\* Requests, breakers, the response cache and the cached keys keep their types.
THEOREM TypeCorrect == Spec => []TypeOK
<1>1. FullInv => TypeOK
  BY DEF FullInv, IInv, RequestTypes, BreakerTypes, OtherTypes, CacheInv, Entries, TypeOK
<1> QED
  BY <1>1, FullInvariant, PTL

\* For any limit and any number dropped at a time, the response cache is bounded,
\* names a target once, and drops the oldest entries.
THEOREM CacheCorrect == Spec => []CacheIsBounded
<1>1. ASSUME FullInv PROVE CacheIsBounded
  <2>1. DOMAIN cache = 1..Len(cache)
    BY <1>1, LenProperties DEF FullInv, CacheInv
  <2> QED
    BY <1>1, <2>1 DEF FullInv, CacheInv, InOrder, CacheIsBounded
<1> QED
  BY <1>1, FullInvariant, PTL
=============================================================================
