----------------------------- MODULE AuthTokens -----------------------------
(***************************************************************************)
(* Tokens and sessions of core/auth/auth_service.py, and the check that    *)
(* api/gateway.py makes of a token.  Several processes (the auth service,  *)
(* every API gateway) have an AuthService of their own: sessions_cache and *)
(* token_blacklist are private to a process, the sessions table and Redis  *)
(* are shared, and a restart empties the former.                           *)
(*                                                                         *)
(* One user, whose password is right.  Access and refresh tokens are       *)
(* random, so each is generated once.  Every await on PostgreSQL or Redis  *)
(* is a point where other requests and other processes run, and where the  *)
(* request may fail.                                                       *)
(***************************************************************************)
EXTENDS Naturals, FiniteSets

CONSTANTS
  Servers,    \* processes with an AuthService
  Tokens,     \* access tokens
  Refreshes,  \* refresh tokens
  NoServer,
  NoRefresh

ASSUME AuthAssumption ==
  /\ NoServer \notin Servers
  /\ NoRefresh \notin Refreshes

VARIABLES
  active,     \* users.is_active
  job,        \* the login or refresh each access token is generated by
  expired,    \* access tokens beyond exp
  row,        \* sessions.is_active per token, "none" without a row
  cached,     \* sessions_cache of each server
  blacklist,  \* token_blacklist of each server
  redis,      \* keys "blacklist:..." in Redis
  live,       \* keys "refresh_token:..." in Redis
  revoking,   \* calls of revoke_token under way
  verifying,  \* calls of get_tenant_context under way
  revokedAt,  \* history: the servers where a revocation of the token returned
  granted     \* history: the requests let in that began after such a return

vars == <<active, job, expired, row, cached, blacklist, redis, live, revoking,
          verifying, revokedAt, granted>>

\* A login or a refresh, at the await it has reached: "found" (refresh token
\* looked up), "selected" (user row read), "stored" (new refresh token in
\* Redis), "saved" (session inserted, or old refresh token deleted), and then
\* "issued" to the client or "lost".
Jobs == [at  : {"unborn", "found", "selected", "stored", "saved", "issued", "lost"},
         on  : Servers \cup {NoServer},
         old : Refreshes \cup {NoRefresh},    \* the refresh token it was given
         new : Refreshes \cup {NoRefresh}]    \* the refresh token it hands out

Unborn == [at |-> "unborn", on |-> NoServer, old |-> NoRefresh, new |-> NoRefresh]

\* `at` is the await: the setex in Redis, then the UPDATE of the session.
Revocations == [on : Servers, token : Tokens, at : {"redis", "row"}]

\* `at` is the await: the SELECT of the session, then the get in Redis.  `after`
\* is revokedAt at the start of the request.
Verifications == [on : Servers, token : Tokens, at : {"row", "redis"},
                  after : SUBSET Servers]

TokenKey(t) == <<"token", t>>  \* f"blacklist:{token}"
JtiKey(t) == <<"jti", t>>      \* f"blacklist:{jti}", the jti being a uuid4

TypeOK ==
  /\ active \in BOOLEAN
  /\ job \in [Tokens -> Jobs]
  /\ expired \in SUBSET Tokens
  /\ row \in [Tokens -> {"none", "active", "inactive"}]
  /\ cached \in [Servers -> SUBSET Tokens]
  /\ blacklist \in [Servers -> SUBSET Tokens]
  /\ redis \in SUBSET {TokenKey(t) : t \in Tokens}
  /\ live \in SUBSET Refreshes
  /\ revoking \in SUBSET Revocations
  /\ verifying \in SUBSET Verifications
  /\ revokedAt \in [Tokens -> SUBSET Servers]
  /\ granted \in SUBSET Verifications

Init ==
  /\ active = TRUE
  /\ job = [t \in Tokens |-> Unborn]
  /\ expired = {}
  /\ row = [t \in Tokens |-> "none"]
  /\ cached = [s \in Servers |-> {}]
  /\ blacklist = [s \in Servers |-> {}]
  /\ redis = {}
  /\ live = {}
  /\ revoking = {}
  /\ verifying = {}
  /\ revokedAt = [t \in Tokens |-> {}]
  /\ granted = {}

Issued(t) == job[t].at = "issued"
IsLogin(t) == job[t].old = NoRefresh
Advance(t, step) == job' = [job EXCEPT ![t].at = step]
Generated == {job[t].new : t \in Tokens}
HandedOut == {job[t].new : t \in {u \in Tokens : Issued(u)}}

-----------------------------------------------------------------------------
(* authenticate and refresh_access_token.                                  *)

\* authenticate reads the user row, the password matches, and the access token
\* is signed.
LoginSelect(s, t) ==
  /\ active
  /\ job[t] = Unborn
  /\ job' = [job EXCEPT ![t].at = "selected", ![t].on = s]
  /\ UNCHANGED <<active, expired, row, cached, blacklist, redis, live, revoking,
                 verifying, revokedAt, granted>>

\* refresh_access_token finds in Redis the refresh token a client was given.
RefreshFind(s, t, r) ==
  /\ r \in HandedOut \cap live
  /\ job[t] = Unborn
  /\ job' = [job EXCEPT ![t].at = "found", ![t].on = s, ![t].old = r]
  /\ UNCHANGED <<active, expired, row, cached, blacklist, redis, live, revoking,
                 verifying, revokedAt, granted>>

\* It reads the user row and signs the access token.
RefreshSelect(t) ==
  /\ active
  /\ job[t].at = "found"
  /\ Advance(t, "selected")
  /\ UNCHANGED <<active, expired, row, cached, blacklist, redis, live, revoking,
                 verifying, revokedAt, granted>>

\* _generate_refresh_token, of a login or of a refresh.
StoreRefresh(t, r) ==
  /\ job[t].at = "selected"
  /\ r \notin Generated
  /\ job' = [job EXCEPT ![t].at = "stored", ![t].new = r]
  /\ live' = live \cup {r}
  /\ UNCHANGED <<active, expired, row, cached, blacklist, redis, revoking,
                 verifying, revokedAt, granted>>

\* _create_session: the session is inserted, and cached by its process alone.
LoginSave(t) ==
  /\ job[t].at = "stored"
  /\ IsLogin(t)
  /\ row' = [row EXCEPT ![t] = "active"]
  /\ cached' = [cached EXCEPT ![job[t].on] = @ \cup {t}]
  /\ Advance(t, "saved")
  /\ UNCHANGED <<active, expired, blacklist, redis, live, revoking, verifying,
                 revokedAt, granted>>

\* Mutant: the old refresh token is left to its time to live.
Kept(r) == live

Without(r) == live \ {r}

\* A refresh deletes the old refresh token.  It creates no session.
RefreshSave(t) ==
  /\ job[t].at = "stored"
  /\ ~IsLogin(t)
  /\ live' = Without(job[t].old)
  /\ Advance(t, "saved")
  /\ UNCHANGED <<active, expired, row, cached, blacklist, redis, revoking,
                 verifying, revokedAt, granted>>

\* The pair of tokens reaches the client; last_login and the audit log of a
\* login have been written.
Issue(t) ==
  /\ job[t].at = "saved"
  /\ Advance(t, "issued")
  /\ UNCHANGED <<active, expired, row, cached, blacklist, redis, live, revoking,
                 verifying, revokedAt, granted>>

\* Mutant: an INSERT that fails is logged and the tokens are returned.
LostUnlessStored(j) == IF j.at = "stored" THEN "issued" ELSE "lost"

Lost(j) == "lost"

\* An await raises (or the user row is gone or inactive): the client gets an
\* error and what was written stays written.
JobFails(t) ==
  /\ job[t].at \in {"found", "selected", "stored", "saved"}
  /\ Advance(t, Lost(job[t]))
  /\ UNCHANGED <<active, expired, row, cached, blacklist, redis, live, revoking,
                 verifying, revokedAt, granted>>

-----------------------------------------------------------------------------
(* revoke_token.                                                           *)

\* Mutant: the jti goes to the blacklist in memory too.
BlacklistedByJti(s, t) == [blacklist EXCEPT ![s] = @ \cup {JtiKey(t)}]

Blacklisted(s, t) == [blacklist EXCEPT ![s] = @ \cup {t}]

\* The token enters the blacklist of the process, and then the setex is awaited.
RevokeStart(s, t) ==
  /\ Issued(t)
  /\ blacklist' = Blacklisted(s, t)
  /\ revoking' = revoking \cup {[on |-> s, token |-> t, at |-> "redis"]}
  /\ UNCHANGED <<active, job, expired, row, cached, redis, live, verifying,
                 revokedAt, granted>>

\* Mutant: the session stays in the cache.
Uncached(s, t) == cached

CacheWithout(s, t) == [cached EXCEPT ![s] = @ \ {t}]

\* Redis has the key, the session leaves the cache, and the UPDATE is awaited.
RevokeRedis(v) ==
  /\ v.at = "redis"
  /\ redis' = redis \cup {TokenKey(v.token)}
  /\ cached' = CacheWithout(v.on, v.token)
  /\ revoking' = (revoking \ {v}) \cup {[v EXCEPT !.at = "row"]}
  /\ UNCHANGED <<active, job, expired, row, blacklist, live, verifying, revokedAt,
                 granted>>

\* The session is deactivated (a token without one matches no row) and the
\* call returns.
RevokeRow(v) ==
  /\ v.at = "row"
  /\ row' = [row EXCEPT ![v.token] = IF @ = "none" THEN @ ELSE "inactive"]
  /\ revoking' = revoking \ {v}
  /\ revokedAt' = [revokedAt EXCEPT ![v.token] = @ \cup {v.on}]
  /\ UNCHANGED <<active, job, expired, cached, blacklist, redis, live, verifying,
                 granted>>

\* Redis or PostgreSQL fails the call half done.
RevokeFails(v) ==
  /\ revoking' = revoking \ {v}
  /\ UNCHANGED <<active, job, expired, row, cached, blacklist, redis, live,
                 verifying, revokedAt, granted>>

-----------------------------------------------------------------------------
(* get_tenant_context: verify_token, then _is_token_blacklisted.           *)

\* Up to the first await: the blacklist in memory, the signature and exp, and
\* the cache.  A token refused here leaves no trace.
VerifyStart(s, t) ==
  /\ Issued(t)
  /\ t \notin blacklist[s]
  /\ t \notin expired
  /\ verifying' = verifying \cup
       {[on |-> s, token |-> t, after |-> revokedAt[t],
         at |-> IF t \in cached[s] THEN "redis" ELSE "row"]}
  /\ UNCHANGED <<active, job, expired, row, cached, blacklist, redis, live,
                 revoking, revokedAt, granted>>

\* Mutant: the query forgets is_active.
HasAnyRow(t) == row[t] # "none"

HasSession(t) == row[t] = "active"

\* The session is found in the table.  Its expires_at is a little after exp.
VerifyRow(v) ==
  /\ v.at = "row"
  /\ HasSession(v.token)
  /\ verifying' = (verifying \ {v}) \cup {[v EXCEPT !.at = "redis"]}
  /\ UNCHANGED <<active, job, expired, row, cached, blacklist, redis, live,
                 revoking, revokedAt, granted>>

\* Redis has no key for the jti of the token: the request is let in.
VerifyRedis(v) ==
  /\ v.at = "redis"
  /\ JtiKey(v.token) \notin redis
  /\ verifying' = verifying \ {v}
  /\ granted' = IF v.after = {} THEN granted ELSE granted \cup {v}
  /\ UNCHANGED <<active, job, expired, row, cached, blacklist, redis, live,
                 revoking, revokedAt>>

\* No session, an expired one, a key in Redis, or a failed await.
VerifyRefuses(v) ==
  /\ verifying' = verifying \ {v}
  /\ UNCHANGED <<active, job, expired, row, cached, blacklist, redis, live,
                 revoking, revokedAt, granted>>

-----------------------------------------------------------------------------
(* The rest of the system and its environment.                             *)

\* delete_user, or update_user with is_active.
SetActive(b) ==
  /\ active' = b
  /\ UNCHANGED <<job, expired, row, cached, blacklist, redis, live, revoking,
                 verifying, revokedAt, granted>>

\* Time reaches the exp of an access token.
Expire(t) ==
  /\ Issued(t)
  /\ expired' = expired \cup {t}
  /\ UNCHANGED <<active, job, row, cached, blacklist, redis, live, revoking,
                 verifying, revokedAt, granted>>

\* Redis drops a refresh token at the end of its time to live.
RefreshExpires(r) ==
  /\ r \in live
  /\ live' = live \ {r}
  /\ UNCHANGED <<active, job, expired, row, cached, blacklist, redis, revoking,
                 verifying, revokedAt, granted>>

\* A process dies and comes back with empty memory; its requests die with it.
Restart(s) ==
  /\ cached' = [cached EXCEPT ![s] = {}]
  /\ blacklist' = [blacklist EXCEPT ![s] = {}]
  /\ job' = [t \in Tokens |->
       IF job[t].on = s /\ ~Issued(t) THEN [job[t] EXCEPT !.at = "lost"] ELSE job[t]]
  /\ revoking' = {v \in revoking : v.on # s}
  /\ verifying' = {v \in verifying : v.on # s}
  /\ UNCHANGED <<active, expired, row, redis, live, revokedAt, granted>>

Next ==
  \/ \E t \in Tokens :
       \/ \E s \in Servers :
            LoginSelect(s, t) \/ RevokeStart(s, t) \/ VerifyStart(s, t)
       \/ \E s \in Servers, r \in Refreshes : RefreshFind(s, t, r)
       \/ \E r \in Refreshes : StoreRefresh(t, r)
       \/ RefreshSelect(t) \/ LoginSave(t) \/ RefreshSave(t) \/ Issue(t)
       \/ JobFails(t) \/ Expire(t)
  \/ \E v \in revoking : RevokeRedis(v) \/ RevokeRow(v) \/ RevokeFails(v)
  \/ \E v \in verifying : VerifyRow(v) \/ VerifyRedis(v) \/ VerifyRefuses(v)
  \/ \E b \in BOOLEAN : SetActive(b)
  \/ \E r \in Refreshes : RefreshExpires(r)
  \/ \E s \in Servers : Restart(s)

Spec == Init /\ [][Next]_vars

-----------------------------------------------------------------------------
(* Properties.                                                             *)

\* What verify_token would answer now.
Accepts(s, t) ==
  /\ t \notin blacklist[s]
  /\ t \notin expired
  /\ t \in cached[s] \/ HasSession(t)

NeverRevoked(t) ==
  /\ revokedAt[t] = {}
  /\ \A s \in Servers : t \notin blacklist[s]

\* A token whose revocation returned is let in afterwards by one process at
\* most, the one whose cache still has its session because the revocation ran
\* in another process, whatever failed or restarted in between.
RevokedIsRefusedElsewhere ==
  \A g \in granted : g.on = job[g.token].on /\ g.on \notin g.after

\* A cached session is in the table, is cached only where its login ran, and
\* is inactive in the table only by a revocation that another process made.
CachedIsSession ==
  \A s \in Servers : \A t \in cached[s] :
    /\ job[t].on = s
    /\ row[t] # "none"
    /\ row[t] = "inactive" => \E o \in revokedAt[t] : o # s

\* A token a login handed out is accepted by every process, restarted or not,
\* until it expires or somebody revokes it.
LoginIsAccepted ==
  \A t \in Tokens : Issued(t) /\ IsLogin(t) /\ NeverRevoked(t) /\ t \notin expired =>
    \A s \in Servers : Accepts(s, t)

\* Once a refresh has handed out a new pair, the key of the refresh token it was
\* given is gone from Redis, in whatever order overlapping refreshes of that token
\* store and delete: none that starts later finds it.  One that is past its get
\* still hands out a pair of its own.
ExchangedRefreshIsGone ==
  \A t \in Tokens : Issued(t) => job[t].old \notin live

\* auth_service.py:573 "Refresh access token using refresh token": the access
\* token a refresh hands out is accepted as long as nobody revokes it.
RefreshedIsAccepted ==
  \A t \in Tokens : Issued(t) /\ ~IsLogin(t) /\ NeverRevoked(t) /\ t \notin expired =>
    \A s \in Servers : Accepts(s, t)

\* gateway.py:281 "Check if token is blacklisted": no request that began after
\* a revocation of its token returned is let in.
RevokedIsRefused == granted = {}
=============================================================================
