-------------------------- MODULE AuthTokensProofs --------------------------
(***************************************************************************)
(* Proofs about AuthTokens, for any servers, tokens and refresh tokens.    *)
(* The strengthening says which steps only a token that was issued can see *)
(* (so that a session is never cached again after a revocation), and what  *)
(* a revocation has done by each of its awaits.                            *)
(***************************************************************************)
EXTENDS AuthTokens, TLAPS

\* A refresh token is generated after the access token is signed; one that is
\* exchanged was generated for some other token, and is dead once it is saved.
JobsAreSound ==
  \A t \in Tokens :
    /\ job[t].at \in {"unborn", "found", "selected"} => job[t].new = NoRefresh
    /\ job[t].old # NoRefresh => \E u \in Tokens : job[u].new = job[t].old
    /\ job[t].at \in {"saved", "issued"} => job[t].old \notin live

RowsAreSound ==
  \A t \in Tokens :
    /\ row[t] # "none" => job[t].at \in {"saved", "issued", "lost"}
    /\ job[t].at \in {"saved", "issued"} /\ IsLogin(t) => row[t] # "none"
    /\ revokedAt[t] # {} => row[t] # "active"
    /\ row[t] = "inactive" => revokedAt[t] # {}

\* Only a token that a client has can be revoked or verified, and a request is
\* noted as let in only if it came after a revocation.
OnlyIssued ==
  /\ \A t \in Tokens : revokedAt[t] # {} => Issued(t)
  /\ \A v \in revoking \cup verifying \cup granted : Issued(v.token)
  /\ \A g \in granted : g.after # {}

\* A process that revoked a token has not its session in the cache.
CachesAreSound ==
  \A s \in Servers : \A t \in cached[s] :
    job[t].on = s /\ row[t] # "none" /\ s \notin revokedAt[t]

RevokingIsUncached ==
  \A v \in revoking : v.at = "row" => v.token \notin cached[v.on]

\* A request that began after a revocation gets beyond the session by the cache
\* of the process of the login alone.
VerifyingIsSound ==
  \A v \in verifying :
    /\ v.after \subseteq revokedAt[v.token]
    /\ v.at = "redis" /\ v.after # {} => v.on = job[v.token].on /\ v.on \notin v.after

Sessions == /\ OnlyIssued /\ CachesAreSound /\ RevokingIsUncached /\ VerifyingIsSound
            /\ RevokedIsRefusedElsewhere

IInv == TypeOK /\ JobsAreSound /\ RowsAreSound /\ Sessions

\* Every token on a record under way or let in is a token, every server a server.
LEMMA RecordTypes ==
  ASSUME TypeOK
  PROVE  /\ \A v \in revoking : v.token \in Tokens /\ v.on \in Servers
         /\ \A v \in verifying \cup granted : v.token \in Tokens /\ v.on \in Servers
         /\ \A s \in Servers : cached[s] \subseteq Tokens
         /\ \A t \in Tokens : job[t] \in Jobs
BY DEF TypeOK, Revocations, Verifications

LEMMA InitHolds == Init => IInv
<1> SUFFICES ASSUME Init PROVE IInv
  OBVIOUS
<1>1. Unborn \in Jobs /\ Unborn.at = "unborn" /\ Unborn.old = NoRefresh
      /\ Unborn.new = NoRefresh
  BY DEF Unborn, Jobs
<1>2. TypeOK
  BY <1>1 DEF Init, TypeOK
<1>3. JobsAreSound /\ RowsAreSound
  BY <1>1 DEF Init, JobsAreSound, RowsAreSound
<1>4. Sessions
  BY DEF Init, Sessions, OnlyIssued, CachesAreSound, RevokingIsUncached,
         VerifyingIsSound, RevokedIsRefusedElsewhere
<1> QED
  BY <1>2, <1>3, <1>4 DEF IInv

-----------------------------------------------------------------------------
(* What stays, part by part.                                               *)

LEMMA JobsStay ==
  ASSUME IInv, UNCHANGED job, live' \subseteq live
  PROVE  JobsAreSound'
BY DEF IInv, JobsAreSound

LEMMA RowsStay ==
  ASSUME IInv, UNCHANGED <<job, row, revokedAt>>
  PROVE  RowsAreSound'
BY DEF IInv, RowsAreSound, IsLogin

\* Sessions leave caches and calls end, while jobs go on: only a job that has
\* not begun changes its server, and an issued token remains one.
LEMMA SessionsStay ==
  ASSUME IInv, UNCHANGED <<row, revokedAt, granted>>,
         revoking' \subseteq revoking, verifying' \subseteq verifying,
         \A s \in Servers : cached'[s] \subseteq cached[s],
         \A t \in Tokens : Issued(t) => job'[t].at = "issued",
         \A t \in Tokens : job[t].at # "unborn" => job'[t].on = job[t].on
  PROVE  Sessions'
<1>1. /\ \A v \in revoking \cup verifying \cup granted :
           v.token \in Tokens /\ v.on \in Servers /\ Issued(v.token)
      /\ \A s \in Servers : cached[s] \subseteq Tokens
  BY RecordTypes DEF IInv, Sessions, OnlyIssued
<1>2. OnlyIssued'
  BY <1>1 DEF IInv, Sessions, OnlyIssued, Issued
<1>3. CachesAreSound'
  <2> SUFFICES ASSUME NEW s \in Servers, NEW t \in cached'[s]
               PROVE  job'[t].on = s /\ row[t] # "none" /\ s \notin revokedAt[t]
    BY DEF CachesAreSound
  <2>1. /\ t \in Tokens /\ job[t].on = s /\ row[t] # "none" /\ s \notin revokedAt[t]
    BY <1>1 DEF IInv, Sessions, CachesAreSound
  <2>2. job[t].at # "unborn"
    BY <2>1 DEF IInv, RowsAreSound
  <2> QED
    BY <2>1, <2>2
<1>4. RevokingIsUncached'
  BY <1>1 DEF IInv, Sessions, RevokingIsUncached
<1>5. VerifyingIsSound' /\ RevokedIsRefusedElsewhere'
  <2>1. \A v \in verifying \cup granted : job'[v.token].on = job[v.token].on
    BY <1>1 DEF Issued
  <2> QED
    BY <2>1 DEF IInv, Sessions, VerifyingIsSound, RevokedIsRefusedElsewhere
<1> QED
  BY <1>2, <1>3, <1>4, <1>5 DEF Sessions

-----------------------------------------------------------------------------
(* authenticate and refresh_access_token.                                  *)

\* A job becomes j, and nothing else changes.
LEMMA JobStep ==
  ASSUME IInv, NEW t \in Tokens, NEW j \in Jobs, job' = [job EXCEPT ![t] = j],
         UNCHANGED <<active, expired, row, cached, blacklist, redis, live, revoking,
                     verifying, revokedAt, granted>>,
         ~Issued(t),
         j.new = job[t].new,
         job[t].at # "unborn" => j.on = job[t].on,
         j.at \in {"unborn", "found", "selected"} =>
           job[t].at \in {"unborn", "found", "selected"},
         j.old # NoRefresh => \E u \in Tokens : job[u].new = j.old,
         j.at \in {"saved", "issued"} => job[t].at = "saved" /\ j.old = job[t].old,
         row[t] # "none" => j.at \in {"saved", "issued", "lost"}
  PROVE  IInv'
<1>1. job \in [Tokens -> Jobs]
  BY DEF IInv, TypeOK
<1>2. job'[t] = j /\ \A u \in Tokens \ {t} : job'[u] = job[u]
  BY <1>1
<1>3. \A u \in Tokens : job'[u].new = job[u].new
  BY <1>2
<1>4. TypeOK'
  BY <1>1 DEF IInv, TypeOK
<1>5. JobsAreSound'
  <2> SUFFICES ASSUME NEW u \in Tokens
               PROVE  /\ job'[u].at \in {"unborn", "found", "selected"}
                           => job'[u].new = NoRefresh
                      /\ job'[u].old # NoRefresh
                           => \E w \in Tokens : job'[w].new = job'[u].old
                      /\ job'[u].at \in {"saved", "issued"} => job'[u].old \notin live
    BY DEF JobsAreSound
  <2>1. CASE u = t
    BY <2>1, <1>2, <1>3 DEF IInv, JobsAreSound
  <2>2. CASE u # t
    BY <2>2, <1>2, <1>3 DEF IInv, JobsAreSound
  <2> QED
    BY <2>1, <2>2
<1>6. RowsAreSound'
  <2> SUFFICES ASSUME NEW u \in Tokens
               PROVE  /\ row[u] # "none" => job'[u].at \in {"saved", "issued", "lost"}
                      /\ job'[u].at \in {"saved", "issued"} /\ job'[u].old = NoRefresh
                           => row[u] # "none"
    BY DEF IInv, RowsAreSound, IsLogin
  <2>1. CASE u = t
    BY <2>1, <1>2 DEF IInv, RowsAreSound, IsLogin
  <2>2. CASE u # t
    BY <2>2, <1>2 DEF IInv, RowsAreSound, IsLogin
  <2> QED
    BY <2>1, <2>2
<1>7. Sessions'
  <2>1. \A u \in Tokens : Issued(u) => job'[u].at = "issued"
    BY <1>2 DEF Issued
  <2>2. \A u \in Tokens : job[u].at # "unborn" => job'[u].on = job[u].on
    BY <1>2
  <2> QED
    BY <2>1, <2>2, SessionsStay
<1> QED
  BY <1>4, <1>5, <1>6, <1>7 DEF IInv

LEMMA UnbornHasNothing ==
  ASSUME IInv, NEW t \in Tokens, job[t] = Unborn
  PROVE  /\ job[t].at = "unborn" /\ job[t].old = NoRefresh /\ ~Issued(t)
         /\ row[t] = "none"
<1>1. job[t].at = "unborn" /\ job[t].old = NoRefresh
  BY DEF Unborn
<1> QED
  BY <1>1 DEF IInv, RowsAreSound, Issued

LEMMA LoginSelectHolds ==
  ASSUME IInv, NEW s \in Servers, NEW t \in Tokens, LoginSelect(s, t)
  PROVE  IInv'
<1> DEFINE j == [job[t] EXCEPT !.at = "selected", !.on = s]
<1>1. job \in [Tokens -> Jobs] /\ job[t] \in Jobs /\ job[t] = Unborn
  BY DEF IInv, TypeOK, LoginSelect
<1>2. job' = [job EXCEPT ![t] = j]
  BY <1>1 DEF LoginSelect
<1>3. /\ j \in Jobs /\ j.at = "selected" /\ j.old = job[t].old /\ j.new = job[t].new
  BY <1>1 DEF Jobs
<1> HIDE DEF j
<1>4. /\ job[t].at = "unborn" /\ job[t].old = NoRefresh /\ ~Issued(t)
      /\ row[t] = "none"
  BY <1>1, UnbornHasNothing
<1> QED
  BY <1>2, <1>3, <1>4, JobStep DEF LoginSelect

LEMMA RefreshFindHolds ==
  ASSUME IInv, NEW s \in Servers, NEW t \in Tokens, NEW r \in Refreshes,
         RefreshFind(s, t, r)
  PROVE  IInv'
<1> DEFINE j == [job[t] EXCEPT !.at = "found", !.on = s, !.old = r]
<1>1. job \in [Tokens -> Jobs] /\ job[t] \in Jobs /\ job[t] = Unborn
  BY DEF IInv, TypeOK, RefreshFind
<1>2. job' = [job EXCEPT ![t] = j]
  BY <1>1 DEF RefreshFind
<1>3. j \in Jobs /\ j.at = "found" /\ j.old = r /\ j.new = job[t].new
  BY <1>1 DEF Jobs
<1> HIDE DEF j
<1>4. job[t].at = "unborn" /\ ~Issued(t) /\ row[t] = "none"
  BY <1>1, UnbornHasNothing
<1>5. \E u \in Tokens : job[u].new = r
  BY DEF RefreshFind, HandedOut
<1> QED
  BY <1>2, <1>3, <1>4, <1>5, JobStep DEF RefreshFind

\* The steps that only say how far a job has come.
LEMMA AdvanceHolds ==
  ASSUME IInv, NEW t \in Tokens, RefreshSelect(t) \/ Issue(t) \/ JobFails(t)
  PROVE  IInv'
<1>1. PICK a \in {"selected", "issued", "lost"} :
        /\ job' = [job EXCEPT ![t].at = a]
        /\ a = "selected" => job[t].at = "found"
        /\ a = "issued" => job[t].at = "saved"
        /\ job[t].at \in {"found", "selected", "stored", "saved"}
  BY DEF RefreshSelect, Issue, JobFails, Advance, Lost
<1> DEFINE j == [job[t] EXCEPT !.at = a]
<1>2. job \in [Tokens -> Jobs] /\ job[t] \in Jobs
  BY DEF IInv, TypeOK
<1>3. job' = [job EXCEPT ![t] = j]
  BY <1>1, <1>2
<1>4. /\ j \in Jobs /\ j.at = a /\ j.old = job[t].old /\ j.new = job[t].new
      /\ j.on = job[t].on
  BY <1>2 DEF Jobs
<1> HIDE DEF j
<1>5. UNCHANGED <<active, expired, row, cached, blacklist, redis, live, revoking,
                  verifying, revokedAt, granted>>
  BY DEF RefreshSelect, Issue, JobFails
<1>6. ~Issued(t)
  BY <1>1 DEF Issued
<1>7. j.old # NoRefresh => \E u \in Tokens : job[u].new = j.old
  BY <1>4 DEF IInv, JobsAreSound
<1>8. row[t] # "none" => j.at \in {"saved", "issued", "lost"}
  BY <1>1, <1>4 DEF IInv, RowsAreSound
<1> QED
  BY <1>1, <1>3, <1>4, <1>5, <1>6, <1>7, <1>8, JobStep

\* The token is new, so no refresh is under way for it.
LEMMA StoreRefreshHolds ==
  ASSUME IInv, NEW t \in Tokens, NEW r \in Refreshes, StoreRefresh(t, r)
  PROVE  IInv'
<1> DEFINE j == [job[t] EXCEPT !.at = "stored", !.new = r]
<1>1. job \in [Tokens -> Jobs] /\ job[t] \in Jobs /\ job[t].at = "selected"
  BY DEF IInv, TypeOK, StoreRefresh
<1>2. /\ job' = [job EXCEPT ![t] = j] /\ live' = live \cup {r}
      /\ \A u \in Tokens : job[u].new # r
      /\ UNCHANGED <<active, expired, row, cached, blacklist, redis, revoking,
                     verifying, revokedAt, granted>>
  BY <1>1 DEF StoreRefresh, Generated
<1>3. j \in Jobs /\ j.at = "stored" /\ j.old = job[t].old /\ j.on = job[t].on /\ j.new = r
  BY <1>1 DEF Jobs
<1> HIDE DEF j
<1>4. job'[t] = j /\ \A u \in Tokens \ {t} : job'[u] = job[u]
  BY <1>1, <1>2
<1>5. TypeOK'
  BY <1>2, <1>1, <1>3 DEF IInv, TypeOK
<1>6. JobsAreSound'
  <2>1. job[t].new = NoRefresh
    BY <1>1 DEF IInv, JobsAreSound
  <2>2. ASSUME NEW u \in Tokens, job[u].old # NoRefresh
        PROVE  job[u].old # r /\ \E w \in Tokens : job'[w].new = job[u].old
    <3>1. PICK w \in Tokens : job[w].new = job[u].old
      BY <2>2 DEF IInv, JobsAreSound
    <3>2. w # t
      BY <2>1, <2>2, <3>1
    <3> QED
      BY <1>2, <1>4, <3>1, <3>2
  <2>3. r # NoRefresh
    BY AuthAssumption
  <2>4. \A u \in Tokens : job'[u].old = job[u].old
    BY <1>3, <1>4
  <2>5. ASSUME NEW u \in Tokens, job'[u].at \in {"saved", "issued"}
        PROVE  job[u].old \notin live'
    <3>1. job[u].old \notin live
      BY <2>5, <1>3, <1>4 DEF IInv, JobsAreSound
    <3> QED
      BY <3>1, <2>2, <2>3, <1>2
  <2>6. \A u \in Tokens : job'[u].at \in {"unborn", "found", "selected"}
                            => job'[u].new = NoRefresh
    BY <1>3, <1>4 DEF IInv, JobsAreSound
  <2> QED
    BY <2>2, <2>4, <2>5, <2>6 DEF JobsAreSound
<1>7. RowsAreSound'
  <2>1. row[t] = "none"
    BY <1>1 DEF IInv, RowsAreSound
  <2> QED
    BY <2>1, <1>2, <1>3, <1>4 DEF IInv, RowsAreSound, IsLogin
<1>8. Sessions'
  <2>1. /\ \A u \in Tokens : Issued(u) => job'[u].at = "issued"
        /\ \A u \in Tokens : job[u].at # "unborn" => job'[u].on = job[u].on
    BY <1>1, <1>3, <1>4 DEF Issued
  <2> QED
    BY <1>2, <2>1, SessionsStay
<1> QED
  BY <1>5, <1>6, <1>7, <1>8 DEF IInv

\* The token has not been issued, so nobody has revoked it.
LEMMA LoginSaveHolds ==
  ASSUME IInv, NEW t \in Tokens, LoginSave(t)
  PROVE  IInv'
<1> DEFINE j == [job[t] EXCEPT !.at = "saved"]
           o == job[t].on
<1>1. /\ job \in [Tokens -> Jobs] /\ job[t] \in Jobs /\ job[t].at = "stored"
      /\ cached \in [Servers -> SUBSET Tokens]
      /\ row \in [Tokens -> {"none", "active", "inactive"}]
  BY DEF IInv, TypeOK, LoginSave
<1>2. /\ job' = [job EXCEPT ![t] = j] /\ row' = [row EXCEPT ![t] = "active"]
      /\ cached' = [cached EXCEPT ![o] = @ \cup {t}] /\ job[t].old = NoRefresh
      /\ UNCHANGED <<active, expired, blacklist, redis, live, revoking, verifying,
                     revokedAt, granted>>
  BY <1>1 DEF LoginSave, Advance, IsLogin
<1>3. j \in Jobs /\ j.at = "saved" /\ j.old = NoRefresh /\ j.on = o /\ j.new = job[t].new
  BY <1>1, <1>2 DEF Jobs
<1> HIDE DEF j, o
<1>4. /\ job'[t] = j /\ \A u \in Tokens \ {t} : job'[u] = job[u]
      /\ row'[t] = "active" /\ \A u \in Tokens \ {t} : row'[u] = row[u]
      /\ \A s \in Servers : cached'[s] = IF s = o THEN cached[s] \cup {t} ELSE cached[s]
  BY <1>1, <1>2
<1>5. TypeOK'
  BY <1>1, <1>2, <1>3 DEF IInv, TypeOK
<1>6. ~Issued(t) /\ revokedAt[t] = {}
  BY <1>1 DEF IInv, Sessions, OnlyIssued, Issued
<1>7. JobsAreSound'
  <2>1. live \subseteq Refreshes /\ NoRefresh \notin live
    BY AuthAssumption DEF IInv, TypeOK
  <2>2. \A u \in Tokens : job'[u].new = job[u].new /\ job'[u].old = job[u].old
    BY <1>2, <1>3, <1>4
  <2> QED
    BY <2>1, <2>2, <1>2, <1>3, <1>4 DEF IInv, JobsAreSound
<1>8. RowsAreSound'
  BY <1>2, <1>3, <1>4, <1>6 DEF IInv, RowsAreSound, IsLogin
<1>9. Sessions'
  <2>1. \A v \in revoking \cup verifying \cup granted :
          v.token \in Tokens /\ v.on \in Servers /\ Issued(v.token) /\ v.token # t
    BY <1>6, RecordTypes DEF IInv, Sessions, OnlyIssued
  <2>2. OnlyIssued'
    BY <2>1, <1>2, <1>4, <1>6 DEF IInv, Sessions, OnlyIssued, Issued
  <2>3. CachesAreSound'
    <3> SUFFICES ASSUME NEW s \in Servers, NEW u \in cached'[s]
                 PROVE  job'[u].on = s /\ row'[u] # "none" /\ s \notin revokedAt[u]
      BY <1>2 DEF CachesAreSound
    <3>1. CASE u = t /\ s = o
      BY <3>1, <1>3, <1>4, <1>6
    <3>2. CASE u \in cached[s]
      <4>1. u \in Tokens /\ job[u].on = s /\ row[u] # "none" /\ s \notin revokedAt[u]
        BY <3>2, RecordTypes DEF IInv, Sessions, CachesAreSound
      <4>2. u # t
        BY <4>1, <1>1 DEF IInv, RowsAreSound
      <4> QED
        BY <4>1, <4>2, <1>4
    <3> QED
      BY <3>1, <3>2, <1>4
  <2>4. RevokingIsUncached'
    BY <2>1, <1>2, <1>4 DEF IInv, Sessions, RevokingIsUncached
  <2>5. VerifyingIsSound' /\ RevokedIsRefusedElsewhere'
    BY <2>1, <1>2, <1>4 DEF IInv, Sessions, VerifyingIsSound, RevokedIsRefusedElsewhere
  <2> QED
    BY <2>2, <2>3, <2>4, <2>5 DEF Sessions
<1> QED
  BY <1>5, <1>7, <1>8, <1>9 DEF IInv

LEMMA RefreshSaveHolds ==
  ASSUME IInv, NEW t \in Tokens, RefreshSave(t)
  PROVE  IInv'
<1> DEFINE j == [job[t] EXCEPT !.at = "saved"]
<1>1. job \in [Tokens -> Jobs] /\ job[t] \in Jobs /\ job[t].at = "stored"
  BY DEF IInv, TypeOK, RefreshSave
<1>2. /\ job' = [job EXCEPT ![t] = j] /\ live' = live \ {job[t].old}
      /\ job[t].old # NoRefresh
      /\ UNCHANGED <<active, expired, row, cached, blacklist, redis, revoking,
                     verifying, revokedAt, granted>>
  BY <1>1 DEF RefreshSave, Advance, IsLogin, Without
<1>3. /\ j \in Jobs /\ j.at = "saved" /\ j.old = job[t].old /\ j.on = job[t].on
      /\ j.new = job[t].new
  BY <1>1 DEF Jobs
<1> HIDE DEF j
<1>4. job'[t] = j /\ \A u \in Tokens \ {t} : job'[u] = job[u]
  BY <1>1, <1>2
<1>5. TypeOK'
  BY <1>1, <1>2, <1>3 DEF IInv, TypeOK
<1>6. JobsAreSound'
  <2>1. \A u \in Tokens : job'[u].new = job[u].new /\ job'[u].old = job[u].old
    BY <1>3, <1>4
  <2> QED
    BY <2>1, <1>2, <1>3, <1>4 DEF IInv, JobsAreSound
<1>7. RowsAreSound'
  BY <1>1, <1>2, <1>3, <1>4 DEF IInv, RowsAreSound, IsLogin
<1>8. Sessions'
  <2>1. /\ \A u \in Tokens : Issued(u) => job'[u].at = "issued"
        /\ \A u \in Tokens : job[u].at # "unborn" => job'[u].on = job[u].on
    BY <1>1, <1>3, <1>4 DEF Issued
  <2> QED
    BY <1>2, <2>1, SessionsStay
<1> QED
  BY <1>5, <1>6, <1>7, <1>8 DEF IInv

-----------------------------------------------------------------------------
(* revoke_token.                                                           *)

LEMMA RevokeStartHolds ==
  ASSUME IInv, NEW s \in Servers, NEW t \in Tokens, RevokeStart(s, t)
  PROVE  IInv'
<1> DEFINE v == [on |-> s, token |-> t, at |-> "redis"]
<1>1. /\ blacklist' = [blacklist EXCEPT ![s] = @ \cup {t}] /\ Issued(t)
      /\ revoking' = revoking \cup {v}
      /\ UNCHANGED <<active, job, expired, row, cached, redis, live, verifying,
                     revokedAt, granted>>
  BY DEF RevokeStart, Blacklisted
<1>2. v \in Revocations /\ v.at = "redis" /\ v.token = t
  BY DEF Revocations
<1> HIDE DEF v
<1>3. TypeOK'
  <2>1. blacklist' \in [Servers -> SUBSET Tokens]
    BY <1>1 DEF IInv, TypeOK
  <2> QED
    BY <1>1, <1>2, <2>1 DEF IInv, TypeOK
<1>4. JobsAreSound' /\ RowsAreSound'
  BY <1>1, JobsStay, RowsStay
<1>5. Sessions'
  BY <1>1, <1>2 DEF IInv, Sessions, OnlyIssued, Issued, CachesAreSound,
       RevokingIsUncached, VerifyingIsSound, RevokedIsRefusedElsewhere
<1> QED
  BY <1>3, <1>4, <1>5 DEF IInv

LEMMA RevokeRedisHolds ==
  ASSUME IInv, NEW v \in revoking, RevokeRedis(v)
  PROVE  IInv'
<1> DEFINE w == [v EXCEPT !.at = "row"]
<1>1. /\ redis' = redis \cup {TokenKey(v.token)}
      /\ cached' = [cached EXCEPT ![v.on] = @ \ {v.token}]
      /\ revoking' = (revoking \ {v}) \cup {w}
      /\ UNCHANGED <<active, job, expired, row, blacklist, live, verifying, revokedAt,
                     granted>>
  BY DEF RevokeRedis, CacheWithout
<1>2. v \in Revocations
  BY DEF IInv, TypeOK
<1>3. w \in Revocations /\ w.on = v.on /\ w.token = v.token /\ w.at = "row"
  BY <1>2 DEF Revocations
<1>4. v.on \in Servers /\ v.token \in Tokens /\ Issued(v.token)
  BY <1>2 DEF Revocations, IInv, Sessions, OnlyIssued
<1> HIDE DEF w
<1>5. cached \in [Servers -> SUBSET Tokens]
  BY DEF IInv, TypeOK
<1>6. \A s \in Servers : cached'[s] \subseteq cached[s]
                         /\ (s = v.on => v.token \notin cached'[s])
  BY <1>1, <1>5
<1>7. TypeOK'
  <2>1. cached' \in [Servers -> SUBSET Tokens]
    BY <1>1, <1>5
  <2> QED
    BY <1>1, <1>3, <1>4, <2>1 DEF IInv, TypeOK
<1>8. JobsAreSound' /\ RowsAreSound'
  BY <1>1, JobsStay, RowsStay
<1>9. Sessions'
  <2>1. OnlyIssued' /\ VerifyingIsSound' /\ RevokedIsRefusedElsewhere'
    BY <1>1, <1>3, <1>4 DEF IInv, Sessions, OnlyIssued, Issued, VerifyingIsSound,
                            RevokedIsRefusedElsewhere
  <2>2. CachesAreSound'
    BY <1>1, <1>6 DEF IInv, Sessions, CachesAreSound
  <2>3. RevokingIsUncached'
    <3>1. \A u \in revoking : u.on \in Servers
      BY RecordTypes DEF IInv
    <3> QED
      BY <1>1, <1>3, <1>4, <1>6, <3>1 DEF IInv, Sessions, RevokingIsUncached
  <2> QED
    BY <2>1, <2>2, <2>3 DEF Sessions
<1> QED
  BY <1>7, <1>8, <1>9 DEF IInv

LEMMA RevokeRowHolds ==
  ASSUME IInv, NEW v \in revoking, RevokeRow(v)
  PROVE  IInv'
<1> DEFINE t == v.token
<1>1. /\ v.at = "row"
      /\ row' = [row EXCEPT ![t] = IF @ = "none" THEN @ ELSE "inactive"]
      /\ revoking' = revoking \ {v}
      /\ revokedAt' = [revokedAt EXCEPT ![t] = @ \cup {v.on}]
      /\ UNCHANGED <<active, job, expired, cached, blacklist, redis, live, verifying,
                     granted>>
  BY DEF RevokeRow
<1>2. v.on \in Servers /\ t \in Tokens /\ Issued(t) /\ t \notin cached[v.on]
  BY <1>1, RecordTypes DEF IInv, Sessions, OnlyIssued, RevokingIsUncached
<1> HIDE DEF t
<1>3. /\ row \in [Tokens -> {"none", "active", "inactive"}]
      /\ revokedAt \in [Tokens -> SUBSET Servers]
  BY DEF IInv, TypeOK
<1>4. /\ row'[t] = IF row[t] = "none" THEN "none" ELSE "inactive"
      /\ \A u \in Tokens \ {t} : row'[u] = row[u] /\ revokedAt'[u] = revokedAt[u]
      /\ revokedAt'[t] = revokedAt[t] \cup {v.on}
  BY <1>1, <1>2, <1>3
<1>5. TypeOK'
  <2>1. row' \in [Tokens -> {"none", "active", "inactive"}]
    BY <1>1, <1>3
  <2>2. revokedAt' \in [Tokens -> SUBSET Servers]
    BY <1>1, <1>2, <1>3
  <2> QED
    BY <1>1, <2>1, <2>2 DEF IInv, TypeOK
<1>6. JobsAreSound'
  BY <1>1, JobsStay
<1>7. RowsAreSound'
  BY <1>1, <1>2, <1>4 DEF IInv, RowsAreSound, IsLogin
<1>8. Sessions'
  <2>1. OnlyIssued'
    BY <1>1, <1>2, <1>4 DEF IInv, Sessions, OnlyIssued, Issued
  <2>2. CachesAreSound'
    <3> SUFFICES ASSUME NEW s \in Servers, NEW u \in cached[s]
                 PROVE  job[u].on = s /\ row'[u] # "none" /\ s \notin revokedAt'[u]
      BY <1>1 DEF CachesAreSound
    <3>1. u \in Tokens /\ job[u].on = s /\ row[u] # "none" /\ s \notin revokedAt[u]
      BY RecordTypes DEF IInv, Sessions, CachesAreSound
    <3>2. u = t => s # v.on
      BY <1>2
    <3> QED
      BY <3>1, <3>2, <1>4
  <2>3. RevokingIsUncached' /\ RevokedIsRefusedElsewhere'
    BY <1>1 DEF IInv, Sessions, RevokingIsUncached, RevokedIsRefusedElsewhere
  <2>4. VerifyingIsSound'
    <3>1. \A u \in Tokens : revokedAt[u] \subseteq revokedAt'[u]
      BY <1>4
    <3>2. \A u \in verifying : u.token \in Tokens
      BY RecordTypes DEF IInv
    <3> QED
      BY <1>1, <3>1, <3>2 DEF IInv, Sessions, VerifyingIsSound
  <2> QED
    BY <2>1, <2>2, <2>3, <2>4 DEF Sessions
<1> QED
  BY <1>5, <1>6, <1>7, <1>8 DEF IInv

-----------------------------------------------------------------------------
(* get_tenant_context.                                                     *)

\* What a call that becomes w has to show.
LEMMA VerifyStep ==
  ASSUME IInv, NEW w \in Verifications, verifying' \subseteq verifying \cup {w},
         UNCHANGED <<active, job, expired, row, cached, blacklist, redis, live,
                     revoking, revokedAt, granted>>,
         Issued(w.token), w.after \subseteq revokedAt[w.token],
         w.at = "redis" /\ w.after # {} =>
           w.on = job[w.token].on /\ w.on \notin w.after
  PROVE  IInv'
<1>1. TypeOK'
  BY DEF IInv, TypeOK
<1>2. JobsAreSound' /\ RowsAreSound'
  BY JobsStay, RowsStay
<1>3. Sessions'
  BY DEF IInv, Sessions, OnlyIssued, Issued, CachesAreSound, RevokingIsUncached,
         VerifyingIsSound, RevokedIsRefusedElsewhere
<1> QED
  BY <1>1, <1>2, <1>3 DEF IInv

\* A session that is cached here has not been revoked here.
LEMMA VerifyStartHolds ==
  ASSUME IInv, NEW s \in Servers, NEW t \in Tokens, VerifyStart(s, t)
  PROVE  IInv'
<1> DEFINE a == IF t \in cached[s] THEN "redis" ELSE "row"
           w == [on |-> s, token |-> t, after |-> revokedAt[t], at |-> a]
<1>1. /\ verifying' = verifying \cup {w} /\ Issued(t)
      /\ UNCHANGED <<active, job, expired, row, cached, blacklist, redis, live,
                     revoking, revokedAt, granted>>
  BY DEF VerifyStart
<1>2. a \in {"row", "redis"} /\ (a = "redis" => t \in cached[s])
  OBVIOUS
<1>3. revokedAt[t] \subseteq Servers
  BY DEF IInv, TypeOK
<1> HIDE DEF a
<1>4. /\ w \in Verifications /\ w.on = s /\ w.token = t /\ w.after = revokedAt[t]
      /\ w.at = a
  BY <1>2, <1>3 DEF Verifications
<1> HIDE DEF w
<1>5. a = "redis" => job[t].on = s /\ s \notin revokedAt[t]
  BY <1>2 DEF IInv, Sessions, CachesAreSound
<1> QED
  BY <1>1, <1>4, <1>5, VerifyStep

\* A session that is active has not been revoked anywhere.
LEMMA VerifyRowHolds ==
  ASSUME IInv, NEW v \in verifying, VerifyRow(v)
  PROVE  IInv'
<1> DEFINE w == [v EXCEPT !.at = "redis"]
<1>1. /\ verifying' = (verifying \ {v}) \cup {w} /\ row[v.token] = "active"
      /\ UNCHANGED <<active, job, expired, row, cached, blacklist, redis, live,
                     revoking, revokedAt, granted>>
  BY DEF VerifyRow, HasSession
<1>2. v \in Verifications
  BY DEF IInv, TypeOK
<1>3. w \in Verifications /\ w.on = v.on /\ w.token = v.token /\ w.after = v.after
  BY <1>2 DEF Verifications
<1> HIDE DEF w
<1>4. /\ v.token \in Tokens /\ Issued(v.token) /\ v.after \subseteq revokedAt[v.token]
  BY RecordTypes DEF IInv, Sessions, OnlyIssued, VerifyingIsSound
<1>5. revokedAt[v.token] = {}
  BY <1>1, <1>4 DEF IInv, RowsAreSound
<1>6. w.after = {}
  BY <1>3, <1>4, <1>5
<1> QED
  BY <1>1, <1>3, <1>4, <1>6, VerifyStep

LEMMA VerifyRedisHolds ==
  ASSUME IInv, NEW v \in verifying, VerifyRedis(v)
  PROVE  IInv'
<1>1. /\ v.at = "redis" /\ verifying' = verifying \ {v}
      /\ granted' = IF v.after = {} THEN granted ELSE granted \cup {v}
      /\ UNCHANGED <<active, job, expired, row, cached, blacklist, redis, live,
                     revoking, revokedAt>>
  BY DEF VerifyRedis
<1>2. TypeOK'
  BY <1>1 DEF IInv, TypeOK
<1>3. JobsAreSound' /\ RowsAreSound'
  BY <1>1, JobsStay, RowsStay
<1>4. v.after # {} => Issued(v.token) /\ v.on = job[v.token].on /\ v.on \notin v.after
  BY <1>1 DEF IInv, Sessions, OnlyIssued, VerifyingIsSound
<1>5. Sessions'
  <2>1. OnlyIssued' /\ RevokedIsRefusedElsewhere'
    BY <1>1, <1>4 DEF IInv, Sessions, OnlyIssued, Issued, RevokedIsRefusedElsewhere
  <2>2. CachesAreSound' /\ RevokingIsUncached' /\ VerifyingIsSound'
    BY <1>1 DEF IInv, Sessions, CachesAreSound, RevokingIsUncached, VerifyingIsSound
  <2> QED
    BY <2>1, <2>2 DEF Sessions
<1> QED
  BY <1>2, <1>3, <1>5 DEF IInv

-----------------------------------------------------------------------------
(* Calls that end without effect, and the environment.                     *)

LEMMA EndingsHold ==
  ASSUME IInv, \/ \E v \in revoking : RevokeFails(v)
               \/ \E v \in verifying : VerifyRefuses(v)
               \/ \E b \in BOOLEAN : SetActive(b)
               \/ \E t \in Tokens : Expire(t)
               \/ \E r \in Refreshes : RefreshExpires(r)
               \/ UNCHANGED vars
  PROVE  IInv'
<1>1. /\ UNCHANGED <<job, row, cached, blacklist, redis, revokedAt, granted>>
      /\ live' \subseteq live /\ revoking' \subseteq revoking
      /\ verifying' \subseteq verifying
  BY DEF RevokeFails, VerifyRefuses, SetActive, Expire, RefreshExpires, vars
<1>2. active' \in BOOLEAN
  BY DEF RevokeFails, VerifyRefuses, SetActive, Expire, RefreshExpires, vars, IInv,
         TypeOK
<1>3. expired' \subseteq Tokens
  BY DEF RevokeFails, VerifyRefuses, SetActive, Expire, RefreshExpires, vars, IInv,
         TypeOK
<1>4. TypeOK'
  BY <1>1, <1>2, <1>3 DEF IInv, TypeOK
<1>5. JobsAreSound' /\ RowsAreSound'
  BY <1>1, JobsStay, RowsStay
<1>6. Sessions'
  BY <1>1, SessionsStay DEF Issued
<1> QED
  BY <1>4, <1>5, <1>6 DEF IInv

LEMMA RestartHolds ==
  ASSUME IInv, NEW s \in Servers, Restart(s)
  PROVE  IInv'
<1>1. /\ cached' = [cached EXCEPT ![s] = {}] /\ blacklist' = [blacklist EXCEPT ![s] = {}]
      /\ revoking' \subseteq revoking /\ verifying' \subseteq verifying
      /\ UNCHANGED <<active, expired, row, redis, live, revokedAt, granted>>
  BY DEF Restart
<1>2. /\ cached \in [Servers -> SUBSET Tokens] /\ blacklist \in [Servers -> SUBSET Tokens]
      /\ job \in [Tokens -> Jobs]
  BY DEF IInv, TypeOK
<1>3. \A t \in Tokens :
        \/ job'[t] = job[t]
        \/ job'[t] = [job[t] EXCEPT !.at = "lost"] /\ ~Issued(t)
  BY DEF Restart
<1>4. ASSUME NEW t \in Tokens
      PROVE  /\ job'[t] \in Jobs /\ job'[t].on = job[t].on /\ job'[t].old = job[t].old
             /\ job'[t].new = job[t].new
             /\ job'[t].at = job[t].at \/ job'[t].at = "lost"
             /\ Issued(t) => job'[t].at = "issued"
  <2>1. job[t] \in Jobs
    BY <1>2
  <2>2. CASE job'[t] = job[t]
    BY <2>1, <2>2 DEF Issued
  <2>3. CASE job'[t] = [job[t] EXCEPT !.at = "lost"] /\ ~Issued(t)
    BY <2>1, <2>3 DEF Jobs
  <2> QED
    BY <1>3, <2>2, <2>3
<1>5. TypeOK'
  <2>1. job' \in [Tokens -> Jobs]
    <3>1. job' = [t \in Tokens |-> job'[t]]
      BY DEF Restart
    <3> QED
      BY <3>1, <1>4
  <2>2. cached' \in [Servers -> SUBSET Tokens] /\ blacklist' \in [Servers -> SUBSET Tokens]
    BY <1>1, <1>2
  <2> QED
    BY <1>1, <2>1, <2>2 DEF IInv, TypeOK
<1>6. JobsAreSound'
  BY <1>1, <1>4 DEF IInv, JobsAreSound
<1>7. RowsAreSound'
  BY <1>1, <1>4 DEF IInv, RowsAreSound, IsLogin
<1>8. Sessions'
  <2>1. \A o \in Servers : cached'[o] \subseteq cached[o]
    BY <1>1, <1>2
  <2> QED
    BY <2>1, <1>1, <1>4, SessionsStay
<1> QED
  BY <1>5, <1>6, <1>7, <1>8 DEF IInv

LEMMA StepHolds == IInv /\ [Next]_vars => IInv'
<1> SUFFICES ASSUME IInv, [Next]_vars PROVE IInv'
  OBVIOUS
<1>1. ASSUME NEW t \in Tokens, NEW s \in Servers,
             \/ LoginSelect(s, t) \/ RevokeStart(s, t) \/ VerifyStart(s, t)
             \/ \E r \in Refreshes : RefreshFind(s, t, r)
      PROVE  IInv'
  BY <1>1, LoginSelectHolds, RevokeStartHolds, VerifyStartHolds, RefreshFindHolds
<1>2. ASSUME NEW t \in Tokens,
             \/ \E r \in Refreshes : StoreRefresh(t, r)
             \/ RefreshSelect(t) \/ LoginSave(t) \/ RefreshSave(t) \/ Issue(t)
             \/ JobFails(t)
      PROVE  IInv'
  BY <1>2, StoreRefreshHolds, AdvanceHolds, LoginSaveHolds, RefreshSaveHolds
<1>3. ASSUME NEW v \in revoking, RevokeRedis(v) \/ RevokeRow(v)
      PROVE  IInv'
  BY <1>3, RevokeRedisHolds, RevokeRowHolds
<1>4. ASSUME NEW v \in verifying, VerifyRow(v) \/ VerifyRedis(v)
      PROVE  IInv'
  BY <1>4, VerifyRowHolds, VerifyRedisHolds
<1>5. ASSUME NEW s \in Servers, Restart(s)
      PROVE  IInv'
  BY <1>5, RestartHolds
<1> QED
  BY <1>1, <1>2, <1>3, <1>4, <1>5, EndingsHold DEF Next

LEMMA Invariant == Spec => []IInv
BY InitHolds, StepHolds, PTL DEF Spec

-----------------------------------------------------------------------------
\* Jobs, rows, caches and calls keep their types.
THEOREM TypeCorrect == Spec => []TypeOK
<1>1. IInv => TypeOK
  BY DEF IInv
<1> QED
  BY <1>1, Invariant, PTL

\* Once a revocation has returned, only the process of the login, and only if
\* it did not run a revocation that returned, lets the token in.
THEOREM RevokedIsRefusedElsewhereHolds == Spec => []RevokedIsRefusedElsewhere
<1>1. IInv => RevokedIsRefusedElsewhere
  BY DEF IInv, Sessions
<1> QED
  BY <1>1, Invariant, PTL

\* A cached session is in the table, where only a revocation made by another
\* process can have ended it.
THEOREM CachedIsSessionHolds == Spec => []CachedIsSession
<1>1. ASSUME IInv PROVE CachedIsSession
  <2> SUFFICES ASSUME NEW s \in Servers, NEW t \in cached[s]
               PROVE  /\ job[t].on = s
                      /\ row[t] # "none"
                      /\ row[t] = "inactive" => \E o \in revokedAt[t] : o # s
    BY DEF CachedIsSession
  <2>1. t \in Tokens /\ job[t].on = s /\ row[t] # "none" /\ s \notin revokedAt[t]
    BY <1>1, RecordTypes DEF IInv, Sessions, CachesAreSound
  <2>2. row[t] = "inactive" => revokedAt[t] # {}
    BY <1>1, <2>1 DEF IInv, RowsAreSound
  <2> QED
    BY <2>1, <2>2
<1> QED
  BY <1>1, Invariant, PTL

\* A token that a login handed out is accepted everywhere until it expires or
\* is revoked.
THEOREM LoginIsAcceptedHolds == Spec => []LoginIsAccepted
<1>1. ASSUME IInv PROVE LoginIsAccepted
  <2> SUFFICES ASSUME NEW t \in Tokens, Issued(t), IsLogin(t), NeverRevoked(t),
                      t \notin expired, NEW s \in Servers
               PROVE  Accepts(s, t)
    BY DEF LoginIsAccepted
  <2>1. row[t] \in {"none", "active", "inactive"}
    BY <1>1 DEF IInv, TypeOK
  <2>2. row[t] = "active"
    BY <1>1, <2>1 DEF IInv, RowsAreSound, NeverRevoked, Issued
  <2> QED
    BY <2>2 DEF Accepts, NeverRevoked, HasSession
<1> QED
  BY <1>1, Invariant, PTL

\* The key of a refresh token that was exchanged is gone from Redis for good, for
\* any number of refreshes of it that overlap.
THEOREM ExchangedRefreshIsGoneHolds == Spec => []ExchangedRefreshIsGone
<1>1. IInv => ExchangedRefreshIsGone
  BY DEF IInv, JobsAreSound, ExchangedRefreshIsGone, Issued
<1> QED
  BY <1>1, Invariant, PTL

\* Where a single process serves every request, no revoked token is let in, in
\* spite of the keys the two sides disagree on: the fault takes two processes.
THEOREM SingleServer ==
  ASSUME NEW s, Servers = {s}
  PROVE  Spec => []RevokedIsRefused
<1>1. ASSUME IInv PROVE RevokedIsRefused
  <2> SUFFICES ASSUME NEW g \in granted PROVE FALSE
    BY DEF RevokedIsRefused
  <2>1. g \in Verifications
    BY <1>1 DEF IInv, TypeOK
  <2>2. g.on \in Servers /\ g.after \subseteq Servers
    BY <2>1 DEF Verifications
  <2>3. g.on \notin g.after /\ g.after # {}
    BY <1>1 DEF IInv, Sessions, OnlyIssued, RevokedIsRefusedElsewhere
  <2> QED
    BY <2>2, <2>3
<1> QED
  BY <1>1, Invariant, PTL
=============================================================================
