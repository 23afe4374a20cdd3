---------------------------- MODULE AuthTokensMC ----------------------------
(* Instances of AuthTokens for TLC. *)
EXTENDS AuthTokens, TLC

CONSTANTS LastToken, LastRefresh

Sym ==
  Permutations(Servers) \cup Permutations(Tokens \ {LastToken})
    \cup Permutations(Refreshes \ {LastRefresh})

Begun == {t \in Tokens : job[t] # Unborn}

\* Tokens are interchangeable until they are generated: let these be the last.
LastIsLast ==
  /\ LastToken \in Begun => Begun = Tokens
  /\ LastRefresh \in Generated => Refreshes \subseteq Generated

\* One token is left over.  One request is verified at a time (verifications change
\* nothing that another reads), and only where a revocation has returned (the others
\* say nothing); one token is revoked at a time, and one expires, which ends the
\* interest of revocations.
Few ==
  /\ LastToken \notin Begun
  /\ Cardinality(verifying) <= 1
  /\ \A v \in verifying : v.after # {}
  /\ Cardinality(revoking) + Cardinality(expired) <= 1

\* All tokens are used, and nothing is revoked, verified or expired.
Exchanges ==
  /\ verifying = {} /\ revoking = {} /\ expired = {} /\ redis = {}
  /\ \A s \in Servers : blacklist[s] = {}

FewOrExchanges == LastIsLast /\ (Few \/ Exchanges)
=============================================================================
