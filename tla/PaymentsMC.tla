----------------------------- MODULE PaymentsMC -----------------------------
EXTENDS Payments, TLC

Sym == Permutations(Processes) \cup Permutations(Invoices) \cup Permutations(Subs)

\* The calls of one invoice fail, and the other invoice is in the way.
OneFails ==
  Cardinality({i \in Invoices : \E p \in Processes : failed[p][i] > 0}) <= 1
=============================================================================
