------------------------------ MODULE MCPHubMC ------------------------------
(* Instances of MCPHub for TLC. *)
EXTENDS MCPHub, TLC

\* Ids and connections are interchangeable in safety runs.
Sym == Permutations(ModuleIds) \cup Permutations(Conns)

\* One module at a time is late, and none stale: what long silence leads to is in
\* hub_overlap.
Lively ==
  /\ \A m \in ModuleIds : age[m] # "stale"
  /\ Cardinality({m \in ModuleIds : age[m] = "late" \/ status[m] = "offline"}) <= 1
=============================================================================
