----------------------------- MODULE GatewayMC -----------------------------
(* Instances of Gateway for TLC. *)
EXTENDS Gateway

CONSTANT OnlyService

\* All targets are actions of one module, and share its breaker.
SameService == [t \in Targets |-> OnlyService]
=============================================================================
