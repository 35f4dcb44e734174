--------------------------- MODULE MCHealthCheck ----------------------------
(* HealthCheck with two callers of the upstream next to the health check.  *)
EXTENDS HealthCheck, TLC

CONSTANTS r1, r2

MCRequests == {r1, r2}
=============================================================================
