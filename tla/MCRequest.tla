----------------------------- MODULE MCRequest -----------------------------
(* Instance of Request for TLC: Metrics for all routes, Jwt and Ratelimit  *)
(* for those of a group.                                                   *)
EXTENDS Request

CONSTANTS a, b

AllUsed == <<"Metrics">>
GroupUsed == <<"Jwt", "Ratelimit">>
=============================================================================
