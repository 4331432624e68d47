------------------------------- MODULE Limits -------------------------------
(***************************************************************************)
(* The two limiters of the system: the console's, on what a client may try *)
(* (RateLimiter), and the agent's, on what a scan may take from its host   *)
(* (Governor).  They share no state.                                       *)
(***************************************************************************)
EXTENDS RateLimiter, Governor

-----------------------------------------------------------------------------
(* Property *)

\* The limits on what a client may try (server.go's limiter) and on what a
\* scan may take from its host (govern.go) hold.
LimitsHold == LimSafe /\ GovSafe
=============================================================================
