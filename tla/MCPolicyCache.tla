---------------------------- MODULE MCPolicyCache ----------------------------
(***************************************************************************)
(* Two callers, a valid policy and an invalid one that replace each other. *)
(* Seconds are scaled down so that the primary ttl, the stale ttl, the     *)
(* backoff cap and the u32 shift are all reached and passed.               *)
(***************************************************************************)
EXTENDS PolicyCache

CONSTANTS v1, bad
===============================================================================
