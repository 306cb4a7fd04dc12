------------------------------ MODULE MCExchange ------------------------------
(***************************************************************************)
(* Two environments and two tokens; seconds are scaled down, and the       *)
(* margin is exactly the timeout plus the skew, its tightest legal value.  *)
(***************************************************************************)
EXTENDS Exchange, TLC

CONSTANTS t1, t2

\* t2 is issued, becomes valid and expires later than t1.
MCClaims == t1 :> [iat |-> 0, nbf |-> 0, exp |-> 1] @@
            t2 :> [iat |-> 3, nbf |-> 2, exp |-> 3]

MCSymmetry == Permutations(Worker)
===============================================================================
