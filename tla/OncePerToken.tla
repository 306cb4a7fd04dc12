----------------------------- MODULE OncePerToken -----------------------------
(***************************************************************************)
(* What the exchange promises for the OIDC tokens it is shown, with no     *)
(* word of how: a token is claimed at most once, and a claimed token buys  *)
(* at most one installation token.  That one is granted to the caller, or  *)
(* it is orphaned: GitHub created it and no caller was told.               *)
(* Nothing ever goes back: a spent OIDC token stays spent.                 *)
(***************************************************************************)
CONSTANT Token

VARIABLE stage   \* of each token: fresh, claimed, orphaned or granted

Init == stage = [t \in Token |-> "fresh"]

Advance(t, from, to) ==
    /\ stage[t] = from
    /\ stage' = [stage EXCEPT ![t] = to]

Claim(t)  == Advance(t, "fresh", "claimed")
Grant(t)  == Advance(t, "claimed", "granted")
Orphan(t) == Advance(t, "claimed", "orphaned")

Next == \E t \in Token : Claim(t) \/ Grant(t) \/ Orphan(t)

Spec == Init /\ [][Next]_stage
===============================================================================
