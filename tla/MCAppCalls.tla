------------------------------ MODULE MCAppCalls ------------------------------
(***************************************************************************)
(* Two repositories, three names (so that a rename always has a free one)  *)
(* and two installations; one target or two.  Time in units of 200 ms.     *)
(***************************************************************************)
EXTENDS AppCalls, TLC

CONSTANTS r1, r2, a, b

MCTargetLists ==
    {<<[name |-> a, id |-> r1]>>,
     <<[name |-> a, id |-> r1], [name |-> b, id |-> r2]>>}

MCSymmetry == Permutations(Installation)

\* A minute behind, right, a minute ahead.
MCAhead == {-300, 0, 300}

Answer(status, header, retry_after) ==
    [kind |-> "answer", status |-> status, header |-> header, retry_after |-> retry_after]

Failure(kind) == [kind |-> kind, status |-> 0, header |-> FALSE, retry_after |-> None]

MCReplies ==
    {Answer(404, FALSE, None), Answer(403, FALSE, None), Answer(403, TRUE, None),
     Answer(429, TRUE, 300), Answer(503, TRUE, 0),
     Failure("timeout"), Failure("broken")}
===============================================================================
