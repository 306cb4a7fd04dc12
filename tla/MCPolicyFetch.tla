---------------------------- MODULE MCPolicyFetch ----------------------------
(***************************************************************************)
(* Two files, one at the limit of bytes and one beyond it or no text, and  *)
(* the refusals of GitHub's REST documentation: those it means as a limit, *)
(* and denials with the same headers.                                      *)
(***************************************************************************)
EXTENDS PolicyFetch, TLC

MCSize == ("exact" :> 2) @@ ("long" :> 3) @@ ("binary" :> 1)

Says(status, remaining, retry_after, reset, message, limit) ==
    [status |-> status, remaining |-> remaining, retry_after |-> retry_after,
     reset |-> reset, message |-> message, limit |-> limit]

\* Nothing left of the primary limit; the reset may be over by the process's clock.
Primary == {Says(s, 0, None, t, "plain", TRUE) : s \in {403, 429}, t \in {0, 2, 9}}

\* The secondary limit, with and without a time to wait.
Secondary ==
    {Says(s, 1, a, 9, m, TRUE) :
        s \in {403, 429}, a \in {None, 0, 2, 9}, m \in {"secondary", "abuse"}}

Spammed == {Says(422, None, None, None, "spammed", TRUE)}

\* No limit: bad credentials, missing permissions, unknown, invalid, out of order; also as
\* the last request of its window, and with a time to come back.
Others ==
    {Says(s, n, a, t, "plain", FALSE) :
        s \in {401, 403, 404, 422, 500}, n \in {0, 1}, a \in {None, 9}, t \in {2, 9}}

MCRefusals == Primary \cup Secondary \cup Spammed \cup Others
===============================================================================
