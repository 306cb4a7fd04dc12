------------------------------ MODULE PolicyLoad ------------------------------
(***************************************************************************)
(* What the policy cache may expect of one run of its loader, without a    *)
(* word of tokens and requests: one answer at most, which is a file that   *)
(* was hosted at some moment of the load, a wait that GitHub asked for, or *)
(* a failure.                                                              *)
(***************************************************************************)
EXTENDS Naturals

CONSTANTS
    Version,                \* the files a policy repository may host
    NoPolicy,
    MAX_RATE_LIMIT_BACKOFF  \* the longest wait a load reports

VARIABLES
    hosted,   \* the file in the repository now
    seen,     \* the files it has hosted since the load began
    reply     \* what the load came back with

vars == <<hosted, seen, reply>>

NoReply    == [kind |-> "none", version |-> NoPolicy, after |-> 0]
Loaded(v)  == [kind |-> "loaded", version |-> v, after |-> 0]
Limited(r) == [kind |-> "limited", version |-> NoPolicy, after |-> r]
Failed     == [kind |-> "failed", version |-> NoPolicy, after |-> 0]

Init ==
    /\ hosted \in Version
    /\ seen = {hosted}
    /\ reply = NoReply

Publish ==
    /\ hosted' \in Version
    /\ seen' = seen \cup {hosted'}
    /\ UNCHANGED reply

Answer ==
    /\ reply = NoReply
    /\ \/ \E v \in seen : reply' = Loaded(v)
       \/ \E r \in 1..MAX_RATE_LIMIT_BACKOFF : reply' = Limited(r)
       \/ reply' = Failed
    /\ UNCHANGED <<hosted, seen>>

Next == Publish \/ Answer

Spec == Init /\ [][Next]_vars
===============================================================================
