--------------------------- MODULE MCAuthorization ---------------------------
(***************************************************************************)
(* Small policy files, tokens and requests.  SelectFiles: every pair of    *)
(* rules of one caller in a version 2 file, against every token of it and  *)
(* of a repository that took its name.  SpelledFiles: pairs of rules of a  *)
(* version 1 file, which gives the subject itself.  ScopeFiles: one rule   *)
(* of every kind of target, against every request.  Levels go up to write. *)
(***************************************************************************)
EXTENDS Authorization, TLC

\* Values of the constants of PolicyFile
MCPullRefs == {"refs/pull/5/merge"}
MCPattern  == "refs/pull/*/merge"
MCPadded == (" refs/heads/main" :> "refs/heads/main")
MCPaddedPattern == (" " \o MCPattern) :> MCPattern

Entry(name, id, format, owner) ==
    [name |-> name, id |-> id, oidc_subject |-> format, owner_id |-> owner]

Entries == [a |-> Entry("o/a", 1, "legacy", None),
            b |-> Entry("o/b", 2, "immutable", 7),
            c |-> Entry("o/c", 3, "legacy", None)]

Permissions == [Permission -> 0..2] \ {[p \in Permission |-> 0]}
ReadAll == [p \in Permission |-> 1]

File(rules) == [version |-> 2, repositories |-> Entries, installations |-> [i |-> 11],
                rules |-> rules]

-------------------------------------------------------------------------------
\* Rules of the caller b, with or without an environment and a reusable workflow
SelectRules ==
    [caller : {"b"}, environment : {None, "release"},
     caller_ref : {"refs/heads/main", " refs/heads/main", "refs/pull/5/merge", MCPattern},
     caller_workflow : {"ci"}, reusable_workflow : {None, "ci", "shared"},
     on : {<<"push">>, <<"pull_request">>, <<"push", "pull_request">>},
     permissions : {ReadAll}, target : {None}, targets : {<<>>}, installation : {None}]

SelectFiles ==
    {File(<<r>>) : r \in SelectRules} \cup {File(<<r, s>>) : r, s \in SelectRules}

\* A job of repository b, and the claims GitHub signs for it.
Jobs == [environment : {None, "release"}, ref : {"refs/heads/main", "refs/pull/5/merge"},
         event : {"push", "pull_request"}, job : {None, "ci", "shared"}, id : {2, 3},
         custom : BOOLEAN]

Ref(path, ref) == [repository |-> "o/b", path |-> path, ref |-> ref]

\* A repository may customise its subjects to leave the environment out.
Signed(j) ==
    LET named == j.environment # None /\ ~j.custom
    IN [subject |-> [repo    |-> <<"o/b", 7, j.id>>,
                     context |-> IF named THEN "environment" ELSE "ref",
                     value   |-> IF named THEN j.environment ELSE j.ref],
        ref |-> j.ref, environment |-> j.environment, repository |-> "o/b",
        repository_id |-> j.id, event |-> j.event,
        workflow_ref |-> Ref("ci", j.ref),
        job_workflow_ref |-> IF j.job = None THEN None ELSE Ref(j.job, j.ref)]

SelectClaims == {Signed(j) : j \in Jobs}
SelectCalls == [claims : SelectClaims, request : {NoRequest}]

\* The pattern with a blank before it, for a push
PaddedFiles ==
    {File(<<r>>) : r \in {[s EXCEPT !.caller_ref = " " \o MCPattern] : s \in SelectRules}}

-------------------------------------------------------------------------------
\* Version 1: rules of one repository that give their subject
SpelledRules ==
    [subject : {[repo |-> <<"o/b", 7, 2>>, context |-> c[1], value |-> c[2]] :
                    c \in {<<"environment", "release">>, <<"ref", "refs/heads/main">>}},
     repository : {[name |-> "o/b", id |-> 2]}, git_ref : {"refs/heads/main", MCPattern},
     workflow : {"ci"}, job_workflow : {None, "ci"}, environment : {None, "release"},
     events : {<<"push">>, <<"pull_request">>, <<"push", "pull_request">>},
     permissions : {ReadAll}, kind : {"own"},
     targets : {<<[name |-> "o/b", id |-> 2]>>}, installation : {None}]

SpelledFiles ==
    {[version |-> 1, rules |-> <<r, s>>] : r, s \in SpelledRules}

-------------------------------------------------------------------------------
\* Rules of every kind of target
ScopeRule(p, target, targets, installation) ==
    [caller |-> "b", environment |-> None, caller_ref |-> "refs/heads/main",
     caller_workflow |-> "ci", reusable_workflow |-> None, on |-> <<"push">>,
     permissions |-> p, target |-> target, targets |-> targets, installation |-> installation]

ScopeFiles ==
    {File(<<ScopeRule(p, t, <<>>, None)>>) : p \in Permissions, t \in {None, "a", "b"}} \cup
    {File(<<ScopeRule(p, None, l, "i")>>) :
        p \in Permissions, l \in {<<"a", "c">>, <<"c", "b", "a">>, <<"a", "a">>, <<"a">>}}

ScopeClaims ==
    Signed([environment |-> None, ref |-> "refs/heads/main", event |-> "push",
            job |-> None, id |-> 2, custom |-> FALSE])

Names == {"o/a", "o/b", "o/c", "o/d"}

ScopeRequests ==
    {NoRequest} \cup
    [repositories : {<<n>> : n \in Names}, multiple : {FALSE}, permissions : Permissions] \cup
    [repositories : {<<"o/a", "o/c">>, <<"o/b", "o/a">>, <<"o/a", "o/d">>,
                     <<"o/a", "o/b", "o/c">>},
     multiple : {TRUE}, permissions : Permissions]

AllFiles == SelectFiles \cup SpelledFiles \cup ScopeFiles

\* Every token without a request, every request with the one token that fits the rules
\* of every kind.
AllCalls == SelectCalls \cup [claims : {ScopeClaims}, request : ScopeRequests]
===============================================================================
