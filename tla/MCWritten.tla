------------------------------ MODULE MCWritten ------------------------------
(***************************************************************************)
(* Names of every kind of segment; bodies of up to three members; one      *)
(* policy text per version with up to two edits: a member written twice,   *)
(* an unknown one, one left out, in any of its objects; structs as lists.  *)
(***************************************************************************)
EXTENDS Written, TLC

MCLowerCase == "A" :> "a"

W(a, b) == <<Plain(a), Plain(b)>>
Padded == <<Segment("o", TRUE), Segment("a", TRUE)>>
MCNames ==
    {W("o", x) : x \in {"a", "A", "b", ".", "..", "?", ""}} \cup
    {W("..", "a"), Padded, <<Plain("o")>>, <<Plain("o"), Plain("a"), Plain("b")>>}

NameLists == {<<n>> : n \in MCNames} \cup
         {<<n, m>> : n \in MCNames, m \in {W("o", "b"), W("o", "a"), Padded}}

P(name, level) == Member(name, level)
Permissions ==
    {<<>>} \cup {<<P(n, l)>> : n \in {"contents", "workflows", "repository_projects", "other"},
                               l \in {"read", "write", "admin"}}
           \cup {<<P("contents", "read"), P(n, "write")>> : n \in {"contents", "workflows"}}

MCInputs ==
    [repository : MCNames \cup {None}, repositories : {None, <<W("o", "a"), W("o", "b")>>},
     permissions : Permissions \cup {None}] \cup
    [repository : {None}, repositories : NameLists,
     permissions : {None, <<P("contents", "read")>>}]

SomeMembers ==
    {Member("repository", n) : n \in {None, W("o", "a"), W("o", "b"), W("o", "..")}} \cup
    {Member("repositories", l) :
        l \in {None, <<>>, <<W("o", "a")>>, <<W("o", "a"), Padded>>,
               <<W("o", "b"), W("o", "a")>>, <<W("o", "a"), W("o", "A")>>}} \cup
    {Member("permissions", p) : p \in {None, <<>>, <<P("contents", "read")>>, <<P("other", "read")>>}} \cup
    {Member("note", None)}

\* The fields in their order, without their names; too few and too many of them.
PartLists ==
    {<<name, list, <<P("contents", "read")>> >> :
        name \in {None, W("o", "a"), W("o", "..")}, list \in {None, <<W("o", "b"), W("o", "a")>>}} \cup
    {<<W("o", "a"), None>>, <<W("o", "a"), None, <<P("contents", "read")>>, None>>}

MCBodies ==
    [long : {FALSE}, form : {"object"}, parts : UNION {[1..n -> SomeMembers] : n \in 0..3}] \cup
    [long : {FALSE}, form : {"list"}, parts : PartLists] \cup
    [long : {TRUE}, form : {"object"},
     parts : {<<Member("repository", W("o", "a")), Member("permissions", <<P("contents", "read")>>)>>}]

\* One, the other, or both of two repositories.
MCRules == [targets : {<<W("o", "a")>>, <<W("o", "b")>>}, form : {"own", "one"}] \cup
           [targets : {<<W("o", "b"), W("o", "a")>>}, form : {"list"}]
Named(rule) == [rule EXCEPT !.targets = [i \in DOMAIN @ |-> Texts(@[i])]]
MCNamedRules == {Named(r) : r \in MCRules}

-------------------------------------------------------------------------------
A(x) == [kind |-> "atom", atom |-> x]
Null == [kind |-> "null", atom |-> None]
L(vs) == [kind |-> "list", list |-> vs]
Object(ms) == [kind |-> "object", object |-> ms]

\* A value within values as a tree; it stands at p, where its key is k.
RECURSIVE Tree(_, _, _)
Tree(v, p, k) ==
    CASE v.kind \in {"atom", "null"} -> p :> [kind |-> v.kind, key |-> k, atom |-> v.atom]
      [] v.kind = "list" ->
           FoldLeft(LAMBDA t, i : t @@ Tree(v.list[i], Append(p, i), None),
                    p :> [kind |-> "list", key |-> k, atom |-> None],
                    [i \in DOMAIN v.list |-> i])
      [] v.kind = "object" ->
           FoldLeft(LAMBDA t, i : t @@ Tree(v.object[i].value, Append(p, i), v.object[i].key),
                    p :> [kind |-> "object", key |-> k, atom |-> None],
                    [i \in DOMAIN v.object |-> i])

\* Everything that may be done to the members of an object.
Edits(ms) ==
    {ms, Append(ms, Member("extra", A("x")))} \cup
    {Append(ms, Member(k, A("other"))) : k \in Keys(ms)} \cup
    {SelectSeq(ms, LAMBDA m : m.key # k) : k \in Keys(ms)}

\* A permission twice, with another level.
EditedPermissions ==
    {<<Member("contents", A("read"))>>, <<Member("contents", A("read")), Member("contents", A("write"))>>}

RuleV1(ps) ==
    <<Member("subject", A("s")), Member("repository", A("o/a")), Member("repository_id", A("1")),
      Member("ref", A("main")), Member("workflow_path", A("ci")), Member("permissions", Object(ps))>>
RuleV2(ps) ==
    <<Member("caller", A("a")), Member("caller_workflow", A("ci")), Member("on", L(<<A("push")>>)),
      Member("permissions", Object(ps))>>
Entry == <<Member("name", A("o/a")), Member("id", A("1")), Member("oidc_subject", A("legacy"))>>

TopV1(rule) == <<Member("version", A("1")), Member("rules", L(<<Object(rule)>>))>>
TopV2(version, rule, entry) ==
    <<Member("version", A(version)), Member("repositories", Object(<<Member("a", Object(entry))>>)),
      Member("rules", L(<<Object(rule)>>))>>

Edited1 == UNION {Edits(RuleV1(ps)) : ps \in EditedPermissions}
Edited2 == UNION {Edits(RuleV2(ps)) : ps \in EditedPermissions}

Texts1 == UNION {Edits(TopV1(rule)) : rule \in Edited1}
Texts2 == UNION {Edits(TopV2("2", rule, Entry)) : rule \in Edited2}
Texts3 == {TopV2(v, RuleV2(ps), e) :
              v \in {"1", "2", "3"}, ps \in EditedPermissions, e \in Edits(Entry)}

\* Several targets, or none but one field of one; names for installations.
Target(name) == <<Member("repository", A(name)), Member("repository_id", A(name))>>
RuleV1Many(target) ==
    Append(RuleV1(<<Member("contents", A("read"))>>),
           Member("target_repositories", L(<<Object(Target("o/a")), Object(target)>>)))
Texts4 ==
    {TopV1(RuleV1Many(target)) : target \in Edits(Target("o/b"))} \cup
    {Append(TopV2("2", RuleV2(<<Member("contents", A("read"))>>), Entry),
            Member("installations", Object(<<Member("x", A("1")), Member(k, A("2"))>>))) :
        k \in {"x", "y"}}

\* A struct that is written as the list of its fields: in full, with nulls, cut off, with
\* one too many, and with a duplicate in it.
Some(n) == [i \in 1..n |-> A("x")]
Positional ==
    {Some(n) : n \in {2, 4, 5, 14}} \cup
    {Some(5) \o <<Null, Null, L(<<A("push")>>)>> \o rest :
        rest \in {<<>>, <<Null>>} \cup {<<Object(ps)>> : ps \in EditedPermissions}}
Texts5 ==
    {<<Member("version", A("1")), Member("rules", L(<<L(fields)>>))>> : fields \in Positional} \cup
    {TopV1(Append(RuleV1(<<Member("contents", A("read"))>>),
                  Member("target_repositories", L(<<L(Some(n))>>)))) : n \in 1..3} \cup
    {<<Member("version", A("2")), Member("repositories", Object(<<Member("a", L(Some(n)))>>)),
       Member("rules", L(<<L(<<A("a"), Null, A("main"), A("ci"), Null, L(<<A("push")>>), Object(ps)>>)>>))>> :
        n \in 2..5, ps \in EditedPermissions}

MCPolicyTexts ==
    {Tree(Object(t), <<>>, None) : t \in Texts1 \cup Texts2 \cup Texts3 \cup Texts4 \cup Texts5}

-------------------------------------------------------------------------------
Url(scheme, host, port, path) ==
    [scheme |-> scheme, host |-> host, port |-> port, user |-> FALSE, query |-> FALSE, path |-> path]

MCPlaces ==
    [url : {Url(s, h, p, path) : s \in {"https", "http"}, h \in {"api.github.com", "elsewhere"},
                p \in BOOLEAN, path \in {<<"">>, <<"v3">>, <<"v3", "">>}},
     repository : MCNames, id : {0, 7},
     path : {<<Plain(".github"), Plain("policy.json")>>,
             <<Plain(".github"), Plain("x"), Plain("policy.json")>>,
             <<Plain(".github"), Plain(".."), Plain("policy.json")>>,
             <<Plain("src"), Plain("policy.json")>>,
             <<Plain(".github"), Plain("policy.txt")>>},
     long : BOOLEAN]

-------------------------------------------------------------------------------
Ref(kind, last) == <<Plain("refs"), Plain(kind)>> \o last
Refs ==
    {Ref(k, l) : k \in {"heads", "tags", "pull", "x"},
                 l \in {<<>>, <<Plain("")>>, <<Plain("main")>>, <<Plain(" main")>>, <<Plain("a"), Plain("b")>>,
                        <<Plain("5"), Plain("merge")>>, <<Plain("05"), Plain("merge")>>,
                        <<Plain("*"), Plain("merge")>>, <<Plain("5"), Plain("head")>>,
                        <<Plain("5"), Segment("merge", TRUE)>>}}

MCRuleNames ==
    [caller_ref : Refs,
     caller_workflow : {<<Segment(t, p)>> : t \in {"ci.yml", "..yml", "?.yml", "ci.txt", ""}, p \in BOOLEAN}
                       \cup {<<Plain("x"), Plain("ci.yml")>>}]
===============================================================================
