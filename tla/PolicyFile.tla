------------------------------ MODULE PolicyFile ------------------------------
(***************************************************************************)
(* From the policy file to the rules the broker decides by                 *)
(* (src/config.rs): which files are accepted, and what each rule of an     *)
(* accepted file says.  A repository is a record [name, id]; a permission  *)
(* map is a function to the levels 0 (not named), 1 (read), 2 (write) and  *)
(* 3 (admin).                                                              *)
(***************************************************************************)
EXTENDS Integers, Sequences, FiniteSets, Functions

CONSTANTS
    None,                     \* Option::None
    PULL_PATTERN,             \* "refs/pull/*/merge"
    PullRefs,                 \* the refs it matches: refs/pull/<number>/merge
    Padded,                   \* refs as a file may write them with blanks in front,
                              \* to the refs they are
    Permission,               \* names of repository permissions
    MAX_HOSTED_POLICY_RULES   \* config.rs: 100

ASSUME PatternIsNoPullRef == PULL_PATTERN \notin PullRefs /\ None \notin PullRefs

\* An accepted file has rules.
Rejected == <<>>

\* Permissions::permits: each requested level is allowed.
Permits(allowed, requested) ==
    \A p \in Permission : requested[p] <= allowed[p]

\* GitRef::matches
RefMatches(gitRef, value) ==
    IF gitRef = PULL_PATTERN THEN value \in PullRefs ELSE gitRef = value

\* GitRef::try_from drops the blanks around what it is given.
Trim(written) == IF written \in DOMAIN Padded THEN Padded[written] ELSE written

-------------------------------------------------------------------------------
\* A rule, and which rules and lists of rules are valid

\* Mutant: the pull-request pattern is accepted for any event.
MutPatternIsForPulls(rule) == TRUE

\* The ref is looked at as it is written.
PatternIsForPulls(rule) ==
    rule.git_ref = PULL_PATTERN => Range(rule.events) = {"pull_request"}

\* Names and ids are distinct one by one.
Distinct(repositories) ==
    /\ IsInjective([i \in DOMAIN repositories |-> repositories[i].name])
    /\ IsInjective([i \in DOMAIN repositories |-> repositories[i].id])

\* What PolicyRule::try_from takes.  kind says which target fields the rule has: none of its own
\* ("own"), target_repository ("one") or target_repositories ("many").
ValidRule(rule) ==
    /\ rule.events # <<>>
    /\ IsInjective(rule.events)
    /\ PatternIsForPulls(rule)
    /\ rule.kind = "many" =>
         /\ Len(rule.targets) >= 2
         /\ rule.installation \notin {None, 0}
         /\ Distinct(rule.targets)
    /\ rule.kind # "many" => rule.installation = None

\* Mutant: rules overlap only if they list the same events.
MutOverlap(r, s) ==
    /\ r.subject = s.subject
    /\ r.repository = s.repository
    /\ r.git_ref = s.git_ref
    /\ r.workflow = s.workflow
    /\ r.job_workflow = s.job_workflow
    /\ r.environment = s.environment
    /\ r.events = s.events

\* The identity comparison of Policy::try_from: field by field, and a common event.
Overlap(r, s) ==
    /\ r.subject = s.subject
    /\ r.repository = s.repository
    /\ r.git_ref = s.git_ref
    /\ r.workflow = s.workflow
    /\ r.job_workflow = s.job_workflow
    /\ r.environment = s.environment
    /\ Range(r.events) \cap Range(s.events) # {}

\* What PolicyRule::try_from makes of a rule.
Parsed(rule) == [rule EXCEPT !.git_ref = Trim(@)]

\* Policy::try_from: every rule is valid, and no two of them overlap.
Accept(written) ==
    LET rules == [i \in DOMAIN written |-> Parsed(written[i])]
    IN IF /\ \A i \in DOMAIN written : ValidRule(written[i])
          /\ \A i, j \in DOMAIN rules : j < i => ~Overlap(rules[j], rules[i])
       THEN rules
       ELSE Rejected

-------------------------------------------------------------------------------
\* Version 2: aliases are resolved and the subject is derived

\* repo:OWNER/REPO, or repo:OWNER@OWNER_ID/REPO@REPOSITORY_ID
SubjectPrefix(entry) ==
    IF entry.oidc_subject = "legacy" THEN <<entry.name>>
                                     ELSE <<entry.name, entry.owner_id, entry.id>>

\* Mutant: the subject is derived from the ref even when an environment is set.
MutDerivedSubject(entry, rule) ==
    [repo |-> SubjectPrefix(entry), context |-> "ref", value |-> rule.caller_ref]

DerivedSubject(entry, rule) ==
    IF rule.environment = None
    THEN [repo |-> SubjectPrefix(entry), context |-> "ref", value |-> rule.caller_ref]
    ELSE [repo |-> SubjectPrefix(entry), context |-> "environment", value |-> rule.environment]

Repository(entry) == [name |-> entry.name, id |-> entry.id]

ValidEntries(repositories) ==
    /\ DOMAIN repositories # {}
    /\ \A a \in DOMAIN repositories :
         (repositories[a].oidc_subject = "immutable") <=> (repositories[a].owner_id # None)
    /\ \A a, b \in DOMAIN repositories :
         a # b => /\ repositories[a].id # repositories[b].id
                  /\ repositories[a].name # repositories[b].name

\* The aliases of a rule are known, and its target fields fit together.
Resolves(file, rule) ==
    /\ {rule.caller} \cup Range(rule.targets) \cup ({rule.target} \ {None})
         \subseteq DOMAIN file.repositories
    /\ rule.target = None \/ rule.targets = <<>>
    /\ (rule.targets # <<>>) <=> (rule.installation # None)
    /\ rule.installation # None => rule.installation \in DOMAIN file.installations

KindOf(rule) ==
    CASE rule.targets # <<>> -> "many"
      [] rule.target # None  -> "one"
      [] OTHER               -> "own"

\* What the rule is for: its targets, or its one target, or else its own repository.
TargetsOf(file, rule) ==
    LET Named(alias) == Repository(file.repositories[alias])
    IN CASE KindOf(rule) = "many" -> [i \in DOMAIN rule.targets |-> Named(rule.targets[i])]
         [] KindOf(rule) = "one"  -> <<Named(rule.target)>>
         [] OTHER                 -> <<Named(rule.caller)>>

\* RawPolicyRuleV2 to RawPolicyRule to PolicyRule
Converted(file, rule) ==
    LET caller == file.repositories[rule.caller]
    IN [subject      |-> DerivedSubject(caller, rule),
        repository   |-> Repository(caller),
        git_ref      |-> rule.caller_ref,
        workflow     |-> rule.caller_workflow,
        job_workflow |-> rule.reusable_workflow,
        environment  |-> rule.environment,
        events       |-> rule.on,
        permissions  |-> rule.permissions,
        kind         |-> KindOf(rule),
        targets      |-> TargetsOf(file, rule),
        installation |-> IF rule.installation = None THEN None
                         ELSE file.installations[rule.installation]]

IntoPolicy(file) ==
    IF /\ Len(file.rules) \in 1..MAX_HOSTED_POLICY_RULES
       /\ Cardinality(DOMAIN file.repositories) <= MAX_HOSTED_POLICY_RULES
       /\ ValidEntries(file.repositories)
       /\ Cardinality(DOMAIN file.installations) <= MAX_HOSTED_POLICY_RULES
       /\ \A a \in DOMAIN file.installations : file.installations[a] # 0
       /\ \A i \in DOMAIN file.rules : Resolves(file, file.rules[i])
    THEN Accept([i \in DOMAIN file.rules |-> Converted(file, file.rules[i])])
    ELSE Rejected

\* Policy::from_hosted: the rules of a file, or Rejected.  A version 1 file spells its
\* rules out.
FromHosted(file) ==
    CASE file.version = 1 /\ Len(file.rules) <= MAX_HOSTED_POLICY_RULES -> Accept(file.rules)
      [] file.version = 2 -> IntoPolicy(file)
      [] OTHER -> Rejected
===============================================================================
