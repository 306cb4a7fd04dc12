----------------------------- MODULE Authorization -----------------------------
(***************************************************************************)
(* Which rule of the loaded policy decides an exchange, and what it grants *)
(* (verify_oidc_claims in src/exchange.rs).  The code narrows the list of  *)
(* rules criterion by criterion, and refuses with the criterion that left  *)
(* none; here the list is the set of the indices still in it.              *)
(***************************************************************************)
EXTENDS PolicyFile

CONSTANTS
    Files,      \* policy files, accepted or not
    Calls       \* the claims of a verified token, and the exchange request: NoRequest
                \* for an empty body

\* The rules of a file are a list, and those of version 1 say their ref and events.
ASSUME FilesAreParsed ==
    \A file \in Files :
        /\ DOMAIN file.rules \subseteq Nat
        /\ file.version = 1 =>
             \A i \in DOMAIN file.rules : {"git_ref", "events"} \subseteq DOMAIN file.rules[i]

\* A PolicyRule of version 1, as far as the file gives it: its fields, its repository, and
\* one target unless it has a list.
IsPolicyRule(rule) ==
    /\ {"subject", "repository", "git_ref", "workflow", "job_workflow", "environment", "events",
        "permissions", "kind", "targets"} \subseteq DOMAIN rule
    /\ rule.repository = [name |-> rule.repository.name, id |-> rule.repository.id]
    /\ rule.kind # "many" => rule.targets = <<rule.targets[1]>>
    /\ rule.kind = "own"  => rule.targets[1] = rule.repository

\* Permissions are levels.
ASSUME RulesAreParsed ==
    \A file \in Files : \A i \in DOMAIN file.rules :
        /\ file.rules[i].permissions \in [Permission -> 0..3]
        /\ file.version = 1 => IsPolicyRule(file.rules[i])

\* A request names each repository once (Written's BodyReadsOneWay).
ASSUME RequestsAreParsed ==
    \A call \in Calls :
        /\ Len(call.request.repositories) \in Nat
        /\ DOMAIN call.request.repositories = 1..Len(call.request.repositories)
        /\ IsInjective(call.request.repositories)

NoRequest == [repositories |-> <<>>, multiple |-> FALSE, permissions |-> <<>>]

VARIABLES
    policy,   \* the rules of the file the cache holds
    claims,   \* the claims of the token
    request,  \* the exchange request
    step,     \* the criterion to be looked at next, or target, or done
    left,     \* indices of the rules retained so far
    outcome   \* what the caller gets

vars == <<policy, claims, request, step, left, outcome>>

-------------------------------------------------------------------------------
\* The criteria, in the order of the code

Criteria == <<"subject", "ref", "environment", "repository", "repository_id", "event",
              "workflow">>

After(criterion) ==
    LET i == CHOOSE i \in DOMAIN Criteria : Criteria[i] = criterion
    IN IF i = Len(Criteria) THEN "target" ELSE Criteria[i + 1]

\* repo/path@ref, as GitHub writes workflow references
WorkflowRef(rule, path) == [repository |-> rule.repository.name, path |-> path, ref |-> claims.ref]

\* The caller's workflow is the rule's; so is the reusable one, or there is none.
WorkflowPasses(rule) ==
    /\ claims.workflow_ref = WorkflowRef(rule, rule.workflow)
    /\ IF rule.job_workflow = None
       THEN claims.job_workflow_ref \in {None, WorkflowRef(rule, rule.workflow)}
       ELSE claims.job_workflow_ref = WorkflowRef(rule, rule.job_workflow)

Passes(rule, criterion) ==
    CASE criterion = "subject"       -> claims.subject = rule.subject
      [] criterion = "ref"           -> RefMatches(rule.git_ref, claims.ref)
      [] criterion = "environment"   -> rule.environment \in {None, claims.environment}
      [] criterion = "repository"    -> claims.repository = rule.repository.name
      [] criterion = "repository_id" -> claims.repository_id = rule.repository.id
      [] criterion = "event"         -> claims.event \in Range(rule.events)
      [] criterion = "workflow"      -> WorkflowPasses(rule)

\* rules.first()
First(indices) == CHOOSE i \in indices : \A j \in indices : i <= j

Named(rule, name) == \E i \in DOMAIN rule.targets : rule.targets[i].name = name

Pending           == [kind |-> "pending"]
Refused(why)      == [kind |-> "refused", why |-> why]
Granted(i, to, p) == [kind |-> "granted", rule |-> i, targets |-> to, permissions |-> p]

-------------------------------------------------------------------------------
Init ==
    /\ \E file \in Files : policy = FromHosted(file)
    /\ policy # Rejected
    /\ \E call \in Calls : claims = call.claims /\ request = call.request
    /\ step = Criteria[1]
    /\ left = DOMAIN policy
    /\ outcome = Pending

\* Mutant: an index is retained for any criterion it has passed, not for all.
MutRetain ==
    /\ step \in Range(Criteria)
    /\ left' = {i \in DOMAIN policy : Passes(policy[i], step)}
    /\ IF left' = {}
       THEN outcome' = Refused(step) /\ step' = "done"
       ELSE outcome' = outcome /\ step' = After(step)
    /\ UNCHANGED <<policy, claims, request>>

\* rules.retain(...), and the refusal if nothing is left.
Retain ==
    /\ step \in Range(Criteria)
    /\ left' = {i \in left : Passes(policy[i], step)}
    /\ IF left' = {}
       THEN outcome' = Refused(step) /\ step' = "done"
       ELSE outcome' = outcome /\ step' = After(step)
    /\ UNCHANGED <<policy, claims, request>>

\* An empty body is good for a rule without an explicit target: the calling
\* repository, with every permission of the rule.
GrantOwn ==
    /\ step = "target"
    /\ request = NoRequest
    /\ LET i == First(left) IN
         outcome' = IF policy[i].kind = "own"
                    THEN Granted(i, Range(policy[i].targets), policy[i].permissions)
                    ELSE Refused("target")
    /\ step' = "done"
    /\ UNCHANGED <<policy, claims, request, left>>

\* Mutant: any one authorized repository of the request is enough.
MutTargetAllowed(rule) == \E i \in DOMAIN request.repositories : Named(rule, request.repositories[i])

\* Every requested repository is the rule's, and a plural request needs a plural rule.
TargetAllowed(rule) ==
    /\ request.multiple => rule.kind = "many"
    /\ \A i \in DOMAIN request.repositories : Named(rule, request.repositories[i])

\* A request selects targets and permissions of the rule.
GrantRequested ==
    /\ step = "target"
    /\ request # NoRequest
    /\ LET i == First(left)
           asked == Range(request.repositories)
       IN outcome' =
            IF ~TargetAllowed(policy[i]) THEN Refused("target")
            ELSE IF ~Permits(policy[i].permissions, request.permissions) THEN Refused("permissions")
            ELSE Granted(i, {t \in Range(policy[i].targets) : t.name \in asked},
                         request.permissions)
    /\ step' = "done"
    /\ UNCHANGED <<policy, claims, request, left>>

\* The answer stands until the invocation is over.
Done == step = "done" /\ UNCHANGED vars

Next == Retain \/ GrantOwn \/ GrantRequested \/ Done

Spec == Init /\ [][Next]_vars

-------------------------------------------------------------------------------
\* Properties

\* The types of the variables the steps change.
TypeOK ==
    /\ step \in Range(Criteria) \cup {"target", "done"}
    /\ left \subseteq DOMAIN policy
    /\ outcome.kind \in {"pending", "refused", "granted"}
    /\ (outcome = Pending) <=> (step # "done")

Matches(rule) == \A c \in Range(Criteria) : Passes(rule, c)
Matching == {i \in DOMAIN policy : Matches(policy[i])}

\* Criterion by criterion the code finds the first rule that matches as a whole: a
\* token is never granted on pieces of two rules, and never refused for its identity
\* while some rule matches it.
FirstMatchDecides ==
    /\ outcome.kind = "granted" =>
         outcome.rule \in Matching /\ \A j \in Matching : outcome.rule <= j
    /\ outcome.kind = "refused" =>
         (outcome.why \in Range(Criteria) <=> Matching = {})

\* What is granted lies within the rule and is what was asked for, repository by
\* repository; an explicit target always takes an explicit request (README).
GrantIsExact ==
    outcome.kind = "granted" =>
        LET rule == policy[outcome.rule] IN
        /\ outcome.targets \subseteq Range(rule.targets)
        /\ Permits(rule.permissions, outcome.permissions)
        /\ IF request = NoRequest
           THEN rule.kind = "own" /\ outcome.targets = {rule.repository}
           ELSE /\ outcome.permissions = request.permissions
                /\ {t.name : t \in outcome.targets} = Range(request.repositories)
                /\ Cardinality(outcome.targets) = Len(request.repositories)

\* A grant by the pull-request pattern is a grant to a pull-request run: acceptance
\* and decision together keep the wildcard from other events (README).  So it is for
\* files that write the pattern without a blank in front; config.rs:615 compares the
\* ref as it is written, and with the blank the pattern is accepted for any event:
\* PatternTakesPullsOnly is violated by run padded_pattern.
PullGrantsArePulls ==
    outcome.kind = "granted" /\ policy[outcome.rule].git_ref = PULL_PATTERN =>
        claims.ref \in PullRefs /\ claims.event = "pull_request"

DerivedPolicies == {FromHosted(file) : file \in {f \in Files : f.version = 2}}

\* Under a version 2 policy the subject of a granted token names the very environment
\* the token runs in, or, without one, its very ref: the derived subject and the
\* separate claims cannot disagree.
SubjectIsBound ==
    policy \in DerivedPolicies /\ outcome.kind = "granted" =>
        IF policy[outcome.rule].environment = None
        THEN claims.subject.context = "ref" /\ claims.subject.value = claims.ref
        ELSE claims.subject.context = "environment" /\ claims.subject.value = claims.environment

\* What acceptance leaves of shadowing.  Two rules of an accepted policy that match one
\* token differ in an environment that one leaves open, in a ref that one gives by the
\* pattern, or in a reusable workflow that one leaves open and the other names as the
\* calling workflow itself.
OpenlyDifferent(r, s) ==
    \/ r.environment # s.environment /\ None \in {r.environment, s.environment}
    \/ r.git_ref # s.git_ref /\ PULL_PATTERN \in {r.git_ref, s.git_ref}
    \/ r.job_workflow # s.job_workflow /\ {r.job_workflow, s.job_workflow} = {None, r.workflow}

ShadowsAreOpen ==
    \A i, j \in Matching : i # j => OpenlyDifferent(policy[i], policy[j])

\* README: "overlapping identity rules are rejected so a later target or permission
\* grant cannot be silently shadowed": no token matches two rules.
NoShadowing == Cardinality(Matching) <= 1

\* README: the pattern refs/pull/*/merge "is valid only with on: ["pull_request"]".
PatternTakesPullsOnly ==
    \A i \in DOMAIN policy :
        policy[i].git_ref = PULL_PATTERN => Range(policy[i].events) = {"pull_request"}

-------------------------------------------------------------------------------
\* The inductive invariant of the proofs

\* The criteria before a step; target and done come after all of them.
Before(s) == {Criteria[i] : i \in {k \in DOMAIN Criteria : \A j \in 1..k : Criteria[j] # s}}

\* The list holds the rules that pass every criterion looked at so far, and is never
\* empty when the target is looked at.
Narrowed ==
    /\ step # "done" =>
         left = {i \in DOMAIN policy : \A c \in Before(step) : Passes(policy[i], c)}
    /\ step = "target" => left # {}

\* The narrowing is one conjunction, taken piece by piece.
AuthInv == TypeOK /\ DOMAIN policy \subseteq Nat /\ Narrowed /\ FirstMatchDecides

\* What acceptance leaves of a rule: levels, one repository, targets of different names.
RuleIsSound(rule) ==
    /\ rule.permissions \in [Permission -> 0..3]
    /\ rule.repository = [name |-> rule.repository.name, id |-> rule.repository.id]
    /\ rule.kind = "own" => rule.targets = <<rule.repository>>
    /\ \A i, j \in DOMAIN rule.targets : rule.targets[i].name = rule.targets[j].name => i = j

\* The policy and the call stay what they were accepted as.
PolicyIsSound ==
    /\ \A i \in DOMAIN policy : RuleIsSound(policy[i])
    /\ \A i, j \in DOMAIN policy : j < i => ~Overlap(policy[j], policy[i])
    /\ \E call \in Calls : claims = call.claims /\ request = call.request
===============================================================================
