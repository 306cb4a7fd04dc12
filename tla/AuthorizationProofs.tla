-------------------------- MODULE AuthorizationProofs --------------------------
(***************************************************************************)
(* Proofs about Authorization, for any policy files, claims and requests.  *)
(***************************************************************************)
EXTENDS Authorization, FiniteSetTheorems, WellFoundedInduction, TLAPS

-------------------------------------------------------------------------------
\* The list of criteria

\* The seven criteria, by position.
LEMMA CriteriaAre ==
    /\ DOMAIN Criteria = 1..7 /\ Len(Criteria) = 7
    /\ Criteria[1] = "subject" /\ Criteria[2] = "ref" /\ Criteria[3] = "environment"
    /\ Criteria[4] = "repository" /\ Criteria[5] = "repository_id"
    /\ Criteria[6] = "event" /\ Criteria[7] = "workflow"
  BY DEF Criteria

LEMMA CriteriaDiffer ==
    /\ \A i, j \in 1..7 : Criteria[i] = Criteria[j] => i = j
    /\ \A i \in 1..7 : Criteria[i] \notin {"target", "done"}
<1>1. \A i \in 1..7 : i = 1 \/ i = 2 \/ i = 3 \/ i = 4 \/ i = 5 \/ i = 6 \/ i = 7
  OBVIOUS
<1> QED  BY <1>1, CriteriaAre

\* A step adds its criterion to those looked at, and leads to the next one or to the
\* target.
LEMMA OneMore ==
    ASSUME NEW c \in Range(Criteria)
    PROVE  /\ After(c) \in Range(Criteria) \cup {"target"}
           /\ Before(After(c)) = Before(c) \cup {c}
<1>1. PICK i \in 1..7 : Criteria[i] = c
  BY CriteriaAre DEF Range
<1>2. (CHOOSE k \in DOMAIN Criteria : Criteria[k] = c) = i
  BY <1>1, CriteriaAre, CriteriaDiffer
<1>3. After(c) = IF i = 7 THEN "target" ELSE Criteria[i + 1]
  <2> DEFINE at == CHOOSE k \in DOMAIN Criteria : Criteria[k] = c
  <2>1. After(c) = IF at = Len(Criteria) THEN "target" ELSE Criteria[at + 1]
    BY DEF After
  <2> HIDE DEF at
  <2>2. at = i
    BY <1>2 DEF at
  <2> QED  BY <2>1, <2>2, CriteriaAre
<1>4. \A k \in 1..7 : (\A j \in 1..k : Criteria[j] # c) <=> k < i
  BY <1>1, CriteriaDiffer
<1>5. \A k \in 1..7 : (\A j \in 1..k : Criteria[j] # After(c)) <=> k <= i
  <2>1. CASE i = 7
    BY <1>3, <2>1, CriteriaDiffer
  <2>2. CASE i # 7
    <3>1. i + 1 \in 1..7 /\ After(c) = Criteria[i + 1]
      BY <1>3, <2>2
    <3> QED  BY <3>1, CriteriaDiffer
  <2> QED  BY <2>1, <2>2
<1>6. Before(c) = {Criteria[k] : k \in {k \in 1..7 : k < i}}
  BY <1>4, CriteriaAre DEF Before
<1>7. Before(After(c)) = {Criteria[k] : k \in {k \in 1..7 : k <= i}}
  BY <1>5, CriteriaAre DEF Before
<1>8. Before(After(c)) = Before(c) \cup {c}
  <2>1. \A k \in 1..7 : k <= i <=> k < i \/ k = i
    OBVIOUS
  <2> QED  BY <1>1, <1>6, <1>7, <2>1
<1>9. After(c) \in Range(Criteria) \cup {"target"}
  BY <1>3, CriteriaAre DEF Range
<1> QED  BY <1>8, <1>9

LEMMA Ends ==
    /\ Before(Criteria[1]) = {}
    /\ Before("target") = Range(Criteria)
<1>1. \A k \in 1..7 : ~ \A j \in 1..k : Criteria[j] # Criteria[1]
  BY CriteriaAre
<1>2. \A k \in 1..7 : \A j \in 1..k : Criteria[j] # "target"
  BY CriteriaDiffer
<1> QED  BY <1>1, <1>2, CriteriaAre DEF Before, Range

\* A list that is not empty has a first rule.
LEMMA FirstIsFirst ==
    ASSUME NEW S \in SUBSET Nat, S # {}
    PROVE  First(S) \in S /\ \A j \in S : First(S) <= j
<1>1. PICK i \in S : \A j \in S : ~(<<j, i>> \in OpToRel(<, Nat))
  BY NatLessThanWellFounded, WFMin
<1>2. \A j \in S : i <= j
  <2>1. ASSUME NEW j \in S  PROVE ~(j < i)
    BY <1>1 DEF OpToRel
  <2> QED  BY <2>1
<1> QED  BY <1>2 DEF First

-------------------------------------------------------------------------------
\* Acceptance

\* A rule of an accepted policy is a rule of a file, with the ref trimmed.
LEMMA AcceptedRules ==
    ASSUME NEW written, Accept(written) # Rejected
    PROVE  /\ DOMAIN Accept(written) = DOMAIN written
           /\ \A i \in DOMAIN written :
                ValidRule(written[i]) /\ Accept(written)[i] = Parsed(written[i])
  BY DEF Accept

LEMMA PolicyIsNumbered == Init => DOMAIN policy \subseteq Nat
<1> SUFFICES ASSUME Init  PROVE DOMAIN policy \subseteq Nat
  OBVIOUS
<1>1. PICK file \in Files : policy = FromHosted(file)
  BY DEF Init
<1>2. CASE policy = Accept(file.rules)
  BY <1>2, AcceptedRules, FilesAreParsed DEF Init
<1>3. CASE policy = IntoPolicy(file)
  <2>1. policy = Accept([i \in DOMAIN file.rules |-> Converted(file, file.rules[i])])
    BY <1>3 DEF Init, IntoPolicy
  <2> QED  BY <2>1, AcceptedRules, FilesAreParsed DEF Init
<1>4. policy # Rejected
  BY DEF Init
<1> QED  BY <1>1, <1>2, <1>3, <1>4 DEF FromHosted

-------------------------------------------------------------------------------
\* The inductive invariant

LEMMA AuthInvInit == Init => AuthInv
<1> SUFFICES ASSUME Init  PROVE AuthInv
  OBVIOUS
<1>1. step = Criteria[1] /\ step \in Range(Criteria) /\ step \notin {"target", "done"}
  BY CriteriaAre, CriteriaDiffer DEF Init, Range
<1> QED
  BY <1>1, Ends, PolicyIsNumbered DEF Init, AuthInv, TypeOK, Narrowed, FirstMatchDecides, Pending

\* The rules that match depend on the policy and the claims alone.
LEMMA MatchingStays ==
    ASSUME UNCHANGED <<policy, claims>>
    PROVE  /\ \A i \in DOMAIN policy : \A c \in Range(Criteria) :
                Passes(policy[i], c)' <=> Passes(policy[i], c)
           /\ Matching' = Matching
<1>1. \A i \in DOMAIN policy : \A c \in Range(Criteria) :
        Passes(policy[i], c)' <=> Passes(policy[i], c)
  BY DEF Passes, WorkflowPasses, WorkflowRef
<1> QED  BY <1>1 DEF Matching, Matches

LEMMA BeforeAreCriteria == ASSUME NEW s PROVE Before(s) \subseteq Range(Criteria)
  BY DEF Before, Range

LEMMA AuthInvNext == AuthInv /\ [Next]_vars => AuthInv'
<1> SUFFICES ASSUME AuthInv, [Next]_vars
             PROVE  AuthInv'
  OBVIOUS
<1> USE DEF AuthInv
<1>1. CASE Retain
  <2> USE <1>1 DEF Retain
  <2>1. step \in Range(Criteria) /\ step \notin {"target", "done"}
    BY CriteriaAre, CriteriaDiffer DEF Range
  <2>2. left' = {i \in DOMAIN policy : \A c \in Before(step) \cup {step} : Passes(policy[i], c)}
    BY <2>1 DEF Narrowed
  <2>3. CASE left' = {}
    <3>1. Before(step) \cup {step} \subseteq Range(Criteria)
      BY <2>1, CriteriaAre DEF Before, Range
    <3>2. Matching = {}
      BY <2>2, <2>3, <3>1 DEF Matching, Matches
    <3>3. Matching' = {}
      BY <3>2, MatchingStays
    <3> QED
      BY <2>1, <2>3, <3>3 DEF TypeOK, Narrowed, FirstMatchDecides, Refused, Pending
  <2>4. CASE left' # {}
    <3>1. step' = After(step) /\ step' \in Range(Criteria) \cup {"target"} /\ step' # "done"
      BY <2>1, <2>4, OneMore, CriteriaAre, CriteriaDiffer DEF Range
    <3>2. left' = {i \in DOMAIN policy : \A c \in Before(step') : Passes(policy[i], c)}
      BY <2>1, <2>2, <3>1, OneMore
    <3>3. \A i \in DOMAIN policy : \A c \in Before(step') :
            Passes(policy[i], c) <=> Passes(policy[i], c)'
      BY MatchingStays, BeforeAreCriteria
    <3>4. outcome = Pending /\ outcome' = Pending
      BY <2>1, <2>4 DEF TypeOK
    <3> QED
      BY <2>1, <2>4, <3>1, <3>2, <3>3, <3>4 DEF TypeOK, Narrowed, FirstMatchDecides, Pending
  <2> QED  BY <2>3, <2>4
<1>2. CASE GrantOwn \/ GrantRequested
  <2>1. /\ step = "target" /\ step' = "done"
        /\ UNCHANGED <<policy, claims, request, left>>
        /\ \/ outcome' \in {Refused("target"), Refused("permissions")}
           \/ \E to, p : outcome' = Granted(First(left), to, p)
    BY <1>2 DEF GrantOwn, GrantRequested
  <2>2. left = Matching /\ left # {} /\ Matching' = Matching
    <3>1. left = {i \in DOMAIN policy : \A c \in Range(Criteria) : Passes(policy[i], c)}
      BY <2>1, Ends DEF Narrowed
    <3> QED  BY <2>1, <3>1, MatchingStays DEF Narrowed, Matching, Matches
  <2>3. First(left) \in Matching /\ \A j \in Matching : First(left) <= j
    BY <2>2, FirstIsFirst DEF TypeOK
  <2>4. "target" \notin Range(Criteria) /\ "permissions" \notin Range(Criteria)
    BY CriteriaAre, CriteriaDiffer DEF Range
  <2>5. FirstMatchDecides'
    BY <2>1, <2>2, <2>3, <2>4 DEF FirstMatchDecides, Refused, Granted
  <2>6. TypeOK'
    BY <2>1 DEF TypeOK, Refused, Granted, Pending
  <2> QED  BY <2>1, <2>5, <2>6 DEF Narrowed
<1>3. CASE Done \/ UNCHANGED vars
  <2>1. UNCHANGED <<policy, claims, request, step, left, outcome>>
    BY <1>3 DEF Done, vars
  <2>2. TypeOK' /\ FirstMatchDecides'
    BY <2>1, MatchingStays DEF TypeOK, FirstMatchDecides
  <2>3. Narrowed'
    BY <2>1, MatchingStays, BeforeAreCriteria DEF Narrowed
  <2> QED  BY <2>1, <2>2, <2>3
<1> QED  BY <1>1, <1>2, <1>3 DEF Next

\* The filters taken one after another are one conjunction, for every list of rules.
THEOREM AuthInvHolds == Spec => []AuthInv
  BY AuthInvInit, AuthInvNext, PTL DEF Spec

\* A token is granted what the first rule that matches as a whole says, and is refused
\* for its identity only if no rule matches.
THEOREM FirstMatch == Spec => []FirstMatchDecides
<1>1. AuthInv => FirstMatchDecides
  BY DEF AuthInv
<1> QED  BY <1>1, AuthInvHolds, PTL

-------------------------------------------------------------------------------
\* The pull-request pattern

\* Where no file writes the pattern with blanks in front, every accepted rule with the
\* pattern lists the pull_request event and nothing else.
LEMMA PatternsAreForPulls ==
    ASSUME \A w \in DOMAIN Padded : Padded[w] # PULL_PATTERN
    PROVE  Init => PatternTakesPullsOnly
<1> SUFFICES ASSUME Init  PROVE PatternTakesPullsOnly
  OBVIOUS
<1>1. ASSUME NEW rule, {"git_ref", "events"} \subseteq DOMAIN rule, ValidRule(rule),
             Parsed(rule).git_ref = PULL_PATTERN
      PROVE  Range(Parsed(rule).events) = {"pull_request"}
  <2>1. Parsed(rule).git_ref = Trim(rule.git_ref) /\ Parsed(rule).events = rule.events
    BY <1>1 DEF Parsed
  <2>2. rule.git_ref = PULL_PATTERN
    BY <1>1, <2>1 DEF Trim
  <2> QED  BY <1>1, <2>1, <2>2 DEF ValidRule, PatternIsForPulls
<1>2. ASSUME NEW written, policy = Accept(written),
             \A i \in DOMAIN written : {"git_ref", "events"} \subseteq DOMAIN written[i]
      PROVE  PatternTakesPullsOnly
  BY <1>1, <1>2, AcceptedRules DEF Init, PatternTakesPullsOnly
<1>3. PICK file \in Files : policy = FromHosted(file)
  BY DEF Init
<1>4. CASE file.version = 1 /\ policy = Accept(file.rules)
  BY <1>2, <1>4, FilesAreParsed
<1>5. CASE policy = IntoPolicy(file)
  <2> DEFINE written == [i \in DOMAIN file.rules |-> Converted(file, file.rules[i])]
  <2>1. policy = Accept(written)
    BY <1>5 DEF Init, IntoPolicy
  <2>2. \A i \in DOMAIN written : {"git_ref", "events"} \subseteq DOMAIN written[i]
    BY DEF Converted
  <2> QED  BY <1>2, <2>1, <2>2
<1> QED  BY <1>3, <1>4, <1>5 DEF FromHosted, Init

\* A rule of the pull-request pattern decides only for pull-request runs, whatever the
\* files say, if none of them writes the pattern with blanks in front.
THEOREM PatternsKeepToPulls ==
    ASSUME \A w \in DOMAIN Padded : Padded[w] # PULL_PATTERN
    PROVE  Spec => []PullGrantsArePulls
<1>1. Init => PatternTakesPullsOnly
  BY PatternsAreForPulls
<1>2. PatternTakesPullsOnly /\ [Next]_vars => PatternTakesPullsOnly'
  <2>1. [Next]_vars => policy' = policy
    BY DEF Next, Retain, GrantOwn, GrantRequested, Done, vars
  <2> QED  BY <2>1 DEF PatternTakesPullsOnly
<1>3. AuthInv /\ PatternTakesPullsOnly => PullGrantsArePulls
  <2> SUFFICES ASSUME AuthInv, PatternTakesPullsOnly, outcome.kind = "granted",
                      policy[outcome.rule].git_ref = PULL_PATTERN
               PROVE  claims.ref \in PullRefs /\ claims.event = "pull_request"
    BY DEF PullGrantsArePulls
  <2>1. outcome.rule \in DOMAIN policy /\ Matches(policy[outcome.rule])
    BY DEF AuthInv, FirstMatchDecides, Matching
  <2>2. {"ref", "event"} \subseteq Range(Criteria)
    BY CriteriaAre DEF Range
  <2>3. Passes(policy[outcome.rule], "ref") /\ Passes(policy[outcome.rule], "event")
    BY <2>1, <2>2 DEF Matches
  <2> QED  BY <2>1, <2>3 DEF Passes, RefMatches, PatternTakesPullsOnly
<1> QED  BY <1>1, <1>2, <1>3, AuthInvHolds, PTL DEF Spec

-------------------------------------------------------------------------------
\* What acceptance leaves of a rule

LEMMA SpelledRulesAreSound ==
    ASSUME NEW rule, IsPolicyRule(rule), ValidRule(rule),
           rule.permissions \in [Permission -> 0..3]
    PROVE  RuleIsSound(Parsed(rule))
<1>1. /\ Parsed(rule).permissions = rule.permissions /\ Parsed(rule).repository = rule.repository
      /\ Parsed(rule).kind = rule.kind /\ Parsed(rule).targets = rule.targets
  BY DEF Parsed, IsPolicyRule
<1>2. rule.kind = "own" => rule.targets = <<rule.repository>>
  BY DEF IsPolicyRule
<1>3. \A k, l \in DOMAIN rule.targets : rule.targets[k].name = rule.targets[l].name => k = l
  <2>1. CASE rule.kind = "many"
    BY <2>1 DEF ValidRule, Distinct, IsInjective
  <2>2. CASE rule.kind # "many"
    BY <2>2 DEF IsPolicyRule
  <2> QED  BY <2>1, <2>2
<1> QED  BY <1>1, <1>2, <1>3 DEF RuleIsSound, IsPolicyRule

LEMMA ConvertedRulesAreSound ==
    ASSUME NEW file, NEW rule, rule.permissions \in [Permission -> 0..3],
           ValidRule(Converted(file, rule))
    PROVE  RuleIsSound(Parsed(Converted(file, rule)))
<1> DEFINE new == Converted(file, rule)
<1>1. /\ new.permissions = rule.permissions
      /\ new.repository = Repository(file.repositories[rule.caller])
      /\ new.kind = KindOf(rule) /\ new.targets = TargetsOf(file, rule)
      /\ "git_ref" \in DOMAIN new
  BY DEF Converted
<1>2. /\ Parsed(new).permissions = new.permissions /\ Parsed(new).repository = new.repository
      /\ Parsed(new).kind = new.kind /\ Parsed(new).targets = new.targets
  BY DEF Converted, Parsed
<1>3. new.kind = "own" => new.targets = <<new.repository>>
  BY <1>1 DEF TargetsOf
<1>4. \A k, l \in DOMAIN new.targets : new.targets[k].name = new.targets[l].name => k = l
  <2>1. CASE new.kind = "many"
    BY <2>1 DEF ValidRule, Distinct, IsInjective
  <2>2. CASE new.kind # "many"
    <3>1. PICK t : new.targets = <<t>>
      BY <1>1, <2>2 DEF TargetsOf
    <3> QED  BY <3>1
  <2> QED  BY <2>1, <2>2
<1>5. new.repository = [name |-> new.repository.name, id |-> new.repository.id]
  BY <1>1 DEF Repository
<1> QED  BY <1>1, <1>2, <1>3, <1>4, <1>5 DEF RuleIsSound

\* No two rules of an accepted policy overlap.
LEMMA AcceptedDiffer ==
    ASSUME NEW written, Accept(written) # Rejected
    PROVE  \A i, j \in DOMAIN Accept(written) : j < i => ~Overlap(Accept(written)[j], Accept(written)[i])
  BY DEF Accept

LEMMA PolicyIsSoundInit == Init => PolicyIsSound
<1> SUFFICES ASSUME Init  PROVE PolicyIsSound
  OBVIOUS
<1>1. PICK file \in Files : policy = FromHosted(file)
  BY DEF Init
<1>2. \/ file.version = 1 /\ policy = Accept(file.rules)
      \/ policy = Accept([i \in DOMAIN file.rules |-> Converted(file, file.rules[i])])
  BY <1>1 DEF FromHosted, IntoPolicy, Init
<1>3. \A i, j \in DOMAIN policy : j < i => ~Overlap(policy[j], policy[i])
  BY <1>2, AcceptedDiffer DEF Init
<1>4. \A i \in DOMAIN policy : RuleIsSound(policy[i])
  <2>1. CASE file.version = 1 /\ policy = Accept(file.rules)
    BY <2>1, AcceptedRules, SpelledRulesAreSound, RulesAreParsed DEF Init
  <2>2. CASE policy = Accept([i \in DOMAIN file.rules |-> Converted(file, file.rules[i])])
    <3> DEFINE written == [i \in DOMAIN file.rules |-> Converted(file, file.rules[i])]
    <3>1. /\ DOMAIN policy = DOMAIN written
          /\ \A i \in DOMAIN written : ValidRule(written[i]) /\ policy[i] = Parsed(written[i])
      BY <2>2, AcceptedRules DEF Init
    <3>2. \A i \in DOMAIN file.rules : written[i] = Converted(file, file.rules[i])
      OBVIOUS
    <3>3. DOMAIN written = DOMAIN file.rules
      OBVIOUS
    <3> HIDE DEF written
    <3> QED  BY <3>1, <3>2, <3>3, ConvertedRulesAreSound, RulesAreParsed
  <2> QED  BY <1>2, <2>1, <2>2
<1>5. \E call \in Calls : claims = call.claims /\ request = call.request
  BY DEF Init
<1> QED  BY <1>3, <1>4, <1>5 DEF PolicyIsSound

LEMMA PolicyStays == [Next]_vars => UNCHANGED <<policy, claims, request>>
  BY DEF Next, Retain, GrantOwn, GrantRequested, Done, vars

LEMMA PolicyIsSoundHolds == Spec => []PolicyIsSound
<1>1. PolicyIsSound /\ [Next]_vars => PolicyIsSound'
  BY PolicyStays DEF PolicyIsSound
<1> QED  BY <1>1, PolicyIsSoundInit, PTL DEF Spec

-------------------------------------------------------------------------------
\* Shadows

\* What a rule that matches says of the claims.
LEMMA MatchMeans ==
    ASSUME NEW rule, Matches(rule)
    PROVE  /\ claims.subject = rule.subject
           /\ RefMatches(rule.git_ref, claims.ref)
           /\ rule.environment \in {None, claims.environment}
           /\ claims.repository = rule.repository.name
           /\ claims.repository_id = rule.repository.id
           /\ claims.event \in Range(rule.events)
           /\ WorkflowPasses(rule)
<1>1. \A c \in {"subject", "ref", "environment", "repository", "repository_id", "event",
                "workflow"} : Passes(rule, c)
  <2>1. {"subject", "ref", "environment", "repository", "repository_id", "event", "workflow"}
          \subseteq Range(Criteria)
    BY CriteriaAre DEF Range
  <2> QED  BY <2>1 DEF Matches
<1> QED  BY <1>1 DEF Passes

\* Two rules of an accepted policy that match one token differ in what one of them
\* leaves open, for any files and tokens (Policy::try_from against verify_oidc_claims).
\* None is not the reference of a workflow.
THEOREM ShadowsStayOpen ==
    ASSUME \A n, p, f : None # [repository |-> n, path |-> p, ref |-> f]
    PROVE  Spec => []ShadowsAreOpen
<1>1. AuthInv /\ PolicyIsSound => ShadowsAreOpen
  <2> SUFFICES ASSUME AuthInv, PolicyIsSound, NEW i \in Matching, NEW j \in Matching, i # j
               PROVE  OpenlyDifferent(policy[i], policy[j])
    BY DEF ShadowsAreOpen
  <2> DEFINE r == policy[i]
             s == policy[j]
  <2>1. i \in DOMAIN policy /\ j \in DOMAIN policy /\ i \in Nat /\ j \in Nat
    BY DEF Matching, AuthInv
  <2>2. ~Overlap(r, s) \/ ~Overlap(s, r)
    BY <2>1 DEF PolicyIsSound
  <2>3. Matches(r) /\ Matches(s)
    BY DEF Matching
  <2>4. RuleIsSound(r) /\ RuleIsSound(s)
    BY <2>1 DEF PolicyIsSound
  <2> HIDE DEF r, s
  <2>5. r.subject = s.subject /\ r.repository = s.repository
    BY <2>3, <2>4, MatchMeans DEF RuleIsSound
  <2>6. Range(r.events) \cap Range(s.events) # {}
    BY <2>3, MatchMeans
  <2>7. WorkflowPasses(r) /\ WorkflowPasses(s)
    BY <2>3, MatchMeans
  <2>8. /\ r.workflow = s.workflow
        /\ \A p, q : WorkflowRef(r, p) = WorkflowRef(s, q) => p = q
        /\ \A p : None # WorkflowRef(r, p) /\ None # WorkflowRef(s, p)
    BY <2>7 DEF WorkflowPasses, WorkflowRef
  <2>9. r.environment # s.environment => OpenlyDifferent(r, s)
    BY <2>3, MatchMeans DEF OpenlyDifferent
  <2>10. r.git_ref # s.git_ref => OpenlyDifferent(r, s)
    BY <2>3, MatchMeans DEF RefMatches, OpenlyDifferent
  <2>11. r.job_workflow # s.job_workflow => OpenlyDifferent(r, s)
    BY <2>7, <2>8 DEF WorkflowPasses, OpenlyDifferent
  <2>12. \/ r.environment # s.environment \/ r.git_ref # s.git_ref
         \/ r.job_workflow # s.job_workflow
    BY <2>2, <2>5, <2>6, <2>8 DEF Overlap
  <2> QED  BY <2>9, <2>10, <2>11, <2>12 DEF r, s
<1> QED  BY <1>1, AuthInvHolds, PolicyIsSoundHolds, PTL

-------------------------------------------------------------------------------
\* Subjects

\* A rule of version 2 binds the subject of a token to its environment, or to its ref, as
\* long as no subject has a blank before its ref or the pattern for one (RawHostedPolicyV2).
THEOREM SubjectsAreBound ==
    ASSUME \A call \in Calls :
             call.claims.subject.value \notin DOMAIN Padded \cup {PULL_PATTERN}
    PROVE  Spec => []SubjectIsBound
<1>1. AuthInv /\ PolicyIsSound => SubjectIsBound
  <2> SUFFICES ASSUME AuthInv, PolicyIsSound, policy \in DerivedPolicies,
                      outcome.kind = "granted"
               PROVE  IF policy[outcome.rule].environment = None
                      THEN claims.subject.context = "ref" /\ claims.subject.value = claims.ref
                      ELSE /\ claims.subject.context = "environment"
                           /\ claims.subject.value = claims.environment
    BY DEF SubjectIsBound
  <2> DEFINE k == outcome.rule
  <2>1. k \in DOMAIN policy /\ Matches(policy[k])
    BY DEF AuthInv, FirstMatchDecides, Matching
  <2>2. PICK file \in Files : file.version = 2 /\ policy = FromHosted(file)
    BY DEF DerivedPolicies
  <2>3. policy = Accept([i \in DOMAIN file.rules |-> Converted(file, file.rules[i])])
        /\ policy # Rejected
    BY <2>1, <2>2 DEF FromHosted, IntoPolicy, Rejected
  <2>4. PICK rule : policy[k] = Parsed(Converted(file, rule))
    BY <2>1, <2>3, AcceptedRules
  <2>5. /\ policy[k].subject = DerivedSubject(file.repositories[rule.caller], rule)
        /\ policy[k].environment = rule.environment
        /\ policy[k].git_ref = Trim(rule.caller_ref)
    BY <2>4 DEF Parsed, Converted
  <2>6. /\ claims.subject = DerivedSubject(file.repositories[rule.caller], rule)
        /\ rule.environment \in {None, claims.environment}
        /\ RefMatches(Trim(rule.caller_ref), claims.ref)
    BY <2>1, <2>5, MatchMeans
  <2>7. claims.subject.value \notin DOMAIN Padded \cup {PULL_PATTERN}
    BY DEF PolicyIsSound
  <2>8. CASE rule.environment = None
    <3>1. claims.subject.context = "ref" /\ claims.subject.value = rule.caller_ref
      BY <2>6, <2>8 DEF DerivedSubject
    <3>2. claims.ref = rule.caller_ref
      BY <2>6, <2>7, <3>1 DEF Trim, RefMatches
    <3> QED  BY <2>5, <2>8, <3>1, <3>2
  <2>9. CASE rule.environment # None
    BY <2>5, <2>6, <2>9 DEF DerivedSubject
  <2> QED  BY <2>8, <2>9
<1> QED  BY <1>1, AuthInvHolds, PolicyIsSoundHolds, PTL

-------------------------------------------------------------------------------
\* Grants

\* Targets of different names, chosen by a list of different names that are all theirs,
\* are as many as the list is long.
LEMMA ChosenByName ==
    ASSUME NEW targets, NEW asked,
           Len(asked) \in Nat, DOMAIN asked = 1..Len(asked), IsInjective(asked),
           \A k, l \in DOMAIN targets : targets[k].name = targets[l].name => k = l,
           \A k \in DOMAIN asked : \E l \in DOMAIN targets : targets[l].name = asked[k]
    PROVE  LET chosen == {t \in Range(targets) : t.name \in Range(asked)} IN
           /\ {t.name : t \in chosen} = Range(asked)
           /\ Cardinality(chosen) = Len(asked)
<1> DEFINE chosen == {t \in Range(targets) : t.name \in Range(asked)}
           f == [k \in 1..Len(asked) |-> CHOOSE t \in Range(targets) : t.name = asked[k]]
<1>1. \A t, u \in Range(targets) : t.name = u.name => t = u
  BY DEF Range
<1>2. \A k \in 1..Len(asked) : f[k] \in Range(targets) /\ f[k].name = asked[k]
  <2>1. \A k \in 1..Len(asked) : \E t \in Range(targets) : t.name = asked[k]
    BY DEF Range
  <2> QED  BY <2>1
<1>3. \A k \in 1..Len(asked) : f[k] \in chosen
  BY <1>2 DEF Range
<1>4. \A t \in chosen : \E k \in 1..Len(asked) : f[k] = t
  <2>1. ASSUME NEW t \in chosen  PROVE \E k \in 1..Len(asked) : f[k] = t
    <3>1. PICK k \in 1..Len(asked) : t.name = asked[k]
      BY DEF Range
    <3> QED  BY <1>1, <1>2, <3>1
  <2> QED  BY <2>1
<1>5. \A k, l \in 1..Len(asked) : f[k] = f[l] => k = l
  BY <1>2 DEF IsInjective
<1>6. f \in [1..Len(asked) -> chosen]
  BY <1>3
<1> HIDE DEF f
<1>7. {t.name : t \in chosen} = Range(asked)
  <2>1. \A n \in Range(asked) : \E t \in chosen : t.name = n
    <3>1. ASSUME NEW n \in Range(asked)  PROVE \E t \in chosen : t.name = n
      <4>1. PICK k \in 1..Len(asked) : n = asked[k]
        BY DEF Range
      <4> QED  BY <1>2, <1>3, <4>1
    <3> QED  BY <3>1
  <2> QED  BY <2>1
<1> HIDE DEF chosen
<1>8. ExistsBijection(1..Len(asked), chosen)
  BY <1>4, <1>5, <1>6 DEF ExistsBijection, Bijection, Injection, Surjection, IsInjective
<1>9. Cardinality(chosen) = Len(asked)
  BY <1>8, FS_CountingElements
<1> QED  BY <1>7, <1>9 DEF chosen

LEMMA PermitsItself == ASSUME NEW p \in [Permission -> 0..3] PROVE Permits(p, p)
<1>1. \A x \in Permission : p[x] \in Int
  OBVIOUS
<1> QED  BY <1>1 DEF Permits

\* What is granted is what was asked for, repository by repository, and lies within the
\* rule that decides; without a request it is the rule's own repository, and only of a
\* rule without explicit targets (verify_oidc_claims).
THEOREM GrantsAreExact == Spec => []GrantIsExact
<1>1. Init => GrantIsExact
  BY DEF Init, Pending, GrantIsExact
<1>2. ASSUME AuthInv, PolicyIsSound, GrantIsExact, [Next]_vars  PROVE GrantIsExact'
  <2>1. UNCHANGED <<policy, claims, request>>
    BY <1>2, PolicyStays
  <2>2. CASE Retain
    <3>1. step # "done"
      BY <2>2, CriteriaAre, CriteriaDiffer DEF Retain, Range
    <3> QED  BY <1>2, <2>2, <3>1 DEF Retain, AuthInv, TypeOK, Pending, Refused, GrantIsExact
  <2>3. ASSUME step = "target"
        PROVE  First(left) \in DOMAIN policy /\ RuleIsSound(policy[First(left)])
    <3>1. left # {} /\ left \subseteq DOMAIN policy /\ left \in SUBSET Nat
      BY <1>2, <2>3 DEF AuthInv, TypeOK, Narrowed
    <3> QED  BY <1>2, <3>1, FirstIsFirst DEF PolicyIsSound
  <2>4. CASE GrantOwn
    <3> DEFINE rule == policy[First(left)]
    <3>1. RuleIsSound(rule)
      BY <2>3, <2>4 DEF GrantOwn
    <3>2. /\ request = NoRequest
          /\ outcome' = IF rule.kind = "own" THEN Granted(First(left), Range(rule.targets), rule.permissions)
                                             ELSE Refused("target")
      BY <2>4 DEF GrantOwn
    <3>3. CASE rule.kind # "own"
      BY <3>2, <3>3 DEF Refused, GrantIsExact
    <3>4. CASE rule.kind = "own"
      <4>1. Range(rule.targets) = {rule.repository}
        BY <3>1, <3>4 DEF RuleIsSound, Range
      <4>2. Permits(rule.permissions, rule.permissions)
        BY <3>1, PermitsItself DEF RuleIsSound
      <4> QED  BY <2>1, <3>2, <3>4, <4>1, <4>2 DEF Granted, GrantIsExact, Permits
    <3> QED  BY <3>3, <3>4
  <2>5. CASE GrantRequested
    <3> DEFINE rule == policy[First(left)]
               chosen == {t \in Range(rule.targets) : t.name \in Range(request.repositories)}
    <3>1. RuleIsSound(rule)
      BY <2>3, <2>5 DEF GrantRequested
    <3>2. /\ request # NoRequest
          /\ \/ outcome' \in {Refused("target"), Refused("permissions")}
             \/ /\ outcome' = Granted(First(left), chosen, request.permissions)
                /\ TargetAllowed(rule) /\ Permits(rule.permissions, request.permissions)
      BY <2>5 DEF GrantRequested
    <3>3. CASE outcome' \in {Refused("target"), Refused("permissions")}
      BY <3>3 DEF Refused, GrantIsExact
    <3>4. CASE /\ outcome' = Granted(First(left), chosen, request.permissions)
               /\ TargetAllowed(rule) /\ Permits(rule.permissions, request.permissions)
      <4>1. /\ Len(request.repositories) \in Nat
            /\ DOMAIN request.repositories = 1..Len(request.repositories)
            /\ IsInjective(request.repositories)
        BY <1>2, RequestsAreParsed DEF PolicyIsSound
      <4>2. \A k \in DOMAIN request.repositories :
              \E l \in DOMAIN rule.targets : rule.targets[l].name = request.repositories[k]
        BY <3>4 DEF TargetAllowed, Named
      <4>3. /\ {t.name : t \in chosen} = Range(request.repositories)
            /\ Cardinality(chosen) = Len(request.repositories)
        BY <3>1, <4>1, <4>2, ChosenByName DEF RuleIsSound
      <4> QED  BY <2>1, <3>2, <3>4, <4>3 DEF Granted, GrantIsExact, Permits
    <3> QED  BY <3>2, <3>3, <3>4
  <2>6. CASE Done \/ UNCHANGED vars
    BY <1>2, <2>6 DEF Done, vars, GrantIsExact, Permits
  <2> QED  BY <1>2, <2>2, <2>4, <2>5, <2>6 DEF Next
<1> QED  BY <1>1, <1>2, AuthInvHolds, PolicyIsSoundHolds, PTL DEF Spec
===============================================================================
