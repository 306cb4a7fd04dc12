------------------------------ MODULE MintProofs ------------------------------
(***************************************************************************)
(* Proofs about InstallationMint and AppCalls, for any repositories,       *)
(* names, installations, target lists and replies.                         *)
(***************************************************************************)
EXTENDS AppCalls, FiniteSetTheorems, TLAPS

-------------------------------------------------------------------------------
\* The constants

LEMMA ConstantFacts == None \notin Installation /\ GITHUB_REQUEST_MAX_ATTEMPTS \in Nat \ {0}
  BY MintConstants

\* A list of targets is a sequence with an entry.
LEMMA ListsAreSequences ==
    ASSUME NEW list \in TargetLists
    PROVE  /\ list \in Seq([name : Name, id : Repo])
           /\ Len(list) \in Nat \ {0}
           /\ DOMAIN list = 1..Len(list)
<1>1. list \in Seq([name : Name, id : Repo]) /\ list # <<>>
  BY MintConstants
<1> QED  BY <1>1

-------------------------------------------------------------------------------
\* The comparison of scopes

\* A list of distinct targets names as many repositories as it has entries.
LEMMA TargetsAreCounted ==
    ASSUME NEW list \in TargetLists, Distinct(list)
    PROVE  IsFiniteSet(ToSet(list)) /\ Cardinality(ToSet(list)) = Len(list)
<1>1. list \in Seq([name : Name, id : Repo]) /\ Len(list) \in Nat
  BY ListsAreSequences
<1>2. list \in Bijection(1..Len(list), ToSet(list))
  <2>1. DOMAIN list = 1..Len(list)
    BY <1>1
  <2>2. \A i, j \in 1..Len(list) : list[i] = list[j] => i = j
    BY <2>1 DEF Distinct, IsInjective
  <2>3. list \in [1..Len(list) -> ToSet(list)]
    BY <1>1, <2>1 DEF ToSet
  <2> QED  BY <2>1, <2>2, <2>3 DEF ToSet, Bijection, Injection, Surjection, IsInjective
<1>3. ExistsBijection(1..Len(list), ToSet(list))
  BY <1>2 DEF ExistsBijection
<1> QED  BY <1>1, <1>3, FS_CountingElements, FS_NatBijection

\* The code compares the number of repositories and looks for every target among them:
\* that is equality of the two sets.
LEMMA ComparisonIsEquality ==
    ASSUME targets \in TargetLists, Distinct(targets), IsFiniteSet(token.scope)
    PROVE  ScopeMatches <=> token.scope = ToSet(targets)
<1>1. IsFiniteSet(ToSet(targets)) /\ Cardinality(ToSet(targets)) = Len(targets)
  BY TargetsAreCounted
<1>2. ASSUME ScopeMatches  PROVE token.scope = ToSet(targets)
  <2>1. ToSet(targets) \in SUBSET token.scope
    BY <1>2 DEF ScopeMatches, ToSet
  <2> QED  BY <1>1, <1>2, <2>1, FS_Subset DEF ScopeMatches
<1>3. ASSUME token.scope = ToSet(targets)  PROVE ScopeMatches
  BY <1>1, <1>3 DEF ScopeMatches, ToSet
<1> QED  BY <1>2, <1>3

\* GitHub's scopes are finite sets of names and ids.
LEMMA ScopesAreFinite ==
    ASSUME nameOf \in [Repo -> Name], NEW ids \in SUBSET Repo
    PROVE  IsFiniteSet(ScopeOf(ids)) /\ ScopeOf(ids) \subseteq [name : Name, id : Repo]
<1>1. IsFiniteSet(ids)
  BY MintConstants, FS_Subset
<1> DEFINE f == [r \in ids |-> [name |-> nameOf[r], id |-> r]]
<1>2. f \in Surjection(ids, ScopeOf(ids))
  BY DEF Surjection, ScopeOf
<1>3. IsFiniteSet(ScopeOf(ids))
  BY <1>1, <1>2, FS_Surjection
<1> QED  BY <1>3 DEF ScopeOf

-------------------------------------------------------------------------------
\* The inductive invariant

LEMMA MintInvInit == Init => MintInv
<1> SUFFICES ASSUME Init  PROVE MintInv
  OBVIOUS
<1>1. Len(targets) \in Nat \ {0} /\ DOMAIN targets = 1..Len(targets)
  BY ListsAreSequences DEF Init
<1>2. pinned \in Installation \cup {None}
  BY DEF Init
<1>3. IsFiniteSet({})
  BY FS_EmptySet
<1> QED
  BY <1>1, <1>2, <1>3, ConstantFacts DEF Init, MintInv, TypeOK, WorldIsTyped,
     CallsAreBounded, AttemptsAreGets, OneExpectation, OneVerdict, NoToken

\* The GETs are counted per target.
LEMMA OneMoreGet ==
    ASSUME gets \in [DOMAIN targets -> Nat], next \in DOMAIN targets, Sent
    PROVE  /\ gets' \in [DOMAIN targets -> Nat]
           /\ \A i \in DOMAIN targets : gets'[i] = IF i = next THEN gets[i] + 1 ELSE gets[i]
  BY DEF Sent

\* During the lookups there is a next target, and no token yet.
LEMMA DuringLookup ==
    ASSUME MintInv, pc = "lookup"
    PROVE  /\ Len(targets) \in Nat \ {0}
           /\ next \in 1..Len(targets) /\ next \in DOMAIN targets
           /\ gets[next] = attempt /\ attempt \in Nat /\ attempt < GITHUB_REQUEST_MAX_ATTEMPTS
           /\ token = NoToken /\ token.inst = None /\ posts = 0 /\ answer = "none"
<1>1. Len(targets) \in Nat \ {0} /\ \A i : i \in DOMAIN targets <=> i \in 1..Len(targets)
  BY ListsAreSequences DEF MintInv, WorldIsTyped
<1>2. next \in 1..Len(targets)
  BY <1>1 DEF MintInv, TypeOK, AttemptsAreGets
<1>3. gets[next] = attempt /\ attempt \in Nat /\ attempt < GITHUB_REQUEST_MAX_ATTEMPTS
  BY <1>1, <1>2, ConstantFacts DEF MintInv, TypeOK, AttemptsAreGets
<1> QED  BY <1>1, <1>2, <1>3 DEF MintInv, OneVerdict, NoToken

LEMMA MintInvNext == MintInv /\ [Next]_vars => MintInv'
<1> SUFFICES ASSUME MintInv, [Next]_vars
             PROVE  MintInv'
  OBVIOUS
<1> USE ConstantFacts DEF MintInv, WorldIsTyped
<1>0. Len(targets) \in Nat \ {0} /\ \A i : i \in DOMAIN targets <=> i \in 1..Len(targets)
  BY ListsAreSequences
<1>1. ASSUME LookupFinds \/ LookupRefused \/ LookupRetries
      PROVE  MintInv'
  <2>1. /\ pc = "lookup" /\ Sent
        /\ UNCHANGED <<targets, pinned, nameOf, home, token, answer, posts>>
    BY <1>1 DEF LookupFinds, LookupRefused, LookupRetries, world
  <2>2. /\ next \in 1..Len(targets) /\ next \in DOMAIN targets
        /\ gets[next] = attempt /\ attempt \in Nat /\ attempt < GITHUB_REQUEST_MAX_ATTEMPTS
        /\ token = NoToken /\ token.inst = None /\ posts = 0 /\ answer = "none"
    BY <2>1, DuringLookup
  <2>3. /\ gets' \in [DOMAIN targets -> Nat]
        /\ \A i \in DOMAIN targets : gets'[i] = IF i = next THEN gets[i] + 1 ELSE gets[i]
    BY <2>1, <2>2, OneMoreGet DEF TypeOK
  <2>4. CallsAreBounded'
    <3>1. ASSUME NEW i \in DOMAIN targets
          PROVE  gets'[i] <= GITHUB_REQUEST_MAX_ATTEMPTS
      <4>1. gets[i] \in Nat /\ gets[i] <= GITHUB_REQUEST_MAX_ATTEMPTS
        BY DEF TypeOK, CallsAreBounded
      <4> QED  BY <2>2, <2>3, <3>1, <4>1
    <3> QED  BY <2>1, <2>2, <3>1 DEF CallsAreBounded
  <2>5. CASE LookupFinds
    <3>1. PICK found \in Installation :
            /\ seen' = [seen EXCEPT ![next] = found]
            /\ IF Agrees(found)
               THEN /\ installation_id' = found
                    /\ attempt' = 0
                    /\ next' = next + 1
                    /\ pc' = IF next = Len(targets) THEN "mint" ELSE "lookup"
                    /\ result' = result
               ELSE Fail("target_installation_not_allowed")
      <4>1. FoundAt(targets[next].name) \in Installation \cup {None}
        BY DEF FoundAt
      <4> QED  BY <2>5, <4>1 DEF LookupFinds
    <3>2. /\ seen' \in [DOMAIN targets -> Installation \cup {None}]
          /\ \A i \in DOMAIN targets : seen'[i] = IF i = next THEN found ELSE seen[i]
      BY <3>1, <2>2 DEF TypeOK
    <3>3. CASE Agrees(found)
      <4> USE <3>1, <3>3
      <4>1. TypeOK'
        BY <1>0, <2>1, <2>2, <2>3, <3>2 DEF TypeOK
      <4>2. AttemptsAreGets'
        <5>1. ASSUME NEW i \in DOMAIN targets, i >= next + 1  PROVE gets'[i] = 0
          <6>1. i \in 1..Len(targets) /\ i >= next /\ i # next
            BY <1>0, <2>2, <5>1
          <6> QED  BY <2>1, <2>3, <5>1, <6>1 DEF AttemptsAreGets
        <5> QED  BY <1>0, <2>1, <2>2, <5>1 DEF AttemptsAreGets
      <4>3. OneExpectation'
        <5>1. ASSUME NEW i \in DOMAIN targets, i < next + 1  PROVE seen'[i] = found
          <6>1. CASE i = next
            BY <3>2, <6>1
          <6>2. CASE i # next
            <7>1. i < next /\ next # 1
              BY <1>0, <2>2, <5>1, <6>2
            <7> QED  BY <3>2, <6>2, <7>1 DEF OneExpectation, Agrees
          <6> QED  BY <6>1, <6>2
        <5> QED  BY <2>1, <2>2, <5>1 DEF OneExpectation, Agrees
      <4>4. OneVerdict'
        BY <2>1, <2>2 DEF OneVerdict
      <4> QED  BY <2>1, <2>4, <4>1, <4>2, <4>3, <4>4
    <3>4. CASE ~Agrees(found)
      <4> USE <3>1, <3>4 DEF Fail
      <4>1. TypeOK'
        BY <2>1, <2>3, <3>2 DEF TypeOK
      <4>2. OneExpectation' /\ AttemptsAreGets'
        BY <1>0, <2>1, <2>2, <3>2 DEF OneExpectation, AttemptsAreGets
      <4>3. OneVerdict'
        BY <2>1, <2>2 DEF OneVerdict, Accepted
      <4> QED  BY <2>1, <2>4, <4>1, <4>2, <4>3
    <3> QED  BY <3>3, <3>4
  <2>6. CASE LookupRefused
    <3> USE <2>6 DEF LookupRefused, Fail
    <3>1. TypeOK'
      BY <2>1, <2>3 DEF TypeOK
    <3>2. OneExpectation' /\ AttemptsAreGets'
      BY <2>1, <2>2 DEF OneExpectation, AttemptsAreGets
    <3>3. OneVerdict'
      BY <2>1, <2>2 DEF OneVerdict, Accepted
    <3> QED  BY <2>1, <2>4, <3>1, <3>2, <3>3
  <2>7. CASE LookupRetries
    <3> USE <2>7 DEF LookupRetries
    <3>1. TypeOK'
      BY <2>1, <2>3 DEF TypeOK
    <3>2. AttemptsAreGets'
      BY <1>0, <2>1, <2>2, <2>3 DEF TypeOK, AttemptsAreGets
    <3>3. OneExpectation'
      BY <2>1, <2>2 DEF OneExpectation
    <3>4. OneVerdict'
      BY <2>1, <2>2 DEF OneVerdict
    <3> QED  BY <2>1, <2>4, <3>1, <3>2, <3>3, <3>4
  <2> QED  BY <1>1, <2>5, <2>6, <2>7
<1>4. CASE PostMint
  <2> USE <1>0, <1>4 DEF PostMint, world
  <2>1. IsFiniteSet(token'.scope) /\ token'.inst \in {None, installation_id}
        /\ token'.scope \subseteq [name : Name, id : Repo]
        /\ answer' \in {"created", "refused", "lost"}
        /\ (token' # NoToken => answer' \in {"created", "lost"})
    <3>1. ASSUME NEW ids \in SUBSET Covered,
                 token' = [inst |-> installation_id, scope |-> ScopeOf(ids)]
          PROVE  IsFiniteSet(token'.scope) /\ token'.inst = installation_id
                 /\ token'.scope \subseteq [name : Name, id : Repo]
      BY <3>1, ScopesAreFinite DEF Covered
    <3>2. ASSUME token' = NoToken
          PROVE  IsFiniteSet(token'.scope) /\ token'.inst = None /\ token'.scope = {}
      BY <3>2, FS_EmptySet DEF NoToken
    <3> QED  BY <3>1, <3>2
  <2>2. TypeOK' /\ WorldIsTyped'
    BY <2>1 DEF TypeOK
  <2>3. CallsAreBounded' /\ AttemptsAreGets'
    BY DEF CallsAreBounded, OneVerdict, AttemptsAreGets
  <2>4. OneExpectation'
    BY <2>1 DEF OneExpectation
  <2>5. OneVerdict'
    BY <2>1 DEF OneVerdict
  <2> QED  BY <2>2, <2>3, <2>4, <2>5
<1>5. CASE CheckScope
  <2> USE <1>0, <1>5 DEF CheckScope, Fail, world
  <2>1. TypeOK' /\ WorldIsTyped' /\ CallsAreBounded' /\ AttemptsAreGets' /\ OneExpectation'
    BY DEF TypeOK, CallsAreBounded, AttemptsAreGets, OneExpectation
  <2>2. OneVerdict'
    BY DEF OneVerdict, Accepted, ScopeMatches
  <2> QED  BY <2>1, <2>2
<1>8. CASE SignFails
  <2> USE <1>8 DEF SignFails, Fail, world
  <2>1. TypeOK' /\ CallsAreBounded' /\ AttemptsAreGets' /\ OneExpectation'
    BY DEF TypeOK, CallsAreBounded, AttemptsAreGets, OneExpectation
  <2>2. OneVerdict'
    BY DEF OneVerdict, Accepted
  <2> QED  BY <2>1, <2>2
<1>6. CASE GithubChanges
  <2>1. nameOf' \in [Repo -> Name] /\ home' \in [Repo -> Installation \cup {None}]
        /\ UNCHANGED <<targets, pinned, code, token, answer, gets, posts, seen>>
    BY <1>6 DEF GithubChanges, Rename, Move
  <2> QED  BY <2>1 DEF code, TypeOK, CallsAreBounded, AttemptsAreGets, OneExpectation,
              OneVerdict, Accepted, ScopeMatches
<1>7. CASE UNCHANGED vars
  BY <1>7 DEF vars, world, code, TypeOK, CallsAreBounded, AttemptsAreGets, OneExpectation,
     OneVerdict, Accepted, ScopeMatches
<1> QED  BY <1>1, <1>4, <1>5, <1>6, <1>7, <1>8 DEF Next, Mint

\* A mint is one pass over the targets and one POST, whatever GitHub does between the
\* calls.
THEOREM MintInvHolds == Spec => []MintInv
  BY MintInvInit, MintInvNext, PTL DEF Spec

-------------------------------------------------------------------------------
\* What follows from it

LEMMA MintInvIsEnough ==
    ASSUME MintInv
    PROVE  GrantIsScoped /\ OneInstallation /\ CallsAreBounded /\ OrphansAreKnown
<1> USE DEF MintInv, WorldIsTyped
<1>1. ScopeMatches <=> token.scope = ToSet(targets)
  BY ComparisonIsEquality DEF OneVerdict
<1>2. GrantIsScoped
  BY <1>1 DEF GrantIsScoped, OneVerdict, Accepted
<1>3. OneInstallation
  <2>1. DOMAIN targets = 1..Len(targets) /\ Len(targets) \in Nat
    BY ListsAreSequences
  <2> QED  BY <2>1 DEF OneInstallation, OneExpectation
<1>4. OrphansAreKnown
  BY <1>1 DEF OrphansAreKnown, OneVerdict, Accepted
<1> QED  BY <1>2, <1>3, <1>4

\* The token a caller gets has exactly the verified targets, by id and by name, for
\* every list of targets and whatever is renamed or moved between the calls.
THEOREM GrantsAreScoped == Spec => []GrantIsScoped
  BY MintInvHolds, MintInvIsEnough, PTL

\* GitHub is asked for a token of one installation, the pinned one if there is a pin,
\* in which every target was found.
THEOREM OneInstallationOnly == Spec => []OneInstallation
  BY MintInvHolds, MintInvIsEnough, PTL

\* No lookup is sent more than GITHUB_REQUEST_MAX_ATTEMPTS times, and the POST once.
THEOREM BoundedCalls == Spec => []CallsAreBounded
  BY MintInvHolds, MintInvIsEnough, PTL

\* A token that was created for nobody had its answer lost or another scope.
THEOREM KnownOrphans == Spec => []OrphansAreKnown
  BY MintInvHolds, MintInvIsEnough, PTL

-------------------------------------------------------------------------------
\* The calls in time

\* Every call with its time is a call of InstallationMint.
THEOREM CallsAreMints == CallsSpec => Spec
<1>1. CallsInit => Init
  BY DEF CallsInit
<1>2. [CallsNext]_callVars => [Next]_vars
  BY DEF CallsNext, Calls, Changed, Sign, Unsigned, Found, Posted, Checked, Refused, Retried,
         callVars, Next, Mint
<1> QED  BY <1>1, <1>2, PTL DEF CallsSpec, Spec

LEMMA CallFacts ==
    /\ START \in Nat /\ REQUEST_TIMEOUT \in Nat /\ PerTarget \in Nat
    /\ GITHUB_REQUEST_INITIAL_BACKOFF \in Nat /\ GITHUB_REQUEST_MAX_BACKOFF \in Nat
    /\ BACKDATED \in Nat /\ LIFETIME \in Nat /\ GITHUB_MAX_LIFETIME \in Nat
    /\ PerTarget = 2 * REQUEST_TIMEOUT + GITHUB_REQUEST_MAX_BACKOFF
    /\ GITHUB_REQUEST_INITIAL_BACKOFF <= GITHUB_REQUEST_MAX_BACKOFF
    /\ GITHUB_REQUEST_MAX_ATTEMPTS = 2
  BY CallConstants, JwtOutlastsCalls DEF PerTarget

LEMMA TimesAdd ==
    ASSUME NEW n \in Nat, NEW m \in Nat
    PROVE  /\ TimeFor(n) \in Nat
           /\ TimeFor(n + 1) = TimeFor(n) + PerTarget
           /\ n <= m => TimeFor(n) <= TimeFor(m)
<1>1. PerTarget \in Nat
  BY CallFacts
<1>2. \A k \in Nat : n * k \in Nat /\ (n + 1) * k = n * k + k /\ (n <= m => n * k <= m * k)
  OBVIOUS
<1> QED  BY <1>1, <1>2 DEF TimeFor

\* A delay is a second at most, whatever the answer asks for.
LEMMA DelaysAreShort ==
    ASSUME NEW r \in Replies, backoff = GITHUB_REQUEST_INITIAL_BACKOFF
    PROVE  RetryDelay(r) \in 0..GITHUB_REQUEST_MAX_BACKOFF
<1>1. r.retry_after \in Nat \cup {None}
  BY CallConstants DEF Reply
<1> QED  BY <1>1, CallFacts DEF RetryDelay

LEMMA CallsTakeTheirTime ==
    /\ \A d \in Taking : d \in Nat /\ d <= REQUEST_TIMEOUT
    /\ \A r : \A d \in Took(r) : d \in Nat /\ d <= REQUEST_TIMEOUT
<1>1. \A d \in Taking : d \in Nat /\ d <= REQUEST_TIMEOUT
  BY CallConstants, CallFacts
<1> QED  BY <1>1, CallFacts DEF Took

LEMMA CallsInvInit == CallsInit => CallsInv
<1> SUFFICES ASSUME CallsInit  PROVE CallsInv
  OBVIOUS
<1>1. Len(targets) \in Nat
  BY ListsAreSequences DEF CallsInit, Init
<1>2. TimeFor(Len(targets)) \in Nat /\ TimeFor(0) \in Nat
  BY <1>1, TimesAdd
<1>3. pc = "lookup" /\ next = 1 /\ attempt = 0 /\ now = START /\ jwt = NoJwt
      /\ backoff = GITHUB_REQUEST_INITIAL_BACKOFF
  BY DEF CallsInit, Init
<1>4. SignedFirst
  BY <1>3, CallFacts DEF SignedFirst, Signed
<1>5. CallsAreTimed
  BY <1>2, <1>3, CallFacts DEF CallsAreTimed, CallsEndInTime, Longest
<1> QED  BY <1>4, <1>5 DEF CallsInv

LEMMA SignedFirstStep == MintInv /\ SignedFirst /\ CallsAreTimed /\ [CallsNext]_callVars => SignedFirst'
<1> SUFFICES ASSUME MintInv, SignedFirst, CallsAreTimed, [CallsNext]_callVars  PROVE SignedFirst'
  OBVIOUS
<1> USE CallFacts DEF SignedFirst, Signed
<1>1. CASE Sign
  BY <1>1 DEF Sign, vars, code
<1>2. CASE Unsigned
  BY <1>2 DEF Unsigned, SignFails, Fail
<1>3. CASE Found \/ Posted \/ \E r \in Replies : Refused(r)
  BY <1>3, CallsTakeTheirTime DEF Found, Posted, Refused, Signed
<1>4. ASSUME NEW r \in Replies, Retried(r)  PROVE SignedFirst'
  <2>1. backoff = GITHUB_REQUEST_INITIAL_BACKOFF
    BY <1>4 DEF Retried, LookupRetries, MintInv, TypeOK, CallsAreTimed
  <2>2. RetryDelay(r) \in Nat
    BY <2>1, DelaysAreShort
  <2> QED  BY <1>4, <2>2, CallsTakeTheirTime DEF Retried
<1>5. CASE Checked
  BY <1>5 DEF Checked, CheckScope
<1>6. CASE Changed \/ UNCHANGED callVars
  BY <1>6 DEF Changed, GithubChanges, Rename, Move, callVars, vars, code
<1> QED  BY <1>1, <1>2, <1>3, <1>4, <1>5, <1>6 DEF CallsNext, Calls

\* Where a lookup of a target ends, the target has had its time.
LEMMA TargetTakesItsTime ==
    ASSUME MintInv, CallsAreTimed, SignedFirst, pc = "lookup"
    PROVE  /\ now \in Nat /\ START <= now
           /\ now - START + REQUEST_TIMEOUT <= TimeFor(next)
           /\ TimeFor(next) \in Nat /\ TimeFor(Len(targets)) \in Nat
           /\ TimeFor(next) <= TimeFor(Len(targets))
<1>1. next \in 1..Len(targets) /\ Len(targets) \in Nat /\ attempt \in {0, 1}
  BY DuringLookup, CallFacts
<1>2. /\ next - 1 \in Nat /\ next \in Nat /\ (next - 1) + 1 = next /\ next <= Len(targets)
  BY <1>1
<1>5. /\ TimeFor(next - 1) \in Nat /\ TimeFor(next) \in Nat /\ TimeFor(Len(targets)) \in Nat
      /\ TimeFor(next) = TimeFor(next - 1) + PerTarget
      /\ TimeFor(next) <= TimeFor(Len(targets))
  BY <1>1, <1>2, TimesAdd
<1>3. now - START <= TimeFor(next - 1)
                     + (IF attempt = 0 THEN 0 ELSE REQUEST_TIMEOUT + GITHUB_REQUEST_MAX_BACKOFF)
  BY DEF CallsAreTimed
<1>4. now - START + REQUEST_TIMEOUT <= TimeFor(next - 1) + PerTarget
  <2>1. CASE attempt = 0
    BY <1>5, <1>3, <2>1, CallFacts DEF SignedFirst
  <2>2. CASE attempt = 1
    BY <1>5, <1>3, <2>2, CallFacts DEF SignedFirst
  <2> QED  BY <1>1, <2>1, <2>2
<1> QED  BY <1>5, <1>4, CallFacts DEF SignedFirst

LEMMA CallsAreTimedStep ==
    MintInv /\ SignedFirst /\ CallsAreTimed /\ [CallsNext]_callVars => CallsAreTimed'
<1> SUFFICES ASSUME MintInv, SignedFirst, CallsAreTimed, [CallsNext]_callVars
             PROVE  CallsAreTimed'
  OBVIOUS
<1> USE CallFacts DEF CallsEndInTime, Longest
<1>1. CASE Sign \/ Unsigned \/ Checked \/ Changed \/ UNCHANGED callVars
  <2>1. UNCHANGED <<targets, now, backoff, next, attempt>> /\ (pc' # "lookup" => pc' = pc \/ pc' = "done")
        /\ (pc' = "lookup" => pc = "lookup")
    BY <1>1 DEF Sign, Unsigned, SignFails, Checked, CheckScope, Changed, GithubChanges, Rename, Move,
                Fail, callVars, vars, code
  <2> QED  BY <2>1 DEF CallsAreTimed
<1>2. CASE Found
  <2>1. PICK d \in Taking : now' = now + d
    BY <1>2 DEF Found
  <2>2. /\ d \in Nat /\ d <= REQUEST_TIMEOUT /\ pc = "lookup" /\ UNCHANGED targets
        /\ next \in 1..Len(targets) /\ Len(targets) \in Nat
    BY <1>2, <2>1, CallsTakeTheirTime, DuringLookup DEF Found, LookupFinds
  <2>9. /\ now \in Nat /\ now - START + REQUEST_TIMEOUT <= TimeFor(next)
        /\ TimeFor(next) \in Nat /\ TimeFor(Len(targets)) \in Nat
        /\ TimeFor(next) <= TimeFor(Len(targets))
    BY <2>2, TargetTakesItsTime
  <2>3. /\ now' - START <= TimeFor(next) /\ TimeFor(next) \in Nat
        /\ TimeFor(next) <= TimeFor(Len(targets)) /\ TimeFor(Len(targets)) \in Nat
    BY <2>1, <2>2, <2>9
  <2>4. \/ attempt' = 0 /\ next' = next + 1 /\ pc' = IF next = Len(targets) THEN "mint" ELSE "lookup"
        \/ pc' = "done"
    BY <1>2 DEF Found, LookupFinds, Fail
  <2>5. backoff' = GITHUB_REQUEST_INITIAL_BACKOFF
    BY <1>2 DEF Found
  <2>6. now' \in Nat /\ now' - START <= TimeFor(Len(targets))
    BY <2>1, <2>2, <2>3 DEF SignedFirst
  <2>7. CASE pc' = "lookup"
    <3>1. attempt' = 0 /\ next' - 1 = next
      BY <2>2, <2>4, <2>7
    <3> QED  BY <2>2, <2>3, <2>5, <2>6, <2>7, <3>1 DEF CallsAreTimed
  <2>8. CASE pc' # "lookup"
    BY <2>2, <2>3, <2>6, <2>8 DEF CallsAreTimed
  <2> QED  BY <2>7, <2>8
<1>3. ASSUME NEW r \in Replies, Refused(r)  PROVE CallsAreTimed'
  <2>1. PICK d \in Took(r) : now' = now + d
    BY <1>3 DEF Refused
  <2>2. /\ d \in Nat /\ d <= REQUEST_TIMEOUT /\ pc = "lookup" /\ pc' = "done" /\ UNCHANGED targets
    BY <1>3, <2>1, CallsTakeTheirTime DEF Refused, LookupRefused, Fail
  <2>9. /\ now \in Nat /\ now - START + REQUEST_TIMEOUT <= TimeFor(next)
        /\ TimeFor(next) \in Nat /\ TimeFor(Len(targets)) \in Nat
        /\ TimeFor(next) <= TimeFor(Len(targets))
    BY <2>2, TargetTakesItsTime
  <2>3. /\ now' - START <= TimeFor(next) /\ TimeFor(next) \in Nat
        /\ TimeFor(next) <= TimeFor(Len(targets)) /\ TimeFor(Len(targets)) \in Nat
    BY <2>1, <2>2, <2>9
  <2> QED  BY <2>1, <2>2, <2>3 DEF CallsAreTimed, SignedFirst
<1>4. ASSUME NEW r \in Replies, Retried(r)  PROVE CallsAreTimed'
  <2>1. /\ pc = "lookup" /\ attempt = 0 /\ attempt' = 1 /\ UNCHANGED <<targets, pc, next>>
        /\ next \in 1..Len(targets) /\ Len(targets) \in Nat
    BY <1>4, DuringLookup DEF Retried, LookupRetries
  <2>2. PICK d \in Took(r) : now' = now + d + RetryDelay(r)
    BY <1>4 DEF Retried
  <2>3. /\ d \in Nat /\ d <= REQUEST_TIMEOUT
        /\ RetryDelay(r) \in Nat /\ RetryDelay(r) <= GITHUB_REQUEST_MAX_BACKOFF
    BY <2>1, <2>2, CallsTakeTheirTime, DelaysAreShort DEF CallsAreTimed
  <2>7. next - 1 \in Nat /\ (next - 1) + 1 = next /\ next \in Nat /\ next <= Len(targets)
    BY <2>1
  <2>4. /\ TimeFor(next - 1) \in Nat /\ TimeFor(next) = TimeFor(next - 1) + PerTarget
        /\ TimeFor(next) <= TimeFor(Len(targets)) /\ TimeFor(Len(targets)) \in Nat
    BY <2>1, <2>7, TimesAdd
  <2>8. now - START <= TimeFor(next - 1) /\ now \in Nat
    BY <2>1, <2>4 DEF CallsAreTimed, SignedFirst
  <2>5. now' - START <= TimeFor(next - 1) + REQUEST_TIMEOUT + GITHUB_REQUEST_MAX_BACKOFF
    BY <2>2, <2>3, <2>4, <2>8
  <2>6. now' \in Nat
    BY <2>2, <2>3 DEF SignedFirst
  <2> QED  BY <2>1, <2>4, <2>5, <2>6 DEF CallsAreTimed
<1>5. CASE Posted
  <2>1. PICK d \in Taking : now' = now + d
    BY <1>5 DEF Posted
  <2>2. d \in Nat /\ d <= REQUEST_TIMEOUT /\ pc = "mint" /\ pc' = "check" /\ UNCHANGED targets
    BY <1>5, <2>1, CallsTakeTheirTime DEF Posted, PostMint
  <2>3. TimeFor(Len(targets)) \in Nat
    BY ListsAreSequences, TimesAdd DEF MintInv, WorldIsTyped
  <2> QED  BY <2>1, <2>2, <2>3 DEF CallsAreTimed, SignedFirst
<1> QED  BY <1>1, <1>2, <1>3, <1>4, <1>5 DEF CallsNext, Calls

\* The calls take the time of their attempts and delays, and the JWT is as old as they
\* are (send_github_request, create_app_jwt).
THEOREM CallsInvHolds == CallsSpec => []CallsInv
<1>1. MintInv /\ CallsInv /\ [CallsNext]_callVars => CallsInv'
  BY SignedFirstStep, CallsAreTimedStep DEF CallsInv
<1> QED  BY <1>1, CallsInvInit, CallsAreMints, MintInvHolds, PTL DEF CallsSpec

\* Whatever GitHub answers and asks to wait, the calls end in time (retry_delay).
THEOREM CallsEnd == CallsSpec => []CallsEndInTime
<1>1. CallsInv => CallsEndInTime
  BY DEF CallsInv, CallsAreTimed
<1> QED  BY <1>1, CallsInvHolds, PTL

\* The JWT that is signed at the beginning lasts for every call (create_app_jwt).
THEOREM JwtLasts == CallsSpec => JwtIsAccepted
<1>1. ASSUME MintInv, CallsInv, [CallsNext]_callVars, gets' # gets \/ posts' # posts
      PROVE  TakenByGithub(jwt, now)
  <2>1. Signed /\ pc \in {"lookup", "mint"}
    BY <1>1 DEF CallsNext, Calls, Changed, Sign, Unsigned, SignFails, Found, LookupFinds, Refused,
                LookupRefused, Retried, LookupRetries, Posted, PostMint, Checked, CheckScope,
                GithubChanges, Rename, Move, callVars, vars
  <2>2. now \in Nat /\ now - START <= TimeFor(Len(targets))
    <3>1. CASE pc = "mint"
      BY <1>1, <3>1 DEF CallsInv, CallsAreTimed, SignedFirst
    <3>2. CASE pc = "lookup"
      BY <1>1, <3>2, TargetTakesItsTime, CallFacts DEF CallsInv, SignedFirst
    <3> QED  BY <2>1, <3>1, <3>2
  <2>3. PICK ahead \in Ahead : jwt = Claims(START + ahead)
    BY <1>1, <2>1 DEF CallsInv, SignedFirst
  <2>4. ahead \in Int /\ -BACKDATED <= ahead /\ ahead <= BACKDATED
    BY CallFacts, JwtOutlastsCalls
  <2>5. TimeFor(Len(targets)) + BACKDATED < LIFETIME /\ TimeFor(Len(targets)) \in Nat
    BY <1>1, JwtOutlastsCalls, ListsAreSequences, TimesAdd DEF MintInv, WorldIsTyped
  <2>6. now >= START
    BY <1>1 DEF CallsInv, SignedFirst
  <2> QED
    BY <2>2, <2>3, <2>4, <2>5, <2>6, CallFacts, JwtOutlastsCalls DEF TakenByGithub, Claims
<1>2. MintInv /\ CallsInv /\ [CallsNext]_callVars
        => [gets' # gets \/ posts' # posts => TakenByGithub(jwt, now)]_callVars
  BY <1>1
<1> QED
  BY <1>2, CallsAreMints, MintInvHolds, CallsInvHolds, PTL DEF CallsSpec, JwtIsAccepted
===============================================================================
