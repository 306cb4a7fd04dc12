----------------------------- MODULE ClientProofs -----------------------------
(***************************************************************************)
(* Proofs about both ends of an exchange.  ActionRun: for any timeouts,    *)
(* token lives and clock errors.  Written: for any inputs, bodies, rules,  *)
(* policy texts and places.                                                *)
(***************************************************************************)
EXTENDS ActionRun, Written, FiniteSetTheorems, SequenceTheorems, WellFoundedInduction,
        TLAPS

LEMMA ConstantFacts ==
    /\ REQUEST_TIMEOUT \in Nat \ {0} /\ LAMBDA_TIMEOUT \in Nat
    /\ LIFETIME \in Nat \ {0} /\ MAX_SKEW \in Nat
  BY ActionConstants

LEMMA ActionInvInit == Init => ActionInv
<1> SUFFICES ASSUME Init  PROVE ActionInv
  OBVIOUS
<1>1. TypeOK
  <2>1. waited \in 0..REQUEST_TIMEOUT /\ busy \in 0..LAMBDA_TIMEOUT /\ left \in 0..LIFETIME
    BY ConstantFacts DEF Init
  <2>2. main \in Running /\ state = {} /\ outputs = {}
    BY DEF Init, Running
  <2> QED  BY <2>1, <2>2 DEF Init, TypeOK
<1>2. MainIsOrdered /\ PostIsOrdered /\ OutputIsRevocable /\ NothingIsLeftSilently
  BY DEF Init, MainIsOrdered, PostIsOrdered, OutputIsRevocable, NothingIsLeftSilently, Unsaved,
         Saved
<1> QED  BY <1>1, <1>2 DEF ActionInv

-------------------------------------------------------------------------------
\* The steps of main.js

LEMMA MainKeeps == ActionInv /\ (MainStep \/ MainFails) => ActionInv'
<1> SUFFICES ASSUME ActionInv, MainStep \/ MainFails  PROVE ActionInv'
  OBVIOUS
<1> USE ConstantFacts DEF ActionInv, Unsaved, Saved, Running, Ended, service, files, Goto
<1>1. alive /\ main \in Running /\ UNCHANGED <<alive, skew, post, warned, busy, token, left>>
  BY DEF MainStep, MainFails, OidcArrives, SendExchange, Answered, ClientTimesOut, MaskToken,
         SaveToken, SaveExpiry, ScopeAgrees, OutputToken, OutputRest
\* While main.js runs, post.js waits.
<1>2. post = "waiting" /\ post' = "waiting"
  BY <1>1 DEF PostIsOrdered, TypeOK
<1>3. PostIsOrdered' /\ NothingIsLeftSilently'
  BY <1>2 DEF PostIsOrdered, NothingIsLeftSilently
<1>4. TypeOK'
  <2> USE DEF TypeOK
  <2>1. CASE MainFails
    BY <2>1 DEF MainFails
  <2>2. CASE OidcArrives \/ Answered \/ ClientTimesOut \/ ScopeAgrees
    BY <2>2 DEF OidcArrives, Answered, ClientTimesOut, ScopeAgrees
  <2>3. CASE SendExchange
    BY <2>3 DEF SendExchange
  <2>4. CASE MaskToken
    BY <2>4 DEF MaskToken
  <2>5. CASE SaveToken \/ SaveExpiry
    BY <2>5 DEF SaveToken, SaveExpiry
  <2>6. CASE OutputToken \/ OutputRest
    BY <2>6 DEF OutputToken, OutputRest
  <2> QED  BY <2>1, <2>2, <2>3, <2>4, <2>5, <2>6 DEF MainStep
<1>5. MainIsOrdered'
  BY DEF TypeOK, MainIsOrdered, MainStep, MainFails, OidcArrives, SendExchange, Answered,
         ClientTimesOut, MaskToken, SaveToken, SaveExpiry, ScopeAgrees, OutputToken, OutputRest
<1>6. OutputIsRevocable'
  BY DEF TypeOK, MainIsOrdered, OutputIsRevocable, MainStep, MainFails, OidcArrives,
         SendExchange, Answered, ClientTimesOut, MaskToken, SaveToken, SaveExpiry, ScopeAgrees,
         OutputToken, OutputRest
<1> QED  BY <1>3, <1>4, <1>5, <1>6

-------------------------------------------------------------------------------
\* The steps of post.js and of GitHub's revocation

LEMMA PostKeeps == ActionInv /\ (PostStep \/ GithubRevokes) => ActionInv'
<1> SUFFICES ASSUME ActionInv, PostStep \/ GithubRevokes  PROVE ActionInv'
  OBVIOUS
<1> USE ConstantFacts DEF ActionInv, PostGoes
<1>1. /\ UNCHANGED <<alive, skew, main, broker, busy, left, state, outputs>>
      /\ masked => masked'
      /\ masked' \in BOOLEAN
      /\ post \in {"start", "deleting", "deleted", "unheard"} /\ post' # "waiting"
  BY DEF TypeOK, PostStep, PostSkips, PostFindsExpired, PostDeletes, PostSucceeds, PostWarns,
         GithubRevokes
<1>2. TypeOK'
  <2> USE <1>1 DEF TypeOK
  <2>1. CASE PostSkips \/ PostFindsExpired
    BY <2>1 DEF PostSkips, PostFindsExpired
  <2>2. CASE PostDeletes
    BY <2>2 DEF PostDeletes
  <2>3. CASE GithubRevokes
    BY <2>3 DEF GithubRevokes
  <2>4. CASE PostSucceeds
    BY <2>4 DEF PostSucceeds
  <2>5. CASE PostWarns
    BY <2>5 DEF PostWarns
  <2> QED  BY <2>1, <2>2, <2>3, <2>4, <2>5 DEF PostStep
<1>3. MainIsOrdered' /\ OutputIsRevocable'
  BY <1>1 DEF MainIsOrdered, OutputIsRevocable
<1>4. PostIsOrdered'
  BY <1>1 DEF PostIsOrdered, PostStep, PostSkips, PostFindsExpired, PostDeletes, PostSucceeds,
     PostWarns, GithubRevokes
<1>5. NothingIsLeftSilently'
  <2>1. CASE PostSkips
    BY <2>1 DEF PostSkips, NothingIsLeftSilently
  <2>2. CASE PostFindsExpired
    BY <2>2 DEF PostFindsExpired, Expired, NothingIsLeftSilently, TypeOK
  <2>3. CASE PostDeletes \/ GithubRevokes
    BY <2>3 DEF PostDeletes, GithubRevokes, NothingIsLeftSilently
  <2>4. CASE PostSucceeds
    BY <2>4 DEF PostSucceeds, PostIsOrdered, NothingIsLeftSilently, Live
  <2>5. CASE PostWarns
    BY <2>5 DEF PostWarns, NothingIsLeftSilently
  <2> QED  BY <2>1, <2>2, <2>3, <2>4, <2>5 DEF PostStep
<1> QED  BY <1>2, <1>3, <1>4, <1>5

-------------------------------------------------------------------------------
\* The broker, the rest of the job and time

LEMMA OthersKeep ==
    ActionInv /\ (BrokerGrants \/ BrokerDenies \/ JobEnds \/ RunnerDies \/ Tick) => ActionInv'
<1> SUFFICES ASSUME ActionInv, BrokerGrants \/ BrokerDenies \/ JobEnds \/ RunnerDies \/ Tick
             PROVE  ActionInv'
  OBVIOUS
<1> USE ConstantFacts DEF ActionInv, files, service, Ended
\* A broker that still works has not been heard, so no token was saved.
<1>1. CASE BrokerGrants \/ BrokerDenies
  <2> USE <1>1 DEF BrokerGrants, BrokerDenies
  <2>1. broker = "working" /\ "token" \notin state
    BY DEF MainIsOrdered
  <2>2. TypeOK'
    BY DEF TypeOK
  <2>3. MainIsOrdered' /\ PostIsOrdered'
    BY <2>1 DEF MainIsOrdered, PostIsOrdered
  <2>4. OutputIsRevocable' /\ NothingIsLeftSilently'
    BY <2>1 DEF OutputIsRevocable, NothingIsLeftSilently
  <2> QED  BY <2>2, <2>3, <2>4
<1>2. CASE JobEnds \/ RunnerDies
  <2> USE <1>2 DEF JobEnds, RunnerDies
  <2>1. TypeOK'
    BY DEF TypeOK
  <2>2. MainIsOrdered' /\ PostIsOrdered' /\ OutputIsRevocable'
    BY DEF MainIsOrdered, PostIsOrdered, OutputIsRevocable
  <2>3. NothingIsLeftSilently'
    BY DEF NothingIsLeftSilently, Live, PostIsOrdered
  <2> QED  BY <2>1, <2>2, <2>3
<1>3. CASE Tick
  <2> USE <1>3 DEF Tick
  <2>1. TypeOK'
    BY DEF TypeOK, Waiting, Live
  <2>2. MainIsOrdered' /\ PostIsOrdered' /\ OutputIsRevocable'
    BY DEF MainIsOrdered, PostIsOrdered, OutputIsRevocable
  <2>3. NothingIsLeftSilently'
    BY DEF NothingIsLeftSilently, Live, TypeOK
  <2> QED  BY <2>1, <2>2, <2>3
<1> QED  BY <1>1, <1>2, <1>3

-------------------------------------------------------------------------------
\* The order in which the two programs learn of the token, at whatever step one of
\* them ends.
THEOREM ActionInvHolds == Spec => []ActionInv
<1>1. ASSUME ActionInv, UNCHANGED vars  PROVE ActionInv'
  <2> USE <1>1 DEF ActionInv, vars, service, files
  <2>1. TypeOK' /\ OutputIsRevocable'
    BY DEF TypeOK, OutputIsRevocable
  <2>2. MainIsOrdered' /\ PostIsOrdered'
    BY DEF MainIsOrdered, PostIsOrdered
  <2>3. NothingIsLeftSilently'
    BY DEF NothingIsLeftSilently, Live
  <2> QED  BY <2>1, <2>2, <2>3
<1>2. ActionInv /\ [Next]_vars => ActionInv'
  BY <1>1, MainKeeps, PostKeeps, OthersKeep DEF Next, Service
<1> QED  BY <1>2, ActionInvInit, PTL DEF Spec

\* Later steps can read the token only when the log masks it and post.js can revoke it.
THEOREM OutputsAreRevocable == Spec => []OutputIsRevocable
<1>1. ActionInv => OutputIsRevocable
  BY DEF ActionInv
<1> QED  BY <1>1, ActionInvHolds, PTL

\* After post.js a saved token is dead, warned about, or within the clock's error of
\* its end, for every error of the runner's clock.
THEOREM NothingLeftSilently == Spec => []NothingIsLeftSilently
<1>1. ActionInv => NothingIsLeftSilently
  BY DEF ActionInv
<1> QED  BY <1>1, ActionInvHolds, PTL

-------------------------------------------------------------------------------
\* What the recursive operators of Written and Names compute, by induction: a set that
\* has 0 and every successor of its elements has every number.

LEMMA LeastNumber ==
    ASSUME NEW S \in SUBSET Nat, S # {}
    PROVE  \E n \in S : \A m \in S : n <= m
<1>1. PICK n \in S : \A m \in S : ~(<<m, n>> \in OpToRel(<, Nat))
  BY NatLessThanWellFounded, WFMin
<1>2. \A m \in S : n <= m
  <2>1. ASSUME NEW m \in S  PROVE ~(m < n)
    BY <1>1 DEF OpToRel
  <2> QED  BY <2>1
<1> QED  BY <1>2

LEMMA AllNumbers ==
    ASSUME NEW S, 0 \in S, \A n \in Nat : n \in S => n + 1 \in S
    PROVE  Nat \subseteq S
<1> SUFFICES ASSUME Nat \ S # {}  PROVE FALSE
  OBVIOUS
<1>1. PICK n \in Nat \ S : \A m \in Nat \ S : n <= m
  BY LeastNumber
<1>2. n # 0 /\ n - 1 \in Nat /\ ~(n <= n - 1)
  BY <1>1
<1>3. n - 1 \in S
  BY <1>1, <1>2
<1> QED  BY <1>1, <1>2, <1>3

\* The path reached after each segment is defined.
LEMMA ReachedIsDefined ==
    ASSUME NEW start, NEW path \in Seq(STRING)
    PROVE  \E f : f = [n \in 0..Len(path) |-> IF n = 0 THEN start ELSE Step(f[n - 1], path[n])]
<1> DEFINE Defined(k) == \E f : f = [n \in 0..k |-> IF n = 0 THEN start
                                                   ELSE Step(f[n - 1], path[n])]
           S == {k \in Nat : Defined(k)}
<1>1. 0 \in S
  <2> DEFINE f == [n \in 0..0 |-> start]
  <2>1. f = [n \in 0..0 |-> IF n = 0 THEN start ELSE Step(f[n - 1], path[n])]
    OBVIOUS
  <2> HIDE DEF f
  <2> QED  BY <2>1
<1>2. ASSUME NEW k \in Nat, k \in S  PROVE k + 1 \in S
  <2>1. PICK f : f = [n \in 0..k |-> IF n = 0 THEN start ELSE Step(f[n - 1], path[n])]
    BY <1>2
  <2> DEFINE G(n) == IF n <= k THEN f[n] ELSE Step(f[k], path[k + 1])
             g == [n \in 0..(k + 1) |-> G(n)]
  <2>2. \A n \in 0..k : f[n] = IF n = 0 THEN start ELSE Step(f[n - 1], path[n])
    BY <2>1
  <2>3. ASSUME NEW n \in 0..(k + 1)
        PROVE  G(n) = IF n = 0 THEN start ELSE Step(G(n - 1), path[n])
    <3>1. CASE n = 0
      BY <2>2, <3>1
    <3>2. CASE n \in 1..k
      <4>1. G(n) = f[n] /\ G(n - 1) = f[n - 1] /\ n \in 0..k /\ n # 0
        BY <3>2
      <4> QED  BY <2>2, <4>1
    <3>3. CASE n = k + 1
      <4>1. G(n) = Step(f[k], path[k + 1]) /\ G(n - 1) = f[k] /\ n # 0
        BY <3>3
      <4> QED  BY <3>3, <4>1
    <3> QED  BY <3>1, <3>2, <3>3
  <2> HIDE DEF G
  <2>4. \A n \in 0..(k + 1) : n # 0 => g[n - 1] = G(n - 1)
    OBVIOUS
  <2>5. g = [n \in 0..(k + 1) |-> G(n)]
    OBVIOUS
  <2> HIDE DEF g
  <2> DEFINE H(n) == IF n = 0 THEN start ELSE Step(g[n - 1], path[n])
  <2>6. \A n \in 0..(k + 1) : G(n) = H(n)
    BY <2>3, <2>4
  <2> HIDE DEF H
  <2>7. g = [n \in 0..(k + 1) |-> H(n)]
    BY <2>5, <2>6
  <2>8. g = [n \in 0..(k + 1) |-> IF n = 0 THEN start ELSE Step(g[n - 1], path[n])]
    BY <2>7 DEF H
  <2>9. Defined(k + 1)
    BY <2>8
  <2> HIDE DEF Defined
  <2> QED  BY <2>9
<1> HIDE DEF S
<1>3. Nat \subseteq S
  BY <1>1, <1>2, AllNumbers
<1> QED  BY <1>3 DEF S

Reaches(reached, start, path) ==
    reached = [n \in 0..Len(path) |-> IF n = 0 THEN start ELSE Step(reached[n - 1], path[n])]

\* A path that neither stays nor goes up is put behind the base.
LEMMA ReachedAppends ==
    ASSUME NEW start \in Seq(STRING), NEW path \in Seq(STRING),
           \A i \in DOMAIN path : path[i] \notin {".", ".."},
           NEW reached, Reaches(reached, start, path)
    PROVE  reached[Len(path)] = start \o path
<1>0. \A n \in 0..Len(path) : reached[n] = IF n = 0 THEN start ELSE Step(reached[n - 1], path[n])
  BY DEF Reaches
<1> DEFINE S == {n \in Nat : n <= Len(path) => reached[n] = start \o SubSeq(path, 1, n)}
<1>1. 0 \in S
  <2>1. reached[0] = start /\ SubSeq(path, 1, 0) = <<>>
    BY <1>0
  <2> QED  BY <2>1
<1>2. ASSUME NEW n \in Nat, n \in S  PROVE n + 1 \in S
  <2> SUFFICES ASSUME n + 1 <= Len(path)
               PROVE  reached[n + 1] = start \o SubSeq(path, 1, n + 1)
    OBVIOUS
  <2> DEFINE done == SubSeq(path, 1, n)
             next == path[n + 1]
  <2>1. n + 1 \in 0..Len(path) /\ n + 1 # 0 /\ n + 1 \in DOMAIN path /\ (n + 1) - 1 = n
    OBVIOUS
  <2>2. reached[n + 1] = Step(reached[n], next)
    BY <1>0, <2>1
  <2>3. reached[n] = start \o done
    BY <1>2
  <2>4. Step(reached[n], next) = Append(reached[n], next)
    BY <2>1 DEF Step
  <2>5. SubSeq(path, 1, n + 1) = Append(done, next)
    BY <2>1
  <2>6. done \in Seq(STRING) /\ next \in STRING
    BY <2>1
  <2> HIDE DEF done, next
  <2>7. Append(start \o done, next) = start \o Append(done, next)
    <3>1. start \o done \in Seq(STRING) /\ <<next>> \in Seq(STRING)
      BY <2>6
    <3>2. Append(start \o done, next) = (start \o done) \o <<next>>
      BY <2>6, <3>1, AppendIsConcat
    <3>3. Append(done, next) = done \o <<next>>
      BY <2>6, AppendIsConcat
    <3> QED  BY <2>6, <3>1, <3>2, <3>3, ConcatAssociative
  <2> QED  BY <2>2, <2>3, <2>4, <2>5, <2>7
<1> HIDE DEF S
<1>3. Nat \subseteq S
  BY <1>1, <1>2, AllNumbers
<1>4. reached[Len(path)] = start \o SubSeq(path, 1, Len(path))
  <2>1. Len(path) \in Nat /\ Len(path) <= Len(path)
    OBVIOUS
  <2> QED  BY <1>3, <2>1 DEF S
<1>5. SubSeq(path, 1, Len(path)) = path
  BY SubSeqFull
<1> QED  BY <1>4, <1>5

LEMMA JoinAppends ==
    ASSUME NEW base, base.path \in Seq(STRING) \ {<<>>}, NEW path \in Seq(STRING),
           \A i \in DOMAIN path : path[i] \notin {".", ".."}
    PROVE  Join(base, path) = [base EXCEPT !.path = Front(@) \o path]
<1> DEFINE start == Front(base.path)
           reached == CHOOSE f : f = [n \in 0..Len(path) |->
                          IF n = 0 THEN start ELSE Step(f[n - 1], path[n])]
<1>1. start \in Seq(STRING)
  BY DEF Front
<1>2. Reaches(reached, start, path)
  BY ReachedIsDefined DEF Reaches
<1>3. Join(base, path) = [base EXCEPT !.path = reached[Len(path)]]
  BY DEF Join
<1> HIDE DEF start, reached
<1>4. reached[Len(path)] = start \o path
  BY <1>1, <1>2, ReachedAppends
<1> QED  BY <1>3, <1>4 DEF start

\* So is what is kept of each prefix of a list.
LEMMA KeptIsDefined ==
    ASSUME NEW list, Len(list) \in Nat, NEW wanted
    PROVE  \E f : f = [n \in 0..Len(list) |-> IF n = 0 THEN <<>> ELSE Keep(f[n - 1], list[n], wanted)]
<1> DEFINE Defined(k) == \E f : f = [n \in 0..k |-> IF n = 0 THEN <<>>
                                                   ELSE Keep(f[n - 1], list[n], wanted)]
           S == {k \in Nat : Defined(k)}
<1>1. 0 \in S
  <2> DEFINE f == [n \in 0..0 |-> <<>>]
  <2>1. f = [n \in 0..0 |-> IF n = 0 THEN <<>> ELSE Keep(f[n - 1], list[n], wanted)]
    OBVIOUS
  <2> HIDE DEF f
  <2> QED  BY <2>1
<1>2. ASSUME NEW k \in Nat, k \in S  PROVE k + 1 \in S
  <2>1. PICK f : f = [n \in 0..k |-> IF n = 0 THEN <<>> ELSE Keep(f[n - 1], list[n], wanted)]
    BY <1>2
  <2> DEFINE G(n) == IF n <= k THEN f[n] ELSE Keep(f[k], list[k + 1], wanted)
             g == [n \in 0..(k + 1) |-> G(n)]
  <2>2. \A n \in 0..k : f[n] = IF n = 0 THEN <<>> ELSE Keep(f[n - 1], list[n], wanted)
    BY <2>1
  <2>3. ASSUME NEW n \in 0..(k + 1)
        PROVE  G(n) = IF n = 0 THEN <<>> ELSE Keep(G(n - 1), list[n], wanted)
    <3>1. CASE n = 0
      BY <2>2, <3>1
    <3>2. CASE n \in 1..k
      <4>1. G(n) = f[n] /\ G(n - 1) = f[n - 1] /\ n \in 0..k /\ n # 0
        BY <3>2
      <4> QED  BY <2>2, <4>1
    <3>3. CASE n = k + 1
      <4>1. G(n) = Keep(f[k], list[k + 1], wanted) /\ G(n - 1) = f[k] /\ n # 0
        BY <3>3
      <4> QED  BY <3>3, <4>1
    <3> QED  BY <3>1, <3>2, <3>3
  <2> HIDE DEF G
  <2>4. \A n \in 0..(k + 1) : n # 0 => g[n - 1] = G(n - 1)
    OBVIOUS
  <2>5. g = [n \in 0..(k + 1) |-> G(n)]
    OBVIOUS
  <2> HIDE DEF g
  <2> DEFINE H(n) == IF n = 0 THEN <<>> ELSE Keep(g[n - 1], list[n], wanted)
  <2>6. \A n \in 0..(k + 1) : G(n) = H(n)
    BY <2>3, <2>4
  <2> HIDE DEF H
  <2>7. g = [n \in 0..(k + 1) |-> H(n)]
    BY <2>5, <2>6
  <2>8. g = [n \in 0..(k + 1) |-> IF n = 0 THEN <<>> ELSE Keep(g[n - 1], list[n], wanted)]
    BY <2>7 DEF H
  <2>9. Defined(k + 1)
    BY <2>8
  <2> HIDE DEF Defined
  <2> QED  BY <2>9
<1> HIDE DEF S
<1>3. Nat \subseteq S
  BY <1>1, <1>2, AllNumbers
<1> QED  BY <1>3 DEF S

Keeps(kept, list, wanted) ==
    kept = [n \in 0..Len(list) |-> IF n = 0 THEN <<>> ELSE Keep(kept[n - 1], list[n], wanted)]

\* One more element, which a list does not have yet.
LEMMA OneMoreElement ==
    ASSUME NEW T, NEW s \in Seq(T), IsInjective(s), NEW x \in T, x \notin ToSet(s)
    PROVE  /\ Append(s, x) \in Seq(T) /\ IsInjective(Append(s, x))
           /\ ToSet(Append(s, x)) = ToSet(s) \cup {x}
<1> DEFINE t == Append(s, x)
<1>1. t \in Seq(T) /\ DOMAIN t = 1..(Len(s) + 1) /\ DOMAIN s = 1..Len(s) /\ Len(s) \in Nat
  OBVIOUS
<1>2. (\A i \in 1..Len(s) : t[i] = s[i]) /\ t[Len(s) + 1] = x
  OBVIOUS
<1> HIDE DEF t
<1>3. \A i \in 1..Len(s) : t[i] # x
  BY <1>1, <1>2 DEF ToSet
<1>4. IsInjective(t)
  <2>1. ASSUME NEW i \in DOMAIN t, NEW j \in DOMAIN t, t[i] = t[j]  PROVE i = j
    <3>1. CASE i \in 1..Len(s) /\ j \in 1..Len(s)
      BY <1>1, <1>2, <2>1, <3>1 DEF IsInjective
    <3>2. CASE i = Len(s) + 1 \/ j = Len(s) + 1
      BY <1>1, <1>2, <1>3, <2>1, <3>2
    <3> QED  BY <1>1, <3>1, <3>2
  <2> QED  BY <2>1 DEF IsInjective
<1>5. ToSet(t) = ToSet(s) \cup {x}
  <2>1. \A i \in DOMAIN t : t[i] \in ToSet(s) \cup {x}
    <3>1. ASSUME NEW i \in 1..Len(s)  PROVE t[i] \in ToSet(s)
      BY <1>1, <1>2 DEF ToSet
    <3> QED  BY <1>1, <1>2, <3>1
  <2>2. \A i \in DOMAIN s : s[i] \in ToSet(t)
    BY <1>1, <1>2 DEF ToSet
  <2>3. x \in ToSet(t)
    BY <1>1, <1>2 DEF ToSet
  <2> QED  BY <2>1, <2>2, <2>3 DEF ToSet
<1> QED  BY <1>1, <1>4, <1>5 DEF t

\* What is kept of a list without repetition is what is wanted of it, each once.
LEMMA KeepsTheWanted ==
    ASSUME NEW T, NEW list \in Seq(T), IsInjective(list), NEW wanted,
           NEW kept, Keeps(kept, list, wanted)
    PROVE  /\ kept[Len(list)] \in Seq(T) /\ IsInjective(kept[Len(list)])
           /\ ToSet(kept[Len(list)]) = wanted \cap ToSet(list)
<1>0. \A n \in 0..Len(list) :
        kept[n] = IF n = 0 THEN <<>> ELSE Keep(kept[n - 1], list[n], wanted)
  BY DEF Keeps
<1> DEFINE Good(n) == /\ kept[n] \in Seq(T) /\ IsInjective(kept[n])
                      /\ ToSet(kept[n]) = wanted \cap {list[i] : i \in 1..n}
           S == {n \in Nat : n <= Len(list) => Good(n)}
<1>1. 0 \in S
  <2>1. kept[0] = <<>>
    BY <1>0
  <2>2. Good(0)
    BY <2>1 DEF ToSet, IsInjective
  <2> QED  BY <2>2
<1>2. ASSUME NEW n \in Nat, n \in S  PROVE n + 1 \in S
  <2> SUFFICES ASSUME n + 1 <= Len(list)  PROVE Good(n + 1)
    OBVIOUS
  <2> DEFINE x == list[n + 1]
  <2>1. n + 1 \in 0..Len(list) /\ n + 1 # 0 /\ n + 1 \in DOMAIN list /\ (n + 1) - 1 = n
    OBVIOUS
  <2>2. kept[n + 1] = Keep(kept[n], x, wanted) /\ x \in T
    BY <1>0, <2>1
  <2>3. Good(n)
    BY <1>2
  <2>4. x \notin {list[i] : i \in 1..n}
    BY <2>1 DEF IsInjective
  <2>5. {list[i] : i \in 1..(n + 1)} = {list[i] : i \in 1..n} \cup {x}
    OBVIOUS
  <2> HIDE DEF x
  <2>6. CASE x \in wanted
    <3>1. kept[n + 1] = Append(kept[n], x)
      BY <2>2, <2>6 DEF Keep
    <3>2. x \notin ToSet(kept[n])
      BY <2>3, <2>4
    <3>3. /\ kept[n + 1] \in Seq(T) /\ IsInjective(kept[n + 1])
          /\ ToSet(kept[n + 1]) = ToSet(kept[n]) \cup {x}
      BY <2>2, <2>3, <3>1, <3>2, OneMoreElement
    <3> QED  BY <2>3, <2>5, <2>6, <3>3
  <2>7. CASE x \notin wanted
    <3>1. kept[n + 1] = kept[n]
      BY <2>2, <2>7 DEF Keep
    <3> QED  BY <2>3, <2>5, <2>7, <3>1
  <2> QED  BY <2>6, <2>7
<1> HIDE DEF S
<1>3. Nat \subseteq S
  BY <1>1, <1>2, AllNumbers
<1>4. Good(Len(list))
  <2>1. Len(list) \in Nat /\ Len(list) <= Len(list)
    OBVIOUS
  <2> QED  BY <1>3, <2>1 DEF S
<1>5. ToSet(list) = {list[i] : i \in 1..Len(list)}
  BY DEF ToSet
<1> QED  BY <1>4, <1>5

LEMMA KeptIsWanted ==
    ASSUME NEW T, NEW list \in Seq(T), IsInjective(list), NEW wanted
    PROVE  /\ Kept(list, wanted) \in Seq(T) /\ IsInjective(Kept(list, wanted))
           /\ ToSet(Kept(list, wanted)) = wanted \cap ToSet(list)
<1> DEFINE kept == CHOOSE f : f = [n \in 0..Len(list) |->
                       IF n = 0 THEN <<>> ELSE Keep(f[n - 1], list[n], wanted)]
<1>1. Len(list) \in Nat
  OBVIOUS
<1>2. Keeps(kept, list, wanted)
  BY <1>1, KeptIsDefined DEF Keeps
<1>3. Kept(list, wanted) = kept[Len(list)]
  BY DEF Kept
<1> HIDE DEF kept
<1> QED  BY <1>2, <1>3, KeepsTheWanted

\* A list without repetition has as many elements as its set.
LEMMA ListsAreCounted ==
    ASSUME NEW T, NEW list \in Seq(T), IsInjective(list)
    PROVE  IsFiniteSet(ToSet(list)) /\ Cardinality(ToSet(list)) = Len(list)
<1>1. DOMAIN list = 1..Len(list) /\ Len(list) \in Nat
  OBVIOUS
<1>2. \A i, j \in 1..Len(list) : list[i] = list[j] => i = j
  BY <1>1 DEF IsInjective
<1>3. list \in [1..Len(list) -> ToSet(list)]
  BY <1>1 DEF ToSet
<1>4. list \in Bijection(1..Len(list), ToSet(list))
  BY <1>1, <1>2, <1>3 DEF ToSet, Bijection, Injection, Surjection, IsInjective
<1>5. ExistsBijection(1..Len(list), ToSet(list))
  BY <1>4 DEF ExistsBijection
<1> QED  BY <1>1, <1>5, FS_CountingElements, FS_NatBijection

-------------------------------------------------------------------------------
\* Bodies

\* What is given for a key is the value of its one member.
LEMMA GivenIsWritten ==
    ASSUME NEW ms, OneEach(ms)
    PROVE  /\ \A i \in DOMAIN ms : Given(ms, ms[i].key) = ms[i].value
           /\ \A k : Given(ms, k) # None => \E i \in DOMAIN ms : ms[i].key = k
  BY DEF Given, At, Keys, OneEach

\* A name that was read has the text that was written.
LEMMA NamesKeepTheirText ==
    \A written : FullName(written) # None => FullName(written) = Texts(written)
  BY DEF FullName

\* What ReadBody has checked of a body it takes.
LEMMA TakenBodies ==
    ASSUME NEW sent, ReadBody(sent).kind = "request"
    PROVE  LET ms    == Members(sent)
               one   == Given(ms, "repository")
               list  == Given(ms, "repositories")
               names == IF list # None THEN ReadNames(list) ELSE ReadNames(<<one>>)
           IN /\ OneEach(ms) /\ Given(ms, "permissions") # None
              /\ (one = None) # (list = None)
              /\ ~(list # None /\ Len(list) < 2)
              /\ None \notin ToSet(names)
              /\ \A i, j \in DOMAIN names : i # j => ~SameIgnoringCase(names[i], names[j])
              /\ ReadBody(sent).repositories = names
              /\ ReadBody(sent).multiple = (list # None)
<1> DEFINE ms    == Members(sent)
           one   == Given(ms, "repository")
           list  == Given(ms, "repositories")
           names == IF list # None THEN ReadNames(list) ELSE ReadNames(<<one>>)
           many  == list # None
           bad   == \/ sent.long
                    \/ ~OneEach(ms) \/ ~Keys(ms) \subseteq {"repository", "repositories", "permissions"}
                    \/ Given(ms, "permissions") = None \/ ~ReadPermissions(At(ms, "permissions"))
                    \/ (one = None) = (list = None)
                    \/ list # None /\ Len(list) < 2
                    \/ None \in ToSet(names)
                    \/ \E i, j \in DOMAIN names : i # j /\ SameIgnoringCase(names[i], names[j])
           read  == [kind |-> "request", repositories |-> names, multiple |-> many,
                     permissions |-> At(ms, "permissions")]
<1>1. ReadBody(sent) = IF bad THEN Invalid ELSE read
  BY DEF ReadBody
<1>2. read.repositories = names /\ read.multiple = many
  OBVIOUS
<1>3. Invalid.kind = "invalid"
  BY DEF Invalid
<1> HIDE DEF bad, read
<1>4. ~bad /\ ReadBody(sent) = read
  BY <1>1, <1>3
<1>5. ReadBody(sent).repositories = names /\ ReadBody(sent).multiple = many
  BY <1>2, <1>4
<1> HIDE DEF names
<1>6. /\ OneEach(ms) /\ Given(ms, "permissions") # None
      /\ (one = None) # (list = None)
      /\ ~(list # None /\ Len(list) < 2)
      /\ None \notin ToSet(names)
      /\ \A i, j \in DOMAIN names : i # j => ~SameIgnoringCase(names[i], names[j])
  BY <1>4 DEF bad
<1> QED  BY <1>5, <1>6 DEF names

LEMMA TakenBodiesReadOneWay ==
    ASSUME NEW sent, WellFormed(sent), ReadBody(sent).kind = "request"
    PROVE  LET read == ReadBody(sent)
           IN /\ OneEach(Members(sent)) /\ Len(Members(sent)) >= 2
              /\ ToSet(read.repositories) =
                   UNION {IF m.key = "repository" /\ m.value # None THEN {Texts(m.value)}
                          ELSE IF m.key = "repositories" /\ m.value # None
                               THEN {Texts(m.value[i]) : i \in DOMAIN m.value}
                               ELSE {} : m \in ToSet(Members(sent))}
              /\ Len(read.repositories) = Cardinality(ToSet(read.repositories))
              /\ read.multiple <=> Len(read.repositories) > 1
<1> DEFINE ms    == Members(sent)
           one   == Given(ms, "repository")
           list  == Given(ms, "repositories")
           names == IF list # None THEN ReadNames(list) ELSE ReadNames(<<one>>)
           Of1(m) == IF m.key = "repository" /\ m.value # None THEN {Texts(m.value)}
                     ELSE IF m.key = "repositories" /\ m.value # None
                          THEN {Texts(m.value[i]) : i \in DOMAIN m.value}
                          ELSE {}
<1>1. /\ OneEach(ms) /\ Given(ms, "permissions") # None
      /\ (one = None) # (list = None)
      /\ ~(list # None /\ Len(list) < 2)
      /\ None \notin ToSet(names)
      /\ \A i, j \in DOMAIN names : i # j => ~SameIgnoringCase(names[i], names[j])
      /\ ReadBody(sent).repositories = names
      /\ ReadBody(sent).multiple = (list # None)
  BY TakenBodies
<1>2. Len(ms) \in Nat /\ DOMAIN ms = 1..Len(ms)
  BY DEF WellFormed
<1>3. /\ \A i \in DOMAIN ms : Given(ms, ms[i].key) = ms[i].value
      /\ \A k : Given(ms, k) # None => \E i \in DOMAIN ms : ms[i].key = k
  BY <1>1, GivenIsWritten
<1>4. Len(ms) >= 2
  <2>1. PICK i \in DOMAIN ms : ms[i].key = "permissions"
    BY <1>1, <1>3
  <2>2. PICK j \in DOMAIN ms : ms[j].key \in {"repository", "repositories"}
    BY <1>1, <1>3
  <2> HIDE DEF ms
  <2>3. i # j
    BY <2>1, <2>2
  <2> QED  BY <1>2, <2>3
<1>5. list # None => list \in Seq(Seq(Segments))
  BY <1>3 DEF WellFormed
<1> HIDE DEF ms, one, list
\* The names, one by one.
<1>6. /\ list # None => /\ DOMAIN names = DOMAIN list /\ Len(names) = Len(list)
                        /\ \A i \in DOMAIN list : names[i] = Texts(list[i])
      /\ list = None => names = <<Texts(one)>>
      /\ names \in Seq(ToSet(names))
  <2>1. CASE list # None
    <3>1. names = [i \in 1..Len(list) |-> FullName(list[i])] /\ Len(list) \in Nat
      BY <1>5, <2>1 DEF ReadNames
    <3> HIDE DEF names
    <3>2. DOMAIN names = 1..Len(list) /\ DOMAIN list = 1..Len(list)
      BY <1>5, <2>1, <3>1
    <3>3. \A i \in 1..Len(list) : names[i] # None /\ names[i] = FullName(list[i])
      BY <1>1, <3>1, <3>2 DEF ToSet
    <3>4. names \in Seq(ToSet(names)) /\ Len(names) = Len(list)
      BY <3>1, <3>2, IsASeq DEF ToSet
    <3> QED  BY <2>1, <3>2, <3>3, <3>4, NamesKeepTheirText
  <2>2. CASE list = None
    <3>1. names = <<FullName(one)>>
      BY <2>2 DEF ReadNames
    <3> HIDE DEF names
    <3>2. FullName(one) # None
      BY <1>1, <3>1 DEF ToSet
    <3> QED  BY <2>2, <3>1, <3>2, NamesKeepTheirText DEF ToSet
  <2> QED  BY <2>1, <2>2
<1> HIDE DEF names
<1>7. IsInjective(names)
  BY <1>1 DEF IsInjective, SameIgnoringCase
<1>8. Len(names) = Cardinality(ToSet(names))
  BY <1>6, <1>7, ListsAreCounted
<1>9. list # None <=> Len(names) > 1
  <2>1. CASE list # None
    BY <1>1, <1>5, <1>6, <2>1
  <2>2. CASE list = None
    BY <1>6, <2>2
  <2> QED  BY <2>1, <2>2
\* What they name is what any member names.
<1>10. ASSUME NEW t \in ToSet(names)  PROVE \E m \in ToSet(ms) : t \in Of1(m)
  <2>1. CASE list # None
    <3>1. PICK i \in DOMAIN list : t = Texts(list[i])
      BY <1>6, <2>1 DEF ToSet
    <3>2. PICK k \in DOMAIN ms : ms[k].key = "repositories" /\ ms[k].value = list
      BY <1>3, <2>1 DEF list
    <3> QED  BY <2>1, <3>1, <3>2 DEF ToSet
  <2>2. CASE list = None
    <3>1. t = Texts(one) /\ one # None
      BY <1>1, <1>6, <2>2 DEF ToSet
    <3>2. PICK k \in DOMAIN ms : ms[k].key = "repository" /\ ms[k].value = one
      BY <1>3, <3>1 DEF one
    <3> QED  BY <3>1, <3>2 DEF ToSet
  <2> QED  BY <2>1, <2>2
<1>11. ASSUME NEW m \in ToSet(ms), NEW t \in Of1(m)  PROVE t \in ToSet(names)
  <2>1. PICK k \in DOMAIN ms : ms[k] = m
    BY DEF ToSet
  <2>2. Given(ms, m.key) = m.value
    BY <1>3, <2>1
  <2>3. CASE m.key = "repository" /\ m.value # None
    <3>1. one # None /\ t = Texts(one)
      BY <2>2, <2>3 DEF one
    <3>2. names = <<t>>
      BY <1>1, <1>6, <3>1
    <3> QED  BY <3>2 DEF ToSet
  <2>4. CASE m.key = "repositories" /\ m.value # None
    <3>1. list # None /\ \E i \in DOMAIN list : t = Texts(list[i])
      BY <2>2, <2>4 DEF list
    <3> QED  BY <1>6, <3>1 DEF ToSet
  <2> QED  BY <2>3, <2>4
<1> HIDE DEF Of1
<1>12. ToSet(names) = UNION {Of1(m) : m \in ToSet(ms)}
  BY <1>10, <1>11
<1> QED  BY <1>1, <1>4, <1>8, <1>9, <1>12 DEF Of1, ms

-------------------------------------------------------------------------------
\* From the client to the broker and back

\* A name with good segments is read as its texts, with or without blanks.
LEMMA GoodNames ==
    ASSUME NEW name \in Seq(Segments), NEW trimmed, ClientName(name, trimmed)
    PROVE  /\ Texts(name) \in Seq(STRING) /\ Texts(name) # None
           /\ FullName(name) = Texts(name) /\ FullName(Bare(name)) = Texts(name)
           /\ Bare(name) \in Seq(Segments)
<1>1. Len(name) = 2 /\ DOMAIN name = 1..2
  BY DEF ClientName
<1>2. \A i \in 1..2 : name[i].text \in STRING /\ IsValidSlug(name[i].text)
  <2>1. \A i \in 1..2 : name[i] \in Segments /\ i \in {1, 2}
    BY <1>1
  <2>2. \A i \in {1, 2} : IsValidSlug(name[i].text)
    BY Zenon DEF ClientName
  <2> QED  BY <2>1, <2>2 DEF Segments
<1>3. Texts(name) \in Seq(STRING)
  BY <1>1, <1>2 DEF Texts
<1>4. Bare(name) \in Seq(Segments) /\ Len(Bare(name)) = 2 /\ DOMAIN Bare(name) = 1..2
  BY <1>1, <1>2 DEF Bare, Plain, Segment, Segments
<1>5. \A i \in 1..2 : Bare(name)[i].text = name[i].text
  BY <1>1 DEF Bare, Plain, Segment
<1>6. Texts(Bare(name)) = Texts(name)
  BY <1>1, <1>4, <1>5 DEF Texts
<1> QED  BY <1>1, <1>2, <1>3, <1>4, <1>5, <1>6, NoneIsNoText DEF FullName

\* What the client takes for permissions the broker takes.
LEMMA GoodPermissions ==
    ASSUME NEW lines, ClientPermissions(lines)
    PROVE  ReadPermissions(lines)
  BY DEF ClientPermissions, ReadPermissions, PermissionIsValid

\* A body of a key with its value and of permissions, and the request it comes to.
IsPair(sent, key, value, ps, names) ==
    /\ key \in {"repository", "repositories"} /\ value # None
    /\ ps # None /\ ReadPermissions(ps)
    /\ key = "repositories" => ~(Len(value) < 2) /\ names = ReadNames(value)
    /\ key = "repository"   => names = ReadNames(<<value>>)
    /\ None \notin ToSet(names)
    /\ \A i, j \in DOMAIN names : i # j => ~SameIgnoringCase(names[i], names[j])
    /\ sent.long = FALSE
    /\ Members(sent) = <<Member(key, value), Member("permissions", ps)>>

Pair(key, ps, names) ==
    [kind |-> "request", repositories |-> names, multiple |-> key = "repositories",
     permissions |-> ps]

LEMMA PairsAreRead ==
    ASSUME NEW key, NEW value, NEW ps, NEW names, NEW sent, IsPair(sent, key, value, ps, names)
    PROVE  ReadBody(sent) = Pair(key, ps, names)
<1> USE DEF IsPair, Pair
<1> DEFINE ms == <<Member(key, value), Member("permissions", ps)>>
<1>1. /\ DOMAIN ms = 1..2 /\ ms[1].key = key /\ ms[1].value = value
      /\ ms[2].key = "permissions" /\ ms[2].value = ps
  BY DEF Member
<1>2. sent.long = FALSE /\ Members(sent) = ms
  BY DEF ms
<1> HIDE DEF ms
<1>3. OneEach(ms) /\ Keys(ms) = {key, "permissions"}
  BY <1>1 DEF OneEach, Keys
<1>4. /\ Given(ms, key) = value /\ Given(ms, "permissions") = ps /\ At(ms, "permissions") = ps
      /\ \A k : k \notin {key, "permissions"} => Given(ms, k) = None
  <2>1. \A i \in DOMAIN ms : Given(ms, ms[i].key) = ms[i].value
    BY <1>3, GivenIsWritten
  <2>2. Given(ms, "permissions") = At(ms, "permissions")
    BY <1>3 DEF Given
  <2> QED  BY <1>1, <1>3, <2>1, <2>2 DEF Given
<1>5. CASE key = "repository"
  <2>1. Given(ms, "repositories") = None
    BY <1>4, <1>5
  <2> QED  BY <1>2, <1>3, <1>4, <1>5, <2>1 DEF ReadBody
<1>6. CASE key = "repositories"
  <2>1. Given(ms, "repository") = None
    BY <1>4, <1>6
  <2> QED  BY <1>2, <1>3, <1>4, <1>6, <2>1 DEF ReadBody
<1> QED  BY <1>5, <1>6

\* What the client means by its inputs.
Meant(in) ==
    IF in.permissions = None THEN NoBody
    ELSE [kind |-> "request", multiple |-> in.repositories # None, permissions |-> in.permissions,
          repositories |-> IF in.repositories # None
                           THEN [i \in DOMAIN in.repositories |-> Texts(in.repositories[i])]
                           ELSE <<Texts(in.repository)>>]

\* It is well formed.
LEMMA PairsAreWellFormed ==
    ASSUME NEW key, NEW value, NEW ps, NEW sent,
           Members(sent) = <<Member(key, value), Member("permissions", ps)>>,
           key = "repositories" => value \in Seq(Seq(Segments))
    PROVE  WellFormed(sent)
<1> DEFINE ms == <<Member(key, value), Member("permissions", ps)>>
<1>1. /\ Len(ms) = 2 /\ DOMAIN ms = 1..2 /\ ms[1].key = key /\ ms[1].value = value
      /\ ms[2].key = "permissions"
  BY DEF Member
<1> HIDE DEF ms
<1>2. \A i \in DOMAIN ms : ms[i].key = "repositories" => ms[i].value \in Seq(Seq(Segments))
  BY <1>1
<1>3. Members(sent) = ms
  BY DEF ms
<1> QED  BY <1>1, <1>2, <1>3 DEF WellFormed

\* The body of the client comes to what the client means by it.
LEMMA ClientIsRead ==
    ASSUME NEW in \in Inputs, ClientTakes(in), NEW sent \in ClientBody(in), sent # None
    PROVE  /\ WellFormed(sent)
           /\ sent.long => ReadBody(sent) = Invalid
           /\ ~sent.long => ReadBody(sent) = Meant(in)
<1>1. /\ in.permissions # None /\ ReadPermissions(in.permissions)
      /\ (in.repository = None) # (in.repositories = None)
  BY GoodPermissions DEF ClientBody, ClientTakes
<1>2. sent.long => ReadBody(sent) = Invalid
  BY DEF ReadBody
<1>3. CASE in.repository # None
  <2> DEFINE names == <<Texts(in.repository)>>
  <2>1. sent.long = FALSE /\ Members(sent) = <<Member("repository", in.repository),
                                               Member("permissions", in.permissions)>>
    BY <1>1, <1>3 DEF ClientBody, Members
  <2>2. in.repository \in Seq(Segments) /\ ClientName(in.repository, FALSE)
    BY <1>3, InputsAreWritten DEF ClientTakes
  <2>3. FullName(in.repository) = Texts(in.repository) /\ Texts(in.repository) # None
    BY <2>2, GoodNames
  <2>4. names = ReadNames(<<in.repository>>) /\ None \notin ToSet(names)
    BY <2>3 DEF ReadNames, ToSet
  <2>5. \A i, j \in DOMAIN names : i = j
    OBVIOUS
  <2> HIDE DEF names
  <2>6. ReadBody(sent) = [kind |-> "request", repositories |-> names, multiple |-> FALSE,
                          permissions |-> in.permissions]
    <3>1. "repository" # "repositories"
      OBVIOUS
    <3>2. IsPair(sent, "repository", in.repository, in.permissions, names)
      BY <1>1, <1>3, <2>1, <2>4, <2>5, <3>1 DEF IsPair
    <3>3. ReadBody(sent) = Pair("repository", in.permissions, names)
      BY <3>2, PairsAreRead
    <3> QED  BY <3>3 DEF Pair
  <2>7. WellFormed(sent)
    BY <2>1, PairsAreWellFormed
  <2> QED  BY <1>1, <1>2, <1>3, <2>6, <2>7 DEF Meant, names
<1>4. CASE in.repositories # None
  <2> DEFINE list  == in.repositories
             bare  == [i \in DOMAIN list |-> Bare(list[i])]
             names == [i \in DOMAIN list |-> Texts(list[i])]
  <2>1. sent.long \in BOOLEAN /\ Members(sent) = <<Member("repositories", bare),
                                                    Member("permissions", in.permissions)>>
    BY <1>1, <1>4 DEF ClientBody, Members
  <2>2. list \in Seq(Seq(Segments)) /\ ClientList(list)
    BY <1>4, InputsAreWritten DEF ClientTakes
  <2> HIDE DEF list
  <2>3. ASSUME NEW i \in DOMAIN list
        PROVE  /\ Texts(list[i]) # None /\ FullName(Bare(list[i])) = Texts(list[i])
               /\ Bare(list[i]) \in Seq(Segments)
    <3>1. list[i] \in Seq(Segments)
      BY <2>2
    <3>2. ClientName(list[i], TRUE)
      BY <2>2, Zenon DEF ClientList
    <3> QED  BY <3>1, <3>2, GoodNames
  <2>4. bare \in Seq(Seq(Segments)) /\ DOMAIN bare = DOMAIN list /\ Len(bare) = Len(list)
    <3>1. Len(list) \in Nat /\ DOMAIN list = 1..Len(list)
      BY <2>2
    <3>2. bare = [i \in 1..Len(list) |-> Bare(list[i])]
      BY <3>1
    <3> HIDE DEF bare
    <3>3. bare \in [1..Len(list) -> Seq(Segments)]
      BY <2>3, <3>1, <3>2
    <3> QED  BY <3>1, <3>3, SeqDef
  <2>5. names = ReadNames(bare)
    BY <2>3, <2>4 DEF ReadNames
  <2>6. None \notin ToSet(names)
    BY <2>3 DEF ToSet
  <2>7. \A i, j \in DOMAIN names : i # j => ~SameIgnoringCase(names[i], names[j])
    BY <2>2 DEF ClientList
  <2>8. ~(Len(bare) < 2) /\ bare # None
    <3>1. DOMAIN list = 1..Len(list) /\ Len(list) \in Nat /\ Len(list) >= 2
      BY <2>2 DEF ClientList
    <3> QED  BY <2>4, <3>1, NoneIsNoText
  <2> HIDE DEF bare, names
  <2>9. ~sent.long => ReadBody(sent) = [kind |-> "request", repositories |-> names, multiple |-> TRUE,
                                        permissions |-> in.permissions]
    <3> SUFFICES ASSUME ~sent.long
                 PROVE  ReadBody(sent) = Pair("repositories", in.permissions, names)
      BY DEF Pair
    <3>1. sent.long = FALSE /\ Members(sent) = <<Member("repositories", bare),
                                                Member("permissions", in.permissions)>>
      BY <2>1
    <3>2. IsPair(sent, "repositories", bare, in.permissions, names)
      BY <1>1, <2>5, <2>6, <2>7, <2>8, <3>1 DEF IsPair
    <3> QED  BY <3>2, PairsAreRead
  <2>10. WellFormed(sent)
    BY <2>1, <2>4, PairsAreWellFormed
  <2> QED  BY <1>1, <1>2, <1>4, <2>9, <2>10 DEF Meant, names, list
<1> QED  BY <1>1, <1>3, <1>4

\* A client that has a rule's grant of what it meant accepts it.
LEMMA GrantsAreAccepted ==
    ASSUME NEW in \in Inputs, ClientTakes(in), NEW rule \in Rules, Allows(rule, Meant(in))
    PROVE  ClientAccepts(in, Scope(Meant(in), rule))
<1> DEFINE asked   == Meant(in)
           targets == rule.targets
           granted == Kept(targets, ToSet(asked.repositories))
<1>1. targets \in Seq(Seq(STRING)) /\ targets # <<>> /\ IsInjective(targets)
  BY RulesAreWritten
<1>2. /\ granted \in Seq(Seq(STRING)) /\ IsInjective(granted)
      /\ ToSet(granted) = ToSet(asked.repositories) \cap ToSet(targets)
      /\ Len(granted) = Cardinality(ToSet(granted))
  BY <1>1, KeptIsWanted, ListsAreCounted
<1>3. CASE in.permissions = None
  <2>1. asked = NoBody /\ in.repository = None /\ in.repositories = None
    BY <1>3 DEF Meant, ClientTakes
  <2>2. Scope(asked, rule) = [repository |-> targets[1], repositories |-> None]
    BY <2>1 DEF Scope, NoBody
  <2>3. targets[1] # None
    <3>1. targets[1] \in Seq(STRING)
      BY <1>1
    <3> QED  BY <3>1, NoneIsNoText
  <2> HIDE DEF asked, targets
  <2> QED  BY <2>1, <2>2, <2>3 DEF ClientAccepts, asked
<1>4. CASE in.permissions # None
  <2>1. /\ asked.kind = "request" /\ (in.repository = None) # (in.repositories = None)
        /\ asked.multiple = (in.repositories # None)
        /\ ToSet(asked.repositories) \subseteq ToSet(targets)
    BY <1>4 DEF Meant, ClientTakes, Allows
  <2>2. ToSet(granted) = ToSet(asked.repositories)
    BY <1>2, <2>1
  <2>3. CASE in.repositories # None
    <3> DEFINE list  == in.repositories
               names == [i \in DOMAIN list |-> Texts(list[i])]
    <3>1. asked.repositories = names
      BY <1>4, <2>3 DEF Meant
    <3>2. Scope(asked, rule) = [repository |-> None, repositories |-> granted]
      BY <2>1, <2>3 DEF Scope
    <3>3. list \in Seq(Seq(Segments)) /\ ClientList(list)
      BY <2>3, InputsAreWritten DEF ClientTakes
    <3> HIDE DEF list, granted
    <3>4. DOMAIN list = 1..Len(list) /\ Len(list) \in Nat
      BY <3>3
    <3>5. names \in Seq(Seq(STRING)) /\ Len(names) = Len(list)
      <4>1. ASSUME NEW i \in DOMAIN list  PROVE Texts(list[i]) \in Seq(STRING)
        <5>1. list[i] \in Seq(Segments)
          BY <3>3
        <5>2. ClientName(list[i], TRUE)
          BY <3>3, Zenon DEF ClientList
        <5> QED  BY <5>1, <5>2, GoodNames
      <4>2. names = [i \in 1..Len(list) |-> Texts(list[i])]
        BY <3>4
      <4> HIDE DEF names
      <4>3. names \in [1..Len(list) -> Seq(STRING)]
        BY <3>4, <4>1, <4>2
      <4> QED  BY <3>4, <4>3, SeqDef
    <3>6. IsInjective(names)
      BY <3>3 DEF ClientList, IsInjective, SameIgnoringCase
    <3>7. \A i \in DOMAIN list : Texts(list[i]) \in ToSet(names)
      BY DEF ToSet
    <3> HIDE DEF names
    <3>8. Len(granted) = Len(list)
      BY <1>2, <2>2, <3>1, <3>5, <3>6, ListsAreCounted
    <3>9. granted # None
      BY <1>2, NoneIsNoText
    <3>10. \A i \in DOMAIN list : Texts(list[i]) \in ToSet(granted)
      BY <2>2, <3>1, <3>7
    <3> QED  BY <2>3, <3>2, <3>8, <3>9, <3>10 DEF ClientAccepts, list
  <2>4. CASE in.repository # None
    <3> DEFINE name == Texts(in.repository)
    <3>1. asked.repositories = <<name>> /\ in.repositories = None
      BY <1>4, <2>1, <2>4 DEF Meant
    <3>2. Scope(asked, rule) = [repository |-> granted[1], repositories |-> None]
      BY <2>1, <3>1 DEF Scope
    <3>3. name # None
      <4>1. in.repository \in Seq(Segments) /\ ClientName(in.repository, FALSE)
        BY <2>4, InputsAreWritten DEF ClientTakes
      <4> QED  BY <4>1, GoodNames
    <3> HIDE DEF name, granted
    <3>4. ToSet(granted) = {name}
      BY <2>2, <3>1 DEF ToSet
    <3>5. 1 \in DOMAIN granted
      <4>1. PICK i \in DOMAIN granted : granted[i] = name
        BY <3>4 DEF ToSet
      <4> QED  BY <1>2, <4>1
    <3>6. granted[1] = name
      BY <3>4, <3>5 DEF ToSet
    <3> QED  BY <2>4, <3>1, <3>2, <3>3, <3>6 DEF ClientAccepts, name
  <2> QED  BY <2>1, <2>3, <2>4
<1> QED  BY <1>3, <1>4

-------------------------------------------------------------------------------
\* The invariant of the texts

LEMMA ReadInvInit == ReadInit => ReadInv
<1> SUFFICES ASSUME ReadInit  PROVE ReadInv
  OBVIOUS
<1>1. RequestIsRead
  BY InputsAreWritten DEF ReadInit, RequestIsRead
<1>2. ClientIsAt
  BY InputsAreWritten DEF ReadInit, ClientIsAt
<1>3. ChecksAreBehind
  BY DEF ReadInit, ChecksAreBehind
<1> QED  BY <1>1, <1>2, <1>3 DEF ReadInv

\* What a job sends, and what comes of it.
LEMMA RequestOfClient ==
    ASSUME ReadInv, inputs # None, body # None, stage \notin {"client", "refused"}
    PROVE  /\ body.long => ReadBody(body) = Invalid
           /\ ~body.long => ReadBody(body) = Meant(inputs)
  BY ClientIsRead DEF ReadInv, ClientIsAt

LEMMA KindsOfRequests ==
    /\ NoBody.kind = "none" /\ Invalid.kind = "invalid"
    /\ \A sent : ReadBody(sent).kind \in {"invalid", "request"}
<1>1. NoBody.kind = "none" /\ Invalid.kind = "invalid"
  BY DEF NoBody, Invalid
<1>2. ASSUME NEW sent  PROVE ReadBody(sent).kind \in {"invalid", "request"}
  BY <1>1 DEF ReadBody
<1> QED  BY <1>1, <1>2

LEMMA ReadInvNext == ReadInv /\ [ReadNext]_texts => ReadInv'
<1> SUFFICES ASSUME ReadInv, [ReadNext]_texts  PROVE ReadInv'
  OBVIOUS
<1> USE DEF ReadInv
<1>1. CASE ClientSends
  <2>1. RequestIsRead'
    <3>1. inputs \in Inputs /\ request = NoBody /\ stage = "client"
      BY <1>1 DEF ClientSends, ClientIsAt
    <3>2. CASE ClientTakes(inputs)
      <4>1. body' \in ClientBody(inputs) /\ stage' = "broker"
        BY <1>1, <3>2 DEF ClientSends
      <4>2. body' # None => WellFormed(body')
        BY <3>1, <3>2, <4>1, ClientIsRead
      <4> QED  BY <1>1, <3>1, <4>1, <4>2 DEF ClientSends, RequestIsRead
    <3>3. CASE ~ClientTakes(inputs)
      <4>1. stage' = "refused" /\ UNCHANGED <<body, request, answer>>
        BY <1>1, <3>3 DEF ClientSends
      <4> QED  BY <3>1, <4>1 DEF RequestIsRead
    <3> QED  BY <3>2, <3>3
  <2>2. ClientIsAt'
    BY <1>1 DEF ClientSends, ClientIsAt
  <2>3. ChecksAreBehind'
    BY <1>1 DEF ClientSends, ChecksAreBehind
  <2> QED  BY <2>1, <2>2, <2>3
<1>2. CASE BrokerReads
  <2>1. RequestIsRead'
    BY <1>2, KindsOfRequests DEF BrokerReads, RequestIsRead
  <2>2. ClientIsAt'
    BY <1>2 DEF BrokerReads, ClientIsAt
  <2>3. ChecksAreBehind'
    BY <1>2 DEF BrokerReads, ChecksAreBehind
  <2> QED  BY <2>1, <2>2, <2>3
<1>3. ASSUME NEW rule \in Rules, BrokerAnswers(rule)  PROVE ReadInv'
  <2>1. RequestIsRead'
    BY <1>3 DEF BrokerAnswers, RequestIsRead
  <2>2. ClientIsAt'
    BY <1>3 DEF BrokerAnswers, ClientIsAt
  <2>3. ChecksAreBehind'
    BY <1>3 DEF BrokerAnswers, ChecksAreBehind
  <2> QED  BY <2>1, <2>2, <2>3
<1>4. CASE ClientChecks
  <2>1. request = Meant(inputs)
    <3>1. /\ inputs \in Inputs /\ ClientTakes(inputs) /\ body \in ClientBody(inputs)
          /\ stage = "check" /\ inputs # None
      BY <1>4 DEF ClientChecks, ClientIsAt
    <3>2. CASE body = None
      <4>1. inputs.permissions = None
        BY <3>1, <3>2, NoneIsNoBody
      <4> QED  BY <3>1, <3>2, <4>1 DEF RequestIsRead, Meant
    <3>3. CASE body # None
      <4>1. request = ReadBody(body) /\ request.kind # "invalid"
        BY <3>1, <3>3 DEF RequestIsRead
      <4> QED  BY <3>1, <3>3, <4>1, RequestOfClient, KindsOfRequests
    <3> QED  BY <3>2, <3>3
  <2>2. ClientAccepts(inputs, answer)
    <3>1. inputs \in Inputs /\ ClientTakes(inputs) /\ stage = "check"
      BY <1>4 DEF ClientChecks, ClientIsAt
    <3>2. PICK rule \in Rules : Allows(rule, request) /\ answer = Scope(request, rule)
      BY <3>1 DEF RequestIsRead
    <3> QED  BY <2>1, <3>1, <3>2, GrantsAreAccepted
  <2>3. stage' = "done" /\ stage = "check" /\ UNCHANGED <<inputs, body, request, answer, policy, place>>
    BY <1>4, <2>2 DEF ClientChecks
  <2>4. RequestIsRead'
    BY <2>3 DEF RequestIsRead
  <2>5. ClientIsAt' /\ ChecksAreBehind'
    BY <2>3 DEF ClientIsAt, ChecksAreBehind
  <2> QED  BY <2>4, <2>5
<1>5. CASE PolicyIsRead \/ Locate \/ RuleIsNamed
  <2>1. RequestIsRead'
    BY <1>5 DEF PolicyIsRead, Locate, RuleIsNamed, RequestIsRead
  <2>2. ClientIsAt'
    BY <1>5 DEF PolicyIsRead, Locate, RuleIsNamed, ClientIsAt
  <2>3. ChecksAreBehind'
    BY <1>5 DEF PolicyIsRead, Locate, RuleIsNamed, ChecksAreBehind
  <2> QED  BY <2>1, <2>2, <2>3
<1>6. CASE UNCHANGED texts
  BY <1>6 DEF texts, RequestIsRead, ClientIsAt, ChecksAreBehind
<1> QED  BY <1>1, <1>2, <1>3, <1>4, <1>5, <1>6 DEF ReadNext

\* What each stage has behind it, whatever is written.
THEOREM ReadInvHolds == ReadSpec => []ReadInv
  BY ReadInvInit, ReadInvNext, PTL DEF ReadSpec

-------------------------------------------------------------------------------
\* The strict parser

\* What it has read at each depth is defined.
LEMMA ReadIsDefined ==
    ASSUME NEW text, NEW deepest \in Nat
    PROVE  \E f : f = [n \in 0..deepest |->
                          IF n = 0 THEN Atoms(text) ELSE Readable(text, f[n - 1])]
<1> DEFINE Defined(k) == \E f : f = [n \in 0..k |-> IF n = 0 THEN Atoms(text)
                                                   ELSE Readable(text, f[n - 1])]
           S == {k \in Nat : Defined(k)}
<1>1. 0 \in S
  <2> DEFINE f == [n \in 0..0 |-> Atoms(text)]
  <2>1. f = [n \in 0..0 |-> IF n = 0 THEN Atoms(text) ELSE Readable(text, f[n - 1])]
    OBVIOUS
  <2> HIDE DEF f
  <2> QED  BY <2>1
<1>2. ASSUME NEW k \in Nat, k \in S  PROVE k + 1 \in S
  <2>1. PICK f : f = [n \in 0..k |-> IF n = 0 THEN Atoms(text) ELSE Readable(text, f[n - 1])]
    BY <1>2
  <2> DEFINE G(n) == IF n <= k THEN f[n] ELSE Readable(text, f[k])
             g == [n \in 0..(k + 1) |-> G(n)]
  <2>2. \A n \in 0..k : f[n] = IF n = 0 THEN Atoms(text) ELSE Readable(text, f[n - 1])
    BY <2>1
  <2>3. ASSUME NEW n \in 0..(k + 1)
        PROVE  G(n) = IF n = 0 THEN Atoms(text) ELSE Readable(text, G(n - 1))
    <3>1. CASE n = 0
      BY <2>2, <3>1
    <3>2. CASE n \in 1..k
      <4>1. G(n) = f[n] /\ G(n - 1) = f[n - 1] /\ n \in 0..k /\ n # 0
        BY <3>2
      <4> QED  BY <2>2, <4>1
    <3>3. CASE n = k + 1
      <4>1. G(n) = Readable(text, f[k]) /\ G(n - 1) = f[k] /\ n # 0
        BY <3>3
      <4> QED  BY <3>3, <4>1
    <3> QED  BY <3>1, <3>2, <3>3
  <2> HIDE DEF G
  <2>4. \A n \in 0..(k + 1) : n # 0 => g[n - 1] = G(n - 1)
    OBVIOUS
  <2>5. g = [n \in 0..(k + 1) |-> G(n)]
    OBVIOUS
  <2> HIDE DEF g
  <2> DEFINE H(n) == IF n = 0 THEN Atoms(text) ELSE Readable(text, g[n - 1])
  <2>6. \A n \in 0..(k + 1) : G(n) = H(n)
    BY <2>3, <2>4
  <2> HIDE DEF H
  <2>7. g = [n \in 0..(k + 1) |-> H(n)]
    BY <2>5, <2>6
  <2>8. g = [n \in 0..(k + 1) |-> IF n = 0 THEN Atoms(text) ELSE Readable(text, g[n - 1])]
    BY <2>7 DEF H
  <2>9. Defined(k + 1)
    BY <2>8
  <2> HIDE DEF Defined
  <2> QED  BY <2>9
<1> HIDE DEF S
<1>3. Nat \subseteq S
  BY <1>1, <1>2, AllNumbers
<1> QED  BY <1>3 DEF S

\* A position is the one it stands in and its last index.
LEMMA FrontsOfPositions ==
    ASSUME NEW p \in Seq(Nat), p # <<>>
    PROVE  /\ Front(p) \in Seq(Nat) /\ Len(Front(p)) = Len(p) - 1 /\ Last(p) \in Nat
           /\ Front(p) = SubSeq(p, 1, Len(p) - 1) /\ Len(p) - 1 \in 0..Len(p)
           /\ \A i \in 1..(Len(p) - 1) : p[i] = Front(p)[i]
           /\ p[Len(p)] = Last(p)
<1>1. Len(p) \in Nat /\ Len(p) # 0 /\ \A i \in 1..Len(p) : p[i] \in Nat
  OBVIOUS
<1>2. Front(p) = SubSeq(p, 1, Len(p) - 1) /\ Last(p) = p[Len(p)]
  BY DEF Front, Last
<1> DEFINE n == Len(p) - 1
<1>3. n \in Nat /\ n \in 0..Len(p) /\ Len(p) \in 1..Len(p)
  BY <1>1
<1>4. /\ SubSeq(p, 1, n) \in Seq(Nat) /\ Len(SubSeq(p, 1, n)) = n
      /\ \A i \in 1..n : p[i] = SubSeq(p, 1, n)[i]
  <2>1. \A i \in 1..n : p[i] \in Nat
    BY <1>1, <1>3
  <2>2. /\ SubSeq(p, 1, n) \in Seq(Nat) /\ Len(SubSeq(p, 1, n)) = IF 1 <= n THEN n - 1 + 1 ELSE 0
        /\ \A i \in 1..(n - 1 + 1) : SubSeq(p, 1, n)[i] = p[1 + i - 1]
    <3>1. 1 \in Int /\ n \in Int
      BY <1>3
    <3> HIDE DEF n
    <3> QED  BY <2>1, <3>1, SubSeqProperties
  <2> HIDE DEF n
  <2>3. n - 1 + 1 = n /\ \A i \in 1..n : 1 + i - 1 = i
    BY <1>3
  <2>4. Len(SubSeq(p, 1, n)) = n
    BY <1>3, <2>2
  <2> QED  BY <2>2, <2>3, <2>4
<1> QED  BY <1>1, <1>2, <1>3, <1>4

\* In a file, what a value stands in is a value of the file.
LEMMA FrontsAreInTheFile ==
    ASSUME NEW text \in PolicyTexts, NEW q \in DOMAIN text, q # <<>>
    PROVE  q \in Seq(Nat) /\ Front(q) \in DOMAIN text /\ Len(Front(q)) = Len(q) - 1
<1>1. q \in Seq(Nat) /\ \A n \in 0..Len(q) : SubSeq(q, 1, n) \in DOMAIN text
  BY FilesAreTrees
<1>2. Front(q) = SubSeq(q, 1, Len(q) - 1) /\ Len(q) - 1 \in 0..Len(q) /\ Len(Front(q)) = Len(q) - 1
  BY <1>1, FrontsOfPositions
<1> QED  BY <1>1, <1>2

LEMMA SameFrontOtherLast ==
    ASSUME NEW p \in Seq(Nat), NEW q \in Seq(Nat), p # <<>>, q # <<>>, p # q, Front(p) = Front(q)
    PROVE  Last(p) < Last(q) \/ Last(q) < Last(p)
<1> SUFFICES ASSUME Last(p) = Last(q)  PROVE p = q
  BY FrontsOfPositions
<1>1. Len(p) = Len(q) /\ Len(p) \in Nat /\ Len(q) \in Nat
  <2>1. Len(p) - 1 = Len(q) - 1
    BY FrontsOfPositions
  <2> QED  BY <2>1
<1>2. \A i \in 1..Len(p) : p[i] = q[i]
  <2> TAKE i \in 1..Len(p)
  <2>1. CASE i = Len(p)
    BY <1>1, <2>1, FrontsOfPositions
  <2>2. CASE i \in 1..(Len(p) - 1)
    <3>1. p[i] = Front(p)[i] /\ q[i] = Front(q)[i]
      BY <1>1, <2>2, FrontsOfPositions
    <3> QED  BY <3>1
  <2> QED  BY <2>1, <2>2
<1> QED  BY <1>1, <1>2

\* A text that parses has been read down to its last value: each was visited, and found
\* without a duplicate, on the way from the root.
LEMMA EveryValueIsVisited ==
    ASSUME NEW text \in PolicyTexts, Parses(text), NEW p \in DOMAIN text
    PROVE  \/ p \in Atoms(text)
           \/ \E read : Visits(text, p, read)
<1> DEFINE read == CHOOSE f : f = [n \in 0..MAX_DEPTH |->
                        IF n = 0 THEN Atoms(text) ELSE Readable(text, f[n - 1])]
<1>1. read = [n \in 0..MAX_DEPTH |-> IF n = 0 THEN Atoms(text) ELSE Readable(text, read[n - 1])]
  BY ReadIsDefined, FilesAreTrees
<1>2. <<>> \in read[MAX_DEPTH]
  BY DEF Parses, StrictValues
<1> HIDE DEF read
<1>3. \A n \in 0..MAX_DEPTH : read[n] = IF n = 0 THEN Atoms(text) ELSE Readable(text, read[n - 1])
  BY <1>1
<1> DEFINE IsRead(q) == \E n \in 0..MAX_DEPTH : q \in read[n]
           S == {k \in Nat : \A q \in DOMAIN text : Len(q) = k => IsRead(q)}
<1>4. ASSUME NEW q \in DOMAIN text, q # <<>>, IsRead(Front(q))  PROVE IsRead(q)
  <2>1. q \in Seq(Nat) /\ Front(q) \in DOMAIN text
    BY <1>4, FrontsAreInTheFile
  <2>2. q \in Within(text, Front(q))
    BY <1>4 DEF Within
  <2>3. Front(q) \notin Atoms(text)
    BY <2>1, <2>2, FilesAreTrees DEF Atoms
  <2>4. PICK n \in 0..MAX_DEPTH : Front(q) \in read[n]
    BY <1>4
  <2>5. n # 0 /\ Front(q) \in Readable(text, read[n - 1])
    BY <1>3, <2>3, <2>4
  <2>6. q \in read[n - 1] /\ n - 1 \in 0..MAX_DEPTH
    BY <2>2, <2>5, FilesAreTrees DEF Readable, Visits
  <2> QED  BY <2>6
<1>5. 0 \in S
  <2>1. ASSUME NEW q \in DOMAIN text, Len(q) = 0  PROVE IsRead(q)
    <3>1. q = <<>> /\ MAX_DEPTH \in 0..MAX_DEPTH
      BY <2>1, FilesAreTrees
    <3> QED  BY <1>2, <3>1
  <2> HIDE DEF IsRead
  <2> QED  BY <2>1
<1>6. ASSUME NEW k \in Nat, k \in S  PROVE k + 1 \in S
  <2>1. ASSUME NEW q \in DOMAIN text, Len(q) = k + 1  PROVE IsRead(q)
    <3>1. q \in Seq(Nat) /\ q # <<>>
      BY <2>1, FilesAreTrees
    <3>2. Front(q) \in DOMAIN text /\ Len(Front(q)) = k
      <4>1. Front(q) \in DOMAIN text /\ Len(Front(q)) = Len(q) - 1
        BY <3>1, FrontsAreInTheFile
      <4> QED  BY <1>6, <2>1, <4>1
    <3>3. IsRead(Front(q))
      BY <1>6, <3>2
    <3> HIDE DEF IsRead
    <3> QED  BY <1>4, <3>1, <3>3
  <2> HIDE DEF IsRead
  <2> QED  BY <2>1
<1> HIDE DEF S
<1>7. Nat \subseteq S
  BY <1>5, <1>6, AllNumbers
<1>8. IsRead(p)
  <2>1. Len(p) \in Nat
    BY FilesAreTrees
  <2> HIDE DEF IsRead
  <2> QED  BY <1>7, <2>1 DEF S
<1>9. PICK n \in 0..MAX_DEPTH : p \in read[n]
  BY <1>8
<1>10. CASE n = 0
  BY <1>3, <1>9, <1>10
<1>11. CASE n # 0
  BY <1>3, <1>9, <1>11 DEF Readable
<1> QED  BY <1>10, <1>11

\* So it has no two members of one key in any object.
LEMMA ParsedHasNoTwins ==
    ASSUME NEW text \in PolicyTexts, Parses(text), NEW p \in DOMAIN text, NEW q \in DOMAIN text
    PROVE  ~Twins(text, p, q)
<1> SUFFICES ASSUME Twins(text, p, q)  PROVE FALSE
  OBVIOUS
<1> DEFINE object == Front(p)
<1>1. /\ p # <<>> /\ q # <<>> /\ p # q /\ object = Front(q)
      /\ text[p].key # None /\ text[p].key = text[q].key
  BY DEF Twins
<1>2. p \in Seq(Nat) /\ q \in Seq(Nat) /\ object \in DOMAIN text
  BY <1>1, FilesAreTrees, FrontsOfPositions
<1> HIDE DEF object
<1>3. p \in Within(text, object) /\ q \in Within(text, object)
  BY <1>1 DEF Within, object
<1>4. text[object].kind = "object" /\ object \notin Atoms(text)
  BY <1>1, <1>2, <1>3, FilesAreTrees DEF Atoms
<1>5. PICK read : Visits(text, object, read)
  BY <1>2, <1>4, EveryValueIsVisited
<1>6. Last(p) < Last(q) \/ Last(q) < Last(p)
  BY <1>1, <1>2, SameFrontOtherLast DEF object
<1> QED  BY <1>1, <1>3, <1>4, <1>5, <1>6 DEF Visits

\* A policy file that is taken reads the same from either end of its duplicates: the
\* parser, which calls itself for every value, has met none (parse_strict_json).
THEOREM PoliciesReadOneWay == ReadSpec => []PolicyReadsOneWay
<1>1. ReadInv => PolicyReadsOneWay
  <2> SUFFICES ASSUME ReadInv, stage = "taken"
               PROVE  Reading(policy, "first") = Reading(policy, "last")
    BY DEF PolicyReadsOneWay
  <2>1. policy \in PolicyTexts /\ Parses(policy)
    BY DEF ReadInv, ChecksAreBehind, TextIsTaken
  <2>2. ASSUME NEW p \in DOMAIN policy, NEW n \in 1..Len(p), NEW q \in DOMAIN policy
        PROVE  ~Twins(policy, SubSeq(p, 1, n), q)
    <3>1. SubSeq(p, 1, n) \in DOMAIN policy
      BY <2>1, FilesAreTrees
    <3> QED  BY <2>1, <3>1, ParsedHasNoTwins
  <2> QED  BY <2>2 DEF Reading
<1> QED  BY <1>1, ReadInvHolds, PTL

\* All that the body of a taken exchange names is asked for, once (get_exchange_request).
THEOREM BodiesReadOneWay == ReadSpec => []BodyReadsOneWay
<1>1. ReadInv => BodyReadsOneWay
  <2> SUFFICES ASSUME ReadInv, request.kind = "request"  PROVE BodyReadsOneWay
    BY DEF BodyReadsOneWay
  <2>1. body # None /\ request = ReadBody(body) /\ WellFormed(body)
    BY KindsOfRequests DEF ReadInv, RequestIsRead
  <2> QED  BY <2>1, TakenBodiesReadOneWay DEF BodyReadsOneWay
<1> QED  BY <1>1, ReadInvHolds, PTL

LEMMA KindsOfMeanings ==
    \A in : Meant(in).kind \in {"none", "request"} /\ (Meant(in).kind = "request" => in.permissions # None)
  BY DEF Meant, NoBody

\* What the client sends, the broker reads as it was meant, and what the broker answers
\* the client accepts (run of action/main.js, get_exchange_request, success).
THEOREM ClientsAreUnderstood == ReadSpec => []ClientIsUnderstood
<1>1. ReadInv => ClientIsUnderstood
  <2> SUFFICES ASSUME ReadInv, inputs # None  PROVE ClientIsUnderstood
    BY DEF ClientIsUnderstood
  <2>1. stage # "failed"
    BY DEF ReadInv, ClientIsAt
  <2>2. ASSUME stage = "done", request.kind = "invalid"  PROVE body.long
    <3>1. body # None /\ request = ReadBody(body)
      BY <2>2, KindsOfRequests DEF ReadInv, RequestIsRead
    <3>2. ~body.long => request = Meant(inputs)
      BY <2>2, <3>1, RequestOfClient
    <3> QED  BY <2>2, <3>2, KindsOfMeanings
  <2>3. ASSUME request.kind = "request"
        PROVE  /\ request.permissions = inputs.permissions
               /\ request.repositories =
                    IF inputs.repositories # None
                    THEN [i \in DOMAIN inputs.repositories |-> Texts(inputs.repositories[i])]
                    ELSE <<Texts(inputs.repository)>>
    <3>1. body # None /\ request = ReadBody(body) /\ stage \notin {"client", "refused"}
      BY <2>3, KindsOfRequests DEF ReadInv, RequestIsRead, ClientIsAt
    <3>2. request = Meant(inputs)
      BY <2>3, <3>1, RequestOfClient, KindsOfRequests
    <3>3. inputs.permissions # None
      BY <2>3, <3>2, KindsOfMeanings
    <3> QED  BY <3>2, <3>3 DEF Meant
  <2> QED  BY <2>1, <2>2, <2>3 DEF ClientIsUnderstood
<1> QED  BY <1>1, ReadInvHolds, PTL

-------------------------------------------------------------------------------
\* Names in URLs

\* The texts of segments are texts, as many as the segments.
LEMMA TextsOfSegments ==
    ASSUME NEW written \in Seq(Segments)
    PROVE  /\ Texts(written) \in Seq(STRING) /\ Len(Texts(written)) = Len(written)
           /\ \A i \in 1..Len(written) : Texts(written)[i] = written[i].text
<1> DEFINE named == Texts(written)
<1>1. Len(written) \in Nat /\ DOMAIN written = 1..Len(written)
  OBVIOUS
<1>2. \A i \in DOMAIN written : written[i] \in Segments
  OBVIOUS
<1>3. named = [i \in 1..Len(written) |-> written[i].text]
  BY <1>1 DEF Texts
<1> HIDE DEF named
<1>4. \A i \in 1..Len(written) : written[i].text \in STRING
  BY <1>1, <1>2 DEF Segments
<1>5. named \in [1..Len(written) -> STRING]
  BY <1>3, <1>4
<1>6. named \in Seq(STRING) /\ Len(named) = Len(written)
  BY <1>1, <1>5, SeqDef
<1> QED  BY <1>3, <1>6 DEF named

\* Segments that leave the path above them as it is.
Stays(path) == path \in Seq(STRING) /\ \A i \in DOMAIN path : path[i] \notin {".", ".."}

LEMMA StayTogether ==
    ASSUME NEW p, NEW q, Stays(p), Stays(q)  PROVE Stays(p \o q)
<1>1. p \in Seq(STRING) /\ q \in Seq(STRING)
  BY DEF Stays
<1>2. p \o q \in Seq(STRING) /\ Len(p \o q) = Len(p) + Len(q)
  BY <1>1
<1>3. ASSUME NEW i \in DOMAIN (p \o q)  PROVE (p \o q)[i] \notin {".", ".."}
  <2>1. CASE i \in 1..Len(p)
    BY <1>1, <2>1 DEF Stays
  <2>2. CASE i \in (Len(p) + 1)..(Len(p) + Len(q))
    <3>1. (p \o q)[i] = q[i - Len(p)] /\ i - Len(p) \in DOMAIN q
      BY <1>1, <2>2
    <3> QED  BY <3>1 DEF Stays
  <2> QED  BY <1>1, <1>2, <2>1, <2>2
<1> QED  BY <1>2, <1>3 DEF Stays

LEMMA NamesStay ==
    ASSUME NEW written \in Seq(Segments), FullName(written) # None
    PROVE  Stays(FullName(written))
<1>1. FullName(written) = Texts(written) /\ Len(written) = 2
  BY DEF FullName
<1>2. \A i \in {1, 2} : IsValidSlug(written[i].text)
  BY Zenon DEF FullName
<1>3. \A i \in 1..2 : i \in {1, 2}
  OBVIOUS
<1>4. \A i \in 1..2 : Texts(written)[i] \notin {".", ".."}
  BY <1>1, <1>2, <1>3, TextsOfSegments DEF IsValidSlug
<1> QED  BY <1>1, <1>4, TextsOfSegments DEF Stays

LEMMA PathsStay ==
    ASSUME NEW written \in Seq(Segments), NEW long, PolicyPath(written, long) # None
    PROVE  Stays(PolicyPath(written, long))
<1>1. /\ PolicyPath(written, long) = Texts(written) /\ Len(written) >= 2
      /\ written[1].text = ".github"
  BY DEF PolicyPath
<1>2. \A i \in 2..Len(written) : IsValidSlug(written[i].text)
  BY Zenon DEF PolicyPath
<1>3. ASSUME NEW i \in 1..Len(written)  PROVE Texts(written)[i] \notin {".", ".."}
  <2>1. Texts(written)[i] = written[i].text
    BY TextsOfSegments
  <2>2. CASE i = 1
    BY <1>1, <2>1, <2>2
  <2>3. CASE i \in 2..Len(written)
    BY <1>2, <2>1, <2>3 DEF IsValidSlug
  <2> QED  BY <2>2, <2>3
<1> QED  BY <1>1, <1>3, TextsOfSegments DEF Stays

LEMMA FrontOfAppend ==
    ASSUME NEW seq \in Seq(STRING), NEW x \in STRING
    PROVE  Append(seq, x) \in Seq(STRING) \ {<<>>} /\ Front(Append(seq, x)) = seq
<1>1. /\ Append(seq, x) \in Seq(STRING) /\ Append(seq, x) # <<>>
      /\ Len(Append(seq, x)) = Len(seq) + 1
  BY AppendProperties
<1>2. Front(Append(seq, x)) = SubSeq(Append(seq, x), 1, Len(seq))
  BY <1>1 DEF Front
<1>3. SubSeq(Append(seq, x), 1, Len(seq)) = SubSeq(seq, 1, Len(seq))
  OBVIOUS
<1> QED  BY <1>1, <1>2, <1>3, SubSeqFull

\* A path that stays is put where the empty segment at the end of a base is.
LEMMA JoinStays ==
    ASSUME NEW url \in Urls, NEW base, base = ApiBase(url), base # None,
           NEW path, Stays(path)
    PROVE  Join(base, path).path =
             (IF Last(url.path) = "" THEN Front(url.path) ELSE url.path) \o path
<1> DEFINE full == IF Last(url.path) = "" THEN url.path ELSE Append(url.path, "")
<1>1. base = [url EXCEPT !.path = full]
  BY DEF ApiBase
<1>2. url.path \in Seq(STRING) \ {<<>>} /\ base.path = full /\ "path" \in DOMAIN base
  BY <1>1 DEF Urls
<1>3. full \in Seq(STRING) \ {<<>>}
  <2>1. url.path \in Seq(STRING) /\ "" \in STRING
    BY <1>2, PartsAreTexts
  <2>2. Append(url.path, "") \in Seq(STRING) \ {<<>>}
    BY <2>1, FrontOfAppend
  <2> QED  BY <1>2, <2>2
<1>4. Front(full) = IF Last(url.path) = "" THEN Front(url.path) ELSE url.path
  <2>1. url.path \in Seq(STRING) /\ "" \in STRING
    BY <1>2, PartsAreTexts
  <2>2. Front(Append(url.path, "")) = url.path
    BY <2>1, FrontOfAppend
  <2> QED  BY <2>2
<1> HIDE DEF full
<1>5. Join(base, path) = [base EXCEPT !.path = Front(@) \o path]
  BY <1>2, <1>3, JoinAppends DEF Stays
<1> QED  BY <1>2, <1>4, <1>5

LEMMA TwoElements ==
    ASSUME NEW seq \in Seq(STRING), Len(seq) = 2  PROVE seq = <<seq[1], seq[2]>>
  OBVIOUS

LEMMA FirstTwo ==
    ASSUME NEW seq \in Seq(STRING), Len(seq) = 3
    PROVE  SubSeq(seq, 1, 2) = <<seq[1], seq[2]>>
<1> DEFINE front == SubSeq(seq, 1, 2)
<1> HIDE DEF front
<1>1. \A i \in 1..2 : seq[i] \in STRING
  <2>1. \A i \in 1..Len(seq) : seq[i] \in STRING
    OBVIOUS
  <2> QED  BY <2>1
<1>2. /\ front \in Seq(STRING) /\ Len(front) = IF 1 <= 2 THEN 2 - 1 + 1 ELSE 0
      /\ \A i \in 1..(2 - 1 + 1) : front[i] = seq[1 + i - 1]
  BY <1>1, SubSeqProperties DEF front
<1>3. Len(front) = 2 /\ front[1] = seq[1] /\ front[2] = seq[2]
  BY <1>2
<1>4. front = <<front[1], front[2]>>
  BY <1>2, <1>3, TwoElements
<1> QED  BY <1>3, <1>4 DEF front

\* A file that version 2 takes is one that version 1 takes in the folder.
LEMMA FilesStayValid ==
    ASSUME NEW file \in Seq(Segments), WorkflowFile(file)
    PROVE  WorkflowPath(<<Plain(".github"), Plain("workflows")>> \o file) # None
<1> DEFINE folder  == <<Plain(".github"), Plain("workflows")>>
           written == folder \o file
<1>1. Len(file) = 1 /\ file[1].text \in YamlFiles
  BY DEF WorkflowFile
<1>2. /\ folder \in Seq(Segments) /\ Len(folder) = 2
      /\ folder[1].text = ".github" /\ folder[2].text = "workflows"
  <2>1. Plain(".github") \in Segments /\ Plain("workflows") \in Segments
    BY PartsAreTexts DEF Plain, Segment, Segments
  <2>2. Len(folder) = 2 /\ folder[1] = Plain(".github") /\ folder[2] = Plain("workflows")
    OBVIOUS
  <2>3. folder \in Seq(Segments)
    BY <2>1
  <2>4. Plain(".github").text = ".github" /\ Plain("workflows").text = "workflows"
    BY DEF Plain, Segment
  <2> QED  BY <2>2, <2>3, <2>4
<1> HIDE DEF folder
<1>3. written \in Seq(Segments) /\ Len(written) = Len(folder) + Len(file)
  BY <1>2, ConcatProperties
<1>4. written[1] = folder[1] /\ written[2] = folder[2] /\ written[3] = file[1] /\ Len(written) = 3
  <2>1. \A i \in 1..(Len(folder) + Len(file)) :
           written[i] = IF i <= Len(folder) THEN folder[i] ELSE file[i - Len(folder)]
    BY <1>2, ConcatProperties
  <2> HIDE DEF written
  <2> QED  BY <1>1, <1>2, <1>3, <2>1
<1> HIDE DEF written
<1>5. Texts(written) \in Seq(STRING) /\ Len(Texts(written)) = 3
  BY <1>3, <1>4, TextsOfSegments
<1>6. Texts(written)[1] = ".github" /\ Texts(written)[2] = "workflows"
  <2>1. 1 \in 1..3 /\ 2 \in 1..3
    OBVIOUS
  <2>2. Texts(written)[1] = written[1].text /\ Texts(written)[2] = written[2].text
    BY <1>3, <1>4, <2>1, TextsOfSegments
  <2> QED  BY <1>2, <1>4, <2>2
<1>7. SubSeq(Texts(written), 1, 2) = <<".github", "workflows">>
  BY <1>5, <1>6, FirstTwo
<1>8. Last(written) = file[1]
  BY <1>4 DEF Last
<1>9. WorkflowPath(written) = Texts(written)
  BY <1>1, <1>4, <1>7, <1>8 DEF WorkflowPath
<1>10. WorkflowPath(written) # None
  BY <1>5, <1>9, NoneIsNoText
<1> QED  BY <1>10 DEF written, folder

LEMMA RulesStayValid ==
    ASSUME ReadInv, stage = "named"  PROVE RuleStaysValid
<1> DEFINE file == place.caller_workflow
           ref  == place.caller_ref
<1>1. /\ file \in Seq(Segments) /\ WorkflowFile(file) /\ ref \in Seq(Segments)
      /\ GitRef(ref) # None
  BY PlacesAreWritten DEF ReadInv, ChecksAreBehind
<1>2. WorkflowPath(<<Plain(".github"), Plain("workflows")>> \o file) # None
  BY <1>1, FilesStayValid
<1>3. ASSUME NEW claim \in ClaimedRefs, RefTakes(GitRef(ref), claim)
      PROVE  GitRef(claim) = Texts(claim)
  <2>3. GitRef(ref) = Texts(ref) /\ ValidGitRef(Texts(ref))
    BY <1>1 DEF GitRef
  <2>4. IsPullRef(Texts(claim)) \/ Texts(ref) = Texts(claim)
    BY <1>3, <2>3 DEF RefTakes
  <2>5. ValidGitRef(Texts(claim))
    BY <2>3, <2>4 DEF ValidGitRef
  <2> QED  BY <2>5 DEF GitRef
<1> QED  BY <1>2, <1>3 DEF RuleStaysValid

LEMMA UrlsStayExact ==
    ASSUME ReadInv, stage = "located"  PROVE UrlsAreExact
<1> DEFINE url  == place.url
           base == ApiBase(url)
           name == FullName(place.repository)
           path == PolicyPath(place.path, place.long)
           root == IF Last(url.path) = "" THEN Front(url.path) ELSE url.path
<1>1. /\ url \in Urls /\ place.repository \in Seq(Segments) /\ place.path \in Seq(Segments)
      /\ base # None /\ name # None /\ path # None
  BY PlacesAreWritten DEF ReadInv, ChecksAreBehind
<1>2. Stays(name) /\ Stays(path)
  BY <1>1, NamesStay, PathsStay
<1>3. base.host = "api.github.com" /\ base.scheme = "https" /\ ~base.port
  BY <1>1 DEF ApiBase, Urls
<1>4. root \in Seq(STRING)
  <2>1. url.path \in Seq(STRING) \ {<<>>}
    BY <1>1 DEF Urls
  <2> HIDE DEF url
  <2>2. Front(url.path) \in Seq(STRING)
    BY <2>1 DEF Front
  <2> QED  BY <2>1, <2>2
<1>5. \A q : Stays(q) => Join(base, q).path = root \o q
  BY <1>1, JoinStays
<1> HIDE DEF base, name, path, root
<1>6. /\ Stays(<<"repos">>) /\ Stays(<<"installation">>) /\ Stays(<<"contents">>)
      /\ Stays(<<"app", "installations", "id", "access_tokens">>)
  <2>1. \A x \in STRING : x \notin {".", ".."} => Stays(<<x>>)
    BY DEF Stays
  <2> DEFINE tokens == <<"app", "installations", "id", "access_tokens">>
  <2>2. tokens = ((<<"app">> \o <<"installations">>) \o <<"id">>) \o <<"access_tokens">>
    OBVIOUS
  <2> HIDE DEF tokens
  <2>3. /\ Stays(<<"app">>) /\ Stays(<<"installations">>) /\ Stays(<<"id">>)
        /\ Stays(<<"access_tokens">>)
    BY <2>1, PartsAreTexts
  <2>4. Stays(tokens)
    BY <2>2, <2>3, StayTogether
  <2>5. Stays(<<"repos">>) /\ Stays(<<"installation">>) /\ Stays(<<"contents">>)
    BY <2>1, PartsAreTexts
  <2> QED  BY <2>4, <2>5 DEF tokens
<1>7. \A p, q : Stays(p) /\ Stays(q) => Stays(p \o q) /\ root \o (p \o q) = (root \o p) \o q
  BY <1>4, StayTogether, ConcatAssociative DEF Stays
<1>8. Stays(<<"repos">> \o name)
  BY <1>2, <1>6, <1>7
<1>9. LookupUrl(base, name).path = root \o <<"repos">> \o name \o <<"installation">>
  <2>1. Stays(<<"repos">> \o name \o <<"installation">>)
    BY <1>6, <1>7, <1>8
  <2>2. LookupUrl(base, name).path = root \o (<<"repos">> \o name \o <<"installation">>)
    BY <1>5, <2>1 DEF LookupUrl
  <2>3. root \o (<<"repos">> \o name \o <<"installation">>) =
          (root \o (<<"repos">> \o name)) \o <<"installation">>
    BY <1>6, <1>7, <1>8
  <2>4. root \o (<<"repos">> \o name) = (root \o <<"repos">>) \o name
    BY <1>2, <1>6, <1>7
  <2> QED  BY <2>2, <2>3, <2>4
<1>10. PolicyUrl(base, name, path).path = root \o <<"repos">> \o name \o <<"contents">> \o path
  <2>1. Stays(<<"repos">> \o name \o <<"contents">>)
    BY <1>6, <1>7, <1>8
  <2>2. Stays(<<"repos">> \o name \o <<"contents">> \o path)
    BY <1>2, <1>7, <2>1
  <2>3. PolicyUrl(base, name, path).path =
          root \o (<<"repos">> \o name \o <<"contents">> \o path)
    BY <1>5, <2>2 DEF PolicyUrl
  <2>4. root \o (<<"repos">> \o name \o <<"contents">> \o path) =
          (root \o (<<"repos">> \o name \o <<"contents">>)) \o path
    BY <1>2, <1>7, <2>1
  <2>5. root \o (<<"repos">> \o name \o <<"contents">>) =
          (root \o (<<"repos">> \o name)) \o <<"contents">>
    BY <1>6, <1>7, <1>8
  <2>6. root \o (<<"repos">> \o name) = (root \o <<"repos">>) \o name
    BY <1>2, <1>6, <1>7
  <2> QED  BY <2>3, <2>4, <2>5, <2>6
<1>11. TokensUrl(base, "id").path = root \o <<"app", "installations", "id", "access_tokens">>
  BY <1>5, <1>6 DEF TokensUrl
<1> QED  BY <1>3, <1>9, <1>10, <1>11 DEF UrlsAreExact, base, name, path, root

\* A text that a type has taken means the same wherever it is used: the URLs that are made
\* of it are the ones that were meant (Url::join in github/api.rs), and the names of a
\* rule pass every later check (config.rs).
THEOREM NamesStayExact == ReadSpec => []NamesAreExact
<1>1. ReadInv => NamesAreExact
  BY RulesStayValid, UrlsStayExact DEF NamesAreExact
<1> QED  BY <1>1, ReadInvHolds, PTL
===============================================================================
