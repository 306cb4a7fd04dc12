------------------------------ MODULE JwksProofs ------------------------------
(***************************************************************************)
(* Proofs about JwksCache, for any number of callers and keys and any      *)
(* times in the order of the code's.                                       *)
(***************************************************************************)
EXTENDS JwksCache, TLAPS

LEMMA ConstantFacts ==
    /\ JWKS_TTL \in Nat /\ JWKS_REFRESH_COOLDOWN \in Nat /\ HTTP_TIMEOUT \in Nat
    /\ HTTP_TIMEOUT < JWKS_REFRESH_COOLDOWN /\ JWKS_REFRESH_COOLDOWN <= JWKS_TTL
    /\ Long \in Nat
  BY KeyCacheConstants DEF Long

-------------------------------------------------------------------------------
\* The queue

LEMMA HeadsAndTails ==
    ASSUME NEW q \in Seq(Worker)
    PROVE  /\ q # <<>> => Head(q) \in Worker /\ Tail(q) \in Seq(Worker)
           /\ \A w \in Worker : Append(q, w) \in Seq(Worker) /\ Append(q, w) # <<>>
           /\ \A w \in Worker : q # <<>> => Head(Append(q, w)) = Head(q)
  OBVIOUS

\* Only the head of the queue looks, and while it does no refresh runs.
LEMMA LooksAreQuiet ==
    ASSUME OneRefresh, NEW w \in Worker, Holds(w, "read") \/ Holds(w, "write")
    PROVE  ~RefreshRuns
  BY DEF OneRefresh, Holds, RefreshRuns

-------------------------------------------------------------------------------
\* The steps preserve the invariant

LEMMA KeyCacheInvInit == Init => KeyCacheInv
<1> SUFFICES ASSUME Init  PROVE KeyCacheInv
  OBVIOUS
<1>1. TypeOK
  <2>1. /\ age \in 0..JWKS_TTL /\ attempt \in 0..JWKS_REFRESH_COOLDOWN
        /\ fetching \in 0..HTTP_TIMEOUT /\ quiet \in 0..JWKS_REFRESH_COOLDOWN
    BY ConstantFacts DEF Init
  <2>2. /\ absent \in [Key -> 0..Long] /\ present \in [Key -> 0..Long]
    BY ConstantFacts DEF Init
  <2>3. /\ queue \in Seq(Worker) /\ result \in [Worker -> Results]
        /\ pc \in [Worker -> {"idle", "read", "write", "fetch", "fetched"}]
    BY DEF Init, Results
  <2> QED  BY <2>1, <2>2, <2>3 DEF Init, TypeOK
<1>2. OneRefresh /\ ~RefreshRuns
  BY DEF Init, OneRefresh, RefreshRuns
<1>3. AttemptIsKnown
  BY <1>2, ConstantFacts DEF Init, AttemptIsKnown, Cooling
<1>4. KeysAreDated
  BY <1>2, ConstantFacts DEF Init, KeysAreDated, RightAsOf, Fresh
<1> QED  BY <1>1, <1>2, <1>3, <1>4 DEF KeyCacheInv

\* A caller queues up.
LEMMA CallKeeps ==
    ASSUME KeyCacheInv, NEW w \in Worker, NEW k \in Key, Call(w, k)
    PROVE  KeyCacheInv'
<1> USE ConstantFacts DEF KeyCacheInv, Call, cache, world
<1>1. TypeOK'
  BY HeadsAndTails DEF TypeOK, Results
<1>2. \A v \in Worker : pc'[v] \in {"fetch", "fetched"} => pc'[v] = pc[v]
  BY DEF TypeOK
<1>3. \A v \in Worker : pc[v] \in {"fetch", "fetched"} => pc'[v] = pc[v]
  BY DEF TypeOK
<1>4. OneRefresh'
  BY <1>2, HeadsAndTails DEF TypeOK, OneRefresh
<1>5. RefreshRuns' = RefreshRuns
      /\ (\E v \in Worker : pc'[v] = "fetched") = (\E v \in Worker : pc[v] = "fetched")
  BY <1>2, <1>3 DEF RefreshRuns
<1>6. AttemptIsKnown' /\ KeysAreDated'
  BY <1>5 DEF AttemptIsKnown, KeysAreDated, RightAsOf, Cooling, Fresh
<1> QED  BY <1>1, <1>4, <1>6

\* A caller looks, and leaves or queues for the write lock.
LEMMA LookKeeps ==
    ASSUME KeyCacheInv, NEW w \in Worker,
           Hit(w) \/ Unknown(w) \/ Upgrade(w) \/ CoolDown(w)
    PROVE  KeyCacheInv'
<1> USE ConstantFacts DEF KeyCacheInv
<1>1. /\ Holds(w, "read") \/ Holds(w, "write")
      /\ UNCHANGED <<filled, keys, age, attempt, kid, fetching, fetched, published, server,
                     absent, present, quiet, last>>
  BY DEF Hit, Unknown, Upgrade, CoolDown, cache, world
<1>2. \/ \E r \in Results : Return(w, r)
      \/ /\ pc' = [pc EXCEPT ![w] = "write"]
         /\ queue' = Append(Tail(queue), w)
         /\ result' = result
  BY DEF Hit, Unknown, Upgrade, CoolDown, Results
<1>3. queue \in Seq(Worker) /\ queue # <<>>
  BY <1>1 DEF TypeOK, Holds
<1>4. queue' \in Seq(Worker)
  BY <1>2, <1>3, HeadsAndTails DEF Return
<1>5. TypeOK'
  BY <1>1, <1>2, <1>4 DEF TypeOK, Return
<1>6. ~RefreshRuns /\ \A v \in Worker : pc[v] \notin {"fetch", "fetched"}
  BY <1>1, LooksAreQuiet DEF RefreshRuns
<1>7. \A v \in Worker : pc'[v] \notin {"fetch", "fetched"}
  BY <1>2, <1>6 DEF Return, TypeOK
<1>8. OneRefresh' /\ ~RefreshRuns'
  BY <1>7 DEF OneRefresh, RefreshRuns
<1>9. AttemptIsKnown' /\ KeysAreDated'
  BY <1>1, <1>6, <1>7, <1>8 DEF AttemptIsKnown, KeysAreDated, RightAsOf, Cooling, Fresh
<1> QED  BY <1>5, <1>8, <1>9

\* A refresh starts, with the lock held.
LEMMA StartKeeps ==
    ASSUME KeyCacheInv, NEW w \in Worker, StartRefresh(w)
    PROVE  KeyCacheInv'
<1> USE ConstantFacts DEF KeyCacheInv, StartRefresh, world
<1>1. TypeOK'
  BY DEF TypeOK
<1>2. \A v \in Worker : pc[v] \notin {"fetch", "fetched"}
  BY LooksAreQuiet DEF RefreshRuns
<1>3. \A v \in Worker : pc'[v] = IF v = w THEN "fetch" ELSE pc[v]
  BY DEF TypeOK
<1>4. OneRefresh' /\ RefreshRuns'
  BY <1>2, <1>3 DEF OneRefresh, RefreshRuns, Holds
<1>5. ~ \E v \in Worker : pc'[v] = "fetched"
  BY <1>2, <1>3
<1>6. AttemptIsKnown' /\ KeysAreDated'
  BY <1>4, <1>5 DEF AttemptIsKnown, KeysAreDated, RightAsOf, Fresh
<1> QED  BY <1>1, <1>4, <1>6

\* The key server answers with what it publishes.
LEMMA AnswerKeeps ==
    ASSUME KeyCacheInv, NEW w \in Worker, ServerAnswers(w)
    PROVE  KeyCacheInv'
<1> USE ConstantFacts DEF KeyCacheInv, ServerAnswers, cache, world
<1>1. TypeOK'
  BY DEF TypeOK
<1>2. \A v \in Worker : pc'[v] = IF v = w THEN "fetched" ELSE pc[v]
  BY DEF TypeOK
<1>3. OneRefresh' /\ RefreshRuns' /\ RefreshRuns
  BY <1>2 DEF OneRefresh, RefreshRuns
<1>4. fetching \in Nat
  BY DEF TypeOK
<1>5. AttemptIsKnown' /\ KeysAreDated'
  BY <1>3, <1>4 DEF AttemptIsKnown, KeysAreDated, RightAsOf, Fresh, TypeOK
<1> QED  BY <1>1, <1>3, <1>5

\* A refresh ends, with a new set or without, and its caller leaves.
LEMMA EndKeeps ==
    ASSUME KeyCacheInv, NEW w \in Worker, RefreshFails(w) \/ Refreshed(w)
    PROVE  KeyCacheInv'
<1> USE ConstantFacts DEF KeyCacheInv
<1>1. /\ pc[w] \in {"fetch", "fetched"}
      /\ \E r \in Results : Return(w, r)
      /\ UNCHANGED <<attempt, kid, fetching, published, server, absent, present, quiet>>
  BY DEF RefreshFails, Refreshed, Results, cache, world
<1>2. RefreshRuns /\ queue \in Seq(Worker) /\ queue # <<>> /\ Head(queue) = w
  BY <1>1 DEF RefreshRuns, OneRefresh, TypeOK
<1>3. TypeOK'
  <2>1. queue' \in Seq(Worker)
    BY <1>1, <1>2, HeadsAndTails DEF Return
  <2>2. pc' \in [Worker -> {"idle", "read", "write", "fetch", "fetched"}]
        /\ result' \in [Worker -> Results]
    BY <1>1 DEF TypeOK, Return
  <2>3. /\ filled' \in BOOLEAN /\ keys' \in SUBSET Key /\ age' \in 0..JWKS_TTL
        /\ fetched' \in SUBSET Key /\ last' \in {"none", "ok", "failed"}
    <3>1. CASE RefreshFails(w)
      BY <3>1 DEF TypeOK, RefreshFails, cache
    <3>2. CASE Refreshed(w)
      BY <3>2 DEF TypeOK, Refreshed
    <3> QED  BY <3>1, <3>2
  <2> QED  BY <1>1, <2>1, <2>2, <2>3 DEF TypeOK
<1>4. \A v \in Worker : pc'[v] = IF v = w THEN "idle" ELSE pc[v]
  BY <1>1 DEF TypeOK, Return
<1>5. \A v \in Worker : pc'[v] \notin {"fetch", "fetched"}
  BY <1>2, <1>4 DEF OneRefresh
<1>6. OneRefresh' /\ ~RefreshRuns'
  BY <1>5 DEF OneRefresh, RefreshRuns
<1>7. attempt = fetching /\ fetching \in Nat /\ fetching <= HTTP_TIMEOUT
  BY <1>2 DEF AttemptIsKnown, TypeOK
<1>8. CASE RefreshFails(w)
  <2>1. UNCHANGED <<filled, keys, age>> /\ last' = "failed"
    BY <1>8 DEF RefreshFails, cache
  <2> QED
    BY <1>1, <1>3, <1>5, <1>6, <2>1 DEF AttemptIsKnown, KeysAreDated, RightAsOf, Fresh, Cooling
<1>9. CASE Refreshed(w)
  <2>1. filled' /\ keys' = fetched /\ age' = 0 /\ last' = "ok" /\ pc[w] = "fetched"
    BY <1>9 DEF Refreshed
  <2>2. AttemptIsKnown'
    BY <1>1, <1>6, <1>7, <2>1 DEF AttemptIsKnown
  <2>3. RightAsOf(fetched, fetching)
    BY <2>1 DEF KeysAreDated
  <2>4. \A k \in Key : absent[k] \in Nat /\ present[k] \in Nat
    BY DEF TypeOK
  <2>5. KeysAreDated'
    BY <1>1, <1>5, <1>6, <1>7, <2>1, <2>3, <2>4 DEF KeysAreDated, RightAsOf, Fresh, Cooling
  <2> QED  BY <1>3, <1>6, <2>2, <2>5
<1> QED  BY <1>8, <1>9

\* GitHub publishes or withdraws a key, or stops or starts answering.
LEMMA GithubKeeps ==
    ASSUME KeyCacheInv, (\E k \in Key : Rotate(k)) \/ ServerTurns
    PROVE  KeyCacheInv'
<1> USE ConstantFacts DEF KeyCacheInv
<1>1. UNCHANGED <<filled, keys, age, attempt, queue, pc, kid, fetching, fetched, result, quiet,
                  last>>
  BY DEF Rotate, ServerTurns, cache
<1>2. /\ published' \in SUBSET Key /\ server' \in {"up", "down"}
      /\ absent' \in [Key -> 0..Long] /\ present' \in [Key -> 0..Long]
  <2>1. CASE ServerTurns
    BY <2>1 DEF ServerTurns, TypeOK
  <2>2. ASSUME NEW k \in Key, Rotate(k)
        PROVE  /\ published' \in SUBSET Key /\ server' \in {"up", "down"}
               /\ absent' \in [Key -> 0..Long] /\ present' \in [Key -> 0..Long]
    BY <2>2 DEF Rotate, TypeOK
  <2> QED  BY <2>1, <2>2
<1>3. TypeOK'
  BY <1>1, <1>2 DEF TypeOK
<1>4. \A k \in Key : /\ absent'[k] \in {absent[k], 0} /\ present'[k] \in {present[k], 0}
                     /\ absent[k] \in Nat /\ present[k] \in Nat
  BY DEF Rotate, ServerTurns, TypeOK
<1>5. RightAsOf(published, 0)'
  <2>1. CASE ServerTurns
    BY <2>1 DEF ServerTurns, KeysAreDated, RightAsOf
  <2>2. ASSUME NEW k \in Key, Rotate(k)  PROVE RightAsOf(published, 0)'
    BY <2>2 DEF Rotate, KeysAreDated, RightAsOf, TypeOK
  <2> QED  BY <2>1, <2>2
<1>6. OneRefresh' /\ AttemptIsKnown' /\ RefreshRuns' = RefreshRuns
  BY <1>1 DEF OneRefresh, AttemptIsKnown, RefreshRuns, Cooling
<1>7. age \in Nat /\ fetching \in Nat /\ attempt \in Nat
  BY DEF TypeOK
<1>8. KeysAreDated'
  BY <1>1, <1>4, <1>5, <1>6, <1>7 DEF KeysAreDated, RightAsOf, Fresh, Cooling
<1> QED  BY <1>3, <1>6, <1>8

\* A second passes.
LEMMA TickKeeps == ASSUME KeyCacheInv, Tick PROVE KeyCacheInv'
<1> USE ConstantFacts DEF KeyCacheInv, Tick, Least
<1>1. /\ UNCHANGED <<filled, keys, queue, pc, kid, fetched, result, published, server, last>>
      /\ OneRefresh' /\ RefreshRuns' = RefreshRuns
  BY DEF OneRefresh, RefreshRuns
<1>2. TypeOK'
  BY DEF TypeOK
<1>3. AttemptIsKnown'
  BY <1>1 DEF TypeOK, AttemptIsKnown, Cooling
<1>4. \A k \in Key :
        /\ absent[k] \in Nat /\ present[k] \in Nat
        /\ IF k \in published THEN absent'[k] = 0 /\ present'[k] <= present[k] + 1
                              ELSE present'[k] = 0 /\ absent'[k] <= absent[k] + 1
        /\ absent'[k] \in Nat /\ present'[k] \in Nat
  BY DEF TypeOK
<1>5. /\ age \in Nat /\ fetching \in Nat /\ attempt \in Nat
      /\ RefreshRuns => fetching' = fetching + 1
      /\ Fresh' => Fresh /\ age' = age + 1
      /\ Cooling' => Cooling /\ attempt' = attempt + 1
  BY DEF TypeOK, Fresh, Cooling
<1>6. KeysAreDated'
  <2>1. RightAsOf(published, 0)'
    BY <1>1, <1>4 DEF RightAsOf
  <2>2. (\E w \in Worker : pc[w] = "fetched") => RightAsOf(fetched, fetching)'
    BY <1>1, <1>4, <1>5 DEF KeysAreDated, RightAsOf, RefreshRuns
  <2>3. Fresh' => RightAsOf(keys, age + HTTP_TIMEOUT)'
    BY <1>1, <1>4, <1>5 DEF KeysAreDated, RightAsOf
  <2>4. ~RefreshRuns' /\ Cooling' /\ last' = "ok" => \A k \in Key \ keys : present'[k] <= attempt'
    <3> SUFFICES ASSUME ~RefreshRuns', Cooling', last' = "ok", NEW k \in Key \ keys
                 PROVE  present'[k] <= attempt'
      OBVIOUS
    <3>1. ~RefreshRuns /\ Cooling /\ last = "ok"
      BY <1>1, <1>5
    <3>2. present[k] <= attempt
      BY <3>1 DEF KeysAreDated
    <3> QED  BY <1>4, <1>5, <3>2
  <2> QED  BY <1>1, <2>1, <2>2, <2>3, <2>4 DEF KeysAreDated
<1> QED  BY <1>1, <1>2, <1>3, <1>6

\* What is cached, when it was fetched and what was published then fit together, for
\* any number of callers.
THEOREM KeyCacheInvHolds == Spec => []KeyCacheInv
<1>1. KeyCacheInv /\ UNCHANGED vars => KeyCacheInv'
  <2> SUFFICES ASSUME KeyCacheInv, UNCHANGED vars  PROVE KeyCacheInv'
    OBVIOUS
  <2> USE DEF KeyCacheInv, vars, cache, world
  <2>1. TypeOK' /\ OneRefresh' /\ RefreshRuns' = RefreshRuns
    BY DEF TypeOK, OneRefresh, RefreshRuns
  <2>2. AttemptIsKnown' /\ KeysAreDated'
    BY <2>1 DEF AttemptIsKnown, KeysAreDated, RightAsOf, Cooling, Fresh
  <2> QED  BY <2>1, <2>2
<1>2. KeyCacheInv /\ [Next]_vars => KeyCacheInv'
  BY <1>1, CallKeeps, LookKeeps, StartKeeps, AnswerKeeps, EndKeeps, GithubKeeps, TickKeeps
     DEF Next, Step, Surroundings
<1> QED  BY <1>2, KeyCacheInvInit, PTL DEF Spec

-------------------------------------------------------------------------------
\* What the cache promises

\* Where a call comes back, and with what.
LEMMA AnswersAre ==
    ASSUME KeyCacheInv, [Next]_vars, NEW w \in Worker, NEW r, Answers(w, r)
    PROVE  \/ Hit(w) /\ r = "key"
           \/ Unknown(w) /\ r = "invalid"
           \/ CoolDown(w) /\ r = "unavailable"
           \/ RefreshFails(w) /\ r = "unavailable"
           \/ Refreshed(w) /\ r = IF kid[w] \in fetched THEN "key" ELSE "invalid"
<1> USE DEF KeyCacheInv, TypeOK, Answers, Returns
<1>1. ASSUME NEW v \in Worker, NEW k \in Key, Call(v, k)  PROVE FALSE
  BY <1>1 DEF Call
<1>2. ASSUME Surroundings \/ UNCHANGED vars  PROVE FALSE
  BY <1>2 DEF Surroundings, Rotate, ServerTurns, Tick, vars
<1>3. ASSUME NEW v \in Worker, Step(v)
      PROVE  v = w /\ (Hit(v) \/ Unknown(v) \/ CoolDown(v) \/ RefreshFails(v) \/ Refreshed(v))
  BY <1>3 DEF Step, Hit, Unknown, Upgrade, CoolDown, StartRefresh, ServerAnswers, RefreshFails,
     Refreshed, Return
<1>4. Hit(w) \/ Unknown(w) \/ CoolDown(w) \/ RefreshFails(w) \/ Refreshed(w)
  BY <1>1, <1>2, <1>3 DEF Next
<1> QED  BY <1>4 DEF Hit, Unknown, CoolDown, RefreshFails, Refreshed, Return

\* The key server is asked at most once per cooldown.
THEOREM SpacedRefreshes == Spec => RefreshesAreSpaced
<1>1. ASSUME KeyCacheInv, [Next]_vars, NEW w \in Worker, pc[w] # "fetch", pc'[w] = "fetch"
      PROVE  quiet >= JWKS_REFRESH_COOLDOWN
  <2> USE ConstantFacts, <1>1 DEF KeyCacheInv, TypeOK
  <2>1. ASSUME NEW v \in Worker, NEW k \in Key, Call(v, k)  PROVE FALSE
    BY <2>1 DEF Call
  <2>2. ASSUME Surroundings \/ UNCHANGED vars  PROVE FALSE
    BY <2>2 DEF Surroundings, Rotate, ServerTurns, Tick, vars
  <2>3. ASSUME NEW v \in Worker, Step(v)  PROVE StartRefresh(v)
    BY <2>3 DEF Step, Hit, Unknown, Upgrade, CoolDown, ServerAnswers, RefreshFails, Refreshed,
       Return
  <2>4. \E v \in Worker : StartRefresh(v)
    BY <2>1, <2>2, <2>3 DEF Next
  <2> QED  BY <2>4 DEF StartRefresh, Cooling, AttemptIsKnown
<1>2. KeyCacheInv /\ [Next]_vars =>
        [\A w \in Worker :
           pc[w] # "fetch" /\ pc'[w] = "fetch" => quiet >= JWKS_REFRESH_COOLDOWN]_vars
  BY <1>1
<1> QED  BY <1>2, KeyCacheInvHolds, PTL DEF Spec, RefreshesAreSpaced

\* A withdrawn key verifies nothing after the ttl and one fetch.
THEOREM WithdrawnKeysDie == Spec => WithdrawnKeyDies
<1>1. ASSUME KeyCacheInv, [Next]_vars, NEW w \in Worker, Answers(w, "key")
      PROVE  absent[kid[w]] < JWKS_TTL + HTTP_TIMEOUT
  <2> USE ConstantFacts, <1>1 DEF KeyCacheInv
  <2>1. kid[w] \in Key /\ age \in Nat /\ fetching \in 0..HTTP_TIMEOUT
        /\ absent[kid[w]] \in Nat
    BY DEF TypeOK
  <2>2. CASE Hit(w)
    BY <2>1, <2>2 DEF Hit, Fresh, KeysAreDated, RightAsOf
  <2>3. CASE Refreshed(w) /\ kid[w] \in fetched
    BY <2>1, <2>3 DEF Refreshed, KeysAreDated, RightAsOf
  <2> QED  BY <1>1, <2>2, <2>3, AnswersAre
<1>2. KeyCacheInv /\ [Next]_vars =>
        [\A w \in Worker : Answers(w, "key") => absent[kid[w]] < JWKS_TTL + HTTP_TIMEOUT]_vars
  BY <1>1
<1> QED  BY <1>2, KeyCacheInvHolds, PTL DEF Spec, WithdrawnKeyDies

\* A published key is called invalid for less than the cooldown, or, after a failure,
\* for less than the ttl and one fetch.
THEOREM RotationsAreNoticed == Spec => RotationIsNoticed
<1>1. ASSUME KeyCacheInv, [Next]_vars, NEW w \in Worker, Answers(w, "invalid")
      PROVE  present[kid[w]] < IF last' = "ok" THEN JWKS_REFRESH_COOLDOWN
                                               ELSE JWKS_TTL + HTTP_TIMEOUT
  <2> USE ConstantFacts, <1>1 DEF KeyCacheInv
  <2>1. kid[w] \in Key /\ age \in Nat /\ attempt \in Nat /\ fetching \in 0..HTTP_TIMEOUT
        /\ present[kid[w]] \in Nat
    BY DEF TypeOK
  <2>2. CASE Unknown(w)
    <3>1. Fresh /\ Cooling /\ kid[w] \notin keys /\ last' = last /\ ~RefreshRuns
      BY <2>2, LooksAreQuiet DEF Unknown
    <3>2. age < JWKS_TTL /\ present[kid[w]] <= age + HTTP_TIMEOUT
      BY <2>1, <3>1 DEF Fresh, KeysAreDated, RightAsOf
    <3>3. last = "ok" => present[kid[w]] <= attempt /\ attempt < JWKS_REFRESH_COOLDOWN
      BY <2>1, <3>1 DEF Cooling, KeysAreDated
    <3> QED  BY <2>1, <3>1, <3>2, <3>3
  <2>3. CASE Refreshed(w) /\ kid[w] \notin fetched
    BY <2>1, <2>3 DEF Refreshed, KeysAreDated, RightAsOf
  <2> QED  BY <1>1, <2>2, <2>3, AnswersAre
<1>2. KeyCacheInv /\ [Next]_vars =>
        [\A w \in Worker :
           Answers(w, "invalid") =>
             present[kid[w]] < IF last' = "ok" THEN JWKS_REFRESH_COOLDOWN
                                               ELSE JWKS_TTL + HTTP_TIMEOUT]_vars
  BY <1>1
<1> QED  BY <1>2, KeyCacheInvHolds, PTL DEF Spec, RotationIsNoticed

\* 503 is the answer only when the last refresh failed.
THEOREM UnavailableIsHonest == Spec => UnavailableMeansOutage
<1>1. ASSUME KeyCacheInv, [Next]_vars, NEW w \in Worker, Answers(w, "unavailable")
      PROVE  last' = "failed"
  <2> USE ConstantFacts, <1>1 DEF KeyCacheInv
  <2>1. CASE CoolDown(w)
    <3>1. ~Fresh /\ Cooling /\ last' = last /\ ~RefreshRuns
      BY <2>1, LooksAreQuiet DEF CoolDown
    <3>2. last # "none" /\ (last = "ok" => filled /\ age <= attempt)
      BY <3>1 DEF AttemptIsKnown
    <3>3. last # "ok"
      BY <3>1, <3>2 DEF Fresh, Cooling, TypeOK
    <3> QED  BY <3>1, <3>2, <3>3 DEF TypeOK
  <2>2. CASE RefreshFails(w)
    BY <2>2 DEF RefreshFails
  <2> QED  BY <1>1, <2>1, <2>2, AnswersAre
<1>2. KeyCacheInv /\ [Next]_vars =>
        [\A w \in Worker : Answers(w, "unavailable") => last' = "failed"]_vars
  BY <1>1
<1> QED  BY <1>2, KeyCacheInvHolds, PTL DEF Spec, UnavailableMeansOutage

-------------------------------------------------------------------------------
\* The lock forgets nobody

\* A caller that comes stands behind all the others.
LEMMA Arrivals ==
    ASSUME NEW q \in Seq(Worker), NEW w \in Worker, Once(q), ~Among(q, w)
    PROVE  /\ Once(Append(q, w))
           /\ \A u : Among(Append(q, w), u) <=> Among(q, u) \/ u = w
           /\ \A u, v : Ahead(Append(q, w), u, v) => Ahead(q, u, v) \/ v = w
<1> DEFINE r == Append(q, w)
<1>1. /\ Len(q) \in Nat /\ Len(r) = Len(q) + 1 /\ r[Len(q) + 1] = w
      /\ \A i \in 1..Len(q) : r[i] = q[i]
  OBVIOUS
<1> HIDE DEF r
<1>2. \A i \in 1..Len(r) : \/ i \in 1..Len(q) /\ r[i] = q[i]
                           \/ i = Len(q) + 1 /\ r[i] = w
  BY <1>1
<1>3. Once(r)
  BY <1>1, <1>2 DEF Once, Among
<1>4. ASSUME NEW u  PROVE Among(r, u) <=> Among(q, u) \/ u = w
  <2>1. ASSUME Among(r, u)  PROVE Among(q, u) \/ u = w
    BY <1>2, <2>1 DEF Among
  <2>2. \A i \in 1..Len(q) : i \in 1..Len(r)
    BY <1>1
  <2>3. Len(q) + 1 \in 1..Len(r)
    BY <1>1
  <2> QED  BY <1>1, <2>1, <2>2, <2>3 DEF Among
<1>5. ASSUME NEW u, NEW v, Ahead(r, u, v)  PROVE Ahead(q, u, v) \/ v = w
  <2>1. PICK i \in 1..Len(r), j \in 1..Len(r) : i < j /\ r[i] = u /\ r[j] = v
    BY <1>5 DEF Ahead
  <2>2. CASE j = Len(q) + 1
    BY <1>1, <2>1, <2>2
  <2>3. CASE j # Len(q) + 1
    <3>1. i \in 1..Len(q) /\ j \in 1..Len(q)
      BY <1>1, <2>1, <2>3
    <3> QED  BY <1>1, <2>1, <3>1 DEF Ahead
  <2> QED  BY <2>2, <2>3
<1> QED  BY <1>3, <1>4, <1>5 DEF r

\* When the head leaves, everybody else moves up.
LEMMA Departures ==
    ASSUME NEW q \in Seq(Worker), q # <<>>, Once(q)
    PROVE  /\ Once(Tail(q))
           /\ \A u : Among(Tail(q), u) <=> Among(q, u) /\ u # Head(q)
           /\ \A u, v : Ahead(Tail(q), u, v) => Ahead(q, u, v)
           /\ \A u : ~Ahead(q, u, Head(q))
<1> DEFINE r == Tail(q)
<1>1. /\ Len(q) \in Nat \ {0} /\ Len(r) = Len(q) - 1 /\ Head(q) = q[1]
      /\ \A i \in 1..Len(r) : r[i] = q[i + 1]
  OBVIOUS
<1> DEFINE h == Head(q)
<1> HIDE DEF r, h
<1>2. h = q[1] /\ \A i \in 1..Len(r) : i + 1 \in 1..Len(q) /\ i + 1 # 1 /\ r[i] = q[i + 1]
  BY <1>1 DEF h
<1>3. Once(r)
  BY <1>1, <1>2 DEF Once
<1>4. ASSUME NEW u  PROVE Among(r, u) <=> Among(q, u) /\ u # h
  <2>1. ASSUME Among(r, u)  PROVE Among(q, u) /\ u # h
    BY <1>1, <1>2, <2>1 DEF Among, Once
  <2>2. ASSUME Among(q, u), u # h  PROVE Among(r, u)
    <3>1. PICK i \in 1..Len(q) : q[i] = u
      BY <2>2 DEF Among
    <3>2. i # 1
      BY <1>2, <2>2, <3>1
    <3>3. i - 1 \in 1..Len(r) /\ (i - 1) + 1 = i
      BY <1>1, <3>2
    <3> QED  BY <1>2, <3>1, <3>3 DEF Among
  <2> QED  BY <2>1, <2>2
<1>5. ASSUME NEW u, NEW v, Ahead(r, u, v)  PROVE Ahead(q, u, v)
  <2>1. PICK i \in 1..Len(r), j \in 1..Len(r) : i < j /\ r[i] = u /\ r[j] = v
    BY <1>5 DEF Ahead
  <2>2. /\ i + 1 \in 1..Len(q) /\ j + 1 \in 1..Len(q) /\ i + 1 < j + 1
        /\ q[i + 1] = u /\ q[j + 1] = v
    BY <1>1, <1>2, <2>1
  <2> QED  BY <2>2 DEF Ahead
<1>6. ASSUME NEW u  PROVE ~Ahead(q, u, h)
  <2>1. 1 \in 1..Len(q)
    BY <1>1
  <2>2. \A i, j \in 1..Len(q) : i < j => q[j] # h
    BY <1>1, <1>2, <2>1 DEF Once
  <2> QED  BY <2>2 DEF Ahead
<1> QED  BY <1>3, <1>4, <1>5, <1>6 DEF r, h

\* What a step does to the queue: a caller comes, the head leaves, the head goes to the
\* end, or it stays as it is.
LEMMA QueueSteps ==
    ASSUME KeyCacheInv, [Next]_vars
    PROVE  \/ \E w \in Worker, k \in Key : Call(w, k)
           \/ \E w \in Worker : /\ queue # <<>> /\ Head(queue) = w /\ queue' = Tail(queue)
                                 /\ pc' = [pc EXCEPT ![w] = "idle"]
           \/ \E w \in Worker : Upgrade(w)
           \/ /\ queue' = queue
              /\ \A w \in Worker : pc'[w] = "idle" <=> pc[w] = "idle"
<1>1. pc \in [Worker -> {"idle", "read", "write", "fetch", "fetched"}]
  BY DEF KeyCacheInv, TypeOK
<1>2. ASSUME NEW w \in Worker, Hit(w) \/ Unknown(w) \/ CoolDown(w)
      PROVE  /\ queue # <<>> /\ Head(queue) = w /\ queue' = Tail(queue)
             /\ pc' = [pc EXCEPT ![w] = "idle"]
  BY <1>2 DEF Hit, Unknown, CoolDown, Holds, Return
<1>3. ASSUME NEW w \in Worker, RefreshFails(w) \/ Refreshed(w)
      PROVE  /\ queue # <<>> /\ Head(queue) = w /\ queue' = Tail(queue)
             /\ pc' = [pc EXCEPT ![w] = "idle"]
  BY <1>3 DEF KeyCacheInv, OneRefresh, RefreshFails, Refreshed, Return
<1>4. ASSUME NEW w \in Worker, StartRefresh(w) \/ ServerAnswers(w)
      PROVE  queue' = queue /\ \A v \in Worker : pc'[v] = "idle" <=> pc[v] = "idle"
  BY <1>1, <1>4 DEF StartRefresh, ServerAnswers, Holds
<1>5. ASSUME Surroundings \/ UNCHANGED vars  PROVE queue' = queue /\ pc' = pc
  BY <1>5 DEF Surroundings, Rotate, ServerTurns, Tick, vars
<1> QED  BY <1>2, <1>3, <1>4, <1>5 DEF Next, Step

\* Exactly the calls that have not returned are in the queue, each once, though a caller
\* that gives up the read lock leaves it and comes again.
THEOREM CallersAreKept == Spec => []NobodyIsForgotten
<1>1. Init => NobodyIsForgotten
  BY DEF Init, NobodyIsForgotten, Among, Once
<1>2. ASSUME KeyCacheInv, NobodyIsForgotten, [Next]_vars  PROVE NobodyIsForgotten'
  <2>1. /\ queue \in Seq(Worker) /\ Once(queue)
        /\ pc \in [Worker -> {"idle", "read", "write", "fetch", "fetched"}]
        /\ \A w \in Worker : pc[w] # "idle" <=> Among(queue, w)
    BY <1>2 DEF KeyCacheInv, TypeOK, NobodyIsForgotten
  <2>2. ASSUME NEW w \in Worker, NEW k \in Key, Call(w, k)
        PROVE  Once(queue') /\ \A v \in Worker : pc'[v] # "idle" <=> Among(queue', v)
    <3>1. ~Among(queue, w) /\ queue' = Append(queue, w) /\ pc' = [pc EXCEPT ![w] = "read"]
      BY <2>1, <2>2 DEF Call
    <3> QED  BY <2>1, <3>1, Arrivals
  <2>3. ASSUME NEW w \in Worker, queue # <<>>, Head(queue) = w, queue' = Tail(queue),
               pc' = [pc EXCEPT ![w] = "idle"]
        PROVE  Once(queue') /\ \A v \in Worker : pc'[v] # "idle" <=> Among(queue', v)
    BY <2>1, <2>3, Departures
  <2>4. ASSUME NEW w \in Worker, Upgrade(w)
        PROVE  Once(queue') /\ \A v \in Worker : pc'[v] # "idle" <=> Among(queue', v)
    <3>1. /\ queue # <<>> /\ Head(queue) = w /\ pc[w] = "read"
          /\ queue' = Append(Tail(queue), w) /\ pc' = [pc EXCEPT ![w] = "write"]
      BY <2>4 DEF Upgrade, Holds
    <3>2. /\ Tail(queue) \in Seq(Worker) /\ Once(Tail(queue)) /\ ~Among(Tail(queue), w)
          /\ \A v : Among(Tail(queue), v) <=> Among(queue, v) /\ v # w
      BY <2>1, <3>1, Departures, HeadsAndTails
    <3>3. Once(queue') /\ \A v : Among(queue', v) <=> Among(Tail(queue), v) \/ v = w
      BY <3>1, <3>2, Arrivals
    <3> QED  BY <2>1, <3>1, <3>2, <3>3
  <2> QED
    BY <1>2, <2>1, <2>2, <2>3, <2>4, QueueSteps DEF NobodyIsForgotten, Once, Among
<1> QED  BY <1>1, <1>2, KeyCacheInvHolds, PTL DEF Spec

\* Nobody returns before a caller that is ahead, and nobody is overtaken but where it
\* changes the read lock for the write lock, which a call does at most once.
THEOREM TurnsAreKeptByAll == Spec => TurnsAreKept
<1> DEFINE Fair(v, w) ==
      /\ Ahead(queue, v, w) => ~Returns(w)
      /\ Ahead(queue', v, w) => Ahead(queue, v, w) \/ pc[w] = "idle"
                                  \/ (pc[w] = "read" /\ pc'[w] = "write")
<1>1. ASSUME KeyCacheInv, NobodyIsForgotten, [Next]_vars, NEW v \in Worker, NEW w \in Worker
      PROVE  Fair(v, w)
  <2>1. /\ queue \in Seq(Worker) /\ Once(queue)
        /\ pc \in [Worker -> {"idle", "read", "write", "fetch", "fetched"}]
        /\ \A u \in Worker : pc[u] # "idle" <=> Among(queue, u)
    BY <1>1 DEF KeyCacheInv, TypeOK, NobodyIsForgotten
  <2>2. ASSUME NEW u \in Worker, NEW k \in Key, Call(u, k)  PROVE Fair(v, w)
    <3>1. /\ pc[u] = "idle" /\ ~Among(queue, u) /\ queue' = Append(queue, u)
          /\ pc' = [pc EXCEPT ![u] = "read"]
      BY <2>1, <2>2 DEF Call
    <3>2. ~Returns(w)
      BY <2>1, <3>1 DEF Returns
    <3>3. Ahead(queue', v, w) => Ahead(queue, v, w) \/ w = u
      BY <2>1, <3>1, Arrivals
    <3> QED  BY <3>1, <3>2, <3>3
  <2>3. ASSUME NEW u \in Worker, queue # <<>>, Head(queue) = u
        PROVE  /\ ~Ahead(queue, v, u)
               /\ Ahead(Tail(queue), v, w) => Ahead(queue, v, w)
    <3>1. /\ \A t, x : Ahead(Tail(queue), t, x) => Ahead(queue, t, x)
          /\ \A t : ~Ahead(queue, t, Head(queue))
      BY <2>1, <2>3, Departures
    <3> QED  BY <2>3, <3>1
  <2>4. ASSUME NEW u \in Worker, queue # <<>>, Head(queue) = u, queue' = Tail(queue),
               pc' = [pc EXCEPT ![u] = "idle"]
        PROVE  Fair(v, w)
    <3>1. Returns(w) => w = u
      BY <2>1, <2>4 DEF Returns
    <3>2. ~Ahead(queue, v, u) /\ (Ahead(queue', v, w) => Ahead(queue, v, w))
      BY <2>3, <2>4
    <3> QED  BY <3>1, <3>2
  <2>5. ASSUME NEW u \in Worker, Upgrade(u)  PROVE Fair(v, w)
    <3>1. /\ queue # <<>> /\ Head(queue) = u /\ pc[u] = "read"
          /\ queue' = Append(Tail(queue), u) /\ pc' = [pc EXCEPT ![u] = "write"]
      BY <2>5 DEF Upgrade, Holds
    <3>2. /\ Tail(queue) \in Seq(Worker) /\ Once(Tail(queue)) /\ ~Among(Tail(queue), u)
      BY <2>1, <3>1, Departures, HeadsAndTails
    <3>3. Ahead(queue', v, w) => Ahead(Tail(queue), v, w) \/ w = u
      BY <3>1, <3>2, Arrivals
    <3>4. ~Returns(w) /\ (w = u => pc[w] = "read" /\ pc'[w] = "write")
      BY <2>1, <3>1 DEF Returns
    <3>5. Ahead(Tail(queue), v, w) => Ahead(queue, v, w)
      BY <2>3, <3>1
    <3> QED  BY <3>3, <3>4, <3>5
  <2>6. ASSUME queue' = queue, \A u \in Worker : pc'[u] = "idle" <=> pc[u] = "idle"
        PROVE  Fair(v, w)
    BY <2>6 DEF Returns
  <2> HIDE DEF Fair
  <2> QED  BY <1>1, <2>2, <2>4, <2>5, <2>6, QueueSteps
<1>2. KeyCacheInv /\ NobodyIsForgotten /\ [Next]_vars => [\A v, w \in Worker : Fair(v, w)]_vars
  BY <1>1
<1> QED  BY <1>2, KeyCacheInvHolds, CallersAreKept, PTL DEF Spec, TurnsAreKept
===============================================================================
