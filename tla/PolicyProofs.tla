----------------------------- MODULE PolicyProofs -----------------------------
(***************************************************************************)
(* Proofs about PolicyCache, for any number of callers, any policies and   *)
(* any times, waits and widths of the shift.                               *)
(***************************************************************************)
EXTENDS PolicyCache, TLAPS

-------------------------------------------------------------------------------
\* The constants and the backoff

LEMMA ConstantFacts ==
    /\ Invalid \subseteq Version /\ NoPolicy \notin Version
    /\ PRIMARY_TTL \in Nat /\ STALE_TTL \in Nat /\ PRIMARY_TTL <= STALE_TTL
    /\ MAX_JITTER \in Nat /\ LOAD_TIMEOUT \in Nat /\ LongGone \in Nat
    /\ MAX_BACKOFF \in Nat \ {0} /\ MaxWait \in Nat /\ RetryAfters \subseteq Nat
    /\ U32_MAX \in Nat \ {0}
<1>1. SHIFT_BITS \in 0..SHIFT_BITS
  BY CacheConstants
<1>2. 2^SHIFT_BITS \in Nat \ {0} /\ 2^SHIFT_BITS >= 2
  BY <1>1, Powers
<1> QED  BY <1>2, CacheConstants DEF LongGone, MaxWait, U32_MAX

\* A product with a positive factor is no smaller.
LEMMA Products ==
    ASSUME NEW a \in Nat \ {0}, NEW b \in Nat \ {0}
    PROVE  a * b \in Nat /\ a * b >= a
<1>1. b - 1 \in Nat /\ a * b = a * (b - 1) + a /\ a * (b - 1) \in Nat
  OBVIOUS
<1> QED  BY <1>1

\* The wait after a rate limit is at least what GitHub asked for, up to the cap, and
\* never more than the cap and the jitter, however many limits came before.
LEMMA BackoffIsBounded ==
    ASSUME NEW r \in Nat, NEW n \in 1..U32_MAX, jitter \in 0..MAX_JITTER
    PROVE  Backoff(r, n) \in 1..MaxWait /\ Backoff(r, n) >= Least(r, MAX_BACKOFF)
<1> USE ConstantFacts
<1>1. Multiplier(n) \in Nat \ {0}
  <2>1. CASE n - 1 < SHIFT_BITS
    <3>1. n - 1 \in 0..SHIFT_BITS
      BY <2>1, CacheConstants
    <3> QED  BY <2>1, <3>1, Powers DEF Multiplier
  <2>2. CASE ~(n - 1 < SHIFT_BITS)
    BY <2>2 DEF Multiplier
  <2> QED  BY <2>1, <2>2
<1> DEFINE wait == Greatest(1, Least(r, MAX_BACKOFF))
<1>2. wait \in Nat \ {0} /\ wait >= Least(r, MAX_BACKOFF) /\ Least(r, MAX_BACKOFF) <= MAX_BACKOFF
      /\ Least(r, MAX_BACKOFF) \in Nat
  BY DEF Greatest, Least
<1> HIDE DEF wait
<1>3. wait * Multiplier(n) \in Nat /\ wait * Multiplier(n) >= wait
  BY <1>1, <1>2, Products
<1>4. Backoff(r, n) = Least(wait * Multiplier(n), MAX_BACKOFF) + jitter
  BY DEF Backoff, wait
<1>5. Least(wait * Multiplier(n), MAX_BACKOFF) \in 1..MAX_BACKOFF
      /\ Least(wait * Multiplier(n), MAX_BACKOFF) >= Least(r, MAX_BACKOFF)
  <2> DEFINE product == wait * Multiplier(n)
             asked   == Least(r, MAX_BACKOFF)
  <2>1. product \in Nat \ {0} /\ product >= asked /\ asked \in Nat /\ asked <= MAX_BACKOFF
    BY <1>2, <1>3
  <2> HIDE DEF product, asked
  <2>2. Least(product, MAX_BACKOFF) \in 1..MAX_BACKOFF /\ Least(product, MAX_BACKOFF) >= asked
    BY <2>1 DEF Least
  <2> QED  BY <2>2 DEF product, asked
<1> DEFINE capped == Least(wait * Multiplier(n), MAX_BACKOFF)
<1> HIDE DEF capped
<1>6. capped + jitter \in 1..MaxWait /\ capped + jitter >= Least(r, MAX_BACKOFF)
  BY <1>2, <1>5 DEF capped, MaxWait
<1> QED  BY <1>4, <1>6 DEF capped

LEMMA RepliesAskForTime ==
    ASSUME NEW r \in Replies  PROVE r.after \in Nat
<1>1. RetryAfters \cup {0} \subseteq Nat
  BY CacheConstants
<1>2. r.after \in RetryAfters \cup {0}
  BY DEF Replies
<1> QED  BY <1>1, <1>2

LEMMA HeadsAndTails ==
    ASSUME NEW q \in Seq(Worker)
    PROVE  /\ q # <<>> => Head(q) \in Worker /\ Tail(q) \in Seq(Worker)
           /\ \A w \in Worker : Append(q, w) \in Seq(Worker) /\ Append(q, w) # <<>>
           /\ \A w \in Worker : q # <<>> => Head(Append(q, w)) = Head(q)
  OBVIOUS

\* While the head of the queue still looks, no load runs.
LEMMA LooksAreQuiet ==
    ASSUME OneLoad, NEW w \in Worker, pc[w] = "queued", Holds(w)
    PROVE  ~LoadRuns /\ \A v \in Worker : pc[v] \notin {"load", "done"}
  BY DEF OneLoad, Holds, LoadRuns

-------------------------------------------------------------------------------
\* The steps preserve the invariant

LEMMA PolicyCacheInvInit == Init => PolicyCacheInv
<1> SUFFICES ASSUME Init  PROVE PolicyCacheInv
  OBVIOUS
<1>1. TypeOK
  <2>1. /\ age \in 0..STALE_TTL /\ limits \in 0..U32_MAX /\ loading \in 0..LOAD_TIMEOUT
        /\ embargo \in 0..MAX_BACKOFF
    BY ConstantFacts DEF Init
  <2>2. gone \in [Version -> 0..LongGone]
    BY ConstantFacts DEF Init
  <2>3. /\ queue \in Seq(Worker) /\ result \in [Worker -> Results] /\ reply \in Replies
        /\ pc \in [Worker -> {"idle", "queued", "load", "done"}]
    BY DEF Init, Results, Replies, Denied, NoReply
  <2> QED  BY <2>1, <2>2, <2>3 DEF Init, TypeOK
<1>2. ~LoadRuns /\ ~Fresh /\ OneLoad
  BY DEF Init, LoadRuns, Fresh, OneLoad
<1>3. PolicyIsDated /\ FreshIsLast
  BY <1>2 DEF Init, PolicyIsDated, FreshIsLast, NoReply
<1>4. EmbargoIsKept
  BY DEF Init, EmbargoIsKept, HonoursRetryAfter, Greatest, NoRetry
<1> QED  BY <1>1, <1>2, <1>3, <1>4 DEF PolicyCacheInv

\* A caller queues up.
LEMMA CallKeeps ==
    ASSUME PolicyCacheInv, NEW w \in Worker, Call(w)
    PROVE  PolicyCacheInv'
<1> USE DEF PolicyCacheInv, Call, cache, world
<1>1. TypeOK'
  BY HeadsAndTails DEF TypeOK, Results, Denied
<1>2. \A v \in Worker : pc'[v] \in {"load", "done"} \/ pc[v] \in {"load", "done"} => pc'[v] = pc[v]
  BY DEF TypeOK
<1>3. OneLoad'
  BY <1>2, HeadsAndTails DEF TypeOK, OneLoad
<1>4. LoadRuns' = LoadRuns /\ Fresh' = Fresh
  BY <1>2 DEF LoadRuns, Fresh, FreshFor
<1>5. PolicyIsDated' /\ FreshIsLast'
  BY <1>4 DEF PolicyIsDated, FreshIsLast
<1>6. EmbargoIsKept'
  BY <1>2, <1>4 DEF EmbargoIsKept, HonoursRetryAfter
<1> QED  BY <1>1, <1>3, <1>5, <1>6

\* A caller is served, or denied during the backoff, and leaves.
LEMMA LookKeeps ==
    ASSUME PolicyCacheInv, NEW w \in Worker, DenyInBackoff(w) \/ Serve(w)
    PROVE  PolicyCacheInv'
<1> USE ConstantFacts DEF PolicyCacheInv
<1>1. /\ pc[w] = "queued" /\ Holds(w)
      /\ \E r \in Results : Return(w, r)
      /\ UNCHANGED <<jitter, limits, loading, reply, hosted, github, gone, embargo, last>>
      /\ (policy' = policy /\ age' = age) \/ (policy' = NoPolicy /\ age' = 0)
      /\ retryIn' = retryIn \/ (retryIn' = NoRetry /\ ~InBackoff)
  <2>1. CASE DenyInBackoff(w)
    <3>1. Denied("limited") \in Results
      BY DEF Results, Denied
    <3> QED  BY <2>1, <3>1 DEF DenyInBackoff, world
  <2>2. CASE Serve(w)
    <3>1. Allowed(policy) \in Results
      BY DEF Results, Allowed, TypeOK
    <3> QED  BY <2>2, <3>1 DEF Serve, world
  <2> QED  BY <2>1, <2>2
<1>2. queue \in Seq(Worker) /\ queue # <<>>
  BY <1>1 DEF TypeOK, Holds
<1>3. TypeOK'
  <2>1. queue' \in Seq(Worker)
    BY <1>1, <1>2, HeadsAndTails DEF Return
  <2>2. pc' \in [Worker -> {"idle", "queued", "load", "done"}] /\ result' \in [Worker -> Results]
    BY <1>1 DEF TypeOK, Return
  <2>3. /\ policy' \in Version \cup {NoPolicy} /\ age' \in 0..STALE_TTL
        /\ retryIn' \in {NoRetry} \cup 0..MaxWait
    BY <1>1 DEF TypeOK
  <2> QED  BY <1>1, <2>1, <2>2, <2>3 DEF TypeOK
<1>4. ~LoadRuns /\ \A v \in Worker : pc[v] \notin {"load", "done"}
  BY <1>1, LooksAreQuiet
<1>5. \A v \in Worker : pc'[v] \notin {"load", "done"}
  BY <1>1, <1>4 DEF Return, TypeOK
<1>6. ~LoadRuns' /\ OneLoad'
  BY <1>5 DEF LoadRuns, OneLoad
<1>7. Fresh' => Fresh /\ policy' = policy /\ age' = age
  BY <1>1 DEF Fresh, FreshFor
<1>8. PolicyIsDated' /\ FreshIsLast'
  <2>1. reply.kind # "loaded"
    BY <1>4 DEF PolicyIsDated
  <2> QED  BY <1>1, <1>6, <1>7, <2>1 DEF PolicyIsDated, FreshIsLast
<1>9. EmbargoIsKept'
  <2>1. embargo <= Greatest(retryIn, 0)
    BY <1>4 DEF EmbargoIsKept
  <2>2. embargo' <= Greatest(retryIn', 0)
    BY <1>1, <2>1 DEF Greatest, InBackoff, NoRetry, TypeOK
  <2> QED  BY <1>5, <2>2 DEF EmbargoIsKept, HonoursRetryAfter
<1> QED  BY <1>3, <1>6, <1>8, <1>9

\* A load starts, with the mutex held.
LEMMA StartKeeps ==
    ASSUME PolicyCacheInv, NEW w \in Worker, StartLoad(w)
    PROVE  PolicyCacheInv'
<1> USE ConstantFacts DEF PolicyCacheInv, StartLoad, world
<1>1. TypeOK'
  BY DEF TypeOK
<1>2. ~LoadRuns /\ \A v \in Worker : pc[v] \notin {"load", "done"}
  BY LooksAreQuiet
<1>3. \A v \in Worker : pc'[v] = IF v = w THEN "load" ELSE pc[v]
  BY DEF TypeOK
<1>4. OneLoad' /\ LoadRuns'
  BY <1>2, <1>3 DEF OneLoad, LoadRuns, Holds
<1>5. ~Fresh'
  BY DEF Fresh, FreshFor
<1>6. embargo = 0
  BY <1>2 DEF EmbargoIsKept, Greatest, InBackoff, TypeOK, NoRetry
<1>7. EmbargoIsKept'
  BY <1>2, <1>3, <1>4, <1>6 DEF EmbargoIsKept, HonoursRetryAfter
<1>8. FreshIsLast'
  BY <1>5 DEF FreshIsLast
<1>9. PolicyIsDated'
  <2>1. reply.kind # "loaded"
    BY <1>2 DEF PolicyIsDated
  <2> QED  BY <1>5, <2>1 DEF PolicyIsDated
<1> QED  BY <1>1, <1>4, <1>7, <1>8, <1>9

\* GitHub answers the load under way.
LEMMA AnswerKeeps ==
    ASSUME PolicyCacheInv, NEW w \in Worker, GithubAnswers(w)
    PROVE  PolicyCacheInv'
<1> USE ConstantFacts DEF PolicyCacheInv
<1>1. /\ pc[w] = "load" /\ pc' = [pc EXCEPT ![w] = "done"]
      /\ UNCHANGED <<jitter, policy, age, retryIn, limits, queue, loading, result, hosted, github,
                     gone, last>>
  BY DEF GithubAnswers, cache, world
<1>2. \/ reply' = Failed /\ embargo' = embargo
      \/ hosted \in Version \ Invalid /\ reply' = Loaded(hosted) /\ embargo' = embargo
      \/ \E r \in RetryAfters : reply' = Limited(r) /\ embargo' = Least(r, MAX_BACKOFF)
  BY DEF GithubAnswers, TypeOK
<1>3. embargo = 0
  BY <1>1 DEF EmbargoIsKept, HonoursRetryAfter
<1>4. reply' \in Replies /\ embargo' \in 0..MAX_BACKOFF
  <2>1. Failed \in Replies
    BY DEF Failed, Replies
  <2>2. \A v \in Version : Loaded(v) \in Replies
    BY DEF Loaded, Replies
  <2>3. \A r \in RetryAfters : Limited(r) \in Replies /\ Least(r, MAX_BACKOFF) \in 0..MAX_BACKOFF
    BY DEF Limited, Replies, Least
  <2> QED  BY <1>2, <1>3, <2>1, <2>2, <2>3
<1>5. TypeOK'
  BY <1>1, <1>4 DEF TypeOK
<1>6. \A v \in Worker : pc'[v] = IF v = w THEN "done" ELSE pc[v]
  BY <1>1 DEF TypeOK
<1>7. OneLoad' /\ LoadRuns' /\ LoadRuns
  BY <1>1, <1>6 DEF OneLoad, LoadRuns
<1>8. Fresh' = Fresh
  BY <1>1 DEF Fresh, FreshFor
<1>9. PolicyIsDated'
  <2>1. reply'.kind = "loaded" => reply'.version = hosted /\ hosted \in Version \ Invalid
    BY <1>2 DEF Failed, Loaded, Limited
  <2>2. loading \in Nat
    BY DEF TypeOK
  <2> QED  BY <1>1, <1>6, <1>8, <2>1, <2>2 DEF PolicyIsDated
<1>10. FreshIsLast'
  BY <1>1, <1>7, <1>8 DEF FreshIsLast
<1>11. EmbargoIsKept'
  <2>1. embargo' <= IF reply'.kind = "limited" THEN Least(reply'.after, MAX_BACKOFF) ELSE 0
    BY <1>2, <1>3, <1>4 DEF Failed, Loaded, Limited
  <2>2. \A v \in Worker : pc'[v] # "load"
    BY <1>1, <1>6 DEF OneLoad
  <2> QED  BY <1>7, <2>1, <2>2 DEF EmbargoIsKept, HonoursRetryAfter
<1> QED  BY <1>5, <1>7, <1>9, <1>10, <1>11

\* A load ends and its caller leaves.
LEMMA EndKeeps ==
    ASSUME PolicyCacheInv, NEW w \in Worker, LoadOk(w) \/ LoadLimited(w) \/ LoadFailed(w)
    PROVE  PolicyCacheInv'
<1> USE ConstantFacts DEF PolicyCacheInv
<1>1. /\ pc[w] = "done" /\ reply' = NoReply
      /\ UNCHANGED <<jitter, loading, hosted, github, gone, embargo>>
      /\ \E r \in Results : Return(w, r)
  <2>1. CASE LoadOk(w)
    <3>1. Allowed(reply.version) \in Results
      BY DEF Results, Allowed, TypeOK, Replies
    <3> QED  BY <2>1, <3>1 DEF LoadOk, world
  <2>2. CASE LoadLimited(w) \/ LoadFailed(w)
    <3>1. Denied("limited") \in Results /\ Denied("failed") \in Results
      BY DEF Results, Denied
    <3> QED  BY <2>2, <3>1 DEF LoadLimited, LoadFailed, world
  <2> QED  BY <2>1, <2>2
<1>2. queue \in Seq(Worker) /\ queue # <<>> /\ Head(queue) = w
  BY <1>1 DEF TypeOK, OneLoad
<1>3. \A v \in Worker : pc'[v] = IF v = w THEN "idle" ELSE pc[v]
  BY <1>1 DEF TypeOK, Return
<1>4. \A v \in Worker : pc'[v] \notin {"load", "done"}
  BY <1>2, <1>3 DEF OneLoad
<1>5. OneLoad' /\ ~LoadRuns'
  BY <1>4 DEF OneLoad, LoadRuns
<1>6. /\ queue' \in Seq(Worker) /\ result' \in [Worker -> Results] /\ reply' \in Replies
      /\ pc' \in [Worker -> {"idle", "queued", "load", "done"}]
  <2>1. queue' \in Seq(Worker)
    BY <1>1, <1>2, HeadsAndTails DEF Return
  <2>2. NoReply \in Replies
    BY DEF NoReply, Replies
  <2> QED  BY <1>1, <2>1, <2>2 DEF TypeOK, Return
<1>7. /\ policy' \in Version \cup {NoPolicy} /\ age' \in 0..STALE_TTL
      /\ retryIn' \in {NoRetry} \cup 0..MaxWait /\ limits' \in 0..U32_MAX
      /\ last' \in {"none", "loaded", "limited", "failed"}
      /\ embargo <= Greatest(retryIn', 0)
      /\ Fresh' => /\ last' = "loaded" /\ policy' \in Version \ Invalid
                   /\ gone[policy'] <= age' + LOAD_TIMEOUT
  <2> USE DEF TypeOK
  <2>1. CASE LoadOk(w)
    <3>1. /\ reply.kind = "loaded" /\ policy' = reply.version /\ age' = 0
          /\ retryIn' = NoRetry /\ limits' = 0 /\ last' = "loaded"
      BY <2>1 DEF LoadOk
    <3>2. policy' \in Version \ Invalid /\ gone[policy'] <= loading
      BY <3>1 DEF PolicyIsDated
    <3>3. embargo <= 0
      BY <1>1, <3>1 DEF EmbargoIsKept
    <3> QED  BY <3>1, <3>2, <3>3 DEF Greatest, NoRetry
  <2>2. CASE LoadLimited(w)
    <3>1. /\ reply.kind = "limited" /\ limits' = Least(limits + 1, U32_MAX)
          /\ retryIn' = Backoff(reply.after, limits') /\ last' = "limited"
          /\ (policy' = policy /\ age' = age) \/ (policy' = NoPolicy /\ age' = 0)
      BY <2>2 DEF LoadLimited
    <3>2. limits' \in 1..U32_MAX
      BY <3>1 DEF Least
    <3>3. reply.after \in Nat
      BY RepliesAskForTime
    <3>4. retryIn' \in 1..MaxWait /\ retryIn' >= Least(reply.after, MAX_BACKOFF)
      BY <3>1, <3>2, <3>3, BackoffIsBounded
    <3>5. embargo <= Least(reply.after, MAX_BACKOFF) /\ Least(reply.after, MAX_BACKOFF) \in Nat
      BY <1>1, <3>1, <3>3 DEF EmbargoIsKept, Least
    <3>6. ~Fresh'
      <4>1. ~Fresh
        BY <1>1 DEF FreshIsLast, LoadRuns
      <4> QED  BY <1>1, <3>1, <4>1 DEF Fresh, FreshFor
    <3>7. policy' \in Version \cup {NoPolicy} /\ age' \in 0..STALE_TTL
      BY <3>1
    <3> QED  BY <3>1, <3>2, <3>4, <3>5, <3>6, <3>7 DEF Greatest
  <2>3. CASE LoadFailed(w)
    <3>1. /\ reply.kind = "failed" /\ policy' = NoPolicy /\ age' = 0
          /\ retryIn' = NoRetry /\ limits' = 0 /\ last' = "failed"
      BY <2>3 DEF LoadFailed
    <3>2. embargo <= 0 /\ ~Fresh'
      BY <1>1, <3>1 DEF EmbargoIsKept, Fresh
    <3> QED  BY <3>1, <3>2 DEF Greatest, NoRetry
  <2> QED  BY <2>1, <2>2, <2>3
<1>8. TypeOK'
  BY <1>1, <1>6, <1>7 DEF TypeOK
<1>9. PolicyIsDated' /\ FreshIsLast'
  BY <1>1, <1>5, <1>7 DEF PolicyIsDated, FreshIsLast, NoReply
<1>10. EmbargoIsKept'
  BY <1>1, <1>4, <1>7 DEF EmbargoIsKept, HonoursRetryAfter
<1> QED  BY <1>5, <1>8, <1>9, <1>10

\* Somebody merges a policy, or GitHub changes its mood.
LEMMA GithubKeeps ==
    ASSUME PolicyCacheInv,
           (\E v \in Version : Publish(v))
             \/ (\E mood \in {"up", "limiting", "down"} : GithubTurns(mood))
    PROVE  PolicyCacheInv'
<1> USE ConstantFacts DEF PolicyCacheInv
<1>1. UNCHANGED <<jitter, policy, age, retryIn, limits, queue, pc, loading, reply, result, embargo,
                  last>>
  BY DEF Publish, GithubTurns, cache
<1>2. /\ hosted' \in Version /\ github' \in {"up", "limiting", "down"}
      /\ gone' \in [Version -> 0..LongGone] /\ gone'[hosted'] = 0
      /\ \A v \in Version : gone'[v] <= gone[v]
  <2>1. \A v \in Version : gone[v] \in 0..LongGone
    BY DEF TypeOK
  <2>2. ASSUME NEW v \in Version, Publish(v)
        PROVE  /\ hosted' \in Version /\ github' \in {"up", "limiting", "down"}
               /\ gone' \in [Version -> 0..LongGone] /\ gone'[hosted'] = 0
               /\ \A u \in Version : gone'[u] <= gone[u]
    BY <2>1, <2>2 DEF Publish, TypeOK
  <2>3. ASSUME NEW mood \in {"up", "limiting", "down"}, GithubTurns(mood)
        PROVE  /\ hosted' \in Version /\ github' \in {"up", "limiting", "down"}
               /\ gone' \in [Version -> 0..LongGone] /\ gone'[hosted'] = 0
               /\ \A u \in Version : gone'[u] <= gone[u]
    BY <2>1, <2>3 DEF GithubTurns, TypeOK, PolicyIsDated
  <2> QED  BY <2>2, <2>3
<1>3. TypeOK'
  BY <1>1, <1>2 DEF TypeOK
<1>4. OneLoad' /\ LoadRuns' = LoadRuns /\ Fresh' = Fresh
  BY <1>1 DEF OneLoad, LoadRuns, Fresh, FreshFor
<1>5. \A v \in Version : gone[v] \in Nat /\ gone'[v] \in Nat
  BY <1>2 DEF TypeOK
<1>6. PolicyIsDated'
  <2>1. age \in Nat /\ loading \in Nat /\ (Fresh => policy \in Version)
    BY DEF TypeOK, Fresh
  <2> QED  BY <1>1, <1>2, <1>4, <1>5, <2>1 DEF PolicyIsDated
<1>7. FreshIsLast' /\ EmbargoIsKept'
  BY <1>1, <1>4 DEF FreshIsLast, EmbargoIsKept, HonoursRetryAfter
<1> QED  BY <1>3, <1>4, <1>6, <1>7

\* A second passes.
LEMMA TickKeeps == ASSUME PolicyCacheInv, Tick PROVE PolicyCacheInv'
<1> USE ConstantFacts DEF PolicyCacheInv
<1>1. /\ UNCHANGED <<jitter, policy, limits, queue, pc, reply, result, hosted, github, last>>
      /\ OneLoad' /\ LoadRuns' = LoadRuns
  BY DEF Tick, OneLoad, LoadRuns
<1>2. /\ age' \in 0..STALE_TTL /\ loading' \in 0..LOAD_TIMEOUT /\ embargo' \in 0..MAX_BACKOFF
      /\ retryIn' \in {NoRetry} \cup 0..MaxWait
      /\ LoadRuns => loading' = loading + 1
      /\ Fresh' => Fresh /\ age' = age + 1
      /\ embargo' <= embargo
      /\ embargo <= Greatest(retryIn, 0) => embargo' <= Greatest(retryIn', 0)
  <2>1. age' \in 0..STALE_TTL /\ (Fresh' => Fresh /\ age' = age + 1)
    BY <1>1 DEF Tick, TypeOK, Least, Greatest, Fresh, FreshFor
  <2>2. loading' \in 0..LOAD_TIMEOUT /\ (LoadRuns => loading' = loading + 1)
    BY DEF Tick, TypeOK
  <2>3. /\ embargo' \in 0..MAX_BACKOFF /\ embargo' <= embargo
        /\ retryIn' \in {NoRetry} \cup 0..MaxWait
        /\ embargo <= Greatest(retryIn, 0) => embargo' <= Greatest(retryIn', 0)
    BY DEF Tick, TypeOK, Greatest, NoRetry
  <2> QED  BY <2>1, <2>2, <2>3
<1>3. /\ gone' \in [Version -> 0..LongGone] /\ gone'[hosted] = 0
      /\ \A v \in Version : gone'[v] <= gone[v] + 1 /\ gone'[v] \in Nat /\ gone[v] \in Nat
  BY DEF Tick, TypeOK, Least
<1>4. TypeOK'
  BY <1>1, <1>2, <1>3 DEF TypeOK
<1>5. PolicyIsDated'
  <2>1. reply.kind = "loaded" => LoadRuns
    BY DEF PolicyIsDated, LoadRuns
  <2>2. age \in Nat /\ loading \in Nat /\ (Fresh => policy \in Version)
    BY DEF TypeOK, Fresh
  <2> QED  BY <1>1, <1>2, <1>3, <2>1, <2>2 DEF PolicyIsDated
<1>6. FreshIsLast'
  BY <1>1, <1>2 DEF FreshIsLast
<1>7. EmbargoIsKept'
  <2>1. embargo \in Nat /\ embargo' \in Nat
    BY <1>2 DEF TypeOK
  <2>2. \A w \in Worker : pc[w] = "load" => embargo' = 0
    BY <1>2, <2>1 DEF EmbargoIsKept, HonoursRetryAfter
  <2>3. \A w \in Worker : pc[w] = "done" =>
          embargo' <= IF reply.kind = "limited" THEN Least(reply.after, MAX_BACKOFF) ELSE 0
    <3>1. reply.after \in Nat
      BY RepliesAskForTime DEF TypeOK
    <3>2. (IF reply.kind = "limited" THEN Least(reply.after, MAX_BACKOFF) ELSE 0) \in Nat
      BY <3>1 DEF Least
    <3> QED  BY <1>2, <2>1, <3>2 DEF EmbargoIsKept
  <2> QED  BY <1>1, <1>2, <2>2, <2>3 DEF EmbargoIsKept, HonoursRetryAfter
<1> QED  BY <1>1, <1>4, <1>5, <1>6, <1>7

\* The mutex, the snapshot, the backoff and what GitHub asked for fit together, for any
\* number of callers.
THEOREM PolicyCacheInvHolds == Spec => []PolicyCacheInv
<1>1. PolicyCacheInv /\ UNCHANGED vars => PolicyCacheInv'
  <2> SUFFICES ASSUME PolicyCacheInv, UNCHANGED vars  PROVE PolicyCacheInv'
    OBVIOUS
  <2> USE DEF PolicyCacheInv, vars, cache, world
  <2>1. TypeOK' /\ OneLoad' /\ LoadRuns' = LoadRuns /\ Fresh' = Fresh
    BY DEF TypeOK, OneLoad, LoadRuns, Fresh, FreshFor
  <2> QED
    BY <2>1 DEF PolicyIsDated, FreshIsLast, EmbargoIsKept, HonoursRetryAfter
<1>2. PolicyCacheInv /\ [Next]_vars => PolicyCacheInv'
  BY <1>1, CallKeeps, LookKeeps, StartKeeps, AnswerKeeps, EndKeeps, GithubKeeps, TickKeeps
     DEF Next, Step, Surroundings
<1> QED  BY <1>2, PolicyCacheInvInit, PTL DEF Spec

-------------------------------------------------------------------------------
\* What the cache promises

\* GitHub is never asked while it has asked to be left alone.
THEOREM RetryAfterIsHonoured == Spec => []HonoursRetryAfter
<1>1. PolicyCacheInv => HonoursRetryAfter
  BY DEF PolicyCacheInv, EmbargoIsKept
<1> QED  BY <1>1, PolicyCacheInvHolds, PTL

\* Where a caller is let in, and with what.
LEMMA LetInBy ==
    ASSUME PolicyCacheInv, [Next]_vars, NEW w \in Worker, LetsIn(w)
    PROVE  \/ Serve(w) /\ result'[w] = Allowed(policy)
           \/ LoadOk(w) /\ result'[w] = Allowed(reply.version)
<1> USE DEF PolicyCacheInv, LetsIn, Returns
<1>1. pc[w] # "idle" /\ pc'[w] = "idle" /\ result'[w].kind = "allowed"
      /\ pc \in [Worker -> {"idle", "queued", "load", "done"}] /\ result \in [Worker -> Results]
  BY DEF TypeOK
<1>2. ASSUME NEW v \in Worker, Call(v)  PROVE FALSE
  BY <1>1, <1>2 DEF Call
<1>3. ASSUME Surroundings \/ UNCHANGED vars  PROVE FALSE
  BY <1>1, <1>3 DEF Surroundings, Publish, GithubTurns, Tick, vars
<1>4. ASSUME NEW v \in Worker, Step(v)  PROVE v = w
  BY <1>1, <1>4 DEF Step, DenyInBackoff, Serve, StartLoad, GithubAnswers, LoadOk, LoadLimited,
     LoadFailed, Return
<1>5. Step(w)
  BY <1>2, <1>3, <1>4 DEF Next
<1>6. ~StartLoad(w) /\ ~GithubAnswers(w)
  BY <1>1 DEF StartLoad, GithubAnswers
<1>7. ~DenyInBackoff(w) /\ ~LoadLimited(w) /\ ~LoadFailed(w)
  BY <1>1 DEF DenyInBackoff, LoadLimited, LoadFailed, Return, Denied
<1> QED  BY <1>1, <1>5, <1>6, <1>7 DEF Step, Serve, LoadOk, Return

\* A policy that authorizes is no older than the primary ttl less the jitter, and a load.
THEOREM PoliciesAreCurrent == Spec => AuthorizedIsCurrent
<1>1. ASSUME PolicyCacheInv, [Next]_vars, NEW w \in Worker, LetsIn(w)
      PROVE  gone[result'[w].version] <= Greatest(PRIMARY_TTL - jitter, 0) + LOAD_TIMEOUT
  <2> USE ConstantFacts, <1>1 DEF PolicyCacheInv, Allowed
  <2>1. /\ age \in Nat /\ loading \in 0..LOAD_TIMEOUT /\ jitter \in Nat
        /\ \A v \in Version : gone[v] \in Nat
    BY DEF TypeOK
  <2>2. CASE Serve(w) /\ result'[w] = Allowed(policy)
    <3>1. Fresh /\ policy \in Version
      BY <2>2 DEF Serve, Fresh, TypeOK
    <3>2. gone[policy] <= age + LOAD_TIMEOUT /\ age < Greatest(PRIMARY_TTL - jitter, 0)
      BY <3>1 DEF PolicyIsDated, Fresh, FreshFor
    <3>3. Greatest(PRIMARY_TTL - jitter, 0) \in Nat
      BY <2>1 DEF Greatest
    <3> QED  BY <2>1, <2>2, <3>1, <3>2, <3>3
  <2>3. CASE LoadOk(w) /\ result'[w] = Allowed(reply.version)
    <3>1. gone[reply.version] <= loading /\ reply.version \in Version
      BY <2>3 DEF LoadOk, PolicyIsDated
    <3>2. Greatest(PRIMARY_TTL - jitter, 0) \in Nat
      BY <2>1 DEF Greatest
    <3> QED  BY <2>1, <2>3, <3>1, <3>2
  <2> QED  BY <2>2, <2>3, LetInBy
<1>2. PolicyCacheInv /\ [Next]_vars =>
        [\A w \in Worker :
           LetsIn(w) => gone[result'[w].version]
                          <= Greatest(PRIMARY_TTL - jitter, 0) + LOAD_TIMEOUT]_vars
  BY <1>1
<1> QED  BY <1>2, PolicyCacheInvHolds, PTL DEF Spec, AuthorizedIsCurrent

\* After a refresh that failed, was limited or brought an invalid policy, nobody is let in.
THEOREM RefreshesFailClosed == Spec => FailsClosed
<1>1. ASSUME PolicyCacheInv, [Next]_vars, NEW w \in Worker, LetsIn(w)
      PROVE  last' = "loaded" /\ result'[w].version \notin Invalid
  <2> USE <1>1 DEF PolicyCacheInv, Allowed
  <2>1. CASE Serve(w) /\ result'[w] = Allowed(policy)
    BY <2>1 DEF Serve, PolicyIsDated, FreshIsLast
  <2>2. CASE LoadOk(w) /\ result'[w] = Allowed(reply.version)
    BY <2>2 DEF LoadOk, PolicyIsDated
  <2> QED  BY <2>1, <2>2, LetInBy
<1>2. PolicyCacheInv /\ [Next]_vars =>
        [\A w \in Worker :
           LetsIn(w) => last' = "loaded" /\ result'[w].version \notin Invalid]_vars
  BY <1>1
<1> QED  BY <1>2, PolicyCacheInvHolds, PTL DEF Spec, FailsClosed

-------------------------------------------------------------------------------
\* The mutex forgets nobody

\* A caller that comes stands behind all the others.
LEMMA Arrivals ==
    ASSUME NEW q \in Seq(Worker), NEW w \in Worker, Once(q), ~Among(q, w)
    PROVE  /\ Once(Append(q, w))
           /\ \A u : Among(Append(q, w), u) <=> Among(q, u) \/ u = w
           /\ \A u, v : Ahead(Append(q, w), u, v) => Ahead(q, u, v) \/ v = w
<1> DEFINE r == Append(q, w)
<1>1. /\ Len(q) \in Nat /\ Len(r) = Len(q) + 1 /\ r[Len(q) + 1] = w
      /\ \A i \in 1..Len(q) : r[i] = q[i]
  OBVIOUS
<1> HIDE DEF r
<1>2. \A i \in 1..Len(r) : \/ i \in 1..Len(q) /\ r[i] = q[i]
                           \/ i = Len(q) + 1 /\ r[i] = w
  BY <1>1
<1>3. Once(r)
  BY <1>1, <1>2 DEF Once, Among
<1>4. ASSUME NEW u  PROVE Among(r, u) <=> Among(q, u) \/ u = w
  <2>1. ASSUME Among(r, u)  PROVE Among(q, u) \/ u = w
    BY <1>2, <2>1 DEF Among
  <2>2. \A i \in 1..Len(q) : i \in 1..Len(r)
    BY <1>1
  <2>3. Len(q) + 1 \in 1..Len(r)
    BY <1>1
  <2> QED  BY <1>1, <2>1, <2>2, <2>3 DEF Among
<1>5. ASSUME NEW u, NEW v, Ahead(r, u, v)  PROVE Ahead(q, u, v) \/ v = w
  <2>1. PICK i \in 1..Len(r), j \in 1..Len(r) : i < j /\ r[i] = u /\ r[j] = v
    BY <1>5 DEF Ahead
  <2>2. CASE j = Len(q) + 1
    BY <1>1, <2>1, <2>2
  <2>3. CASE j # Len(q) + 1
    <3>1. i \in 1..Len(q) /\ j \in 1..Len(q)
      BY <1>1, <2>1, <2>3
    <3> QED  BY <1>1, <2>1, <3>1 DEF Ahead
  <2> QED  BY <2>2, <2>3
<1> QED  BY <1>3, <1>4, <1>5 DEF r

\* When the head leaves, everybody else moves up.
LEMMA Departures ==
    ASSUME NEW q \in Seq(Worker), q # <<>>, Once(q)
    PROVE  /\ Once(Tail(q))
           /\ \A u : Among(Tail(q), u) <=> Among(q, u) /\ u # Head(q)
           /\ \A u, v : Ahead(Tail(q), u, v) => Ahead(q, u, v)
           /\ \A u : ~Ahead(q, u, Head(q))
<1> DEFINE r == Tail(q)
<1>1. /\ Len(q) \in Nat \ {0} /\ Len(r) = Len(q) - 1 /\ Head(q) = q[1]
      /\ \A i \in 1..Len(r) : r[i] = q[i + 1]
  OBVIOUS
<1> DEFINE h == Head(q)
<1> HIDE DEF r, h
<1>2. h = q[1] /\ \A i \in 1..Len(r) : i + 1 \in 1..Len(q) /\ i + 1 # 1 /\ r[i] = q[i + 1]
  BY <1>1 DEF h
<1>3. Once(r)
  BY <1>1, <1>2 DEF Once
<1>4. ASSUME NEW u  PROVE Among(r, u) <=> Among(q, u) /\ u # h
  <2>1. ASSUME Among(r, u)  PROVE Among(q, u) /\ u # h
    BY <1>1, <1>2, <2>1 DEF Among, Once
  <2>2. ASSUME Among(q, u), u # h  PROVE Among(r, u)
    <3>1. PICK i \in 1..Len(q) : q[i] = u
      BY <2>2 DEF Among
    <3>2. i # 1
      BY <1>2, <2>2, <3>1
    <3>3. i - 1 \in 1..Len(r) /\ (i - 1) + 1 = i
      BY <1>1, <3>2
    <3> QED  BY <1>2, <3>1, <3>3 DEF Among
  <2> QED  BY <2>1, <2>2
<1>5. ASSUME NEW u, NEW v, Ahead(r, u, v)  PROVE Ahead(q, u, v)
  <2>1. PICK i \in 1..Len(r), j \in 1..Len(r) : i < j /\ r[i] = u /\ r[j] = v
    BY <1>5 DEF Ahead
  <2>2. /\ i + 1 \in 1..Len(q) /\ j + 1 \in 1..Len(q) /\ i + 1 < j + 1
        /\ q[i + 1] = u /\ q[j + 1] = v
    BY <1>1, <1>2, <2>1
  <2> QED  BY <2>2 DEF Ahead
<1>6. ASSUME NEW u  PROVE ~Ahead(q, u, h)
  <2>1. 1 \in 1..Len(q)
    BY <1>1
  <2>2. \A i, j \in 1..Len(q) : i < j => q[j] # h
    BY <1>1, <1>2, <2>1 DEF Once
  <2> QED  BY <2>2 DEF Ahead
<1> QED  BY <1>3, <1>4, <1>5, <1>6 DEF r, h

\* A caller that returns was the head of the queue, and leaves it.
LEMMA LeaverIsHead ==
    ASSUME PolicyCacheInv, NEW w \in Worker,
           DenyInBackoff(w) \/ Serve(w) \/ LoadOk(w) \/ LoadLimited(w) \/ LoadFailed(w)
    PROVE  /\ queue # <<>> /\ Head(queue) = w /\ queue' = Tail(queue)
           /\ pc' = [pc EXCEPT ![w] = "idle"]
  BY DEF PolicyCacheInv, OneLoad, DenyInBackoff, Serve, LoadOk, LoadLimited, LoadFailed, Holds, Return

\* What a step does to the queue: a caller comes, the head leaves, or it stays as it is.
LEMMA QueueSteps ==
    ASSUME PolicyCacheInv, [Next]_vars
    PROVE  \/ \E w \in Worker : Call(w)
           \/ \E w \in Worker : /\ queue # <<>> /\ Head(queue) = w /\ queue' = Tail(queue)
                                 /\ pc' = [pc EXCEPT ![w] = "idle"]
           \/ /\ queue' = queue
              /\ \A w \in Worker : pc'[w] = "idle" <=> pc[w] = "idle"
<1>1. pc \in [Worker -> {"idle", "queued", "load", "done"}]
  BY DEF PolicyCacheInv, TypeOK
<1>2. ASSUME NEW w \in Worker, StartLoad(w) \/ GithubAnswers(w)
      PROVE  queue' = queue /\ \A v \in Worker : pc'[v] = "idle" <=> pc[v] = "idle"
  BY <1>1, <1>2 DEF StartLoad, GithubAnswers
<1>3. ASSUME Surroundings \/ UNCHANGED vars  PROVE queue' = queue /\ pc' = pc
  BY <1>3 DEF Surroundings, Publish, GithubTurns, Tick, vars
<1> QED  BY <1>2, <1>3, LeaverIsHead DEF Next, Step

\* An answer stays until the load that brought it ends.
LEMMA AnswersStay ==
    ASSUME PolicyCacheInv, [Next]_vars,
           \A w \in Worker : pc[w] = "done" => reply.kind # "none",
           NEW v \in Worker, pc'[v] = "done"
    PROVE  reply'.kind # "none"
<1> USE DEF PolicyCacheInv
<1>1. pc \in [Worker -> {"idle", "queued", "load", "done"}]
  BY DEF TypeOK
<1>2. ASSUME NEW w \in Worker, GithubAnswers(w)  PROVE reply'.kind # "none"
  BY <1>2 DEF GithubAnswers, Failed, Loaded, Limited
<1>3. ASSUME NEW w \in Worker, LoadOk(w) \/ LoadLimited(w) \/ LoadFailed(w)  PROVE FALSE
  <2>1. pc[w] = "done" /\ pc' = [pc EXCEPT ![w] = "idle"]
    BY <1>3 DEF LoadOk, LoadLimited, LoadFailed, Return
  <2>2. pc[v] = "done" /\ v # w
    BY <1>1, <2>1
  <2> QED  BY <2>1, <2>2 DEF OneLoad
<1>4. ASSUME NEW w \in Worker, Call(w) \/ DenyInBackoff(w) \/ Serve(w) \/ StartLoad(w)
      PROVE  reply' = reply /\ pc[v] = "done"
  BY <1>1, <1>4 DEF Call, DenyInBackoff, Serve, StartLoad, Return
<1>5. ASSUME Surroundings \/ UNCHANGED vars  PROVE reply' = reply /\ pc' = pc
  BY <1>5 DEF Surroundings, Publish, GithubTurns, Tick, vars
<1> QED  BY <1>2, <1>3, <1>4, <1>5 DEF Next, Step

\* Exactly the calls that have not returned are in the queue, each once, for any number of
\* callers; a load that was answered has its answer.  So whenever somebody waits, the head
\* of the queue has a step to take: no order of calls leaves everyone waiting on everyone.
THEOREM CallersAreKept == Spec => []NobodyIsForgotten
<1>1. Init => NobodyIsForgotten
  BY DEF Init, NobodyIsForgotten, Among, Once
<1>2. ASSUME PolicyCacheInv, NobodyIsForgotten, [Next]_vars  PROVE NobodyIsForgotten'
  <2>1. /\ queue \in Seq(Worker) /\ Once(queue)
        /\ pc \in [Worker -> {"idle", "queued", "load", "done"}]
        /\ \A w \in Worker : pc[w] # "idle" <=> Among(queue, w)
    BY <1>2 DEF PolicyCacheInv, TypeOK, NobodyIsForgotten
  <2>2. \A w \in Worker : pc'[w] = "done" => reply'.kind # "none"
    BY <1>2, AnswersStay DEF NobodyIsForgotten
  <2>3. ASSUME NEW w \in Worker, Call(w)
        PROVE  Once(queue') /\ \A v \in Worker : pc'[v] # "idle" <=> Among(queue', v)
    <3>1. ~Among(queue, w) /\ queue' = Append(queue, w) /\ pc' = [pc EXCEPT ![w] = "queued"]
      BY <2>1, <2>3 DEF Call
    <3> QED  BY <2>1, <3>1, Arrivals
  <2>4. ASSUME NEW w \in Worker, queue # <<>>, Head(queue) = w, queue' = Tail(queue),
               pc' = [pc EXCEPT ![w] = "idle"]
        PROVE  Once(queue') /\ \A v \in Worker : pc'[v] # "idle" <=> Among(queue', v)
    BY <2>1, <2>4, Departures
  <2>5. Once(queue') /\ \A v \in Worker : pc'[v] # "idle" <=> Among(queue', v)
    BY <1>2, <2>1, <2>3, <2>4, QueueSteps
  <2> QED  BY <2>2, <2>5 DEF NobodyIsForgotten, Once, Among
<1> QED  BY <1>1, <1>2, PolicyCacheInvHolds, PTL DEF Spec

\* Nobody returns before a caller that is ahead, and nobody who waits is overtaken, however
\* long the load takes for which the mutex is held.
THEOREM CallersAreServedInOrder == Spec => FirstComeFirstServed
<1>1. ASSUME PolicyCacheInv, NobodyIsForgotten, [Next]_vars, NEW v \in Worker, NEW w \in Worker
      PROVE  /\ Ahead(queue, v, w) => ~Returns(w)
             /\ pc[w] # "idle" /\ ~Ahead(queue, v, w) => ~Ahead(queue', v, w)
  <2>1. /\ queue \in Seq(Worker) /\ Once(queue)
        /\ pc \in [Worker -> {"idle", "queued", "load", "done"}]
        /\ \A u \in Worker : pc[u] # "idle" <=> Among(queue, u)
    BY <1>1 DEF PolicyCacheInv, TypeOK, NobodyIsForgotten
  <2>2. ASSUME NEW u \in Worker, Call(u)
        PROVE  ~Returns(w) /\ (pc[w] # "idle" /\ ~Ahead(queue, v, w) => ~Ahead(queue', v, w))
    <3>1. /\ pc[u] = "idle" /\ ~Among(queue, u) /\ queue' = Append(queue, u)
          /\ pc' = [pc EXCEPT ![u] = "queued"]
      BY <2>1, <2>2 DEF Call
    <3>2. ~Returns(w)
      BY <2>1, <3>1 DEF Returns
    <3> QED  BY <2>1, <3>1, <3>2, Arrivals
  <2>3. ASSUME NEW u \in Worker, queue # <<>>, Head(queue) = u, queue' = Tail(queue),
               pc' = [pc EXCEPT ![u] = "idle"]
        PROVE  /\ Ahead(queue, v, w) => ~Returns(w)
               /\ ~Ahead(queue, v, w) => ~Ahead(queue', v, w)
    <3>1. Returns(w) => w = u
      BY <2>1, <2>3 DEF Returns
    <3>2. /\ \A t, x : Ahead(Tail(queue), t, x) => Ahead(queue, t, x)
          /\ \A t : ~Ahead(queue, t, Head(queue))
      BY <2>1, <2>3, Departures
    <3>3. ~Ahead(queue, v, u) /\ (Ahead(queue', v, w) => Ahead(queue, v, w))
      BY <2>3, <3>2
    <3> QED  BY <3>1, <3>3
  <2>4. ASSUME queue' = queue, \A u \in Worker : pc'[u] = "idle" <=> pc[u] = "idle"
        PROVE  ~Returns(w) /\ (~Ahead(queue, v, w) => ~Ahead(queue', v, w))
    BY <2>4 DEF Returns
  <2> QED  BY <1>1, <2>2, <2>3, <2>4, QueueSteps
<1>2. PolicyCacheInv /\ NobodyIsForgotten /\ [Next]_vars =>
        [\A v, w \in Worker :
            /\ Ahead(queue, v, w) => ~Returns(w)
            /\ pc[w] # "idle" /\ ~Ahead(queue, v, w) => ~Ahead(queue', v, w)]_vars
  BY <1>1
<1> QED  BY <1>2, PolicyCacheInvHolds, CallersAreKept, PTL DEF Spec, FirstComeFirstServed
===============================================================================
