------------------------------ MODULE PolicyCache ------------------------------
(***************************************************************************)
(* The in-memory policy of one process (src/policy_cache.rs), shared by    *)
(* its invocations behind a fair mutex that is held across the load.       *)
(*                                                                         *)
(* Time is relative: age counts up from loaded_at, retryIn counts down to  *)
(* retry_at, and both stop where no comparison tells them apart any more,  *)
(* so behaviours are infinite and no clock runs out.                       *)
(***************************************************************************)
EXTENDS Integers, Sequences

CONSTANTS
    Worker,        \* invocations that share the cache
    Version,       \* policies the repository may host
    Invalid,       \* those that Policy::from_hosted rejects
    NoPolicy,      \* Option::None
    PRIMARY_TTL,   \* policy_cache.rs: 5 minutes
    STALE_TTL,     \* 60 minutes
    MAX_JITTER,    \* 30 seconds
    MAX_BACKOFF,   \* 1 hour
    SHIFT_BITS,    \* the width of the multiplier: 32
    RetryAfters,   \* what GitHub may ask to wait, in seconds
    LOAD_TIMEOUT   \* the longest load, by the timeouts of its requests

ASSUME CacheConstants ==
    /\ Invalid \subseteq Version
    /\ NoPolicy \notin Version
    /\ PRIMARY_TTL \in Nat /\ STALE_TTL \in Nat /\ MAX_JITTER \in Nat
    /\ MAX_BACKOFF \in Nat \ {0} /\ SHIFT_BITS \in Nat \ {0} /\ LOAD_TIMEOUT \in Nat
    /\ RetryAfters \subseteq Nat
    /\ PRIMARY_TTL <= STALE_TTL

\* Arithmetic the provers are not taught: a power of two is a positive number.
ASSUME Powers == 2^SHIFT_BITS >= 2 /\ \A n \in 0..SHIFT_BITS : 2^n \in Nat \ {0}

VARIABLES
    jitter,       \* drawn once per process
    policy, age,  \* CachedPolicy: the snapshot and loaded_at.elapsed()
    retryIn,      \* time left to retry_at, or NoRetry
    limits,       \* consecutive_rate_limits
    queue,        \* the mutex: its holder, then the waiting in order of arrival
    pc,           \* pc[w]: idle, queued, load (GitHub is asked) or done (it answered)
    loading,      \* how long the load under way has taken
    reply,        \* what GitHub answered to it
    result,       \* result[w]: what get_or_load last gave w
    hosted,       \* the policy in the repository now
    github,       \* how GitHub behaves now
    gone,         \* history: gone[v], how long v has not been hosted
    embargo,      \* history: how much longer GitHub asked to be left alone
    last          \* history: how the last completed load ended

cache == <<policy, age, retryIn, limits>>
world == <<hosted, github, gone>>
vars == <<jitter, cache, queue, pc, loading, reply, result, world, embargo, last>>

-------------------------------------------------------------------------------
\* What the code computes

NoRetry == -1
U32_MAX == 2^SHIFT_BITS - 1

Least(a, b)    == IF a <= b THEN a ELSE b
Greatest(a, b) == IF a >= b THEN a ELSE b

\* Mutant: the primary ttl is mistaken for the stale one.
MutFreshFor == STALE_TTL

\* primary_ttl.saturating_sub(jitter)
FreshFor == Greatest(PRIMARY_TTL - jitter, 0)

\* 1u32.checked_shl(n - 1), or u32::MAX once the shift is as wide as the number.
Multiplier(n) == IF n - 1 < SHIFT_BITS THEN 2^(n - 1) ELSE U32_MAX

\* set_backoff: the wait after the n-th rate limit in a row.
Backoff(retryAfter, n) ==
    Least(Greatest(1, Least(retryAfter, MAX_BACKOFF)) * Multiplier(n), MAX_BACKOFF) + jitter

\* Mutant: the backoff ends a second early.
MutInBackoff == retryIn > 1

InBackoff == retryIn > 0
Usable    == policy # NoPolicy /\ age < STALE_TTL
Fresh     == policy # NoPolicy /\ age < FreshFor

\* What a call comes back with; only an allowed one authorizes an exchange.
Allowed(v) == [kind |-> "allowed", version |-> v]
Denied(k)  == [kind |-> k, version |-> NoPolicy]
Results    == [kind : {"none", "allowed", "limited", "failed"}, version : Version \cup {NoPolicy}]

Loaded(v)    == [kind |-> "loaded", version |-> v, after |-> 0]
Limited(r)   == [kind |-> "limited", version |-> NoPolicy, after |-> r]
Failed       == [kind |-> "failed", version |-> NoPolicy, after |-> 0]
NoReply      == [kind |-> "none", version |-> NoPolicy, after |-> 0]
Replies      == [kind : {"none", "loaded", "limited", "failed"}, version : Version \cup {NoPolicy},
                 after : RetryAfters \cup {0}]

\* Where gone stops: beyond every bound it is compared with.
LongGone == PRIMARY_TTL + LOAD_TIMEOUT + 1
MaxWait  == MAX_BACKOFF + MAX_JITTER

-------------------------------------------------------------------------------
Init ==
    /\ jitter \in 0..MAX_JITTER
    /\ policy = NoPolicy
    /\ age = 0
    /\ retryIn = NoRetry
    /\ limits = 0
    /\ queue = <<>>
    /\ pc = [w \in Worker |-> "idle"]
    /\ loading = 0
    /\ reply = NoReply
    /\ result = [w \in Worker |-> Denied("none")]
    /\ hosted \in Version
    /\ github = "up"
    /\ gone = [v \in Version |-> IF v = hosted THEN 0 ELSE LongGone]
    /\ embargo = 0
    /\ last = "none"

Holds(w) == queue # <<>> /\ Head(queue) = w

\* self.state.lock() queues the caller; tokio serves callers in order.
Call(w) ==
    /\ pc[w] = "idle"
    /\ pc' = [pc EXCEPT ![w] = "queued"]
    /\ queue' = Append(queue, w)
    /\ result' = [result EXCEPT ![w] = Denied("none")]
    /\ UNCHANGED <<jitter, cache, loading, reply, world, embargo, last>>

\* The call of w returns r and unlocks the mutex.
Return(w, r) ==
    /\ pc' = [pc EXCEPT ![w] = "idle"]
    /\ queue' = Tail(queue)
    /\ result' = [result EXCEPT ![w] = r]

\* Mutant: every denied call starts the backoff over.
MutDenyInBackoff(w) ==
    /\ pc[w] = "queued" /\ Holds(w)
    /\ InBackoff
    /\ retryIn' = Backoff(1, limits)
    /\ policy' = IF Usable THEN policy ELSE NoPolicy
    /\ age' = IF Usable THEN age ELSE 0
    /\ Return(w, Denied("limited"))
    /\ UNCHANGED <<jitter, limits, loading, reply, world, embargo, last>>

\* Still backing off: the snapshot is kept while it is usable, and nobody is let in.
\* (With a snapshot the code returns it marked with retry_after; verify_oidc_claims
\* turns the mark into the same denial.)
DenyInBackoff(w) ==
    /\ pc[w] = "queued" /\ Holds(w)
    /\ InBackoff
    /\ policy' = IF Usable THEN policy ELSE NoPolicy
    /\ age' = IF Usable THEN age ELSE 0
    /\ Return(w, Denied("limited"))
    /\ UNCHANGED <<jitter, retryIn, limits, loading, reply, world, embargo, last>>

\* A snapshot younger than the primary ttl less the jitter.
Serve(w) ==
    /\ pc[w] = "queued" /\ Holds(w)
    /\ ~InBackoff
    /\ Fresh
    /\ retryIn' = NoRetry
    /\ Return(w, Allowed(policy))
    /\ UNCHANGED <<jitter, policy, age, limits, loading, reply, world, embargo, last>>

\* Nothing fresh: the loader runs, with the mutex held.
StartLoad(w) ==
    /\ pc[w] = "queued" /\ Holds(w)
    /\ ~InBackoff
    /\ ~Fresh
    /\ retryIn' = NoRetry
    /\ pc' = [pc EXCEPT ![w] = "load"]
    /\ loading' = 0
    /\ UNCHANGED <<jitter, policy, age, limits, queue, reply, result, world, embargo, last>>

\* Mutant: the HTTP client has no timeout, so a silent GitHub is waited for.
MutGithubAnswers(w) ==
    /\ pc[w] = "load"
    /\ github = "up"
    /\ pc' = [pc EXCEPT ![w] = "done"]
    /\ reply' = IF hosted \in Invalid THEN Failed ELSE Loaded(hosted)
    /\ UNCHANGED <<jitter, cache, queue, loading, result, world, embargo, last>>

\* GitHub serves the file as it is at this moment, limits the caller, or fails.
GithubAnswers(w) ==
    /\ pc[w] = "load"
    /\ pc' = [pc EXCEPT ![w] = "done"]
    /\ \/ /\ github = "up"
          /\ reply' = IF hosted \in Invalid THEN Failed ELSE Loaded(hosted)
          /\ UNCHANGED embargo
       \/ /\ github = "limiting"
          /\ \E r \in RetryAfters :
               /\ reply' = Limited(r)
               /\ embargo' = Least(r, MAX_BACKOFF)
       \/ /\ github = "down"
          /\ reply' = Failed
          /\ UNCHANGED embargo
    /\ UNCHANGED <<jitter, cache, queue, loading, result, world, last>>

\* Ok(policy): the snapshot is replaced and its age starts now, after the load.
LoadOk(w) ==
    /\ pc[w] = "done" /\ reply.kind = "loaded"
    /\ policy' = reply.version
    /\ age' = 0
    /\ retryIn' = NoRetry
    /\ limits' = 0
    /\ last' = "loaded"
    /\ Return(w, Allowed(reply.version))
    /\ reply' = NoReply
    /\ UNCHANGED <<jitter, loading, world, embargo>>

\* Mutant: a rate limit with a usable snapshot lets the caller in.
MutLoadLimited(w) ==
    /\ pc[w] = "done" /\ reply.kind = "limited"
    /\ limits' = Least(limits + 1, U32_MAX)
    /\ retryIn' = Backoff(reply.after, limits')
    /\ policy' = IF Usable THEN policy ELSE NoPolicy
    /\ age' = IF Usable THEN age ELSE 0
    /\ last' = "limited"
    /\ Return(w, IF Usable THEN Allowed(policy) ELSE Denied("limited"))
    /\ reply' = NoReply
    /\ UNCHANGED <<jitter, loading, world, embargo>>

\* Err(GithubRateLimited): back off, keep a usable snapshot, let nobody in.
LoadLimited(w) ==
    /\ pc[w] = "done" /\ reply.kind = "limited"
    /\ limits' = Least(limits + 1, U32_MAX)
    /\ retryIn' = Backoff(reply.after, limits')
    /\ policy' = IF Usable THEN policy ELSE NoPolicy
    /\ age' = IF Usable THEN age ELSE 0
    /\ last' = "limited"
    /\ Return(w, Denied("limited"))
    /\ reply' = NoReply
    /\ UNCHANGED <<jitter, loading, world, embargo>>

\* Any other Err: the whole state is reset.
LoadFailed(w) ==
    /\ pc[w] = "done" /\ reply.kind = "failed"
    /\ policy' = NoPolicy
    /\ age' = 0
    /\ retryIn' = NoRetry
    /\ limits' = 0
    /\ last' = "failed"
    /\ Return(w, Denied("failed"))
    /\ reply' = NoReply
    /\ UNCHANGED <<jitter, loading, world, embargo>>

\* Somebody merges another policy.
Publish(v) ==
    /\ v # hosted
    /\ hosted' = v
    /\ gone' = [gone EXCEPT ![v] = 0]
    /\ UNCHANGED <<jitter, cache, queue, pc, loading, reply, result, github, embargo, last>>

\* GitHub changes its mood.
GithubTurns(mood) ==
    /\ github # mood
    /\ github' = mood
    /\ UNCHANGED <<jitter, cache, queue, pc, loading, reply, result, hosted, gone, embargo, last>>

LoadRuns == \E w \in Worker : pc[w] \in {"load", "done"}

\* A second passes; no load outlives LOAD_TIMEOUT.
Tick ==
    /\ LoadRuns => loading < LOAD_TIMEOUT
    /\ loading' = IF LoadRuns THEN loading + 1 ELSE 0
    /\ age' = IF policy = NoPolicy THEN 0 ELSE Least(age + 1, STALE_TTL)
    /\ retryIn' = IF retryIn > 0 THEN retryIn - 1 ELSE retryIn
    /\ embargo' = Greatest(embargo - 1, 0)
    /\ gone' = [v \in Version |-> IF v = hosted THEN 0 ELSE Least(gone[v] + 1, LongGone)]
    /\ UNCHANGED <<jitter, policy, limits, queue, pc, reply, result, hosted, github, last>>

Step(w) ==
    \/ DenyInBackoff(w)
    \/ Serve(w)
    \/ StartLoad(w)
    \/ GithubAnswers(w)
    \/ LoadOk(w)
    \/ LoadLimited(w)
    \/ LoadFailed(w)

Surroundings ==
    \/ \E v \in Version : Publish(v)
    \/ \E mood \in {"up", "limiting", "down"} : GithubTurns(mood)
    \/ Tick

Next == (\E w \in Worker : Call(w) \/ Step(w)) \/ Surroundings

Spec == Init /\ [][Next]_vars

\* The runtime polls a woken task, every request of a load ends by its timeout, and
\* time passes.  Nobody has to call.
Fairness ==
    /\ \A w \in Worker : WF_vars(Step(w))
    /\ WF_vars(Tick)

FairSpec == Spec /\ Fairness

-------------------------------------------------------------------------------
\* Properties

\* The type of every variable, the holder of the mutex being the only one that loads.
TypeOK ==
    /\ jitter \in 0..MAX_JITTER
    /\ policy \in Version \cup {NoPolicy}
    /\ age \in 0..STALE_TTL
    /\ retryIn \in {NoRetry} \cup 0..MaxWait
    /\ limits \in 0..U32_MAX
    /\ queue \in Seq(Worker)
    /\ pc \in [Worker -> {"idle", "queued", "load", "done"}]
    /\ loading \in 0..LOAD_TIMEOUT
    /\ reply \in Replies
    /\ result \in [Worker -> Results]
    /\ hosted \in Version
    /\ github \in {"up", "limiting", "down"}
    /\ gone \in [Version -> 0..LongGone]
    /\ embargo \in 0..MAX_BACKOFF
    /\ last \in {"none", "loaded", "limited", "failed"}

\* The call of w comes back in this step, and with a policy to authorize by.
Returns(w) == pc[w] # "idle" /\ pc'[w] = "idle"
LetsIn(w)  == Returns(w) /\ result'[w].kind = "allowed"

\* A policy that authorizes was in the repository within the primary ttl less the
\* jitter, plus one load: the age is counted from the end of the load, and the file
\* was read before it.  README: "cached for up to five minutes".
AuthorizedIsCurrent ==
    [][\A w \in Worker :
          LetsIn(w) => gone[result'[w].version]
                         <= Greatest(PRIMARY_TTL - jitter, 0) + LOAD_TIMEOUT]_vars

\* Nobody is let in unless the last refresh worked: a failed, invalid or limited one
\* fails closed for every caller, the snapshot notwithstanding.  README: "invalid,
\* unavailable, or rate-limited refreshes fail closed".
FailsClosed ==
    [][\A w \in Worker : LetsIn(w) => last' = "loaded" /\ result'[w].version \notin Invalid]_vars

\* While GitHub has asked to be left alone (for at most an hour) the process does not
\* ask it again, however many callers wait.
HonoursRetryAfter ==
    \A w \in Worker : pc[w] = "load" => embargo = 0

\* Who is in a queue q, who comes before whom, and that each comes once.
Among(q, w)    == \E i \in 1..Len(q) : q[i] = w
Ahead(q, v, w) == \E i, j \in 1..Len(q) : i < j /\ q[i] = v /\ q[j] = w
Once(q)        == \A i, j \in 1..Len(q) : q[i] = q[j] => i = j

\* Callers return in the order in which they came: nobody returns before one who is
\* ahead, and nobody who waits is overtaken.
FirstComeFirstServed ==
    [][\A v, w \in Worker :
          /\ Ahead(queue, v, w) => ~Returns(w)
          /\ pc[w] # "idle" /\ ~Ahead(queue, v, w) => ~Ahead(queue', v, w)]_vars

\* Every call comes back, though the mutex is held while GitHub takes its time.
EveryCallReturns ==
    \A w \in Worker : pc[w] = "queued" ~> pc[w] = "idle"

Healthy == github = "up" /\ hosted \notin Invalid

\* Once GitHub answers and the policy is valid for good, denials come to an end: no
\* backoff grows out of reach and no bad state survives.
Recovers ==
    <>[]Healthy => <>[][\A w \in Worker : Returns(w) => LetsIn(w)]_vars

-------------------------------------------------------------------------------
\* The inductive invariant of the proofs

\* A load runs for the head of the queue, so there is never more than one.
OneLoad ==
    \A w \in Worker : pc[w] \in {"load", "done"} => queue # <<>> /\ Head(queue) = w

\* What is fresh, or on its way, is a valid policy that was hosted when it was read.
PolicyIsDated ==
    /\ gone[hosted] = 0
    /\ reply.kind = "loaded" =>
         /\ \E w \in Worker : pc[w] = "done"
         /\ reply.version \in Version \ Invalid
         /\ gone[reply.version] <= loading
    /\ Fresh => policy \notin Invalid /\ gone[policy] <= age + LOAD_TIMEOUT

\* A fresh policy comes of the last load, and a load runs only without one.
FreshIsLast == Fresh => last = "loaded" /\ ~LoadRuns

\* The wait that GitHub asked for is over when it is asked, on its way to set_backoff,
\* or within the backoff.
EmbargoIsKept ==
    /\ HonoursRetryAfter
    /\ \A w \in Worker : pc[w] = "done" =>
         embargo <= IF reply.kind = "limited" THEN Least(reply.after, MAX_BACKOFF) ELSE 0
    /\ ~LoadRuns => embargo <= Greatest(retryIn, 0)

\* The mutex forgets nobody: its queue holds the calls that have not returned, each of them
\* once, and the call at its head never waits for an answer that was already taken.
NobodyIsForgotten ==
    /\ \A w \in Worker : pc[w] # "idle" <=> Among(queue, w)
    /\ Once(queue)
    /\ \A w \in Worker : pc[w] = "done" => reply.kind # "none"

\* The mutex, the snapshot and the backoff fit together.
PolicyCacheInv == TypeOK /\ OneLoad /\ PolicyIsDated /\ FreshIsLast /\ EmbargoIsKept
===============================================================================
