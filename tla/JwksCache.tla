------------------------------- MODULE JwksCache -------------------------------
(***************************************************************************)
(* The cached signing keys of GitHub Actions (src/jwks.rs): a fair         *)
(* read-write lock, a look under the read lock, a second look under the    *)
(* write lock, and one refresh at a time that holds the write lock while   *)
(* the key server takes its time.                                          *)
(*                                                                         *)
(* tokio's RwLock is one first-in-first-out queue.  A reader looks and     *)
(* leaves without an await, so each look is a step of the head of the      *)
(* queue.  Time is relative and saturates, as in PolicyCache; an attempt   *)
(* that never was is one that has cooled down.                             *)
(***************************************************************************)
EXTENDS Integers, Sequences

CONSTANTS
    Worker,                \* invocations that share the cache
    Key,                   \* key ids, published by GitHub at some time or never
    JWKS_TTL,              \* jwks.rs: 300
    JWKS_REFRESH_COOLDOWN, \* jwks.rs: 30
    HTTP_TIMEOUT           \* config.rs: 6, the longest refresh

ASSUME KeyCacheConstants ==
    /\ JWKS_TTL \in Nat
    /\ JWKS_REFRESH_COOLDOWN \in Nat
    /\ HTTP_TIMEOUT \in Nat
    /\ HTTP_TIMEOUT < JWKS_REFRESH_COOLDOWN
    /\ JWKS_REFRESH_COOLDOWN <= JWKS_TTL

VARIABLES
    filled, keys, age,  \* CachedJwks: is there one, its key ids, fetched_at.elapsed()
    attempt,            \* last_refresh_attempt.elapsed()
    queue,              \* the lock: its holder, then the waiting in order of arrival
    pc,                 \* pc[w]: idle, read, write, fetch (asked) or fetched (answered)
    kid,                \* kid[w]: the key id w's token names
    fetching,           \* how long the refresh under way has taken
    fetched,            \* the key ids the server answered with
    result,             \* result[w]: what decoding_key_for last gave w
    published,          \* the key ids the server publishes now
    server,             \* whether it answers
    absent, present,    \* history: how long each key id has not, or has, been published
    quiet,              \* history: how long the server has not been asked
    last                \* history: how the last refresh ended

cache == <<filled, keys, age, attempt>>
world == <<published, server, absent, present>>
vars == <<cache, queue, pc, kid, fetching, fetched, result, world, quiet, last>>

Least(a, b) == IF a <= b THEN a ELSE b

\* Where absent and present stop: beyond every bound they are compared with.
Long == JWKS_TTL + JWKS_REFRESH_COOLDOWN + HTTP_TIMEOUT + 1

\* Mutant: a set never gets old.
MutFresh == filled

Fresh   == filled /\ age < JWKS_TTL
Cooling == attempt < JWKS_REFRESH_COOLDOWN

Results == {"none", "key", "invalid", "unavailable"}

-------------------------------------------------------------------------------
Init ==
    /\ filled = FALSE
    /\ keys = {}
    /\ age = 0
    /\ attempt = JWKS_REFRESH_COOLDOWN
    /\ queue = <<>>
    /\ pc = [w \in Worker |-> "idle"]
    /\ kid \in [Worker -> Key]
    /\ fetching = 0
    /\ fetched = {}
    /\ result = [w \in Worker |-> "none"]
    /\ published \in SUBSET Key
    /\ server = "up"
    /\ absent = [k \in Key |-> IF k \in published THEN 0 ELSE Long]
    /\ present = [k \in Key |-> IF k \in published THEN Long ELSE 0]
    /\ quiet = JWKS_REFRESH_COOLDOWN
    /\ last = "none"

Holds(w, stage) == queue # <<>> /\ Head(queue) = w /\ pc[w] = stage

\* The call of w returns r, and its guard is dropped.
Return(w, r) ==
    /\ pc' = [pc EXCEPT ![w] = "idle"]
    /\ queue' = Tail(queue)
    /\ result' = [result EXCEPT ![w] = r]

\* decoding_key_for(kid) asks for the read lock.
Call(w, k) ==
    /\ pc[w] = "idle"
    /\ pc' = [pc EXCEPT ![w] = "read"]
    /\ kid' = [kid EXCEPT ![w] = k]
    /\ queue' = Append(queue, w)
    /\ result' = [result EXCEPT ![w] = "none"]
    /\ UNCHANGED <<cache, fetching, fetched, world, quiet, last>>

\* The cached set is fresh and has the key.
Hit(w) ==
    /\ Holds(w, "read") \/ Holds(w, "write")
    /\ Fresh /\ kid[w] \in keys
    /\ Return(w, "key")
    /\ UNCHANGED <<cache, kid, fetching, fetched, world, quiet, last>>

\* Mutant: a fresh set is believed for its whole ttl.
MutUnknown(w) ==
    /\ Holds(w, "read") \/ Holds(w, "write")
    /\ Fresh /\ kid[w] \notin keys
    /\ Return(w, "invalid")
    /\ UNCHANGED <<cache, kid, fetching, fetched, world, quiet, last>>

\* The set is fresh, the key is unknown, and a refresh was tried a moment ago: 401.
Unknown(w) ==
    /\ Holds(w, "read") \/ Holds(w, "write")
    /\ Fresh /\ kid[w] \notin keys /\ Cooling
    /\ Return(w, "invalid")
    /\ UNCHANGED <<cache, kid, fetching, fetched, world, quiet, last>>

\* The look under the read lock settled nothing: queue for the write lock.
Upgrade(w) ==
    /\ Holds(w, "read")
    /\ ~Fresh \/ (kid[w] \notin keys /\ ~Cooling)
    /\ pc' = [pc EXCEPT ![w] = "write"]
    /\ queue' = Append(Tail(queue), w)
    /\ UNCHANGED <<cache, kid, fetching, fetched, result, world, quiet, last>>

\* Mutant: every denied call starts the cooldown over.
MutCoolDown(w) ==
    /\ Holds(w, "write")
    /\ ~Fresh /\ Cooling
    /\ attempt' = 0
    /\ Return(w, "unavailable")
    /\ UNCHANGED <<filled, keys, age, kid, fetching, fetched, world, quiet, last>>

\* Nothing fresh, and a refresh was tried a moment ago: 503.
CoolDown(w) ==
    /\ Holds(w, "write")
    /\ ~Fresh /\ Cooling
    /\ Return(w, "unavailable")
    /\ UNCHANGED <<cache, kid, fetching, fetched, world, quiet, last>>

\* Mutant: an attempt counts only once it has succeeded.
MutStartRefresh(w) ==
    /\ Holds(w, "write")
    /\ ~(Fresh /\ kid[w] \in keys)
    /\ ~Cooling
    /\ quiet' = 0
    /\ pc' = [pc EXCEPT ![w] = "fetch"]
    /\ fetching' = 0
    /\ UNCHANGED <<filled, keys, age, attempt, queue, kid, fetched, result, world, last>>

\* The attempt is noted, and the GET is sent with the write lock held.
StartRefresh(w) ==
    /\ Holds(w, "write")
    /\ ~(Fresh /\ kid[w] \in keys)
    /\ ~Cooling
    /\ attempt' = 0
    /\ quiet' = 0
    /\ pc' = [pc EXCEPT ![w] = "fetch"]
    /\ fetching' = 0
    /\ UNCHANGED <<filled, keys, age, queue, kid, fetched, result, world, last>>

\* The server answers with what it publishes at this moment.
ServerAnswers(w) ==
    /\ pc[w] = "fetch"
    /\ server = "up"
    /\ fetched' = published
    /\ pc' = [pc EXCEPT ![w] = "fetched"]
    /\ UNCHANGED <<cache, queue, kid, fetching, result, world, quiet, last>>

\* Mutant: the HTTP client has no timeout, so a silent server is waited for.
MutRefreshFails(w) == FALSE /\ UNCHANGED vars

\* Mutant: after a failed refresh the caller drops the lock and queues to try again.
MutRetryRefresh(w) ==
    /\ pc[w] = "fetch"
    /\ server = "down"
    /\ last' = "failed"
    /\ pc' = [pc EXCEPT ![w] = "write"]
    /\ queue' = Append(Tail(queue), w)
    /\ UNCHANGED <<cache, kid, fetching, fetched, result, world, quiet>>

\* The refresh fails (`?`): the old set stays, and so does the attempt.
RefreshFails(w) ==
    /\ pc[w] = "fetch"
    /\ server = "down"
    /\ last' = "failed"
    /\ Return(w, "unavailable")
    /\ UNCHANGED <<cache, kid, fetching, fetched, world, quiet>>

\* The new set replaces the old one, whether or not it has the key.
Refreshed(w) ==
    /\ pc[w] = "fetched"
    /\ filled' = TRUE
    /\ keys' = fetched
    /\ age' = 0
    /\ last' = "ok"
    /\ fetched' = {}
    /\ Return(w, IF kid[w] \in fetched THEN "key" ELSE "invalid")
    /\ UNCHANGED <<attempt, kid, fetching, world, quiet>>

\* GitHub publishes a key, or withdraws one.
Rotate(k) ==
    /\ published' = IF k \in published THEN published \ {k} ELSE published \cup {k}
    /\ absent' = [absent EXCEPT ![k] = 0]
    /\ present' = [present EXCEPT ![k] = 0]
    /\ UNCHANGED <<cache, queue, pc, kid, fetching, fetched, result, server, quiet, last>>

ServerTurns ==
    /\ server' = IF server = "up" THEN "down" ELSE "up"
    /\ UNCHANGED <<cache, queue, pc, kid, fetching, fetched, result,
                   published, absent, present, quiet, last>>

RefreshRuns == \E w \in Worker : pc[w] \in {"fetch", "fetched"}

\* A second passes; no refresh outlives HTTP_TIMEOUT.
Tick ==
    /\ RefreshRuns => fetching < HTTP_TIMEOUT
    /\ fetching' = IF RefreshRuns THEN fetching + 1 ELSE 0
    /\ age' = IF filled THEN Least(age + 1, JWKS_TTL) ELSE 0
    /\ attempt' = Least(attempt + 1, JWKS_REFRESH_COOLDOWN)
    /\ quiet' = Least(quiet + 1, JWKS_REFRESH_COOLDOWN)
    /\ absent' = [k \in Key |-> IF k \in published THEN 0 ELSE Least(absent[k] + 1, Long)]
    /\ present' = [k \in Key |-> IF k \in published THEN Least(present[k] + 1, Long) ELSE 0]
    /\ UNCHANGED <<filled, keys, queue, pc, kid, fetched, result, published, server, last>>

Step(w) ==
    \/ Hit(w)
    \/ Unknown(w)
    \/ Upgrade(w)
    \/ CoolDown(w)
    \/ StartRefresh(w)
    \/ ServerAnswers(w)
    \/ RefreshFails(w)
    \/ Refreshed(w)

Surroundings ==
    \/ \E k \in Key : Rotate(k)
    \/ ServerTurns
    \/ Tick

Next == (\E w \in Worker : Step(w) \/ \E k \in Key : Call(w, k)) \/ Surroundings

Spec == Init /\ [][Next]_vars

\* The runtime polls a woken task, a refresh ends by its timeout, and time passes.
\* Nobody has to call.
Fairness ==
    /\ \A w \in Worker : WF_vars(Step(w))
    /\ WF_vars(Tick)

FairSpec == Spec /\ Fairness

-------------------------------------------------------------------------------
\* Properties

\* The type of every variable of the key cache.
TypeOK ==
    /\ filled \in BOOLEAN
    /\ keys \in SUBSET Key
    /\ age \in 0..JWKS_TTL
    /\ attempt \in 0..JWKS_REFRESH_COOLDOWN
    /\ queue \in Seq(Worker)
    /\ pc \in [Worker -> {"idle", "read", "write", "fetch", "fetched"}]
    /\ kid \in [Worker -> Key]
    /\ fetching \in 0..HTTP_TIMEOUT
    /\ fetched \in SUBSET Key
    /\ result \in [Worker -> Results]
    /\ published \in SUBSET Key
    /\ server \in {"up", "down"}
    /\ absent \in [Key -> 0..Long]
    /\ present \in [Key -> 0..Long]
    /\ quiet \in 0..JWKS_REFRESH_COOLDOWN
    /\ last \in {"none", "ok", "failed"}

\* The call of w comes back in this step, with r.
Returns(w)    == pc[w] # "idle" /\ pc'[w] = "idle"
Answers(w, r) == Returns(w) /\ result'[w] = r

\* The key server is asked at most once per cooldown, however many callers come with
\* unknown keys and whether or not it answers.  OVERVIEW: "refreshes at most once
\* every 30 seconds".
RefreshesAreSpaced ==
    [][\A w \in Worker :
          pc[w] # "fetch" /\ pc'[w] = "fetch" => quiet >= JWKS_REFRESH_COOLDOWN]_vars

\* A key that GitHub withdrew verifies nothing any more after the ttl and one fetch.
WithdrawnKeyDies ==
    [][\A w \in Worker : Answers(w, "key") => absent[kid[w]] < JWKS_TTL + HTTP_TIMEOUT]_vars

\* A key that GitHub publishes is called invalid only while it is young: within the
\* cooldown, or, when the last refresh failed, within the ttl and one fetch.
RotationIsNoticed ==
    [][\A w \in Worker :
          Answers(w, "invalid") =>
              present[kid[w]] < IF last' = "ok" THEN JWKS_REFRESH_COOLDOWN
                                                ELSE JWKS_TTL + HTTP_TIMEOUT]_vars

\* A caller is told 503 only if the last refresh really failed: a successful one
\* keeps the set fresh for longer than it cools down.
UnavailableMeansOutage ==
    [][\A w \in Worker : Answers(w, "unavailable") => last' = "failed"]_vars

\* Who is in a queue q, who comes before whom, and that each comes once.
Among(q, w)    == \E i \in 1..Len(q) : q[i] = w
Ahead(q, v, w) == \E i, j \in 1..Len(q) : i < j /\ q[i] = v /\ q[j] = w
Once(q)        == \A i, j \in 1..Len(q) : q[i] = q[j] => i = j

\* Nobody returns before one who is ahead, and nobody who waits is overtaken, but for
\* the one time it gives up the read lock and queues for the write lock.
TurnsAreKept ==
    [][\A v, w \in Worker :
          /\ Ahead(queue, v, w) => ~Returns(w)
          /\ Ahead(queue', v, w) => Ahead(queue, v, w) \/ pc[w] = "idle"
                                      \/ (pc[w] = "read" /\ pc'[w] = "write")]_vars

\* Every call comes back, though readers queue behind a writer that waits for GitHub.
EveryCallReturns ==
    \A w \in Worker : pc[w] \in {"read", "write"} ~> pc[w] = "idle"

\* A key that is published for good, by a server that answers for good, is accepted
\* in the end by every caller: no failure leaves the cache refusing it for ever.
PublishedKeyWorks ==
    \A k \in Key :
        <>[](server = "up" /\ k \in published)
            => <>[][\A w \in Worker : Returns(w) /\ kid[w] = k => Answers(w, "key")]_vars

\* What OVERVIEW says of outages, "upstream outages return 502 or 503", and what the
\* test of a failed refresh expects of the next caller ("expected failed refresh to
\* be cooled down"): a published key is not called invalid because GitHub could not
\* be asked about it.
OutageIsUnavailable ==
    [][\A w \in Worker :
          Answers(w, "invalid") /\ kid[w] \in published => last' # "failed"]_vars

-------------------------------------------------------------------------------
\* The inductive invariant of the proofs

\* A refresh runs at the head of the queue, so there is never more than one, and nobody
\* looks meanwhile.
OneRefresh ==
    \A w \in Worker : pc[w] \in {"fetch", "fetched"} => queue # <<>> /\ Head(queue) = w

\* The attempt that is remembered is the last request sent; a refresh that worked left
\* a set that is no older than its attempt.
AttemptIsKnown ==
    /\ quiet = attempt
    /\ RefreshRuns => attempt = fetching
    /\ ~RefreshRuns /\ Cooling => last # "none"
    /\ ~RefreshRuns /\ Cooling /\ last = "ok" => filled /\ age <= attempt

\* The lock forgets nobody: its queue holds the calls that have not returned, each once.
NobodyIsForgotten ==
    /\ \A w \in Worker : pc[w] # "idle" <=> Among(queue, w)
    /\ Once(queue)

\* A set of keys, taken time seconds ago at the latest, is right about what was published then.
RightAsOf(set, time) ==
    \A k \in Key : IF k \in set THEN absent[k] <= time ELSE present[k] <= time

\* What is cached or on its way was published when it was fetched.
KeysAreDated ==
    /\ RightAsOf(published, 0)
    /\ (\E w \in Worker : pc[w] = "fetched") => RightAsOf(fetched, fetching)
    /\ Fresh => RightAsOf(keys, age + HTTP_TIMEOUT)
    /\ ~RefreshRuns /\ Cooling /\ last = "ok" => \A k \in Key \ keys : present[k] <= attempt

\* The lock, the times and the keys fit together.
KeyCacheInv == TypeOK /\ OneRefresh /\ AttemptIsKnown /\ KeysAreDated
===============================================================================
