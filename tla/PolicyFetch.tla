------------------------------ MODULE PolicyFetch ------------------------------
(***************************************************************************)
(* One run of the policy cache's loader (src/github/policy.rs): a token    *)
(* that may only read the policy repository is created, its scope compared,*)
(* the file read with it, and the token revoked, whatever came of the      *)
(* reading.  None of the three requests is repeated.                       *)
(*                                                                         *)
(* Each request is handled by GitHub in its own time, perhaps after the    *)
(* sender has given it up, and the answer may be lost on its way back.     *)
(***************************************************************************)
EXTENDS Integers

CONSTANTS
    Version,                     \* files the policy repository may host
    Size,                        \* Size[v]: the bytes of v
    NotUtf8,                     \* files that are no text
    None,                        \* Option::None
    Refusals,                    \* answers other than a token or a file
    REQUEST_TIMEOUT,             \* config.rs: 6 seconds
    MAX_POLICY_BYTES,            \* policy.rs: 256 KiB
    DEFAULT_RATE_LIMIT_BACKOFF,  \* policy.rs: 60 seconds
    MAX_RATE_LIMIT_BACKOFF,      \* policy.rs: 1 hour
    MAX_SKEW                     \* how far the process's clock may be from GitHub's

\* A refusal: its status, the headers x-ratelimit-remaining, retry-after and
\* x-ratelimit-reset, what its body says, and whether GitHub means it as a limit.
Refusal ==
    [status : Nat, remaining : Nat \cup {None}, retry_after : Nat \cup {None},
     reset : Nat \cup {None}, message : {"plain", "secondary", "abuse", "spammed"},
     limit : BOOLEAN]

ASSUME FetchConstants ==
    /\ None \notin Nat /\ None \notin Version
    /\ Size \in [Version -> Nat]
    /\ Refusals \subseteq Refusal
    /\ REQUEST_TIMEOUT \in Nat
    /\ MAX_POLICY_BYTES \in Nat
    /\ MAX_RATE_LIMIT_BACKOFF \in Nat \ {0}
    /\ DEFAULT_RATE_LIMIT_BACKOFF \in 1..MAX_RATE_LIMIT_BACKOFF
    /\ MAX_SKEW \in Nat

\* The documented forms of a limit (GitHub's REST documentation on rate limits, and its 422
\* for spammed endpoints).  What is no limit may have any of their marks.
ASSUME LimitsAreDocumented ==
    \A r \in Refusals : r.limit =>
        \/ r.status \in {403, 429} /\ (r.remaining = 0 \/ r.message \in {"secondary", "abuse"})
        \/ r.status = 422 /\ r.message = "spammed"

VARIABLES
    now,        \* seconds since the load began
    pc,         \* sign, minting, fetching, reading, revoking, done; or killed by Lambda
    since,      \* when the request under way was sent
    wire,       \* the answer that has come, or Nothing
    bytes,      \* how much of the body was read
    result,     \* what the loader returns
    post,       \* the POST at GitHub: unsent, sent or handled
    delete,     \* the DELETE at GitHub: unsent, sent or handled
    token,      \* the token at GitHub: none, live or revoked
    scope,      \* its scope: exact (one repository, to read) or other
    hosted,     \* the file in the repository
    seen,       \* history: what it hosted since the load began
    unheard,    \* history: the requests of which the process got no answer it could use
    until       \* history: until when the headers of a refusal ask to wait, or None

github  == <<post, delete, token, scope>>
process == <<pc, since, bytes, result, unheard>>
vars    == <<now, process, wire, github, hosted, seen, until>>

-------------------------------------------------------------------------------
\* What the code computes

Least(a, b)    == IF a <= b THEN a ELSE b
Greatest(a, b) == IF a >= b THEN a ELSE b

\* Mutant: the body of a 403 is not looked at.
MutSaysLimited(r, readable) ==
    readable /\ r.status = 422 /\ r.message \in {"secondary", "abuse", "spammed"}

\* The first 16 KiB of the body, if it can be read.
SaysLimited(r, readable) ==
    /\ readable
    /\ \/ r.status \in {403, 422} /\ r.message \in {"secondary", "abuse"}
       \/ r.status = 422 /\ r.message = "spammed"

\* github_rate_limit: is this a rate limit?
IsRateLimit(r, readable) ==
    /\ r.status \in {403, 422, 429}
    /\ \/ r.status = 429
       \/ r.remaining = 0
       \/ r.retry_after # None
       \/ SaysLimited(r, readable)

\* Mutant: the reset time is taken for a number of seconds.
MutWaitFor(r, local) ==
    LET asked == CASE r.retry_after # None -> r.retry_after
                   [] r.remaining = 0 /\ r.reset # None -> r.reset
                   [] OTHER -> DEFAULT_RATE_LIMIT_BACKOFF
    IN Least(asked, MAX_RATE_LIMIT_BACKOFF)

\* Mutant: the header Retry-After is not read here.
MutWaitNoHeader(r, local) ==
    LET asked == IF r.remaining = 0 /\ r.reset # None THEN Greatest(r.reset - local, 0)
                                                     ELSE DEFAULT_RATE_LIMIT_BACKOFF
    IN Greatest(1, Least(asked, MAX_RATE_LIMIT_BACKOFF))

\* How long to wait by it, clamped to a second and an hour; the reset is a time of day.
WaitFor(r, local) ==
    LET asked == CASE r.retry_after # None -> r.retry_after
                   [] r.retry_after = None /\ r.remaining = 0 /\ r.reset # None ->
                        Greatest(r.reset - local, 0)
                   [] OTHER -> DEFAULT_RATE_LIMIT_BACKOFF
    IN Greatest(1, Least(asked, MAX_RATE_LIMIT_BACKOFF))

NoReply    == [kind |-> "none", version |-> None, after |-> 0, code |-> "none"]
Loaded(v)  == [kind |-> "loaded", version |-> v, after |-> 0, code |-> "none"]
Limited(s) == [kind |-> "limited", version |-> None, after |-> s, code |-> "github_rate_limited"]
Failed(c)  == [kind |-> "failed", version |-> None, after |-> 0, code |-> c]

\* The code of a refused token request that is no rate limit.
MintCode(status) ==
    CASE status = 401 -> "github_app_auth_invalid"
      [] status = 403 -> "github_access_token_request_forbidden"
      [] status = 404 -> "installation_not_found"
      [] status = 422 -> "installation_token_request_invalid"
      [] OTHER        -> "github_access_token_request_failed"

\* SystemTime::now() against GitHub's clock
LocalClocks == (now - MAX_SKEW)..(now + MAX_SKEW)

\* What a refusal comes to, at some reading of the clock.
Verdicts(r, readable, code) ==
    IF IsRateLimit(r, readable) THEN {Limited(WaitFor(r, local)) : local \in LocalClocks}
                                ELSE {Failed(code)}

-------------------------------------------------------------------------------
\* Answers: a token, a file (its length may be announced), 204, or a refusal.
Nothing == [kind |-> "nothing"]
Created == [kind |-> "created"]
Gone    == [kind |-> "gone"]
File(v, length)      == [kind |-> "file", version |-> v, length |-> length]
Refused(r, readable) == [kind |-> "refused", refusal |-> r, readable |-> readable]

Waiting == pc \in {"minting", "fetching", "reading", "revoking"}

Init ==
    /\ now = 0
    /\ pc = "sign"
    /\ since = 0
    /\ wire = Nothing
    /\ bytes = 0
    /\ result = NoReply
    /\ post = "unsent"
    /\ delete = "unsent"
    /\ token = "none"
    /\ scope = "exact"
    /\ hosted \in Version
    /\ seen = {hosted}
    /\ unheard = {}
    /\ until = None

\* The request of this step is over without an answer the code could use.
Unheard(request) == unheard' = unheard \cup {request}

Send(step) ==
    /\ pc' = step
    /\ since' = now
    /\ wire' = Nothing

Return(r) ==
    /\ pc' = "done"
    /\ result' = r
    /\ wire' = Nothing
    /\ UNCHANGED since

\* The token is revoked; the DELETE is sent whatever came before.
Revoke(r) ==
    /\ Send("revoking")
    /\ delete' = "sent"
    /\ result' = r

\* create_app_jwt makes the App's token, and the POST is sent; or the key is no key.
Sign ==
    /\ pc = "sign"
    /\ \/ /\ Send("minting")
          /\ post' = "sent"
          /\ UNCHANGED result
       \/ /\ Return(Failed("github_app_auth_invalid"))
          /\ UNCHANGED post
    /\ UNCHANGED <<now, bytes, delete, token, scope, hosted, seen, unheard, until>>

\* 201 with a token: its scope must be one repository, by id and by name, and reading
\* it.  A token of another scope, or of none that can be read, is revoked unused.
MintAnswered ==
    /\ pc = "minting" /\ wire.kind = "created"
    /\ IF scope = "exact"
       THEN Send("fetching") /\ UNCHANGED <<result, delete>>
       ELSE Revoke(Failed("installation_token_request_invalid"))
    /\ UNCHANGED <<now, bytes, post, token, scope, hosted, seen, unheard, until>>

\* Any other status ends the load.
MintRefused ==
    /\ pc = "minting" /\ wire.kind = "refused"
    /\ \E r \in Verdicts(wire.refusal, wire.readable, MintCode(wire.refusal.status)) : Return(r)
    /\ UNCHANGED <<now, bytes, github, hosted, seen, unheard, until>>

\* A transport error, a timeout, a 201 without a token in it.
MintFails ==
    /\ pc = "minting" /\ wire.kind # "refused"
    /\ Return(Failed("github_access_token_request_failed"))
    /\ Unheard("mint")
    /\ UNCHANGED <<now, bytes, github, hosted, seen, until>>

\* Mutant: a file that is too long ends the load at once.
MutFetchAnswered ==
    /\ pc = "fetching" /\ wire.kind = "file"
    /\ IF wire.length # None /\ wire.length > MAX_POLICY_BYTES
       THEN Return(Failed("policy_lookup_failed")) /\ UNCHANGED <<bytes, delete>>
       ELSE /\ pc' = "reading"
            /\ bytes' = 0
            /\ UNCHANGED <<since, wire, result, delete>>
    /\ UNCHANGED <<now, post, token, scope, hosted, seen, unheard, until>>

\* 200: the announced length, if any, must be within the limit.
FetchAnswered ==
    /\ pc = "fetching" /\ wire.kind = "file"
    /\ IF wire.length # None /\ wire.length > MAX_POLICY_BYTES
       THEN Revoke(Failed("policy_lookup_failed")) /\ UNCHANGED bytes
       ELSE /\ pc' = "reading"
            /\ bytes' = 0
            /\ UNCHANGED <<since, wire, result, delete>>
    /\ UNCHANGED <<now, post, token, scope, hosted, seen, unheard, until>>

\* Any other status.
FetchRefused ==
    /\ pc = "fetching" /\ wire.kind = "refused"
    /\ \E r \in Verdicts(wire.refusal, wire.readable, "policy_lookup_failed") : Revoke(r)
    /\ UNCHANGED <<now, bytes, post, token, scope, hosted, seen, unheard, until>>

\* A chunk of n bytes: the sum must stay within the limit.
ReadChunk(n) ==
    /\ pc = "reading"
    /\ bytes + n <= Size[wire.version]
    /\ IF bytes + n > MAX_POLICY_BYTES
       THEN Revoke(Failed("policy_lookup_failed")) /\ UNCHANGED bytes
       ELSE bytes' = bytes + n /\ UNCHANGED <<pc, since, wire, result, delete>>
    /\ UNCHANGED <<now, post, token, scope, hosted, seen, unheard, until>>

\* Mutant: a body that breaks off is taken for the whole.
MutReadEnds ==
    /\ pc = "reading"
    /\ Revoke(Loaded(wire.version))
    /\ UNCHANGED <<now, bytes, post, token, scope, hosted, seen, unheard, until>>

\* No more chunks.
ReadEnds ==
    /\ pc = "reading"
    /\ bytes = Size[wire.version]
    /\ Revoke(IF wire.version \in NotUtf8 THEN Failed("policy_lookup_failed")
                                         ELSE Loaded(wire.version))
    /\ UNCHANGED <<now, bytes, post, token, scope, hosted, seen, unheard, until>>

\* The GET fails, or its body breaks off.
FetchFails ==
    /\ pc \in {"fetching", "reading"} /\ wire.kind # "refused"
    /\ Revoke(Failed("policy_lookup_failed"))
    /\ UNCHANGED <<now, bytes, post, token, scope, hosted, seen, unheard, until>>

\* 204: the result of the load is the one of the reading.
Revoked ==
    /\ pc = "revoking" /\ wire.kind = "gone"
    /\ Return(result)
    /\ UNCHANGED <<now, bytes, github, hosted, seen, unheard, until>>

\* Any other answer, or none: a warning is logged.
RevokeFails ==
    /\ pc = "revoking"
    /\ Return(result)
    /\ Unheard("revoke")
    /\ UNCHANGED <<now, bytes, github, hosted, seen, until>>

\* The invocation that waits for the load is killed: a crash, or Lambda's timeout.
Killed ==
    /\ pc # "done" /\ pc # "killed"
    /\ pc' = "killed"
    /\ wire' = Nothing
    /\ UNCHANGED <<now, since, bytes, result, github, hosted, seen, unheard, until>>

-------------------------------------------------------------------------------
\* GitHub

\* An answer reaches the process only in the step that waits for it.
Deliver(step, answers) ==
    IF pc = step THEN wire' \in answers ELSE UNCHANGED wire

\* The token is created, normally with the scope that was asked for.
GithubMints ==
    /\ post = "sent"
    /\ post' = "handled"
    /\ token' = "live"
    /\ scope' \in {"exact", "other"}
    /\ Deliver("minting", {Created})
    /\ UNCHANGED <<now, process, delete, hosted, seen, until>>

\* Until when the headers of a refusal ask to wait, whether it is a limit or not: they
\* also come with a denial that is the last request of its window.
AsksUntil(r) ==
    CASE r.retry_after # None -> now + r.retry_after
      [] r.retry_after = None /\ r.remaining = 0 -> r.reset
      [] OTHER -> None

\* No token is created.
GithubRefusesMint(r) ==
    /\ post = "sent"
    /\ post' = "handled"
    /\ Deliver("minting", {Refused(r, readable) : readable \in BOOLEAN})
    /\ until' = IF pc = "minting" THEN AsksUntil(r) ELSE until
    /\ UNCHANGED <<now, process, delete, token, scope, hosted, seen>>

GithubRefusesFetch(r) ==
    /\ pc = "fetching" /\ wire = Nothing
    /\ \E readable \in BOOLEAN : wire' = Refused(r, readable)
    /\ until' = AsksUntil(r)
    /\ UNCHANGED <<now, process, github, hosted, seen>>

\* The file is the one hosted at this moment; its length may be announced.
GithubServes ==
    /\ pc = "fetching" /\ wire = Nothing
    /\ wire' \in {File(hosted, None), File(hosted, Size[hosted])}
    /\ UNCHANGED <<now, process, github, hosted, seen, until>>

GithubRevokes ==
    /\ delete = "sent"
    /\ delete' = "handled"
    /\ token' = "revoked"
    /\ Deliver("revoking", {Gone})
    /\ UNCHANGED <<now, process, post, scope, hosted, seen, until>>

\* Somebody merges another policy.
Publish(v) ==
    /\ hosted' = v
    /\ seen' = seen \cup {v}
    /\ UNCHANGED <<now, process, wire, github, until>>

\* A second passes; no request outlives the client's timeout, its body included.
Tick ==
    /\ Waiting
    /\ now < since + REQUEST_TIMEOUT
    /\ now' = now + 1
    /\ UNCHANGED <<process, wire, github, hosted, seen, until>>

Load ==
    \/ Sign
    \/ MintAnswered \/ MintRefused \/ MintFails
    \/ FetchAnswered \/ FetchRefused \/ FetchFails
    \/ (\E n \in 1..(MAX_POLICY_BYTES + 1) : ReadChunk(n)) \/ ReadEnds
    \/ Revoked \/ RevokeFails
    \/ Killed

Surroundings ==
    \/ GithubMints \/ GithubServes \/ GithubRevokes
    \/ \E r \in Refusals : GithubRefusesMint(r) \/ GithubRefusesFetch(r)
    \/ \E v \in Version : Publish(v)
    \/ Tick

Next == Load \/ Surroundings

Spec == Init /\ [][Next]_vars

-------------------------------------------------------------------------------
\* Properties

Answers ==
    {Nothing, Created, Gone} \cup
    {File(v, length) : v \in Version, length \in {None} \cup {Size[u] : u \in Version}} \cup
    {Refused(r, readable) : r \in Refusals, readable \in BOOLEAN}

\* The type of every variable.
TypeOK ==
    /\ now \in Nat /\ since \in Nat
    /\ pc \in {"sign", "minting", "fetching", "reading", "revoking", "done", "killed"}
    /\ wire \in Answers
    /\ bytes \in 0..MAX_POLICY_BYTES
    /\ result.kind \in {"none", "loaded", "limited", "failed"}
    /\ result.version \in Version \cup {None}
    /\ result.after \in 0..MAX_RATE_LIMIT_BACKOFF
    /\ post \in {"unsent", "sent", "handled"}
    /\ delete \in {"unsent", "sent", "handled"}
    /\ token \in {"none", "live", "revoked"}
    /\ scope \in {"exact", "other"}
    /\ hosted \in Version /\ seen \subseteq Version
    /\ unheard \subseteq {"mint", "revoke"}
    /\ until \in Nat \cup {None}

\* When a load is over its token is dead, unless the answer that would have told of it
\* never came, or its revocation was sent and not confirmed: on every path, for a token
\* of any scope, and however late GitHub handles what was sent.  (OVERVIEW: "then
\* revokes the read token".)
TokenIsRevoked ==
    pc = "done" /\ token = "live" =>
        "mint" \in unheard \/ (delete = "sent" /\ "revoke" \in unheard)

\* A file that is returned is a whole file that the repository hosted during the load,
\* of at most 256 KiB, read with a token for that repository alone.
LoadedIsTheFile ==
    result.kind = "loaded" =>
        /\ result.version \in seen \ NotUtf8
        /\ bytes = Size[result.version] /\ bytes <= MAX_POLICY_BYTES
        /\ scope = "exact"

\* A wait that is returned ends no earlier than GitHub asked, but for the error of the
\* clock, or lasts an hour: whether GitHub gave seconds or a time of day.
LimitIsWaitedOut ==
    result.kind = "limited" /\ until # None =>
        now + result.after >= Least(until - MAX_SKEW, now + MAX_RATE_LIMIT_BACKOFF)

\* Every way in which GitHub says that it limits the caller is heard as a limit, as long as
\* the body that says so can be read.  A denial that only looks like one, as the last of its
\* window does (x-ratelimit-remaining: 0 with any 403 or 422), may be taken for it; but no
\* refusal, limit or not, keeps the callers out for longer than its own headers say, give
\* or take the time it was under way and the error of the clock, or for the code's minute.
LimitsAreHeard ==
    [][wire.kind = "refused" /\ wire.readable /\ result' # result =>
          /\ wire.refusal.limit => result'.kind = "limited"
          /\ result'.kind = "limited" =>
               now + result'.after <=
                 IF until = None THEN now + DEFAULT_RATE_LIMIT_BACKOFF
                 ELSE Greatest(now + 1, until + Greatest(REQUEST_TIMEOUT, MAX_SKEW))]_vars

\* The three requests together: the time for which the cache's mutex may be held.
LoadIsShort == now <= 3 * REQUEST_TIMEOUT

\* The answer of the load, as the cache gets it.
Answered == [kind    |-> IF pc = "done" THEN result.kind ELSE "none",
             version |-> IF pc = "done" THEN result.version ELSE None,
             after   |-> IF pc = "done" THEN result.after ELSE 0]

PL == INSTANCE PolicyLoad WITH NoPolicy <- None, reply <- Answered

\* The load is what the cache takes it for.
PolicyLoadSpec == PL!Spec

-------------------------------------------------------------------------------
\* The inductive invariant of the proofs

\* The time of the load is that of the requests before, and of the one under way.
RequestsAreTimed ==
    /\ since <= now
    /\ pc = "sign" => now = 0
    /\ pc = "minting" => since = 0
    /\ pc \in {"fetching", "reading"} => since <= REQUEST_TIMEOUT
    /\ pc = "revoking" => since <= 2 * REQUEST_TIMEOUT
    /\ Waiting => now <= since + REQUEST_TIMEOUT
    /\ LoadIsShort

\* What the process does not know of is what it was not told.
TokenIsKnown ==
    /\ pc = "sign" => post = "unsent" /\ wire = Nothing
    /\ post \in {"unsent", "sent"} => token = "none"
    /\ pc = "minting" => delete = "unsent"
    /\ pc \in {"sign", "minting", "fetching", "reading"} => unheard = {}
    /\ pc = "minting" /\ wire.kind = "refused" => token = "none" /\ post = "handled"
    /\ wire.kind = "created" => post = "handled"
    /\ pc \in {"fetching", "reading"} => post = "handled" /\ scope = "exact"
    /\ pc = "revoking" => post = "handled" /\ delete # "unsent"
    /\ delete # "unsent" => post = "handled"
    /\ delete = "handled" => token # "live"
    /\ pc = "revoking" /\ wire.kind = "gone" => delete = "handled"
    /\ pc = "done" /\ "mint" \notin unheard =>
         /\ post = "sent" => FALSE
         /\ token = "live" => delete = "sent" /\ "revoke" \in unheard

\* What is read is a hosted file, and the result stands from the reading on.
ReadingIsHosted ==
    /\ hosted \in seen
    /\ wire.kind = "file" => wire.version \in seen
    /\ pc = "reading" => wire.kind = "file" /\ bytes <= MAX_POLICY_BYTES
    /\ pc \in {"sign", "minting", "fetching", "reading"} => result = NoReply
    /\ pc \in {"revoking", "done"} => result.kind # "none"
    /\ result.kind = "loaded" =>
         pc \in {"revoking", "done", "killed"} /\ post = "handled" /\ LoadedIsTheFile
    /\ result.kind = "limited" => result.after \in 1..MAX_RATE_LIMIT_BACKOFF
    /\ result.kind # "loaded" => result.version = None
    /\ result.kind # "limited" => result.after = 0

\* The end that GitHub asked for is the one the headers of r speak of, r having been
\* sent while the request was under way.
IsToldBy(r) ==
    /\ r.retry_after # None =>
         until # None /\ since + r.retry_after <= until /\ until <= now + r.retry_after
    /\ r.retry_after = None => until = IF r.remaining = 0 THEN r.reset ELSE None

\* The end that GitHub asked for is the one the refusal that came speaks of.
UntilIsTold ==
    /\ LimitIsWaitedOut
    /\ wire.kind = "refused" => IsToldBy(wire.refusal)
    /\ wire.kind = "refused" => pc \in {"minting", "fetching"}

FetchInv == TypeOK /\ RequestsAreTimed /\ TokenIsKnown /\ ReadingIsHosted /\ UntilIsTold
===============================================================================
