------------------------------- MODULE AppCalls -------------------------------
(***************************************************************************)
(* InstallationMint in time: the App's JWT is signed once, by the clock of *)
(* the process (create_app_jwt in src/github/tokens.rs), and carries every *)
(* call; a lookup is repeated after a delay when send_github_request       *)
(* (src/github/api.rs) finds the failure transient.                        *)
(*                                                                         *)
(* Every step is one of InstallationMint that also takes its time.         *)
(***************************************************************************)
EXTENDS InstallationMint

CONSTANTS
    Replies,          \* what a lookup that finds nothing comes to
    Ahead,            \* how far the process's clock may be ahead of GitHub's (or behind)
    Taking,           \* how long a call may take, REQUEST_TIMEOUT at most
    START,            \* GitHub's time when the mint begins
    REQUEST_TIMEOUT,  \* config.rs: 6 seconds
    GITHUB_REQUEST_INITIAL_BACKOFF,  \* api.rs: 200 ms
    GITHUB_REQUEST_MAX_BACKOFF,      \* api.rs: 1 second
    BACKDATED, LIFETIME,             \* tokens.rs: a minute, nine minutes
    GITHUB_MAX_LIFETIME              \* GitHub refuses a JWT that ends later: ten minutes

\* An answer with its status and its header Retry-After (a date is no number of
\* seconds), or a failure of the transport.
Reply ==
    [kind : {"answer", "timeout", "connect", "broken"}, status : Nat, header : BOOLEAN,
     retry_after : Nat \cup {None}]

ASSUME CallConstants ==
    /\ None \notin Nat
    /\ Replies \subseteq Reply
    /\ \A r \in Replies : r.header \/ r.retry_after = None
    /\ Ahead \subseteq Int
    /\ {START, REQUEST_TIMEOUT, GITHUB_REQUEST_INITIAL_BACKOFF, GITHUB_REQUEST_MAX_BACKOFF,
        BACKDATED, LIFETIME, GITHUB_MAX_LIFETIME} \subseteq Nat
    /\ GITHUB_REQUEST_INITIAL_BACKOFF <= GITHUB_REQUEST_MAX_BACKOFF
    /\ Taking \subseteq 0..REQUEST_TIMEOUT

\* The longest that the calls for one target may take: attempts, and delays between them.
PerTarget ==
    GITHUB_REQUEST_MAX_ATTEMPTS * REQUEST_TIMEOUT
    + (GITHUB_REQUEST_MAX_ATTEMPTS - 1) * GITHUB_REQUEST_MAX_BACKOFF

TimeFor(n) == n * PerTarget

\* Clocks are a minute off at most, and the lists are short enough for the JWT (36
\* targets; long before, Lambda's thirty seconds end the calls).
ASSUME JwtOutlastsCalls ==
    /\ GITHUB_REQUEST_MAX_ATTEMPTS = 2
    /\ Ahead \subseteq -BACKDATED..BACKDATED
    /\ LIFETIME + BACKDATED <= GITHUB_MAX_LIFETIME
    /\ \A list \in TargetLists : TimeFor(Len(list)) + BACKDATED < LIFETIME

VARIABLES
    now,      \* GitHub's time
    jwt,      \* the App's token, [iat, exp], or NoJwt
    backoff   \* the delay before the next attempt, if the answer names none

callVars == <<vars, now, jwt, backoff>>

NoJwt == [iat |-> None, exp |-> None]

-------------------------------------------------------------------------------
\* What the code computes

\* Mutant: as many minutes as GitHub allows.
MutClaims(local) == [iat |-> local - BACKDATED, exp |-> local + GITHUB_MAX_LIFETIME]

\* AppJwtClaims, at a reading of the clock.
Claims(local) == [iat |-> local - BACKDATED, exp |-> local + LIFETIME]

\* is_retryable_response, and the transport errors that are retried.
Retryable(r) ==
    \/ r.kind \in {"timeout", "connect"}
    \/ r.kind = "answer" /\ r.status \in {429, 500, 502, 503, 504}
    \/ r.kind = "answer" /\ r.status = 403 /\ r.header

\* Mutant: Retry-After is honoured in full.
MutRetryDelay(r) == IF r.kind = "answer" /\ r.retry_after # None THEN r.retry_after ELSE backoff

\* retry_delay: what the header asks for, a second at most, or the backoff.
RetryDelay(r) ==
    IF r.kind = "answer" /\ r.retry_after # None
    THEN IF r.retry_after <= GITHUB_REQUEST_MAX_BACKOFF THEN r.retry_after
                                                        ELSE GITHUB_REQUEST_MAX_BACKOFF
    ELSE backoff

\* A call that ended as r does took this long.
Took(r) == IF r.kind = "timeout" THEN {REQUEST_TIMEOUT} ELSE Taking

-------------------------------------------------------------------------------
CallsInit ==
    /\ Init
    /\ now = START
    /\ jwt = NoJwt
    /\ backoff = GITHUB_REQUEST_INITIAL_BACKOFF

Signed == jwt # NoJwt

Sign ==
    /\ ~Signed /\ pc = "lookup"
    /\ \E ahead \in Ahead : jwt' = Claims(now + ahead)
    /\ UNCHANGED <<vars, now, backoff>>

Unsigned == ~Signed /\ SignFails /\ UNCHANGED <<now, jwt, backoff>>

\* 200; the next target starts with the first backoff again.
Found ==
    /\ Signed /\ LookupFinds
    /\ \E d \in Taking : now' = now + d
    /\ backoff' = GITHUB_REQUEST_INITIAL_BACKOFF
    /\ UNCHANGED jwt

\* A failure that will not pass by itself, or one that did not within the attempts.
Refused(r) ==
    /\ Signed /\ LookupRefused
    /\ Retryable(r) => attempt + 1 = GITHUB_REQUEST_MAX_ATTEMPTS
    /\ \E d \in Took(r) : now' = now + d
    /\ UNCHANGED <<jwt, backoff>>

\* The process sleeps before the next attempt, and doubles the backoff.
Retried(r) ==
    /\ Signed /\ LookupRetries
    /\ Retryable(r)
    /\ \E d \in Took(r) : now' = now + d + RetryDelay(r)
    /\ backoff' = 2 * backoff
    /\ UNCHANGED jwt

\* The POST, once.
Posted ==
    /\ Signed /\ PostMint
    /\ \E d \in Taking : now' = now + d
    /\ UNCHANGED <<jwt, backoff>>

Checked == CheckScope /\ UNCHANGED <<now, jwt, backoff>>

Changed == GithubChanges /\ UNCHANGED <<now, jwt, backoff>>

Calls ==
    \/ Sign \/ Unsigned
    \/ Found \/ Posted \/ Checked
    \/ \E r \in Replies : Refused(r) \/ Retried(r)

CallsNext == Calls \/ Changed

CallsSpec == CallsInit /\ [][CallsNext]_callVars

-------------------------------------------------------------------------------
\* Properties

\* GitHub takes a JWT that is not from the future, not over, and not too long-lived.
TakenByGithub(claims, time) ==
    claims.iat <= time /\ time < claims.exp /\ claims.exp - time <= GITHUB_MAX_LIFETIME

\* Every call is sent with a JWT that GitHub takes: the one signed at the beginning
\* lasts for all lookups, retries and delays of a target list, on a clock that is a
\* minute off either way.
JwtIsAccepted ==
    [][gets' # gets \/ posts' # posts => TakenByGithub(jwt, now)]_callVars

\* The longest that the calls for the targets and the POST may take.
Longest == TimeFor(Len(targets)) + REQUEST_TIMEOUT

\* Whatever GitHub answers, and however long it asks to wait, the calls are over within
\* thirteen seconds for each target and six for the POST.  That is nineteen of Lambda's
\* thirty seconds for one target, and more than thirty for two.
CallsEndInTime == now - START <= Longest

-------------------------------------------------------------------------------
\* The inductive invariant of the proofs

\* Time passes only with a JWT, which was signed when it began.
SignedFirst ==
    /\ now \in Nat /\ START <= now
    /\ ~Signed => now = START /\ pc \in {"lookup", "done"}
    /\ Signed => \E ahead \in Ahead : jwt = Claims(START + ahead)

\* The targets before have had their time, and this one its first attempt.
CallsAreTimed ==
    /\ pc = "lookup" /\ attempt = 0 => backoff = GITHUB_REQUEST_INITIAL_BACKOFF
    /\ pc = "lookup" =>
         now - START <= TimeFor(next - 1)
                        + (IF attempt = 0 THEN 0 ELSE REQUEST_TIMEOUT + GITHUB_REQUEST_MAX_BACKOFF)
    /\ pc = "mint" => now - START <= TimeFor(Len(targets))
    /\ CallsEndInTime

CallsInv == SignedFirst /\ CallsAreTimed
===============================================================================
