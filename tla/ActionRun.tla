------------------------------- MODULE ActionRun -------------------------------
(***************************************************************************)
(* One use of the GitHub action in a job: action/main.js fetches an OIDC   *)
(* token, exchanges it and hands the installation token to the later       *)
(* steps; action/post.js revokes it when the job is over.  The two are     *)
(* processes of their own, which share nothing but the runner's state file.*)
(*                                                                         *)
(* The broker works on after the client has given up, main.js can end      *)
(* between any two of its writes, and the runner can vanish altogether.    *)
(***************************************************************************)
EXTENDS Integers

CONSTANTS
    REQUEST_TIMEOUT,  \* common.js: 15 seconds for every request
    LAMBDA_TIMEOUT,   \* template.yaml: 30 seconds for the broker's work
    LIFETIME,         \* of an installation token: an hour
    MAX_SKEW          \* how far the runner's clock may be from GitHub's

ASSUME ActionConstants ==
    /\ REQUEST_TIMEOUT \in Nat \ {0} /\ LAMBDA_TIMEOUT \in Nat
    /\ LIFETIME \in Nat \ {0} /\ MAX_SKEW \in Nat

VARIABLES
    alive,     \* the runner exists
    skew,      \* its clock is this much fast
    main,      \* where main.js stands
    post,      \* where post.js stands
    waited,    \* how long the request under way has taken
    broker,    \* what became of the POST /exchange
    busy,      \* how long the broker has worked
    token,     \* the installation token at GitHub: none, live or revoked
    left,      \* seconds it has left
    masked,    \* the log masks it
    state,     \* GITHUB_STATE: names that main.js saved
    outputs,   \* GITHUB_OUTPUT: names that later steps can read
    warned     \* post.js wrote a warning

service == <<broker, busy, token, left>>
files   == <<masked, state, outputs>>
vars    == <<alive, skew, main, post, waited, service, files, warned>>

Running == {"oidc", "exchange", "await", "mask", "save token", "save expiry", "check",
            "output token", "output rest"}
Ended   == {"done", "failed"}

Live == token = "live" /\ left > 0

-------------------------------------------------------------------------------
Init ==
    /\ alive = TRUE
    /\ skew \in -MAX_SKEW..MAX_SKEW
    /\ main = "oidc"
    /\ post = "waiting"
    /\ waited = 0
    /\ broker = "idle"
    /\ busy = 0
    /\ token = "none"
    /\ left = LIFETIME
    /\ masked = FALSE
    /\ state = {}
    /\ outputs = {}
    /\ warned = FALSE

Goto(from, to) ==
    /\ alive
    /\ main = from
    /\ main' = to
    /\ UNCHANGED <<alive, skew, post, warned>>

\* The inputs are in order and GitHub returned an OIDC token, which is masked.
OidcArrives == Goto("oidc", "exchange") /\ UNCHANGED <<waited, service, files>>

\* POST /exchange, once.
SendExchange ==
    /\ Goto("exchange", "await")
    /\ waited' = 0
    /\ broker' = "working"
    /\ UNCHANGED <<busy, token, left, files>>

\* The broker has GitHub create a token, and answers; or it denies, or answers with
\* nothing (Lambda killed it, the answer was lost), perhaps with the token created.
BrokerGrants ==
    /\ broker = "working"
    /\ broker' \in {"granted", "lost"}
    /\ token' = "live"
    /\ UNCHANGED <<alive, skew, main, post, waited, busy, left, files, warned>>

BrokerDenies ==
    /\ broker = "working"
    /\ broker' \in {"denied", "lost"}
    /\ UNCHANGED <<alive, skew, main, post, waited, busy, token, left, files, warned>>

\* 200 with a token.
Answered == broker = "granted" /\ Goto("await", "mask") /\ UNCHANGED <<waited, service, files>>

\* AbortSignal.timeout: the request is given up, whatever the broker goes on to do.
ClientTimesOut ==
    /\ waited >= REQUEST_TIMEOUT
    /\ Goto("await", "failed")
    /\ UNCHANGED <<waited, service, files>>

MaskToken ==
    /\ Goto("mask", "save token")
    /\ masked' = TRUE
    /\ UNCHANGED <<waited, service, state, outputs>>

\* Mutant: the response is validated before anything is saved.
MutSaveToken ==
    /\ Goto("save token", "output token")
    /\ UNCHANGED <<waited, service, files>>

SaveToken ==
    /\ Goto("save token", "save expiry")
    /\ state' = state \cup {"token"}
    /\ UNCHANGED <<waited, service, masked, outputs>>

SaveExpiry ==
    /\ Goto("save expiry", "check")
    /\ state' = state \cup {"expiresAt"}
    /\ UNCHANGED <<waited, service, masked, outputs>>

\* The repositories of the answer are the requested ones, and there is a ref.
ScopeAgrees == Goto("check", "output token") /\ UNCHANGED <<waited, service, files>>

OutputToken ==
    /\ Goto("output token", "output rest")
    /\ outputs' = outputs \cup {"token"}
    /\ UNCHANGED <<waited, service, masked, state>>

OutputRest ==
    /\ Goto("output rest", "done")
    /\ outputs' = outputs \cup {"rest"}
    /\ UNCHANGED <<waited, service, masked, state>>

\* main.js throws (a failed request, a missing field, a scope that differs, a write
\* that fails), or the job is cancelled.  post-if: always().
MainFails ==
    /\ alive
    /\ main \in Running
    /\ main' = "failed"
    /\ UNCHANGED <<alive, skew, post, waited, service, files, warned>>

\* The other steps are over, whether or not main.js failed.
JobEnds ==
    /\ alive
    /\ main \in Ended
    /\ post = "waiting"
    /\ post' = "start"
    /\ UNCHANGED <<alive, skew, main, waited, service, files, warned>>

PostGoes(from, to) ==
    /\ alive
    /\ post = from
    /\ post' = to
    /\ UNCHANGED <<alive, skew, main, broker, busy, left, state, outputs>>

\* env.STATE_token is not there: nothing to revoke.
PostSkips ==
    /\ "token" \notin state
    /\ PostGoes("start", "over")
    /\ UNCHANGED <<waited, token, masked, warned>>

\* Mutant: without a saved expiry there is nothing to revoke.
MutExpired == "expiresAt" \notin state \/ left <= skew

\* Date.parse(expiresAt) <= now(), by the runner's clock.  Without a saved expiry it
\* is NaN, and the token counts as good.
Expired == "expiresAt" \in state /\ left <= skew

PostFindsExpired ==
    /\ "token" \in state
    /\ Expired
    /\ PostGoes("start", "over")
    /\ masked' = TRUE
    /\ UNCHANGED <<waited, token, warned>>

PostDeletes ==
    /\ "token" \in state
    /\ ~Expired
    /\ PostGoes("start", "deleting")
    /\ masked' = TRUE
    /\ waited' = 0
    /\ UNCHANGED <<token, warned>>

\* The DELETE reaches GitHub; its 204 may yet be lost.
GithubRevokes ==
    /\ Live
    /\ PostGoes("deleting", "deleted") \/ PostGoes("deleting", "unheard")
    /\ token' = "revoked"
    /\ UNCHANGED <<waited, masked, warned>>

PostSucceeds ==
    /\ PostGoes("deleted", "over")
    /\ UNCHANGED <<waited, token, masked, warned>>

\* The request cannot be made, is refused, or brings no answer in time.
PostWarns ==
    /\ \/ PostGoes("deleting", "over")
       \/ waited >= REQUEST_TIMEOUT /\ PostGoes("unheard", "over")
    /\ warned' = TRUE
    /\ UNCHANGED <<waited, token, masked>>

RunnerDies ==
    /\ alive
    /\ alive' = FALSE
    /\ UNCHANGED <<skew, main, post, waited, service, files, warned>>

Waiting == main = "await" \/ post \in {"deleting", "unheard"}

\* A second passes: no request outlives its timeout, no broker Lambda's.
Tick ==
    /\ alive /\ Waiting => waited < REQUEST_TIMEOUT
    /\ broker = "working" => busy < LAMBDA_TIMEOUT
    /\ waited' = IF alive /\ Waiting THEN waited + 1 ELSE waited
    /\ busy' = IF broker = "working" THEN busy + 1 ELSE busy
    /\ left' = IF Live THEN left - 1 ELSE left
    /\ UNCHANGED <<alive, skew, main, post, broker, token, files, warned>>

MainStep ==
    \/ OidcArrives \/ SendExchange \/ Answered \/ ClientTimesOut \/ MaskToken
    \/ SaveToken \/ SaveExpiry \/ ScopeAgrees \/ OutputToken \/ OutputRest

PostStep ==
    PostSkips \/ PostFindsExpired \/ PostDeletes \/ PostSucceeds \/ PostWarns

Service == BrokerGrants \/ BrokerDenies \/ GithubRevokes

Next ==
    MainStep \/ MainFails \/ JobEnds \/ PostStep \/ Service \/ RunnerDies \/ Tick

Spec == Init /\ [][Next]_vars

-------------------------------------------------------------------------------
\* Properties

\* The types of the variables.
TypeOK ==
    /\ alive \in BOOLEAN
    /\ skew \in -MAX_SKEW..MAX_SKEW
    /\ main \in Running \cup Ended
    /\ post \in {"waiting", "start", "deleting", "deleted", "unheard", "over"}
    /\ waited \in 0..REQUEST_TIMEOUT
    /\ broker \in {"idle", "working", "granted", "denied", "lost"}
    /\ busy \in 0..LAMBDA_TIMEOUT
    /\ token \in {"none", "live", "revoked"}
    /\ left \in 0..LIFETIME
    /\ masked \in BOOLEAN
    /\ state \subseteq {"token", "expiresAt"}
    /\ outputs \subseteq {"token", "rest"}
    /\ warned \in BOOLEAN

\* A later step can read the token only after it was masked and saved for post.js,
\* at whatever write main.js was stopped.
OutputIsRevocable == "token" \in outputs => masked /\ "token" \in state

\* After post.js, a token that main.js saved is revoked, or a warning says that it may
\* not be, or it dies within the error of the runner's clock.  (OVERVIEW: "if revocation
\* cannot complete, the action emits a warning".)
NothingIsLeftSilently ==
    post = "over" /\ "token" \in state /\ Live => warned \/ left <= MAX_SKEW

-------------------------------------------------------------------------------
\* The inductive invariant of the proofs

Unsaved  == {"oidc", "exchange", "await", "mask", "save token"}
Saved    == {"save expiry", "check", "output token", "output rest", "done"}

\* main.js gets to its writes only with an answer, masks before it saves, and saves
\* before it publishes.
MainIsOrdered ==
    /\ main \in {"mask", "save token"} \cup Saved => broker = "granted"
    /\ main \in {"save token"} \cup Saved => masked
    /\ main \in Unsaved => "token" \notin state
    /\ main \in Saved => "token" \in state
    /\ "token" \in state => broker = "granted"

\* post.js runs when main.js is over, asks for a revocation only of a saved token, and
\* hears of one only after it happened.
PostIsOrdered ==
    /\ post # "waiting" => main \in Ended
    /\ post \in {"deleting", "deleted", "unheard"} => "token" \in state
    /\ post \in {"deleted", "unheard"} => token = "revoked"

\* What the two programs know of the token.
ActionInv ==
    TypeOK /\ MainIsOrdered /\ PostIsOrdered /\ OutputIsRevocable /\ NothingIsLeftSilently
===============================================================================
