-------------------------------- MODULE Service --------------------------------
(***************************************************************************)
(* A process from its start on: main and handle_request in src/main.rs,    *)
(* handle in src/exchange.rs with every error it can end with, and what a  *)
(* caller is told of it (the codes of src/error.rs).  One request at a     *)
(* time, as in a Lambda instance; the steps themselves are those of the    *)
(* modules of the components, seen from outside.                           *)
(***************************************************************************)
EXTENDS Startup

VARIABLES
    pc,        \* the step of the request, or idle
    request,   \* what was sent
    answer,    \* the last answer: a code, ok, healthy, or none
    asked,     \* history: whom the process asked for the request
    cached,    \* a fresh policy is in the cache
    spent,     \* the OIDC token's record is in the table
    claimed    \* history: this request wrote the record

serving == <<pc, request, answer, asked, cached, spent, claimed>>
allVars == <<startVars, serving>>

Requests ==
    [route : {"health", "exchange", "other"}, body : {"valid", "invalid"},
     bearer : {"absent", "foreign", "rs256"}, genuine : BOOLEAN]

NoRequest == [route |-> "other", body |-> "invalid", bearer |-> "absent", genuine |-> FALSE]

-------------------------------------------------------------------------------
\* The errors, by their codes

Unconfigured ==
    {"policy_not_configured", "invalid_policy", "app_id_not_configured",
     "app_private_key_not_configured", "jti_table_not_configured", "invalid_github_api_url"}

Unauthenticated ==
    {"missing_bearer_token", "oidc_token_expired", "oidc_token_missing_jti",
     "oidc_token_missing_exp", "invalid_oidc_token"}

\* The refusals of a rule and of a target.
Denials ==
    {"ref_not_allowed", "environment_not_allowed", "subject_not_allowed",
     "repository_claim_missing", "repository_claim_invalid", "repository_not_allowed",
     "event_not_allowed", "workflow_not_allowed", "repository_id_claim_invalid",
     "repository_id_not_allowed", "target_repository_not_allowed", "permissions_not_allowed"}

Forbidden ==
    Denials \cup {"target_installation_not_allowed", "app_not_installed", "installation_not_found"}

\* AppError
Codes ==
    Unconfigured \cup Unauthenticated \cup Forbidden \cup
    {"not_found", "invalid_exchange_request", "oidc_verification_unavailable",
     "oidc_token_replayed", "jti_replay_guard_unavailable", "github_app_auth_invalid",
     "github_installation_lookup_forbidden", "github_installation_lookup_failed",
     "github_access_token_request_forbidden", "installation_token_request_invalid",
     "github_access_token_request_failed", "policy_lookup_failed", "github_rate_limited"}

-------------------------------------------------------------------------------
ServiceInit ==
    /\ StartInit
    /\ pc = "idle"
    /\ request = NoRequest
    /\ answer = "none"
    /\ asked = {}
    /\ cached = FALSE
    /\ spent = FALSE /\ claimed = FALSE

Goto(step) == pc' = step /\ UNCHANGED <<request, answer>>

Reply(code) ==
    /\ pc' = "idle"
    /\ answer' = code
    /\ UNCHANGED request

Ask(whom) == asked' = asked \cup {whom}

\* Lambda hands a request to a process that is up.
Receive(r) ==
    /\ proc = "up" /\ pc = "idle"
    /\ pc' = "route"
    /\ request' = r
    /\ answer' = "none"
    /\ asked' = {} /\ claimed' = FALSE
    /\ UNCHANGED <<startVars, cached, spent>>

Route ==
    /\ pc = "route"
    /\ CASE request.route = "health"   -> Reply("healthy")
         [] request.route = "exchange" -> Goto("read")
         [] OTHER                      -> Reply("not_found")
    /\ UNCHANGED <<startVars, asked, cached, spent, claimed>>

\* The body first, then the header: a bearer token signed with RS256 by a named key.
ReadRequest ==
    /\ pc = "read"
    /\ CASE request.body = "invalid" -> Reply("invalid_exchange_request")
         [] request.body = "valid" /\ request.bearer = "absent" -> Reply("missing_bearer_token")
         [] request.body = "valid" /\ request.bearer = "foreign" -> Reply("invalid_oidc_token")
         [] OTHER -> Goto("keys")
    /\ UNCHANGED <<startVars, asked, cached, spent, claimed>>

\* The cached keys, or the key server.  A key that is new may pass for unknown while no
\* refresh is allowed (JwksCache's RotationIsNoticed).
FindKey ==
    /\ pc = "keys"
    /\ \/ Goto("verify")
       \/ Reply("invalid_oidc_token")
       \/ Reply("oidc_verification_unavailable")
    /\ Ask("keys") \/ UNCHANGED asked
    /\ UNCHANGED <<startVars, cached, spent, claimed>>

\* Mutant: claims that are not verified are gone on with.
MutVerify ==
    /\ pc = "verify"
    /\ Goto("policy")
    /\ UNCHANGED <<startVars, asked, cached, spent, claimed>>

\* map_jwt_error: signature, issuer, audience and times, or an error of another kind.
Verify ==
    /\ pc = "verify"
    /\ \/ request.genuine /\ Goto("policy")
       \/ \E code \in {"oidc_token_expired", "invalid_oidc_token"} : Reply(code)
       \/ Reply("oidc_verification_unavailable")
    /\ UNCHANGED <<startVars, asked, cached, spent, claimed>>

\* A fresh policy needs nobody.
UseCached ==
    /\ pc = "policy" /\ cached
    /\ Goto("authorize")
    /\ UNCHANGED <<startVars, asked, cached, spent, claimed>>

\* Mutant: a policy that was loaded once serves a load that fails.
MutLoadPolicy ==
    /\ pc = "policy" /\ ~cached
    /\ Ask("policy")
    /\ Goto("authorize")
    /\ UNCHANGED <<startVars, cached, spent, claimed>>

\* The loader: the App's pair must fit; the token, the file and its text may fail.
LoadPolicy ==
    /\ pc = "policy" /\ ~cached
    /\ Ask("policy")
    /\ \/ PairFits /\ Goto("authorize") /\ cached' = TRUE
       \/ /\ UNCHANGED cached
          /\ \/ Reply("github_app_auth_invalid")
             \/ \E code \in {"github_access_token_request_forbidden",
                             "installation_token_request_invalid"} : PairFits /\ Reply(code)
             \/ PairFits /\ Reply("installation_not_found")
             \/ \E code \in {"github_access_token_request_failed", "policy_lookup_failed",
                             "github_rate_limited"} : Reply(code)
             \/ PairFits /\ Reply("invalid_policy")
    /\ UNCHANGED <<startVars, spent, claimed>>

\* In the backoff nobody is asked, and a snapshot that is kept lets nobody in.
DenyInBackoff ==
    /\ pc = "policy" /\ ~cached
    /\ Reply("github_rate_limited")
    /\ UNCHANGED <<startVars, asked, cached, spent, claimed>>

\* The rules and the target, then the claims that the rest needs.
Authorize ==
    /\ pc = "authorize"
    /\ \/ Goto("claim")
       \/ \E code \in Denials : Reply(code)
       \/ \E code \in {"oidc_token_missing_jti", "oidc_token_missing_exp"} : Reply(code)
    /\ UNCHANGED <<startVars, asked, cached, spent, claimed>>

\* The conditional write; its answer may be lost, after the write or before it.
Claim ==
    /\ pc = "claim"
    /\ Ask("table")
    /\ spent' \in {TRUE, spent}
    /\ claimed' = (spent' /\ ~spent)
    /\ \/ claimed' /\ Goto("lookup")
       \/ spent' /\ Reply("oidc_token_replayed")
       \/ Reply("jti_replay_guard_unavailable")
    /\ UNCHANGED <<startVars, cached>>

\* The App's JWT, and the installations of the targets.
Lookup ==
    /\ pc = "lookup"
    /\ Ask("github")
    /\ \/ PairFits /\ Goto("mint")
       \/ Reply("github_app_auth_invalid")
       \/ Reply("github_installation_lookup_forbidden")
       \/ Reply("app_not_installed")
       \/ Reply("target_installation_not_allowed")
       \/ Reply("github_installation_lookup_failed")
    /\ UNCHANGED <<startVars, cached, spent, claimed>>

\* Mutant: a limit that hits the POST is told as one.
MutMint ==
    /\ pc = "mint"
    /\ Ask("github")
    /\ \/ Reply("ok")
       \/ Reply("github_rate_limited")
    /\ UNCHANGED <<startVars, cached, spent, claimed>>

\* The POST.
Mint ==
    /\ pc = "mint"
    /\ Ask("github")
    /\ \/ Reply("ok")
       \/ \E code \in {"github_app_auth_invalid", "github_access_token_request_forbidden",
                       "installation_token_request_invalid"} : Reply(code)
       \/ Reply("installation_not_found")
       \/ Reply("github_access_token_request_failed")
    /\ UNCHANGED <<startVars, cached, spent, claimed>>

\* The policy grows old.
Ages ==
    /\ cached /\ cached' = FALSE
    /\ UNCHANGED <<startVars, pc, request, answer, asked, spent, claimed>>

\* Lambda ends the process, in the middle of a request or not; its caches go with it.
Ends ==
    /\ Restart
    /\ pc' = "idle" /\ cached' = FALSE
    /\ answer' = "none"
    /\ asked' = {} /\ claimed' = FALSE
    /\ UNCHANGED <<request, spent>>

Handle ==
    \/ Route \/ ReadRequest \/ FindKey \/ Verify \/ UseCached \/ LoadPolicy \/ DenyInBackoff
    \/ Authorize \/ Claim \/ Lookup \/ Mint

ServiceNext ==
    \/ Start /\ UNCHANGED serving
    \/ \E r \in Requests : Receive(r)
    \/ Handle \/ Ages \/ Ends

ServiceSpec == ServiceInit /\ [][ServiceNext]_allVars

-------------------------------------------------------------------------------
\* Properties

\* Codes after which the OIDC token is as good as before, and codes after which it is
\* gone.  The others do not tell: both the load of the policy, before the claim, and the
\* mint, after it, end with them, or the claim's own answer was lost.
KeepsToken ==
    {"invalid_exchange_request", "policy_lookup_failed", "github_rate_limited",
     "oidc_verification_unavailable"} \cup Unauthenticated \cup Denials \cup Unconfigured

TakesToken ==
    {"ok", "oidc_token_replayed", "target_installation_not_allowed", "app_not_installed",
     "github_installation_lookup_forbidden", "github_installation_lookup_failed"}

\* A caller learns from the code whether its token may be shown again: after a code of
\* KeepsToken the request has not spent it, after one of TakesToken it is spent.
CodeTellsSpent ==
    /\ answer \in KeepsToken => ~claimed
    /\ answer \in TakesToken => spent

\* Nothing is done for a stranger: the key server is asked only for a well-formed
\* request with an RS256 token, and GitHub and the table only once its signature was
\* verified, and only for an exchange.
StrangersCostNothing ==
    /\ "keys" \in asked => request.body = "valid" /\ request.bearer = "rs256"
    /\ asked \cap {"policy", "table", "github"} # {} =>
         request.route = "exchange" /\ request.genuine

\* A process whose id and key do not belong together spends nobody's token: it never
\* gets a policy, and without a policy it does not reach the table.
WrongKeySpendsNothing == claimed => PairFits

-------------------------------------------------------------------------------
\* The inductive invariant of the proofs

BeforeClaim == {"route", "read", "keys", "verify", "policy", "authorize", "claim"}
AfterClaim  == {"lookup", "mint"}

ServiceTypeOK ==
    /\ request \in Requests
    /\ pc \in {"idle"} \cup BeforeClaim \cup AfterClaim
    /\ answer \in {"none", "ok", "healthy"} \cup Codes
    /\ asked \subseteq {"keys", "policy", "table", "github"}
    /\ cached \in BOOLEAN /\ spent \in BOOLEAN /\ claimed \in BOOLEAN

\* A process that is not up has served nothing since its start.
OnlyWhenUp == proc # "up" => pc = "idle" /\ ~cached /\ ~claimed /\ asked = {}

\* What the step of the request says of it.
Checked ==
    /\ pc \notin {"idle", "route"} => request.route = "exchange"
    /\ pc \notin {"idle", "route", "read"} => request.body = "valid" /\ request.bearer = "rs256"
    /\ pc \in {"policy", "authorize", "claim"} \cup AfterClaim => request.genuine

\* A policy was loaded with a pair that fits, and what comes after it has the same pair.
PairWorked == cached \/ claimed \/ pc \in {"authorize", "claim"} \cup AfterClaim => PairFits

\* The record is written between the steps before and after the claim, by this request.
ClaimedByStep ==
    /\ pc # "idle" => answer = "none"
    /\ pc \in BeforeClaim => ~claimed
    /\ pc \in AfterClaim => claimed
    /\ claimed => spent

ServiceInv ==
    /\ ServiceTypeOK
    /\ OnlyWhenUp
    /\ Checked
    /\ PairWorked
    /\ ClaimedByStep
    /\ CodeTellsSpent
    /\ StrangersCostNothing
===============================================================================
