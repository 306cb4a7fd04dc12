------------------------------- MODULE Exchange -------------------------------
(***************************************************************************)
(* The exchange endpoint (src/exchange.rs, src/replay.rs): concurrent      *)
(* Lambda invocations verify GitHub's OIDC tokens, claim their jti in one  *)
(* DynamoDB table and have GitHub create an installation token.            *)
(*                                                                         *)
(* A token is shown again and again, to any invocation, for as long as     *)
(* anybody cares to: a caller may resend it, and whoever holds it may      *)
(* replay it.  Only the table remembers, and the table forgets: the record *)
(* of a claim is swept some time after its ttl.                            *)
(***************************************************************************)
EXTENDS Integers

CONSTANTS
    Worker,                   \* Lambda environments; each runs one invocation at a time
    Token,                    \* OIDC tokens that GitHub signed, one per jti
    Claims,                   \* Claims[t]: the time claims [iat, nbf, exp] of t, in seconds
    CLOCK_TOLERANCE_SECONDS,  \* exchange.rs: 5
    REPLAY_MARGIN,            \* replay.rs: the 60 seconds a record outlives its token
    LAMBDA_TIMEOUT,           \* template.yaml: 30
    MAX_SKEW,                 \* how far a worker's clock may be from the table's
    U64_MAX,                  \* the largest u64
    MAX_TIME                  \* bound: the clock stops here

ASSUME ConstantsAreNatural ==
    /\ CLOCK_TOLERANCE_SECONDS \in Nat
    /\ REPLAY_MARGIN \in Nat
    /\ LAMBDA_TIMEOUT \in Nat
    /\ MAX_SKEW \in Nat
    /\ U64_MAX \in Nat
    /\ MAX_TIME \in Nat

ASSUME ClaimsAreTimes == Claims \in [Token -> [iat : Nat, nbf : Nat, exp : Nat]]

\* GitHub signs no exp near the end of the u64 range.
ASSUME ExpiryFitsU64 ==
    \A t \in Token : (Claims[t].exp + CLOCK_TOLERANCE_SECONDS) * 1000 <= U64_MAX

\* The record outlives every invocation that verified the token in time: the
\* 60 seconds are enough for a 30 second invocation on a clock 30 seconds off.
ASSUME MarginCoversInvocation == LAMBDA_TIMEOUT + MAX_SKEW <= REPLAY_MARGIN

VARIABLES
    now,       \* true time, in seconds; the table sweeps by it
    table,     \* table[t]: the ttl of t's record, or NoRecord
    pc,        \* pc[w]: where w's invocation stands
    tok,       \* tok[w]: the token that w's last invocation was shown
    began,     \* began[w]: when it started
    answer,    \* answer[w]: what it told its caller
    inflight,  \* tokens whose token-creation POST is on its way to GitHub
    claims,    \* history: claims[t], the conditional writes that succeeded
    minted,    \* history: minted[t], the installation tokens GitHub created
    granted    \* history: granted[t], the installation tokens handed to a caller

history == <<claims, minted, granted>>
vars == <<now, table, pc, tok, began, answer, inflight, claims, minted, granted>>

NoRecord == -1

Unverified == {"key", "verify"}
Verified   == {"policy", "claim"}
Owning     == {"find", "mint", "answer"}
Steps      == {"idle"} \cup Unverified \cup Verified \cup Owning
Answers    == {"none", "granted", "replayed", "unavailable", "refused"}

-------------------------------------------------------------------------------
\* What the code computes

Least(a, b) == IF a <= b THEN a ELSE b

SaturatingMul(a, b) == Least(a * b, U64_MAX)

\* exp.saturating_mul(1000) + 5000: the sum is not saturating, it wraps.
ExpiresAtMs(t) ==
    (SaturatingMul(Claims[t].exp, 1000) + SaturatingMul(CLOCK_TOLERANCE_SECONDS, 1000))
        % (U64_MAX + 1)

\* Mutant: the record dies with the token.
MutTtl(t) == ExpiresAtMs(t) \div 1000

\* The ttl attribute that claim_jti writes.
Ttl(t) == ExpiresAtMs(t) \div 1000 + REPLAY_MARGIN

\* Mutant: expiry is not looked at.
MutInTime(t, local) ==
    /\ Claims[t].nbf <= local + CLOCK_TOLERANCE_SECONDS
    /\ Claims[t].iat <= local + CLOCK_TOLERANCE_SECONDS

\* The time checks of decode (exp, nbf) and of verify_oidc_claims (iat).
InTime(t, local) ==
    /\ Claims[t].exp >= local - CLOCK_TOLERANCE_SECONDS
    /\ Claims[t].nbf <= local + CLOCK_TOLERANCE_SECONDS
    /\ Claims[t].iat <= local + CLOCK_TOLERANCE_SECONDS

\* What SystemTime::now() may read on a worker.
LocalClocks == (now - MAX_SKEW)..(now + MAX_SKEW)

-------------------------------------------------------------------------------
Init ==
    /\ now = 0
    /\ table = [t \in Token |-> NoRecord]
    /\ pc = [w \in Worker |-> "idle"]
    /\ tok \in [Worker -> Token]
    /\ began = [w \in Worker |-> 0]
    /\ answer = [w \in Worker |-> "none"]
    /\ inflight = {}
    /\ claims = [t \in Token |-> 0]
    /\ minted = [t \in Token |-> 0]
    /\ granted = [t \in Token |-> 0]

Goto(w, from, to) ==
    /\ pc[w] = from
    /\ pc' = [pc EXCEPT ![w] = to]
    /\ UNCHANGED <<tok, began, answer>>

\* The invocation of w ends and tells its caller a.
Reply(w, a) ==
    /\ pc' = [pc EXCEPT ![w] = "idle"]
    /\ answer' = [answer EXCEPT ![w] = a]
    /\ UNCHANGED <<tok, began>>

\* POST /exchange with a well-formed request and a token that GitHub signed.
Receive(w, t) ==
    /\ pc[w] = "idle"
    /\ pc' = [pc EXCEPT ![w] = "key"]
    /\ tok' = [tok EXCEPT ![w] = t]
    /\ began' = [began EXCEPT ![w] = now]
    /\ answer' = [answer EXCEPT ![w] = "none"]
    /\ UNCHANGED <<now, table, inflight, history>>

\* decoding_key_for returned the key that signed the token.
KeyFound(w) ==
    /\ Goto(w, "key", "verify")
    /\ UNCHANGED <<now, table, inflight, history>>

\* The signature and the time claims are accepted at some reading of the clock.
ClaimsVerified(w) ==
    /\ \E local \in LocalClocks : InTime(tok[w], local)
    /\ Goto(w, "verify", "policy")
    /\ UNCHANGED <<now, table, inflight, history>>

\* The policy was loaded and a rule of it allows the request.
Authorized(w) ==
    /\ Goto(w, "policy", "claim")
    /\ UNCHANGED <<now, table, inflight, history>>

\* Mutant: the write is unconditional.
MutPutRecord(t) ==
    /\ table' = [table EXCEPT ![t] = Ttl(t)]
    /\ claims' = [claims EXCEPT ![t] = @ + 1]

PutRecord(t) ==
    /\ table[t] = NoRecord
    /\ table' = [table EXCEPT ![t] = Ttl(t)]
    /\ claims' = [claims EXCEPT ![t] = @ + 1]

\* put_item with attribute_not_exists(jti_hash) succeeded.
ClaimWon(w) ==
    /\ Goto(w, "claim", "find")
    /\ PutRecord(tok[w])
    /\ UNCHANGED <<now, inflight, minted, granted>>

\* The write succeeded and its reply was lost: the AWS SDK sends it again.
ClaimUnheard(w) ==
    /\ Goto(w, "claim", "claim")
    /\ PutRecord(tok[w])
    /\ UNCHANGED <<now, inflight, minted, granted>>

\* The conditional check failed: 409, whoever wrote the record.
ClaimLost(w) ==
    /\ pc[w] = "claim"
    /\ table[tok[w]] # NoRecord
    /\ Reply(w, "replayed")
    /\ UNCHANGED <<now, table, inflight, history>>

\* Mutant: every failure of the write is taken for a replay.
MutClaimUnavailable(w) ==
    /\ pc[w] = "claim"
    /\ Reply(w, "replayed")
    /\ UNCHANGED <<now, table, inflight, history>>

\* Any other failure of the write: 503.
ClaimUnavailable(w) ==
    /\ pc[w] = "claim"
    /\ Reply(w, "unavailable")
    /\ UNCHANGED <<now, table, inflight, history>>

\* find_installation answered for every target, and agreed with the pinned id.
InstallationFound(w) ==
    /\ Goto(w, "find", "mint")
    /\ UNCHANGED <<now, table, inflight, history>>

\* Mutant: the POST is sent again when its answer does not come.
MutPostMint(w) ==
    /\ Goto(w, "mint", "answer") \/ Goto(w, "answer", "answer")
    /\ inflight' = inflight \cup {tok[w]}
    /\ UNCHANGED <<now, table, history>>

\* github::mint_installation_token sends its only POST.
PostMint(w) ==
    /\ Goto(w, "mint", "answer")
    /\ inflight' = inflight \cup {tok[w]}
    /\ UNCHANGED <<now, table, history>>

\* GitHub creates the token, whether or not the sender still waits for it.
GithubCreates(t) ==
    /\ t \in inflight
    /\ inflight' = inflight \ {t}
    /\ minted' = [minted EXCEPT ![t] = @ + 1]
    /\ UNCHANGED <<now, table, pc, tok, began, answer, claims, granted>>

\* GitHub refuses the POST, or never receives it.
GithubRefuses(t) ==
    /\ t \in inflight
    /\ inflight' = inflight \ {t}
    /\ UNCHANGED <<now, table, pc, tok, began, answer, history>>

\* 201 with the requested scope: the caller gets the token.
Grant(w) ==
    /\ pc[w] = "answer"
    /\ minted[tok[w]] > 0
    /\ Reply(w, "granted")
    /\ granted' = [granted EXCEPT ![tok[w]] = @ + 1]
    /\ UNCHANGED <<now, table, inflight, claims, minted>>

\* Every other error of every step, with the status error.rs gives it: no key, a
\* bad token, a denial of the policy, a failing GitHub, a reply with another scope.
Refuse(w) ==
    /\ pc[w] \notin {"idle", "claim"}
    /\ Reply(w, "refused")
    /\ UNCHANGED <<now, table, inflight, history>>

\* Lambda kills the invocation: a crash, or the timeout.  Nobody answers.
Abort(w) ==
    /\ pc[w] # "idle"
    /\ Reply(w, "none")
    /\ UNCHANGED <<now, table, inflight, history>>

\* DynamoDB deletes an expired record, now or much later.
Sweep(t) ==
    /\ table[t] # NoRecord
    /\ now > table[t]
    /\ table' = [table EXCEPT ![t] = NoRecord]
    /\ UNCHANGED <<now, pc, tok, began, answer, inflight, history>>

\* A second passes; no invocation outlives LAMBDA_TIMEOUT.
Tick ==
    /\ now < MAX_TIME
    /\ \A w \in Worker : pc[w] # "idle" => now < began[w] + LAMBDA_TIMEOUT
    /\ now' = now + 1
    /\ UNCHANGED <<table, pc, tok, began, answer, inflight, history>>

Invocation(w) ==
    \/ \E t \in Token : Receive(w, t)
    \/ KeyFound(w)
    \/ ClaimsVerified(w)
    \/ Authorized(w)
    \/ ClaimWon(w)
    \/ ClaimUnheard(w)
    \/ ClaimLost(w)
    \/ ClaimUnavailable(w)
    \/ InstallationFound(w)
    \/ PostMint(w)
    \/ Grant(w)
    \/ Refuse(w)
    \/ Abort(w)

Surroundings ==
    \/ \E t \in Token : GithubCreates(t) \/ GithubRefuses(t) \/ Sweep(t)
    \/ Tick

Next == (\E w \in Worker : Invocation(w)) \/ Surroundings

Spec == Init /\ [][Next]_vars

-------------------------------------------------------------------------------
\* Properties

\* The type of every variable of the exchange.
TypeOK ==
    /\ now \in Nat
    /\ table \in [Token -> Nat \cup {NoRecord}]
    /\ pc \in [Worker -> Steps]
    /\ tok \in [Worker -> Token]
    /\ began \in [Worker -> Nat]
    /\ answer \in [Worker -> Answers]
    /\ inflight \in SUBSET Token
    /\ claims \in [Token -> Nat]
    /\ minted \in [Token -> Nat]
    /\ granted \in [Token -> Nat]

\* One OIDC token buys at most one installation token, over all invocations,
\* replays, lost replies and sweeps of the table: what replay.rs is for.
TokenChain ==
    \A t \in Token :
        /\ granted[t] <= minted[t]
        /\ minted[t] <= claims[t]
        /\ claims[t] <= 1

\* When the table forgets a claim, the token is of no use any more: no invocation
\* that accepted it is still on its way to the table, and no clock accepts it
\* again.  This is what the ttl of exp + 5 + 60 must be long enough for.
SweepIsFinal ==
    \A t \in Token :
        claims[t] > 0 /\ table[t] = NoRecord =>
            /\ \A w \in Worker : tok[w] = t => pc[w] \notin Verified
            /\ \A local \in LocalClocks : ~InTime(t, local)

\* The latest second in which an invocation may still act on t.
LastUse(t) == Claims[t].exp + CLOCK_TOLERANCE_SECONDS + MAX_SKEW + LAMBDA_TIMEOUT

\* An installation token is never asked for long after its OIDC token expired,
\* though expiry is looked at once and the claim, the lookups and the POST come later.
MintWindow ==
    \A w \in Worker : pc[w] \in Owning => now <= LastUse(tok[w])

\* A caller is told 409 only of a token that was spent (perhaps by a write of its
\* own whose reply was lost), never of one that is still good.
ReplayAnswerIsHonest ==
    \A w \in Worker : answer[w] = "replayed" => claims[tok[w]] > 0

-------------------------------------------------------------------------------
\* The inductive invariant: why the properties above hold

\* An invocation lives for LAMBDA_TIMEOUT at most.
InvocationsAreShort ==
    \A w \in Worker : pc[w] # "idle" =>
        began[w] <= now /\ now <= began[w] + LAMBDA_TIMEOUT

\* What passed the time checks began before the token was too old for every clock.
VerifiedInTime ==
    \A w \in Worker : pc[w] \in Verified \cup Owning =>
        began[w] <= Claims[tok[w]].exp + CLOCK_TOLERANCE_SECONDS + MAX_SKEW

\* A record is a claim; a claim is a record, or its ttl has passed.
TableRemembers ==
    \A t \in Token :
        /\ table[t] # NoRecord => table[t] = Ttl(t) /\ claims[t] = 1
        /\ claims[t] > 0 => table[t] # NoRecord \/ now > Ttl(t)

\* The winner of a claim is alone with its token.
OneOwner ==
    /\ \A w \in Worker : pc[w] \in Owning => claims[tok[w]] = 1 /\ granted[tok[w]] = 0
    /\ \A v, w \in Worker :
         pc[v] \in Owning /\ pc[w] \in Owning /\ tok[v] = tok[w] => v = w

\* The POST is sent once, and GitHub creates at most one token for it.
OnePost ==
    /\ \A w \in Worker :
         pc[w] \in {"find", "mint"} => minted[tok[w]] = 0 /\ tok[w] \notin inflight
    /\ \A t \in inflight : claims[t] = 1 /\ minted[t] = 0 /\ granted[t] = 0

IInv ==
    /\ TypeOK
    /\ InvocationsAreShort
    /\ VerifiedInTime
    /\ TableRemembers
    /\ OneOwner
    /\ OnePost
    /\ TokenChain

-------------------------------------------------------------------------------
\* Refinement

AwaitsAnswer(t) == \E w \in Worker : pc[w] = "answer" /\ tok[w] = t

Stage(t) ==
    LET past == <<claims[t], minted[t], granted[t]>> IN
    CASE past = <<0, 0, 0>> -> "fresh"
      [] past = <<1, 0, 0>> -> "claimed"
      [] past = <<1, 1, 0>> -> IF AwaitsAnswer(t) THEN "claimed" ELSE "orphaned"
      [] past = <<1, 1, 1>> -> "granted"
      [] OTHER              -> "broken"

Promise == INSTANCE OncePerToken WITH stage <- [t \in Token |-> Stage(t)]

\* The exchange keeps the promise of OncePerToken.
OncePerTokenSpec == Promise!Spec
===============================================================================
