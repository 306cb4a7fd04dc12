---------------------------- MODULE ExchangeProofs ----------------------------
(***************************************************************************)
(* Proofs about Exchange, for any number of invocations and tokens, any    *)
(* claims and any values of the time constants the assumptions allow.      *)
(***************************************************************************)
EXTENDS Exchange, TLAPS

USE ConstantsAreNatural

\* Within the u64 range the millisecond arithmetic of the ttl is exact, so a
\* record lives for the tolerance and the margin beyond its token.
LEMMA TtlIsExact ==
    ASSUME NEW t \in Token
    PROVE  Ttl(t) = Claims[t].exp + CLOCK_TOLERANCE_SECONDS + REPLAY_MARGIN
<1> DEFINE e == Claims[t].exp
           c == CLOCK_TOLERANCE_SECONDS
<1>1. e \in Nat /\ c \in Nat /\ (e + c) * 1000 <= U64_MAX
  BY ClaimsAreTimes, ExpiryFitsU64
<1>2. SaturatingMul(e, 1000) = e * 1000 /\ SaturatingMul(c, 1000) = c * 1000
  BY <1>1 DEF SaturatingMul, Least
<1>3. e * 1000 + c * 1000 \in Nat /\ e * 1000 + c * 1000 < U64_MAX + 1
  BY <1>1
<1>4. (e * 1000 + c * 1000) % (U64_MAX + 1) = e * 1000 + c * 1000
  <2> DEFINE a == e * 1000 + c * 1000
  <2>1. ASSUME NEW m \in Nat, NEW n \in Nat, m < n
        PROVE  m % n = m
    BY <2>1
  <2> QED  BY <1>3, <2>1
<1>5. (e * 1000 + c * 1000) \div 1000 = e + c
  BY <1>1
<1> QED  BY <1>2, <1>4, <1>5 DEF Ttl, ExpiresAtMs

LEMMA TtlIsNat ==
    ASSUME NEW t \in Token
    PROVE  Ttl(t) \in Nat
  BY TtlIsExact, ClaimsAreTimes

-------------------------------------------------------------------------------
\* Type correctness

LEMMA TypingInit == Init => TypeOK
  BY DEF Init, TypeOK, Steps, Answers, NoRecord

LEMMA TypingNext == TypeOK /\ [Next]_vars => TypeOK'
<1> SUFFICES ASSUME TypeOK, [Next]_vars
             PROVE  TypeOK'
  OBVIOUS
<1> USE DEF TypeOK, Steps, Unverified, Verified, Owning, Answers, history
<1>1. ASSUME NEW w \in Worker, Invocation(w)
      PROVE  TypeOK'
  <2>1. ASSUME NEW t \in Token, Receive(w, t)  PROVE TypeOK'
    BY <2>1 DEF Receive
  <2>2. CASE KeyFound(w)
    BY <2>2 DEF KeyFound, Goto
  <2>3. CASE ClaimsVerified(w)
    BY <2>3 DEF ClaimsVerified, Goto
  <2>4. CASE Authorized(w)
    BY <2>4 DEF Authorized, Goto
  <2>5. CASE ClaimWon(w)
    <3>1. tok[w] \in Token /\ Ttl(tok[w]) \in Nat
      BY TtlIsNat
    <3> QED  BY <2>5, <3>1 DEF ClaimWon, Goto, PutRecord
  <2>6. CASE ClaimUnheard(w)
    <3>1. tok[w] \in Token /\ Ttl(tok[w]) \in Nat
      BY TtlIsNat
    <3> QED  BY <2>6, <3>1 DEF ClaimUnheard, Goto, PutRecord
  <2>7. CASE ClaimLost(w)
    BY <2>7 DEF ClaimLost, Reply
  <2>8. CASE ClaimUnavailable(w)
    BY <2>8 DEF ClaimUnavailable, Reply
  <2>9. CASE InstallationFound(w)
    BY <2>9 DEF InstallationFound, Goto
  <2>10. CASE PostMint(w)
    BY <2>10 DEF PostMint, Goto
  <2>11. CASE Grant(w)
    BY <2>11 DEF Grant, Reply
  <2>12. CASE Refuse(w)
    BY <2>12 DEF Refuse, Reply
  <2>13. CASE Abort(w)
    BY <2>13 DEF Abort, Reply
  <2> QED  BY <1>1, <2>1, <2>2, <2>3, <2>4, <2>5, <2>6, <2>7, <2>8, <2>9,
              <2>10, <2>11, <2>12, <2>13 DEF Invocation
<1>2. ASSUME NEW t \in Token, GithubCreates(t)  PROVE TypeOK'
  BY <1>2 DEF GithubCreates
<1>3. ASSUME NEW t \in Token, GithubRefuses(t)  PROVE TypeOK'
  BY <1>3 DEF GithubRefuses
<1>4. ASSUME NEW t \in Token, Sweep(t)  PROVE TypeOK'
  BY <1>4 DEF Sweep
<1>5. CASE Tick
  BY <1>5 DEF Tick
<1>6. CASE UNCHANGED vars
  BY <1>6 DEF vars
<1> QED  BY <1>1, <1>2, <1>3, <1>4, <1>5, <1>6 DEF Next, Surroundings

\* The variables keep their types, whatever the environments, the callers, GitHub
\* and the table do.
THEOREM TypeCorrect == Spec => []TypeOK
  BY TypingInit, TypingNext, PTL DEF Spec

-------------------------------------------------------------------------------
\* The inductive invariant

LEMMA IInvInit == Init => IInv
<1> SUFFICES ASSUME Init  PROVE IInv
  OBVIOUS
<1>1. TypeOK
  BY TypingInit
<1> QED
  BY <1>1 DEF Init, IInv, InvocationsAreShort, VerifiedInTime, TableRemembers, OneOwner,
              OnePost, TokenChain, Verified, Owning, NoRecord

\* The conjuncts of IInv beside TypeOK.
Core == InvocationsAreShort /\ VerifiedInTime /\ TableRemembers /\ OneOwner
            /\ OnePost /\ TokenChain

\* Ending an invocation disturbs nothing: the invariant only speaks of live ones.
LEMMA ReplyKeepsCore ==
    ASSUME IInv, TypeOK', NEW w \in Worker, NEW a, Reply(w, a),
           UNCHANGED <<now, table, inflight, history>>
    PROVE  Core'
<1> USE DEF IInv, TypeOK, Reply, history
<1>1. \A v \in Worker : pc'[v] # "idle" => pc'[v] = pc[v]
  OBVIOUS
<1>2. InvocationsAreShort' /\ VerifiedInTime'
  BY <1>1 DEF InvocationsAreShort, VerifiedInTime, Verified, Owning
<1>3. TableRemembers' /\ TokenChain'
  BY TtlIsNat DEF TableRemembers, TokenChain
<1>4. OneOwner' /\ OnePost'
  BY <1>1 DEF OneOwner, OnePost, Owning
<1> QED  BY <1>2, <1>3, <1>4 DEF Core

\* So does a step to a stage that asks for nothing new of its token.
LEMMA GotoKeepsCore ==
    ASSUME IInv, TypeOK', NEW w \in Worker, NEW from, NEW to, Goto(w, from, to),
           from # "idle",
           to \in Verified => from \in Verified \/ began[w] <= Claims[tok[w]].exp
                                              + CLOCK_TOLERANCE_SECONDS + MAX_SKEW,
           to \in Owning => from = "find" /\ to = "mint",
           UNCHANGED <<now, table, inflight, history>>
    PROVE  Core'
<1> USE DEF IInv, TypeOK, Goto, history
<1>1. InvocationsAreShort' /\ VerifiedInTime'
  BY DEF InvocationsAreShort, VerifiedInTime, Verified, Owning
<1>2. TableRemembers' /\ TokenChain'
  BY TtlIsNat DEF TableRemembers, TokenChain
<1>3. OneOwner' /\ OnePost'
  BY DEF OneOwner, OnePost, Owning
<1> QED  BY <1>1, <1>2, <1>3 DEF Core

\* A worker that reaches the table still has its token's record to come: were the
\* token claimed and its record swept, the invocation would be over.
LEMMA NoRecordMeansUnclaimed ==
    ASSUME IInv, NEW w \in Worker, pc[w] \in Verified, table[tok[w]] = NoRecord
    PROVE  claims[tok[w]] = 0
<1> DEFINE t == tok[w]
<1> USE DEF IInv, TypeOK
<1>1. t \in Token /\ Claims[t].exp \in Nat /\ claims[t] \in Nat
  BY ClaimsAreTimes
<1>2. now <= began[w] + LAMBDA_TIMEOUT
  BY DEF InvocationsAreShort, Verified
<1>3. began[w] <= Claims[t].exp + CLOCK_TOLERANCE_SECONDS + MAX_SKEW
  BY DEF VerifiedInTime, Verified
<1>4. now <= Ttl(t)
  BY <1>1, <1>2, <1>3, TtlIsExact, MarginCoversInvocation
<1>5. ~(now > Ttl(t))
  BY <1>1, <1>4, TtlIsNat
<1> QED  BY <1>1, <1>5 DEF TableRemembers

\* The first claim: the winner becomes the only owner, the unheard one owns nothing.
LEMMA ClaimKeepsCore ==
    ASSUME IInv, TypeOK', NEW w \in Worker, NEW to \in {"find", "claim"},
           Goto(w, "claim", to), PutRecord(tok[w]),
           UNCHANGED <<now, inflight, minted, granted>>
    PROVE  Core'
<1> DEFINE t == tok[w]
<1> USE DEF IInv, TypeOK, Goto, PutRecord
<1>1. t \in Token /\ Ttl(t) \in Nat /\ claims[t] = 0 /\ minted[t] = 0 /\ granted[t] = 0
  BY NoRecordMeansUnclaimed, TtlIsNat DEF Verified, TokenChain
<1>2. t \notin inflight /\ \A v \in Worker : pc[v] \in Owning => tok[v] # t
  BY <1>1 DEF OnePost, OneOwner
<1>3. InvocationsAreShort' /\ VerifiedInTime'
  BY DEF InvocationsAreShort, VerifiedInTime, Verified, Owning
<1>4. TableRemembers'
  BY <1>1, TtlIsNat DEF TableRemembers, NoRecord
<1>5. TokenChain'
  BY <1>1 DEF TokenChain
<1>6. OneOwner'
  BY <1>1, <1>2 DEF OneOwner, Owning
<1>7. OnePost'
  BY <1>1, <1>2 DEF OnePost, Owning
<1> QED  BY <1>3, <1>4, <1>5, <1>6, <1>7 DEF Core

LEMMA IInvNext == IInv /\ [Next]_vars => IInv'
<1> SUFFICES ASSUME IInv, [Next]_vars
             PROVE  IInv'
  OBVIOUS
<1>t. TypeOK /\ TypeOK'
  BY TypingNext DEF IInv
<1>1. ASSUME NEW w \in Worker, Invocation(w)
      PROVE  Core'
  <2>1. ASSUME NEW t \in Token, Receive(w, t)
        PROVE  Core'
    <3> USE <2>1, <1>t DEF Receive, IInv, TypeOK, history
    <3>1. InvocationsAreShort' /\ VerifiedInTime'
      BY DEF InvocationsAreShort, VerifiedInTime, Verified, Owning
    <3>2. TableRemembers' /\ TokenChain'
      BY TtlIsNat DEF TableRemembers, TokenChain
    <3>3. OneOwner' /\ OnePost'
      BY DEF OneOwner, OnePost, Owning
    <3> QED  BY <3>1, <3>2, <3>3 DEF Core
  <2>2. CASE KeyFound(w)
    BY <2>2, <1>t, GotoKeepsCore DEF KeyFound, Verified, Owning
  <2>3. CASE ClaimsVerified(w)
    <3>1. PICK local \in LocalClocks : InTime(tok[w], local)
      BY <2>3 DEF ClaimsVerified
    <3>2. tok[w] \in Token /\ Claims[tok[w]].exp \in Nat /\ now \in Nat /\ began[w] \in Nat
      BY <1>t, ClaimsAreTimes DEF TypeOK
    <3>3. began[w] <= now /\ now <= local + MAX_SKEW /\ local \in Int
      BY <2>3, <3>2 DEF IInv, InvocationsAreShort, ClaimsVerified, Goto, LocalClocks
    <3>4. began[w] <= Claims[tok[w]].exp + CLOCK_TOLERANCE_SECONDS + MAX_SKEW
      BY <3>1, <3>2, <3>3 DEF InTime
    <3> QED  BY <2>3, <3>4, <1>t, GotoKeepsCore DEF ClaimsVerified, Verified, Owning
  <2>4. CASE Authorized(w)
    BY <2>4, <1>t, GotoKeepsCore DEF Authorized, Verified, Owning
  <2>5. CASE ClaimWon(w)
    BY <2>5, <1>t, ClaimKeepsCore DEF ClaimWon
  <2>6. CASE ClaimUnheard(w)
    BY <2>6, <1>t, ClaimKeepsCore DEF ClaimUnheard
  <2>7. CASE ClaimLost(w)
    BY <2>7, <1>t, ReplyKeepsCore DEF ClaimLost
  <2>8. CASE ClaimUnavailable(w)
    BY <2>8, <1>t, ReplyKeepsCore DEF ClaimUnavailable
  <2>9. CASE InstallationFound(w)
    BY <2>9, <1>t, GotoKeepsCore DEF InstallationFound, Verified, Owning
  <2>10. CASE PostMint(w)
    <3> USE <2>10, <1>t DEF PostMint, Goto, IInv, TypeOK, history
    <3>1. tok[w] \in Token /\ claims[tok[w]] = 1 /\ minted[tok[w]] = 0 /\ granted[tok[w]] = 0
      BY DEF OneOwner, OnePost, Owning
    <3>2. InvocationsAreShort' /\ VerifiedInTime'
      BY DEF InvocationsAreShort, VerifiedInTime, Verified, Owning
    <3>3. TableRemembers' /\ TokenChain'
      BY TtlIsNat DEF TableRemembers, TokenChain
    <3>4. OneOwner' /\ OnePost'
      BY <3>1 DEF OneOwner, OnePost, Owning
    <3> QED  BY <3>2, <3>3, <3>4 DEF Core
  <2>11. CASE Grant(w)
    <3> USE <2>11, <1>t DEF Grant, Reply, IInv, TypeOK, history
    <3>1. /\ tok[w] \in Token /\ claims[tok[w]] = 1 /\ granted[tok[w]] = 0
          /\ minted[tok[w]] = 1 /\ tok[w] \notin inflight
      BY DEF OneOwner, OnePost, Owning, TokenChain
    <3>2. InvocationsAreShort' /\ VerifiedInTime'
      BY DEF InvocationsAreShort, VerifiedInTime, Verified, Owning
    <3>3. TableRemembers' /\ TokenChain'
      BY <3>1, TtlIsNat DEF TableRemembers, TokenChain
    <3>4. OneOwner' /\ OnePost'
      BY <3>1 DEF OneOwner, OnePost, Owning
    <3> QED  BY <3>2, <3>3, <3>4 DEF Core
  <2>12. CASE Refuse(w)
    BY <2>12, <1>t, ReplyKeepsCore DEF Refuse
  <2>13. CASE Abort(w)
    BY <2>13, <1>t, ReplyKeepsCore DEF Abort
  <2> QED  BY <1>1, <2>1, <2>2, <2>3, <2>4, <2>5, <2>6, <2>7, <2>8, <2>9,
              <2>10, <2>11, <2>12, <2>13 DEF Invocation
<1>2. ASSUME NEW t \in Token, GithubCreates(t)
      PROVE  Core'
  <2> USE <1>2, <1>t DEF GithubCreates, IInv, TypeOK
  <2>1. claims[t] = 1 /\ minted[t] = 0 /\ granted[t] = 0
    BY DEF OnePost
  <2>2. \A w \in Worker : pc[w] \in {"find", "mint"} => tok[w] # t
    BY DEF OnePost
  <2>3. InvocationsAreShort' /\ VerifiedInTime'
    BY DEF InvocationsAreShort, VerifiedInTime
  <2>4. TableRemembers' /\ TokenChain' /\ OneOwner'
    BY <2>1, TtlIsNat DEF TableRemembers, TokenChain, OneOwner
  <2>5. OnePost'
    BY <2>1, <2>2 DEF OnePost
  <2> QED  BY <2>3, <2>4, <2>5 DEF Core
<1>3. ASSUME NEW t \in Token, GithubRefuses(t)
      PROVE  Core'
  <2> USE <1>3, <1>t DEF GithubRefuses, IInv, TypeOK, history
  <2>1. InvocationsAreShort' /\ VerifiedInTime' /\ TableRemembers' /\ TokenChain'
    BY TtlIsNat DEF InvocationsAreShort, VerifiedInTime, TableRemembers, TokenChain
  <2>2. OneOwner' /\ OnePost'
    BY DEF OneOwner, OnePost
  <2> QED  BY <2>1, <2>2 DEF Core
<1>4. ASSUME NEW t \in Token, Sweep(t)
      PROVE  Core'
  <2> USE <1>4, <1>t DEF Sweep, IInv, TypeOK, history
  <2>1. InvocationsAreShort' /\ VerifiedInTime' /\ OneOwner' /\ OnePost' /\ TokenChain'
    BY DEF InvocationsAreShort, VerifiedInTime, OneOwner, OnePost, TokenChain
  <2>2. TableRemembers'
    BY TtlIsNat DEF TableRemembers, NoRecord
  <2> QED  BY <2>1, <2>2 DEF Core
<1>5. ASSUME Tick
      PROVE  Core'
  <2> USE <1>5, <1>t DEF Tick, IInv, TypeOK, history
  <2>1. InvocationsAreShort'
    BY DEF InvocationsAreShort
  <2>2. VerifiedInTime' /\ OneOwner' /\ OnePost' /\ TokenChain'
    BY DEF VerifiedInTime, OneOwner, OnePost, TokenChain
  <2>3. TableRemembers'
    BY TtlIsNat DEF TableRemembers
  <2> QED  BY <2>1, <2>2, <2>3 DEF Core
<1>6. ASSUME UNCHANGED vars
      PROVE  Core'
  <2> USE <1>6 DEF vars, IInv
  <2>1. InvocationsAreShort' /\ VerifiedInTime' /\ TableRemembers'
    BY DEF InvocationsAreShort, VerifiedInTime, TableRemembers
  <2>2. OneOwner' /\ OnePost' /\ TokenChain'
    BY DEF OneOwner, OnePost, TokenChain
  <2> QED  BY <2>1, <2>2 DEF Core
<1>7. Core'
  BY <1>1, <1>2, <1>3, <1>4, <1>5, <1>6 DEF Next, Surroundings
<1> QED  BY <1>7, <1>t DEF IInv, Core

THEOREM IInvHolds == Spec => []IInv
  BY IInvInit, IInvNext, PTL DEF Spec

-------------------------------------------------------------------------------
\* What the invariant gives

\* One OIDC token buys at most one installation token: the claim of replay.rs,
\* for any number of invocations, replays and lost replies.
THEOREM AtMostOnce == Spec => []TokenChain
<1>1. IInv => TokenChain
  BY DEF IInv
<1> QED  BY <1>1, IInvHolds, PTL

LEMMA IInvForgets == IInv => SweepIsFinal
<1> SUFFICES ASSUME IInv, NEW t \in Token, claims[t] > 0, table[t] = NoRecord
             PROVE  /\ \A w \in Worker : tok[w] = t => pc[w] \notin Verified
                    /\ \A local \in LocalClocks : ~InTime(t, local)
  BY DEF SweepIsFinal
<1>1. now \in Nat /\ Claims[t].exp \in Nat /\ claims[t] \in Nat
  BY ClaimsAreTimes DEF IInv, TypeOK
<1>2. now > Claims[t].exp + CLOCK_TOLERANCE_SECONDS + REPLAY_MARGIN
  BY TtlIsExact DEF IInv, TableRemembers
<1>3. \A w \in Worker : tok[w] = t => pc[w] \notin Verified
  BY NoRecordMeansUnclaimed, <1>1
<1>4. ASSUME NEW local \in LocalClocks
      PROVE  ~InTime(t, local)
  <2>1. local \in Int /\ now <= local + MAX_SKEW
    BY <1>1 DEF LocalClocks
  <2>2. ~(Claims[t].exp >= local - CLOCK_TOLERANCE_SECONDS)
    BY <1>1, <1>2, <2>1, MarginCoversInvocation
  <2> QED  BY <2>2 DEF InTime
<1> QED  BY <1>3, <1>4

\* The ttl is long enough: a swept token is useless to every invocation under way
\* and to every clock within the skew.
THEOREM SweepingIsSafe == Spec => []SweepIsFinal
  BY IInvHolds, IInvForgets, PTL

LEMMA IInvWindow == IInv => MintWindow
<1> SUFFICES ASSUME IInv, NEW w \in Worker, pc[w] \in Owning
             PROVE  now <= LastUse(tok[w])
  BY DEF MintWindow
<1>1. now \in Nat /\ began[w] \in Nat /\ Claims[tok[w]].exp \in Nat
  BY ClaimsAreTimes DEF IInv, TypeOK
<1>2. now <= began[w] + LAMBDA_TIMEOUT
  BY DEF IInv, InvocationsAreShort, Owning
<1>3. began[w] <= Claims[tok[w]].exp + CLOCK_TOLERANCE_SECONDS + MAX_SKEW
  BY DEF IInv, VerifiedInTime
<1> QED  BY <1>1, <1>2, <1>3 DEF LastUse

\* No installation token is asked for later than the timeout, the tolerance and the
\* skew after its OIDC token expired.
THEOREM MintsInWindow == Spec => []MintWindow
  BY IInvHolds, IInvWindow, PTL

LEMMA ClaimsAreKept == TypeOK /\ [Next]_vars => \A t \in Token : claims'[t] >= claims[t]
<1> SUFFICES ASSUME TypeOK, [Next]_vars, NEW t \in Token
             PROVE  claims'[t] >= claims[t]
  OBVIOUS
<1> USE DEF TypeOK, history
<1>1. CASE claims' = claims
  BY <1>1
<1>2. ASSUME NEW w \in Worker, PutRecord(tok[w])
      PROVE  claims'[t] >= claims[t]
  BY <1>2 DEF PutRecord
<1>3. claims' = claims \/ \E w \in Worker : PutRecord(tok[w])
  <2>1. ASSUME NEW w \in Worker, Invocation(w)
        PROVE  claims' = claims \/ PutRecord(tok[w])
    BY <2>1 DEF Invocation, Receive, KeyFound, ClaimsVerified, Authorized, ClaimWon,
                ClaimUnheard, ClaimLost, ClaimUnavailable, InstallationFound, PostMint,
                Grant, Refuse, Abort
  <2>2. Surroundings => claims' = claims
    BY DEF Surroundings, GithubCreates, GithubRefuses, Sweep, Tick
  <2> QED  BY <2>1, <2>2 DEF Next, vars
<1> QED  BY <1>1, <1>2, <1>3

LEMMA HonestNext == IInv /\ ReplayAnswerIsHonest /\ [Next]_vars => ReplayAnswerIsHonest'
<1> SUFFICES ASSUME IInv, ReplayAnswerIsHonest, [Next]_vars, NEW v \in Worker,
                    answer'[v] = "replayed"
             PROVE  claims'[tok'[v]] > 0
  BY DEF ReplayAnswerIsHonest
<1>t. TypeOK /\ TypeOK' /\ \A t \in Token : claims'[t] >= claims[t]
  BY TypingNext, ClaimsAreKept DEF IInv
<1> USE DEF TypeOK
<1>1. ASSUME answer'[v] = answer[v], tok'[v] = tok[v]
      PROVE  claims'[tok'[v]] > 0
  BY <1>1, <1>t DEF ReplayAnswerIsHonest
<1>2. ASSUME ClaimLost(v)
      PROVE  claims'[tok'[v]] > 0
  BY <1>2, <1>t DEF ClaimLost, Reply, IInv, TableRemembers, history
<1>3. ClaimLost(v) \/ (answer'[v] = answer[v] /\ tok'[v] = tok[v])
  <2>1. ASSUME NEW w \in Worker, Invocation(w)
        PROVE  ClaimLost(v) \/ (answer'[v] = answer[v] /\ tok'[v] = tok[v])
    <3>1. ASSUME NEW t \in Token, Receive(w, t)
          PROVE  answer'[v] = answer[v] /\ tok'[v] = tok[v]
      BY <3>1, <1>t DEF Receive
    <3>2. ASSUME KeyFound(w) \/ ClaimsVerified(w) \/ Authorized(w) \/ ClaimWon(w)
                   \/ ClaimUnheard(w) \/ InstallationFound(w) \/ PostMint(w)
          PROVE  answer'[v] = answer[v] /\ tok'[v] = tok[v]
      BY <3>2 DEF KeyFound, ClaimsVerified, Authorized, ClaimWon, ClaimUnheard,
                  InstallationFound, PostMint, Goto
    <3>3. ASSUME ClaimLost(w)
          PROVE  ClaimLost(v) \/ (answer'[v] = answer[v] /\ tok'[v] = tok[v])
      BY <3>3, <1>t DEF ClaimLost, Reply
    <3>4. ASSUME ClaimUnavailable(w) \/ Grant(w) \/ Refuse(w) \/ Abort(w)
          PROVE  answer'[v] = answer[v] /\ tok'[v] = tok[v]
      BY <3>4, <1>t DEF ClaimUnavailable, Grant, Refuse, Abort, Reply
    <3> QED  BY <2>1, <3>1, <3>2, <3>3, <3>4 DEF Invocation
  <2>2. Surroundings => answer' = answer /\ tok' = tok
    BY DEF Surroundings, GithubCreates, GithubRefuses, Sweep, Tick
  <2> QED  BY <2>1, <2>2 DEF Next, vars
<1> QED  BY <1>1, <1>2, <1>3

\* A 409 never lies: the token was spent.
THEOREM ReplaysAreHonest == Spec => []ReplayAnswerIsHonest
<1>1. Init => ReplayAnswerIsHonest
  BY DEF Init, ReplayAnswerIsHonest
<1> QED  BY <1>1, HonestNext, IInvHolds, PTL DEF Spec

-------------------------------------------------------------------------------
\* Refinement: Exchange implements OncePerToken

\* Stage, case by case.
StageTable ==
    \A t \in Token :
        /\ claims[t] = 0 => Stage(t) = "fresh"
        /\ claims[t] = 1 /\ minted[t] = 0 => Stage(t) = "claimed"
        /\ minted[t] = 1 /\ granted[t] = 0 /\ AwaitsAnswer(t) => Stage(t) = "claimed"
        /\ minted[t] = 1 /\ granted[t] = 0 /\ ~AwaitsAnswer(t) => Stage(t) = "orphaned"
        /\ granted[t] = 1 => Stage(t) = "granted"

LEMMA StageCases == IInv => StageTable
<1> SUFFICES ASSUME IInv, NEW t \in Token
             PROVE  /\ claims[t] = 0 => Stage(t) = "fresh"
                    /\ claims[t] = 1 /\ minted[t] = 0 => Stage(t) = "claimed"
                    /\ minted[t] = 1 /\ granted[t] = 0 /\ AwaitsAnswer(t)
                         => Stage(t) = "claimed"
                    /\ minted[t] = 1 /\ granted[t] = 0 /\ ~AwaitsAnswer(t)
                         => Stage(t) = "orphaned"
                    /\ granted[t] = 1 => Stage(t) = "granted"
  BY DEF StageTable
<1>1. \/ claims[t] = 0 /\ minted[t] = 0 /\ granted[t] = 0
      \/ claims[t] = 1 /\ minted[t] = 0 /\ granted[t] = 0
      \/ claims[t] = 1 /\ minted[t] = 1 /\ granted[t] = 0
      \/ claims[t] = 1 /\ minted[t] = 1 /\ granted[t] = 1
  BY DEF IInv, TypeOK, TokenChain
<1> QED  BY <1>1 DEF Stage

\* A token with the same history and the same waiting keeps its stage.
LEMMA SameStage ==
    ASSUME NEW t \in Token, claims'[t] = claims[t], minted'[t] = minted[t],
           granted'[t] = granted[t], AwaitsAnswer(t)' <=> AwaitsAnswer(t)
    PROVE  Stage(t)' = Stage(t)
  BY DEF Stage

\* A step that moves one token moves the whole mapping.
LEMMA OneAdvance ==
    ASSUME NEW t \in Token, NEW from, NEW to, Stage(t) = from, Stage(t)' = to,
           \A u \in Token \ {t} : Stage(u)' = Stage(u)
    PROVE  Promise!Advance(t, from, to)
  BY DEF Promise!Advance

LEMMA AllSame ==
    ASSUME \A t \in Token : Stage(t)' = Stage(t)
    PROVE  UNCHANGED [t \in Token |-> Stage(t)]
  OBVIOUS

\* What a step of Exchange is in OncePerToken.
Mapped == Promise!Next \/ \A t \in Token : Stage(t)' = Stage(t)

\* Steps of an invocation that waits for no answer, before and after, move nothing
\* unless they claim.
LEMMA QuietStep ==
    ASSUME TypeOK, NEW w \in Worker, pc[w] # "answer", pc'[w] # "answer",
           \A v \in Worker \ {w} : pc'[v] = pc[v] /\ tok'[v] = tok[v],
           UNCHANGED history
    PROVE  Mapped
<1>1. ASSUME NEW t \in Token
      PROVE  AwaitsAnswer(t)' <=> AwaitsAnswer(t)
  BY DEF AwaitsAnswer
<1> QED  BY <1>1, SameStage DEF Mapped, history

LEMMA ClaimIsClaim ==
    ASSUME IInv, IInv', StageTable, StageTable', NEW w \in Worker,
           NEW to \in {"find", "claim"}, Goto(w, "claim", to), PutRecord(tok[w]),
           UNCHANGED <<now, inflight, minted, granted>>
    PROVE  Mapped
<1> DEFINE t == tok[w]
<1> USE DEF IInv, TypeOK, Goto, PutRecord
<1>1. t \in Token /\ claims[t] = 0 /\ minted[t] = 0
  BY NoRecordMeansUnclaimed DEF Verified, TokenChain
<1>2. Stage(t) = "fresh" /\ Stage(t)' = "claimed"
  BY <1>1 DEF StageTable
<1>3. ASSUME NEW u \in Token \ {t}
      PROVE  Stage(u)' = Stage(u)
  <2>1. AwaitsAnswer(u)' <=> AwaitsAnswer(u)
    BY DEF AwaitsAnswer
  <2> QED  BY <2>1, SameStage
<1>4. Promise!Claim(t)
  BY <1>1, <1>2, <1>3, OneAdvance DEF Promise!Claim
<1> QED  BY <1>1, <1>4 DEF Mapped, Promise!Next

\* An invocation that stops waiting without granting leaves an orphan behind, if
\* GitHub has already created the token.
LEMMA GivingUpOrphans ==
    ASSUME IInv, IInv', StageTable, StageTable', NEW w \in Worker, NEW a,
           pc[w] = "answer", Reply(w, a), UNCHANGED <<inflight, history>>
    PROVE  Mapped
<1> DEFINE t == tok[w]
<1> USE DEF IInv, TypeOK, Reply, history
<1>1. t \in Token /\ claims[t] = 1 /\ granted[t] = 0 /\ minted[t] \in {0, 1}
  BY DEF OneOwner, Owning, TokenChain
<1>2. AwaitsAnswer(t) /\ ~AwaitsAnswer(t)'
  BY DEF AwaitsAnswer, OneOwner, Owning
<1>3. ASSUME NEW u \in Token \ {t}
      PROVE  Stage(u)' = Stage(u)
  <2>1. AwaitsAnswer(u)' <=> AwaitsAnswer(u)
    BY DEF AwaitsAnswer
  <2> QED  BY <2>1, SameStage
<1>4. CASE minted[t] = 0
  BY <1>1, <1>3, <1>4 DEF StageTable, Mapped
<1>5. CASE minted[t] = 1
  <2>1. Stage(t) = "claimed" /\ Stage(t)' = "orphaned"
    BY <1>1, <1>2, <1>5 DEF StageTable
  <2>2. Promise!Orphan(t)
    BY <1>1, <1>3, <2>1, OneAdvance DEF Promise!Orphan
  <2> QED  BY <1>1, <2>2 DEF Mapped, Promise!Next
<1> QED  BY <1>1, <1>4, <1>5

LEMMA InvocationIsMapped ==
    ASSUME IInv, IInv', StageTable, StageTable', NEW w \in Worker, Invocation(w)
    PROVE  Mapped
<1>t. TypeOK
  BY DEF IInv
<1>1. ASSUME NEW t \in Token, Receive(w, t)  PROVE Mapped
  BY <1>1, <1>t, QuietStep DEF Receive, TypeOK
<1>2. CASE KeyFound(w)
  BY <1>2, <1>t, QuietStep DEF KeyFound, Goto, TypeOK
<1>3. CASE ClaimsVerified(w)
  BY <1>3, <1>t, QuietStep DEF ClaimsVerified, Goto, TypeOK
<1>4. CASE Authorized(w)
  BY <1>4, <1>t, QuietStep DEF Authorized, Goto, TypeOK
<1>5. CASE ClaimWon(w)
  BY <1>5, ClaimIsClaim DEF ClaimWon
<1>6. CASE ClaimUnheard(w)
  BY <1>6, ClaimIsClaim DEF ClaimUnheard
<1>7. CASE ClaimLost(w)
  BY <1>7, <1>t, QuietStep DEF ClaimLost, Reply, TypeOK
<1>8. CASE ClaimUnavailable(w)
  BY <1>8, <1>t, QuietStep DEF ClaimUnavailable, Reply, TypeOK
<1>9. CASE InstallationFound(w)
  BY <1>9, <1>t, QuietStep DEF InstallationFound, Goto, TypeOK
<1>10. CASE PostMint(w)
  <2> USE <1>10 DEF PostMint, Goto, IInv, TypeOK, history
  <2>1. tok[w] \in Token /\ claims[tok[w]] = 1 /\ minted[tok[w]] = 0
    BY DEF OneOwner, OnePost, Owning
  <2>2. ASSUME NEW u \in Token \ {tok[w]}
        PROVE  Stage(u)' = Stage(u)
    <3>1. AwaitsAnswer(u)' <=> AwaitsAnswer(u)
      BY DEF AwaitsAnswer
    <3> QED  BY <3>1, SameStage
  <2> QED  BY <2>1, <2>2 DEF Mapped, StageTable
<1>11. CASE Grant(w)
  <2> USE <1>11 DEF Grant, Reply, IInv, TypeOK
  <2>1. /\ tok[w] \in Token /\ claims[tok[w]] = 1 /\ granted[tok[w]] = 0
        /\ minted[tok[w]] = 1 /\ AwaitsAnswer(tok[w])
    BY DEF OneOwner, Owning, TokenChain, AwaitsAnswer
  <2>2. Stage(tok[w]) = "claimed" /\ Stage(tok[w])' = "granted"
    BY <2>1 DEF StageTable
  <2>3. ASSUME NEW u \in Token \ {tok[w]}
        PROVE  Stage(u)' = Stage(u)
    <3>1. AwaitsAnswer(u)' <=> AwaitsAnswer(u)
      BY DEF AwaitsAnswer
    <3> QED  BY <3>1, SameStage
  <2>4. Promise!Grant(tok[w])
    BY <2>1, <2>2, <2>3, OneAdvance DEF Promise!Grant
  <2> QED  BY <2>1, <2>4 DEF Mapped, Promise!Next
<1>12. CASE Refuse(w)
  BY <1>12, <1>t, QuietStep, GivingUpOrphans DEF Refuse, Reply, TypeOK
<1>13. CASE Abort(w)
  BY <1>13, <1>t, QuietStep, GivingUpOrphans DEF Abort, Reply, TypeOK
<1> QED  BY <1>1, <1>2, <1>3, <1>4, <1>5, <1>6, <1>7, <1>8, <1>9,
            <1>10, <1>11, <1>12, <1>13 DEF Invocation

LEMMA SurroundingsAreMapped ==
    ASSUME IInv, IInv', StageTable, StageTable', Surroundings
    PROVE  Mapped
<1>1. ASSUME NEW t \in Token, GithubCreates(t)
      PROVE  Mapped
  <2> USE <1>1 DEF GithubCreates, IInv, TypeOK
  <2>1. claims[t] = 1 /\ minted[t] = 0 /\ granted[t] = 0
    BY DEF OnePost
  <2>2. AwaitsAnswer(t)' <=> AwaitsAnswer(t)
    BY DEF AwaitsAnswer
  <2>3. ASSUME NEW u \in Token \ {t}
        PROVE  Stage(u)' = Stage(u)
    <3>1. AwaitsAnswer(u)' <=> AwaitsAnswer(u)
      BY DEF AwaitsAnswer
    <3> QED  BY <3>1, SameStage
  <2>4. CASE AwaitsAnswer(t)
    BY <2>1, <2>2, <2>3, <2>4 DEF StageTable, Mapped
  <2>5. CASE ~AwaitsAnswer(t)
    <3>1. Stage(t) = "claimed" /\ Stage(t)' = "orphaned"
      BY <2>1, <2>2, <2>5 DEF StageTable
    <3>2. Promise!Orphan(t)
      BY <2>3, <3>1, OneAdvance DEF Promise!Orphan
    <3> QED  BY <3>2 DEF Mapped, Promise!Next
  <2> QED  BY <2>4, <2>5
<1>2. ASSUME UNCHANGED <<pc, tok, history>>
      PROVE  Mapped
  <2>1. ASSUME NEW t \in Token
        PROVE  AwaitsAnswer(t)' <=> AwaitsAnswer(t)
    BY <1>2 DEF AwaitsAnswer
  <2> QED  BY <1>2, <2>1, SameStage DEF Mapped, history
<1>3. ASSUME NEW t \in Token, GithubRefuses(t) \/ Sweep(t)
      PROVE  UNCHANGED <<pc, tok, history>>
  BY <1>3 DEF GithubRefuses, Sweep
<1>4. Tick => UNCHANGED <<pc, tok, history>>
  BY DEF Tick
<1> QED  BY <1>1, <1>2, <1>3, <1>4 DEF Surroundings

LEMMA RefinesInit == Init => Promise!Init
  BY DEF Init, Promise!Init, Stage

LEMMA RefinesNext ==
    IInv /\ IInv' /\ StageTable /\ StageTable' /\ [Next]_vars
        => [Promise!Next]_[t \in Token |-> Stage(t)]
<1> SUFFICES ASSUME IInv, IInv', StageTable, StageTable', [Next]_vars
             PROVE  Mapped
  BY AllSame DEF Mapped
<1>1. ASSUME UNCHANGED vars
      PROVE  Mapped
  <2>1. ASSUME NEW t \in Token
        PROVE  AwaitsAnswer(t)' <=> AwaitsAnswer(t)
    BY <1>1 DEF AwaitsAnswer, vars
  <2> QED  BY <1>1, <2>1, SameStage DEF Mapped, vars
<1> QED  BY <1>1, InvocationIsMapped, SurroundingsAreMapped DEF Next

\* Concurrent invocations, lost replies, replays, orphans and a forgetful table
\* together still spend every OIDC token at most once, and never take it back.
THEOREM ImplementsOncePerToken == Spec => OncePerTokenSpec
<1>1. Spec => Promise!Init /\ [][Promise!Next]_[t \in Token |-> Stage(t)]
  BY RefinesInit, RefinesNext, StageCases, IInvHolds, PTL DEF Spec
<1> QED  BY <1>1, PTL DEF OncePerTokenSpec, Promise!Spec
===============================================================================
