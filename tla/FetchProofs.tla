------------------------------ MODULE FetchProofs ------------------------------
(***************************************************************************)
(* Proofs about PolicyFetch, for any files, refusals and limits, and for   *)
(* answers that come at any time or never.                                 *)
(***************************************************************************)
EXTENDS PolicyFetch, TLAPS

-------------------------------------------------------------------------------
\* What the operators compute

\* An answer of a kind has the fields of that kind.
LEMMA AnswerFields ==
    ASSUME NEW w \in Answers
    PROVE  /\ w.kind = "file" => w.version \in Version
           /\ w.kind = "refused" => w.refusal \in Refusals
  BY DEF Answers, Nothing, Created, Gone, File, Refused

LEMMA KindsOfAnswers ==
    /\ Nothing.kind = "nothing" /\ Created.kind = "created" /\ Gone.kind = "gone"
    /\ \A v, length : File(v, length).kind = "file" /\ File(v, length).version = v
    /\ \A r, readable : Refused(r, readable).kind = "refused" /\ Refused(r, readable).refusal = r
    /\ {Nothing, Created, Gone} \subseteq Answers
    /\ \A v \in Version : {File(v, None), File(v, Size[v])} \subseteq Answers
    /\ \A r \in Refusals, readable \in BOOLEAN : Refused(r, readable) \in Answers
<1>1. /\ Nothing.kind = "nothing" /\ Created.kind = "created" /\ Gone.kind = "gone"
      /\ {Nothing, Created, Gone} \subseteq Answers
  BY DEF Answers, Nothing, Created, Gone
<1>2. /\ \A v, length : File(v, length).kind = "file" /\ File(v, length).version = v
      /\ \A r, readable : Refused(r, readable).kind = "refused" /\ Refused(r, readable).refusal = r
  BY DEF File, Refused
<1>3. \A v \in Version : {File(v, None), File(v, Size[v])} \subseteq Answers
  BY DEF Answers
<1>4. \A r \in Refusals, readable \in BOOLEAN : Refused(r, readable) \in Answers
  BY DEF Answers
<1> QED  BY <1>1, <1>2, <1>3, <1>4

\* github_rate_limit waits a second at least and the maximum at most, and for what
\* Retry-After or the reset ask in between.
LEMMA WaitsAreBounded ==
    ASSUME NEW r \in Refusals, NEW local \in Int
    PROVE  /\ WaitFor(r, local) \in 1..MAX_RATE_LIMIT_BACKOFF
           /\ r.retry_after # None =>
                WaitFor(r, local) >= Least(r.retry_after, MAX_RATE_LIMIT_BACKOFF)
           /\ r.retry_after = None /\ r.remaining = 0 /\ r.reset # None =>
                WaitFor(r, local) >= Least(r.reset - local, MAX_RATE_LIMIT_BACKOFF)
           /\ r.retry_after # None => WaitFor(r, local) <= Greatest(1, r.retry_after)
           /\ r.retry_after = None /\ r.remaining = 0 /\ r.reset # None =>
                WaitFor(r, local) <= Greatest(1, r.reset - local)
           /\ r.retry_after = None /\ (r.remaining # 0 \/ r.reset = None) =>
                WaitFor(r, local) = DEFAULT_RATE_LIMIT_BACKOFF
<1>1. /\ r.retry_after \in Nat \cup {None} /\ r.reset \in Nat \cup {None}
      /\ DEFAULT_RATE_LIMIT_BACKOFF \in Nat /\ MAX_RATE_LIMIT_BACKOFF \in Nat \ {0}
      /\ 1 <= DEFAULT_RATE_LIMIT_BACKOFF
      /\ DEFAULT_RATE_LIMIT_BACKOFF <= MAX_RATE_LIMIT_BACKOFF
  BY FetchConstants DEF Refusal
<1>2. CASE r.retry_after # None
  BY <1>1, <1>2 DEF WaitFor, Least, Greatest
<1>3. CASE r.retry_after = None /\ r.remaining = 0 /\ r.reset # None
  BY <1>1, <1>3 DEF WaitFor, Least, Greatest
<1>4. CASE r.retry_after = None /\ ~(r.remaining = 0 /\ r.reset # None)
  BY <1>1, <1>4 DEF WaitFor, Least, Greatest
<1> QED  BY <1>2, <1>3, <1>4

\* The time until which a refusal asks to wait is in its headers.
LEMMA WhatRefusalsAsk ==
    ASSUME NEW r \in Refusals
    PROVE  /\ r.retry_after # None => AsksUntil(r) = now + r.retry_after
           /\ r.retry_after = None =>
                AsksUntil(r) = IF r.remaining = 0 THEN r.reset ELSE None
<1>1. CASE r.retry_after # None
  BY <1>1 DEF AsksUntil
<1>2. CASE r.retry_after = None /\ r.remaining = 0
  BY <1>2 DEF AsksUntil
<1>3. CASE r.retry_after = None /\ r.remaining # 0
  BY <1>3 DEF AsksUntil
<1> QED  BY <1>1, <1>2, <1>3

\* What a refusal comes to is a failure or a wait, never a file.
LEMMA VerdictsOfRefusals ==
    ASSUME NEW r, NEW readable, NEW code, NEW v \in Verdicts(r, readable, code)
    PROVE  /\ v.version = None
           /\ \/ v.kind = "failed" /\ v.after = 0
              \/ v.kind = "limited" /\ \E local \in LocalClocks : v.after = WaitFor(r, local)
  BY DEF Verdicts, Failed, Limited

-------------------------------------------------------------------------------
\* The invariant, one part after the other

LEMMA FetchInvInit == Init => FetchInv
<1> SUFFICES ASSUME Init  PROVE FetchInv
  OBVIOUS
<1> USE FetchConstants DEF Init
<1>1. TypeOK
  BY KindsOfAnswers DEF TypeOK, NoReply
<1>2. RequestsAreTimed
  BY DEF RequestsAreTimed, LoadIsShort, Waiting
<1>3. TokenIsKnown
  BY KindsOfAnswers DEF TokenIsKnown
<1>4. ReadingIsHosted
  BY KindsOfAnswers DEF ReadingIsHosted, LoadedIsTheFile, NoReply
<1>5. UntilIsTold
  BY KindsOfAnswers DEF UntilIsTold, LimitIsWaitedOut, NoReply
<1> QED  BY <1>1, <1>2, <1>3, <1>4, <1>5 DEF FetchInv

\* The requests follow one another, and none takes longer than its timeout.
LEMMA RequestsAreTimedStep ==
    TypeOK /\ RequestsAreTimed /\ [Next]_vars => RequestsAreTimed'
<1> SUFFICES ASSUME TypeOK, RequestsAreTimed, [Next]_vars  PROVE RequestsAreTimed'
  OBVIOUS
<1> USE FetchConstants DEF TypeOK, RequestsAreTimed, LoadIsShort, Waiting
<1>1. CASE Tick
  BY <1>1 DEF Tick, process
<1>2. CASE Sign \/ MintAnswered \/ MintRefused \/ MintFails
  BY <1>2 DEF Sign, MintAnswered, MintRefused, MintFails, Send, Return, Revoke
<1>3. CASE FetchAnswered \/ FetchRefused \/ FetchFails \/ ReadEnds
  BY <1>3 DEF FetchAnswered, FetchRefused, FetchFails, ReadEnds, Send, Revoke
<1>4. ASSUME NEW n \in 1..(MAX_POLICY_BYTES + 1), ReadChunk(n)  PROVE RequestsAreTimed'
  BY <1>4 DEF ReadChunk, Send, Revoke
<1>5. CASE Revoked \/ RevokeFails \/ Killed
  BY <1>5 DEF Revoked, RevokeFails, Killed, Return
<1>6. CASE UNCHANGED <<now, process>>
  BY <1>6 DEF process
<1> QED
  BY <1>1, <1>2, <1>3, <1>4, <1>5, <1>6
  DEF Next, Load, Surroundings, GithubMints, GithubServes, GithubRevokes, GithubRefusesMint,
      GithubRefusesFetch, Publish, vars

\* The process knows of the token, unless it never heard of it.
LEMMA TokenIsKnownStep ==
    TypeOK /\ TokenIsKnown /\ [Next]_vars => TokenIsKnown'
<1> SUFFICES ASSUME TypeOK, TokenIsKnown, [Next]_vars  PROVE TokenIsKnown'
  OBVIOUS
<1> USE KindsOfAnswers DEF TypeOK, TokenIsKnown, process, github
<1>1. CASE Sign
  BY <1>1 DEF Sign, Send, Return
<1>9. CASE MintAnswered
  BY <1>9 DEF MintAnswered, Send, Revoke
<1>2. CASE MintRefused \/ MintFails
  BY <1>2 DEF MintRefused, MintFails, Return, Unheard
<1>3. CASE FetchAnswered \/ FetchRefused \/ FetchFails \/ ReadEnds
  BY <1>3 DEF FetchAnswered, FetchRefused, FetchFails, ReadEnds, Send, Revoke
<1>4. ASSUME NEW n \in 1..(MAX_POLICY_BYTES + 1), ReadChunk(n)  PROVE TokenIsKnown'
  BY <1>4 DEF ReadChunk, Send, Revoke
<1>5. CASE Revoked \/ RevokeFails \/ Killed
  BY <1>5 DEF Revoked, RevokeFails, Killed, Return, Unheard
<1>6. CASE GithubMints \/ GithubServes \/ GithubRevokes
  BY <1>6 DEF GithubMints, GithubServes, GithubRevokes, Deliver
<1>7. ASSUME NEW r \in Refusals, GithubRefusesMint(r) \/ GithubRefusesFetch(r)  PROVE TokenIsKnown'
  BY <1>7 DEF GithubRefusesMint, GithubRefusesFetch, Deliver
<1>8. CASE (\E v \in Version : Publish(v)) \/ Tick \/ UNCHANGED vars
  BY <1>8 DEF Publish, Tick, vars
<1> QED
  BY <1>1, <1>2, <1>3, <1>4, <1>5, <1>6, <1>7, <1>8, <1>9 DEF Next, Load, Surroundings
\* What is read is hosted, and nothing is returned before.
LEMMA ReadingIsHostedStep ==
    TypeOK /\ TokenIsKnown /\ ReadingIsHosted /\ [Next]_vars => ReadingIsHosted'
<1> SUFFICES ASSUME TypeOK, TokenIsKnown, ReadingIsHosted, [Next]_vars  PROVE ReadingIsHosted'
  OBVIOUS
<1> USE FetchConstants, KindsOfAnswers
    DEF TypeOK, ReadingIsHosted, LoadedIsTheFile, process, github
<1>1. CASE Sign \/ MintFails
  BY <1>1 DEF Sign, MintFails, Send, Return, Failed
<1>2. CASE MintAnswered
  BY <1>2 DEF MintAnswered, Send, Revoke, Failed
<1>3. CASE MintRefused
  <2>1. PICK v \in Verdicts(wire.refusal, wire.readable, MintCode(wire.refusal.status)) : Return(v)
    BY <1>3 DEF MintRefused
  <2>2. /\ v.version = None
        /\ \/ v.kind = "failed" /\ v.after = 0
           \/ v.kind = "limited" /\ v.after \in 1..MAX_RATE_LIMIT_BACKOFF
    BY <1>3, VerdictsOfRefusals, AnswerFields, WaitsAreBounded DEF MintRefused, LocalClocks
  <2> QED  BY <1>3, <2>1, <2>2 DEF MintRefused, Return
<1>4. CASE FetchAnswered \/ FetchFails
  BY <1>4 DEF FetchAnswered, FetchFails, Send, Revoke, Failed
<1>5. CASE FetchRefused
  <2>1. PICK v \in Verdicts(wire.refusal, wire.readable, "policy_lookup_failed") : Revoke(v)
    BY <1>5 DEF FetchRefused
  <2>2. /\ v.version = None
        /\ \/ v.kind = "failed" /\ v.after = 0
           \/ v.kind = "limited" /\ v.after \in 1..MAX_RATE_LIMIT_BACKOFF
    BY <1>5, VerdictsOfRefusals, AnswerFields, WaitsAreBounded DEF FetchRefused, LocalClocks
  <2> QED  BY <1>5, <2>1, <2>2 DEF FetchRefused, Revoke, Send
<1>6. ASSUME NEW n \in 1..(MAX_POLICY_BYTES + 1), ReadChunk(n)  PROVE ReadingIsHosted'
  BY <1>6, AnswerFields DEF ReadChunk, Send, Revoke, Failed
<1>7. CASE ReadEnds
  BY <1>7, AnswerFields DEF ReadEnds, TokenIsKnown, Send, Revoke, Failed, Loaded
<1>8. CASE Revoked \/ RevokeFails \/ Killed
  BY <1>8 DEF Revoked, RevokeFails, Killed, Return
<1>9. CASE GithubMints \/ GithubServes \/ GithubRevokes
  BY <1>9 DEF GithubMints, GithubServes, GithubRevokes, Deliver
<1>10. ASSUME NEW r \in Refusals, GithubRefusesMint(r) \/ GithubRefusesFetch(r)
       PROVE  ReadingIsHosted'
  BY <1>10 DEF GithubRefusesMint, GithubRefusesFetch, Deliver
<1>11. CASE (\E v \in Version : Publish(v)) \/ Tick \/ UNCHANGED vars
  BY <1>11 DEF Publish, Tick, vars
<1> QED
  BY <1>1, <1>2, <1>3, <1>4, <1>5, <1>6, <1>7, <1>8, <1>9, <1>10, <1>11
  DEF Next, Load, Surroundings

\* What is waited for is what the refusal asked for, and no more than that but for the
\* time it was under way and the error of the clock.
LEMMA WaitsAreTold ==
    ASSUME TypeOK, RequestsAreTimed, UntilIsTold, wire.kind = "refused",
           NEW readable, NEW code, NEW v \in Verdicts(wire.refusal, readable, code),
           v.kind = "limited"
    PROVE  /\ until # None =>
                now + v.after >= Least(until - MAX_SKEW, now + MAX_RATE_LIMIT_BACKOFF)
           /\ now + v.after <=
                IF until = None THEN now + DEFAULT_RATE_LIMIT_BACKOFF
                ELSE Greatest(now + 1, until + Greatest(REQUEST_TIMEOUT, MAX_SKEW))
<1> DEFINE r == wire.refusal
<1>1. r \in Refusals /\ wire \in Answers
  BY AnswerFields DEF TypeOK
<1>2. PICK local \in LocalClocks : v.after = WaitFor(r, local)
  BY VerdictsOfRefusals
<1>3. /\ now \in Nat /\ since \in Nat /\ MAX_SKEW \in Nat /\ REQUEST_TIMEOUT \in Nat
      /\ local \in Int /\ local <= now + MAX_SKEW /\ now - MAX_SKEW <= local
  BY <1>2, FetchConstants DEF LocalClocks, TypeOK
<1>4. /\ r.retry_after \in Nat \cup {None} /\ r.reset \in Nat \cup {None}
      /\ DEFAULT_RATE_LIMIT_BACKOFF \in Nat /\ MAX_RATE_LIMIT_BACKOFF \in Nat \ {0}
      /\ None \notin Nat
  BY <1>1, FetchConstants DEF Refusal
<1>5. IsToldBy(r) /\ now <= since + REQUEST_TIMEOUT /\ since <= now
  BY DEF UntilIsTold, RequestsAreTimed, Waiting
<1>6. WaitFor(r, local) \in 1..MAX_RATE_LIMIT_BACKOFF
  BY <1>1, <1>3, WaitsAreBounded
<1>7. CASE r.retry_after # None
  <2>1. /\ WaitFor(r, local) >= Least(r.retry_after, MAX_RATE_LIMIT_BACKOFF)
        /\ WaitFor(r, local) <= Greatest(1, r.retry_after)
    BY <1>1, <1>3, <1>7, WaitsAreBounded
  <2>2. until # None /\ since + r.retry_after <= until /\ until <= now + r.retry_after
    BY <1>5, <1>7 DEF IsToldBy
  <2>3. until \in Nat /\ r.retry_after \in Nat
    BY <1>4, <1>7, <2>2 DEF TypeOK
  <2> HIDE DEF r
  <2> QED  BY <1>2, <1>3, <1>4, <1>5, <1>6, <2>1, <2>2, <2>3 DEF Least, Greatest
<1>8. CASE r.retry_after = None /\ r.remaining = 0 /\ r.reset # None
  <2>1. /\ WaitFor(r, local) >= Least(r.reset - local, MAX_RATE_LIMIT_BACKOFF)
        /\ WaitFor(r, local) <= Greatest(1, r.reset - local)
    BY <1>1, <1>3, <1>8, WaitsAreBounded
  <2>2. until = r.reset /\ until \in Nat
    BY <1>4, <1>5, <1>8 DEF IsToldBy
  <2> HIDE DEF r
  <2> QED  BY <1>2, <1>3, <1>4, <1>6, <2>1, <2>2 DEF Least, Greatest
<1>9. CASE r.retry_after = None /\ (r.remaining # 0 \/ r.reset = None)
  <2>1. WaitFor(r, local) = DEFAULT_RATE_LIMIT_BACKOFF
    BY <1>1, <1>3, <1>9, WaitsAreBounded
  <2>2. until = None
    BY <1>5, <1>9 DEF IsToldBy
  <2> QED  BY <1>2, <1>3, <1>4, <2>1, <2>2
<1> QED  BY <1>7, <1>8, <1>9

\* What the refusal that came asks for stays so while time goes on.
LEMMA UntilIsToldStep ==
    TypeOK /\ RequestsAreTimed /\ ReadingIsHosted /\ UntilIsTold /\ [Next]_vars => UntilIsTold'
<1> SUFFICES ASSUME TypeOK, RequestsAreTimed, ReadingIsHosted, UntilIsTold, [Next]_vars
             PROVE  UntilIsTold'
  OBVIOUS
<1> USE FetchConstants, KindsOfAnswers
    DEF TypeOK, ReadingIsHosted, UntilIsTold, LimitIsWaitedOut, process, github
<1>1. ASSUME NEW v, wire.kind = "refused", UNCHANGED <<now, until>>, result' = v, wire' = Nothing,
             NEW readable, NEW code, v \in Verdicts(wire.refusal, readable, code)
      PROVE  UntilIsTold'
  <2>1. CASE v.kind # "limited"
    BY <1>1, <2>1
  <2>2. CASE v.kind = "limited"
    <3>1. until # None =>
            now + v.after >= Least(until - MAX_SKEW, now + MAX_RATE_LIMIT_BACKOFF)
      BY <1>1, <2>2, WaitsAreTold
    <3> QED  BY <1>1, <3>1
  <2> QED  BY <2>1, <2>2
<1>2. CASE MintRefused \/ FetchRefused
  BY <1>1, <1>2 DEF MintRefused, FetchRefused, Return, Revoke, Send
<1>3. CASE Tick
  BY <1>3, AnswerFields DEF Tick, Least, Refusal, IsToldBy
<1>4. CASE Sign \/ MintAnswered \/ MintFails \/ FetchAnswered \/ FetchFails
  BY <1>4 DEF Sign, MintAnswered, MintFails, FetchAnswered, FetchFails, Send, Return, Revoke, Failed
<1>5. ASSUME NEW n \in 1..(MAX_POLICY_BYTES + 1), ReadChunk(n)  PROVE UntilIsTold'
  BY <1>5 DEF ReadChunk, Send, Revoke, Failed
<1>6. CASE ReadEnds \/ Revoked \/ RevokeFails \/ Killed
  BY <1>6 DEF ReadEnds, Revoked, RevokeFails, Killed, Send, Return, Revoke, Failed, Loaded
<1>7. CASE GithubMints \/ GithubServes \/ GithubRevokes
  BY <1>7 DEF GithubMints, GithubServes, GithubRevokes, Deliver, IsToldBy
<1>8. ASSUME NEW r \in Refusals, GithubRefusesMint(r) \/ GithubRefusesFetch(r)
      PROVE  UntilIsTold'
  <2>1. CASE GithubRefusesMint(r) /\ pc # "minting"
    BY <2>1 DEF GithubRefusesMint, Deliver, IsToldBy
  <2>2. CASE (GithubRefusesMint(r) /\ pc = "minting") \/ GithubRefusesFetch(r)
    <3>1. /\ until' = AsksUntil(r)
          /\ wire'.kind = "refused" /\ wire'.refusal = r
          /\ UNCHANGED <<now, since, pc, result>> /\ result.kind = "none"
          /\ pc \in {"minting", "fetching"}
      BY <2>2 DEF GithubRefusesMint, GithubRefusesFetch, Deliver, NoReply
    <3>2. r.retry_after \in Nat \cup {None} /\ since <= now
      BY DEF Refusal, RequestsAreTimed
    <3>3. IsToldBy(wire.refusal)'
      BY <3>1, <3>2, WhatRefusalsAsk DEF IsToldBy
    <3> QED  BY <3>1, <3>3
  <2> QED  BY <1>8, <2>1, <2>2
<1>9. CASE (\E v \in Version : Publish(v)) \/ UNCHANGED vars
  BY <1>9 DEF Publish, vars, IsToldBy
<1> QED
  BY <1>2, <1>3, <1>4, <1>5, <1>6, <1>7, <1>8, <1>9 DEF Next, Load, Surroundings

LEMMA TypeStep == FetchInv /\ [Next]_vars => TypeOK'
<1> SUFFICES ASSUME TypeOK, ReadingIsHosted, [Next]_vars  PROVE TypeOK'
  BY DEF FetchInv
<1> USE FetchConstants DEF TypeOK, process, github
<1>0. Nothing \in Answers /\ Created \in Answers /\ Gone \in Answers
  BY KindsOfAnswers
<1>1. CASE Sign \/ MintFails
  <2>1. CASE Sign
    BY <1>0, <2>1 DEF Sign, Send, Return, Failed
  <2>2. CASE MintFails
    <3>1. unheard' \subseteq {"mint", "revoke"}
      BY <2>2 DEF MintFails, Unheard
    <3> QED  BY <1>0, <2>2, <3>1 DEF MintFails, Return, Failed
  <2> QED  BY <1>1, <2>1, <2>2
<1>2. CASE MintAnswered \/ FetchAnswered \/ FetchFails
  <2>1. CASE MintAnswered
    BY <1>0, <2>1 DEF MintAnswered, Send, Revoke, Failed
  <2>2. CASE FetchAnswered
    BY <1>0, <2>2 DEF FetchAnswered, Send, Revoke, Failed
  <2>3. CASE FetchFails
    BY <1>0, <2>3 DEF FetchFails, Send, Revoke, Failed
  <2> QED  BY <1>2, <2>1, <2>2, <2>3
<1>3. ASSUME wire.kind = "refused", NEW readable, NEW code,
             NEW v \in Verdicts(wire.refusal, readable, code)
      PROVE  /\ v.kind \in {"limited", "failed"} /\ v.version = None
             /\ v.after \in 0..MAX_RATE_LIMIT_BACKOFF
  BY <1>3, VerdictsOfRefusals, AnswerFields, WaitsAreBounded DEF LocalClocks
<1>4. CASE MintRefused
  <2>1. PICK v \in Verdicts(wire.refusal, wire.readable, MintCode(wire.refusal.status)) : Return(v)
    BY <1>4 DEF MintRefused
  <2> QED  BY <1>0, <1>3, <1>4, <2>1 DEF MintRefused, Return
<1>5. CASE FetchRefused
  <2>1. PICK v \in Verdicts(wire.refusal, wire.readable, "policy_lookup_failed") : Revoke(v)
    BY <1>5 DEF FetchRefused
  <2> QED  BY <1>0, <1>3, <1>5, <2>1 DEF FetchRefused, Revoke, Send
<1>6. ASSUME NEW n \in 1..(MAX_POLICY_BYTES + 1), ReadChunk(n)  PROVE TypeOK'
  <2>1. bytes' \in 0..MAX_POLICY_BYTES
    BY <1>6 DEF ReadChunk
  <2> QED  BY <1>0, <1>6, <2>1 DEF ReadChunk, Send, Revoke, Failed
<1>7. CASE ReadEnds
  BY <1>0, <1>7, AnswerFields DEF ReadingIsHosted, ReadEnds, Send, Revoke, Failed, Loaded
<1>8. CASE Revoked \/ RevokeFails \/ Killed
  BY <1>0, <1>8 DEF Revoked, RevokeFails, Killed, Return, Unheard
<1>9. CASE GithubMints \/ GithubServes \/ GithubRevokes
  <2>1. wire' \in Answers
    BY <1>0, <1>9, KindsOfAnswers DEF GithubMints, GithubServes, GithubRevokes, Deliver
  <2> QED  BY <1>9, <2>1 DEF GithubMints, GithubServes, GithubRevokes
<1>10. ASSUME NEW r \in Refusals, GithubRefusesMint(r) \/ GithubRefusesFetch(r)
       PROVE  TypeOK'
  <2>1. AsksUntil(r) \in Nat \cup {None}
    BY WhatRefusalsAsk DEF Refusal
  <2> QED  BY KindsOfAnswers, <1>10, <2>1 DEF GithubRefusesMint, GithubRefusesFetch, Deliver
<1>11. CASE Tick \/ UNCHANGED vars
  <2>1. CASE Tick
    <3>1. now' \in Nat
      BY <2>1 DEF Tick
    <3> QED  BY <2>1, <3>1 DEF Tick
  <2>2. CASE UNCHANGED vars
    BY <2>2 DEF vars
  <2> QED  BY <1>11, <2>1, <2>2
<1>12. ASSUME NEW v \in Version, Publish(v)  PROVE TypeOK'
  <2>1. seen' \subseteq Version /\ hosted' \in Version
    BY <1>12 DEF Publish
  <2> QED  BY <1>12, <2>1 DEF Publish
<1> QED
  BY <1>1, <1>2, <1>4, <1>5, <1>6, <1>7, <1>8, <1>9, <1>10, <1>11, <1>12
  DEF Next, Load, Surroundings

-------------------------------------------------------------------------------
\* The theorems

\* At every step of a load the process knows of the token what it could know, what it
\* read is hosted, and the time is that of the requests (fetch_policy and what it calls
\* in src/github/policy.rs).
THEOREM FetchInvHolds == Spec => []FetchInv
<1>1. FetchInv /\ [Next]_vars => FetchInv'
  BY TypeStep, RequestsAreTimedStep, TokenIsKnownStep, ReadingIsHostedStep, UntilIsToldStep
  DEF FetchInv
<1> QED  BY FetchInvInit, <1>1, PTL DEF Spec

\* The read token is dead after the load, or its revocation was sent (fetch_policy,
\* revoke_policy_token).
THEOREM TokensAreRevoked == Spec => []TokenIsRevoked
<1>1. FetchInv => TokenIsRevoked
  BY DEF FetchInv, TokenIsKnown, TokenIsRevoked
<1> QED  BY <1>1, FetchInvHolds, PTL

\* What the cache gets is a file of the repository, whole and within the limit
\* (fetch_policy_with_token).
THEOREM LoadedFilesAreHosted == Spec => []LoadedIsTheFile
<1>1. FetchInv => LoadedIsTheFile
  BY DEF FetchInv, ReadingIsHosted, LoadedIsTheFile
<1> QED  BY <1>1, FetchInvHolds, PTL

\* A limit lasts as long as GitHub said (github_rate_limit).
THEOREM LimitsAreWaitedOut == Spec => []LimitIsWaitedOut
<1>1. FetchInv => LimitIsWaitedOut
  BY DEF FetchInv, UntilIsTold
<1> QED  BY <1>1, FetchInvHolds, PTL

\* A limit whose body can be read comes to a wait.
LEMMA LimitsAreVerdicts ==
    ASSUME NEW r \in Refusals, r.limit, NEW code, NEW v \in Verdicts(r, TRUE, code)
    PROVE  v.kind = "limited"
<1>1. IsRateLimit(r, TRUE)
  <2>0. \/ r.status \in {403, 429} /\ (r.remaining = 0 \/ r.message \in {"secondary", "abuse"})
        \/ r.status = 422 /\ r.message = "spammed"
    BY LimitsAreDocumented, Zenon
  <2>1. CASE r.status = 429
    BY <2>1 DEF IsRateLimit
  <2>2. CASE r.status = 403 /\ (r.remaining = 0 \/ r.message \in {"secondary", "abuse"})
    BY <2>2 DEF IsRateLimit, SaysLimited
  <2>3. CASE r.status = 422 /\ r.message = "spammed"
    BY <2>3 DEF IsRateLimit, SaysLimited
  <2> QED  BY <2>0, <2>1, <2>2, <2>3
<1> QED  BY <1>1 DEF Verdicts, Limited

\* Whichever of the two requests is refused, a limit is heard, and nothing that is heard
\* for one is waited for longer than its headers say or a minute (github_rate_limit, and
\* who calls it).
THEOREM LimitsAreRecognised == Spec => LimitsAreHeard
<1> DEFINE Bound == IF until = None THEN now + DEFAULT_RATE_LIMIT_BACKOFF
                    ELSE Greatest(now + 1, until + Greatest(REQUEST_TIMEOUT, MAX_SKEW))
<1>1. ASSUME FetchInv, [Next]_vars, wire.kind = "refused", wire.readable, result' # result
      PROVE  /\ wire.refusal.limit => result'.kind = "limited"
             /\ result'.kind = "limited" => now + result'.after <= Bound
  <2>1. /\ wire \in Answers /\ wire.refusal \in Refusals /\ wire.readable = TRUE
        /\ pc # "sign" /\ pc # "reading"
    <3>1. wire \in Answers /\ pc # "sign" /\ pc # "reading"
      BY <1>1, KindsOfAnswers DEF FetchInv, TypeOK, TokenIsKnown, ReadingIsHosted
    <3>2. wire.readable \in BOOLEAN
      BY <1>1, <3>1 DEF Answers, Nothing, Created, Gone, File, Refused
    <3> QED  BY <1>1, <3>1, <3>2, AnswerFields
  <2>2. ASSUME NEW code, NEW v \in Verdicts(wire.refusal, wire.readable, code), result' = v
        PROVE  /\ wire.refusal.limit => result'.kind = "limited"
               /\ result'.kind = "limited" => now + result'.after <= Bound
    BY <1>1, <2>1, <2>2, LimitsAreVerdicts, WaitsAreTold DEF FetchInv
  <2>3. CASE MintRefused
    BY <2>2, <2>3 DEF MintRefused, Return
  <2>4. CASE FetchRefused
    BY <2>2, <2>4 DEF FetchRefused, Revoke
  <2>5. ~(MintAnswered \/ FetchAnswered \/ Sign \/ MintFails \/ FetchFails \/ ReadEnds \/ Tick
          \/ Revoked \/ RevokeFails \/ Killed \/ UNCHANGED vars)
    BY <1>1, <2>1 DEF MintAnswered, FetchAnswered, Sign, MintFails, FetchFails, ReadEnds, Tick,
                      Revoked, RevokeFails, Killed, Return, vars, process
  <2>6. \A n : ~ReadChunk(n)
    BY <2>1 DEF ReadChunk
  <2>7. ~Surroundings
    BY <1>1 DEF Surroundings, GithubMints, GithubServes, GithubRevokes, GithubRefusesMint,
                GithubRefusesFetch, Publish, Tick, process
  <2> QED  BY <1>1, <2>3, <2>4, <2>5, <2>6, <2>7 DEF Next, Load
<1>2. FetchInv /\ [Next]_vars =>
        [wire.kind = "refused" /\ wire.readable /\ result' # result =>
            /\ wire.refusal.limit => result'.kind = "limited"
            /\ result'.kind = "limited" =>
                 now + result'.after <=
                   IF until = None THEN now + DEFAULT_RATE_LIMIT_BACKOFF
                   ELSE Greatest(now + 1, until + Greatest(REQUEST_TIMEOUT, MAX_SKEW))]_vars
  BY <1>1
<1> QED  BY <1>2, FetchInvHolds, PTL DEF Spec, LimitsAreHeard

\* The cache's lock is held for three timeouts at most (build_http_client).
THEOREM LoadsAreShort == Spec => []LoadIsShort
<1>1. FetchInv => LoadIsShort
  BY DEF FetchInv, RequestsAreTimed
<1> QED  BY <1>1, FetchInvHolds, PTL

\* A load, with its token, its three requests and their failures, is for the cache what
\* PolicyLoad says (fetch_policy as the loader of get_or_load).
THEOREM ImplementsPolicyLoad == Spec => PolicyLoadSpec
<1> USE DEF PL!vars, PL!NoReply, Answered
<1>1. Init => PL!Init
  BY DEF Init, PL!Init, NoReply
<1>2. ASSUME FetchInv, FetchInv', Return(result'), pc # "done", UNCHANGED <<hosted, seen>>
      PROVE  PL!Answer
  BY <1>2 DEF FetchInv, TypeOK, ReadingIsHosted, LoadedIsTheFile, Return, PL!Answer, PL!Loaded,
              PL!Limited, PL!Failed
<1>3. ASSUME FetchInv, FetchInv', [Next]_vars  PROVE [PL!Next]_(PL!vars)
  <2> USE <1>3 DEF PL!Next, process, github
  <2>1. CASE pc' # "done" /\ pc # "done" /\ UNCHANGED <<hosted, seen>>
    BY <2>1
  <2>2. CASE pc = "done" /\ UNCHANGED <<pc, result, hosted, seen>>
    BY <2>2
  <2>3. ASSUME NEW v \in Version, Publish(v)  PROVE PL!Publish
    BY <2>3 DEF Publish, PL!Publish
  <2>4. CASE Sign \/ MintRefused \/ MintFails \/ Revoked \/ RevokeFails
    BY <1>2, <2>1, <2>4 DEF Sign, MintRefused, MintFails, Revoked, RevokeFails, Send, Return
  <2>5. CASE MintAnswered \/ FetchAnswered \/ FetchRefused \/ FetchFails \/ ReadEnds \/ Killed
    BY <2>1, <2>5 DEF MintAnswered, FetchAnswered, FetchRefused, FetchFails, ReadEnds, Killed,
                      Send, Revoke
  <2>6. ASSUME NEW n \in 1..(MAX_POLICY_BYTES + 1), ReadChunk(n)  PROVE [PL!Next]_(PL!vars)
    BY <2>1, <2>6 DEF ReadChunk, Send, Revoke
  <2>7. CASE UNCHANGED <<pc, result, hosted, seen>>
    BY <2>7
  <2> QED
    BY <2>3, <2>4, <2>5, <2>6, <2>7
    DEF Next, Load, Surroundings, GithubMints, GithubServes, GithubRevokes, GithubRefusesMint,
        GithubRefusesFetch, Tick, vars
<1> QED  BY <1>1, <1>3, FetchInvHolds, PTL DEF Spec, PolicyLoadSpec, PL!Spec
===============================================================================
