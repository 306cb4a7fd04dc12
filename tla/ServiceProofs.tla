----------------------------- MODULE ServiceProofs -----------------------------
(***************************************************************************)
(* Proofs about Service, from any settings and for any sequence of         *)
(* requests, failures, rotations of the App's key and restarts.            *)
(***************************************************************************)
EXTENDS Service, TLAPS

\* The code "none" of a request that has no answer yet, and those that keep no secret.
LEMMA NoneTellsNothing == "none" \notin KeepsToken /\ "none" \notin TakesToken
  BY DEF KeepsToken, TakesToken, Unauthenticated, Denials, Unconfigured

LEMMA ServiceInvInit == ServiceInit => ServiceInv
<1> SUFFICES ASSUME ServiceInit  PROVE ServiceInv
  OBVIOUS
<1>1. ServiceTypeOK
  BY DEF ServiceInit, ServiceTypeOK, NoRequest, Requests
<1>2. OnlyWhenUp /\ Checked /\ PairWorked
  BY DEF ServiceInit, OnlyWhenUp, Checked, PairWorked, AfterClaim
<1>3. ClaimedByStep /\ StrangersCostNothing
  BY DEF ServiceInit, ClaimedByStep, StrangersCostNothing, BeforeClaim, AfterClaim
<1>4. CodeTellsSpent
  BY NoneTellsNothing DEF ServiceInit, CodeTellsSpent
<1> QED  BY <1>1, <1>2, <1>3, <1>4 DEF ServiceInv

\* The start reads settings while nothing is served.
LEMMA StartKeeps == ServiceInv /\ Start /\ UNCHANGED serving => ServiceInv'
<1> SUFFICES ASSUME ServiceInv, Start, UNCHANGED serving  PROVE ServiceInv'
  OBVIOUS
<1> USE DEF serving
<1>1. ServiceTypeOK' /\ Checked' /\ ClaimedByStep' /\ CodeTellsSpent' /\ StrangersCostNothing'
  BY DEF ServiceInv, ServiceTypeOK, Checked, ClaimedByStep, CodeTellsSpent, StrangersCostNothing
<1>2. proc # "up" \/ UNCHANGED <<proc, pair>>
  BY DEF Start, ReadLocation, ReadAudience, ReadAppId, ReadKey, ReadTable, ReadApi, ReadSetting,
         PutParameter, PutSecret
<1>3. OnlyWhenUp'
  BY <1>2 DEF ServiceInv, OnlyWhenUp
<1>4. PairWorked'
  BY <1>2 DEF ServiceInv, OnlyWhenUp, PairWorked, PairFits, AfterClaim
<1> QED  BY <1>1, <1>3, <1>4 DEF ServiceInv

-------------------------------------------------------------------------------
\* One lemma for each part of the way of a request

LEMMA ReceiveKeeps ==
    ASSUME NEW r \in Requests, ServiceInv, Receive(r)
    PROVE  ServiceInv'
<1> USE DEF Receive, ServiceInv
<1>1. ServiceTypeOK'
  BY DEF ServiceTypeOK, BeforeClaim
<1>2. OnlyWhenUp' /\ Checked'
  BY DEF OnlyWhenUp, Checked, startVars, AfterClaim
<1>3. PairWorked'
  BY DEF PairWorked, PairFits, startVars, AfterClaim
<1>4. ClaimedByStep' /\ StrangersCostNothing'
  BY DEF ClaimedByStep, StrangersCostNothing, BeforeClaim, AfterClaim
<1>5. CodeTellsSpent'
  BY NoneTellsNothing DEF CodeTellsSpent
<1> QED  BY <1>1, <1>2, <1>3, <1>4, <1>5

\* Before the policy: nothing is claimed, and each step checks one thing more.
LEMMA EarlyKeeps ==
    ServiceInv /\ (Route \/ ReadRequest \/ FindKey \/ Verify) => ServiceInv'
<1> SUFFICES ASSUME ServiceInv, Route \/ ReadRequest \/ FindKey \/ Verify  PROVE ServiceInv'
  OBVIOUS
<1> USE DEF Route, ReadRequest, FindKey, Verify, Reply, Goto, Ask
<1>1. /\ pc \in {"route", "read", "keys", "verify"} /\ ~claimed
      /\ pc' \in {"idle", "read", "keys", "verify", "policy"}
      /\ UNCHANGED <<proc, pair, cached, spent, claimed, request>>
  BY DEF ServiceInv, ClaimedByStep, BeforeClaim, startVars
<1>2. OnlyWhenUp' /\ PairWorked'
  BY <1>1 DEF ServiceInv, OnlyWhenUp, PairWorked, PairFits, AfterClaim
<1>3. ServiceTypeOK'
  <2>1. answer' \in {"none", "ok", "healthy"} \cup Codes
    BY DEF ServiceInv, ServiceTypeOK, Codes, Unauthenticated
  <2>2. asked' \subseteq {"keys", "policy", "table", "github"}
    BY DEF ServiceInv, ServiceTypeOK
  <2>3. pc' \in {"idle"} \cup BeforeClaim
    BY <1>1 DEF BeforeClaim
  <2> QED  BY <1>1, <2>1, <2>2, <2>3 DEF ServiceInv, ServiceTypeOK
<1>4. Checked' /\ StrangersCostNothing'
  BY <1>1 DEF ServiceInv, ServiceTypeOK, Checked, StrangersCostNothing, AfterClaim, Requests
<1>5. ClaimedByStep'
  BY <1>1 DEF ServiceInv, ClaimedByStep, BeforeClaim, AfterClaim
<1>6. CodeTellsSpent'
  BY <1>1 DEF ServiceInv, ClaimedByStep, BeforeClaim, CodeTellsSpent, TakesToken
<1> QED  BY <1>2, <1>3, <1>4, <1>5, <1>6 DEF ServiceInv

\* The policy: a load that works has worked with the pair.
LEMMA PolicyKeeps ==
    ServiceInv /\ (UseCached \/ LoadPolicy \/ DenyInBackoff \/ Authorize) => ServiceInv'
<1> SUFFICES ASSUME ServiceInv, UseCached \/ LoadPolicy \/ DenyInBackoff \/ Authorize
             PROVE  ServiceInv'
  OBVIOUS
<1> USE DEF UseCached, LoadPolicy, DenyInBackoff, Authorize, Reply, Goto, Ask
<1>1. /\ pc \in {"policy", "authorize"} /\ ~claimed
      /\ pc' \in {"idle", "authorize", "claim"}
      /\ UNCHANGED <<proc, pair, spent, claimed, request>>
  BY DEF ServiceInv, ClaimedByStep, BeforeClaim, startVars
<1>2. OnlyWhenUp' /\ PairWorked'
  BY <1>1 DEF ServiceInv, OnlyWhenUp, PairWorked, PairFits, AfterClaim
<1>3. ServiceTypeOK'
  BY <1>1 DEF ServiceInv, ServiceTypeOK, BeforeClaim, Codes, Unauthenticated, Unconfigured,
              Forbidden
<1>4. Checked' /\ StrangersCostNothing'
  BY <1>1 DEF ServiceInv, ServiceTypeOK, Checked, StrangersCostNothing, AfterClaim
<1>5. ClaimedByStep'
  BY <1>1 DEF ServiceInv, ClaimedByStep, BeforeClaim, AfterClaim
<1>6. CodeTellsSpent'
  BY <1>1 DEF ServiceInv, ClaimedByStep, BeforeClaim, CodeTellsSpent, TakesToken, Denials
<1> QED  BY <1>2, <1>3, <1>4, <1>5, <1>6 DEF ServiceInv

\* The claim and what comes after it.
LEMMA LateKeeps == ServiceInv /\ (Claim \/ Lookup \/ Mint) => ServiceInv'
<1> SUFFICES ASSUME ServiceInv, Claim \/ Lookup \/ Mint  PROVE ServiceInv'
  OBVIOUS
<1> USE DEF Claim, Lookup, Mint, Reply, Goto, Ask
<1>1. /\ pc \in {"claim"} \cup AfterClaim
      /\ pc' \in {"idle"} \cup AfterClaim
      /\ UNCHANGED <<proc, pair, cached, request>>
  BY DEF AfterClaim, startVars
<1>2. OnlyWhenUp' /\ PairWorked'
  BY <1>1 DEF ServiceInv, OnlyWhenUp, PairWorked, PairFits, AfterClaim
<1>3. ServiceTypeOK'
  BY <1>1 DEF ServiceInv, ServiceTypeOK, Codes, Forbidden, Denials
<1>4. Checked' /\ StrangersCostNothing'
  BY <1>1 DEF ServiceInv, ServiceTypeOK, Checked, StrangersCostNothing, AfterClaim
<1>5. ClaimedByStep'
  BY <1>1 DEF ServiceInv, ServiceTypeOK, ClaimedByStep, BeforeClaim, AfterClaim
<1>6. CodeTellsSpent'
  BY <1>1 DEF ServiceInv, ServiceTypeOK, ClaimedByStep, AfterClaim, CodeTellsSpent, KeepsToken,
              TakesToken, Unauthenticated, Denials, Unconfigured
<1> QED  BY <1>2, <1>3, <1>4, <1>5, <1>6 DEF ServiceInv

LEMMA ServiceInvNext == ServiceInv /\ [ServiceNext]_allVars => ServiceInv'
<1> SUFFICES ASSUME ServiceInv, [ServiceNext]_allVars  PROVE ServiceInv'
  OBVIOUS
<1> USE DEF ServiceInv, ServiceTypeOK, OnlyWhenUp, Checked, PairWorked, PairFits, ClaimedByStep,
            CodeTellsSpent, StrangersCostNothing, BeforeClaim, AfterClaim
<1>1. CASE Ages
  BY <1>1 DEF Ages, startVars
<1>2. CASE Ends
  BY <1>2 DEF Ends, Restart, KeepsToken, TakesToken, Unauthenticated, Denials, Unconfigured
<1>3. CASE UNCHANGED allVars
  BY <1>3 DEF allVars, startVars, serving
<1> QED
  BY <1>1, <1>2, <1>3, StartKeeps, ReceiveKeeps, EarlyKeeps, PolicyKeeps, LateKeeps
  DEF ServiceNext, Handle

\* What the steps of a request say of it, of its token and of the App's pair: only a
\* verified request reaches the policy, only a pair that worked reaches the table, and
\* the record is this request's between the claim and the answer (main.rs, exchange.rs).
THEOREM ServiceInvHolds == ServiceSpec => []ServiceInv
  BY ServiceInvInit, ServiceInvNext, PTL DEF ServiceSpec

\* The code of an answer tells whether the token may be shown again (error.rs).
THEOREM CodesTellSpent == ServiceSpec => []CodeTellsSpent
<1>1. ServiceInv => CodeTellsSpent
  BY DEF ServiceInv
<1> QED  BY <1>1, ServiceInvHolds, PTL

\* Nobody is asked on behalf of a stranger (verify_oidc_claims).
THEOREM StrangersAreCheap == ServiceSpec => []StrangersCostNothing
<1>1. ServiceInv => StrangersCostNothing
  BY DEF ServiceInv
<1> QED  BY <1>1, ServiceInvHolds, PTL

\* A process with the id of one App and the key of another spends no token, however the
\* secrets are rotated while processes start (Config::load, deploy-secrets.sh).
THEOREM WrongKeysSpendNothing == ServiceSpec => []WrongKeySpendsNothing
<1>1. ServiceInv => WrongKeySpendsNothing
  BY DEF ServiceInv, PairWorked, WrongKeySpendsNothing
<1> QED  BY <1>1, ServiceInvHolds, PTL

===============================================================================
