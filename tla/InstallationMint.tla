--------------------------- MODULE InstallationMint ---------------------------
(***************************************************************************)
(* mint_installation_token (src/exchange.rs) and the GitHub calls it makes *)
(* (src/github/tokens.rs, send_github_request in src/github/api.rs): the   *)
(* installation of every target is looked up by name, then one POST names  *)
(* the targets by id, and the scope of the token that comes back is        *)
(* compared with both.                                                     *)
(*                                                                         *)
(* GitHub does not stand still meanwhile: between any two calls a          *)
(* repository may be renamed, its name taken by another one, or the App be *)
(* installed and uninstalled.                                              *)
(***************************************************************************)
EXTENDS Integers, Sequences, FiniteSets, SequencesExt

CONSTANTS
    Repo,          \* repository ids
    Name,          \* full names
    Installation,  \* installation ids of the App
    None,          \* Option::None; as an installation: the App is not installed
    TargetLists,   \* the verified target_repositories: sequences of [name, id]
    GITHUB_REQUEST_MAX_ATTEMPTS  \* api.rs: 2

ASSUME MintConstants ==
    /\ None \notin Installation
    /\ IsFiniteSet(Repo)
    /\ TargetLists \subseteq Seq([name : Name, id : Repo]) \ {<<>>}
    /\ GITHUB_REQUEST_MAX_ATTEMPTS \in Nat \ {0}

VARIABLES
    targets,   \* claims.target_repositories
    pinned,    \* claims.target_installation_id
    nameOf,    \* GitHub: nameOf[r], the name of repository r now
    home,      \* GitHub: home[r], the installation that covers r now, or None
    pc,        \* lookup, mint, check or done
    next,      \* the target to look up
    attempt,   \* attempts of that lookup so far
    installation_id,
    token,     \* what GitHub created for the POST: [inst, scope], or NoToken
    answer,    \* what came back for the POST: created, refused or lost
    result,    \* what the caller gets
    gets,      \* history: gets[i], the GETs sent for target i
    posts,     \* history: the POSTs sent
    seen       \* history: seen[i], the installation target i was found in

code  == <<pc, next, attempt, installation_id, result>>
world == <<nameOf, home>>
vars  == <<targets, pinned, world, code, token, answer, gets, posts, seen>>

NoToken == [inst |-> None, scope |-> {}]

-------------------------------------------------------------------------------
Distinct(list) == IsInjective([i \in DOMAIN list |-> list[i].name])
                  /\ IsInjective([i \in DOMAIN list |-> list[i].id])

Init ==
    /\ targets \in {list \in TargetLists : Distinct(list)}
    /\ pinned \in IF Len(targets) > 1 THEN Installation ELSE {None}
    /\ nameOf \in [Repo -> Name] /\ IsInjective(nameOf)
    /\ home \in [Repo -> Installation \cup {None}]
    /\ pc = "lookup"
    /\ next = 1
    /\ attempt = 0
    /\ installation_id = pinned
    /\ token = NoToken
    /\ answer = "none"
    /\ result = "none"
    /\ gets = [i \in DOMAIN targets |-> 0]
    /\ posts = 0
    /\ seen = [i \in DOMAIN targets |-> None]

Fail(why) ==
    /\ pc' = "done"
    /\ result' = why
    /\ UNCHANGED <<next, attempt, installation_id>>

Sent == gets' = [gets EXCEPT ![next] = @ + 1]

\* The installation whose repository has the name now; None is a 404.
FoundAt(name) ==
    IF \E r \in Repo : nameOf[r] = name THEN home[CHOOSE r \in Repo : nameOf[r] = name] ELSE None

\* Mutant: the result of each lookup replaces the one before.
MutAgrees(found) == TRUE

\* No expectation yet, or the expected installation.
Agrees(found) == installation_id \in {None, found}

\* 200: the installation must be the pinned one, or the one of the targets before.
LookupFinds ==
    /\ pc = "lookup"
    /\ LET found == FoundAt(targets[next].name) IN
         /\ found # None
         /\ seen' = [seen EXCEPT ![next] = found]
         /\ IF Agrees(found)
            THEN /\ installation_id' = found
                 /\ attempt' = 0
                 /\ next' = next + 1
                 /\ pc' = IF next = Len(targets) THEN "mint" ELSE "lookup"
                 /\ result' = result
            ELSE Fail("target_installation_not_allowed")
    /\ Sent
    /\ UNCHANGED <<targets, pinned, world, token, answer, posts>>

\* The App's key cannot sign: no call is sent.
SignFails ==
    /\ pc = "lookup" /\ \A i \in DOMAIN targets : gets[i] = 0
    /\ Fail("github_app_auth_invalid")
    /\ UNCHANGED <<targets, pinned, world, token, answer, gets, posts, seen>>

\* 401, 403, 404, any other status, or a body that does not decode.
LookupRefused ==
    /\ pc = "lookup"
    /\ Fail("lookup_failed")
    /\ Sent
    /\ UNCHANGED <<targets, pinned, world, token, answer, posts, seen>>

\* 429, 5xx, 403 with Retry-After, a timeout or a failed connect, with attempts left.
LookupRetries ==
    /\ pc = "lookup"
    /\ attempt + 1 < GITHUB_REQUEST_MAX_ATTEMPTS
    /\ attempt' = attempt + 1
    /\ Sent
    /\ UNCHANGED <<targets, pinned, world, pc, next, installation_id, result, token, answer,
                   posts, seen>>

\* The repositories GitHub can make a token of this installation for.
Covered == {r \in Repo : home[r] = installation_id}

ScopeOf(ids) == {[name |-> nameOf[r], id |-> r] : r \in ids}

\* The POST reaches GitHub, which creates a token (normally for the ids that were asked
\* for, but the code does not rely on it) or refuses (401, 403, 404, 422, 5xx).  The
\* answer may be lost on its way: a timeout, a body that does not decode.  The POST is
\* not sent again.
PostMint ==
    /\ pc = "mint"
    /\ pc' = "check"
    /\ posts' = posts + 1
    /\ \/ /\ \E ids \in SUBSET Covered \ {{}} :
               token' = [inst |-> installation_id, scope |-> ScopeOf(ids)]
          /\ answer' \in {"created", "lost"}
       \/ /\ token' = NoToken
          /\ answer' \in {"refused", "lost"}
    /\ UNCHANGED <<targets, pinned, world, next, attempt, installation_id, result, gets, seen>>

\* Mutant: only the ids are compared.
MutScopeMatches ==
    /\ Cardinality(token.scope) = Len(targets)
    /\ \A i \in DOMAIN targets : \E granted \in token.scope : granted.id = targets[i].id

\* As many repositories as targets, and every target among them by id and name.
ScopeMatches ==
    /\ Cardinality(token.scope) = Len(targets)
    /\ \A i \in DOMAIN targets : targets[i] \in token.scope

\* Mutant: the token's installation is compared with the pin when there is none.
MutAccepted == answer = "created" /\ ScopeMatches /\ token.inst = pinned

Accepted == answer = "created" /\ ScopeMatches

\* 201 with the scope that was asked for, or with another; or no token.
CheckScope ==
    /\ pc = "check"
    /\ IF Accepted
       THEN /\ pc' = "done"
            /\ result' = "granted"
            /\ UNCHANGED <<next, attempt, installation_id>>
       ELSE Fail(IF answer = "created" THEN "installation_token_request_invalid"
                                       ELSE "mint_failed")
    /\ UNCHANGED <<targets, pinned, world, token, answer, gets, posts, seen>>

\* Repository r is renamed, perhaps to a name another one just gave up.
Rename(r, n) ==
    /\ \A s \in Repo : nameOf[s] # n
    /\ nameOf' = [nameOf EXCEPT ![r] = n]
    /\ UNCHANGED <<targets, pinned, home, code, token, answer, gets, posts, seen>>

\* r is transferred, or the App installed or uninstalled for it.
Move(r, i) ==
    /\ home[r] # i
    /\ home' = [home EXCEPT ![r] = i]
    /\ UNCHANGED <<targets, pinned, nameOf, code, token, answer, gets, posts, seen>>

Mint == SignFails \/ LookupFinds \/ LookupRefused \/ LookupRetries \/ PostMint \/ CheckScope

GithubChanges ==
    \E r \in Repo : (\E n \in Name : Rename(r, n)) \/ (\E i \in Installation \cup {None} : Move(r, i))

Next == Mint \/ GithubChanges

Spec == Init /\ [][Next]_vars

-------------------------------------------------------------------------------
\* Properties

\* The types of the variables the call changes.
TypeOK ==
    /\ pc \in {"lookup", "mint", "check", "done"}
    /\ next \in 1..(Len(targets) + 1)
    /\ attempt \in 0..(GITHUB_REQUEST_MAX_ATTEMPTS - 1)
    /\ installation_id \in Installation \cup {None}
    /\ token.inst \in Installation \cup {None}
    /\ token.scope \subseteq [name : Name, id : Repo]
    /\ answer \in {"none", "created", "refused", "lost"}
    /\ gets \in [DOMAIN targets -> Nat]
    /\ posts \in Nat
    /\ seen \in [DOMAIN targets -> Installation \cup {None}]

\* The token a caller gets is for the targets by id and by name, and for nothing else,
\* whatever was renamed or moved between the calls.  (OVERVIEW: "must exactly match the
\* requested names and IDs".)
GrantIsScoped ==
    result = "granted" => token.scope = ToSet(targets)

\* A token is asked for from one installation only, in which every target was found by
\* its name, and which is the pinned one if there is a pin.
OneInstallation ==
    token.inst # None =>
        /\ \A i \in DOMAIN targets : seen[i] = token.inst
        /\ pinned \in {None, token.inst}

\* Of the calls to GitHub, lookups are repeated at most once and the POST never,
\* for every target list and every way the calls fail.
CallsAreBounded ==
    /\ \A i \in DOMAIN targets : gets[i] <= GITHUB_REQUEST_MAX_ATTEMPTS
    /\ posts <= 1

\* A token nobody was given exists only if its answer was lost or its scope was not
\* the one asked for: the cases in which it is left to expire.
OrphansAreKnown ==
    pc = "done" /\ token # NoToken /\ result # "granted" =>
        \/ answer = "lost"
        \/ token.scope # ToSet(targets)

-------------------------------------------------------------------------------
\* The inductive invariant of the proofs

\* The targets and the pin are the verified ones, and GitHub stays within its types.
WorldIsTyped ==
    /\ targets \in TargetLists /\ Distinct(targets)
    /\ pinned \in Installation \cup {None}
    /\ nameOf \in [Repo -> Name]
    /\ home \in [Repo -> Installation \cup {None}]

\* The GETs of the target under way are the attempts of its lookup; the targets after
\* it have had none.
AttemptsAreGets ==
    pc = "lookup" =>
        /\ next <= Len(targets)
        /\ \A i \in DOMAIN targets :
             i >= next => gets[i] = IF i = next THEN attempt ELSE 0

\* No installation is expected only before the first target; every target looked up
\* was found in the expected one, the POST comes after the last of them, and GitHub
\* answers for that installation.
OneExpectation ==
    /\ pinned \in {None, installation_id}
    /\ installation_id = None => next = 1
    /\ \A i \in DOMAIN targets : i < next => seen[i] = installation_id
    /\ token.inst \in {None, installation_id}
    /\ pc \in {"mint", "check"} \/ token.inst # None => next = Len(targets) + 1

\* The token and the answer come of the one POST; once it is over, the caller has the
\* token if and only if it was accepted.
OneVerdict ==
    /\ pc \in {"lookup", "mint"} => posts = 0 /\ token = NoToken /\ answer = "none"
    /\ IsFiniteSet(token.scope)
    /\ token # NoToken => answer \in {"created", "lost"}
    /\ result = "granted" => pc = "done"
    /\ pc = "done" => (result = "granted" <=> Accepted)

\* A call is one pass over the targets and one POST, whatever GitHub does meanwhile.
MintInv ==
    TypeOK /\ WorldIsTyped /\ CallsAreBounded /\ AttemptsAreGets /\ OneExpectation /\ OneVerdict
===============================================================================
