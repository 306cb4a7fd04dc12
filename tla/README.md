# ost-simple-sts: models, checks and proofs

ost-simple-sts is a token broker. A GitHub Actions job shows it an OIDC token that GitHub signed;
the broker verifies the token, asks a policy file what the job may have, and has GitHub create an
installation token of exactly that scope. It runs as AWS Lambda invocations behind an HTTP API, with
one DynamoDB table against replays and two in-memory caches per process. A JavaScript action is its
client. Paths below are relative to the repository.

## The system

| Component | State | Operations | Talks to | Modules |
| --- | --- | --- | --- | --- |
| configuration and start (`src/config.rs`, `src/main.rs`) | the settings, read once | `Config::load` | Parameter Store, Secrets Manager | `Startup`, `Service` |
| routing, errors, responses (`src/main.rs`, `src/error.rs`, `src/response.rs`) | one request at a time | route, read, answer | everything below | `Service` |
| exchange (`src/exchange.rs`) | one invocation: verified claims, then the answer | `handle`: verify, claim, mint | both caches, the table, GitHub | `Exchange` |
| replay table (`src/replay.rs`, `template.yaml`) | a record per claimed `jti`, with a ttl | `claim_jti`, a conditional write; DynamoDB deletes expired records at leisure | DynamoDB, through an SDK that retries | `Exchange` |
| JWKS cache (`src/jwks.rs`) | key set, age, last attempt, behind a read-write lock | `decoding_key_for`, `refresh` | GitHub's key server | `JwksCache` |
| policy cache (`src/policy_cache.rs`) | snapshot, age, backoff, behind a mutex held across the load | `get_or_load`, `set_backoff` | policy fetch | `PolicyCache` |
| policy fetch (`src/github/policy.rs`) | a read token for the length of a load | mint, fetch, revoke; tell rate limits from failures | GitHub | `PolicyLoad`, `PolicyFetch` |
| policy file (`src/config.rs`) | none | parse, validate, convert version 2, reject overlaps | | `Written`, `PolicyFile` |
| validated types (`src/config.rs`, `src/github/repositories.rs`, `src/github/permissions.rs`) | none | `try_from`; the URLs made of them | | `Names`, `Written` |
| authorization (`src/exchange.rs`, `src/github/permissions.rs`) | the list of rules still in the running | seven filters, first rule, target and permission check | | `Authorization` |
| installation mint (`src/exchange.rs`, `src/github/tokens.rs`, `src/github/api.rs`) | installation id, next target, attempt, the App's JWT, the backoff | look up each target, POST once, compare the scope | GitHub | `InstallationMint`, `AppCalls` |
| action (`action/main.js`, `action/post.js`, `action/common.js`) | the runner's state and output files | exchange, save, output; revoke after the job | broker, GitHub | `ActionRun`, `Written` |
| deployment (`template.yaml`, `scripts/`) | the two stores of the App's credentials | `deploy-secrets.sh` | AWS | `Startup` in part |

What is hard here:

- **Concurrency.** Invocations race for one record; callers of one process queue behind locks that are
  held while GitHub answers. (Lambda gives an environment one invocation at a time today, so the
  locks are contended only if the handler is ever run with more; they are in the code and the cache
  models exercise them.) Credentials are rotated, in two writes, while processes start.
- **Time.** Expiry is checked once and used later; ttl, tolerance, invocation length and clock skew
  have to fit together; ages are counted from the end of a request; a JWT is signed once for many
  calls.
- **Failure.** A write whose reply is lost is retried by the SDK; a POST whose reply is lost must not
  be; a refresh fails and leaves its attempt behind; the policy is read with a token that must be
  revoked whatever the reading came to; Lambda kills an invocation between claim and mint; the client
  gives up before the broker does; the runner disappears.
- **Order.** The first rule that matches decides, the filters run piecewise, nothing outside may be
  asked for a stranger, the action must mask, save and only then publish.
- **A world that moves.** Keys rotate, policies change during their own load, repositories are renamed
  between two calls.
- **Texts.** Client, broker and reviewer read the same names, bodies and files, each with code of its own.

What makes the components correct, in short: one OIDC token buys at most one installation token; a
sweep of the table forgets nothing that still matters; what authorizes is recent and was
accepted; refusals are honest about their cause and about what they cost; the granted scope is the
rule's and the request's; nobody waits for ever, nor longer than the calls may take; no read token and no
job token is left alive in silence; what is written has one meaning.

## Modules

`OncePerToken` <- `Exchange` <- `ExchangeProofs`; `PolicyLoad` <- `PolicyFetch` <- `FetchProofs`;
`PolicyCache` <- `PolicyProofs`; `JwksCache` <- `JwksProofs`; `PolicyFile` <- `Authorization` <-
`AuthorizationProofs`; `InstallationMint` <- `AppCalls` <- `MintProofs`; `Startup` <- `Service` <-
`ServiceProofs`; `Names` <- `Written`; `ActionRun` and `Written` <- `ClientProofs`. Every `MC...` module gives one of
them its values for TLC. `Mut...` definitions are plausible bugs: each differs from the definition below
it in one respect, and putting it in that one's place breaks a property.

**OncePerToken** is the promise, without a word of how: a token goes from fresh to claimed, then to
granted (a caller got the installation token) or orphaned (GitHub made one, nobody got it).

**Exchange** is the endpoint: `handle` with every `await` a step of its own. `pc` is the place in the code
(`key`: `decoding_key_for`; `verify`: `decode` and the `iat` check; `policy`: `get_or_load` and
everything up to `VerifiedClaims`; `claim`: `put_item`; `find`, `mint`, `answer`: the calls of
`mint_installation_token`). `Receive` lets anybody show any token again, at any time, to any
invocation. `ClaimUnheard` is a write that took effect and whose reply the SDK did not hear: it
sends the same conditional write again. `GithubCreates` may happen after the sender has given up.
`Abort` is Lambda's: a crash or the timeout at any step. `Sweep` is DynamoDB's ttl deletion, which
may take its time. `Tick` is true time; every worker reads a clock up to `MAX_SKEW` away from it
(`LocalClocks`), at every check anew. `ExpiresAtMs` saturates and wraps as the u64 arithmetic of
the release build does. `claims`, `minted` and `granted` are history. Assumed and not in the code: a
write that DynamoDB accepts takes effect before its invocation ends. A missing `jti` or `exp` is one
of the refusals of step `policy`.

**Startup** is `Config::load` in its order, each setting set, blank, wrong or absent, with the error of
its type. The App's id and its key come from the environment or from two stores; `PutParameter` and
`PutSecret` are the two writes of `scripts/deploy-secrets.sh`, `old` and `new` the two Apps. A process
keeps what it read until `Restart`.

**Service** is a process seen from outside: its start, the three routes, and one request after another
through the steps of `handle` with every error code that `AppError` has, in the step it arises in. What the steps
do inside is the other modules' matter; here a step is its codes (`answer`), whom it asks (`asked`) and whether
the OIDC token's record is written (`spent`, `claimed`). A pair of id and key that does not fit
gets no token from GitHub (`PairFits`).

**PolicyCache** is `get_or_load` branch by branch. The mutex is a queue because tokio's is fair; the
holder keeps it during the load. GitHub may serve, limit or fail (`github`), and somebody may
publish another policy at any moment (`hosted`), between the reading of the file and the end of the
load too. Time is relative (`age`, `retryIn`, ...) and saturates beyond the largest bound it is
compared with, so behaviours never end. `Multiplier` keeps the width of the shift (`SHIFT_BITS`, 32 in the code).
A snapshot returned with `retry_after` is turned into a denial by `verify_oidc_claims`; the
model goes straight to the denial. A new process starts from `Init`: nothing is persisted.

**PolicyLoad** is what the cache may expect of its loader: one answer, which is a file that was hosted
during the load, a wait of a second to an hour, or a failure.

**PolicyFetch** is the loader, one run of it: `Sign`, then the POST for a token that may read one
repository (`MintAnswered` compares its scope), the GET and the reading of the body chunk by chunk
within the limit of bytes, and the DELETE, with an action for every way each of them ends. GitHub's side
is separate: a request in flight is handled in GitHub's own time, perhaps after the sender has given it up
(`post`, `delete`), and an answer reaches only the step that waits for it (`Deliver`). `IsRateLimit` and `WaitFor` are
the classification by status, headers and body, `WaitFor` on the process's clock. `limit` in a refusal says
whether GitHub means it as a limit, which the code cannot see: a plain denial may carry the headers of a limit.
`token`, `seen` and `unheard` are GitHub's truth and history; `until` is until when the headers of the last
refusal ask to wait, whatever is meant by it.

**JwksCache** is `decoding_key_for`: a look under the read lock, another under the write lock, the
cooldown, the recorded attempt, the GET with the lock held. tokio's lock serves one queue in order,
and a reader looks and leaves without an `await`, so the looks are steps of the head of the queue.

**PolicyFile** is the acceptance of a file: `ValidRule` and `Overlap` for every rule, the conversion of version
2 (aliases, derived subjects). A string is one value; `Padded` says which refs are written with a
blank in front, because the code looks at a ref once as written and later as trimmed. Syntax is left to `Names`.

**Authorization** is what `verify_oidc_claims` does with the accepted rules: `Retain` is one
`rules.retain` with its refusal, `GrantOwn` and `GrantRequested` the final match. `left` is the
list, as the indices still in it.

**InstallationMint** is `mint_installation_token` with the retries of `send_github_request`. Between any two calls
GitHub may rename a repository, give its name to another, move it or uninstall the App. GitHub is not
trusted to return the scope it was asked for: it may create a token for any repositories of the
installation.

**AppCalls** is `InstallationMint` in time: the JWT signed at the beginning by the process's clock
(`Claims`), what a reply is retried for and after what delay (`Retryable`, `RetryDelay`), and how long each
call takes. Every step of it is a step of `InstallationMint` (`CallsAreMints`, proved), so that the run checks
the properties of both.

**Names** are the types that check what is written. A text is the sequence of its segments between
slashes; a segment is a model text, and `pad`: whether blanks stand at its side where the whole text ends (blanks inside are part of the model text). One text (`?`) stands for all with a character that
is not allowed. Also here: how a URL is resolved from a base and segments, dots and missing
slashes included.

**Written** is what is written and how it is read, by whom: the action's inputs, the body its client makes of
them, the body as the broker reads it (anybody's bodies too), the answer as the client checks it, the text of a policy file as strict
JSON of the two versions' structs, and the places URLs are made of. The object of a body is the sequence of its members, and
a policy file is a tree, a function from the positions of its values (which index in which value) to their kind, their key and
their atom: either may have one key twice. `StrictValues` is the strict parser's recursion: `Visits` is what it does with one list
or object, reading the values in it by the same parser and comparing the keys of an object one after another, and `read[n]` are the
values it can read that have up to `n` values within one another, so that a text parses (`Parses`) when its root is one of them.
Duplicates that it never comes by would get through. `Fits` then gives every value the type that its struct, list or map expects there;
a struct may be an object or, as serde's derived ones may, the list of its fields. Its behaviours are short: a text is read once.

**ActionRun** is one job: `main.js` step by step up to its last output, the rest of the job, and
`post.js`. `MainFails` covers exceptions, failing writes and cancellation at every step
(`post-if: always()`), `RunnerDies` everything after which nothing runs. The broker works on after the client's
timeout.

## Runs

| Run | Question | Bounds |
| --- | --- | --- |
| `exchange` | Does a token buy at most one installation token, across replays, lost replies, aborts and sweeps? Does the exchange implement `OncePerToken`? | 2 workers, 2 tokens with different lives; margin 3 = timeout 2 + skew 1, the tightest legal value; time to 8, well beyond the last ttl, so every record is swept while tokens are still shown |
| `service` | What does a code say of the OIDC token; who is asked for whom; what do half-rotated credentials do? | every setting in every state, every kind of request, one rotation, restarts at any time |
| `policy_cache` | How old is a policy that authorizes; who gets in after a failed refresh; is GitHub left alone? Does every call return, do denials end? | 2 callers, a valid and an invalid policy that replace each other; ttl 2, stale ttl 4, jitter 0 or 1, cap 4, shift of 2 bits: all are reached and passed |
| `policy_fetch` | Is the read token revoked on every path; is what is loaded a hosted file; is every limit heard and waited out, and nothing waited for longer than its headers say? Does the fetch implement `PolicyLoad`? | files at the limit of bytes, beyond it and of no text; every combination of status, headers and body that GitHub documents for its limits, and denials and failures that are none, with the same headers or without; 1 second per request, skew 1, floor, default (2) and cap (4) of the wait all reached |
| `jwks_cache` | Is the key server spared; do withdrawn keys die; are new ones noticed? Does every call return, and in its turn; does a published key work in the end? | 2 callers, a key; timeout 1 < cooldown 2 < ttl 3, the order of the code's 6 < 30 < 300 |
| `authorization` | Do seven filters find the first rule that matches as a whole; is the grant what was asked for and within the rule; what must two rules that match one token differ in? | every file of one or two version 2 rules of a caller over 2 environments, 4 written refs, 3 workflow choices and 3 event lists; every pair of version 1 rules with either subject; every kind of target, every permission map of two permissions, every request of one to three names; every token over the same values, with consistent and with customised subjects, and of a repository that took the name |
| `app_calls` | Whose token is handed out when repositories move between calls; how long does it take; does the JWT last? | 1 or 2 targets, 2 repositories, 3 names, 2 installations; units of 200 ms with the code's own times (30 = 6 s, 5 = 1 s, 300 and 2700 = 1 and 9 minutes), calls that take nothing or all their time, clocks a minute off either way |
| `written` | Do client, broker and reader take the same from what is written; does every URL go where it was meant to? | duplicates in every struct and map of both versions, structs as objects and as lists, values up to five within one another, blanks, cases, dots, missing and surplus fields, bodies of up to three members, lists of up to two names |
| `action` | What becomes of the job's token? | client timeout 2 < broker 4 < token life 6, skew -1 to 1 |
| `shadow`, `padded_pattern`, `jwks_outage` | Disagreements of the code with its documents, see below | files as in `authorization`; one rule; as `jwks_cache` with 2 keys |

Two of everything is enough where the code treats callers, tokens and keys alike and a property names at most
two of them; the proofs remove the bound for the safety properties. Where liveness is checked the world is
smaller: one key, because keys share nothing but the refresh; one valid policy, because the cache never
compares two. Times are scaled, and keep the order of
the code's constants and every boundary (equal, one less, one more) within reach. Type invariants and inductive
invariants are proved; TLC checked each of them as an invariant before it was.

Deadlock is checked in every run but `written`, whose behaviours end when a text has been read.

### Properties worth a word

- `SweepIsFinal`: when the table has forgotten a claim, no invocation that verified the token is still
  before the table and no clock accepts the token. This is what `exp + 5 + 60` is for; with a ttl of
  `exp + 5` TLC finds the second token.
- `ReplayAnswerIsHonest`: 409 means spent, if perhaps by the caller's own unheard write.
- `CodeTellsSpent`: from most codes a caller learns whether its OIDC token is still good. The ones that arise both before
  the claim and after it (`github_app_auth_invalid`, `github_access_token_request_*`, `installation_*`) and the failure of the
  claim itself do not tell; the property is exact about which do.
- `WrongKeySpendsNothing`: a process that started between the two writes of a rotation cannot spend anybody's OIDC token,
  because it never gets a policy.
- `AuthorizedIsCurrent`: the README's "up to five minutes" is the ttl less the jitter *plus one load*,
  because the age is counted from the end of the load and the file was read before it.
- `FailsClosed`: nobody is let in unless the last refresh worked, though the snapshot is kept for up to an hour.
- `TokenIsRevoked`: a policy token that is alive after its load was never heard of, or its DELETE was sent and not confirmed.
- `LimitsAreHeard`: the code's test of status, three headers and body misses no documented limit whose answer can be read. It can
  take a denial for a limit (see below), so the property also says what that may cost: no refusal keeps the callers out for longer than
  its own headers say, or than the code's minute where they say nothing.
- `LimitIsWaitedOut`: the wait ends no earlier than GitHub asked, whether it gave seconds or a time of day, but for the
  error of the clock and the cap of an hour.
- `RotationIsNoticed`: a published key is called invalid for less than the cooldown or, if the last
  refresh failed, for less than ttl plus one fetch.
- `TurnsAreKept`: nobody is overtaken at the lock, but between its two looks; a caller whose refresh failed, say, does not queue again.
- `FirstMatchDecides`: a token is never granted on pieces of two rules, and never refused for its
  identity while one rule matches it.
- `ShadowsAreOpen`: what is left of shadowing after acceptance; see the finding.
- `SubjectIsBound`: the subject derived at acceptance and the claims compared later cannot disagree.
- `OrphansAreKnown`: the two ways in which GitHub has a token that nobody was given.
- `CallsEndInTime`: 13 seconds for each target and 6 for the POST. That is 19 of Lambda's 30 for one target and 32 for
  two: with two slow targets an invocation can be killed after its claim.
- `JwtIsAccepted`: the JWT is neither from the future, nor over, nor too long-lived for any call, with clocks a minute off.
- `PolicyReadsOneWay`: a file that is taken reads the same to a parser that keeps the first of two members and to one that keeps the last;
  it fails if the strict parser's recursion leaves out the values in a list, say.
- `ClientIsUnderstood`: what the client takes the broker takes, with the same meaning, unless the body is longer than 1024 bytes; and
  the client takes every answer the broker makes.
- `NamesAreExact`: no accepted name, path or base moves a request to another resource; what one check of a rule lets pass, the next one does.
- `NothingIsLeftSilently`: after `post.js` a saved token is dead, warned about, or within the clock's error of its end.

### Findings

- `shadow`. `README.md:124-126`: "overlapping identity rules are rejected so a later target or permission
  grant cannot be silently shadowed". `Policy::try_from` (`src/config.rs:571`) rejects rules that are equal field by field
  and share an event. A rule for `refs/pull/*/merge` and a later one for `refs/pull/5/merge` with the
  same environment are both accepted, and the second never decides; likewise a rule without
  `reusable_workflow` and one that names the calling workflow there. `ShadowsAreOpen` says that nothing else shadows.
- `padded_pattern`. `README.md:129`: the pattern "is valid only with `on: ["pull_request"]`".
  `src/config.rs:615` compares the ref as written; `GitRef::try_from` trims it afterwards. With a blank in
  front the pattern is accepted for any event. `PullGrantsArePulls` is checked for files that
  write the pattern without a blank.
- `jwks_outage`. `OVERVIEW.md:105-107`: "upstream outages return `502` or `503`". When a refresh fails while
  the cached set is still fresh, the next caller with a newly published key gets 401
  (`src/jwks.rs:58`, `:71`); only the caller that made the failed attempt gets 503.

### Seen, but not run

Smaller disagreements met while modelling. None has a run of its own; where a property meets one, it is
stated so that it is true of the code.

- `OVERVIEW.md:90` says that the lookup retries secondary rate limits once. It does if they come as 429 or with
  `Retry-After`; a 403 that tells of the limit in its body only (which the policy fetch recognises,
  `src/github/policy.rs:203`) is answered at once (`Retryable` in `AppCalls`).
- `OVERVIEW.md:106`: "GitHub App configuration or permission failures return `422` or `424`", and the alarm of
  `template.yaml:280` counts these. An App that is not installed for a target, or an installation id of the policy location that
  does not exist, returns 403. And when the policy file itself is refused (403, 404), too big or no UTF-8, the answer is
  `policy_lookup_failed` with the 502 of an outage (`src/github/policy.rs:157-184`). The modules have codes, no statuses.
- The same sentence and `src/github/policy.rs:250-254`: a 403 or 422 that is no limit, but is the last request of its window, carries
  `x-ratelimit-remaining: 0` and is answered as `github_rate_limited` (502), with a backoff until the window ends. `LimitsAreHeard`
  bounds the backoff and leaves the denial as it is.
- The version 2 check for duplicate repository names compares them as written, before they are trimmed.
- The client does not know of the broker's limit of 1024 bytes; a longer list is refused only there (`ClientIsUnderstood`).
- A version 2 rule with the pull pattern and no environment derives a subject that no token has. It never matches.
- A policy token is revoked even when GitHub has just asked to be left alone by limiting the GET (`FetchRefused`).

### Fairness

`PolicyCache` and `JwksCache`: weak fairness of each caller's steps (the runtime polls a woken task,
and every HTTP request ends by the client's timeout, `src/config.rs:976-984`) and of time. Nobody is
assumed to call again, GitHub is not assumed to work: `Recovers` and `PublishedKeyWorks` have that as their premise.
The other modules assume no fairness: an invocation may be aborted, a job cancelled and a process ended at
any step, so that nothing need happen there; that a load or the calls of a mint end is stated as a bound on time instead
(`LoadsAreShort`, `CallsEndInTime`).

## Proofs

Every module below is checked by tlapm to the last leaf. The theorems hold for any
number of invocations, callers, tokens, keys, targets and repositories and for any constants that meet
the named assumptions.

| Module | Invariant | Theorems | Assumptions |
| --- | --- | --- | --- |
| `ExchangeProofs` | `IInv` | `TypeCorrect`, `AtMostOnce`, `SweepingIsSafe`, `MintsInWindow`, `ReplaysAreHonest`, `ImplementsOncePerToken` | `ConstantsAreNatural`, `ClaimsAreTimes`, `ExpiryFitsU64`, `MarginCoversInvocation` |
| `ServiceProofs` | `ServiceInv` | `CodesTellSpent`, `StrangersAreCheap`, `WrongKeysSpendNothing` | none: `Service` has no constants |
| `PolicyProofs` | `PolicyCacheInv`, `NobodyIsForgotten` | `RetryAfterIsHonoured`, `PoliciesAreCurrent`, `RefreshesFailClosed`; `CallersAreKept`, `CallersAreServedInOrder` | `CacheConstants`, `Powers` |
| `FetchProofs` | `FetchInv` | `TokensAreRevoked`, `LoadedFilesAreHosted`, `LimitsAreWaitedOut`, `LoadsAreShort`, `ImplementsPolicyLoad`; `LimitsAreRecognised` | `FetchConstants`; for the last also `LimitsAreDocumented` |
| `JwksProofs` | `KeyCacheInv`, `NobodyIsForgotten` | `SpacedRefreshes`, `WithdrawnKeysDie`, `RotationsAreNoticed`, `UnavailableIsHonest`; `CallersAreKept`, `TurnsAreKeptByAll` | `KeyCacheConstants` |
| `AuthorizationProofs` | `AuthInv`, `PolicyIsSound` | `FirstMatch`, `GrantsAreExact`; `PatternsKeepToPulls`; `SubjectsAreBound`; `ShadowsStayOpen` | `FilesAreParsed`, `RulesAreParsed`, `RequestsAreParsed`; one more each: no ref is written as the pattern with a blank; no subject holds a blank or the pattern for a ref; `None` is no workflow reference |
| `MintProofs` | `MintInv`, `CallsInv` | `GrantsAreScoped`, `OneInstallationOnly`, `BoundedCalls`, `KnownOrphans`; `CallsAreMints`, `CallsEnd`, `JwtLasts` | `MintConstants`; for the calls also `CallConstants`, `JwtOutlastsCalls` |
| `ClientProofs` | `ActionInv`, `ReadInv` | `OutputsAreRevocable`, `NothingLeftSilently`; `PoliciesReadOneWay`, `BodiesReadOneWay`, `ClientsAreUnderstood`, `NamesStayExact` | `ActionConstants`; for the texts `InputsAreWritten`, `FilesAreTrees`, `RulesAreWritten`, `PlacesAreWritten` (what JSON, TOML and the types of the code can hold) and `NoneIsNoText`, `NoneIsNoBody`, `PartsAreTexts` (facts about the representation) |

**Exchange.** `TokenChain` (granted <= minted <= claims <= 1) is not inductive: the step to exclude is a second
conditional write after the first record was swept. That no invocation can still make it needs time, and
`IInv` adds just that: an invocation lives for `LAMBDA_TIMEOUT` (`InvocationsAreShort`), one that passed
the time checks began before every clock called the token expired (`VerifiedInTime`), and a claim has
its record until `Ttl(t)` (`TableRemembers`). The lemma `TtlIsExact` computes the ttl of the code, saturation and
wrapping included, as `exp + 5 + 60`; with `MarginCoversInvocation` the record outlives all of them
(`NoRecordMeansUnclaimed`). `OneOwner` and `OnePost` carry the uniqueness from the claim over the POST, which may take effect after its
sender gave up. `MarginCoversInvocation` is what the deployment must provide: 30 seconds of
Lambda and clocks at most 30 seconds off fit the 60 exactly. For the refinement, `Stage` maps the history of a token to
the abstract stage; `StageCases` lists its values, and each action is shown to advance one token or none.

**Service.** `Checked` says what each step of a request has behind it, `PairWorked` that a policy in the cache was loaded
with the pair the process still has, `ClaimedByStep` that this request's record is written exactly between the steps before
and after the claim. What a code says of the token follows from the step it arises in.

**PolicyCache.** `BackoffIsBounded` shows that clamp, product, cap and jitter, in the code's order, never wait
for less than GitHub asked (up to the cap), for any number of limits in a row. `EmbargoIsKept` follows that
wait from the answer to `set_backoff` to the end of the backoff. `PolicyIsDated` bounds how long ago the answer
and the snapshot were hosted; `FreshIsLast` says that a fresh snapshot came of the last load, from which failing closed follows.

**PolicyFetch.** `TokenIsKnown` relates what the process was told to what GitHub did: a refused POST has made no token, a
fetch is under way only with a token of the exact scope, and a load that ended without having heard of its revocation sent it.
`UntilIsTold` ties the end of the limit to the refusal on the wire, whatever the delay of its delivery. For the refinement only the
return matters: the steps before it are stutters of `PolicyLoad`, the return is its answer. `LimitsAreHeard` has two halves.
`LimitsAreVerdicts`: whatever the code asks for first, status, headers or body, a limit is recognised by one of its documented marks
(`LimitsAreDocumented`, which says nothing of refusals that are no limits). `WaitsAreTold`: the wait of any refusal, seconds or a time of
day, read by a clock that is off after a delay on the wire, ends by what `until` says, or is the default or a second.

**JwksCache.** `AttemptIsKnown` ties the remembered attempt to the request under way, `KeysAreDated` what is cached
or on its way to what was published when it was fetched. That a 503 is honest needs the cooldown to be no longer than the ttl.

**The locks.** In both caches a lock is held while GitHub takes its time, so what could be wrong is that a caller is lost in
the queue, stands in it twice, or is overtaken for ever. `NobodyIsForgotten` excludes the first two for any number of callers: the queue is
exactly the calls that have not returned, and a load that was answered still has its answer, so the head always has a step.
`FirstComeFirstServed` and `TurnsAreKept` exclude the third; a call loses its place at most once, between the two looks
of `decoding_key_for`. With the fairness above, this is why `EveryCallReturns` does not depend on the two callers of the runs.
`TurnsAreKept` is checked in `jwks_cache`; `FirstComeFirstServed` was checked with three callers before it was proved, and no run repeats that.

**Authorization.** `Narrowed`: before each criterion the list is exactly the rules that pass all the criteria before it. So the
seven passes are one conjunction, and "first of the remaining" is "first that matches". `PolicyIsSound` carries over what
acceptance has checked: no two rules overlap, the targets of a rule have different names. `ChosenByName` turns that and
the different names of a request into the exact scope of a grant. `RulesAreParsed` and `RequestsAreParsed` are what the types of
`src/config.rs` and `src/exchange.rs` leave of a file and of a body.

**InstallationMint.** `OneExpectation`: whatever was looked up agreed with one id, and that id is the one asked.
The comparison of lengths and of sorted lists in the code is equality of sets because the targets of a rule are distinct
(`ComparisonIsEquality`); that is where the scope theorem rests.

**AppCalls.** `CallsAreMints` lets everything proved of `InstallationMint` hold of its calls in time. `CallsAreTimed` gives the
targets before the current one their full time and the current one its first attempt and delay; `SignedFirst` says that
the JWT is as old as the calls. `JwtOutlastsCalls` asks that the longest target list leaves it a minute (36 targets with the code's constants).

**Written.** `ReadInv` says what is known at each stage: the request is the body as it was read (`RequestIsRead`), the client
sent one of the bodies of what it took (`ClientIsAt`), what was taken passed its checks (`ChecksAreBehind`). The work is in the lemmas:
`TakenBodiesReadOneWay` for anybody's body; `EveryValueIsVisited`, by induction over positions, that a file whose root could be read had each of its
values visited by the parser on the way down, hence `ParsedHasNoTwins`, and without duplicates the two readings of `PolicyReadsOneWay` are the same; `ClientIsRead`, that the broker makes of the client's body just what the client meant
by it (`Meant`), however many names it has and whatever blanks stood around them; `GrantsAreAccepted`, that the filter of the rule's targets,
in the rule's order, has the number and the names the client compares (`KeptIsWanted`, `ListsAreCounted`); `JoinAppends`, that resolving
a URL against a base with a slash at its end appends every segment that is no dots. The functions
that walk a list (`Join`, `Kept`) are followed by induction over a set of numbers (`AllNumbers`, from the well-foundedness of the order on
`Nat`), since the induction theorems of the library cannot be instantiated here.

**ActionRun.** `MainIsOrdered` and `PostIsOrdered` say what each program knows at each of its steps, at whatever
step the other side was stopped.

What stays with TLC: liveness under fairness (`EveryCallReturns` and `Recovers` of the policy cache, `EveryCallReturns` and
`PublishedKeyWorks` of the key cache), which the prover does not reach. Every other property of a passing run is a theorem. `Powers` is a fact of arithmetic that the installed provers do not know.

## Not modelled

The exchange URL check (`scripts/validate-exchange-url.js`: two strings, compared before anything else), the CI
workflows, the resources that `template.yaml` and the other scripts declare; the statuses, wording and headers of answers, logging,
redaction; cryptography (a signature is good or it is not); the classes of characters, of which one bad
one stands for all, and what the limits of lengths are (a text is long or it is not); HTTP and TLS below a request.

## Plan

1. Done: `OncePerToken`, `Exchange`, `PolicyCache`, `JwksCache`, `PolicyFile` and `Authorization`,
   `InstallationMint`, `ActionRun`, and the safety proofs of each.
2. Done: the inside of the policy fetch and its refinement, the calls of the mint in time, the start and
   the service with every error, and the texts with their types; the proofs of all of them, for texts of any depth and length.
3. Left: `Broker`, `Exchange` composed with the caches and `AppCalls`, to bound how long a withdrawn rule
   or key still buys tokens end to end, and with `ActionRun` for the tokens orphaned by the 15 second
   client in front of a 30 second Lambda.
