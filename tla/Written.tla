-------------------------------- MODULE Written --------------------------------
(***************************************************************************)
(* What is written and how it is read: the inputs of the action and the    *)
(* body its client makes of them (action/main.js), the body as the broker  *)
(* reads it and the answer as the client reads it (src/exchange.rs,        *)
(* src/response.rs), the text of a policy file (src/config.rs), and the    *)
(* places that make a URL.                                                 *)
(*                                                                         *)
(* The JSON of a body is the sequence of its parts: of the members [key,   *)
(* value] of an object, as they are written, or of the elements of a list. *)
(* A policy text is a tree: a function from the positions of its values,   *)
(* sequences of indices, to [kind, key, atom], key being that of the       *)
(* member that stands there, or None.                                      *)
(***************************************************************************)
EXTENDS Names, FiniteSets, Functions

CONSTANTS
    Inputs,       \* [repository, repositories, permissions] of a job
    Bodies,       \* bodies of anybody: [long, form, parts], form an object or a list
    PolicyTexts,  \* texts of policy files, as trees
    RuleNames,    \* [caller_ref, caller_workflow] of a version 2 rule
    ClaimedRefs,  \* refs of tokens
    Places,       \* [url, repository, id, path, long]: an API base and a PolicyLocation
    MAX_DEPTH,    \* of values within one another, for serde_json: 127
    Rules         \* a rule that granted: its targets, and its form: its own repository, one, a list

VARIABLES
    stage,    \* what happens next: client, broker, answer, check, policy, locate, or done
    inputs,   \* of the job, or None
    body,     \* what was sent, or None
    request,  \* the body as it was read: NoBody, Invalid or a request
    answer,   \* the scope in the answer: [repository, repositories]
    policy,   \* the text of the file
    place     \* where something is looked for, or the names of a rule

\* What JSON and TOML can be and what the types of the code leave of it: a name that is
\* written is a sequence of segments; every value of a text stands in another one; the
\* targets of a rule are different (Distinct in PolicyFile).
Segments == [text : STRING, pad : BOOLEAN]
Urls     == [scheme : STRING, host : STRING, port : BOOLEAN, user : BOOLEAN, query : BOOLEAN,
             path : Seq(STRING) \ {<<>>}]

Member(k, v) == [key |-> k, value |-> v]

\* RawExchangeRequest: an object, or a list of its fields in their order.
BodyField(i) == IF i \in 1..3 THEN <<"repository", "repositories", "permissions">>[i] ELSE None
Members(sent) ==
    IF sent.form = "object" THEN sent.parts
    ELSE [i \in DOMAIN sent.parts |-> Member(BodyField(i), sent.parts[i])]

WellFormed(sent) ==
    LET ms == Members(sent)
    IN /\ Len(ms) \in Nat /\ DOMAIN ms = 1..Len(ms)
       /\ \A i \in DOMAIN ms :
            ms[i].key = "repositories" => ms[i].value \in Seq(Seq(Segments)) \/ ms[i].value = None

\* What is put into a path by the broker; the provers do not know that a text is a string.
ASSUME PartsAreTexts ==
    {"", ".github", "workflows", "repos", "installation", "contents",
     "app", "installations", "id", "access_tokens"} \subseteq STRING

ASSUME NoneIsNoText == None \notin Seq(STRING) \cup Seq(Seq(STRING)) \cup Seq(Seq(Segments))

ASSUME InputsAreWritten ==
    /\ None \notin Inputs \cup Bodies \cup Places
    /\ \A in \in Inputs :
         /\ in.repository \in Seq(Segments) \/ in.repository = None
         /\ in.repositories \in Seq(Seq(Segments)) \/ in.repositories = None
    /\ \A sent \in Bodies : WellFormed(sent)

\* The values that stand in the value at a position.
Within(text, p) == {q \in DOMAIN text : q # <<>> /\ Front(q) = p}

ASSUME FilesAreTrees ==
    /\ MAX_DEPTH \in Nat
    /\ \A text \in PolicyTexts : \A p \in DOMAIN text :
         /\ p \in Seq(Nat) /\ \A n \in 0..Len(p) : SubSeq(p, 1, n) \in DOMAIN text
         /\ \A q \in Within(text, p) :
              /\ text[p].kind \in {"list", "object"}
              /\ text[p].kind = "object" <=> text[q].key # None

ASSUME RulesAreWritten ==
    \A rule \in Rules :
        /\ rule.targets \in Seq(Seq(STRING)) /\ rule.targets # <<>> /\ IsInjective(rule.targets)
        /\ rule.form \in {"own", "one", "list"}

ASSUME PlacesAreWritten ==
    /\ \A where \in Places :
         /\ where.url \in Urls
         /\ where.repository \in Seq(Segments) /\ where.path \in Seq(Segments)
    /\ \A name \in RuleNames :
         name.caller_ref \in Seq(Segments) /\ name.caller_workflow \in Seq(Segments)
    /\ ClaimedRefs \subseteq Seq(Segments)

texts == <<stage, inputs, body, request, answer, policy, place>>

NoBody  == [kind |-> "none", repositories |-> <<>>, multiple |-> FALSE, permissions |-> <<>>]
Invalid == [kind |-> "invalid", repositories |-> <<>>, multiple |-> FALSE, permissions |-> <<>>]

Keys(ms)   == {ms[i].key : i \in DOMAIN ms}
OneEach(ms) == \A i, j \in DOMAIN ms : ms[i].key = ms[j].key => i = j
At(ms, k)  == LET i == CHOOSE i \in DOMAIN ms : ms[i].key = k IN ms[i].value
Given(ms, k) == IF k \in Keys(ms) THEN At(ms, k) ELSE None

-------------------------------------------------------------------------------
\* The client

\* The pattern of OWNER/REPO; a list is trimmed line by line, one name is not.
ClientName(written, trimmed) ==
    /\ Len(written) = 2
    /\ \A i \in {1, 2} : IsValidSlug(written[i].text) /\ (trimmed \/ ~written[i].pad)

\* parsePermissions: known names with a level they have, each once.
ClientPermissions(lines) ==
    /\ lines # <<>> /\ OneEach(lines)
    /\ \A i \in DOMAIN lines :
         /\ lines[i].key \in {"contents", "workflows", "repository_projects"}
         /\ ~(lines[i].key = "workflows" /\ lines[i].value # "write")
         /\ ~(lines[i].key # "repository_projects" /\ lines[i].value = "admin")

\* parseRepositories: two or more, no two the same but for case.
ClientList(list) ==
    /\ Len(list) >= 2
    /\ \A i \in DOMAIN list : ClientName(list[i], TRUE)
    /\ \A i, j \in DOMAIN list : i # j => ~SameIgnoringCase(Texts(list[i]), Texts(list[j]))

\* The checks of run(), before anything is asked for.
ClientTakes(in) ==
    /\ in.repository = None \/ in.repositories = None
    /\ (in.repository # None \/ in.repositories # None) <=> in.permissions # None
    /\ in.repository # None => ClientName(in.repository, FALSE)
    /\ in.repositories # None => ClientList(in.repositories)
    /\ in.permissions # None => ClientPermissions(in.permissions)

\* Names in the body of the client are without blanks.
Bare(written) == [i \in DOMAIN written |-> Plain(written[i].text)]

\* An empty body, or one with the names and the permissions; a list may be long.
ClientBody(in) ==
    IF in.permissions = None THEN {None}
    ELSE IF in.repository # None
         THEN {[long |-> FALSE, form |-> "object",
                parts |-> <<Member("repository", in.repository),
                            Member("permissions", in.permissions)>>]}
         ELSE [long : BOOLEAN, form : {"object"},
               parts : {<<Member("repositories", [i \in DOMAIN in.repositories |-> Bare(in.repositories[i])]),
                          Member("permissions", in.permissions)>>}]

\* A body that is sent is none only if nothing is.
ASSUME NoneIsNoBody ==
    \A in \in Inputs : ClientTakes(in) /\ in.permissions # None => None \notin ClientBody(in)

\* The scope in an answer must be the one that was asked for, in the same form.
ClientAccepts(in, scope) ==
    IF in.repositories # None
    THEN /\ scope.repository = None /\ scope.repositories # None
         /\ Len(scope.repositories) = Len(in.repositories)
         /\ \A i \in DOMAIN in.repositories : Texts(in.repositories[i]) \in ToSet(scope.repositories)
    ELSE /\ scope.repository # None /\ scope.repositories = None
         /\ in.repository # None => scope.repository = Texts(in.repository)

-------------------------------------------------------------------------------
\* The broker

\* Permissions::deserialize
ReadPermissions(ms) ==
    /\ ms # <<>> /\ OneEach(ms)
    /\ \A i \in DOMAIN ms : PermissionIsValid(ms[i].key, ms[i].value)

\* The names of a body, read one by one.
ReadNames(list) == [i \in DOMAIN list |-> FullName(list[i])]

\* Mutant: a body may name a target twice.
MutReadBody(sent) ==
    LET ms    == Members(sent)
        list  == Given(ms, "repositories")
        names == IF list # None THEN ReadNames(list) ELSE ReadNames(<<Given(ms, "repository")>>)
    IN IF \/ sent.long \/ Given(ms, "permissions") = None
          \/ (Given(ms, "repository") = None) = (list = None)
          \/ ~ReadPermissions(At(ms, "permissions")) \/ None \in ToSet(names)
       THEN Invalid
       ELSE [kind |-> "request", repositories |-> names, multiple |-> list # None,
             permissions |-> At(ms, "permissions")]

\* get_exchange_request: each known field once and no other, permissions, and either one
\* repository or two or more that differ not only in case; 1024 bytes at most.
ReadBody(sent) ==
    LET ms    == Members(sent)
        one   == Given(ms, "repository")
        list  == Given(ms, "repositories")
        names == IF list # None THEN ReadNames(list) ELSE ReadNames(<<one>>)
    IN IF \/ sent.long
          \/ ~OneEach(ms) \/ ~Keys(ms) \subseteq {"repository", "repositories", "permissions"}
          \/ Given(ms, "permissions") = None \/ ~ReadPermissions(At(ms, "permissions"))
          \/ (one = None) = (list = None)
          \/ list # None /\ Len(list) < 2
          \/ None \in ToSet(names)
          \/ \E i, j \in DOMAIN names : i # j /\ SameIgnoringCase(names[i], names[j])
       THEN Invalid
       ELSE [kind |-> "request", repositories |-> names, multiple |-> list # None,
             permissions |-> At(ms, "permissions")]

\* Mutant: the answer has the form of the rule, not of the request.
MutScope(asked, rule) ==
    IF rule.form = "list" THEN [repository |-> None, repositories |-> rule.targets]
                          ELSE [repository |-> rule.targets[1], repositories |-> None]

\* The elements of a sequence that are wanted, in their order.
Keep(kept, x, wanted) == IF x \in wanted THEN Append(kept, x) ELSE kept

Kept(list, wanted) ==
    LET kept[n \in 0..Len(list)] ==
            IF n = 0 THEN <<>> ELSE Keep(kept[n - 1], list[n], wanted)
    IN kept[Len(list)]

\* The targets of the rule that were asked for, in the rule's order, in the form of the
\* request; without a body, the rule's own repository.
Scope(asked, rule) ==
    LET granted == IF asked.kind = "none" THEN rule.targets
                   ELSE Kept(rule.targets, ToSet(asked.repositories))
    IN IF asked.multiple THEN [repository |-> None, repositories |-> granted]
                         ELSE [repository |-> granted[1], repositories |-> None]

\* The rule allows the targets (Authorization says which rules do).
Allows(rule, asked) ==
    IF asked.kind = "none" THEN rule.form = "own"
    ELSE /\ ToSet(asked.repositories) \subseteq ToSet(rule.targets)
         /\ asked.multiple => rule.form = "list"

-------------------------------------------------------------------------------
\* Policy files

\* Mutant: the elements of a list are read as plain values.
MutVisits(text, p, read) ==
    text[p].kind = "object" =>
        /\ Within(text, p) \subseteq read
        /\ \A q, e \in Within(text, p) : Last(e) < Last(q) => text[e].key # text[q].key

\* visit_seq and visit_map: every element or member must be one that can be read, and a
\* member must not have the key of one before it.
Visits(text, p, read) ==
    /\ Within(text, p) \subseteq read
    /\ text[p].kind = "object" =>
         \A q, e \in Within(text, p) : Last(e) < Last(q) => text[e].key # text[q].key

\* StrictValue::deserialize calls itself for what stands in a value: the values that can
\* be read, of those that have up to so many within one another.
Readable(text, read) == {p \in DOMAIN text : Visits(text, p, read)}

Atoms(text) == {p \in DOMAIN text : text[p].kind \in {"atom", "null"}}

StrictValues(text) ==
    LET read[depth \in 0..MAX_DEPTH] ==
            IF depth = 0 THEN Atoms(text) ELSE Readable(text, read[depth - 1])
    IN read[MAX_DEPTH]

\* parse_strict_json
Parses(text) == <<>> \in StrictValues(text)

\* The structs of the files: their fields in order, the type of each, and whether it must
\* be there, has a default, or is an Option, which may also be null.
Field(name, type, class) == [name |-> name, type |-> type, class |-> class]

Values(names, class) == [i \in DOMAIN names |-> Field(names[i], "value", class)]

Struct(name) ==
    CASE name = "RawHostedPolicy" ->
           Values(<<"version">>, "must") \o <<Field("rules", "Vec<RawPolicyRule>", "must")>>
      [] name = "RawHostedPolicyV2" ->
           Values(<<"version">>, "must") \o
           <<Field("repositories", "BTreeMap<RawRepositoryV2>", "must"),
             Field("installations", "BTreeMap<value>", "default"),
             Field("rules", "Vec<RawPolicyRuleV2>", "must")>>
      [] name = "RawRepositoryV2" ->
           Values(<<"name", "id", "oidc_subject">>, "must") \o Values(<<"owner_id">>, "option")
      [] name = "RawPolicyRuleV2" ->
           <<Field("caller", "value", "must"), Field("environment", "value", "option"),
             Field("caller_ref", "value", "default"), Field("caller_workflow", "value", "must"),
             Field("reusable_workflow", "value", "option"), Field("on", "Vec<value>", "must"),
             Field("permissions", "Permissions", "must"), Field("target", "value", "option"),
             Field("targets", "Vec<value>", "option"), Field("installation", "value", "option")>>
      [] name = "RawPolicyRule" ->
           Values(<<"subject", "repository", "repository_id", "ref", "workflow_path">>, "must") \o
           Values(<<"job_workflow_path", "environment">>, "option") \o
           <<Field("allowed_events", "Vec<value>", "default"),
             Field("permissions", "Permissions", "option")>> \o
           Values(<<"target_repository", "target_repository_id">>, "option") \o
           <<Field("target_repositories", "Vec<RawRepositoryTarget>", "option"),
             Field("target_installation_id", "value", "option")>>
      [] name = "RawRepositoryTarget" -> Values(<<"repository", "repository_id">>, "must")
      [] OTHER -> <<>>

\* What stands in a container.
ElementType(type) ==
    CASE type = "Vec<RawPolicyRule>"        -> "RawPolicyRule"
      [] type = "Vec<RawPolicyRuleV2>"      -> "RawPolicyRuleV2"
      [] type = "Vec<RawRepositoryTarget>"  -> "RawRepositoryTarget"
      [] type = "BTreeMap<RawRepositoryV2>" -> "RawRepositoryV2"
      [] type \in {"Vec<value>", "BTreeMap<value>", "Permissions"} -> "value"
      [] OTHER -> "none"

Lists == {"Vec<RawPolicyRule>", "Vec<RawPolicyRuleV2>", "Vec<RawRepositoryTarget>", "Vec<value>"}
Maps  == {"BTreeMap<RawRepositoryV2>", "BTreeMap<value>", "Permissions"}

\* The field of a struct that a value in it is for: by its key, or by its place in a list.
FieldOf(type, key, index) ==
    LET named == {i \in DOMAIN Struct(type) :
                     IF key = None THEN i = index ELSE Struct(type)[i].name = key}
    IN IF named # {} THEN Struct(type)[CHOOSE i \in named : TRUE]
                     ELSE Field("element", ElementType(type), "must")

\* What is expected at a position, from the root down.
Expected(text, root, p) ==
    LET at[n \in 0..Len(p)] ==
            IF n = 0 THEN Field("root", root, "must")
            ELSE FieldOf(at[n - 1].type, text[SubSeq(p, 1, n)].key, p[n])
    IN at[Len(p)]

\* A struct as an object: no unknown field, and those that must be there; as a list: no
\* more elements than fields, and the last ones may be missing if they have a default.
HasFields(text, p, fields) ==
    IF text[p].kind = "object"
    THEN LET keys == {text[q].key : q \in Within(text, p)}
         IN /\ keys \subseteq {fields[i].name : i \in DOMAIN fields}
            /\ {fields[i].name : i \in {i \in DOMAIN fields : fields[i].class = "must"}} \subseteq keys
    ELSE LET given == Cardinality(Within(text, p))
         IN /\ text[p].kind = "list" /\ given <= Len(fields)
            /\ \A i \in DOMAIN fields : fields[i].class = "must" => i <= given

\* from_value for the struct of a version
Fits(text, root) ==
    \A p \in DOMAIN text :
        LET field == Expected(text, root, p)
        IN \/ field.class = "option" /\ text[p].kind = "null"
           \/ field.type = "value" /\ text[p].kind = "atom"
           \/ field.type \in Lists /\ text[p].kind = "list"
           \/ /\ field.type \in Maps /\ text[p].kind = "object"
              /\ field.type = "Permissions" =>
                   /\ Within(text, p) # {}
                   /\ \A q \in Within(text, p) : PermissionIsValid(text[q].key, text[q].atom)
           \/ Struct(field.type) # <<>> /\ HasFields(text, p, Struct(field.type))

\* Policy::from_hosted, as far as the text goes: the version chooses the struct.
TextIsTaken(text) ==
    /\ Parses(text)
    /\ \E version \in {"1", "2"} :
         /\ {text[p].atom : p \in {p \in Within(text, <<>>) : text[p].key = "version"}} = {version}
         /\ Fits(text, IF version = "1" THEN "RawHostedPolicy" ELSE "RawHostedPolicyV2")

-------------------------------------------------------------------------------
ReadInit ==
    /\ request = NoBody
    /\ answer = [repository |-> None, repositories |-> None]
    /\ \/ stage = "client" /\ inputs \in Inputs /\ body = None /\ policy = None /\ place = None
       \/ stage = "broker" /\ inputs = None /\ body \in Bodies /\ policy = None /\ place = None
       \/ stage = "policy" /\ inputs = None /\ body = None /\ policy \in PolicyTexts /\ place = None
       \/ stage = "rule" /\ inputs = None /\ body = None /\ policy = None /\ place \in RuleNames
       \/ stage = "locate" /\ inputs = None /\ body = None /\ policy = None /\ place \in Places

\* The client refuses its inputs, or sends a body.
ClientSends ==
    /\ stage = "client"
    /\ IF ClientTakes(inputs) THEN stage' = "broker" /\ body' \in ClientBody(inputs)
                              ELSE stage' = "refused" /\ UNCHANGED body
    /\ UNCHANGED <<inputs, request, answer, policy, place>>

BrokerReads ==
    /\ stage = "broker"
    /\ request' = IF body = None THEN NoBody ELSE ReadBody(body)
    /\ stage' = IF request'.kind = "invalid" THEN "done" ELSE "answer"
    /\ UNCHANGED <<inputs, body, answer, policy, place>>

\* A rule grants what was asked for.
BrokerAnswers(rule) ==
    /\ stage = "answer"
    /\ Allows(rule, request)
    /\ answer' = Scope(request, rule)
    /\ stage' = "check"
    /\ UNCHANGED <<inputs, body, request, policy, place>>

\* The client takes the answer or fails the job.
ClientChecks ==
    /\ stage = "check" /\ inputs # None
    /\ stage' = IF ClientAccepts(inputs, answer) THEN "done" ELSE "failed"
    /\ UNCHANGED <<inputs, body, request, answer, policy, place>>

PolicyIsRead ==
    /\ stage = "policy"
    /\ stage' = IF TextIsTaken(policy) THEN "taken" ELSE "refused"
    /\ UNCHANGED <<inputs, body, request, answer, policy, place>>

\* The places are checked: a URL is made of them, or none.
Locate ==
    /\ stage = "locate"
    /\ stage' = IF /\ ApiBase(place.url) # None /\ FullName(place.repository) # None
                   /\ PolicyPath(place.path, place.long) # None /\ Id(place.id) # None
                THEN "located" ELSE "refused"
    /\ UNCHANGED <<inputs, body, request, answer, policy, place>>

\* The names of a rule are checked: the file as it is written, the ref by its type.
RuleIsNamed ==
    /\ stage = "rule"
    /\ stage' = IF WorkflowFile(place.caller_workflow) /\ GitRef(place.caller_ref) # None
                THEN "named" ELSE "refused"
    /\ UNCHANGED <<inputs, body, request, answer, policy, place>>

ReadNext ==
    \/ ClientSends \/ BrokerReads \/ ClientChecks \/ PolicyIsRead \/ Locate \/ RuleIsNamed
    \/ \E rule \in Rules : BrokerAnswers(rule)

ReadSpec == ReadInit /\ [][ReadNext]_texts

-------------------------------------------------------------------------------
\* What is known at each stage

\* The request is the body as it was read, and the answer is one that a rule grants.
RequestIsRead ==
    /\ body # None => WellFormed(body)
    /\ request = NoBody \/ (body # None /\ request = ReadBody(body))
    /\ stage \in {"answer", "check", "done"} => request = IF body = None THEN NoBody ELSE ReadBody(body)
    /\ stage \in {"answer", "check"} => request.kind # "invalid"
    /\ stage = "check" => \E rule \in Rules : Allows(rule, request) /\ answer = Scope(request, rule)

\* The client has sent what it took.
ClientIsAt ==
    /\ stage = "client" => inputs # None
    /\ inputs # None =>
        /\ inputs \in Inputs
        /\ stage \in {"client", "broker", "answer", "check", "done", "refused"}
        /\ stage \in {"client", "broker", "refused"} => request = NoBody
        /\ stage \notin {"client", "refused"} => ClientTakes(inputs) /\ body \in ClientBody(inputs)

\* What was taken went through the checks.
ChecksAreBehind ==
    /\ stage \in {"policy", "taken"} => policy \in PolicyTexts
    /\ stage = "taken" => TextIsTaken(policy)
    /\ stage \in {"locate", "located"} => place \in Places
    /\ stage = "located" =>
         /\ ApiBase(place.url) # None /\ FullName(place.repository) # None
         /\ PolicyPath(place.path, place.long) # None
    /\ stage \in {"rule", "named"} => place \in RuleNames
    /\ stage = "named" => WorkflowFile(place.caller_workflow) /\ GitRef(place.caller_ref) # None

ReadInv == RequestIsRead /\ ClientIsAt /\ ChecksAreBehind

-------------------------------------------------------------------------------
\* Properties

\* Where a value is, as a reader names it: keys in objects, numbers in lists.
Place(text, p) ==
    [n \in 1..Len(p) |->
        LET key == text[SubSeq(p, 1, n)].key
        IN [key |-> key, index |-> IF key = None THEN p[n] ELSE 0]]

\* Two members of one object with one key.
Twins(text, p, q) ==
    /\ p # <<>> /\ q # <<>> /\ p # q /\ Front(p) = Front(q)
    /\ text[p].key # None /\ text[p].key = text[q].key

\* What a parser reads that takes the first of two members of one key, or the last, in
\* every object: the values it has, and where.
Reading(text, wins) ==
    LET Wins(p) == \A n \in 1..Len(p) : \A q \in DOMAIN text :
                       Twins(text, SubSeq(p, 1, n), q) =>
                           IF wins = "first" THEN p[n] < Last(q) ELSE p[n] > Last(q)
    IN {[at |-> Place(text, p), kind |-> text[p].kind, atom |-> text[p].atom] :
            p \in {p \in DOMAIN text : Wins(p)}}

\* A policy file that is taken says one thing only: every parser reads the same from it,
\* at every depth, be it the broker, a reviewer's tool or a person who stops at the
\* first of two entries.
PolicyReadsOneWay ==
    stage = "taken" => Reading(policy, "first") = Reading(policy, "last")

\* So does the body of an exchange that is taken: all it names is asked for, its targets
\* and its permissions are different, and nothing else stands in it.
BodyReadsOneWay ==
    request.kind = "request" =>
        /\ OneEach(Members(body)) /\ Len(Members(body)) >= 2
        /\ ToSet(request.repositories) =
             UNION {IF m.key = "repository" /\ m.value # None THEN {Texts(m.value)}
                    ELSE IF m.key = "repositories" /\ m.value # None
                         THEN {Texts(m.value[i]) : i \in DOMAIN m.value}
                         ELSE {} : m \in ToSet(Members(body))}
        /\ Len(request.repositories) = Cardinality(ToSet(request.repositories))
        /\ request.multiple <=> Len(request.repositories) > 1

\* Client and broker speak of the same: what the client takes from a job and sends, the
\* broker takes with the same names and permissions, unless it is too long, and the
\* scope that is granted passes the client's check, whatever the kind of the rule.
ClientIsUnderstood ==
    inputs # None =>
        /\ stage = "done" /\ request.kind = "invalid" => body.long
        /\ request.kind = "request" =>
             /\ request.permissions = inputs.permissions
             /\ request.repositories =
                  IF inputs.repositories # None
                  THEN [i \in DOMAIN inputs.repositories |-> Texts(inputs.repositories[i])]
                  ELSE <<Texts(inputs.repository)>>
        /\ stage # "failed"

\* Every URL has the path it was meant to have, on GitHub's host: no name, path or base
\* that is taken moves a request to another resource.
UrlsAreExact ==
    LET base == ApiBase(place.url)
        name == FullName(place.repository)
        path == PolicyPath(place.path, place.long)
        root == IF Last(place.url.path) = "" THEN Front(place.url.path) ELSE place.url.path
    IN /\ LookupUrl(base, name).path = root \o <<"repos">> \o name \o <<"installation">>
       /\ PolicyUrl(base, name, path).path = root \o <<"repos">> \o name \o <<"contents">> \o path
       /\ TokensUrl(base, "id").path = root \o <<"app", "installations", "id", "access_tokens">>
       /\ base.host = "api.github.com" /\ base.scheme = "https" /\ ~base.port

\* What one check of a rule lets pass, the next one does: a file of version 2 makes a
\* path that version 1 takes, and a ref of a token that matches the rule is a ref by
\* itself, so that no exchange is refused for it once its rule was found.
RuleStaysValid ==
    /\ WorkflowPath(<<Plain(".github"), Plain("workflows")>> \o place.caller_workflow) # None
    /\ \A claim \in ClaimedRefs :
         RefTakes(GitRef(place.caller_ref), claim) => GitRef(claim) = Texts(claim)

\* A text that a type has taken means the same wherever it is used afterwards.
NamesAreExact ==
    /\ stage = "located" => UrlsAreExact
    /\ stage = "named" => RuleStaysValid
===============================================================================
