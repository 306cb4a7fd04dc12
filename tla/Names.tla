--------------------------------- MODULE Names ---------------------------------
(***************************************************************************)
(* The types that check what is written (impl_string_newtype in            *)
(* src/main.rs, src/github/repositories.rs, src/github/permissions.rs,     *)
(* src/config.rs), and the URLs that are made of them (src/github/api.rs). *)
(*                                                                         *)
(* A text is the sequence of what stands between its slashes: segments     *)
(* [text, pad].  pad of the first and the last one says whether blanks     *)
(* stand at that end of the whole text; other blanks belong to the text of *)
(* a segment.  The text "?" has a character that is neither letter, digit, *)
(* nor one of "-_.".                                                       *)
(***************************************************************************)
EXTENDS Integers, Sequences, SequencesExt

CONSTANTS
    None,      \* Option::None, or what is no value of a type
    LowerCase  \* letters in upper case, to lower case

Segment(text, pad) == [text |-> text, pad |-> pad]
Plain(text) == Segment(text, FALSE)
Texts(written) == [i \in DOMAIN written |-> written[i].text]

\* Mutant: the segments that go up or nowhere are slugs.
MutIsValidSlug(text) == text \notin {"", "?"}

\* is_valid_slug
IsValidSlug(text) == text \notin {"", ".", "..", "?"}

\* RepositoryFullName::try_from: one slash, and a slug on either side of it once the
\* blanks are off; the name is kept without them.
FullName(written) ==
    IF Len(written) = 2 /\ \A i \in {1, 2} : IsValidSlug(written[i].text)
    THEN Texts(written) ELSE None

Fold(text) == IF text \in DOMAIN LowerCase THEN LowerCase[text] ELSE text

\* eq_ignore_ascii_case
SameIgnoringCase(name, other) ==
    [i \in DOMAIN name |-> Fold(name[i])] = [i \in DOMAIN other |-> Fold(other[i])]

\* RepositoryId, and the id of an installation: a number that is not zero.
Id(written) == IF written \in Nat \ {0} THEN written ELSE None

\* is_valid_repository_permission
PermissionIsValid(name, level) ==
    \/ name = "repository_projects"
    \/ name = "workflows" /\ level = "write"
    \/ name = "contents" /\ level # "admin"

\* is_valid_policy_path: a JSON file under .github, of slugs, not too long.
PolicyPath(written, long) ==
    IF /\ ~long /\ Len(written) >= 2
       /\ written[1].text = ".github" /\ Last(written).text \in {"policy.json", ".json"}
       /\ \A i \in 2..Len(written) : IsValidSlug(written[i].text)
    THEN Texts(written) ELSE None

Numbers     == {"5"}   \* texts that are a positive number without a zero in front
YamlFiles   == {"ci.yml", "..yml", "?.yml"}
PullPattern == <<"refs", "pull", "*", "merge">>

\* is_pull_request_merge_ref, and is_valid_git_ref
IsPullRef(ref) == Len(ref) = 4 /\ ref[3] \in Numbers /\ [ref EXCEPT ![3] = "*"] = PullPattern

ValidGitRef(ref) ==
    \/ Len(ref) > 2 /\ ref[1] = "refs" /\ ref[2] \in {"heads", "tags"} /\ Tail(Tail(ref)) # <<"">>
    \/ ref = PullPattern
    \/ IsPullRef(ref)

\* GitRef::try_from: the blanks at the ends come off.
GitRef(written) ==
    IF ValidGitRef(Texts(written)) THEN Texts(written) ELSE None

\* GitRef::matches, with the ref of a claim as it is written
RefTakes(ref, claim) ==
    /\ \A i \in DOMAIN claim : ~claim[i].pad
    /\ IF ref = PullPattern THEN IsPullRef(Texts(claim)) ELSE ref = Texts(claim)

\* is_valid_workflow_filename: a YAML file of the folder, without two dots in a row.
WorkflowFile(written) ==
    Len(written) = 1 /\ ~written[1].pad /\ written[1].text \in YamlFiles \ {"..yml", "?.yml"}

\* WorkflowPath::try_from: anything below .github/workflows that ends like YAML.
WorkflowPath(written) ==
    IF /\ Len(written) > 2 /\ SubSeq(Texts(written), 1, 2) = <<".github", "workflows">>
       /\ Last(written).text \in YamlFiles
    THEN Texts(written) ELSE None

-------------------------------------------------------------------------------
\* URLs

\* GithubApiBase::try_from: the one host by HTTPS and nothing else, and a slash at the
\* end of the path (an empty last segment).
ApiBase(url) ==
    IF url.scheme = "https" /\ url.host = "api.github.com" /\ ~url.port /\ ~url.user /\ ~url.query
    THEN [url EXCEPT !.path = IF Last(@) = "" THEN @ ELSE Append(@, "")]
    ELSE None

\* One more segment of a path that is resolved.
Step(path, segment) ==
    CASE segment = "."  -> path
      [] segment = ".." -> IF path = <<>> THEN path ELSE Front(path)
      [] OTHER          -> Append(path, segment)

\* Url::join with a path that has no slash in front: it takes the place of the last
\* segment of the base.
Join(base, path) ==
    LET reached[n \in 0..Len(path)] ==
            IF n = 0 THEN Front(base.path) ELSE Step(reached[n - 1], path[n])
    IN [base EXCEPT !.path = reached[Len(path)]]

\* The URLs of the lookup and of the policy file, and that of a token.
LookupUrl(base, name) == Join(base, <<"repos">> \o name \o <<"installation">>)
PolicyUrl(base, name, path) == Join(base, <<"repos">> \o name \o <<"contents">> \o path)
TokensUrl(base, installation) == Join(base, <<"app", "installations", installation, "access_tokens">>)
===============================================================================
