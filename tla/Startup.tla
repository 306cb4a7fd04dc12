-------------------------------- MODULE Startup --------------------------------
(***************************************************************************)
(* Config::load (src/config.rs): what a process reads before it serves its *)
(* first request, and keeps for its life.  The App's id and its private    *)
(* key come from the environment or from two stores, which                 *)
(* scripts/deploy-secrets.sh writes one after the other.                   *)
(***************************************************************************)

VARIABLES
    env,       \* the settings: set, blank, absent or wrong
    ssm,       \* the generation of the App whose id is in the Parameter Store
    secret,    \* the generation of the App whose key is in the Secrets Manager
    proc,      \* the step of the start, up, or failed
    pair,      \* the generations of the id and of the key that were read
    error      \* why the start failed

started == <<env, pair>>
startVars == <<env, ssm, secret, proc, pair, error>>

\* The location stands for its five settings; a name of a parameter or a secret that is
\* absent is a store that fails.
Settings ==
    [location : {"set", "wrong", "absent"}, audience : {"set", "blank", "absent"},
     app_id : {"set", "blank", "absent"}, key : {"set", "blank", "absent"},
     table : {"set", "blank", "absent"}, api : {"set", "wrong", "absent"}]

StartInit ==
    /\ env \in Settings
    /\ ssm = "old" /\ secret = "old"
    /\ proc = "location"
    /\ pair = [id |-> "none", key |-> "none"]
    /\ error = "none"

Stores == <<ssm, secret>>

StartFails(why) ==
    /\ proc' = "failed"
    /\ error' = why

\* A setting that is read, or the error of its type.
ReadSetting(step, next, ok, why) ==
    /\ proc = step
    /\ IF ok THEN proc' = next /\ UNCHANGED error ELSE StartFails(why)
    /\ UNCHANGED <<started, Stores>>

\* PolicyLocation::from_env: repository, ids, path and ref.
ReadLocation == ReadSetting("location", "audience", env.location = "set", "policy_not_configured")

\* Without the variable the policy is not configured; blank, it is no audience.
ReadAudience ==
    ReadSetting("audience", "app_id", env.audience = "set",
                IF env.audience = "blank" THEN "invalid_policy" ELSE "policy_not_configured")

\* A blank variable is trimmed to nothing, which is as if it were not there.
FromEnv(setting) == env[setting] = "set"

\* The environment holds the id of the old App; else the store is asked, which may fail.
ReadAppId ==
    /\ proc = "app_id"
    /\ \/ /\ proc' = "key"
          /\ pair' = [pair EXCEPT !.id = IF FromEnv("app_id") THEN "old" ELSE ssm]
          /\ UNCHANGED error
       \/ /\ ~FromEnv("app_id")
          /\ StartFails("app_id_not_configured")
          /\ UNCHANGED <<pair>>
    /\ UNCHANGED <<env, Stores>>

ReadKey ==
    /\ proc = "key"
    /\ \/ /\ proc' = "table"
          /\ pair' = [pair EXCEPT !.key = IF FromEnv("key") THEN "old" ELSE secret]
          /\ UNCHANGED error
       \/ /\ ~FromEnv("key")
          /\ StartFails("app_private_key_not_configured")
          /\ UNCHANGED pair
    /\ UNCHANGED <<env, Stores>>

ReadTable == ReadSetting("table", "api", env.table = "set", "jti_table_not_configured")

\* GITHUB_API_URL has a default.
ReadApi == ReadSetting("api", "up", env.api # "wrong", "invalid_github_api_url")

\* deploy-secrets.sh: the id, then the key.
PutParameter ==
    /\ ssm = "old" /\ ssm' = "new"
    /\ UNCHANGED <<env, secret, proc, pair, error>>

PutSecret ==
    /\ ssm = "new" /\ secret = "old" /\ secret' = "new"
    /\ UNCHANGED <<env, ssm, proc, pair, error>>

\* Lambda starts the process again, or another one.
Restart ==
    /\ proc \in {"up", "failed"}
    /\ proc' = "location"
    /\ pair' = [id |-> "none", key |-> "none"]
    /\ error' = "none"
    /\ UNCHANGED <<env, Stores>>

Start ==
    \/ ReadLocation \/ ReadAudience \/ ReadAppId \/ ReadKey \/ ReadTable \/ ReadApi
    \/ PutParameter \/ PutSecret

\* GitHub knows the key for the id.
PairFits == pair.id = pair.key
===============================================================================
