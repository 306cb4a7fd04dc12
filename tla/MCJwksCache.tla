----------------------------- MODULE MCJwksCache -----------------------------
(***************************************************************************)
(* Two callers and one or two keys that GitHub publishes and withdraws at  *)
(* will; HTTP_TIMEOUT < JWKS_REFRESH_COOLDOWN < JWKS_TTL as in the code.   *)
(***************************************************************************)
EXTENDS JwksCache
===============================================================================
