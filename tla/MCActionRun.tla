----------------------------- MODULE MCActionRun -----------------------------
(***************************************************************************)
(* The broker may work longer than the client waits, a token may expire    *)
(* before the job does, and the runner's clock may be fast or slow.        *)
(***************************************************************************)
EXTENDS ActionRun
===============================================================================
