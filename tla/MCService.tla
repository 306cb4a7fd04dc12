------------------------------ MODULE MCService ------------------------------
(***************************************************************************)
(* Every setting of the environment, every kind of request.                *)
(***************************************************************************)
EXTENDS Service
===============================================================================
