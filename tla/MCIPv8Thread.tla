----------------------------- MODULE MCIPv8Thread -----------------------------
(***************************************************************************)
(* Five objects: enough for some before the loop, some before the overlay  *)
(* and some after it.                                                      *)
(***************************************************************************)
EXTENDS IPv8Thread
===============================================================================
