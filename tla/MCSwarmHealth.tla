----------------------------- MODULE MCSwarmHealth -----------------------------
(***************************************************************************)
(* Two contents, of which one at a time is offered to the checker.         *)
(***************************************************************************)
EXTENDS SwarmHealth

CONSTANTS x, y
===============================================================================
