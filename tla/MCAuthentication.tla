--------------------------- MODULE MCAuthentication ---------------------------
(***************************************************************************)
(* Two identities that compete for a store of one challenge.               *)
(***************************************************************************)
EXTENDS Authentication

CONSTANTS k1, k2
===============================================================================
