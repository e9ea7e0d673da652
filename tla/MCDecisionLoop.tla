--------------------------- MODULE MCDecisionLoop ---------------------------
(***************************************************************************)
(* DecisionLoop with small prices: a day costs one cent, a cent is two     *)
(* satoshi, a dollar two cents.  14 satoshi and three days are enough for  *)
(* a child; with 6 and one day the next payment received makes exactly a   *)
(* top-up of 8; 2 and one day are gone a day later.                        *)
(***************************************************************************)
EXTENDS DecisionLoop
CONSTANT p1
Purses == {<<2, 1>>, <<6, 1>>, <<14, 3>>}
LastPurse == {<<2, 1>>}
=============================================================================
