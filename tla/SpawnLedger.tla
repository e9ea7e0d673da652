------------------------------ MODULE SpawnLedger ------------------------------
(***************************************************************************)
(* What a Mycelium node promises about its spawns, whatever interrupts it: *)
(* one spawn is open at a time, a spawn that has ended is never taken up   *)
(* again, and the inheritance of a spawn is sent at most once and never    *)
(* for the first time after the spawn was recorded as complete.            *)
(***************************************************************************)
EXTENDS Naturals

CONSTANT SpawnIds

VARIABLES
  phase,     \* where each spawn is in its life
  gifts      \* inheritance transactions sent, per spawn

Phases == {"new", "open", "done", "dropped"}

Init ==
  /\ phase = [s \in SpawnIds |-> "new"]
  /\ gifts = [s \in SpawnIds |-> 0]

Open(s) ==
  /\ phase[s] = "new"
  /\ \A t \in SpawnIds : phase[t] # "open"
  /\ phase' = [phase EXCEPT ![s] = "open"]
  /\ UNCHANGED gifts

(* A broadcast already under way may finish after its spawn was dropped. *)
Give(s) ==
  /\ phase[s] \in {"open", "dropped"}
  /\ gifts[s] = 0
  /\ gifts' = [gifts EXCEPT ![s] = 1]
  /\ UNCHANGED phase

Close(s) ==
  /\ phase[s] = "open"
  /\ \E end \in {"done", "dropped"} : phase' = [phase EXCEPT ![s] = end]
  /\ UNCHANGED gifts

Next == \E s \in SpawnIds : Open(s) \/ Give(s) \/ Close(s)

Spec == Init /\ [][Next]_<<phase, gifts>>
===============================================================================
