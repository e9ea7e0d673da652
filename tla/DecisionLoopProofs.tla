-------------------------- MODULE DecisionLoopProofs --------------------------
(***************************************************************************)
(* Proofs about DecisionLoop, for every price, threshold, set of peers and *)
(* number of faults: a node is never in a spawn and in a failsafe at once, *)
(* its account is not overfilled, a failsafe starts only when the runway   *)
(* is used up, and a spawn leaves the runway its threshold asks for.       *)
(***************************************************************************)
EXTENDS DecisionLoop, TLAPS

Flags == kv \in [spawning : BOOLEAN, failsafe : BOOLEAN]

(* The flags are two Booleans, and where the decision task stands agrees   *)
(* with them.                                                              *)
CriticalInv == Flags /\ OneCriticalAction

Free == ~kv.spawning /\ ~kv.failsafe

-----------------------------------------------------------------------------
(* What the steps do to the flags and to the place of the task, one lemma  *)
(* for each group of actions.                                              *)

(* The monitor ends the tick's refresh or lets the sleep go on. *)
LEMMA RefreshMoves ==
  ASSUME Refresh
  PROVE  /\ kv' = kv
         /\ \/ pc' = pc
            \/ pc' \in Sleeping
            \/ pc = "refresh" /\ pc' = "decide"
<1>1. PICK r \in Refreshers : RefreshStep(r)
  BY DEF Refresh
<1>2. CASE RefreshScan(r)
  BY <1>2 DEF RefreshScan, Sleeping
<1>3. CASE RefreshInfo(r)
  BY <1>3 DEF RefreshInfo
<1>4. CASE RefreshPublish(r) \/ RefreshRaises(r)
  BY <1>4 DEF RefreshPublish, RefreshRaises, RefreshEnds, Sleeping
<1> QED
  BY <1>1, <1>2, <1>3, <1>4 DEF RefreshStep

(* The failsafe: its flag is set before the sweep and cleared after it. *)
LEMMA FailsafeMoves ==
  ASSUME NEW s, ExecuteFailsafe(s)
  PROVE  \/ kv' = [kv EXCEPT !.failsafe = TRUE] /\ pc' = "sweep"
         \/ kv' = kv /\ pc' \in Sleeping
BY DEF ExecuteFailsafe, ToIdle, Sleeping

LEMMA SweepMoves ==
  ASSUME Sweep
  PROVE  pc = "sweep" /\ kv' = kv /\ pc' \in {"sweep", "swept"} \cup Sleeping
BY DEF Sweep, SweepFailed, ToIdle, Sleeping

(* The tick: nothing starts while a flag is set. *)
LEMMA TickMoves ==
  ASSUME Tick
  PROVE  \/ Free /\ kv' = [kv EXCEPT !.failsafe = TRUE] /\ pc' = "sweep"
         \/ Free /\ kv' = kv /\ pc' \in {"topup", "decide"}
         \/ kv' = kv /\ pc' \in Sleeping
         \/ pc = "sweep" /\ kv' = kv /\ pc' \in {"sweep", "swept"}
         \/ pc = "swept" /\ kv' = [kv EXCEPT !.failsafe = FALSE] /\ pc' \in Sleeping
         \/ pc = "topup" /\ kv' = kv /\ pc' \in {"topup", "refresh"}
         \/ pc = "decide" /\ kv' = [kv EXCEPT !.spawning = TRUE] /\ pc' = "spawn"
         \/ pc = "spawn" /\ kv' = [kv EXCEPT !.spawning = FALSE] /\ pc' \in Sleeping
<1>1. CASE TickFailsafe
  BY <1>1, FailsafeMoves DEF TickFailsafe, TickProceeds, Free
<1>2. CASE TickTopup \/ TickDecide
  BY <1>2 DEF TickTopup, TickDecide, TickProceeds, Free
<1>3. CASE Sweep
  BY <1>3, SweepMoves
<1>4. CASE FailsafeCompleted
  BY <1>4 DEF FailsafeCompleted, ToIdle, Sleeping
<1>5. CASE TopupInvoice \/ TopupPay
  BY <1>5 DEF TopupInvoice, TopupPay
<1>6. CASE Decide
  BY <1>6 DEF Decide, ToIdle, Sleeping
<1>7. CASE SpawnChild
  BY <1>7 DEF SpawnChild, ToIdle, Sleeping
<1> QED
  BY <1>1, <1>2, <1>3, <1>4, <1>5, <1>6, <1>7 DEF Tick

(* _handle_recovery takes up the action whose flag it finds. *)
LEMMA RecoverMoves ==
  ASSUME Recover
  PROVE  \/ kv' = kv /\ pc' \in Sleeping
         \/ kv.spawning /\ kv' = kv /\ pc' = "spawn"
         \/ ~kv.spawning /\ kv' = [kv EXCEPT !.failsafe = TRUE] /\ pc' = "sweep"
<1>1. CASE RecoverNothing \/ RecoverTimesOut
  BY <1>1 DEF RecoverNothing, RecoverTimesOut, ToIdle, Sleeping
<1>2. CASE RecoverSpawn
  BY <1>2 DEF RecoverSpawn
<1>3. CASE RecoverFailsafe
  BY <1>3, FailsafeMoves DEF RecoverFailsafe
<1> QED
  BY <1>1, <1>2, <1>3 DEF Recover

(* The process ends and starts again; the world leaves the node alone. *)
LEMMA OtherMoves ==
  ASSUME Outside \/ Crash \/ Restart \/ UpdateRestart \/ OperatorRestart \/ UNCHANGED vars
  PROVE  kv' = kv /\ pc' \in {pc, "down", "boot"}
<1>1. CASE Outside
  BY <1>1 DEF Outside, CreditArrives, AutoRenew, DayPasses, Income, PeerInfo, PeerSilent,
     Environment
<1>2. CASE Crash \/ UpdateRestart \/ OperatorRestart
  BY <1>2 DEF Crash, UpdateRestart, OperatorRestart, Exit
<1>3. CASE Restart
  BY <1>3 DEF Restart
<1>4. CASE UNCHANGED vars
  BY <1>4 DEF vars, node
<1> QED
  BY <1>1, <1>2, <1>3, <1>4

-----------------------------------------------------------------------------
(* The two flags after each assignment. *)
LEMMA FlagWrites ==
  ASSUME Flags, NEW b \in BOOLEAN
  PROVE  /\ kv' = [kv EXCEPT !.failsafe = b]
              => Flags' /\ kv'.failsafe = b /\ kv'.spawning = kv.spawning
         /\ kv' = [kv EXCEPT !.spawning = b]
              => Flags' /\ kv'.spawning = b /\ kv'.failsafe = kv.failsafe
         /\ kv' = kv => Flags'
BY DEF Flags

LEMMA CriticalInit == Init => CriticalInv
<1> SUFFICES ASSUME Init PROVE CriticalInv
  OBVIOUS
<1>1. kv = [spawning |-> FALSE, failsafe |-> FALSE] /\ pc = "boot"
  BY DEF Init
<1>2. Flags /\ ~kv.spawning /\ ~kv.failsafe
  BY <1>1 DEF Flags
<1> QED
  BY <1>1, <1>2 DEF CriticalInv, OneCriticalAction

LEMMA CriticalStep ==
  ASSUME CriticalInv, [Next]_vars
  PROVE  CriticalInv'
<1>0. Flags /\ OneCriticalAction
  BY DEF CriticalInv
<1>s. \A p \in Sleeping : p \notin {"sweep", "swept", "spawn", "topup", "refresh", "decide"}
  BY DEF Sleeping
<1>w. /\ kv' = [kv EXCEPT !.failsafe = TRUE]
           => Flags' /\ kv'.failsafe /\ kv'.spawning = kv.spawning
      /\ kv' = [kv EXCEPT !.failsafe = FALSE]
           => Flags' /\ ~kv'.failsafe /\ kv'.spawning = kv.spawning
      /\ kv' = [kv EXCEPT !.spawning = TRUE]
           => Flags' /\ kv'.spawning /\ kv'.failsafe = kv.failsafe
      /\ kv' = [kv EXCEPT !.spawning = FALSE]
           => Flags' /\ ~kv'.spawning /\ kv'.failsafe = kv.failsafe
      /\ kv' = kv => Flags'
  BY <1>0, FlagWrites
<1>1. CASE Refresh
  BY <1>0, <1>s, <1>w, <1>1, RefreshMoves DEF CriticalInv, OneCriticalAction
<1>2. CASE Recover
  BY <1>0, <1>s, <1>w, <1>2, RecoverMoves DEF CriticalInv, OneCriticalAction
<1>3. CASE Tick
  BY <1>0, <1>s, <1>w, <1>3, TickMoves DEF CriticalInv, OneCriticalAction, Free
<1>4. CASE Outside \/ Crash \/ Restart \/ UpdateRestart \/ OperatorRestart \/ UNCHANGED vars
  BY <1>0, <1>w, <1>4, OtherMoves DEF CriticalInv, OneCriticalAction
<1> QED
  BY <1>1, <1>2, <1>3, <1>4 DEF Next

-----------------------------------------------------------------------------
(* A node never pays for a child and gives its coins away at once: through *)
(* every crash, restart, failed query and recovery the flags of spawn and  *)
(* failsafe exclude each other, and a top-up or a decision runs only while *)
(* neither is set.                                                         *)
THEOREM CriticalActionsExclude == Spec => []OneCriticalAction
<1>1. CriticalInv => OneCriticalAction
  BY DEF CriticalInv
<1> QED
  BY <1>1, CriticalInit, CriticalStep, PTL DEF Spec

USE PriceAssumption, LoopAssumption

(***************************************************************************)
(* Types.                                                                  *)
(***************************************************************************)

(* Prices in satoshis, and what a spawn or a top-up costs, are natural     *)
(* numbers.                                                                *)
LEMMA SatType == ASSUME NEW c \in Nat PROVE ToSat(c) \in Nat
BY DEF ToSat

(* So are the costs the decisions use. *)
LEMMA CostTypes ==
  /\ TargetCost \in Nat /\ _vps_cost_sat \in Nat /\ _cost_per_day_sat \in Nat
<1>1. TargetCost \in Nat
  BY DEF TargetCost
<1>2. Larger(MinInvoiceDollars * CentsPerDollar, TargetCost) \in Nat
  BY <1>1 DEF Larger
<1> QED
  BY <1>1, <1>2, SatType DEF _vps_cost_sat, _cost_per_day_sat

(* So is what a spawn spends and gives away. *)
LEMMA OutlayType == ASSUME NEW btc \in Nat PROVE SpawnOutlay(btc) \in Nat
<1>1. Larger(0, btc - _vps_cost_sat) \in Nat
  BY CostTypes DEF Larger
<1>2. compute_child_share(btc) \in Nat
  BY <1>1 DEF compute_child_share
<1> QED
  BY <1>2, CostTypes DEF SpawnOutlay

(* So is the invoice a top-up asks for. *)
LEMMA NeededType == ASSUME NEW cents \in Nat PROVE NeededDollars(cents) \in Nat
<1>1. CASE TargetCost <= cents
  BY <1>1 DEF NeededDollars
<1>2. CASE ~(TargetCost <= cents)
  <2>1. TargetCost - cents \in Nat
    BY <1>2, CostTypes
  <2>2. CeilDiv(TargetCost - cents, CentsPerDollar) \in Nat
    BY <2>1 DEF CeilDiv
  <2> QED
    BY <1>2, <2>2 DEF NeededDollars, Larger
<1> QED
  BY <1>1, <1>2

(* The type invariant in parts: what the tasks hold, and where the money   *)
(* is.                                                                     *)
ControlType ==
  /\ pc \in Sleeping \cup {"boot", "sweep", "swept", "topup", "refresh", "decide",
             "spawn", "down"}
  /\ ns \in StateType /\ snap \in StateType
  /\ target \in Peers \cup {Cold, NoTarget} /\ invoice \in Nat
  /\ reader \in [Refreshers -> Nat \cup {Idle}] /\ told \in [Refreshers -> InfoType]
  /\ fleet \in [Peers -> 0 .. MaxWealth]
MoneyType ==
  /\ wallet \in Nat /\ coins \in Nat /\ account \in Nat /\ credit \in Nat
  /\ lease \in Nat /\ swept \subseteq Peers \cup {Cold}
  /\ seen \subseteq Troubles
  /\ budget \in [faults : Nat, income : Nat, days : Nat, updates : Nat]

(* The parts make the type invariant. *)
LEMMA TypeParts == TypeOK <=> Flags /\ ControlType /\ MoneyType
BY DEF TypeOK, Flags, ControlType, MoneyType

(* A sweep has somewhere to send the money. *)
SweepTarget == pc = "sweep" => target \in Peers \cup {Cold}

(* The state before the first refresh. *)
LEMMA NoStateType == NoState \in StateType /\ NoInfo \in InfoType
BY DEF NoState, StateType, NoDays, NoInfo, InfoType

(* Going back to sleep drops what the tick held. *)
LEMMA SleepType ==
  ASSUME ToIdle
  PROVE  pc' \in Sleeping /\ snap' \in StateType /\ target' = NoTarget /\ invoice' = 0
BY NoStateType DEF ToIdle, Sleeping

(* The record of what went wrong. *)
LEMMA TroubleType ==
  ASSUME MoneyType, NEW kinds \in SUBSET Troubles
  PROVE  /\ Trouble(kinds) \/ Notice(kinds) \/ Sound => seen' \subseteq Troubles
         /\ Trouble(kinds) \/ Notice(kinds) \/ Sound =>
             budget' \in [faults : Nat, income : Nat, days : Nat, updates : Nat]
BY DEF MoneyType, Trouble, Notice, Sound

(* A refresh keeps the types. *)
LEMMA RefreshTypes ==
  ASSUME TypeOK, Refresh
  PROVE  ControlType' /\ MoneyType' /\ target' = target
<1>0. ControlType /\ MoneyType
  BY TypeParts
<1>1. PICK r \in Refreshers : RefreshStep(r)
  BY DEF Refresh
<1>2. CASE RefreshScan(r)
  <2>1. wallet' \in Nat /\ UNCHANGED <<ns, snap, target, invoice, told, fleet, world>>
    BY <1>0, <1>2 DEF RefreshScan, MoneyType
  <2>2. reader' \in [Refreshers -> Nat \cup {Idle}]
    BY <1>0, <1>2, <2>1 DEF RefreshScan, ControlType
  <2>3. pc' \in {pc, "waking"}
    BY <1>2 DEF RefreshScan
  <2>4. /\ seen' \subseteq Troubles
        /\ budget' \in [faults : Nat, income : Nat, days : Nat, updates : Nat]
    BY <1>0, <1>2, TroubleType DEF RefreshScan, Troubles
  <2> QED
    BY <1>0, <2>1, <2>2, <2>3, <2>4 DEF ControlType, MoneyType, world, Sleeping
<1>3. CASE RefreshInfo(r)
  <2>1. UNCHANGED <<pc, ns, snap, target, invoice, reader, fleet, wallet, world>>
    BY <1>3 DEF RefreshInfo
  <2>2. \A cents \in Nat : Info(cents) \in InfoType
    <3>1. (credit > 0) \in BOOLEAN
      OBVIOUS
    <3> QED
      BY <3>1 DEF Info, InfoType
  <2>3. told' \in [Refreshers -> InfoType]
    BY <1>0, <1>3, <2>2 DEF RefreshInfo, ControlType, MoneyType
  <2>4. /\ seen' \subseteq Troubles
        /\ budget' \in [faults : Nat, income : Nat, days : Nat, updates : Nat]
    BY <1>0, <1>3, TroubleType DEF RefreshInfo, Troubles
  <2> QED
    BY <1>0, <2>1, <2>3, <2>4 DEF ControlType, MoneyType, world
<1>4. CASE RefreshPublish(r) \/ RefreshRaises(r)
  <2>1. RefreshEnds(r)
    BY <1>4 DEF RefreshPublish, RefreshRaises
  <2>2. ns' \in StateType
    <3>1. told[r] \in InfoType /\ lease \in Nat \cup {NoDays} /\ NoDays \in Nat \cup {NoDays}
      BY <1>0 DEF ControlType, MoneyType
    <3>2. CASE RefreshPublish(r)
      <4>1. reader[r] \in Nat
        BY <1>0, <3>2 DEF RefreshPublish, ControlType
      <4>2. \A days \in Nat \cup {NoDays} : Published(r, days) \in StateType
        BY <3>1, <4>1 DEF Published, StateType, InfoType
      <4> QED
        BY <3>1, <3>2, <4>2 DEF RefreshPublish
    <3>3. CASE RefreshRaises(r)
      BY <1>0, <3>3 DEF RefreshRaises, ControlType, StateType
    <3> QED
      BY <1>4, <3>2, <3>3
  <2>3. /\ reader' \in [Refreshers -> Nat \cup {Idle}]
        /\ told' \in [Refreshers -> InfoType]
    BY <1>0, <2>1, NoStateType DEF RefreshEnds, ControlType
  <2>4. pc' \in {pc, "decide", "idle"}
    BY <2>1 DEF RefreshEnds
  <2>5. /\ Overlap(r) \in SUBSET Troubles
        /\ {"servers"} \cup Overlap(r) \in SUBSET Troubles
        /\ {"overlap"} \in SUBSET Troubles /\ {} \in SUBSET Troubles
    BY DEF Overlap, Troubles
  <2>6. /\ seen' \subseteq Troubles
        /\ budget' \in [faults : Nat, income : Nat, days : Nat, updates : Nat]
    BY <1>0, <1>4, <2>5, TroubleType DEF RefreshPublish, RefreshRaises
  <2>7. UNCHANGED <<snap, target, invoice, fleet, wallet, world>>
    BY <2>1 DEF RefreshEnds
  <2> QED
    BY <1>0, <2>2, <2>3, <2>4, <2>6, <2>7 DEF ControlType, MoneyType, world, Sleeping
<1> QED
  BY <1>1, <1>2, <1>3, <1>4 DEF RefreshStep

(* The failsafe picks a peer that is alive, or the cold wallet, or does    *)
(* nothing.                                                                *)
LEMMA FailsafeTypes ==
  ASSUME ControlType, NEW s \in StateType, ExecuteFailsafe(s)
  PROVE  /\ pc' = "sweep" \/ pc' \in Sleeping
         /\ snap' \in StateType /\ invoice' \in {0, invoice}
         /\ target' \in Peers \cup {Cold, NoTarget}
         /\ pc' = "sweep" => target' \in Peers \cup {Cold}
<1>1. CASE LivePeers # {} \/ HasDefault
  BY <1>1 DEF ExecuteFailsafe, select_best_peer, LivePeers
<1>2. CASE ~(LivePeers # {} \/ HasDefault)
  BY <1>2, SleepType DEF ExecuteFailsafe, Sleeping
<1> QED
  BY <1>1, <1>2

(* A tick keeps the types. *)
LEMMA TickTypes ==
  ASSUME TypeOK, SweepTarget, Tick
  PROVE  ControlType' /\ MoneyType' /\ SweepTarget'
<1>0. ControlType /\ MoneyType
  BY TypeParts
<1>s. "sweep" \notin Sleeping
  BY DEF Sleeping
<1>k. /\ NoticeOld \in SUBSET Troubles
      /\ NoticeOld \cup (IF ns.due THEN {"late"} ELSE {}) \in SUBSET Troubles
      /\ {"lost"} \in SUBSET Troubles /\ {"fail"} \in SUBSET Troubles
  BY DEF Troubles, NoticeOld
<1>n. ASSUME NoticeLate \/ Notice(NoticeOld) \/ Sound \/ Trouble({"lost"}) \/ Trouble({"fail"})
      PROVE  /\ seen' \subseteq Troubles
             /\ budget' \in [faults : Nat, income : Nat, days : Nat, updates : Nat]
  BY <1>0, <1>k, <1>n, TroubleType DEF NoticeLate
<1>1. CASE TickFailsafe
  <2>1. UNCHANGED <<ns, reader, told, fleet, wallet, world>> /\ NoticeLate
    BY <1>1 DEF TickFailsafe
  <2>2. ExecuteFailsafe(ns) /\ ns \in StateType
    BY <1>0, <1>1 DEF TickFailsafe, ControlType
  <2> QED
    BY <1>0, <1>s, <1>n, <2>1, <2>2, FailsafeTypes
    DEF ControlType, MoneyType, SweepTarget, world
<1>2. CASE TickTopup \/ TickDecide
  <2>1. /\ UNCHANGED <<ns, target, invoice, reader, told, fleet, wallet, world>>
        /\ NoticeLate /\ pc' \in {"topup", "decide"} /\ snap' \in {snap, ns}
    BY <1>2 DEF TickTopup, TickDecide
  <2> QED
    BY <1>0, <1>s, <1>n, <2>1 DEF ControlType, MoneyType, SweepTarget, world
<1>3. CASE Sweep
  <2>1. UNCHANGED <<ns, reader, told, fleet, account, credit, lease>>
    BY <1>3 DEF Sweep
  <2>2. ASSUME SweepFailed
        PROVE  /\ pc' = pc \/ pc' \in Sleeping
               /\ snap' \in StateType /\ invoice' \in {0, invoice}
               /\ target' \in Peers \cup {Cold, NoTarget}
               /\ pc' = "sweep" => target' = Cold
    BY <1>0, <1>s, <2>2, SleepType DEF SweepFailed, ControlType
  <2>3. /\ pc' \in {pc, "swept"} \/ pc' \in Sleeping
        /\ snap' \in StateType /\ invoice' \in Nat
        /\ target' \in Peers \cup {Cold, NoTarget}
        /\ pc' = "sweep" => target' = Cold
    BY <1>0, <1>3, <2>2 DEF Sweep, ControlType
  <2>4. wallet' \in Nat /\ coins' \in Nat
    BY <1>0, <1>3 DEF Sweep, SweepSent, CanSweep, MoneyType
  <2>5. swept' \subseteq Peers \cup {Cold}
    BY <1>0, <1>3 DEF Sweep, SweepSent, MoneyType, SweepTarget
  <2>6. /\ seen' \subseteq Troubles
        /\ budget' \in [faults : Nat, income : Nat, days : Nat, updates : Nat]
    BY <1>3, <1>n DEF Sweep
  <2> QED
    BY <1>0, <2>1, <2>3, <2>4, <2>5, <2>6 DEF ControlType, MoneyType, SweepTarget
<1>4. CASE FailsafeCompleted
  <2>1. UNCHANGED <<ns, reader, told, fleet, wallet, world>> /\ ToIdle /\ Sound
    BY <1>4 DEF FailsafeCompleted
  <2> QED
    BY <1>0, <1>s, <1>n, <2>1, SleepType DEF ControlType, MoneyType, SweepTarget, world
<1>5. CASE TopupInvoice
  <2>1. UNCHANGED <<ns, snap, target, reader, told, fleet, wallet, world>>
    BY <1>5 DEF TopupInvoice
  <2>2. snap.cents \in Nat
    BY <1>0 DEF ControlType, StateType
  <2>3. pc' \in {"topup", "refresh"} /\ invoice' \in Nat
    BY <1>0, <1>5, <2>2, NeededType DEF TopupInvoice, ControlType
  <2>4. /\ seen' \subseteq Troubles
        /\ budget' \in [faults : Nat, income : Nat, days : Nat, updates : Nat]
    BY <1>5, <1>n DEF TopupInvoice
  <2> QED
    BY <1>0, <2>1, <2>3, <2>4 DEF ControlType, MoneyType, SweepTarget, world
<1>6. CASE TopupPay
  <2>1. /\ UNCHANGED <<ns, snap, target, reader, told, fleet, wallet, account, lease, swept>>
        /\ pc' = "refresh" /\ invoice' = 0
    BY <1>6 DEF TopupPay
  <2>2. InvoiceSat \in Nat /\ invoice * CentsPerDollar \in Nat
    BY <1>0, SatType DEF InvoiceSat, ControlType
  <2>3. coins' \in Nat /\ credit' \in Nat
    BY <1>0, <1>6, <2>2 DEF TopupPay, PaymentSent, MoneyType
  <2>4. /\ seen' \subseteq Troubles
        /\ budget' \in [faults : Nat, income : Nat, days : Nat, updates : Nat]
    BY <1>6, <1>n DEF TopupPay
  <2> QED
    BY <1>0, <2>1, <2>3, <2>4 DEF ControlType, MoneyType, SweepTarget
<1>7. CASE Decide
  <2>1. UNCHANGED <<ns, reader, told, fleet, wallet, world>> /\ Notice(NoticeOld)
    BY <1>7 DEF Decide
  <2>2. \/ pc' = "spawn" /\ snap' = ns /\ UNCHANGED <<target, invoice>>
        \/ ToIdle
    BY <1>7 DEF Decide
  <2> QED
    BY <1>0, <1>s, <1>n, <2>1, <2>2, SleepType DEF ControlType, MoneyType, SweepTarget, world
<1>8. CASE SpawnChild
  <2>1. UNCHANGED <<ns, reader, told, fleet, wallet, account, credit, lease, swept>> /\ ToIdle
    BY <1>8 DEF SpawnChild
  <2>2. SpawnOutlay(snap.btc) \in Nat /\ _vps_cost_sat \in Nat
    BY <1>0, OutlayType, CostTypes DEF ControlType, StateType
  <2>3. coins' \in Nat
    BY <1>0, <1>8, <2>2 DEF SpawnChild, MoneyType
  <2>4. /\ seen' \subseteq Troubles
        /\ budget' \in [faults : Nat, income : Nat, days : Nat, updates : Nat]
    BY <1>8, <1>n DEF SpawnChild
  <2> QED
    BY <1>0, <1>s, <2>1, <2>3, <2>4, SleepType DEF ControlType, MoneyType, SweepTarget
<1> QED
  BY <1>1, <1>2, <1>3, <1>4, <1>5, <1>6, <1>7, <1>8 DEF Tick

(* So does the recovery at start. *)
LEMMA RecoverTypes ==
  ASSUME TypeOK, Recover
  PROVE  ControlType' /\ MoneyType' /\ SweepTarget'
<1>0. ControlType /\ MoneyType
  BY TypeParts
<1>s. "sweep" \notin Sleeping
  BY DEF Sleeping
<1>w. UNCHANGED <<ns, reader, told, fleet, wallet, world>>
  BY DEF Recover, RecoverNothing, RecoverSpawn, RecoverFailsafe, RecoverTimesOut
<1>n. /\ seen' \subseteq Troubles
      /\ budget' \in [faults : Nat, income : Nat, days : Nat, updates : Nat]
  <2>1. {"fail"} \in SUBSET Troubles
    BY DEF Troubles
  <2> QED
    BY <1>0, <2>1, TroubleType
    DEF Recover, RecoverNothing, RecoverSpawn, RecoverFailsafe, RecoverTimesOut
<1>1. CASE RecoverNothing \/ RecoverTimesOut
  <2>1. ToIdle
    BY <1>1 DEF RecoverNothing, RecoverTimesOut
  <2> QED
    BY <1>0, <1>s, <1>w, <1>n, <2>1, SleepType DEF ControlType, MoneyType, SweepTarget, world
<1>2. CASE RecoverSpawn
  <2>1. pc' = "spawn" /\ snap' = ns /\ UNCHANGED <<target, invoice>>
    BY <1>2 DEF RecoverSpawn
  <2> QED
    BY <1>0, <1>w, <1>n, <2>1 DEF ControlType, MoneyType, SweepTarget, world
<1>3. CASE RecoverFailsafe
  <2>1. ExecuteFailsafe(ns) /\ ns \in StateType
    BY <1>0, <1>3 DEF RecoverFailsafe, ControlType
  <2> QED
    BY <1>0, <1>s, <1>w, <1>n, <2>1, FailsafeTypes DEF ControlType, MoneyType, SweepTarget, world
<1> QED
  BY <1>1, <1>2, <1>3 DEF Recover

(* So does the world outside. *)
LEMMA OutsideTypes ==
  ASSUME TypeOK, SweepTarget, Outside
  PROVE  ControlType' /\ MoneyType' /\ SweepTarget'
<1>0. ControlType /\ MoneyType
  BY TypeParts
<1>e. UNCHANGED <<pc, ns, snap, target, invoice, reader, told, wallet>>
  BY DEF Outside, CreditArrives, AutoRenew, DayPasses, Income, PeerInfo, PeerSilent, Environment
<1>f. fleet' \in [Peers -> 0 .. MaxWealth]
  BY <1>0 DEF Outside, CreditArrives, AutoRenew, DayPasses, Income, PeerInfo, PeerSilent,
     ControlType
<1>m. /\ coins' \in Nat /\ account' \in Nat /\ credit' \in Nat /\ lease' \in Nat
      /\ swept' = swept
  BY <1>0, CostTypes
  DEF Outside, CreditArrives, AutoRenew, DayPasses, Income, PeerInfo, PeerSilent, MoneyType, world
<1>b. /\ seen' \subseteq Troubles
      /\ budget' \in [faults : Nat, income : Nat, days : Nat, updates : Nat]
  BY <1>0
  DEF Outside, CreditArrives, AutoRenew, DayPasses, Income, PeerInfo, PeerSilent, MoneyType,
      Sound
<1> QED
  BY <1>0, <1>e, <1>f, <1>m, <1>b DEF ControlType, MoneyType, SweepTarget

(* So do crashes and restarts. *)
LEMMA ProcessTypes ==
  ASSUME TypeOK, Crash \/ Restart \/ UpdateRestart \/ OperatorRestart
  PROVE  ControlType' /\ MoneyType' /\ SweepTarget'
<1>0. ControlType /\ MoneyType
  BY TypeParts
<1>b. /\ seen' \subseteq Troubles
      /\ budget' \in [faults : Nat, income : Nat, days : Nat, updates : Nat]
  BY <1>0 DEF Crash, Restart, UpdateRestart, OperatorRestart, Trouble, Sound, MoneyType, Troubles
<1>1. CASE Restart
  BY <1>0, <1>b, <1>1 DEF Restart, ControlType, MoneyType, SweepTarget, world
<1>2. CASE Exit
  BY <1>0, <1>b, <1>2, NoStateType DEF Exit, ControlType, MoneyType, SweepTarget
<1> QED
  BY <1>1, <1>2 DEF Crash, UpdateRestart, OperatorRestart

(* The node starts with nothing known. *)
LEMMA TypesInit == Init => TypeOK /\ SweepTarget
<1> SUFFICES ASSUME Init PROVE TypeOK /\ SweepTarget
  OBVIOUS
<1>1. Flags
  BY DEF Init, Flags
<1>2. coins \in Nat /\ lease \in Nat
  BY DEF Init
<1>3. ControlType /\ SweepTarget
  BY NoStateType DEF Init, ControlType, SweepTarget, Sleeping
<1>4. MoneyType
  BY <1>2 DEF Init, MoneyType
<1> QED
  BY <1>1, <1>3, <1>4, TypeParts

(* Every step keeps the types. *)
LEMMA TypesStep ==
  ASSUME TypeOK, CriticalInv, SweepTarget, [Next]_vars
  PROVE  TypeOK' /\ SweepTarget'
<1>1. Flags'
  BY CriticalStep DEF CriticalInv
<1>2. ControlType' /\ MoneyType' /\ SweepTarget'
  <2>1. CASE Refresh
    <3>1. pc' = "sweep" => pc = "sweep"
      BY <2>1, RefreshMoves DEF Sleeping
    <3> QED
      BY <2>1, <3>1, RefreshTypes DEF SweepTarget
  <2>2. CASE UNCHANGED vars
    BY <2>2, TypeParts DEF vars, node, world, ControlType, MoneyType, SweepTarget
  <2> QED
    BY <2>1, <2>2, TickTypes, RecoverTypes, OutsideTypes, ProcessTypes DEF Next
<1>3. TypeOK'
  BY <1>1, <1>2 DEF TypeOK, Flags, ControlType, MoneyType
<1> QED
  BY <1>2, <1>3

(* Every variable keeps its type, and a sweep always has a target, for     *)
(* every price, threshold and set of peers.                                *)
THEOREM LoopTypeCorrect == Spec => []TypeOK
<1>1. Spec => []CriticalInv
  BY CriticalInit, CriticalStep, PTL DEF Spec
<1> QED
  BY <1>1, TypesInit, TypesStep, PTL DEF Spec

(***************************************************************************)
(* The account.                                                            *)
(***************************************************************************)

(* An invoice exists only during a top-up; the tick reads only during its  *)
(* refresh, and nobody has an answer to get_info before the scan.          *)
InvoiceInHand == pc # "topup" => invoice = 0
TickReader == /\ pc # "refresh" => reader["tick"] = Idle
              /\ \A r \in Refreshers : reader[r] = Idle => told[r] = NoInfo

(* What the node knows of its account: unless a read failed, a credit came *)
(* late or a tick decided on an old state, the account and what is on its  *)
(* way are at most what the monitor was told in this sleep, at most what   *)
(* the state it published then says, and an invoice is for what that state *)
(* lacks.  A published state may be wrong between ticks: a refresh that    *)
(* asked before a payment may end after it.                                *)
AccountKnown ==
  seen \cap {"info", "late", "old"} = {} =>
    /\ pc \in {"waking", "idle"} /\ told["monitor"].asked /\ ~told["monitor"].due
         => account + credit <= told["monitor"].cents
    /\ pc = "idle" /\ ns.fresh /\ ~ns.due /\ ~ns.old => account + credit <= ns.cents
    /\ pc = "topup" => /\ account + credit <= snap.cents
                       /\ invoice > 0 => invoice = NeededDollars(snap.cents)

(* Sums and bounds. *)
LEMMA SumBound ==
  \A a, b, c, d, x, y \in Nat :
    (a + b <= c + d /\ c + d <= x + y => a + b <= x + y)
      /\ (a + b <= c + d /\ c + d <= x => a + b <= x)
OBVIOUS

(* What went wrong stays on record. *)
LEMMA SeenGrows == ASSUME [Next]_vars PROVE seen \subseteq seen'
<1>1. CASE Refresh
  BY <1>1 DEF Refresh, RefreshStep, RefreshScan, RefreshInfo, RefreshPublish, RefreshRaises,
     Sound, Trouble, Notice
<1>2. CASE Recover
  BY <1>2 DEF Recover, RecoverNothing, RecoverSpawn, RecoverFailsafe, RecoverTimesOut,
     Sound, Trouble
<1>3. CASE Tick
  BY <1>3 DEF Tick, TickFailsafe, TickTopup, TickDecide, Sweep, FailsafeCompleted,
     TopupInvoice, TopupPay, Decide, SpawnChild, NoticeLate, Sound, Trouble, Notice
<1>4. CASE Outside
  BY <1>4 DEF Outside, CreditArrives, AutoRenew, DayPasses, Income, PeerInfo, PeerSilent, Sound
<1>5. CASE Crash \/ Restart \/ UpdateRestart \/ OperatorRestart
  BY <1>5 DEF Crash, Restart, UpdateRestart, OperatorRestart, Sound, Trouble
<1>6. CASE UNCHANGED vars
  BY <1>6 DEF vars
<1> QED
  BY <1>1, <1>2, <1>3, <1>4, <1>5, <1>6 DEF Next

(* Every step keeps an invoice within its top-up. *)
LEMMA InvoiceInHandStep ==
  ASSUME InvoiceInHand, [Next]_vars
  PROVE  InvoiceInHand'
<1> USE DEF InvoiceInHand
<1>1. CASE Refresh
  BY <1>1 DEF Refresh, RefreshStep, RefreshScan, RefreshInfo, RefreshPublish, RefreshRaises,
     RefreshEnds
<1>2. CASE Recover
  BY <1>2 DEF Recover, RecoverNothing, RecoverSpawn, RecoverFailsafe, RecoverTimesOut,
     ExecuteFailsafe, ToIdle
<1>3. CASE Tick
  BY <1>3 DEF Tick, TickFailsafe, TickTopup, TickDecide, Sweep, FailsafeCompleted,
     TopupInvoice, TopupPay, Decide, SpawnChild, TickProceeds, ExecuteFailsafe, ToIdle,
     SweepFailed
<1>4. CASE Outside
  BY <1>4 DEF Outside, CreditArrives, AutoRenew, DayPasses, Income, PeerInfo, PeerSilent,
     Environment
<1>5. CASE Crash \/ Restart \/ UpdateRestart \/ OperatorRestart
  BY <1>5 DEF Crash, Restart, UpdateRestart, OperatorRestart, Exit
<1>6. CASE UNCHANGED vars
  BY <1>6 DEF vars, node
<1> QED
  BY <1>1, <1>2, <1>3, <1>4, <1>5, <1>6 DEF Next

(* Every step keeps the tick's read within its refresh. *)
LEMMA TickReaderStep ==
  ASSUME TypeOK, TickReader, [Next]_vars
  PROVE  TickReader'
<1> USE DEF TickReader
<1>0. /\ reader \in [Refreshers -> Nat \cup {Idle}] /\ "tick" \in Refreshers
      /\ told \in [Refreshers -> InfoType]
  BY DEF TypeOK, Refreshers
<1>1. CASE Refresh
  <2>1. PICK r \in Refreshers : RefreshStep(r)
    BY <1>1 DEF Refresh
  <2>2. CASE RefreshScan(r)
    <3>1. reader'[r] # Idle
      <4>1. wallet' \in Nat
        BY <2>2 DEF RefreshScan, TypeOK
      <4> QED
        BY <1>0, <2>2, <4>1 DEF RefreshScan, Idle
    <3> QED
      BY <1>0, <2>2, <3>1 DEF RefreshScan, Refreshing
  <2>3. CASE RefreshInfo(r)
    BY <1>0, <2>3 DEF RefreshInfo, Refreshing
  <2>4. CASE RefreshPublish(r) \/ RefreshRaises(r)
    <3>1. RefreshEnds(r) /\ Refreshing(r)
      BY <2>4 DEF RefreshPublish, RefreshRaises
    <3> QED
      BY <1>0, <3>1 DEF RefreshEnds, Refreshing
  <2> QED
    BY <2>1, <2>2, <2>3, <2>4 DEF RefreshStep
<1>2. CASE Recover
  BY <1>2 DEF Recover, RecoverNothing, RecoverSpawn, RecoverFailsafe, RecoverTimesOut
<1>3. CASE Tick
  BY <1>3 DEF Tick, TickFailsafe, TickTopup, TickDecide, Sweep, FailsafeCompleted,
     TopupInvoice, TopupPay, Decide, SpawnChild, TickProceeds
<1>4. CASE Outside
  BY <1>4 DEF Outside, CreditArrives, AutoRenew, DayPasses, Income, PeerInfo, PeerSilent,
     Environment
<1>5. CASE Crash \/ Restart \/ UpdateRestart \/ OperatorRestart
  BY <1>0, <1>5 DEF Crash, Restart, UpdateRestart, OperatorRestart, Exit
<1>6. CASE UNCHANGED vars
  BY <1>6 DEF vars, node
<1> QED
  BY <1>1, <1>2, <1>3, <1>4, <1>5, <1>6 DEF Next

(* Only a top-up's payment adds to the account. *)
LEMMA FundsChange ==
  ASSUME TypeOK, [Next]_vars
  PROVE  \/ account' + credit' <= account + credit
         \/ TopupPay /\ PaymentSent
<1>0. account \in Nat /\ credit \in Nat /\ TargetCost \in Nat
  BY CostTypes DEF TypeOK
<1>1. CASE Refresh
  BY <1>0, <1>1 DEF Refresh, RefreshStep, RefreshScan, RefreshInfo, RefreshPublish,
     RefreshRaises, RefreshEnds, world
<1>2. CASE Recover
  BY <1>0, <1>2 DEF Recover, RecoverNothing, RecoverSpawn, RecoverFailsafe, RecoverTimesOut, world
<1>3. CASE Tick
  BY <1>0, <1>3 DEF Tick, TickFailsafe, TickTopup, TickDecide, Sweep, FailsafeCompleted,
     TopupInvoice, TopupPay, Decide, SpawnChild, world
<1>4. CASE Outside
  BY <1>0, <1>4 DEF Outside, CreditArrives, AutoRenew, DayPasses, Income, PeerInfo, PeerSilent,
     world
<1>5. CASE Crash \/ Restart \/ UpdateRestart \/ OperatorRestart
  BY <1>0, <1>5 DEF Crash, Restart, UpdateRestart, OperatorRestart, Exit, world
<1>6. CASE UNCHANGED vars
  BY <1>0, <1>6 DEF vars, world
<1> QED
  BY <1>1, <1>2, <1>3, <1>4, <1>5, <1>6 DEF Next

(* Every step keeps what is known of the account true. *)
LEMMA AccountKnownStep ==
  ASSUME TypeOK, TypeOK', InvoiceInHand, TickReader, AccountKnown, [Next]_vars
  PROVE  AccountKnown'
<1> SUFFICES ASSUME seen' \cap {"info", "late", "old"} = {}
             PROVE  /\ pc' \in {"waking", "idle"} /\ told'["monitor"].asked
                         /\ ~told'["monitor"].due
                         => account' + credit' <= told'["monitor"].cents
                    /\ pc' = "idle" /\ ns'.fresh /\ ~ns'.due /\ ~ns'.old
                         => account' + credit' <= ns'.cents
                    /\ pc' = "topup" =>
                         /\ account' + credit' <= snap'.cents
                         /\ invoice' > 0 => invoice' = NeededDollars(snap'.cents)
  BY DEF AccountKnown
<1>0. /\ account \in Nat /\ credit \in Nat /\ invoice \in Nat
      /\ account' \in Nat /\ credit' \in Nat /\ ns.cents \in Nat /\ snap.cents \in Nat
      /\ told["monitor"].cents \in Nat /\ "monitor" \in Refreshers
      /\ told \in [Refreshers -> InfoType]
  BY DEF TypeOK, StateType, InfoType, Refreshers
<1>i. /\ pc \in {"waking", "idle"} /\ told["monitor"].asked /\ ~told["monitor"].due
           => account + credit <= told["monitor"].cents
      /\ pc = "idle" /\ ns.fresh /\ ~ns.due /\ ~ns.old => account + credit <= ns.cents
      /\ pc = "topup" => /\ account + credit <= snap.cents
                         /\ invoice > 0 => invoice = NeededDollars(snap.cents)
  BY SeenGrows DEF AccountKnown
<1>1. CASE Refresh
  <2>1. PICK r \in Refreshers : RefreshStep(r)
    BY <1>1 DEF Refresh
  <2>2. CASE RefreshScan(r)
    <3>1. UNCHANGED <<ns, snap, invoice, told, account, credit>> /\ pc' \in {pc, "waking"}
      BY <2>2 DEF RefreshScan, world
    <3>2. pc' = "waking" /\ pc # "waking" => r = "monitor"
      BY <2>2 DEF RefreshScan, Refreshing, Refreshers
    <3>3. r = "monitor" => told["monitor"] = NoInfo
      BY <1>0, <2>2 DEF RefreshScan, TickReader
    <3>4. pc' = "waking" /\ pc # "waking" => ~told'["monitor"].asked
      BY <3>1, <3>2, <3>3 DEF NoInfo
    <3> QED
      BY <1>i, <3>1, <3>4
  <2>3. CASE RefreshInfo(r)
    <3>1. UNCHANGED <<pc, ns, snap, invoice, account, credit>>
      BY <2>3 DEF RefreshInfo, world
    <3>2. told' = [told EXCEPT ![r] = Info(account)]
      BY <2>3 DEF RefreshInfo, Trouble
    <3>3. CASE r = "monitor"
      <4>1. told'["monitor"] = Info(account)
        BY <1>0, <3>2, <3>3
      <4>2. told'["monitor"].cents = account
        BY <4>1 DEF Info
      <4>3. Info(account).due = (credit > 0)
        BY Zenon DEF Info
      <4>4. ~told'["monitor"].due => ~(credit > 0)
        BY <4>1, <4>3, Zenon
      <4>5. ~told'["monitor"].due => account + credit <= account
        BY <1>0, <4>4
      <4> QED
        BY <1>i, <3>1, <4>2, <4>5
    <3>4. CASE r # "monitor"
      <4>1. told'["monitor"] = told["monitor"]
        BY <1>0, <3>2, <3>4
      <4> QED
        BY <1>i, <3>1, <4>1
    <3> QED
      BY <3>3, <3>4
  <2>4. CASE RefreshPublish(r) \/ RefreshRaises(r)
    <3>1. RefreshEnds(r) /\ Refreshing(r)
      BY <2>4 DEF RefreshPublish, RefreshRaises
    <3>2. /\ UNCHANGED <<snap, invoice, account, credit>>
          /\ told' = [told EXCEPT ![r] = NoInfo]
      BY <3>1 DEF RefreshEnds, world
    <3>3. \/ pc' = pc
          \/ pc = "refresh" /\ pc' = "decide"
          \/ pc \in {"waking", "asleep"} /\ pc' = "idle"
      BY <3>1 DEF RefreshEnds
    <3>4. pc' \in {"waking", "idle"} => r = "monitor"
      BY <3>1, <3>3 DEF Refreshing, Refreshers
    <3>5. pc' \in {"waking", "idle"} => ~told'["monitor"].asked
      BY <1>0, <3>2, <3>4 DEF NoInfo
    <3>6. pc' = "idle" /\ ns'.fresh /\ ~ns'.due /\ ~ns'.old => account' + credit' <= ns'.cents
      <4> SUFFICES ASSUME pc' = "idle", ~ns'.due, ~ns'.old
                   PROVE  account + credit <= ns'.cents
        BY <3>2
      <4>1. RefreshPublish(r)
        <5>1. CASE RefreshRaises(r)
          <6>1. ns'.old = TRUE
            BY <5>1 DEF RefreshRaises, TypeOK, StateType
          <6> QED
            BY <6>1
        <5> QED
          BY <2>4, <5>1
      <4>2. r = "monitor" /\ told["monitor"].asked
        BY <3>4, <4>1 DEF RefreshPublish
      <4>3. PICK days : ns' = Published(r, days)
        BY <4>1 DEF RefreshPublish
      <4>4. ns'.cents = told["monitor"].cents /\ ns'.due = told["monitor"].due
        BY <4>2, <4>3 DEF Published
      <4>5. pc \in {"waking", "idle"}
        BY <3>1, <4>1 DEF RefreshPublish, RefreshEnds
      <4>6. ~told["monitor"].due
        BY <4>4
      <4> QED
        BY <1>i, <4>2, <4>4, <4>5, <4>6
    <3> QED
      BY <1>i, <3>2, <3>3, <3>5, <3>6
  <2> QED
    BY <2>1, <2>2, <2>3, <2>4 DEF RefreshStep
<1>2. CASE Recover
  <2>1. pc = "boot" /\ UNCHANGED <<ns, account, credit>>
    BY <1>2 DEF Recover, RecoverNothing, RecoverSpawn, RecoverFailsafe, RecoverTimesOut, world
  <2>2. pc' \notin {"topup", "waking", "idle"}
    BY <1>2 DEF Recover, RecoverNothing, RecoverSpawn, RecoverFailsafe, RecoverTimesOut,
       ExecuteFailsafe, ToIdle
  <2> QED
    BY <1>i, <2>1, <2>2
<1>3. CASE TickTopup
  <2>1. /\ UNCHANGED <<ns, invoice, account, credit>> /\ pc = "idle" /\ pc' = "topup"
        /\ snap' = ns /\ ns.fresh
    BY <1>3 DEF TickTopup, TickProceeds, world
  <2>2. ~ns.due /\ ~ns.old
    BY <1>3 DEF TickTopup, NoticeLate, NoticeOld, Notice
  <2>3. invoice = 0
    BY <2>1 DEF InvoiceInHand
  <2> QED
    BY <1>i, <2>1, <2>2, <2>3
<1>4. CASE TopupInvoice
  <2>1. /\ UNCHANGED <<ns, snap, account, credit>> /\ pc = "topup"
        /\ pc' \in {"topup", "refresh"}
        /\ pc' = "topup" => invoice' = NeededDollars(snap.cents)
    BY <1>4 DEF TopupInvoice, world
  <2> QED
    BY <1>i, <2>1
<1>5. CASE TopupPay
  BY <1>5 DEF TopupPay
<1>6. CASE TickFailsafe \/ TickDecide \/ Sweep \/ FailsafeCompleted \/ Decide \/ SpawnChild
  <2>1. pc' \notin {"topup", "waking", "idle"}
    BY <1>6 DEF TickFailsafe, TickDecide, Sweep, SweepFailed, FailsafeCompleted, Decide,
       SpawnChild, ExecuteFailsafe, ToIdle
  <2> QED
    BY <2>1
<1>7. CASE Outside
  <2>1. UNCHANGED <<pc, ns, snap, invoice, told>>
    BY <1>7 DEF Outside, CreditArrives, AutoRenew, DayPasses, Income, PeerInfo, PeerSilent,
       Environment
  <2>2. account' + credit' <= account + credit
    BY <1>7, <2>1, FundsChange DEF TopupPay
  <2>3. /\ pc \in {"waking", "idle"} /\ told["monitor"].asked /\ ~told["monitor"].due
             => account' + credit' <= told["monitor"].cents
        /\ pc = "idle" /\ ns.fresh /\ ~ns.due /\ ~ns.old => account' + credit' <= ns.cents
        /\ pc = "topup" => account' + credit' <= snap.cents
    <3>1. \A x \in Nat : account + credit <= x => account' + credit' <= x
      BY <1>0, <2>2, SumBound
    <3> QED
      BY <1>0, <1>i, <3>1
  <2> QED
    BY <1>i, <2>1, <2>3
<1>8. CASE Crash \/ UpdateRestart \/ OperatorRestart
  <2>1. pc' = "down" /\ ns' = NoState
    BY <1>8 DEF Crash, UpdateRestart, OperatorRestart, Exit
  <2> QED
    BY <2>1 DEF NoState
<1>9. CASE Restart
  <2>1. pc' = "boot"
    BY <1>9 DEF Restart
  <2> QED
    BY <2>1
<1>10. CASE UNCHANGED vars
  BY <1>i, <1>10 DEF vars, node, world
<1> QED
  BY <1>1, <1>2, <1>3, <1>4, <1>5, <1>6, <1>7, <1>8, <1>9, <1>10 DEF Next, Tick

(* An invoice brings the account to the target, but for the rounding to    *)
(* dollars.                                                                *)
LEMMA InvoiceBound ==
  ASSUME NEW cents \in Nat, NEW dollars \in Nat, dollars > 0,
         dollars = NeededDollars(cents)
  PROVE  cents + dollars * CentsPerDollar <= TargetCost + InvoiceRounding
<1>0. TargetCost \in Nat
  BY CostTypes
<1>1. cents < TargetCost
  BY <1>0 DEF NeededDollars
<1>2. dollars = Larger(MinInvoiceDollars, CeilDiv(TargetCost - cents, CentsPerDollar))
  BY <1>0, <1>1 DEF NeededDollars
<1>3. CentsPerDollar <= InvoiceRounding /\ MinInvoiceDollars * CentsPerDollar <= InvoiceRounding
      /\ InvoiceRounding \in Nat
  BY DEF InvoiceRounding, Larger
<1>4. CASE dollars = MinInvoiceDollars
  BY <1>0, <1>1, <1>3, <1>4
<1>5. CASE dollars = CeilDiv(TargetCost - cents, CentsPerDollar)
  <2> DEFINE x == TargetCost - cents + CentsPerDollar - 1
  <2>1. x \in Int /\ dollars = x \div CentsPerDollar
    BY <1>0, <1>5 DEF CeilDiv
  <2> HIDE DEF x
  <2>2. dollars * CentsPerDollar <= x
    BY <2>1
  <2>3. dollars * CentsPerDollar \in Nat
    OBVIOUS
  <2> QED
    BY <1>0, <1>3, <2>2, <2>3 DEF x
<1> QED
  BY <1>2, <1>4, <1>5 DEF Larger

(* Every step keeps the account within the target. *)
LEMMA NoOverbuyingStep ==
  ASSUME TypeOK, TypeOK', AccountKnown, NoOverbuying, [Next]_vars
  PROVE  NoOverbuying'
<1> SUFFICES ASSUME seen' \cap {"info", "late", "old"} = {}
             PROVE  account' + credit' <= TargetCost + InvoiceRounding
  BY DEF NoOverbuying, InvoiceRounding, TargetCost, Larger
<1>0. /\ account \in Nat /\ credit \in Nat /\ invoice \in Nat
      /\ account' \in Nat /\ credit' \in Nat /\ snap.cents \in Nat
      /\ TargetCost \in Nat /\ InvoiceRounding \in Nat
  BY CostTypes DEF TypeOK, StateType, InvoiceRounding, Larger
<1>s. seen \cap {"info", "late", "old"} = {}
  BY SeenGrows
<1>1. CASE account' + credit' <= account + credit
  <2>1. account + credit <= TargetCost + InvoiceRounding
    BY <1>s DEF NoOverbuying
  <2> QED
    BY <1>0, <1>1, <2>1, SumBound
<1>2. CASE TopupPay /\ PaymentSent
  <2>1. pc = "topup" /\ invoice > 0 /\ account' = account
        /\ credit' = credit + invoice * CentsPerDollar
    BY <1>2 DEF TopupPay, PaymentSent
  <2>2. account + credit <= snap.cents /\ invoice = NeededDollars(snap.cents)
    BY <1>s, <2>1 DEF AccountKnown
  <2>3. snap.cents + invoice * CentsPerDollar <= TargetCost + InvoiceRounding
    BY <1>0, <2>1, <2>2, InvoiceBound
  <2>4. invoice * CentsPerDollar \in Nat
    BY <1>0
  <2> QED
    BY <1>0, <2>1, <2>2, <2>3, <2>4
<1> QED
  BY <1>1, <1>2, FundsChange

(* The account starts empty. *)
LEMMA AccountInit == Init => InvoiceInHand /\ TickReader /\ AccountKnown /\ NoOverbuying
<1> SUFFICES ASSUME Init PROVE InvoiceInHand /\ TickReader /\ AccountKnown /\ NoOverbuying
  OBVIOUS
<1>1. TargetCost + InvoiceRounding \in Nat
  BY CostTypes DEF InvoiceRounding, Larger
<1>2. pc = "boot" /\ invoice = 0 /\ account = 0 /\ credit = 0 /\ ns = NoState
  BY DEF Init
<1>3. reader["tick"] = Idle /\ \A r \in Refreshers : told[r] = NoInfo
  BY DEF Init, Refreshers
<1> QED
  BY <1>1, <1>2, <1>3 DEF InvoiceInHand, TickReader, AccountKnown, NoOverbuying, NoState

(* The parts every later proof needs. *)
LoopInv == TypeOK /\ CriticalInv /\ SweepTarget /\ InvoiceInHand /\ TickReader

(* They hold throughout. *)
LEMMA LoopInvariant == Spec => []LoopInv
<1>1. Init => LoopInv
  BY CriticalInit, TypesInit, AccountInit DEF LoopInv
<1>2. LoopInv /\ [Next]_vars => LoopInv'
  BY CriticalStep, TypesStep, InvoiceInHandStep, TickReaderStep DEF LoopInv
<1> QED
  BY <1>1, <1>2, PTL DEF Spec

(* Top-ups never bring the account beyond the target by more than one      *)
(* invoice's rounding, whatever refreshes overlap, raise and are made good *)
(* and answers are lost, unless an account query failed or a tick decided  *)
(* while a credit was late or on a state the last refresh did not replace. *)
THEOREM AccountNotOverfilled == Spec => []NoOverbuying
<1>1. LoopInv /\ LoopInv' /\ AccountKnown /\ NoOverbuying /\ [Next]_vars
        => AccountKnown' /\ NoOverbuying'
  BY AccountKnownStep, NoOverbuyingStep DEF LoopInv
<1> QED
  BY <1>1, AccountInit, LoopInvariant, PTL DEF Spec

(***************************************************************************)
(* The failsafe.                                                           *)
(***************************************************************************)

(* Integer division: the quotient is the largest number of whole parts. *)
LEMMA DivMax ==
  ASSUME NEW a \in Int, NEW m \in Nat \ {0}, NEW q \in Int, q * m <= a
  PROVE  q <= a \div m
OBVIOUS

(* It is at most that. *)
LEMMA DivBounds ==
  ASSUME NEW a \in Int, NEW m \in Nat \ {0}
  PROVE  a \div m \in Int /\ (a \div m) * m <= a
OBVIOUS

(* Whole parts taken off come off the quotient. *)
LEMMA DivShift ==
  ASSUME NEW a \in Int, NEW m \in Nat \ {0}, NEW k \in Int
  PROVE  (a - k * m) \div m = (a \div m) - k
OBVIOUS

(* Fewer parts than the quotient fit. *)
LEMMA DivLess ==
  ASSUME NEW a \in Int, NEW m \in Nat \ {0}, NEW q \in Int, q <= a \div m
  PROVE  q * m <= a
OBVIOUS

(* A runway is an integer. *)
LEMMA RunwayType ==
  ASSUME NEW days \in Int, NEW cents \in Nat, NEW sat \in Nat
  PROVE  TotalRunway(days, cents, sat) \in Int
<1> DEFINE a == cents * RateDen + sat * RateNum
           m == RateDen * CostPerDay
<1>1. a \in Int /\ m \in Nat \ {0}
  OBVIOUS
<1> HIDE DEF a, m
<1>2. a \div m \in Int
  BY <1>1, DivBounds
<1> QED
  BY <1>2 DEF TotalRunway, a, m

(* Renewing the lease turns money of the account into as many days. *)
LEMMA RenewalKeepsRunway ==
  ASSUME NEW cents \in Nat, NEW sat \in Nat, NEW c \in Nat
  PROVE  TotalRunway(TargetDays, (cents - TargetCost) + c, sat) = TotalRunway(0, cents + c, sat)
<1> DEFINE a == (cents + c) * RateDen + sat * RateNum
           m == RateDen * CostPerDay
           b == ((cents - TargetCost) + c) * RateDen + sat * RateNum
<1>1. a \in Int /\ m \in Nat \ {0}
  OBVIOUS
<1>2. TargetCost * RateDen = TargetDays * m
  BY DEF TargetCost
<1>3. b = a - TargetCost * RateDen
  <2>1. \A x, y, z, r, w \in Int : ((x - y) + z) * r + w = ((x + z) * r + w) - y * r
    OBVIOUS
  <2>2. TargetCost \in Int /\ sat * RateNum \in Int
    BY CostTypes
  <2> QED
    BY <2>1, <2>2
<1>4. b = a - TargetDays * m
  BY <1>2, <1>3
<1> HIDE DEF a, m, b
<1>5. (a - TargetDays * m) \div m = (a \div m) - TargetDays /\ a \div m \in Int
  <2>1. TargetDays \in Int
    OBVIOUS
  <2>2. a \div m \in Int
    BY <1>1
  <2>3. (a - TargetDays * m) \div m = (a \div m) - TargetDays
    BY <1>1, <2>1, DivShift, Zenon
  <2> QED
    BY <2>2, <2>3
<1>6. TargetDays + (b \div m) = 0 + (a \div m)
  BY <1>4, <1>5
<1> QED
  BY <1>6 DEF TotalRunway, a, m, b

(* More cents are no fewer days. *)
LEMMA RunwayGrows ==
  ASSUME NEW days \in Int, NEW x \in Nat, NEW y \in Nat, x <= y, NEW sat \in Nat
  PROVE  TotalRunway(days, x, sat) <= TotalRunway(days, y, sat)
<1> DEFINE a == x * RateDen + sat * RateNum
           b == y * RateDen + sat * RateNum
           m == RateDen * CostPerDay
<1>1. a \in Int /\ b \in Int /\ m \in Nat \ {0}
  OBVIOUS
<1>2. a <= b
  <2>1. x * RateDen <= y * RateDen
    OBVIOUS
  <2>2. x * RateDen \in Int /\ y * RateDen \in Int /\ sat * RateNum \in Int
    OBVIOUS
  <2> QED
    BY <2>1, <2>2
<1>3. TotalRunway(days, x, sat) = days + (a \div m) /\ TotalRunway(days, y, sat) = days + (b \div m)
  BY DEF TotalRunway
<1> HIDE DEF a, b, m
<1>4. a \div m \in Int /\ (a \div m) * m <= a /\ b \div m \in Int
  BY <1>1, DivBounds
<1>5. (a \div m) * m <= b
  <2>1. (a \div m) * m \in Int
    BY <1>1, <1>4
  <2> QED
    BY <1>1, <1>2, <1>4, <2>1
<1>6. a \div m <= b \div m
  BY <1>1, <1>4, <1>5, DivMax
<1> QED
  BY <1>3, <1>4, <1>6

(* A scan of the monitor's that is under way when the loop sleeps on or    *)
(* wakes up is the latest.                                                 *)
ScanCurrent ==
  pc \in {"waking", "idle"} => reader["monitor"] \in {Idle, wallet}

(* While the loop sleeps only the monitor scans, and what it scanned in    *)
(* this sleep is what the database holds.                                  *)
LEMMA ScanCurrentStep ==
  ASSUME TypeOK, TypeOK', ScanCurrent, [Next]_vars
  PROVE  ScanCurrent'
<1> SUFFICES ASSUME pc' \in {"waking", "idle"}
             PROVE  reader'["monitor"] \in {Idle, wallet'}
  BY DEF ScanCurrent
<1>0. /\ reader \in [Refreshers -> Nat \cup {Idle}]
      /\ "monitor" \in Refreshers /\ "tick" \in Refreshers
  BY DEF TypeOK, Refreshers
<1>1. CASE Refresh
  <2>1. PICK r \in Refreshers : RefreshStep(r)
    BY <1>1 DEF Refresh
  <2>2. CASE RefreshScan(r)
    <3>1. r = "monitor"
      BY <2>2 DEF RefreshScan, Refreshing, Refreshers
    <3> QED
      BY <1>0, <2>2, <3>1 DEF RefreshScan
  <2>3. CASE RefreshInfo(r)
    <3>1. UNCHANGED <<pc, reader, wallet>>
      BY <2>3 DEF RefreshInfo
    <3> QED
      BY <3>1 DEF ScanCurrent
  <2>4. CASE RefreshPublish(r) \/ RefreshRaises(r)
    <3>1. RefreshEnds(r) /\ Refreshing(r)
      BY <2>4 DEF RefreshPublish, RefreshRaises
    <3>2. r = "monitor"
      BY <3>1 DEF RefreshEnds, Refreshing, Refreshers
    <3> QED
      BY <1>0, <3>1, <3>2 DEF RefreshEnds
  <2> QED
    BY <2>1, <2>2, <2>3, <2>4 DEF RefreshStep
<1>2. CASE Outside
  <2>1. UNCHANGED <<pc, reader, wallet>>
    BY <1>2 DEF Outside, CreditArrives, AutoRenew, DayPasses, Income, PeerInfo, PeerSilent,
       Environment
  <2> QED
    BY <2>1 DEF ScanCurrent
<1>3. CASE Recover
  BY <1>3 DEF Recover, RecoverNothing, RecoverSpawn, RecoverFailsafe, RecoverTimesOut,
     ExecuteFailsafe, ToIdle
<1>4. CASE Tick
  BY <1>4 DEF Tick, TickFailsafe, TickTopup, TickDecide, Sweep, FailsafeCompleted,
     TopupInvoice, TopupPay, Decide, SpawnChild, TickProceeds, ExecuteFailsafe, ToIdle,
     SweepFailed
<1>5. CASE Crash \/ Restart \/ UpdateRestart \/ OperatorRestart
  BY <1>5 DEF Crash, Restart, UpdateRestart, OperatorRestart, Exit
<1>6. CASE UNCHANGED vars
  BY <1>6 DEF vars, node, world, ScanCurrent
<1> QED
  BY <1>1, <1>2, <1>3, <1>4, <1>5, <1>6 DEF Next


(* What the node knows of its runway when no refresh is under way: unless a *)
(* read failed, a credit came late, refreshes overlapped or the last one   *)
(* raised, it has no more than the published state says.                   *)
RunwayKnown ==
  seen \cap {"info", "late", "old"} = {} /\ pc = "idle"
    /\ reader["monitor"] = Idle /\ ~ns.old =>
    /\ ns.btc = wallet
    /\ ns.fresh /\ ~ns.due /\ ns.days # NoDays
         => TotalRunway(lease, account + credit, ns.btc) <= Runway(ns)

(* Every step keeps what is known of the runway true. *)
LEMMA RunwayKnownStep ==
  ASSUME TypeOK, TypeOK', AccountKnown, RunwayKnown, ScanCurrent, [Next]_vars
  PROVE  RunwayKnown'
<1> SUFFICES ASSUME seen' \cap {"info", "late", "old"} = {}, pc' = "idle",
                    reader'["monitor"] = Idle, ~ns'.old
             PROVE  /\ ns'.btc = wallet'
                    /\ ns'.fresh /\ ~ns'.due /\ ns'.days # NoDays
                         => TotalRunway(lease', account' + credit', ns'.btc) <= Runway(ns')
  BY DEF RunwayKnown, Runway, TotalRunway
<1>0. /\ account \in Nat /\ credit \in Nat /\ lease \in Nat /\ wallet \in Nat
      /\ ns.btc \in Nat /\ ns.cents \in Nat /\ ns.days \in Int
      /\ told["monitor"].cents \in Nat
      /\ reader \in [Refreshers -> Nat \cup {Idle}]
      /\ "monitor" \in Refreshers /\ "tick" \in Refreshers
  BY DEF TypeOK, StateType, InfoType, NoDays, Refreshers
<1>s. seen \cap {"info", "late", "old"} = {}
  BY SeenGrows
<1>i. pc = "idle" /\ reader["monitor"] = Idle /\ ~ns.old =>
        /\ ns.btc = wallet
        /\ ns.fresh /\ ~ns.due /\ ns.days # NoDays
             => TotalRunway(lease, account + credit, ns.btc) <= Runway(ns)
  BY <1>s DEF RunwayKnown
<1>1. CASE Refresh
  <2>1. PICK r \in Refreshers : RefreshStep(r)
    BY <1>1 DEF Refresh
  <2>2. CASE RefreshScan(r)
    <3>1. r = "monitor"
      BY <2>2 DEF RefreshScan, Refreshing, Refreshers
    <3>2. reader'["monitor"] = wallet' /\ wallet' \in Nat
      BY <1>0, <2>2, <3>1 DEF RefreshScan, TypeOK
    <3> QED
      BY <3>2 DEF Idle
  <2>3. CASE RefreshInfo(r)
    <3>1. r = "monitor" /\ reader[r] # Idle /\ reader' = reader
      BY <2>3 DEF RefreshInfo, Refreshing, Refreshers
    <3> QED
      BY <3>1
  <2>4. CASE RefreshRaises(r)
    <3>1. ns'.old = TRUE
      BY <2>4 DEF RefreshRaises, TypeOK, StateType
    <3> QED
      BY <3>1
  <2>5. CASE RefreshPublish(r)
    <3>1. RefreshEnds(r) /\ Refreshing(r) /\ told[r].asked /\ reader[r] # Idle
      BY <2>5 DEF RefreshPublish
    <3>2. /\ UNCHANGED <<wallet, account, credit, lease>> /\ pc \in {"waking", "idle"}
      BY <3>1 DEF RefreshEnds, world
    <3>3. r = "monitor"
      BY <3>1, <3>2 DEF Refreshing, Refreshers
    <3>4. reader[r] = wallet
      BY <3>1, <3>2, <3>3 DEF ScanCurrent
    <3>5. PICK days \in {lease, NoDays} : ns' = Published(r, days)
      BY <2>5 DEF RefreshPublish
    <3>6. /\ ns'.btc = wallet /\ ns'.cents = told["monitor"].cents
          /\ ns'.due = told["monitor"].due /\ (ns'.days # NoDays => ns'.days = lease)
      BY <3>3, <3>4, <3>5 DEF Published
    <3>7. ~ns'.due => account + credit <= told["monitor"].cents
      BY <1>s, <3>1, <3>2, <3>3, <3>6 DEF AccountKnown
    <3>8. account + credit \in Nat /\ lease \in Int
      BY <1>0
    <3>9. ~ns'.due => TotalRunway(lease, account + credit, wallet)
                        <= TotalRunway(lease, told["monitor"].cents, wallet)
      BY <1>0, <3>7, <3>8, RunwayGrows
    <3> QED
      BY <3>2, <3>6, <3>9 DEF Runway
  <2> QED
    BY <2>1, <2>2, <2>3, <2>4, <2>5 DEF RefreshStep
<1>2. CASE Outside
  <2>1. UNCHANGED <<pc, ns, reader, wallet>>
    BY <1>2 DEF Outside, CreditArrives, AutoRenew, DayPasses, Income, PeerInfo, PeerSilent,
       Environment
  <2>n. account + credit \in Nat
    BY <1>0
  <2>t. TotalRunway(lease, account + credit, ns.btc) \in Int
    BY <1>0, <2>n DEF TotalRunway
  <2>2. TotalRunway(lease', account' + credit', ns.btc) <= TotalRunway(lease, account + credit, ns.btc)
    <3>1. CASE AutoRenew
      <4>1. lease = 0 /\ account' = account - TargetCost /\ lease' = TargetDays /\ credit' = credit
        BY <3>1 DEF AutoRenew
      <4>2. TotalRunway(lease', account' + credit', ns.btc) = TotalRunway(lease, account + credit, ns.btc)
        <5>1. TotalRunway(TargetDays, (account - TargetCost) + credit, ns.btc)
                = TotalRunway(0, account + credit, ns.btc)
          BY <1>0, RenewalKeepsRunway, Zenon
        <5> QED
          BY <4>1, <5>1, Zenon
      <4> QED
        BY <2>t, <4>2
    <3>2. CASE DayPasses
      <4>1. lease' = lease - 1 /\ account' = account /\ credit' = credit
        BY <3>2 DEF DayPasses
      <4> DEFINE q == ((account + credit) * RateDen + ns.btc * RateNum) \div (RateDen * CostPerDay)
      <4>3. q \in Int
        BY <1>0, <2>n
      <4>4. TotalRunway(lease', account' + credit', ns.btc) = (lease - 1) + q
            /\ TotalRunway(lease, account + credit, ns.btc) = lease + q
        BY <4>1 DEF TotalRunway
      <4> HIDE DEF q
      <4> QED
        BY <1>0, <4>3, <4>4
    <3>3. CASE ~AutoRenew /\ ~DayPasses
      <4>1. lease' = lease /\ account' + credit' = account + credit
        BY <1>0, <1>2, <3>3 DEF Outside, CreditArrives, Income, PeerInfo, PeerSilent, world
      <4> QED
        BY <2>t, <4>1
    <3> QED
      BY <3>1, <3>2, <3>3
  <2>3. /\ TotalRunway(lease', account' + credit', ns.btc) \in Int
        /\ TotalRunway(lease, account + credit, ns.btc) \in Int
        /\ Runway(ns) \in Int
    <3>0. account' \in Nat /\ credit' \in Nat /\ lease' \in Nat
      BY DEF TypeOK
    <3>1. account' + credit' \in Nat /\ lease' \in Int
      <4>1. \A a, b \in Nat : a + b \in Nat /\ a \in Int
        OBVIOUS
      <4> QED
        BY <3>0, <4>1, Zenon
    <3>2. TotalRunway(lease', account' + credit', ns.btc) \in Int
      BY <1>0, <3>1, RunwayType, Zenon
    <3>3. TotalRunway(ns.days, ns.cents, ns.btc) \in Int
      BY <1>0, RunwayType, Zenon
    <3> QED
      BY <2>t, <3>2, <3>3, Zenon DEF Runway
  <2>4. ns.fresh /\ ~ns.due /\ ns.days # NoDays
          => TotalRunway(lease', account' + credit', ns.btc) <= Runway(ns)
    BY <1>i, <2>1, <2>2, <2>3
  <2> QED
    BY <1>i, <2>1, <2>4
<1>3. CASE Recover
  BY <1>3 DEF Recover, RecoverNothing, RecoverSpawn, RecoverFailsafe, RecoverTimesOut,
     ExecuteFailsafe, ToIdle
<1>4. CASE Tick
  BY <1>4 DEF Tick, TickFailsafe, TickTopup, TickDecide, Sweep, FailsafeCompleted,
     TopupInvoice, TopupPay, Decide, SpawnChild, TickProceeds, ExecuteFailsafe, ToIdle,
     SweepFailed
<1>5. CASE Crash \/ Restart \/ UpdateRestart \/ OperatorRestart
  BY <1>5 DEF Crash, Restart, UpdateRestart, OperatorRestart, Exit
<1>6. CASE UNCHANGED vars
  BY <1>i, <1>6 DEF vars, node, world
<1> QED
  BY <1>1, <1>2, <1>3, <1>4, <1>5, <1>6 DEF Next

(* A failsafe that starts finds the runway used up. *)
LEMMA FailsafeStep ==
  ASSUME TypeOK, RunwayKnown, [Next]_vars, FailsafeStarts,
         seen' \cap {"info", "late", "old"} = {}, reader["monitor"] = Idle
  PROVE  TrueRunway < FailsafeTrigger
<1>1. kv.failsafe = FALSE /\ kv'.failsafe
  BY DEF FailsafeStarts, TypeOK
<1>2. TickFailsafe
  <2>1. CASE Refresh \/ Recover \/ Outside
    BY <1>1, <2>1 DEF Refresh, RefreshStep, RefreshScan, RefreshInfo, RefreshPublish,
       RefreshRaises, RefreshEnds, Recover, RecoverNothing, RecoverSpawn,
       RecoverFailsafe, RecoverTimesOut, Outside, CreditArrives, AutoRenew, DayPasses, Income,
       PeerInfo, PeerSilent, Environment
  <2>2. CASE Tick /\ ~TickFailsafe
    BY <1>1, <2>2 DEF Tick, TickTopup, TickDecide, Sweep, FailsafeCompleted,
     TopupInvoice, TopupPay, Decide, SpawnChild, TypeOK
  <2>3. CASE Crash \/ Restart \/ UpdateRestart \/ OperatorRestart
    BY <1>1, <2>3 DEF Crash, Restart, UpdateRestart, OperatorRestart, Exit
  <2>4. CASE UNCHANGED vars
    BY <1>1, <2>4 DEF vars, node
  <2> QED
    BY <2>1, <2>2, <2>3, <2>4 DEF Next
<1>3. pc = "idle" /\ ns.fresh /\ ns.days # NoDays /\ Runway(ns) < FailsafeTrigger
  BY <1>2 DEF TickFailsafe, TickProceeds
<1>4. ~ns.due /\ ~ns.old
  BY <1>2 DEF TickFailsafe, NoticeLate, NoticeOld, Notice
<1>5. seen \cap {"info", "late", "old"} = {}
  BY SeenGrows
<1>6. ns.btc = wallet /\ TotalRunway(lease, account + credit, ns.btc) <= Runway(ns)
  BY <1>3, <1>4, <1>5 DEF RunwayKnown
<1>7. TotalRunway(lease, account + credit, ns.btc) \in Int /\ Runway(ns) \in Int
  <2>1. account + credit \in Nat /\ lease \in Int /\ ns.btc \in Nat /\ ns.cents \in Nat /\ ns.days \in Int
    BY DEF TypeOK, StateType, NoDays
  <2> QED
    BY <2>1, RunwayType DEF Runway
<1> QED
  BY <1>3, <1>6, <1>7 DEF TrueRunway

(* The node gives its money away only when the true runway is below the    *)
(* trigger, unless get_info failed, a credit came late or the last refresh *)
(* raised and left an older state to decide on.                            *)
THEOREM FailsafeOnlyWhenExhausted == Spec => FailsafeWhenExhausted
<1>1. Init => RunwayKnown /\ ScanCurrent
  BY DEF Init, RunwayKnown, ScanCurrent
<1>2. LoopInv /\ LoopInv' /\ AccountKnown /\ RunwayKnown /\ ScanCurrent /\ [Next]_vars
        => AccountKnown' /\ RunwayKnown' /\ ScanCurrent'
  BY AccountKnownStep, RunwayKnownStep, ScanCurrentStep DEF LoopInv
<1>3. LoopInv /\ RunwayKnown /\ [Next]_vars
        => [(FailsafeStarts /\ seen' \cap {"info", "late", "old"} = {}
               /\ reader["monitor"] = Idle) => TrueRunway < FailsafeTrigger]_vars
  BY FailsafeStep DEF LoopInv
<1> QED
  BY <1>1, <1>2, <1>3, AccountInit, LoopInvariant, PTL DEF Spec, FailsafeWhenExhausted

(***************************************************************************)
(* The decision to spawn.                                                  *)
(***************************************************************************)

(* What the node knows of its wallet: unless a scan failed, refreshes      *)
(* overlapped or a tick decided on an old state, the balance the tick      *)
(* decides on is there, and so is what a refresh that is no older than the *)
(* database is about to publish.                                           *)
BalanceKnown ==
  seen \cap {"scan", "overlap", "old"} = {} =>
    /\ pc \in {"idle", "topup", "decide"} /\ ~ns.old => ns.btc <= coins
    /\ pc = "refresh" /\ reader["tick"] # Idle => wallet <= coins
    /\ pc \in {"waking", "idle", "topup", "decide"} /\ reader["monitor"] # Idle
         /\ reader["monitor"] = wallet => wallet <= coins

(* Every step keeps what is known of the wallet true. *)
LEMMA BalanceKnownStep ==
  ASSUME TypeOK, TypeOK', TickReader, BalanceKnown, [Next]_vars
  PROVE  BalanceKnown'
<1> SUFFICES ASSUME seen' \cap {"scan", "overlap", "old"} = {}
             PROVE  /\ pc' \in {"idle", "topup", "decide"} /\ ~ns'.old => ns'.btc <= coins'
                    /\ pc' = "refresh" /\ reader'["tick"] # Idle => wallet' <= coins'
                    /\ pc' \in {"waking", "idle", "topup", "decide"}
                         /\ reader'["monitor"] # Idle /\ reader'["monitor"] = wallet'
                         => wallet' <= coins'
  BY DEF BalanceKnown
<1>0. /\ wallet \in Nat /\ coins \in Nat /\ ns.btc \in Nat
      /\ reader \in [Refreshers -> Nat \cup {Idle}]
      /\ "monitor" \in Refreshers /\ "tick" \in Refreshers /\ "tick" # "monitor"
  BY DEF TypeOK, StateType, Refreshers
<1>i. /\ pc \in {"idle", "topup", "decide"} /\ ~ns.old => ns.btc <= coins
      /\ pc = "refresh" /\ reader["tick"] # Idle => wallet <= coins
      /\ pc \in {"waking", "idle", "topup", "decide"} /\ reader["monitor"] # Idle
           /\ reader["monitor"] = wallet => wallet <= coins
  BY SeenGrows DEF BalanceKnown
<1>1. CASE Refresh
  <2>1. PICK r \in Refreshers : RefreshStep(r)
    BY <1>1 DEF Refresh
  <2>2. CASE RefreshScan(r)
    <3>1. wallet' = coins /\ UNCHANGED <<ns, coins>>
      BY <2>2 DEF RefreshScan, Trouble, world
    <3>2. wallet' <= coins'
      BY <1>0, <3>1
    <3>3. pc' \in {pc, "waking"}
      BY <2>2 DEF RefreshScan
    <3>4. pc' \in {"idle", "topup", "decide"} /\ ~ns'.old => ns'.btc <= coins'
      BY <1>i, <3>1, <3>3
    <3> QED
      BY <3>2, <3>4
  <2>3. CASE RefreshInfo(r)
    BY <1>i, <2>3 DEF RefreshInfo, world
  <2>4. CASE RefreshPublish(r) \/ RefreshRaises(r)
    <3>1. RefreshEnds(r) /\ Refreshing(r)
      BY <2>4 DEF RefreshPublish, RefreshRaises
    <3>2. UNCHANGED <<wallet, coins>> /\ reader' = [reader EXCEPT ![r] = Idle]
      BY <3>1 DEF RefreshEnds, world
    <3>3. \/ pc = "refresh" /\ r = "tick" /\ pc' = "decide"
          \/ pc = "waking" /\ pc' = "idle"
          \/ pc = "asleep" /\ reader[r] = Idle /\ pc' = "idle"
          \/ pc' = pc
      BY <3>1 DEF RefreshEnds
    <3>5. pc' = "refresh" /\ reader'["tick"] # Idle => wallet <= coins
      BY <1>0, <1>i, <3>2, <3>3
    <3>6. pc' \in {"idle", "topup", "decide"} /\ ~ns'.old => ns'.btc <= coins
      <4> SUFFICES ASSUME pc' \in {"idle", "topup", "decide"}, ~ns'.old
                   PROVE  ns'.btc <= coins
        OBVIOUS
      <4>1. RefreshPublish(r)
        <5>1. CASE RefreshRaises(r)
          <6>1. ns'.old = TRUE
            BY <5>1 DEF RefreshRaises, TypeOK, StateType
          <6> QED
            BY <6>1
        <5> QED
          BY <2>4, <5>1
      <4>2. reader[r] = wallet /\ reader[r] # Idle
        <5>1. Overlap(r) = {}
          BY <4>1 DEF RefreshPublish, Trouble, Notice, Overlap
        <5> QED
          BY <4>1, <5>1 DEF Overlap, RefreshPublish
      <4>3. \E days : ns' = Published(r, days)
        BY <4>1 DEF RefreshPublish
      <4>4. ns'.btc = wallet
        BY <4>2, <4>3 DEF Published
      <4>5. wallet <= coins
        BY <1>i, <3>1, <3>3, <4>2 DEF Refreshing, Refreshers
      <4> QED
        BY <4>4, <4>5
    <3>7. pc' \in {"waking", "idle", "topup", "decide"} /\ reader'["monitor"] # Idle
            /\ reader'["monitor"] = wallet => wallet <= coins
      <4> SUFFICES ASSUME pc' \in {"waking", "idle", "topup", "decide"},
                          reader'["monitor"] # Idle
                   PROVE  wallet <= coins
        OBVIOUS
      <4>1. r # "monitor" /\ reader["monitor"] # Idle
        BY <1>0, <3>2
      <4>2. r = "tick" /\ pc = "refresh"
        BY <3>1, <4>1 DEF Refreshing, Refreshers
      <4>3. RefreshPublish(r)
        BY <1>0, <2>4, <4>1 DEF RefreshRaises, Trouble
      <4> QED
        BY <1>i, <4>2, <4>3 DEF RefreshPublish
    <3> QED
      BY <3>2, <3>5, <3>6, <3>7
  <2> QED
    BY <2>1, <2>2, <2>3, <2>4 DEF RefreshStep
<1>2. CASE Outside
  <2>1. UNCHANGED <<pc, ns, reader, wallet>>
    BY <1>2 DEF Outside, CreditArrives, AutoRenew, DayPasses, Income, PeerInfo, PeerSilent,
       Environment
  <2>2. coins' = coins \/ coins' = coins + Donation
    BY <1>2 DEF Outside, CreditArrives, AutoRenew, DayPasses, Income, PeerInfo, PeerSilent,
       world
  <2>3. /\ wallet <= coins => wallet <= coins + Donation
        /\ ns.btc <= coins => ns.btc <= coins + Donation
    BY <1>0
  <2> QED
    BY <1>i, <2>1, <2>2, <2>3
<1>3. CASE Recover
  BY <1>3 DEF Recover, RecoverNothing, RecoverSpawn, RecoverFailsafe, RecoverTimesOut,
     ExecuteFailsafe, ToIdle
<1>4. CASE TickFailsafe \/ Sweep \/ FailsafeCompleted \/ Decide \/ SpawnChild
  BY <1>4 DEF TickFailsafe, Sweep, FailsafeCompleted, Decide, SpawnChild,
     ExecuteFailsafe, ToIdle, SweepFailed
<1>5. CASE TickTopup \/ TickDecide
  BY <1>i, <1>5 DEF TickTopup, TickDecide, TickProceeds, world
<1>6. CASE TopupInvoice \/ TopupPay
  <2>1. pc = "topup" /\ reader' = reader /\ pc' \in {"topup", "refresh"}
    BY <1>6 DEF TopupInvoice, TopupPay
  <2>2. reader'["tick"] = Idle
    BY <2>1 DEF TickReader
  <2>3. pc' = "topup" => UNCHANGED <<wallet, coins, ns>>
    BY <1>6 DEF TopupInvoice, TopupPay, world
  <2> QED
    BY <1>i, <2>1, <2>2, <2>3
<1>7. CASE Crash \/ Restart \/ UpdateRestart \/ OperatorRestart
  BY <1>7 DEF Crash, Restart, UpdateRestart, OperatorRestart, Exit
<1>8. CASE UNCHANGED vars
  BY <1>i, <1>8 DEF vars, node, world
<1> QED
  BY <1>1, <1>2, <1>3, <1>4, <1>5, <1>6, <1>7, <1>8 DEF Next, Tick

(* An outlay in satoshis, a day's cost rounded down, covers the outlay in  *)
(* exact prices.                                                           *)
LEMMA OutlayInDays ==
  ASSUME NEW m \in Nat \ {0}, NEW n \in Nat \ {0}, NEW c \in Nat \ {0}, c * n <= m,
         NEW out \in Nat, NEW thr \in Int, NEW r \in Int,
         (r - thr) * c >= out
  PROVE  (r - thr) * m >= out * n
<1>1. r - thr \in Nat
  <2> SUFFICES ASSUME r - thr < 0 PROVE FALSE
    OBVIOUS
  <2>1. (r - thr) * c < 0
    OBVIOUS
  <2> QED
    BY <2>1
<1> DEFINE d == r - thr
<1>2. d \in Nat /\ d * c >= out
  BY <1>1
<1> HIDE DEF d
<1>3. d * (c * n) <= d * m
  BY <1>2
<1>4. (d * c) * n >= out * n
  BY <1>2
<1>5. d * (c * n) = (d * c) * n
  BY <1>2
<1>6. d * m >= out * n
  <2>1. d * m \in Int /\ out * n \in Int /\ (d * c) * n \in Int
    BY <1>2
  <2> QED
    BY <1>3, <1>4, <1>5, <2>1
<1> QED
  BY <1>6 DEF d

(* A runway test made in satoshis holds of the exact prices. *)
LEMMA RunwayAfterOutlay ==
  ASSUME NEW days \in Nat, NEW cents \in Nat, NEW btc \in Nat, NEW left \in Nat,
         NEW out \in Nat, NEW thr \in Int,
         left >= btc - out, _cost_per_day_sat > 0,
         (TotalRunway(days, cents, btc) * _cost_per_day_sat - out) \div _cost_per_day_sat >= thr
  PROVE  TotalRunway(days, cents, left) >= thr
<1> DEFINE m == RateDen * CostPerDay
           f == cents * RateDen + btc * RateNum
           g == cents * RateDen + left * RateNum
           q == f \div m
           r == days + q
           c == _cost_per_day_sat
<1>1. m \in Nat \ {0} /\ f \in Nat /\ g \in Nat
  OBVIOUS
<1>2. c \in Nat \ {0}
  BY CostTypes
<1>3. c * RateNum <= m
  <2>1. c = (CostPerDay * RateDen) \div RateNum
    BY DEF _cost_per_day_sat, ToSat
  <2>2. CostPerDay * RateDen = m /\ CostPerDay * RateDen \in Int
    OBVIOUS
  <2> HIDE DEF c, m
  <2> QED
    BY <1>1, <2>1, <2>2
<1>4. g >= f - out * RateNum
  <2>1. left * RateNum >= (btc - out) * RateNum
    OBVIOUS
  <2>2. (btc - out) * RateNum = btc * RateNum - out * RateNum
    OBVIOUS
  <2>3. left * RateNum \in Int /\ btc * RateNum \in Int /\ out * RateNum \in Int /\ cents * RateDen \in Int
    OBVIOUS
  <2> QED
    BY <2>1, <2>2, <2>3
<1>5. TotalRunway(days, cents, btc) = r /\ TotalRunway(days, cents, left) = days + (g \div m)
  BY DEF TotalRunway
<1>6. (r * c - out) \div c >= thr
  BY <1>5
<1> HIDE DEF m, f, g, c
<1>7. q \in Int /\ q * m <= f
  BY <1>1
<1> HIDE DEF q
<1>8. r \in Int
  BY <1>7
<1>9. (r - thr) * c >= out
  <2> DEFINE x == r * c - out
  <2>1. x \in Int /\ thr <= x \div c
    BY <1>2, <1>6, <1>8
  <2> HIDE DEF x
  <2>2. thr * c <= x
    BY <1>2, <2>1, DivLess
  <2>3. (r - thr) * c = r * c - thr * c
    BY <1>2, <1>8
  <2>4. r * c \in Int /\ thr * c \in Int
    BY <1>2, <1>8
  <2> HIDE DEF r
  <2> QED
    BY <2>2, <2>3, <2>4 DEF x
<1>10. (r - thr) * m >= out * RateNum
  <2> HIDE DEF r
  <2> QED
    BY <1>1, <1>2, <1>3, <1>8, <1>9, OutlayInDays
<1>11. (thr - days) * m <= g
  <2>1. (r - thr) * m = q * m - (thr - days) * m
    BY <1>1, <1>7
  <2>2. q * m \in Int /\ (thr - days) * m \in Int /\ out * RateNum \in Int
    BY <1>1, <1>7
  <2> HIDE DEF r
  <2> QED
    BY <1>1, <1>4, <1>7, <1>10, <2>1, <2>2
<1>12. thr - days <= g \div m /\ g \div m \in Int
  BY <1>1, <1>11, DivMax
<1> QED
  BY <1>5, <1>12

(* The decision to spawn leaves the threshold's runway. *)
LEMMA SpawnDecisionStep ==
  ASSUME TypeOK, BalanceKnown, [Next]_vars, _cost_per_day_sat > 0,
         ~kv.spawning, kv'.spawning, seen' \cap {"scan", "overlap", "old"} = {}
  PROVE  /\ coins - SpawnOutlay(snap'.btc) >= 0
         /\ TotalRunway(snap'.days, snap'.cents, coins - SpawnOutlay(snap'.btc))
               >= EffectiveThreshold(Caution)
<1>1. Decide
  <2>0. kv.spawning = FALSE /\ kv \in [spawning : BOOLEAN, failsafe : BOOLEAN]
    BY DEF TypeOK
  <2>1. CASE Refresh \/ Recover \/ Outside
    BY <2>0, <2>1 DEF Refresh, RefreshStep, RefreshScan, RefreshInfo, RefreshPublish,
       RefreshRaises, RefreshEnds, Recover, RecoverNothing, RecoverSpawn,
       RecoverFailsafe, RecoverTimesOut, ExecuteFailsafe, Outside, CreditArrives, AutoRenew,
       DayPasses, Income, PeerInfo, PeerSilent, Environment
  <2>2. CASE Tick /\ ~Decide
    BY <2>0, <2>2 DEF Tick, TickFailsafe, ExecuteFailsafe, TickTopup, TickDecide, Sweep,
     FailsafeCompleted, TopupInvoice, TopupPay, SpawnChild
  <2>3. CASE Crash \/ Restart \/ UpdateRestart \/ OperatorRestart
    BY <2>0, <2>3 DEF Crash, Restart, UpdateRestart, OperatorRestart, Exit
  <2>4. CASE UNCHANGED vars
    BY <2>0, <2>4 DEF vars, node
  <2> QED
    BY <2>1, <2>2, <2>3, <2>4 DEF Next
<1>2. /\ pc = "decide" /\ snap' = ns /\ ns.days # NoDays
      /\ check_spawn_eligibility(Runway(ns), ns.btc, Caution)
  BY <1>1 DEF Decide
<1>3. ns.btc <= coins
  <2>1. ~ns.old
    BY <1>1 DEF Decide, Notice, NoticeOld
  <2> QED
    BY <1>2, <2>1, SeenGrows DEF BalanceKnown
<1>4. coins \in Nat /\ ns.btc \in Nat /\ ns.days \in Nat /\ ns.cents \in Nat
  BY <1>2 DEF TypeOK, StateType
<1> DEFINE out == SpawnOutlay(ns.btc)
           thr == EffectiveThreshold(Caution)
<1>5. out \in Nat
  BY <1>4, OutlayType
<1>6. thr \in Int
  <2> DEFINE b == Larger(0, Smaller(100, Caution))
  <2>1. b \in Int
    BY DEF Larger, Smaller
  <2> HIDE DEF b
  <2>2. (ThresholdDays * (100 + b)) \div 100 \in Int
    BY <2>1
  <2> QED
    BY <2>2 DEF EffectiveThreshold, b
<1>7. ns.btc >= out /\ (Runway(ns) * _cost_per_day_sat - out) \div _cost_per_day_sat >= thr
  BY <1>2 DEF check_spawn_eligibility, PostSpawnRunway
<1> HIDE DEF out, thr
<1>8. coins - out \in Nat /\ coins - out >= ns.btc - out
  BY <1>3, <1>4, <1>5, <1>7
<1>9. TotalRunway(ns.days, ns.cents, coins - out) >= thr
  BY <1>4, <1>5, <1>6, <1>7, <1>8, RunwayAfterOutlay DEF Runway
<1> QED
  BY <1>2, <1>8, <1>9 DEF out, thr

(* A node that decides to spawn can pay for it and keeps the runway its    *)
(* threshold asks for, by exact prices although the test rounds to         *)
(* satoshis, unless a scan failed, refreshes overlapped or the last one    *)
(* raised and left an older state to decide on.  A day must cost at least  *)
(* one satoshi: below that the code counts the outlay as no days at all.   *)
THEOREM SpawnKeepsRunway ==
  ASSUME _cost_per_day_sat > 0
  PROVE  Spec => SpawnLeavesRunway
<1>1. Init => BalanceKnown
  BY DEF Init, BalanceKnown
<1>2. LoopInv /\ LoopInv' /\ BalanceKnown /\ [Next]_vars => BalanceKnown'
  BY BalanceKnownStep DEF LoopInv
<1>3. LoopInv /\ BalanceKnown /\ [Next]_vars
        => [(~kv.spawning /\ kv'.spawning /\ seen' \cap {"scan", "overlap", "old"} = {})
             => LET left == coins - SpawnOutlay(snap'.btc) IN
                /\ left >= 0
                /\ TotalRunway(snap'.days, snap'.cents, left) >= EffectiveThreshold(Caution)]_vars
  BY SpawnDecisionStep DEF LoopInv
<1> QED
  BY <1>1, <1>2, <1>3, LoopInvariant, PTL DEF Spec, SpawnLeavesRunway
===============================================================================
