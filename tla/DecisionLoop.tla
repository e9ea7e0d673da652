----------------------------- MODULE DecisionLoop -----------------------------
(***************************************************************************)
(* The money decisions of a Mycelium node: the decision loop               *)
(* (decision_loop.py) with its failsafe (failsafe.py) and top-up           *)
(* (topup.py), the NodeMonitor it reads (node_monitor.py), the peer        *)
(* registry (peer_registry.py), and the tasks of the orchestrator that run *)
(* beside it (main.py): the monitor loop and the update check.             *)
(*                                                                         *)
(* The decision task is one coroutine; pc is the await it stands at.  The  *)
(* monitor's refresh runs in a worker thread and is three steps, the       *)
(* wallet scan, get_info, and get_servers with the publication of the      *)
(* result; it may raise at any of them, which is swallowed and leaves the  *)
(* state published before.  The monitor loop and the tick may each have    *)
(* one under way.                                                          *)
(* Outside the process are the chain (coins), SporeStack (account, credit  *)
(* on its way, server lease) and the peers' announcements.  A spawn is one *)
(* step here; SpawnPipeline models its inside.                             *)
(***************************************************************************)
EXTENDS SpawnThresholds, FiniteSets

CONSTANTS
  Peers,             \* nodes that may announce themselves
  MaxWealth,         \* bound: wealth a peer announces, 1 .. MaxWealth
  HasDefault,        \* is DEFAULT_BTC_ADDRESS configured?
  FailsafeTrigger,   \* FAILSAFE_TRIGGER_DAYS
  TopupTrigger,      \* TOPUP_TRIGGER_DAYS
  Caution,           \* the node's caution trait, in percent
  Starts,            \* initial coins (satoshi) and days of the server lease
  Donation,          \* what one incoming payment adds
  MaxIncome, MaxDays, MaxFaults, MaxUpdates
                     \* bounds: payments received, days, faults, new commits

ASSUME LoopAssumption ==
  /\ FailsafeTrigger \in Nat /\ TopupTrigger \in Nat /\ MaxWealth \in Nat
  /\ HasDefault \in BOOLEAN /\ Caution \in Nat /\ Donation \in Nat
  /\ Starts \subseteq Nat \X Nat
  /\ MaxIncome \in Nat /\ MaxDays \in Nat /\ MaxFaults \in Nat /\ MaxUpdates \in Nat

VARIABLES
  kv,         \* the two flags of NodePersistentState; they survive a crash
  pc,         \* where the decision task stands; "down" when the node is
  ns,         \* NodeMonitor._state
  snap,       \* the tick's node_state
  target,     \* where the failsafe sweeps to
  invoice,    \* the top-up invoice in hand, in dollars; 0 for none
  reader,     \* each refresh under way: the balance it has read, or Idle
  told,       \* and what get_info told it, or NoInfo
  fleet,      \* PeerRegistry: the balance of a live peer, 0 when not live
  wallet,     \* the wallet database's balance, in satoshi
  coins,      \* the unspent coins on the chain
  account,    \* the SporeStack balance, in cents
  credit,     \* cents paid for and not yet on the account
  lease,      \* days the server is paid for
  swept,      \* destinations that received a sweep
  seen,       \* history: kinds of trouble so far
  budget      \* faults, payments, days and updates still to come

node   == <<kv, pc, ns, snap, target, invoice, reader, told, fleet, wallet>>
world  == <<coins, account, credit, lease, swept>>
vars   == <<node, world, seen, budget>>

Idle    == -1                       \* no refresh under way
NoDays  == -1                       \* days_remaining is None
NoState == [btc |-> 0, cents |-> 0, days |-> NoDays, due |-> FALSE,
            fresh |-> FALSE,        \* last_updated = 0
            old |-> FALSE]          \* history: the last refresh raised
NoInfo  == [cents |-> 0, due |-> FALSE, asked |-> FALSE]
NoTarget == "none"
Cold     == "cold wallet"           \* DEFAULT_BTC_ADDRESS
Refreshers == {"monitor", "tick"}
Troubles == {"crash", "info", "servers", "scan", "lost", "fail", "late",
             "overlap", "old"}

Init ==
  /\ kv = [spawning |-> FALSE, failsafe |-> FALSE]
  /\ pc = "boot" /\ ns = NoState /\ snap = NoState /\ target = NoTarget
  /\ invoice = 0 /\ reader = [r \in Refreshers |-> Idle]
  /\ told = [r \in Refreshers |-> NoInfo]
  /\ fleet = [p \in Peers |-> 0]
  /\ \E start \in Starts : coins = start[1] /\ lease = start[2]
  /\ wallet = coins
  /\ account = 0 /\ credit = 0 /\ swept = {} /\ seen = {}
  /\ budget = [faults |-> MaxFaults, income |-> MaxIncome, days |-> MaxDays,
               updates |-> MaxUpdates]

-----------------------------------------------------------------------------
(* Helpers.                                                                 *)

Up == pc # "down"

Sound == UNCHANGED <<seen, budget>>
Trouble(kinds) ==
  /\ budget.faults > 0
  /\ budget' = [budget EXCEPT !.faults = @ - 1]
  /\ seen' = seen \cup kinds
(* Trouble that needs no failure, only an unlucky order. *)
Notice(kinds) == seen' = seen \cup kinds /\ UNCHANGED budget

(* A runway of bought days alone. *)
Runway_Bought(s) == s.days

(* effective_runway: total_runway_days of a state whose days are known. *)
Runway(s) == TotalRunway(s.days, s.cents, s.btc)

(* What the node really has, as far as its wallet knows its coins. *)
TrueRunway == TotalRunway(lease, account + credit, wallet)

LivePeers == {p \in Peers : fleet[p] > 0}
select_best_peer == {p \in LivePeers : \A q \in LivePeers : fleet[p] >= fleet[q]}

(* The coroutine is back in asyncio.sleep(DECISION_INTERVAL): its locals   *)
(* are gone.  The sleep is many REFRESH_INTERVALs long, so the monitor     *)
(* loop begins and ends a refresh before the next tick ("asleep", then     *)
(* "waking", then "idle").                                                 *)
Sleeping == {"asleep", "waking", "idle"}
ToIdle == /\ pc' = "asleep" /\ snap' = NoState /\ target' = NoTarget
          /\ invoice' = 0

-----------------------------------------------------------------------------
(* NodeMonitor.refresh, run by monitor_loop and by the tick.                *)

Refreshing(r) == Up /\ (r = "tick" => pc = "refresh")

(* w.scan() may fail; the balance is then the one the database holds. *)
RefreshScan(r) ==
  /\ Refreshing(r) /\ reader[r] = Idle
  /\ \/ wallet' = coins /\ Sound
     \/ UNCHANGED wallet /\ wallet # coins /\ Trouble({"scan"})
  /\ reader' = [reader EXCEPT ![r] = wallet']
  /\ pc' = IF pc = "asleep" THEN "waking" ELSE pc
  /\ UNCHANGED <<kv, ns, snap, target, invoice, told, fleet, world>>

(* What get_info tells: the account's cents, or nothing, which counts as   *)
(* an empty account.                                                       *)
Info(cents) == [cents |-> cents, due |-> credit > 0, asked |-> TRUE]

RefreshInfo(r) ==
  /\ Refreshing(r) /\ reader[r] # Idle /\ ~told[r].asked
  /\ \/ told' = [told EXCEPT ![r] = Info(account)] /\ Sound
     \/ told' = [told EXCEPT ![r] = Info(0)] /\ Trouble({"info"})
  /\ UNCHANGED <<kv, pc, ns, snap, target, invoice, reader, fleet, wallet, world>>

(* get_servers lists the server; it fails, or lists none: days_remaining   *)
(* is None.                                                                *)
Published(r, days) ==
  [btc |-> reader[r], cents |-> told[r].cents, days |-> days,
   due |-> told[r].due, fresh |-> TRUE, old |-> FALSE]

(* The scan is older than what the wallet's database has learnt since. *)
Overlap(r) == IF reader[r] # wallet THEN {"overlap"} ELSE {}

(* The refresh is over: the tick goes on to its decision, the sleep has    *)
(* seen a refresh from its beginning to its end.                           *)
RefreshEnds(r) ==
  /\ reader' = [reader EXCEPT ![r] = Idle]
  /\ told' = [told EXCEPT ![r] = NoInfo]
  /\ pc' = CASE pc = "refresh" /\ r = "tick" -> "decide"
             [] pc = "waking" \/ (pc = "asleep" /\ reader[r] = Idle) -> "idle"
             [] OTHER -> pc
  /\ UNCHANGED <<kv, snap, target, invoice, fleet, wallet, world>>

RefreshPublish(r) ==
  /\ Refreshing(r) /\ reader[r] # Idle /\ told[r].asked
  /\ \/ ns' = Published(r, lease) /\ Notice(Overlap(r))
     \/ ns' = Published(r, NoDays) /\ Trouble({"servers"} \cup Overlap(r))
  /\ RefreshEnds(r)

(* An exception ends the refresh before, between or after its queries: it  *)
(* is logged, and _state stays what it was.  A refresh of the other task   *)
(* that is under way then may be published in its place.                   *)
RefreshRaises(r) ==
  /\ Refreshing(r)
  /\ ns' = [ns EXCEPT !.old = TRUE]
  /\ Trouble(IF \E q \in Refreshers \ {r} : reader[q] # Idle THEN {"overlap"} ELSE {})
  /\ RefreshEnds(r)

-----------------------------------------------------------------------------
(* The failsafe: execute_failsafe and _sweep_funds.                         *)

(* The best live peer, else the cold wallet, else nothing at all; the flag *)
(* is set before the sweep.                                                *)
ExecuteFailsafe(s) ==
  IF LivePeers # {} \/ HasDefault
  THEN /\ target' \in (IF LivePeers # {} THEN select_best_peer ELSE {Cold})
       /\ kv' = [kv EXCEPT !.failsafe = TRUE]
       /\ pc' = "sweep" /\ snap' = s
       /\ UNCHANGED invoice
  ELSE ToIdle /\ UNCHANGED kv

(* sweep_all spends every coin the database knows; the network refuses it  *)
(* when one of them is already spent, and there must be one.               *)
CanSweep == wallet > 0 /\ wallet <= coins

(* A failed sweep is tried once more, to the cold wallet; a second failure *)
(* leaves the flag set.                                                    *)
SweepFailed ==
  IF target # Cold /\ HasDefault
  THEN target' = Cold /\ UNCHANGED <<pc, snap, invoice>>
  ELSE ToIdle

SweepSent ==
  /\ CanSweep
  /\ coins' = coins - wallet
  /\ swept' = swept \cup {target}

Sweep ==
  /\ pc = "sweep"
  /\ \/ SweepSent /\ wallet' = 0 /\ pc' = "swept"
        /\ UNCHANGED <<snap, target, invoice>> /\ Sound
     \/ SweepSent /\ SweepFailed /\ Trouble({"lost"}) /\ UNCHANGED wallet
     \/ CanSweep /\ SweepFailed /\ Trouble({"fail"})
        /\ UNCHANGED <<wallet, coins, swept>>
     \/ ~CanSweep /\ SweepFailed /\ Sound /\ UNCHANGED <<wallet, coins, swept>>
  /\ UNCHANGED <<kv, ns, reader, told, fleet, account, credit, lease>>

FailsafeCompleted ==
  /\ pc = "swept"
  /\ kv' = [kv EXCEPT !.failsafe = FALSE]
  /\ ToIdle /\ Sound
  /\ UNCHANGED <<ns, reader, told, fleet, wallet, world>>

-----------------------------------------------------------------------------
(* The tick.                                                                *)

(* A tick that does not look at the failsafe flag. *)
TickProceeds_Reentrant == pc = "idle" /\ ns.fresh /\ ns.days # NoDays /\ ~kv.spawning

(* The early returns of _tick: it goes on only past all of them. *)
TickProceeds ==
  /\ pc = "idle" /\ ns.fresh /\ ns.days # NoDays
  /\ ~kv.spawning /\ ~kv.failsafe

(* A decision on a state whose account a payment has still to reach, or    *)
(* that the last refresh failed to replace.                                *)
NoticeOld  == IF ns.old THEN {"old"} ELSE {}
NoticeLate == Notice(NoticeOld \cup (IF ns.due THEN {"late"} ELSE {}))

TickFailsafe ==
  /\ TickProceeds
  /\ Runway(ns) < FailsafeTrigger
  /\ ExecuteFailsafe(ns)
  /\ NoticeLate
  /\ UNCHANGED <<ns, reader, told, fleet, wallet, world>>

(* A top-up that waits for the total runway, not the bought days, to sink. *)
TickTopup_OnTotal ==
  /\ TickProceeds
  /\ Runway(ns) >= FailsafeTrigger /\ Runway(ns) < TopupTrigger
  /\ pc' = "topup" /\ snap' = ns /\ NoticeLate
  /\ UNCHANGED <<kv, ns, target, invoice, reader, told, fleet, wallet, world>>

TickTopup ==
  /\ TickProceeds
  /\ Runway(ns) >= FailsafeTrigger /\ ns.days < TopupTrigger
  /\ pc' = "topup" /\ snap' = ns /\ NoticeLate
  /\ UNCHANGED <<kv, ns, target, invoice, reader, told, fleet, wallet, world>>

TickDecide ==
  /\ TickProceeds
  /\ Runway(ns) >= FailsafeTrigger /\ ns.days >= TopupTrigger
  /\ pc' = "decide" /\ NoticeLate
  /\ UNCHANGED <<kv, ns, snap, target, invoice, reader, told, fleet, wallet, world>>

-----------------------------------------------------------------------------
(* topup_sporestack.                                                        *)

CeilDiv(x, y) == (x + y - 1) \div y

(* A top-up sized without the balance already on the account. *)
NeededDollars_Ignoring(cents) ==
  Larger(MinInvoiceDollars, CeilDiv(TargetCost, CentsPerDollar))

NeededDollars(cents) ==
  IF TargetCost <= cents THEN 0
  ELSE Larger(MinInvoiceDollars, CeilDiv(TargetCost - cents, CentsPerDollar))

InvoiceSat == ToSat(invoice * CentsPerDollar)

(* create_invoice, unless the account already covers the target or the     *)
(* call fails; both return and the tick goes on to its refresh.            *)
TopupInvoice ==
  /\ pc = "topup" /\ invoice = 0
  /\ \/ /\ NeededDollars(snap.cents) > 0 /\ Sound
        /\ invoice' = NeededDollars(snap.cents) /\ UNCHANGED pc
     \/ /\ NeededDollars(snap.cents) > 0 /\ Trouble({"fail"})
        /\ pc' = "refresh" /\ UNCHANGED invoice
     \/ /\ NeededDollars(snap.cents) = 0 /\ Sound
        /\ pc' = "refresh" /\ UNCHANGED invoice
  /\ UNCHANGED <<kv, ns, snap, target, reader, told, fleet, wallet, world>>

(* A payment the network takes whether or not the coins are still there. *)
PaymentSent_Unchecked ==
  /\ coins' = coins - InvoiceSat
  /\ credit' = credit + invoice * CentsPerDollar

PaymentSent ==
  /\ coins >= InvoiceSat
  /\ coins' = coins - InvoiceSat
  /\ credit' = credit + invoice * CentsPerDollar

(* A wallet that the balance says is too small pays nothing; otherwise the *)
(* payment is sent, is sent and its answer lost, or fails (as it must when *)
(* the coins are already spent).  Nothing is recorded, and the database's  *)
(* balance only changes at the next scan (broadcast=False).                *)
TopupPay ==
  /\ pc = "topup" /\ invoice > 0
  /\ \/ wallet >= InvoiceSat /\ PaymentSent /\ Sound
     \/ wallet >= InvoiceSat /\ PaymentSent /\ Trouble({"lost"})
     \/ wallet >= InvoiceSat /\ Trouble({"fail"}) /\ UNCHANGED <<coins, credit>>
     \/ (wallet < InvoiceSat \/ coins < InvoiceSat) /\ Sound
        /\ UNCHANGED <<coins, credit>>
  /\ pc' = "refresh" /\ invoice' = 0
  /\ UNCHANGED <<kv, ns, snap, target, reader, told, fleet, wallet,
                 account, lease, swept>>

-----------------------------------------------------------------------------
(* The spawn decision and, in one step, the spawn.                          *)

(* The spawn check on the state read before the top-up. *)
Decide_Stale ==
  /\ pc = "decide"
  /\ LET s == IF snap.fresh THEN snap ELSE ns IN
     IF s.days # NoDays /\ check_spawn_eligibility(Runway(s), s.btc, Caution)
     THEN /\ kv' = [kv EXCEPT !.spawning = TRUE]
          /\ pc' = "spawn" /\ snap' = s /\ UNCHANGED <<target, invoice>>
     ELSE ToIdle /\ UNCHANGED kv
  /\ Notice(NoticeOld) /\ UNCHANGED <<ns, reader, told, fleet, wallet, world>>

(* node_state is what the monitor holds now: after a top-up, the state of  *)
(* the refresh that followed it, unless another was published since or it  *)
(* raised and left the one before.                                         *)
Decide ==
  /\ pc = "decide"
  /\ IF ns.days # NoDays /\ check_spawn_eligibility(Runway(ns), ns.btc, Caution)
     THEN /\ kv' = [kv EXCEPT !.spawning = TRUE]
          /\ pc' = "spawn" /\ snap' = ns /\ UNCHANGED <<target, invoice>>
     ELSE ToIdle /\ UNCHANGED kv
  /\ Notice(NoticeOld) /\ UNCHANGED <<ns, reader, told, fleet, wallet, world>>

(* spawn_child completes and clears the flag, or fails at some stage, with *)
(* the child's server paid or not, and leaves the flag for a restart.      *)
SpawnChild ==
  /\ pc = "spawn"
  /\ \/ /\ coins >= SpawnOutlay(snap.btc)
        /\ coins' = coins - SpawnOutlay(snap.btc)
        /\ kv' = [kv EXCEPT !.spawning = FALSE] /\ Sound
     \/ /\ coins' \in {coins} \cup {c \in {coins - _vps_cost_sat} : c >= 0}
        /\ UNCHANGED kv
        /\ IF coins < SpawnOutlay(snap.btc) THEN Sound ELSE Trouble({"fail"})
  /\ ToIdle
  /\ UNCHANGED <<ns, reader, told, fleet, wallet, account, credit, lease, swept>>

-----------------------------------------------------------------------------
(* Starting, stopping and _handle_recovery.                                 *)

(* A recovery that forgets the failsafe flag. *)
RecoverFailsafe_Never ==
  /\ pc = "boot" /\ ~kv.spawning /\ kv.failsafe /\ ns.fresh
  /\ ToIdle /\ Sound
  /\ UNCHANGED <<kv, ns, reader, told, fleet, wallet, world>>

RecoverNothing ==
  /\ pc = "boot" /\ ~kv.spawning /\ ~kv.failsafe
  /\ ToIdle /\ Sound
  /\ UNCHANGED <<kv, ns, reader, told, fleet, wallet, world>>

RecoverSpawn ==
  /\ pc = "boot" /\ kv.spawning /\ ns.fresh
  /\ pc' = "spawn" /\ snap' = ns /\ Sound
  /\ UNCHANGED <<kv, ns, target, invoice, reader, told, fleet, wallet, world>>

RecoverFailsafe ==
  /\ pc = "boot" /\ ~kv.spawning /\ kv.failsafe /\ ns.fresh
  /\ ExecuteFailsafe(ns) /\ Sound
  /\ UNCHANGED <<ns, reader, told, fleet, wallet, world>>

(* _wait_for_node_state times out: recovery is left to the next restart. *)
RecoverTimesOut ==
  /\ pc = "boot" /\ (kv.spawning \/ kv.failsafe) /\ ~ns.fresh
  /\ ToIdle /\ Trouble({"fail"})
  /\ UNCHANGED <<kv, ns, reader, told, fleet, wallet, world>>

(* The process ends: memory is lost, the registry with it. *)
Exit ==
  /\ pc' = "down" /\ ns' = NoState /\ snap' = NoState /\ target' = NoTarget
  /\ invoice' = 0 /\ reader' = [r \in Refreshers |-> Idle]
  /\ told' = [r \in Refreshers |-> NoInfo]
  /\ fleet' = [p \in Peers |-> 0]
  /\ UNCHANGED <<kv, wallet, coins, account, credit, lease, swept>>

Crash == Up /\ Exit /\ Trouble({"crash"})

Restart ==
  /\ pc = "down" /\ pc' = "boot" /\ Sound
  /\ UNCHANGED <<kv, ns, snap, target, invoice, reader, told, fleet, wallet, world>>

(* check_for_updates finds a newer commit: pull and exit, unless a flag is *)
(* set; it is then put off to the next check.                              *)
UpdateRestart ==
  /\ Up /\ budget.updates > 0 /\ ~kv.spawning /\ ~kv.failsafe
  /\ Exit /\ budget' = [budget EXCEPT !.updates = @ - 1] /\ UNCHANGED seen

(* The operator restarts a node that stands idle with a flag set. *)
OperatorRestart ==
  /\ pc \in Sleeping /\ (kv.spawning \/ kv.failsafe)
  /\ Exit /\ Sound

-----------------------------------------------------------------------------
(* The world.                                                               *)

Environment == UNCHANGED <<kv, pc, ns, snap, target, invoice, reader, told, wallet>>

CreditArrives ==
  /\ credit > 0 /\ account' = account + credit /\ credit' = 0
  /\ Environment /\ Sound /\ UNCHANGED <<fleet, coins, lease, swept>>

(* autorenew: a lease that has run out is paid from the account. *)
AutoRenew ==
  /\ lease = 0 /\ account >= TargetCost
  /\ account' = account - TargetCost /\ lease' = TargetDays
  /\ Environment /\ Sound /\ UNCHANGED <<fleet, coins, credit, swept>>

DayPasses ==
  /\ lease > 0 /\ budget.days > 0
  /\ lease' = lease - 1 /\ budget' = [budget EXCEPT !.days = @ - 1]
  /\ Environment
  /\ UNCHANGED <<seen, fleet, coins, account, credit, swept>>

Income ==
  /\ budget.income > 0
  /\ coins' = coins + Donation /\ budget' = [budget EXCEPT !.income = @ - 1]
  /\ Environment
  /\ UNCHANGED <<seen, fleet, account, credit, lease, swept>>

(* on_seedbox_info_received: the entry of the peer is replaced. *)
PeerInfo(p, w) ==
  /\ Up /\ fleet[p] # w /\ fleet' = [fleet EXCEPT ![p] = w]
  /\ Environment /\ Sound /\ UNCHANGED world

(* get_live_peers leaves out a peer not heard of for PEER_REGISTRY_TTL. *)
PeerSilent(p) ==
  /\ fleet[p] > 0 /\ fleet' = [fleet EXCEPT ![p] = 0]
  /\ Environment /\ Sound /\ UNCHANGED world

-----------------------------------------------------------------------------
RefreshStep(r) ==
  RefreshScan(r) \/ RefreshInfo(r) \/ RefreshPublish(r) \/ RefreshRaises(r)
Refresh == \E r \in Refreshers : RefreshStep(r)
Recover == RecoverNothing \/ RecoverSpawn \/ RecoverFailsafe \/ RecoverTimesOut
Tick    == \/ TickFailsafe \/ TickTopup \/ TickDecide
           \/ Sweep \/ FailsafeCompleted \/ TopupInvoice \/ TopupPay
           \/ Decide \/ SpawnChild
Outside == \/ CreditArrives \/ AutoRenew \/ DayPasses \/ Income
           \/ \E p \in Peers : PeerSilent(p) \/ \E w \in 1 .. MaxWealth : PeerInfo(p, w)

Next == \/ Refresh \/ Recover \/ Tick \/ Outside
        \/ Crash \/ Restart \/ UpdateRestart \/ OperatorRestart

Spec == Init /\ [][Next]_vars

(* The tasks are scheduled and every query answers or fails in time, the   *)
(* service manager restarts the process, and the operator restarts a node  *)
(* left idle with a flag set.  A payment is credited in the end.           *)
TendedSpec ==
  /\ Spec
  /\ \A r \in Refreshers : WF_vars(RefreshStep(r))
  /\ WF_vars(Recover) /\ WF_vars(Tick) /\ WF_vars(CreditArrives)
  /\ WF_vars(Restart) /\ WF_vars(OperatorRestart)

-----------------------------------------------------------------------------
(* Properties.                                                              *)

StateType == [btc : Nat, cents : Nat, days : Nat \cup {NoDays}, due : BOOLEAN,
              fresh : BOOLEAN, old : BOOLEAN]
InfoType == [cents : Nat, due : BOOLEAN, asked : BOOLEAN]

(* Types: every variable, and the program counter and targets the tasks use. *)
TypeOK ==
  /\ kv \in [spawning : BOOLEAN, failsafe : BOOLEAN]
  /\ pc \in Sleeping \cup {"boot", "sweep", "swept", "topup", "refresh", "decide",
             "spawn", "down"}
  /\ ns \in StateType /\ snap \in StateType
  /\ target \in Peers \cup {Cold, NoTarget} /\ invoice \in Nat
  /\ reader \in [Refreshers -> Nat \cup {Idle}]
  /\ told \in [Refreshers -> InfoType]
  /\ fleet \in [Peers -> 0 .. MaxWealth]
  /\ wallet \in Nat /\ coins \in Nat /\ account \in Nat /\ credit \in Nat
  /\ lease \in Nat /\ swept \subseteq Peers \cup {Cold}
  /\ seen \subseteq Troubles
  /\ budget \in [faults : Nat, income : Nat, days : Nat, updates : Nat]

(* A node never spends its coins on a child and gives them away at once:   *)
(* the two persistent flags exclude each other, whatever crashes and       *)
(* restarts happen, and the task that runs is the one whose flag is set.   *)
OneCriticalAction ==
  /\ ~(kv.spawning /\ kv.failsafe)
  /\ pc \in {"sweep", "swept"} => kv.failsafe
  /\ pc = "spawn" => kv.spawning
  /\ pc \in {"topup", "refresh", "decide"} => ~kv.spawning /\ ~kv.failsafe

(* The account is not filled beyond TOPUP_TARGET_DAYS and the rounding of  *)
(* one invoice, through crashes, lost answers and overlapping refreshes,   *)
(* unless a tick believed the account empty because get_info failed, or    *)
(* decided while its last payment was still on its way or on a state that  *)
(* the last refresh raised before replacing.                               *)
InvoiceRounding == Larger(MinInvoiceDollars * CentsPerDollar, CentsPerDollar)
NoOverbuying ==
  seen \cap {"info", "late", "old"} = {}
    => account + credit <= TargetCost + InvoiceRounding

(* A spawn starts only on money the node has: the coins cover the whole    *)
(* outlay and what is left still lasts for the caution-scaled threshold.   *)
(* It holds unless a scan failed (the database still counts spent coins),  *)
(* an older refresh was published over a newer one, or the tick decided on *)
(* a state that the last refresh raised before replacing.                  *)
SpawnLeavesRunway ==
  [][(~kv.spawning /\ kv'.spawning /\ seen' \cap {"scan", "overlap", "old"} = {})
       => LET left == coins - SpawnOutlay(snap'.btc) IN
          /\ left >= 0
          /\ TotalRunway(snap'.days, snap'.cents, left)
               >= EffectiveThreshold(Caution)]_vars

FailsafeStarts == ~kv.failsafe /\ kv'.failsafe

(* The failsafe fires only when bought days, account and wallet together   *)
(* are below the trigger, unless get_info failed, a payment was on its     *)
(* way, the last refresh raised and left an older state to decide on, or   *)
(* the monitor has scanned and not yet published.  A failed scan, a        *)
(* refresh overtaken by another's, and one that raised and was made good   *)
(* by a later one are no excuse.                                           *)
FailsafeWhenExhausted ==
  [][(FailsafeStarts /\ seen' \cap {"info", "late", "old"} = {}
        /\ reader["monitor"] = Idle)
       => TrueRunway < FailsafeTrigger]_vars

(* A node low on bought days whose account does not cover the target pays  *)
(* for more, as long as it has the coins and no flag stands in the way.    *)
EventuallyFunded ==
  (lease < TopupTrigger /\ account + credit < TargetCost)
    ~> \/ account + credit >= TargetCost
       \/ coins < ToSat(NeededDollars(0) * CentsPerDollar)
       \/ kv.spawning \/ kv.failsafe

(* An interrupted or failed failsafe is taken up again after a restart     *)
(* until the coins are gone, when there is a cold wallet.                  *)
FundsRescued == (kv.failsafe /\ coins > 0) ~> (coins = 0 \/ ~kv.failsafe)

(* main.py:106-109: an update restart is put off only "until failsafe      *)
(* completes".                                                             *)
FailsafeCompletes == kv.failsafe ~> ~kv.failsafe

=============================================================================
