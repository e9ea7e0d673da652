--------------------------- MODULE SpawnThresholds ---------------------------
(***************************************************************************)
(* What a Mycelium node's money is worth in days, and when that is enough  *)
(* to pay for a child: node_monitor.refresh's total_runway_days and        *)
(* modules/orchestration/spawn_thresholds.py.                              *)
(*                                                                         *)
(* Amounts are integers: satoshi for the wallet, cents for the SporeStack  *)
(* account.  BTC_USD_RATE and INHERITANCE_RATIO, floats in the code, are   *)
(* the fractions RateNum / RateDen (cents per satoshi) and ShareNum /      *)
(* ShareDen; int() of a quotient is \div.  The caution trait is in         *)
(* percent.                                                                *)
(***************************************************************************)
EXTENDS Integers

CONSTANTS
  CostPerDay,          \* VPS_MONTHLY_COST_CENTS / 30
  CentsPerDollar,      \* 100
  MinInvoiceDollars,   \* SPORESTACK_MIN_INVOICE_DOLLARS, _SS_MIN_INVOICE_DOLLARS
  RateNum, RateDen,    \* BTC_USD_RATE, as cents per satoshi
  ShareNum, ShareDen,  \* INHERITANCE_RATIO
  FeeBuffer,           \* SPAWN_FEE_BUFFER_SAT
  ThresholdDays,       \* SPAWN_THRESHOLD_DAYS
  TargetDays           \* TOPUP_TARGET_DAYS, VPS_DAYS

ASSUME PriceAssumption ==
  /\ CostPerDay \in Nat \ {0} /\ CentsPerDollar \in Nat \ {0}
  /\ MinInvoiceDollars \in Nat /\ TargetDays \in Nat \ {0}
  /\ RateNum \in Nat \ {0} /\ RateDen \in Nat \ {0}
  /\ ShareNum \in Nat /\ ShareDen \in Nat \ {0} /\ ShareNum <= ShareDen
  /\ FeeBuffer \in Nat /\ ThresholdDays \in Nat \ {0}

Larger(x, y)  == IF x >= y THEN x ELSE y
Smaller(x, y) == IF x <= y THEN x ELSE y

(* A price in cents, in whole satoshi. *)
ToSat(cents) == (cents * RateDen) \div RateNum

(* Bought days, and the funds in days: int(total_funds_cents / cost). *)
TotalRunway(days, cents, sat) ==
  days + (cents * RateDen + sat * RateNum) \div (RateDen * CostPerDay)

(* What TOPUP_TARGET_DAYS of burn cost. *)
TargetCost == CostPerDay * TargetDays

_vps_cost_sat == ToSat(Larger(MinInvoiceDollars * CentsPerDollar, TargetCost))

_cost_per_day_sat == ToSat(CostPerDay)

compute_child_share(btc) ==
  (Larger(0, btc - _vps_cost_sat) * ShareNum) \div ShareDen

SpawnOutlay(btc) == _vps_cost_sat + compute_child_share(btc) + FeeBuffer

EffectiveThreshold(caution) ==
  (ThresholdDays * (100 + Larger(0, Smaller(100, caution)))) \div 100

(* int(runway_basis - spawn_cost_days); rounding differs from int() only   *)
(* below zero, where no threshold is met either way.                       *)
PostSpawnRunway(runway, btc) ==
  IF _cost_per_day_sat > 0
  THEN (runway * _cost_per_day_sat - SpawnOutlay(btc)) \div _cost_per_day_sat
  ELSE runway

(* check_spawn_eligibility once days_remaining is known. *)
check_spawn_eligibility(runway, btc, caution) ==
  /\ btc >= SpawnOutlay(btc)
  /\ PostSpawnRunway(runway, btc) >= EffectiveThreshold(caution)

=============================================================================
