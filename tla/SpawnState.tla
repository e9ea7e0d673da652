------------------------------ MODULE SpawnState ------------------------------
(***************************************************************************)
(* The spawn keys of NodePersistentState, the SQLite key-value store that  *)
(* survives restarts of a Mycelium node (modules/core/state.py).  Every    *)
(* write is one committed transaction, so a crash falls between writes.    *)
(*                                                                         *)
(* A key written as a JSON object carries the spawn id it belongs to and   *)
(* is ignored on read when that id is not the current one; the three keys  *)
(* fundTxid, attempts and xferTxid are plain values and carry no id.       *)
(* Addresses, SporeStack tokens and invoices are numbered in the order     *)
(* they are created; 0 stands for "absent".                                *)
(***************************************************************************)
EXTENDS Naturals

CONSTANT MaxSpawns        \* bound: spawns a node starts in one behaviour

ASSUME MaxSpawnsAssumption == MaxSpawns \in Nat

NoSpawn  == 0
SpawnIds == 1 .. MaxSpawns
AnySpawn == SpawnIds \cup {NoSpawn}

KVType ==
  [inProgress : BOOLEAN,                                   \* spawn_in_progress
   spawnId    : AnySpawn,                                  \* spawn_id
   aged       : BOOLEAN,    \* now - spawn_started_at >= MAX_SPAWN_DURATION
   identity   : [sid : AnySpawn, tok : Nat, addr : Nat],   \* spawn_identity
   vpsInfo    : AnySpawn,                                  \* spawn_vps_info
   wallet     : [sid : AnySpawn, addr : Nat],              \* spawn_child_wallet
   token      : [sid : AnySpawn, tok : Nat],               \* spawn_sporestack_token
   fundIntent : [sid : AnySpawn, tok : Nat, inv : Nat],    \* spawn_funding_intent
   fundTxid   : BOOLEAN,                                   \* spawn_funding_txid
   attempts   : Nat,                                       \* spawn_funding_attempts
   vpsIntent  : [sid : AnySpawn, tok : Nat],               \* spawn_vps_intent
   xferIntent : [sid : AnySpawn, addr : Nat],              \* spawn_transfer_intent
   xferTxid   : BOOLEAN,                                   \* spawn_transfer_txid
   history    : SUBSET AnySpawn]                           \* spawn_history

(* The keys after every one of _SPAWN_KEYS_TO_CLEAR has been deleted. *)
ClearedKV(history) ==
  [inProgress |-> FALSE, spawnId |-> NoSpawn, aged |-> FALSE,
   identity   |-> [sid |-> NoSpawn, tok |-> 0, addr |-> 0],
   vpsInfo    |-> NoSpawn,
   wallet     |-> [sid |-> NoSpawn, addr |-> 0],
   token      |-> [sid |-> NoSpawn, tok |-> 0],
   fundIntent |-> [sid |-> NoSpawn, tok |-> 0, inv |-> 0],
   fundTxid   |-> FALSE,
   attempts   |-> 0,
   vpsIntent  |-> [sid |-> NoSpawn, tok |-> 0],
   xferIntent |-> [sid |-> NoSpawn, addr |-> 0],
   xferTxid   |-> FALSE,
   history    |-> history]

InitKV == ClearedKV({})

(* mark_spawn_started: three keys in one transaction, nothing else. *)
MarkSpawnStarted(kv, sid) ==
  [kv EXCEPT !.inProgress = TRUE, !.spawnId = sid, !.aged = FALSE]

(* A clear that forgets the unscoped transfer txid. *)
MarkSpawnCompleted_KeepsTxid(kv, success) ==
  [ClearedKV(IF success THEN kv.history \cup {kv.spawnId} ELSE kv.history)
     EXCEPT !.xferTxid = kv.xferTxid]

(* A clear that enters an abandoned spawn in the history too. *)
MarkSpawnCompleted_RecordsAll(kv, success) ==
  ClearedKV(kv.history \cup {kv.spawnId})

(* mark_spawn_completed: the id appended to the history is the one stored  *)
(* under spawn_id, "" (NoSpawn) when another caller has already cleared it.*)
MarkSpawnCompleted(kv, success) ==
  ClearedKV(IF success THEN kv.history \cup {kv.spawnId} ELSE kv.history)

(* No spawn key is left behind. *)
NoSpawnKeys(kv) == kv = ClearedKV(kv.history)
===============================================================================
