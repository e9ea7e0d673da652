------------------------- MODULE SpawnPipelineProofs -------------------------
(***************************************************************************)
(* Proofs about SpawnPipeline, for every number of spawns, invoices and    *)
(* faults, with and without signals and indexer lag: type correctness,     *)
(* that the inheritance of a spawn is broadcast at most once and intents   *)
(* are written first, and the refinement of SpawnLedger.                   *)
(***************************************************************************)
EXTENDS SpawnPipeline, TLAPS

USE MaxSpawnsAssumption, PipelineAssumption

-----------------------------------------------------------------------------
(* The store.                                                               *)

(* Clearing the spawn keys (mark_spawn_completed) leaves a well-formed     *)
(* store, whichever spawns the history names.                              *)
LEMMA ClearedType ==
  ASSUME NEW h \in SUBSET AnySpawn
  PROVE  ClearedKV(h) \in KVType
BY DEF ClearedKV, KVType, AnySpawn, NoSpawn

(* Completing or abandoning a spawn leaves a well-formed store. *)
LEMMA CompletedType ==
  ASSUME NEW k \in KVType, NEW success \in BOOLEAN
  PROVE  MarkSpawnCompleted(k, success) \in KVType
<1>1. k.history \cup {k.spawnId} \in SUBSET AnySpawn /\ k.history \in SUBSET AnySpawn
  BY DEF KVType
<1> QED
  BY <1>1, ClearedType DEF MarkSpawnCompleted

(* Starting a spawn leaves a well-formed store. *)
LEMMA StartedType ==
  ASSUME NEW k \in KVType, NEW s \in SpawnIds
  PROVE  MarkSpawnStarted(k, s) \in KVType
BY DEF MarkSpawnStarted, KVType, AnySpawn

(* Counting a funding attempt leaves a well-formed store. *)
LEMMA AttemptType ==
  ASSUME NEW k \in KVType
  PROVE  [k EXCEPT !.attempts = @ + 1] \in KVType
<1>1. k.attempts + 1 \in Nat
  BY DEF KVType
<1> QED
  BY <1>1 DEF KVType

(* Setting one of the keys without a spawn id, or the server's record,     *)
(* leaves a well-formed store.                                             *)
LEMMA FlagType ==
  ASSUME NEW k \in KVType, NEW s \in AnySpawn
  PROVE  /\ [k EXCEPT !.fundTxid = TRUE] \in KVType
         /\ [k EXCEPT !.xferTxid = TRUE] \in KVType
         /\ [k EXCEPT !.aged = TRUE] \in KVType
         /\ [k EXCEPT !.vpsInfo = s] \in KVType
<1>1. [k EXCEPT !.fundTxid = TRUE] \in KVType
  BY DEF KVType
<1>2. [k EXCEPT !.xferTxid = TRUE] \in KVType
  BY DEF KVType
<1>3. [k EXCEPT !.aged = TRUE] \in KVType
  BY DEF KVType
<1>4. [k EXCEPT !.vpsInfo = s] \in KVType
  BY DEF KVType
<1> QED
  BY <1>1, <1>2, <1>3, <1>4

(* Every step of the node leaves a well-formed store. *)
LEMMA StoreStep == TypeOK /\ [Next]_vars => kv' \in KVType
<1> SUFFICES ASSUME TypeOK, [Next]_vars PROVE kv' \in KVType
  OBVIOUS
<1>0. kv \in KVType /\ mem \in MemType
  BY DEF TypeOK
<1>1. CASE \/ LoadIdentity \/ LoadToken \/ GenerateToken \/ StartFunding
           \/ ReconcileFunding \/ AskBalance \/ CreateInvoice
           \/ CheckParentBalance \/ PayInvoice \/ WaitForCredit \/ LoadVps
           \/ AdoptOrphanServer \/ LaunchChildServer \/ WaitForServerReady
           \/ DeployChildCode \/ BootChildOrchestrator \/ LoadTransfer
           \/ ReconcileTransfer \/ SizeInheritance \/ SendInheritance
           \/ Recover \/ Restart \/ Shutdown \/ UpdateRestart \/ Crash
           \/ OperatorRestart \/ InvoiceExpires \/ CreditToken
  BY <1>0, <1>1
  DEF LoadIdentity, LoadToken, GenerateToken, StartFunding, ReconcileFunding,
      AskBalance, CreateInvoice, CheckParentBalance, PayInvoice, WaitForCredit,
      LoadVps, AdoptOrphanServer, LaunchChildServer, WaitForServerReady,
      DeployChildCode, BootChildOrchestrator, LoadTransfer, ReconcileTransfer,
      SizeInheritance, SendInheritance, Recover, Restart, Shutdown,
      UpdateRestart, Crash, OperatorRestart, InvoiceExpires, CreditToken
<1>2. CASE ChildWallet
  <2>1. fresh + 1 \in Nat
    BY DEF TypeOK, ControlOK
  <2> QED
    BY <1>0, <1>2, <2>1 DEF ChildWallet, Save, KVType, MemType
<1>3. CASE RecordToken \/ RecordInvoice \/ RecordIdentity \/ RecordVpsIntent
           \/ RecordTransferIntent
  BY <1>0, <1>3
  DEF RecordToken, SaveToken, RecordInvoice, RecordIdentity, RecordVpsIntent,
      RecordTransferIntent, Save, KVType, MemType
<1>7. CASE CountAttempt
  BY <1>0, <1>7, AttemptType DEF CountAttempt, Save
<1>8. CASE RecordFunding \/ RecordVps \/ RecordTransfer \/ SpawnAges
  <2>1. mem.sid \in AnySpawn
    BY <1>0 DEF MemType
  <2> QED
    BY <1>0, <1>8, <2>1, FlagType
    DEF RecordFunding, RecordVps, RecordTransfer, SpawnAges, Save
<1>4. CASE CompleteSpawn \/ HandleShutdown
  BY <1>0, <1>4, CompletedType DEF CompleteSpawn, HandleShutdown, Save
<1>5. CASE Tick
  <2>1. lastSpawn + 1 \in SpawnIds
    BY <1>5 DEF Tick, TypeOK, ControlOK, SpawnIds
  <2> QED
    BY <1>0, <1>5, <2>1, StartedType DEF Tick, Save
<1>6. CASE UNCHANGED vars
  BY <1>0, <1>6 DEF vars
<1> QED
  BY <1>1, <1>2, <1>3, <1>4, <1>5, <1>6, <1>7, <1>8
  DEF Next, Pipeline, Process, Environment

-----------------------------------------------------------------------------
(* The world outside.                                                       *)

(* What a step may do outside the node: nothing, or one external effect at *)
(* the point of the pipeline that asks for it, or a token being credited.  *)
LEMMA WorldChange ==
  [Next]_vars =>
    \/ UNCHANGED world
    \/ pc = "fundSend" /\ BroadcastFunding
    \/ pc = "launch" /\ LaunchServer
    \/ pc = "bootChild" /\ InstallChild
    \/ pc = "xferSend" /\ pc' \in {"xferRec", "idle", "down"} /\ BroadcastGift
    \/ CreditToken
<1>1. ASSUME Pipeline
      PROVE  \/ UNCHANGED world
             \/ pc = "fundSend" /\ BroadcastFunding
             \/ pc = "launch" /\ LaunchServer
             \/ pc = "bootChild" /\ InstallChild
             \/ pc = "xferSend" /\ pc' \in {"xferRec", "idle", "down"} /\ BroadcastGift
  BY <1>1
  DEF Pipeline, LoadIdentity, ChildWallet, LoadToken, GenerateToken,
      RecordToken, StartFunding, ReconcileFunding, AskBalance, CountAttempt,
      CreateInvoice, RecordInvoice, CheckParentBalance, PayInvoice,
      RecordFunding, WaitForCredit, RecordIdentity, LoadVps,
      AdoptOrphanServer, RecordVpsIntent, LaunchChildServer,
      WaitForServerReady, RecordVps, DeployChildCode, BootChildOrchestrator,
      LoadTransfer, ReconcileTransfer, SizeInheritance, RecordTransferIntent,
      SendInheritance, RecordTransfer, CompleteSpawn, Internal, External,
      Query, Answered, Raise
<1>2. ASSUME Process \/ Environment \/ UNCHANGED vars
      PROVE  \/ UNCHANGED world
             \/ pc = "fundSend" /\ BroadcastFunding
             \/ pc = "launch" /\ LaunchServer
             \/ pc = "bootChild" /\ InstallChild
             \/ pc = "xferSend" /\ pc' \in {"xferRec", "idle", "down"} /\ BroadcastGift
             \/ CreditToken
  BY <1>2
  DEF Process, Environment, Recover, Tick, Restart, HandleShutdown, Shutdown,
      UpdateRestart, Crash, OperatorRestart, SpawnAges, InvoiceExpires,
      Internal, vars
<1> QED
  BY <1>1, <1>2 DEF Next

(* Counting one more transaction or server keeps a counter per spawn. *)
LEMMA CounterType ==
  ASSUME NEW f \in [SpawnIds -> Nat], NEW s
  PROVE  [f EXCEPT ![s] = @ + 1] \in [SpawnIds -> Nat]
<1>1. \A t \in SpawnIds : f[t] + 1 \in Nat
  OBVIOUS
<1> QED
  BY <1>1

(* Every step leaves the outside world well-formed. *)
LEMMA WorldStep == TypeOK /\ [Next]_vars => WorldOK'
<1> SUFFICES ASSUME TypeOK, [Next]_vars PROVE WorldOK'
  OBVIOUS
<1>0. mem.tok \in Nat /\ mem.inv \in Nat /\ mem.addr \in Nat
  BY DEF TypeOK, MemType
<1>1. CASE UNCHANGED world
  BY <1>1 DEF world, TypeOK, WorldOK
<1>2. CASE BroadcastFunding
  BY <1>0, <1>2, CounterType DEF BroadcastFunding, TypeOK, WorldOK
<1>3. CASE LaunchServer
  BY <1>0, <1>3, CounterType DEF LaunchServer, TypeOK, WorldOK
<1>4. CASE InstallChild
  BY <1>0, <1>4 DEF InstallChild, TypeOK, WorldOK
<1>5. CASE BroadcastGift
  BY <1>0, <1>5, CounterType DEF BroadcastGift, TypeOK, WorldOK
<1>6. CASE CreditToken
  BY <1>6 DEF CreditToken, TypeOK, WorldOK
<1> QED
  BY <1>1, <1>2, <1>3, <1>4, <1>5, <1>6, WorldChange

-----------------------------------------------------------------------------
(* Control.                                                                 *)

(* The local variables keep their types. *)
LEMMA LocalStep == TypeOK /\ [Next]_vars => mem' \in MemType
<1> SUFFICES ASSUME TypeOK, [Next]_vars PROVE mem' \in MemType
  OBVIOUS
<1>0. kv \in KVType /\ mem \in MemType /\ NoMem \in MemType /\ fresh + 1 \in Nat
  BY DEF TypeOK, ControlOK, NoMem, MemType, AnySpawn, NoSpawn
<1>1. CASE Tick
  <2>1. lastSpawn + 1 \in AnySpawn
    BY <1>1 DEF Tick, TypeOK, ControlOK, SpawnIds, AnySpawn
  <2> QED
    BY <1>0, <1>1, <2>1 DEF Tick, MemType
<1>2. CASE Recover
  BY <1>0, <1>2 DEF Recover, MemType, KVType
<1>3. CASE LoadIdentity \/ LoadToken \/ StartFunding
  BY <1>0, <1>3 DEF LoadIdentity, LoadToken, StartFunding, MemType, KVType
<1>4. CASE ChildWallet \/ GenerateToken \/ CreateInvoice
  BY <1>0, <1>4 DEF ChildWallet, GenerateToken, CreateInvoice, local, MemType, KVType
<1>5. CASE Crash \/ Shutdown \/ UpdateRestart \/ OperatorRestart
  BY <1>0, <1>5 DEF Crash, Shutdown, UpdateRestart, OperatorRestart
<1>6. CASE \/ RecordToken \/ ReconcileFunding \/ AskBalance \/ CountAttempt
           \/ RecordInvoice \/ CheckParentBalance \/ PayInvoice
           \/ RecordFunding \/ WaitForCredit \/ RecordIdentity \/ LoadVps
           \/ AdoptOrphanServer \/ RecordVpsIntent \/ LaunchChildServer
           \/ WaitForServerReady \/ RecordVps \/ DeployChildCode
           \/ BootChildOrchestrator \/ LoadTransfer \/ ReconcileTransfer
           \/ SizeInheritance \/ RecordTransferIntent \/ SendInheritance
           \/ RecordTransfer \/ CompleteSpawn \/ Restart \/ HandleShutdown
           \/ SpawnAges \/ InvoiceExpires \/ CreditToken \/ UNCHANGED vars
  BY <1>0, <1>6
  DEF RecordToken, ReconcileFunding, AskBalance, CountAttempt, RecordInvoice,
      CheckParentBalance, PayInvoice, RecordFunding, WaitForCredit,
      RecordIdentity, LoadVps, AdoptOrphanServer, RecordVpsIntent,
      LaunchChildServer, WaitForServerReady, RecordVps, DeployChildCode,
      BootChildOrchestrator, LoadTransfer, ReconcileTransfer, SizeInheritance,
      RecordTransferIntent, SendInheritance, RecordTransfer, CompleteSpawn,
      Restart, HandleShutdown, SpawnAges, InvoiceExpires, CreditToken, local, vars
<1> QED
  BY <1>1, <1>2, <1>3, <1>4, <1>5, <1>6
  DEF Next, Pipeline, Process, Environment

(* A step of the pipeline stays in the pipeline or gives the spawn up, and *)
(* keeps the spawn it works on; the points around the broadcast have one   *)
(* predecessor each.                                                       *)
LEMMA PipelineStep ==
  ASSUME TypeOK, Pipeline
  PROVE  /\ pc \in InPipeline
         /\ pc' \in InPipeline \cup {"idle"}
         /\ mem'.sid = mem.sid
         /\ UNCHANGED <<stopping, lastSpawn>>
         /\ pc' = "xferSize" => LoadTransfer /\ ~MatchingXferIntent
         /\ pc' = "xferIntent" => pc = "xferSize" /\ ~stopping
         /\ pc' = "xferSend" => RecordTransferIntent
<1> USE DEF InPipeline, Awaits, Syncs
<1>0. mem \in MemType
  BY DEF TypeOK
<1>1. CASE LoadIdentity \/ ChildWallet \/ LoadToken \/ GenerateToken
           \/ RecordToken \/ StartFunding
  BY <1>0, <1>1
  DEF LoadIdentity, ChildWallet, LoadToken, GenerateToken, RecordToken,
      StartFunding, Internal, Runs, Answered, Raise, local, MemType
<1>2. CASE ReconcileFunding \/ AskBalance \/ CountAttempt \/ CreateInvoice
           \/ RecordInvoice \/ CheckParentBalance
  BY <1>0, <1>2
  DEF ReconcileFunding, AskBalance, CountAttempt, CreateInvoice,
      RecordInvoice, CheckParentBalance, Internal, Runs, Answered, Raise,
      local, MemType
<1>3. CASE PayInvoice \/ RecordFunding \/ WaitForCredit \/ RecordIdentity
  BY <1>3
  DEF PayInvoice, RecordFunding, WaitForCredit, RecordIdentity, External,
      Internal, Runs, Answered, Raise, local
<1>4. CASE LoadVps \/ AdoptOrphanServer \/ RecordVpsIntent
           \/ LaunchChildServer \/ WaitForServerReady \/ RecordVps
  BY <1>4
  DEF LoadVps, AdoptOrphanServer, RecordVpsIntent, LaunchChildServer,
      WaitForServerReady, RecordVps, External, Query, Internal, Runs, Answered,
      Raise, local
<1>5. CASE DeployChildCode \/ BootChildOrchestrator \/ LoadTransfer
           \/ ReconcileTransfer
  BY <1>5
  DEF DeployChildCode, BootChildOrchestrator, LoadTransfer, ReconcileTransfer,
      External, Query, Internal, Runs, Answered, Raise, local
<1>6. CASE SizeInheritance \/ RecordTransferIntent \/ SendInheritance
           \/ RecordTransfer \/ CompleteSpawn
  BY <1>6
  DEF SizeInheritance, RecordTransferIntent, SendInheritance, RecordTransfer,
      CompleteSpawn, External, Internal, Runs, Answered, Raise, local
<1> QED
  BY <1>1, <1>2, <1>3, <1>4, <1>5, <1>6 DEF Pipeline

(* Who may write the keys that say which spawn is open and whether its     *)
(* inheritance was decided.                                                *)
LEMMA KeyStep ==
  ASSUME TypeOK, [Next]_vars
  PROVE  \/ /\ kv'.inProgress = kv.inProgress
            /\ kv'.spawnId = kv.spawnId
            /\ kv'.xferIntent = kv.xferIntent
         \/ Tick \/ RecordTransferIntent \/ CompleteSpawn \/ HandleShutdown
<1>0. kv \in KVType
  BY DEF TypeOK
<1>1. CASE \/ LoadIdentity \/ LoadToken \/ GenerateToken \/ StartFunding
           \/ ReconcileFunding \/ AskBalance \/ CreateInvoice
           \/ CheckParentBalance \/ PayInvoice \/ WaitForCredit \/ LoadVps
           \/ AdoptOrphanServer \/ LaunchChildServer \/ WaitForServerReady
           \/ DeployChildCode \/ BootChildOrchestrator \/ LoadTransfer
           \/ ReconcileTransfer \/ SizeInheritance \/ SendInheritance
           \/ Recover \/ Restart \/ Shutdown \/ UpdateRestart \/ Crash
           \/ OperatorRestart \/ InvoiceExpires \/ CreditToken
           \/ UNCHANGED vars
  BY <1>1
  DEF LoadIdentity, LoadToken, GenerateToken, StartFunding, ReconcileFunding,
      AskBalance, CreateInvoice, CheckParentBalance, PayInvoice, WaitForCredit,
      LoadVps, AdoptOrphanServer, LaunchChildServer, WaitForServerReady,
      DeployChildCode, BootChildOrchestrator, LoadTransfer, ReconcileTransfer,
      SizeInheritance, SendInheritance, Recover, Restart, Shutdown,
      UpdateRestart, Crash, OperatorRestart, InvoiceExpires, CreditToken, vars
<1>2. CASE \/ ChildWallet \/ RecordToken \/ CountAttempt \/ RecordInvoice
           \/ RecordFunding \/ RecordIdentity
  BY <1>0, <1>2
  DEF ChildWallet, RecordToken, SaveToken, CountAttempt, RecordInvoice,
      RecordFunding, RecordIdentity, Save, KVType
<1>3. CASE RecordVpsIntent \/ RecordVps \/ RecordTransfer \/ SpawnAges
  BY <1>0, <1>3
  DEF RecordVpsIntent, RecordVps, RecordTransfer, SpawnAges, Save, KVType
<1> QED
  BY <1>1, <1>2, <1>3 DEF Next, Pipeline, Process, Environment

(* What the other steps do to the pipeline: nothing, cancel it, resume it, *)
(* start it, or end the process or its coroutine.                          *)
LEMMA ProcessStep ==
  ASSUME TypeOK, Process \/ Environment \/ UNCHANGED vars
  PROVE  \/ UNCHANGED <<pc, stopping, mem, lastSpawn>>
         \/ HandleShutdown /\ stopping' = TRUE /\ UNCHANGED <<pc, mem, lastSpawn>>
         \/ /\ Recover /\ kv.inProgress /\ ~stopping
            /\ pc' = "start" /\ mem'.sid = kv.spawnId
            /\ UNCHANGED <<stopping, lastSpawn>>
         \/ /\ Tick /\ ~stopping
            /\ pc' = "start" /\ mem'.sid = lastSpawn + 1
            /\ lastSpawn' = lastSpawn + 1 /\ UNCHANGED stopping
         \/ /\ pc' \in {"boot", "idle", "down"}
            /\ stopping' \in {stopping, FALSE} /\ UNCHANGED lastSpawn
<1>1. CASE Recover
  BY <1>1 DEF Recover, Internal, Answered, NoMem
<1>2. CASE Tick
  BY <1>2 DEF Tick, Answered, NoMem
<1>3. CASE HandleShutdown
  BY <1>3 DEF HandleShutdown, local
<1>4. CASE Restart \/ Shutdown \/ UpdateRestart \/ Crash \/ OperatorRestart
  BY <1>4 DEF Restart, Shutdown, UpdateRestart, Crash, OperatorRestart
<1>5. CASE SpawnAges \/ InvoiceExpires \/ CreditToken \/ UNCHANGED vars
  BY <1>5 DEF SpawnAges, InvoiceExpires, CreditToken, local, vars
<1> QED
  BY <1>1, <1>2, <1>3, <1>4, <1>5 DEF Process, Environment

(* A step creates at most one address, token or invoice. *)
LEMMA FreshStep == [Next]_vars => fresh' = fresh \/ fresh' = fresh + 1
<1>1. ASSUME Pipeline
      PROVE  fresh' = fresh \/ fresh' = fresh + 1
  BY <1>1
  DEF Pipeline, LoadIdentity, ChildWallet, LoadToken, GenerateToken,
      RecordToken, StartFunding, ReconcileFunding, AskBalance, CountAttempt,
      CreateInvoice, RecordInvoice, CheckParentBalance, PayInvoice,
      RecordFunding, WaitForCredit, RecordIdentity, LoadVps,
      AdoptOrphanServer, RecordVpsIntent, LaunchChildServer,
      WaitForServerReady, RecordVps, DeployChildCode, BootChildOrchestrator,
      LoadTransfer, ReconcileTransfer, SizeInheritance, RecordTransferIntent,
      SendInheritance, RecordTransfer, CompleteSpawn, local
<1>2. ASSUME Process \/ Environment \/ UNCHANGED vars
      PROVE  fresh' = fresh \/ fresh' = fresh + 1
  BY <1>2
  DEF Process, Environment, Recover, Tick, Restart, HandleShutdown, Shutdown,
      UpdateRestart, Crash, OperatorRestart, SpawnAges, InvoiceExpires,
      CreditToken, local, vars
<1> QED
  BY <1>1, <1>2 DEF Next

(* A step leaves the invoice alone, replaces it or lets it expire. *)
LEMMA InvoiceStep == [Next]_vars => invLive' = invLive \/ invLive' = TRUE \/ invLive' = FALSE
<1>1. ASSUME Pipeline
      PROVE  invLive' = invLive \/ invLive' = TRUE \/ invLive' = FALSE
  BY <1>1
  DEF Pipeline, LoadIdentity, ChildWallet, LoadToken, GenerateToken,
      RecordToken, StartFunding, ReconcileFunding, AskBalance, CountAttempt,
      CreateInvoice, RecordInvoice, CheckParentBalance, PayInvoice,
      RecordFunding, WaitForCredit, RecordIdentity, LoadVps,
      AdoptOrphanServer, RecordVpsIntent, LaunchChildServer,
      WaitForServerReady, RecordVps, DeployChildCode, BootChildOrchestrator,
      LoadTransfer, ReconcileTransfer, SizeInheritance, RecordTransferIntent,
      SendInheritance, RecordTransfer, CompleteSpawn, local
<1>2. ASSUME Process \/ Environment \/ UNCHANGED vars
      PROVE  invLive' = invLive \/ invLive' = TRUE \/ invLive' = FALSE
  BY <1>2
  DEF Process, Environment, Recover, Tick, Restart, HandleShutdown, Shutdown,
      UpdateRestart, Crash, OperatorRestart, SpawnAges, InvoiceExpires,
      CreditToken, local, vars
<1> QED
  BY <1>1, <1>2 DEF Next

(* A step spends at most one fault. *)
LEMMA FaultStep == [Next]_vars => faults' = faults \/ faults' = faults + 1
<1>1. ASSUME Pipeline
      PROVE  faults' = faults \/ faults' = faults + 1
  BY <1>1
  DEF Pipeline, LoadIdentity, ChildWallet, LoadToken, GenerateToken,
      RecordToken, StartFunding, ReconcileFunding, AskBalance, CountAttempt,
      CreateInvoice, RecordInvoice, CheckParentBalance, PayInvoice,
      RecordFunding, WaitForCredit, RecordIdentity, LoadVps,
      AdoptOrphanServer, RecordVpsIntent, LaunchChildServer,
      WaitForServerReady, RecordVps, DeployChildCode, BootChildOrchestrator,
      LoadTransfer, ReconcileTransfer, SizeInheritance, RecordTransferIntent,
      SendInheritance, RecordTransfer, CompleteSpawn, External, Query, Sound, Fault
<1>2. ASSUME Process \/ Environment \/ UNCHANGED vars
      PROVE  faults' = faults \/ faults' = faults + 1
  BY <1>2
  DEF Process, Environment, Recover, Tick, Restart, HandleShutdown, Shutdown,
      UpdateRestart, Crash, OperatorRestart, SpawnAges, InvoiceExpires,
      CreditToken, External, Query, Sound, Fault, vars
<1> QED
  BY <1>1, <1>2 DEF Next

(* The counters and flags of the process keep their types. *)
LEMMA CountersStep ==
  ASSUME TypeOK, [Next]_vars
  PROVE  fresh' \in Nat /\ invLive' \in BOOLEAN /\ faults' \in Nat
<1>0. fresh \in Nat /\ invLive \in BOOLEAN /\ faults \in Nat
  BY DEF TypeOK, ControlOK
<1>1. fresh' \in Nat /\ faults' \in Nat
  BY <1>0, FreshStep, FaultStep
<1>2. invLive' \in BOOLEAN
  BY <1>0, InvoiceStep
<1> QED
  BY <1>1, <1>2

(* The coroutine stays at a known point and works on a real spawn. *)
LEMMA ControlStep == TypeOK /\ InheritanceInv /\ [Next]_vars => ControlOK'
<1> SUFFICES ASSUME TypeOK, InheritanceInv, [Next]_vars PROVE ControlOK'
  OBVIOUS
<1> USE DEF InPipeline, Awaits, Syncs
<1>0. ControlOK
  BY DEF TypeOK
<1>1. fresh' \in Nat /\ invLive' \in BOOLEAN /\ faults' \in Nat
  BY CountersStep
<1>2. CASE Pipeline
  BY <1>0, <1>1, <1>2, PipelineStep DEF ControlOK
<1>3. CASE Process \/ Environment \/ UNCHANGED vars
  <2>1. CASE Tick
    <3>1. lastSpawn + 1 \in SpawnIds /\ lastSpawn + 1 \in 0 .. MaxSpawns
      BY <1>0, <2>1 DEF Tick, ControlOK, SpawnIds
    <3> QED
      BY <1>0, <1>1, <1>3, <2>1, <3>1 DEF Tick, ControlOK, NoMem
  <2>2. CASE Recover /\ kv.inProgress
    <3>1. kv.spawnId \in SpawnIds
      BY <2>2 DEF InheritanceInv, WorksOnOpenSpawn
    <3> QED
      BY <1>0, <1>1, <2>2, <3>1 DEF Recover, ControlOK, NoMem, Internal
  <2> QED
    BY <1>0, <1>1, <1>3, <2>1, <2>2, ProcessStep DEF ControlOK
<1> QED
  BY <1>2, <1>3 DEF Next

-----------------------------------------------------------------------------
(* The inheritance.                                                         *)

(* How the number of inheritance transactions of a spawn can change: it    *)
(* does not, or the pipeline, alive or being cancelled, leaves the         *)
(* broadcast and one is added for its spawn.                               *)
LEMMA GiftChange ==
  ASSUME [Next]_vars
  PROVE  \/ gifts' = gifts
         \/ /\ pc = "xferSend" /\ pc' \in {"xferRec", "idle", "down"}
            /\ gifts' = [gifts EXCEPT ![mem.sid] = @ + 1]
BY WorldChange
DEF world, BroadcastFunding, LaunchServer, InstallChild, BroadcastGift, CreditToken

(* The fields the invariant reads after the spawn keys were cleared. *)
LEMMA ClearedKeys ==
  ASSUME NEW k, NEW success
  PROVE  ~MarkSpawnCompleted(k, success).inProgress
BY DEF MarkSpawnCompleted, ClearedKV

(* ... and after a spawn was started. *)
LEMMA StartedKeys ==
  ASSUME NEW k \in KVType, NEW s \in SpawnIds
  PROVE  /\ MarkSpawnStarted(k, s).inProgress
         /\ MarkSpawnStarted(k, s).spawnId = s
         /\ MarkSpawnStarted(k, s).xferIntent = k.xferIntent
BY DEF MarkSpawnStarted, KVType

(* A signal that is not ignored leaves no spawn in progress. *)
LEMMA ShutdownKeys == HandleShutdown => ~kv'.inProgress
BY ClearedKeys DEF HandleShutdown, Save

(* The pipeline keeps working on the open spawn. *)
LEMMA OpenSpawnStep ==
  ASSUME TypeOK, WorksOnOpenSpawn, [Next]_vars
  PROVE  WorksOnOpenSpawn'
<1> USE DEF InPipeline, Awaits, Syncs
<1>0. lastSpawn \in Nat /\ kv \in KVType
  BY DEF TypeOK, ControlOK
<1>1. CASE Tick
  <2>1. lastSpawn + 1 \in SpawnIds
    BY <1>0, <1>1 DEF Tick, SpawnIds
  <2> QED
    BY <1>0, <1>1, <2>1, StartedKeys DEF Tick, Save, Answered, WorksOnOpenSpawn, NoMem
<1>2. CASE HandleShutdown
  BY <1>2, ShutdownKeys DEF HandleShutdown, local, WorksOnOpenSpawn
<1>3. CASE CompleteSpawn
  <2>1. ~kv'.inProgress /\ pc' = "idle"
    BY <1>3, ClearedKeys DEF CompleteSpawn, Save
  <2> QED
    BY <2>1 DEF WorksOnOpenSpawn
<1>4. CASE ~Tick /\ ~HandleShutdown /\ ~CompleteSpawn
  <2>1. kv'.inProgress = kv.inProgress /\ kv'.spawnId = kv.spawnId
    BY <1>0, <1>4, KeyStep DEF RecordTransferIntent, Save, KVType
  <2>2. CASE Pipeline
    BY <1>0, <2>1, <2>2, PipelineStep DEF WorksOnOpenSpawn
  <2>3. CASE Process \/ Environment \/ UNCHANGED vars
    <3>1. CASE UNCHANGED <<pc, stopping, mem, lastSpawn>>
      BY <2>1, <3>1 DEF WorksOnOpenSpawn
    <3>2. CASE /\ kv.inProgress /\ ~stopping
               /\ pc' = "start" /\ mem'.sid = kv.spawnId
               /\ UNCHANGED <<stopping, lastSpawn>>
      BY <2>1, <3>2 DEF WorksOnOpenSpawn
    <3>3. CASE /\ pc' \in {"boot", "idle", "down"}
               /\ stopping' \in {stopping, FALSE} /\ UNCHANGED lastSpawn
      <4>1. stopping' => stopping
        BY <3>3
      <4> QED
        BY <2>1, <3>3, <4>1 DEF WorksOnOpenSpawn
    <3> QED
      BY <1>4, <2>3, <3>1, <3>2, <3>3, ProcessStep
  <2> QED
    BY <2>2, <2>3 DEF Next
<1> QED
  BY <1>1, <1>2, <1>3, <1>4

(* Broadcasting an inheritance that is still due makes it one, and changes *)
(* no other spawn's.                                                       *)
LEMMA GiftAdded ==
  ASSUME TypeOK, GiftStillDue, pc = "xferSend",
         gifts' = [gifts EXCEPT ![mem.sid] = @ + 1]
  PROVE  /\ mem.sid \in SpawnIds
         /\ gifts'[mem.sid] = 1
         /\ \A s \in SpawnIds : s # mem.sid => gifts'[s] = gifts[s]
<1>1. mem.sid \in SpawnIds /\ gifts \in [SpawnIds -> Nat] /\ gifts[mem.sid] = 0
  BY DEF TypeOK, ControlOK, WorldOK, InPipeline, Awaits, GiftStillDue
<1> QED
  BY <1>1

(* The inheritance is due at every point that may still send it. *)
LEMMA GiftDueStep ==
  ASSUME TypeOK, WorksOnOpenSpawn, GiftStillDue, GiftIntended, [Next]_vars
  PROVE  GiftStillDue'
<1> USE DEF InPipeline, Awaits, Syncs
<1>0. lastSpawn \in Nat /\ lastSpawn' >= lastSpawn /\ lastSpawn' \in Nat
  <2>1. lastSpawn \in Nat
    BY DEF TypeOK, ControlOK
  <2>2. lastSpawn' = lastSpawn \/ lastSpawn' = lastSpawn + 1
    BY PipelineStep, ProcessStep DEF Next
  <2> QED
    BY <2>1, <2>2
<1>1. CASE gifts' # gifts
  <2>1. /\ pc = "xferSend" /\ pc' \in {"xferRec", "idle", "down"}
        /\ gifts' = [gifts EXCEPT ![mem.sid] = @ + 1]
    BY <1>1, GiftChange
  <2>2. mem.sid <= lastSpawn
    BY <2>1 DEF WorksOnOpenSpawn
  <2>3. ASSUME NEW s \in SpawnIds, s > lastSpawn' PROVE gifts'[s] = 0
    BY <1>0, <2>1, <2>2, <2>3, GiftAdded DEF GiftStillDue, SpawnIds
  <2> QED
    BY <2>1, <2>3 DEF GiftStillDue
<1>2. CASE gifts' = gifts
  <2>1. \A s \in SpawnIds : s > lastSpawn' => gifts'[s] = 0
    BY <1>0, <1>2 DEF GiftStillDue, SpawnIds
  <2>2. CASE Pipeline
    <3>1. ASSUME pc' = "xferSize", ~stopping' PROVE gifts'[mem'.sid] = 0
      <4>1. LoadTransfer /\ ~MatchingXferIntent /\ mem'.sid = mem.sid /\ ~stopping
        BY <2>2, <3>1, PipelineStep
      <4> QED
        BY <1>2, <4>1
        DEF LoadTransfer, Runs, MatchingXferIntent, WorksOnOpenSpawn, GiftIntended
    <3>2. ASSUME pc' \in {"xferIntent", "xferSend"} PROVE gifts'[mem'.sid] = 0
      BY <1>2, <2>2, <3>2, PipelineStep DEF GiftStillDue, RecordTransferIntent, Runs
    <3> QED
      BY <2>1, <3>1, <3>2 DEF GiftStillDue
  <2>3. CASE Process \/ Environment \/ UNCHANGED vars
    <3>1. CASE UNCHANGED <<pc, stopping, mem, lastSpawn>>
      BY <1>2, <3>1 DEF GiftStillDue
    <3>2. CASE stopping' = TRUE /\ UNCHANGED <<pc, mem, lastSpawn>>
      BY <1>2, <3>2 DEF GiftStillDue
    <3>3. CASE pc' \in {"start", "boot", "idle", "down"}
      BY <2>1, <3>3 DEF GiftStillDue
    <3> QED
      BY <2>3, <3>1, <3>2, <3>3, ProcessStep
  <2> QED
    BY <2>2, <2>3 DEF Next
<1> QED
  BY <1>1, <1>2

(* An open spawn whose inheritance was sent has its intent on disk. *)
LEMMA GiftIntendedStep ==
  ASSUME TypeOK, WorksOnOpenSpawn, GiftStillDue, GiftIntended, [Next]_vars
  PROVE  GiftIntended'
<1> USE DEF InPipeline, Awaits, Syncs
<1>0. kv \in KVType /\ gifts \in [SpawnIds -> Nat]
  BY DEF TypeOK, WorldOK
<1>1. CASE Tick
  <2>1. lastSpawn + 1 \in SpawnIds /\ lastSpawn + 1 > lastSpawn
    BY <1>1 DEF Tick, TypeOK, ControlOK, SpawnIds
  <2>2. kv'.spawnId = lastSpawn + 1 /\ gifts' = gifts /\ pc' = "start"
    BY <1>0, <1>1, <2>1, StartedKeys DEF Tick, Save, world
  <2> QED
    BY <2>1, <2>2 DEF GiftIntended, GiftStillDue
<1>2. CASE HandleShutdown
  BY <1>2, ShutdownKeys DEF HandleShutdown, GiftIntended
<1>3. CASE CompleteSpawn
  <2>1. ~kv'.inProgress /\ pc' = "idle"
    BY <1>3, ClearedKeys DEF CompleteSpawn, Save
  <2> QED
    BY <2>1 DEF GiftIntended
<1>4. CASE RecordTransferIntent
  <2>1. /\ pc = "xferIntent" /\ gifts' = gifts
        /\ mem' = mem /\ stopping' = stopping
    BY <1>4 DEF RecordTransferIntent, Runs, Internal, local, world
  <2>2. /\ kv'.inProgress = kv.inProgress /\ kv'.spawnId = kv.spawnId
        /\ kv'.xferIntent.sid = mem.sid
    BY <1>0, <1>4 DEF RecordTransferIntent, Save, KVType
  <2>3. kv.inProgress => kv.spawnId = mem.sid
    BY <2>1 DEF WorksOnOpenSpawn
  <2> QED
    BY <2>1, <2>2, <2>3 DEF GiftIntended
<1>5. CASE ~Tick /\ ~HandleShutdown /\ ~CompleteSpawn /\ ~RecordTransferIntent
  <2>1. /\ kv'.inProgress = kv.inProgress /\ kv'.spawnId = kv.spawnId
        /\ kv'.xferIntent = kv.xferIntent
    BY <1>5, KeyStep
  <2>2. ASSUME pc' = "xferSend", ~stopping' PROVE kv'.xferIntent.sid = mem'.sid
    <3>1. CASE Pipeline
      BY <1>5, <2>2, <3>1, PipelineStep
    <3>2. CASE Process \/ Environment \/ UNCHANGED vars
      BY <1>5, <2>1, <2>2, <3>2, ProcessStep DEF GiftIntended
    <3> QED
      BY <3>1, <3>2 DEF Next
  <2>3. ASSUME kv'.inProgress, gifts'[kv'.spawnId] # 0
        PROVE  kv'.xferIntent.sid = kv'.spawnId
    <3>1. CASE gifts' = gifts
      BY <2>1, <2>3, <3>1 DEF GiftIntended
    <3>2. CASE gifts' # gifts
      BY <2>1, <2>3, <3>2, GiftChange DEF WorksOnOpenSpawn, GiftIntended
    <3> QED
      BY <3>1, <3>2
  <2> QED
    BY <2>2, <2>3 DEF GiftIntended
<1> QED
  BY <1>1, <1>2, <1>3, <1>4, <1>5

(* No step sends an inheritance a second time. *)
LEMMA GiftOnceStep ==
  ASSUME TypeOK, GiftStillDue, InheritanceOnce, [Next]_vars
  PROVE  InheritanceOnce'
<1>1. CASE gifts' = gifts
  BY <1>1 DEF InheritanceOnce
<1>2. CASE gifts' # gifts
  <2>1. pc = "xferSend" /\ gifts' = [gifts EXCEPT ![mem.sid] = @ + 1]
    BY <1>2, GiftChange
  <2> QED
    BY <2>1, GiftAdded DEF InheritanceOnce
<1> QED
  BY <1>1, <1>2

-----------------------------------------------------------------------------
(* The theorems.                                                            *)

(* The node starts well-typed and with nothing sent. *)
LEMMA InitialState == Init => TypeOK /\ InheritanceInv
<1> SUFFICES ASSUME Init PROVE TypeOK /\ InheritanceInv
  OBVIOUS
<1>1. kv \in KVType
  BY ClearedType DEF Init, InitKV
<1>2. ~kv.inProgress
  BY DEF Init, InitKV, ClearedKV
<1>3. mem \in MemType
  BY DEF Init, NoMem, MemType, AnySpawn, NoSpawn
<1>4. ControlOK
  <2>1. pc \in Awaits /\ pc \notin InPipeline
    BY DEF Init, InPipeline, Awaits
  <2>2. lastSpawn \in 0 .. MaxSpawns
    BY DEF Init
  <2> QED
    BY <2>1, <2>2 DEF Init, ControlOK
<1>5. WorldOK
  BY DEF Init, WorldOK
<1>6. InheritanceInv
  BY <1>2
  DEF Init, InheritanceInv, WorksOnOpenSpawn, GiftStillDue, GiftIntended,
      InheritanceOnce, InPipeline, Awaits, Syncs
<1> QED
  BY <1>1, <1>3, <1>4, <1>5, <1>6 DEF TypeOK

(* The types and the invariant of the inheritance are inductive together:  *)
(* a resume works on a real spawn because an open one was handed out.      *)
LEMMA InductiveStep ==
  TypeOK /\ InheritanceInv /\ [Next]_vars => TypeOK' /\ InheritanceInv'
<1> SUFFICES ASSUME TypeOK, InheritanceInv, [Next]_vars
             PROVE  TypeOK' /\ InheritanceInv'
  OBVIOUS
<1>1. TypeOK'
  BY StoreStep, LocalStep, ControlStep, WorldStep DEF TypeOK
<1>2. InheritanceInv'
  BY OpenSpawnStep, GiftDueStep, GiftIntendedStep, GiftOnceStep DEF InheritanceInv
<1> QED
  BY <1>1, <1>2

(* Every variable of the pipeline keeps its type: whatever interrupts the  *)
(* node, the store is readable and a pipeline works on a real spawn.       *)
THEOREM TypeCorrect == Spec => []TypeOK
<1>1. Spec => [](TypeOK /\ InheritanceInv)
  BY InitialState, InductiveStep, PTL DEF Spec
<1> QED
  BY <1>1, PTL

(* The strengthened invariant holds of the node: the inheritance is due at *)
(* every point that may send it, and intended on disk once it was sent.    *)
THEOREM InheritanceInvariant == Spec => []InheritanceInv
<1>1. Spec => [](TypeOK /\ InheritanceInv)
  BY InitialState, InductiveStep, PTL DEF Spec
<1> QED
  BY <1>1, PTL

(* A parent sends the inheritance of a spawn at most once, for any number  *)
(* of spawns, crashes, lost answers, signals and indexer delays.           *)
THEOREM InheritanceSentOnce == Spec => []InheritanceOnce
<1>1. InheritanceInv => InheritanceOnce
  BY DEF InheritanceInv
<1> QED
  BY <1>1, InheritanceInvariant, PTL

(* Before money moves, the intent that a restart would reconcile is in the *)
(* store, and is about what the step holds in memory.                      *)
IntentsOnDisk ==
  ~stopping =>
    /\ pc = "xferSend" => kv.xferIntent = [sid |-> mem.sid, addr |-> mem.addr]
    /\ pc = "launch" => kv.vpsIntent = [sid |-> mem.sid, tok |-> mem.tok]
    /\ pc \in {"reconcile", "askBalance", "fundCheck", "fundSend"}
         => kv.fundIntent = [sid |-> mem.sid, tok |-> mem.tok, inv |-> mem.inv]

(* Every step keeps the intents ahead of the steps that spend. *)
LEMMA IntentsStep ==
  ASSUME TypeOK, IntentsOnDisk, [Next]_vars
  PROVE  IntentsOnDisk'
<1>0. kv \in KVType /\ mem \in MemType
  BY DEF TypeOK
<1> USE DEF IntentsOnDisk
<1>1. CASE \/ LoadIdentity \/ LoadToken \/ GenerateToken
           \/ ReconcileFunding \/ AskBalance \/ CreateInvoice
           \/ CheckParentBalance \/ PayInvoice \/ WaitForCredit \/ LoadVps
           \/ AdoptOrphanServer \/ LaunchChildServer \/ WaitForServerReady
           \/ DeployChildCode \/ BootChildOrchestrator \/ LoadTransfer
           \/ ReconcileTransfer \/ SizeInheritance \/ SendInheritance
  BY <1>0, <1>1
  DEF LoadIdentity, LoadToken, GenerateToken, ReconcileFunding,
      AskBalance, CreateInvoice, CheckParentBalance, PayInvoice, WaitForCredit,
      LoadVps, AdoptOrphanServer, LaunchChildServer, WaitForServerReady,
      DeployChildCode, BootChildOrchestrator, LoadTransfer, ReconcileTransfer,
      SizeInheritance, SendInheritance, Answered, Runs, Internal, Raise, External, Query, local
<1>2. CASE StartFunding
  BY <1>0, <1>2 DEF StartFunding, MatchingFundIntent, Runs, Internal, KVType, MemType
<1>3. CASE \/ ChildWallet \/ RecordToken \/ CountAttempt \/ RecordInvoice
           \/ RecordFunding \/ RecordIdentity \/ RecordVpsIntent \/ RecordVps
           \/ RecordTransferIntent \/ RecordTransfer \/ CompleteSpawn
  BY <1>0, <1>3 DEF ChildWallet, RecordToken, CountAttempt, RecordInvoice,
     RecordFunding, RecordIdentity, RecordVpsIntent, RecordVps, Raise,
     RecordTransferIntent, RecordTransfer, CompleteSpawn, Save, Runs, Internal, local, KVType
<1>4. CASE Process \/ Environment \/ UNCHANGED vars
  <2>1. CASE Recover \/ Tick
    BY <2>1 DEF Recover, Tick
  <2>2. CASE HandleShutdown
    BY <2>2 DEF HandleShutdown
  <2>3. CASE Restart \/ Shutdown \/ UpdateRestart \/ Crash \/ OperatorRestart
    BY <2>3 DEF Restart, Shutdown, UpdateRestart, Crash, OperatorRestart
  <2>4. CASE SpawnAges
    BY <1>0, <2>4 DEF SpawnAges, Save, local, KVType
  <2>5. CASE InvoiceExpires \/ CreditToken \/ UNCHANGED vars
    BY <2>5 DEF InvoiceExpires, CreditToken, vars
  <2> QED
    BY <1>4, <2>1, <2>2, <2>3, <2>4, <2>5 DEF Process, Environment
<1> QED
  BY <1>1, <1>2, <1>3, <1>4 DEF Next, Pipeline

(* Nothing is under way at first. *)
LEMMA IntentsInit == Init => IntentsOnDisk
BY DEF Init, IntentsOnDisk

(* Write-ahead: no payment, server or inheritance is started before the    *)
(* intent that names it is on disk, for any number of spawns and crashes.  *)
THEOREM SpentAfterIntent == Spec => WriteAhead
<1>1. TypeOK /\ IntentsOnDisk /\ [Next]_vars
        => [~stopping =>
              /\ gifts' # gifts => kv.xferIntent = [sid |-> mem.sid, addr |-> mem.addr]
              /\ launches' # launches => kv.vpsIntent = [sid |-> mem.sid, tok |-> mem.tok]
              /\ paid' # paid => kv.fundIntent = [sid |-> mem.sid, tok |-> mem.tok,
                                                  inv |-> mem.inv]]_vars
  BY WorldChange
  DEF IntentsOnDisk, world, BroadcastFunding, LaunchServer, InstallChild,
      BroadcastGift, CreditToken
<1>2. Spec => []IntentsOnDisk
  BY IntentsInit, IntentsStep, TypeCorrect, PTL DEF Spec
<1> QED
  BY <1>1, <1>2, TypeCorrect, PTL DEF Spec, WriteAhead

(* What the ledger shows: finished spawns were opened, the open one is not *)
(* among them.                                                             *)
HistoryInv ==
  /\ ~kv.inProgress => kv.spawnId = NoSpawn
  /\ kv.inProgress => kv.spawnId \notin kv.history
  /\ pc \in InPipeline => mem.sid \notin kv.history
  /\ \A s \in kv.history : s <= lastSpawn

(* The keys the ledger shows change only when a spawn is opened or closed. *)
LEMMA LedgerKeyStep ==
  ASSUME TypeOK, [Next]_vars, ~Tick, ~CompleteSpawn, ~HandleShutdown
  PROVE  /\ kv'.inProgress = kv.inProgress
         /\ kv'.spawnId = kv.spawnId
         /\ kv'.history = kv.history
<1>0. kv \in KVType
  BY DEF TypeOK
<1>1. CASE \/ LoadIdentity \/ LoadToken \/ GenerateToken \/ StartFunding
           \/ ReconcileFunding \/ AskBalance \/ CreateInvoice
           \/ CheckParentBalance \/ PayInvoice \/ WaitForCredit \/ LoadVps
           \/ AdoptOrphanServer \/ LaunchChildServer \/ WaitForServerReady
           \/ DeployChildCode \/ BootChildOrchestrator \/ LoadTransfer
           \/ ReconcileTransfer \/ SizeInheritance \/ SendInheritance
           \/ Recover \/ Restart \/ Shutdown \/ UpdateRestart \/ Crash
           \/ OperatorRestart \/ InvoiceExpires \/ CreditToken
           \/ UNCHANGED vars
  BY <1>1
  DEF LoadIdentity, LoadToken, GenerateToken, StartFunding, ReconcileFunding,
      AskBalance, CreateInvoice, CheckParentBalance, PayInvoice, WaitForCredit,
      LoadVps, AdoptOrphanServer, LaunchChildServer, WaitForServerReady,
      DeployChildCode, BootChildOrchestrator, LoadTransfer, ReconcileTransfer,
      SizeInheritance, SendInheritance, Recover, Restart, Shutdown,
      UpdateRestart, Crash, OperatorRestart, InvoiceExpires, CreditToken, vars
<1>2. CASE \/ ChildWallet \/ RecordToken \/ CountAttempt \/ RecordInvoice
           \/ RecordFunding \/ RecordIdentity
  BY <1>0, <1>2
  DEF ChildWallet, RecordToken, SaveToken, CountAttempt, RecordInvoice,
      RecordFunding, RecordIdentity, Save, KVType
<1>3. CASE RecordVpsIntent \/ RecordVps \/ RecordTransferIntent
           \/ RecordTransfer \/ SpawnAges
  BY <1>0, <1>3
  DEF RecordVpsIntent, RecordVps, RecordTransferIntent, RecordTransfer,
      SpawnAges, Save, KVType
<1> QED
  BY <1>1, <1>2, <1>3 DEF Next, Pipeline, Process, Environment

(* What mark_spawn_completed leaves in these keys. *)
LEMMA ClearedLedgerKeys ==
  ASSUME NEW k \in KVType, NEW success \in BOOLEAN
  PROVE  /\ MarkSpawnCompleted(k, success).spawnId = NoSpawn
         /\ ~MarkSpawnCompleted(k, success).inProgress
         /\ MarkSpawnCompleted(k, success).history
              = IF success THEN k.history \cup {k.spawnId} ELSE k.history
BY DEF MarkSpawnCompleted, ClearedKV

(* Every step keeps the history. *)
LEMMA HistoryStep ==
  ASSUME TypeOK, WorksOnOpenSpawn, HistoryInv, [Next]_vars
  PROVE  HistoryInv'
<1> USE DEF InPipeline, Awaits, Syncs
<1>0. kv \in KVType /\ lastSpawn \in Nat /\ kv.history \subseteq AnySpawn
  BY DEF TypeOK, ControlOK, KVType
<1>1. CASE Tick
  <2>1. lastSpawn + 1 \in SpawnIds
    BY <1>0, <1>1 DEF Tick, SpawnIds
  <2>2. kv'.inProgress /\ kv'.spawnId = lastSpawn + 1 /\ kv'.history = kv.history
    BY <1>0, <1>1, <2>1, StartedKeys DEF Tick, Save, MarkSpawnStarted, KVType
  <2>3. \A s \in kv.history : s <= lastSpawn /\ s \in Nat
    BY <1>0 DEF HistoryInv, AnySpawn, SpawnIds, NoSpawn
  <2>4. mem'.sid = lastSpawn + 1 /\ lastSpawn' = lastSpawn + 1
    BY <1>1 DEF Tick, NoMem
  <2> QED
    BY <1>0, <2>2, <2>3, <2>4 DEF HistoryInv
<1>2. CASE HandleShutdown
  <2>1. kv' = kv \/ kv' = MarkSpawnCompleted(kv, FALSE)
    BY <1>2 DEF HandleShutdown, Save
  <2>2. pc' = pc /\ mem' = mem /\ lastSpawn' = lastSpawn
    BY <1>2 DEF HandleShutdown, local
  <2> QED
    BY <1>0, <2>1, <2>2, ClearedLedgerKeys DEF HistoryInv
<1>3. CASE CompleteSpawn
  <2>1. kv' = MarkSpawnCompleted(kv, TRUE) /\ pc' = "idle" /\ lastSpawn' = lastSpawn
    BY <1>3 DEF CompleteSpawn, Save, Internal
  <2>2. kv.spawnId <= lastSpawn
    BY <1>0 DEF HistoryInv, WorksOnOpenSpawn, NoSpawn
  <2> QED
    BY <1>0, <2>1, <2>2, ClearedLedgerKeys DEF HistoryInv
<1>4. CASE ~Tick /\ ~HandleShutdown /\ ~CompleteSpawn
  <2>1. /\ kv'.inProgress = kv.inProgress /\ kv'.spawnId = kv.spawnId
        /\ kv'.history = kv.history
    BY <1>4, LedgerKeyStep
  <2>2. CASE Pipeline
    BY <2>1, <2>2, PipelineStep DEF HistoryInv
  <2>3. CASE Process \/ Environment \/ UNCHANGED vars
    BY <1>4, <2>1, <2>3, ProcessStep DEF HistoryInv
  <2> QED
    BY <2>2, <2>3 DEF Next
<1> QED
  BY <1>1, <1>2, <1>3, <1>4

(* The store starts empty. *)
LEMMA HistoryInit == Init => HistoryInv
BY DEF Init, HistoryInv, InitKV, ClearedKV, InPipeline, Awaits, Syncs

(* The history is right throughout. *)
LEMMA HistoryHolds == Spec => [](TypeOK /\ InheritanceInv /\ HistoryInv)
<1>1. TypeOK /\ InheritanceInv /\ HistoryInv /\ [Next]_vars => HistoryInv'
  BY HistoryStep DEF InheritanceInv
<1> QED
  BY <1>1, HistoryInit, TypeCorrect, InheritanceInvariant, PTL DEF Spec

(* The initial states map to the ledger's. *)
LEMMA LedgerInit == Init => Ledger!Init
BY DEF Init, InitKV, ClearedKV, Ledger!Init, PhaseOf, SpawnIds

(* Every step maps to a step of the ledger or changes nothing it shows. *)
LEMMA LedgerStep ==
  ASSUME TypeOK, InheritanceInv, HistoryInv, [Next]_vars
  PROVE  [Ledger!Next]_<<PhaseOf, gifts>>
<1> USE DEF InPipeline, Awaits, Syncs
<1>0. kv \in KVType /\ lastSpawn \in Nat /\ gifts \in [SpawnIds -> Nat]
  BY DEF TypeOK, ControlOK, WorldOK
<1>i. WorksOnOpenSpawn /\ GiftStillDue
  BY DEF InheritanceInv
<1>1. CASE Tick
  <2> DEFINE s == lastSpawn + 1
  <2>1. s \in SpawnIds
    BY <1>0, <1>1 DEF Tick, SpawnIds
  <2>2. /\ ~kv.inProgress /\ kv'.inProgress /\ kv'.spawnId = s
        /\ kv'.history = kv.history /\ lastSpawn' = s /\ gifts' = gifts
    BY <1>0, <1>1, <2>1, StartedKeys DEF Tick, Save, MarkSpawnStarted, KVType, world
  <2>3. PhaseOf[s] = "new" /\ \A t \in SpawnIds : PhaseOf[t] # "open"
    BY <1>0, <2>1, <2>2 DEF PhaseOf
  <2>4. PhaseOf' = [PhaseOf EXCEPT ![s] = "open"]
    <3>1. \A t \in SpawnIds \ {s} : t > s <=> t > lastSpawn
      BY <1>0 DEF SpawnIds
    <3>2. \A t \in SpawnIds \ {s} : PhaseOf'[t] = PhaseOf[t]
      BY <2>2, <3>1 DEF PhaseOf
    <3>3. PhaseOf'[s] = "open"
      BY <1>0, <2>1, <2>2 DEF PhaseOf
    <3> QED
      BY <2>1, <3>2, <3>3 DEF PhaseOf
  <2>5. Ledger!Open(s)
    BY <2>2, <2>3, <2>4 DEF Ledger!Open
  <2> QED
    BY <2>1, <2>5 DEF Ledger!Next
<1>2. CASE (HandleShutdown /\ kv.inProgress) \/ (CompleteSpawn /\ ~stopping)
  <2> DEFINE s == kv.spawnId
  <2>1. kv.inProgress /\ s \in SpawnIds /\ s <= lastSpawn
    BY <1>2, <1>i DEF WorksOnOpenSpawn, CompleteSpawn, Runs
  <2>2. /\ ~kv'.inProgress /\ lastSpawn' = lastSpawn /\ gifts' = gifts
        /\ kv'.history \in {kv.history, kv.history \cup {s}}
    BY <1>0, <1>2, ClearedLedgerKeys DEF HandleShutdown, CompleteSpawn, Save, Internal, world
  <2>3. PhaseOf[s] = "open"
    BY <1>0, <2>1 DEF PhaseOf, SpawnIds
  <2>4. \E end \in {"done", "dropped"} : PhaseOf' = [PhaseOf EXCEPT ![s] = end]
    <3>1. \A t \in SpawnIds \ {s} : PhaseOf'[t] = PhaseOf[t]
      BY <2>1, <2>2 DEF PhaseOf
    <3>2. PhaseOf'[s] \in {"done", "dropped"}
      BY <1>0, <2>1, <2>2 DEF PhaseOf, SpawnIds
    <3>3. PhaseOf' = [PhaseOf EXCEPT ![s] = PhaseOf'[s]]
      BY <2>1, <3>1 DEF PhaseOf
    <3> QED
      BY <3>2, <3>3
  <2>5. Ledger!Close(s)
    BY <2>2, <2>3, <2>4 DEF Ledger!Close
  <2> QED
    BY <2>1, <2>5 DEF Ledger!Next
<1>3. CASE (HandleShutdown /\ ~kv.inProgress) \/ (CompleteSpawn /\ stopping)
  <2>1. kv.spawnId = NoSpawn /\ ~kv.inProgress
    BY <1>3, <1>i DEF HistoryInv, WorksOnOpenSpawn
  <2>2. /\ ~kv'.inProgress /\ lastSpawn' = lastSpawn /\ gifts' = gifts
        /\ kv'.history \in {kv.history, kv.history \cup {NoSpawn}}
    BY <1>0, <1>3, <2>1, ClearedLedgerKeys
    DEF HandleShutdown, CompleteSpawn, Save, Internal, world
  <2>3. \A t \in SpawnIds : t # NoSpawn
    BY DEF SpawnIds, NoSpawn
  <2>4. PhaseOf' = PhaseOf
    BY <2>1, <2>2, <2>3 DEF PhaseOf
  <2> QED
    BY <2>2, <2>4
<1>4. CASE ~Tick /\ ~HandleShutdown /\ ~CompleteSpawn
  <2>1. lastSpawn' = lastSpawn
    <3>1. CASE Pipeline
      BY <3>1, PipelineStep
    <3> QED
      BY <1>4, <3>1, ProcessStep DEF Next
  <2>2. PhaseOf' = PhaseOf
    BY <1>4, <2>1, LedgerKeyStep DEF PhaseOf
  <2>3. CASE gifts' = gifts
    BY <2>2, <2>3
  <2>4. CASE gifts' # gifts
    <3> DEFINE s == mem.sid
    <3>1. pc = "xferSend" /\ gifts' = [gifts EXCEPT ![s] = @ + 1]
      BY <2>4, GiftChange
    <3>2. s \in SpawnIds /\ s <= lastSpawn /\ gifts[s] = 0 /\ s \notin kv.history
      BY <3>1, <1>i DEF TypeOK, ControlOK, WorksOnOpenSpawn, GiftStillDue, HistoryInv
    <3>3. PhaseOf[s] \in {"open", "dropped"}
      BY <1>0, <3>2 DEF PhaseOf, SpawnIds
    <3>4. gifts' = [gifts EXCEPT ![s] = 1]
      BY <1>0, <3>1, <3>2
    <3>5. Ledger!Give(s)
      BY <2>2, <3>2, <3>3, <3>4 DEF Ledger!Give
    <3> QED
      BY <3>2, <3>5 DEF Ledger!Next
  <2> QED
    BY <2>3, <2>4
<1> QED
  BY <1>1, <1>2, <1>3, <1>4

(* The pipeline with its keys, crashes and restarts implements the abstract *)
(* ledger of spawns, one opened at a time and each closed once.            *)
THEOREM ImplementsLedger == Spec => RefinesLedger
BY LedgerInit, LedgerStep, HistoryHolds, PTL DEF Spec, RefinesLedger, Ledger!Spec
================================================================================
