-------------------------- MODULE SpawnDeliveryProofs --------------------------
(***************************************************************************)
(* Proofs about SpawnPipeline, continued: what the keys of the store, the  *)
(* points of the pipeline and the outside world say about each other, and  *)
(* what follows for a spawn that crashes and begins again.                 *)
(*                                                                         *)
(* Where a theorem assumes ~SignalsArrive or ~IndexerLag, TLC finds the    *)
(* property violated without the assumption: those two are what breaks it. *)
(***************************************************************************)
EXTENDS SpawnPipelineProofs

USE MaxSpawnsAssumption, PipelineAssumption

(***************************************************************************)
(* Tokens: each belongs to one spawn.                                      *)
(***************************************************************************)

(* The points of the pipeline by what has happened before them: the        *)
(* identity is recorded; the child is installed; the server exists; no     *)
(* identity is recorded yet; the token is in memory.                       *)
Late == {"vps", "adopt", "vpsIntent", "launch", "ready", "vpsRec", "deploy",
         "bootChild", "xfer", "xferRecon", "xferSize", "xferIntent", "xferSend",
         "xferRec", "done"}
Booted == {"xfer", "xferRecon", "xferSize", "xferIntent", "xferSend", "xferRec", "done"}
Served == Booted \cup {"ready", "vpsRec", "deploy", "bootChild"}
Early == InPipeline \ (Late \cup {"start"})
TokenKnown == InPipeline \ {"start", "wallet", "token", "tokenMint"}

(* Pairs of a spawn and the token held for it, in the store or in memory,  *)
(* and the tokens something was paid to.                                   *)
Bindings ==
  {<<NoSpawn, 0>>, <<kv.token.sid, kv.token.tok>>, <<kv.identity.sid, kv.identity.tok>>}
  \cup (IF pc \in TokenKnown THEN {<<mem.sid, mem.tok>>} ELSE {})
PaidTokens == {p[2] : p \in paidInv}

(* Tokens are new when they are minted, belong to one spawn, and what they *)
(* paid for or host is counted for that spawn.                             *)
TokensFresh ==
  /\ \A b \in Bindings : b[2] <= fresh /\ (b[1] = NoSpawn <=> b[2] = 0)
  /\ hosted \subseteq 1 .. fresh
  /\ PaidTokens \subseteq 1 .. fresh
  /\ credited \subseteq PaidTokens
TokensOwned == \A b, c \in Bindings : b[2] = c[2] => b[1] = c[1]
TokensBacked ==
  \A b \in Bindings : /\ b[2] \in hosted => launches[b[1]] > 0
                      /\ b[2] \in PaidTokens => paid[b[1]] > 0
TokenInv == TokensFresh /\ TokensOwned /\ TokensBacked

(* A binding is a pair of a spawn and a number. *)
LEMMA BindingsType == TypeOK => Bindings \subseteq AnySpawn \X Nat
BY DEF TypeOK, Bindings, KVType, MemType, AnySpawn, NoSpawn

(* mark_spawn_completed forgets the token. *)
LEMMA ClearedBindings ==
  ASSUME NEW k, NEW success
  PROVE  /\ MarkSpawnCompleted(k, success).token = [sid |-> NoSpawn, tok |-> 0]
         /\ MarkSpawnCompleted(k, success).identity
              = [sid |-> NoSpawn, tok |-> 0, addr |-> 0]
BY DEF MarkSpawnCompleted, ClearedKV

(* A step keeps the bindings, forgets some, or adds one to a fresh token. *)
LEMMA BindingsStep ==
  ASSUME TypeOK, [Next]_vars
  PROVE  \/ Bindings' \subseteq Bindings /\ fresh' >= fresh
         \/ /\ Bindings' \subseteq Bindings \cup {<<mem.sid, fresh + 1>>}
            /\ fresh' = fresh + 1 /\ mem.sid \in SpawnIds /\ UNCHANGED world
<1> USE DEF InPipeline, Awaits, Syncs, TokenKnown, Bindings
<1>0. kv \in KVType /\ mem \in MemType /\ fresh \in Nat
  BY DEF TypeOK, ControlOK
<1>f. fresh' >= fresh
  BY <1>0, FreshStep
<1>1. CASE \/ LoadIdentity \/ LoadToken
  BY <1>0, <1>1, <1>f DEF LoadIdentity, LoadToken, Runs, Internal, KVType, MemType
<1>2. CASE \/ GenerateToken
  BY <1>0, <1>2 DEF GenerateToken, Internal, Answered, Raise, TypeOK, ControlOK, MemType
<1>3. CASE ChildWallet \/ StartFunding \/ CreateInvoice
  BY <1>0, <1>f, <1>3 DEF ChildWallet, StartFunding, CreateInvoice, Save, Raise, Runs, Answered, local,
   KVType, MemType
<1>4. CASE \/ ReconcileFunding \/ AskBalance
           \/ CheckParentBalance \/ PayInvoice \/ WaitForCredit \/ LoadVps
           \/ AdoptOrphanServer \/ LaunchChildServer \/ WaitForServerReady
           \/ DeployChildCode \/ BootChildOrchestrator \/ LoadTransfer
           \/ ReconcileTransfer \/ SizeInheritance \/ SendInheritance
  BY <1>f, <1>4
  DEF ReconcileFunding, AskBalance, CheckParentBalance, PayInvoice, WaitForCredit,
      LoadVps, AdoptOrphanServer, LaunchChildServer, WaitForServerReady,
      DeployChildCode, BootChildOrchestrator, LoadTransfer, ReconcileTransfer,
      SizeInheritance, SendInheritance, Answered, Runs, Internal, Raise, External, Query, local
<1>5. CASE RecordToken \/ RecordIdentity
  <2>1. \/ /\ kv'.token = [sid |-> mem.sid, tok |-> mem.tok]
           /\ kv'.identity = kv.identity
        \/ /\ kv'.token = kv.token
           /\ kv'.identity = [sid |-> mem.sid, tok |-> mem.tok, addr |-> mem.addr]
    BY <1>0, <1>5 DEF RecordToken, SaveToken, RecordIdentity, Save, KVType
  <2>2. pc \in TokenKnown /\ mem' = mem
    BY <1>5 DEF RecordToken, RecordIdentity, Runs, local
  <2> QED
    BY <1>f, <2>1, <2>2
<1>a. CASE \/ CountAttempt \/ RecordInvoice \/ RecordFunding \/ RecordVpsIntent
           \/ RecordVps \/ RecordTransferIntent \/ RecordTransfer
  <2>1. kv'.token = kv.token /\ kv'.identity = kv.identity
    BY <1>0, <1>a
    DEF CountAttempt, RecordInvoice, RecordFunding, RecordVpsIntent, RecordVps,
        RecordTransferIntent, RecordTransfer, Save, KVType
  <2>2. (pc' \in TokenKnown => pc \in TokenKnown) /\ mem' = mem
    BY <1>a
    DEF CountAttempt, RecordInvoice, RecordFunding, RecordVpsIntent, RecordVps,
        RecordTransferIntent, RecordTransfer, Runs, Raise, local
  <2> HIDE DEF InPipeline, Awaits, Syncs, TokenKnown
  <2> QED
    BY <1>f, <2>1, <2>2
<1>6. CASE CompleteSpawn \/ HandleShutdown
  <2>1. \/ kv' = kv
        \/ /\ kv'.token = [sid |-> NoSpawn, tok |-> 0]
           /\ kv'.identity = [sid |-> NoSpawn, tok |-> 0, addr |-> 0]
    BY <1>6, ClearedBindings DEF CompleteSpawn, HandleShutdown, Save
  <2>2. (pc' \in TokenKnown => pc \in TokenKnown) /\ mem' = mem
    BY <1>6 DEF CompleteSpawn, HandleShutdown, local
  <2> HIDE DEF InPipeline, Awaits, Syncs, TokenKnown
  <2> QED
    BY <1>f, <2>1, <2>2
<1>7. CASE Tick
  BY <1>0, <1>f, <1>7 DEF Tick, Save, MarkSpawnStarted, KVType
<1>8. CASE Recover \/ Restart \/ Shutdown \/ UpdateRestart \/ Crash \/ OperatorRestart
  BY <1>f, <1>8 DEF Recover, Answered, Restart, Shutdown, UpdateRestart, Crash, OperatorRestart
<1>9. CASE SpawnAges \/ InvoiceExpires \/ CreditToken \/ UNCHANGED vars
  BY <1>0, <1>f, <1>9 DEF SpawnAges, InvoiceExpires, CreditToken, Save, local, vars, KVType
<1> QED
  BY <1>1, <1>2, <1>3, <1>4, <1>5, <1>6, <1>7, <1>8, <1>9, <1>a
  DEF Next, Pipeline, Process, Environment

(* What a step adds to the world belongs to the token in memory. *)
LEMMA TokensWorldStep ==
  ASSUME TypeOK, TokenInv, [Next]_vars
  PROVE  /\ hosted' \subseteq hosted \cup {mem.tok}
         /\ PaidTokens' \subseteq PaidTokens \cup {mem.tok}
         /\ credited' \subseteq PaidTokens'
         /\ \A s \in SpawnIds : launches'[s] >= launches[s] /\ paid'[s] >= paid[s]
         /\ hosted' # hosted => /\ pc = "launch" /\ launches'[mem.sid] > 0
         /\ PaidTokens' # PaidTokens => pc = "fundSend" /\ paid'[mem.sid] > 0
<1> USE DEF PaidTokens
<1>0. /\ paid \in [SpawnIds -> Nat] /\ launches \in [SpawnIds -> Nat]
      /\ paidInv \subseteq Nat \X Nat
      /\ credited \subseteq PaidTokens
  BY DEF TypeOK, WorldOK, TokenInv, TokensFresh
<1>1. CASE UNCHANGED world
  BY <1>0, <1>1 DEF world
<1>2. CASE pc = "fundSend" /\ BroadcastFunding
  <2>1. mem.sid \in SpawnIds
    BY <1>2 DEF TypeOK, ControlOK, InPipeline, Awaits, Syncs
  <2>2. PaidTokens' = PaidTokens \cup {mem.tok}
    <3>1. paidInv' = paidInv \cup {<<mem.inv, mem.tok>>}
      BY <1>2 DEF BroadcastFunding
    <3>2. ASSUME NEW x \in PaidTokens' PROVE x \in PaidTokens \cup {mem.tok}
      BY <3>1, <3>2
    <3>3. ASSUME NEW x \in PaidTokens \cup {mem.tok} PROVE x \in PaidTokens'
      <4>1. CASE x \in PaidTokens
        BY <3>1, <4>1
      <4>2. CASE x = mem.tok
        <5>1. <<mem.inv, mem.tok>> \in paidInv' /\ <<mem.inv, mem.tok>>[2] = x
          BY <3>1, <4>2
        <5> QED
          BY <5>1
      <4> QED
        BY <3>3, <4>1, <4>2
    <3> QED
      BY <3>2, <3>3
  <2>3. \A s \in SpawnIds : paid'[s] >= paid[s]
    BY <1>0, <1>2 DEF BroadcastFunding
  <2>4. paid'[mem.sid] > 0
    BY <1>0, <1>2, <2>1 DEF BroadcastFunding
  <2> QED
    BY <1>0, <1>2, <2>2, <2>3, <2>4 DEF BroadcastFunding
<1>3. CASE pc = "launch" /\ LaunchServer
  <2>1. mem.sid \in SpawnIds
    BY <1>3 DEF TypeOK, ControlOK, InPipeline, Awaits, Syncs
  <2>2. launches'[mem.sid] > 0 /\ \A s \in SpawnIds : launches'[s] >= launches[s]
    BY <1>0, <1>3, <2>1 DEF LaunchServer
  <2> QED
    BY <1>0, <1>3, <2>2 DEF LaunchServer
<1>4. CASE InstallChild \/ BroadcastGift
  BY <1>0, <1>4 DEF InstallChild, BroadcastGift
<1>5. CASE CreditToken
  BY <1>0, <1>5 DEF CreditToken
<1> QED
  BY <1>1, <1>2, <1>3, <1>4, <1>5, WorldChange

(* Every step keeps the tokens apart. *)
LEMMA TokenStep ==
  ASSUME TypeOK, TokenInv, [Next]_vars
  PROVE  TokenInv'
<1>0. /\ fresh \in Nat /\ Bindings \subseteq AnySpawn \X Nat
      /\ TokensFresh /\ TokensOwned /\ TokensBacked
  BY BindingsType DEF TypeOK, ControlOK, TokenInv
<1>1. /\ hosted' \subseteq hosted \cup {mem.tok}
      /\ PaidTokens' \subseteq PaidTokens \cup {mem.tok}
      /\ credited' \subseteq PaidTokens'
      /\ \A s \in SpawnIds : launches'[s] >= launches[s] /\ paid'[s] >= paid[s]
      /\ hosted' # hosted => /\ pc = "launch" /\ launches'[mem.sid] > 0
      /\ PaidTokens' # PaidTokens => pc = "fundSend" /\ paid'[mem.sid] > 0
  BY TokensWorldStep
<1>2. hosted' # hosted \/ PaidTokens' # PaidTokens
        => <<mem.sid, mem.tok>> \in Bindings /\ mem.sid \in SpawnIds
  BY <1>1 DEF Bindings, TokenKnown, InPipeline, Awaits, Syncs, TypeOK, ControlOK
<1>3. hosted' # hosted \/ PaidTokens' # PaidTokens => mem.tok \in 1 .. fresh
  BY <1>0, <1>2 DEF TokensFresh, SpawnIds, NoSpawn
<1>4. CASE Bindings' \subseteq Bindings /\ fresh' >= fresh
  <2>0. fresh' \in Nat
    BY CountersStep
  <2>1. TokensFresh'
    BY <1>0, <1>1, <1>3, <1>4, <2>0 DEF TokensFresh
  <2>2. TokensOwned'
    BY <1>0, <1>4 DEF TokensOwned
  <2>3. TokensBacked'
    <3> SUFFICES ASSUME NEW b \in Bindings'
                 PROVE  /\ b[2] \in hosted' => launches'[b[1]] > 0
                        /\ b[2] \in PaidTokens' => paid'[b[1]] > 0
      BY DEF TokensBacked
    <3>1. b \in Bindings /\ (b[1] \in SpawnIds \/ (b[1] = NoSpawn /\ b[2] = 0))
      <4>1. b \in Bindings
        BY <1>4
      <4>2. b[1] \in AnySpawn /\ (b[1] = NoSpawn <=> b[2] = 0)
        BY <1>0, <4>1 DEF TokensFresh
      <4> QED
        BY <4>1, <4>2 DEF AnySpawn
    <3>2. b[2] = mem.tok /\ <<mem.sid, mem.tok>> \in Bindings => b[1] = mem.sid
      BY <1>0, <3>1 DEF TokensOwned
    <3>3. b[2] \in hosted' \cup PaidTokens' => b[1] \in SpawnIds
      BY <3>1, <2>1 DEF TokensFresh
    <3>4. paid \in [SpawnIds -> Nat] /\ launches \in [SpawnIds -> Nat]
          /\ paid' \in [SpawnIds -> Nat] /\ launches' \in [SpawnIds -> Nat]
      BY WorldStep DEF TypeOK, WorldOK
    <3>5. ASSUME b[2] \in hosted' PROVE launches'[b[1]] > 0
      BY <1>0, <1>1, <1>2, <3>1, <3>2, <3>3, <3>4, <3>5 DEF TokensBacked
    <3>6. ASSUME b[2] \in PaidTokens' PROVE paid'[b[1]] > 0
      BY <1>0, <1>1, <1>2, <3>1, <3>2, <3>3, <3>4, <3>6 DEF TokensBacked
    <3> QED
      BY <3>5, <3>6
  <2> QED
    BY <2>1, <2>2, <2>3 DEF TokenInv
<1>5. CASE /\ Bindings' \subseteq Bindings \cup {<<mem.sid, fresh + 1>>}
           /\ fresh' = fresh + 1 /\ mem.sid \in SpawnIds /\ UNCHANGED world
  <2>1. hosted' = hosted /\ PaidTokens' = PaidTokens /\ launches' = launches /\ paid' = paid
    BY <1>5 DEF world, PaidTokens
  <2>2. mem.sid # NoSpawn
    BY <1>5 DEF SpawnIds, NoSpawn
  <2>3. TokensFresh'
    BY <1>0, <1>1, <1>5, <2>1, <2>2 DEF TokensFresh
  <2>4. TokensOwned'
    BY <1>0, <1>5 DEF TokensOwned, TokensFresh
  <2>5. TokensBacked'
    BY <1>0, <1>5, <2>1 DEF TokensBacked, TokensFresh
  <2> QED
    BY <2>3, <2>4, <2>5 DEF TokenInv
<1> QED
  BY <1>4, <1>5, BindingsStep

(* There are no tokens at first. *)
LEMMA TokenInit == Init => TokenInv
BY DEF Init, InitKV, ClearedKV, TokenInv, TokensFresh, TokensOwned, TokensBacked,
   Bindings, PaidTokens, TokenKnown, InPipeline, Awaits, Syncs, NoSpawn

(***************************************************************************)
(* The child receives what it can spend.                                   *)
(***************************************************************************)

(* Once the identity is recorded, memory and store agree on it, and what   *)
(* was given went to its address, which is the one installed on the child. *)
IdentityOnDisk ==
  ~stopping =>
    /\ pc \in Late => kv.identity = [sid |-> mem.sid, tok |-> mem.tok, addr |-> mem.addr]
    /\ pc \in Early => kv.identity.sid # mem.sid
GiftToIdentity ==
  kv.inProgress /\ gifts[kv.spawnId] > 0 =>
    kv.identity.sid = kv.spawnId /\ kv.identity.addr = giftAddr[kv.spawnId]
ChildHoldsKey ==
  /\ pc \in Booted => child[mem.sid] = mem.addr
  /\ pc = "bootChild" /\ gifts[mem.sid] > 0 => giftAddr[mem.sid] = mem.addr

IdentityInv == IdentityOnDisk /\ GiftToIdentity /\ ChildHoldsKey /\ InheritanceSpendable

(* Who writes the identity key. *)
LEMMA IdentityKeyStep ==
  ASSUME TypeOK, [Next]_vars
  PROVE  \/ kv'.identity = kv.identity /\ ~RecordIdentity
         \/ /\ RecordIdentity
            /\ kv'.identity = [sid |-> mem.sid, tok |-> mem.tok, addr |-> mem.addr]
         \/ CompleteSpawn \/ HandleShutdown
<1>0. kv \in KVType
  BY DEF TypeOK
<1>a. CASE RecordIdentity
  BY <1>0, <1>a DEF RecordIdentity, Save, KVType
<1>1. CASE \/ LoadIdentity \/ LoadToken \/ GenerateToken \/ StartFunding
           \/ ReconcileFunding \/ AskBalance \/ CreateInvoice
           \/ CheckParentBalance \/ PayInvoice \/ WaitForCredit \/ LoadVps
           \/ AdoptOrphanServer \/ LaunchChildServer \/ WaitForServerReady
           \/ DeployChildCode \/ BootChildOrchestrator \/ LoadTransfer
           \/ ReconcileTransfer \/ SizeInheritance \/ SendInheritance
           \/ Recover \/ Restart \/ Shutdown \/ UpdateRestart \/ Crash
           \/ OperatorRestart \/ InvoiceExpires \/ CreditToken
           \/ UNCHANGED vars
  BY <1>1, <1>a
  DEF LoadIdentity, LoadToken, GenerateToken, StartFunding, ReconcileFunding,
      AskBalance, CreateInvoice, CheckParentBalance, PayInvoice, WaitForCredit,
      LoadVps, AdoptOrphanServer, LaunchChildServer, WaitForServerReady,
      DeployChildCode, BootChildOrchestrator, LoadTransfer, ReconcileTransfer,
      SizeInheritance, SendInheritance, Recover, Restart, Shutdown,
      UpdateRestart, Crash, OperatorRestart, InvoiceExpires, CreditToken, vars
<1>2. CASE \/ ChildWallet \/ RecordToken \/ CountAttempt \/ RecordInvoice
           \/ RecordFunding
  BY <1>0, <1>2, <1>a
  DEF ChildWallet, RecordToken, SaveToken, CountAttempt, RecordInvoice,
      RecordFunding, Save, KVType
<1>3. CASE RecordVpsIntent \/ RecordVps \/ RecordTransferIntent
           \/ RecordTransfer \/ SpawnAges
  BY <1>0, <1>3, <1>a
  DEF RecordVpsIntent, RecordVps, RecordTransferIntent, RecordTransfer,
      SpawnAges, Save, KVType
<1>4. CASE Tick
  BY <1>0, <1>4, <1>a DEF Tick, Save, MarkSpawnStarted, KVType
<1> QED
  BY <1>1, <1>2, <1>3, <1>4, <1>a DEF Next, Pipeline, Process, Environment

(* How the pipeline gets to a point before or after the identity. *)
LEMMA PathStep ==
  ASSUME TypeOK, Pipeline
  PROVE  /\ pc' \in Early =>
              \/ pc \in Early \/ (LoadIdentity /\ kv.identity.sid # mem.sid)
         /\ pc' \in Late =>
              \/ pc \in Late /\ mem' = mem
              \/ /\ LoadIdentity /\ kv.identity.sid = mem.sid
                 /\ mem' = [mem EXCEPT !.tok = kv.identity.tok, !.addr = kv.identity.addr]
              \/ RecordIdentity /\ mem' = mem
         /\ pc' \in Booted => pc \in Booted \/ (pc = "bootChild" /\ InstallChild)
         /\ pc' = "bootChild" => pc = "deploy" /\ ~stopping
<1> USE DEF InPipeline, Awaits, Syncs, Early, Late, Booted
<1>1. CASE \/ LoadIdentity \/ ChildWallet \/ LoadToken \/ GenerateToken
           \/ RecordToken \/ StartFunding \/ ReconcileFunding \/ AskBalance
           \/ CountAttempt \/ CreateInvoice \/ RecordInvoice \/ CheckParentBalance
  BY <1>1
  DEF LoadIdentity, ChildWallet, LoadToken, GenerateToken, RecordToken,
      StartFunding, ReconcileFunding, AskBalance, CountAttempt, CreateInvoice,
      RecordInvoice, CheckParentBalance, Runs, Answered, Raise
<1>2. CASE \/ PayInvoice \/ RecordFunding \/ WaitForCredit \/ RecordIdentity
           \/ LoadVps \/ AdoptOrphanServer \/ RecordVpsIntent
           \/ LaunchChildServer \/ WaitForServerReady \/ RecordVps
  BY <1>2
  DEF PayInvoice, RecordFunding, WaitForCredit, RecordIdentity, LoadVps,
      AdoptOrphanServer, RecordVpsIntent, LaunchChildServer,
      WaitForServerReady, RecordVps, External, Query, Runs, Answered, Raise, local
<1>3. CASE \/ DeployChildCode \/ BootChildOrchestrator \/ LoadTransfer
           \/ ReconcileTransfer \/ SizeInheritance \/ RecordTransferIntent
           \/ SendInheritance \/ RecordTransfer \/ CompleteSpawn
  BY <1>3
  DEF DeployChildCode, BootChildOrchestrator, LoadTransfer, ReconcileTransfer,
      SizeInheritance, RecordTransferIntent, SendInheritance, RecordTransfer,
      CompleteSpawn, External, Query, Runs, Answered, Raise, local
<1> QED
  BY <1>1, <1>2, <1>3 DEF Pipeline

(* How the groups of points lie to each other. *)
LEMMA NotInPipeline ==
  /\ Early \subseteq InPipeline /\ Late \subseteq InPipeline
  /\ Booted \subseteq Late /\ Early \cap Late = {} /\ "start" \notin Early \cup Late
  /\ \A q \in {"start", "boot", "idle", "down"} : q \notin Early \cup Late
BY DEF Early, Late, Booted, InPipeline, Awaits, Syncs

(* Every step keeps memory and store in agreement. *)
LEMMA IdentityOnDiskStep ==
  ASSUME TypeOK, WorksOnOpenSpawn, IdentityOnDisk, [Next]_vars
  PROVE  IdentityOnDisk'
<1> USE NotInPipeline
<1>0. kv \in KVType /\ mem \in MemType
  BY DEF TypeOK
<1>1. CASE CompleteSpawn \/ HandleShutdown
  BY <1>1 DEF CompleteSpawn, HandleShutdown, IdentityOnDisk
<1>2. CASE RecordIdentity
  <2>1. /\ kv'.identity = [sid |-> mem.sid, tok |-> mem.tok, addr |-> mem.addr]
        /\ pc' = "vps" /\ mem' = mem
    BY <1>0, <1>2 DEF RecordIdentity, Save, local, KVType
  <2> QED
    BY <2>1 DEF IdentityOnDisk, Early, Late
<1>3. CASE ~CompleteSpawn /\ ~HandleShutdown /\ ~RecordIdentity
  <2>1. kv'.identity = kv.identity
    BY <1>3, IdentityKeyStep
  <2>2. CASE Pipeline
    <3>1. mem'.sid = mem.sid /\ stopping' = stopping
      BY <2>2, PipelineStep
    <3>2. ASSUME ~stopping, pc' \in Early PROVE kv'.identity.sid # mem'.sid
      BY <1>0, <2>1, <2>2, <3>1, <3>2, PathStep DEF IdentityOnDisk, LoadIdentity
    <3>3. ASSUME ~stopping, pc' \in Late
          PROVE  kv'.identity = [sid |-> mem'.sid, tok |-> mem'.tok, addr |-> mem'.addr]
      <4>1. CASE pc \in Late /\ mem' = mem
        BY <2>1, <3>3, <4>1 DEF IdentityOnDisk
      <4>2. CASE /\ LoadIdentity /\ kv.identity.sid = mem.sid
                 /\ mem' = [mem EXCEPT !.tok = kv.identity.tok, !.addr = kv.identity.addr]
        BY <1>0, <2>1, <4>2 DEF KVType, MemType
      <4> QED
        BY <1>3, <2>2, <3>3, <4>1, <4>2, PathStep
    <3> QED
      BY <3>1, <3>2, <3>3 DEF IdentityOnDisk
  <2>3. CASE Process \/ Environment \/ UNCHANGED vars
    BY <1>3, <2>1, <2>3, ProcessStep DEF IdentityOnDisk
  <2> QED
    BY <2>2, <2>3 DEF Next
<1> QED
  BY <1>1, <1>2, <1>3

(* A gift of an unfinished spawn went to the recorded identity. *)
LEMMA GiftToIdentityStep ==
  ASSUME TypeOK, WorksOnOpenSpawn, GiftStillDue, IdentityOnDisk, GiftToIdentity, [Next]_vars
  PROVE  GiftToIdentity'
<1> USE NotInPipeline
<1>0. /\ kv \in KVType /\ gifts \in [SpawnIds -> Nat] /\ giftAddr \in [SpawnIds -> Nat]
      /\ lastSpawn \in Nat
  BY DEF TypeOK, WorldOK, ControlOK
<1>1. CASE CompleteSpawn \/ HandleShutdown
  BY <1>1, ClearedKeys, ShutdownKeys DEF CompleteSpawn, Save, GiftToIdentity
<1>2. CASE Tick
  <2>1. lastSpawn + 1 \in SpawnIds /\ lastSpawn + 1 > lastSpawn
    BY <1>0, <1>2 DEF Tick, SpawnIds
  <2>2. kv'.spawnId = lastSpawn + 1 /\ gifts' = gifts
    BY <1>0, <1>2, <2>1, StartedKeys DEF Tick, Save, world
  <2> QED
    BY <2>1, <2>2 DEF GiftToIdentity, GiftStillDue
<1>3. CASE RecordIdentity
  <2>1. pc = "idRec" /\ gifts' = gifts /\ pc \in Early /\ pc \in InPipeline
    BY <1>3 DEF RecordIdentity, Internal, Runs, world, Early, Late, InPipeline, Awaits, Syncs
  <2>2. kv'.inProgress = kv.inProgress /\ kv'.spawnId = kv.spawnId
    BY <1>0, <1>3 DEF RecordIdentity, Save, KVType
  <2>3. kv.inProgress => ~stopping /\ kv.spawnId = mem.sid
    BY <2>1 DEF WorksOnOpenSpawn
  <2> QED
    BY <2>1, <2>2, <2>3 DEF GiftToIdentity, IdentityOnDisk
<1>4. CASE ~CompleteSpawn /\ ~HandleShutdown /\ ~RecordIdentity /\ ~Tick
  <2>1. /\ kv'.identity = kv.identity
        /\ kv'.inProgress = kv.inProgress /\ kv'.spawnId = kv.spawnId
    BY <1>4, IdentityKeyStep, LedgerKeyStep
  <2>2. CASE pc = "xferSend" /\ BroadcastGift
    <3>1. pc \in Late /\ pc \in InPipeline
      BY <2>2 DEF Late, InPipeline, Awaits
    <3>2. kv.inProgress => ~stopping /\ kv.spawnId = mem.sid /\ mem.sid \in SpawnIds
      BY <3>1 DEF WorksOnOpenSpawn
    <3>3. kv.inProgress => kv.identity.sid = mem.sid /\ kv.identity.addr = mem.addr
      BY <3>1, <3>2 DEF IdentityOnDisk
    <3>4. giftAddr' = [giftAddr EXCEPT ![mem.sid] = mem.addr]
      BY <2>2 DEF BroadcastGift
    <3>5. kv.inProgress => giftAddr'[kv.spawnId] = mem.addr
      BY <1>0, <3>2, <3>4
    <3> QED
      BY <2>1, <3>2, <3>3, <3>5 DEF GiftToIdentity
  <2>3. CASE UNCHANGED <<gifts, giftAddr>>
    BY <2>1, <2>3 DEF GiftToIdentity
  <2> QED
    BY <2>2, <2>3, WorldChange
    DEF world, BroadcastFunding, LaunchServer, InstallChild, CreditToken
<1> QED
  BY <1>1, <1>2, <1>3, <1>4

(* The child holds the key of that identity. *)
LEMMA ChildHoldsKeyStep ==
  ASSUME TypeOK, WorksOnOpenSpawn, IdentityOnDisk, GiftToIdentity, ChildHoldsKey,
         [Next]_vars
  PROVE  ChildHoldsKey'
<1> USE NotInPipeline
<1>0. /\ gifts \in [SpawnIds -> Nat] /\ giftAddr \in [SpawnIds -> Nat]
      /\ child \in [SpawnIds -> Nat] /\ (pc \in InPipeline => mem.sid \in SpawnIds)
  BY DEF TypeOK, WorldOK, ControlOK
<1>p. {"bootChild", "deploy"} \subseteq Late /\ {"bootChild", "deploy", "xferSend"} \cap Booted = {"xferSend"}
  BY DEF Late, Booted
<1>c. pc # "bootChild" => child' = child
  BY WorldChange DEF world, BroadcastFunding, LaunchServer, BroadcastGift, CreditToken
<1>g. pc # "xferSend" => gifts' = gifts /\ giftAddr' = giftAddr
  BY WorldChange DEF world, BroadcastFunding, LaunchServer, InstallChild, CreditToken
<1>s. \/ Pipeline
      \/ UNCHANGED <<pc, mem>>
      \/ pc' \in {"start", "boot", "idle", "down"}
  BY ProcessStep DEF Next
<1>1. ASSUME pc' \in Booted PROVE child'[mem'.sid] = mem'.addr
  <2>1. CASE Pipeline
    <3>1. mem' = mem
      BY <1>1, <2>1, PathStep DEF LoadIdentity, Runs
    <3>2. CASE pc \in Booted
      BY <1>c, <1>p, <3>1, <3>2 DEF ChildHoldsKey
    <3>3. CASE pc = "bootChild" /\ InstallChild
      BY <1>0, <1>p, <3>1, <3>3 DEF InstallChild
    <3> QED
      BY <1>1, <2>1, <3>2, <3>3, PathStep
  <2>2. CASE UNCHANGED <<pc, mem>>
    BY <1>1, <1>c, <1>p, <2>2 DEF ChildHoldsKey
  <2> QED
    BY <1>1, <1>s, <2>1, <2>2
<1>2. ASSUME pc' = "bootChild", gifts'[mem'.sid] > 0 PROVE giftAddr'[mem'.sid] = mem'.addr
  <2>1. CASE Pipeline
    <3>1. pc = "deploy" /\ ~stopping /\ mem'.sid = mem.sid
      BY <1>2, <2>1, PathStep, PipelineStep
    <3>2. mem' = mem
      BY <1>2, <1>p, <2>1, <3>1, PathStep DEF LoadIdentity, RecordIdentity, Runs
    <3>3. kv.inProgress /\ kv.spawnId = mem.sid /\ kv.identity.addr = mem.addr
      BY <1>p, <3>1 DEF WorksOnOpenSpawn, IdentityOnDisk
    <3> QED
      BY <1>2, <1>g, <3>1, <3>2, <3>3 DEF GiftToIdentity
  <2>2. CASE UNCHANGED <<pc, mem>>
    BY <1>2, <1>g, <2>2 DEF ChildHoldsKey
  <2> QED
    BY <1>2, <1>s, <2>1, <2>2
<1> QED
  BY <1>1, <1>2 DEF ChildHoldsKey

(* A gift and a child's key, once both are there, match. *)
LEMMA SpendableStep ==
  ASSUME TypeOK, ChildHoldsKey, InheritanceSpendable, [Next]_vars
  PROVE  InheritanceSpendable'
<1> USE NotInPipeline
<1>0. /\ gifts \in [SpawnIds -> Nat] /\ giftAddr \in [SpawnIds -> Nat]
      /\ child \in [SpawnIds -> Nat] /\ (pc \in InPipeline => mem.sid \in SpawnIds)
  BY DEF TypeOK, WorldOK, ControlOK
<1>1. CASE pc = "bootChild" /\ InstallChild
  <2>1. mem.sid \in SpawnIds
    BY <1>0, <1>1 DEF Late
  <2> QED
    BY <1>0, <1>1, <2>1 DEF InstallChild, ChildHoldsKey, InheritanceSpendable
<1>2. CASE pc = "xferSend" /\ BroadcastGift
  <2>1. mem.sid \in SpawnIds /\ child[mem.sid] = mem.addr
    BY <1>0, <1>2 DEF Late, Booted, ChildHoldsKey
  <2> QED
    BY <1>0, <1>2, <2>1 DEF BroadcastGift, InheritanceSpendable
<1>3. CASE UNCHANGED <<gifts, giftAddr, child>>
  BY <1>3 DEF InheritanceSpendable
<1> QED
  BY <1>1, <1>2, <1>3, WorldChange
  DEF world, BroadcastFunding, LaunchServer, CreditToken

(* Nothing is recorded at first. *)
LEMMA IdentityInit == Init => IdentityInv
BY NotInPipeline
DEF Init, InitKV, ClearedKV, IdentityInv, IdentityOnDisk, GiftToIdentity,
    ChildHoldsKey, InheritanceSpendable

(* Every step keeps the identity invariant. *)
LEMMA IdentityStep ==
  ASSUME TypeOK, InheritanceInv, IdentityInv, [Next]_vars
  PROVE  IdentityInv'
BY IdentityOnDiskStep, GiftToIdentityStep, ChildHoldsKeyStep, SpendableStep
DEF IdentityInv, InheritanceInv

(* The identity invariant holds throughout. *)
LEMMA IdentityHolds == Spec => []IdentityInv
BY IdentityInit, IdentityStep, TypeCorrect, InheritanceInvariant, PTL DEF Spec

(* An inheritance is always sent to an address whose key the child has,    *)
(* also when the process crashed between the wallet's creation, the        *)
(* installation and the transfer and began again from the store.           *)
THEOREM InheritanceReachesChild == Spec => []InheritanceSpendable
<1>1. IdentityInv => InheritanceSpendable
  BY DEF IdentityInv
<1> QED
  BY <1>1, IdentityHolds, PTL

(***************************************************************************)
(* What is recorded as done was done.                                      *)
(***************************************************************************)

(* Points after the payment, and points that know the child's address. *)
PaidFor == Late \cup {"idRec", "fundRec"}
Addressed == InPipeline \ {"start", "wallet"}

(* Keys of the store, and points of the pipeline, that claim something have *)
(* the world behind them.                                                  *)
KeysBacked ==
  /\ kv.wallet.sid # NoSpawn => kv.wallet.addr # 0
  /\ kv.identity.sid # NoSpawn => kv.identity.addr # 0 /\ paid[kv.identity.sid] > 0
  /\ kv.vpsInfo # NoSpawn => launches[kv.vpsInfo] > 0
PointsBacked ==
  /\ pc \in Addressed => mem.addr # 0
  /\ pc \in Served => launches[mem.sid] > 0
  /\ pc \in PaidFor => paid[mem.sid] > 0
DeliveryInv == KeysBacked /\ PointsBacked /\ CompletedIsDelivered

(* Each key of the store has one writer besides the completion of a spawn. *)
LEMMA KeyWrites ==
  ASSUME TypeOK, [Next]_vars, ~CompleteSpawn, ~HandleShutdown
  PROVE  /\ kv'.wallet = kv.wallet \/ ChildWallet
         /\ kv'.token = kv.token \/ RecordToken
         /\ kv'.fundIntent = kv.fundIntent \/ RecordInvoice
         /\ kv'.fundTxid = kv.fundTxid \/ RecordFunding
         /\ kv'.identity = kv.identity \/ RecordIdentity
         /\ kv'.vpsIntent = kv.vpsIntent \/ RecordVpsIntent
         /\ kv'.vpsInfo = kv.vpsInfo \/ RecordVps
         /\ kv'.xferTxid = kv.xferTxid \/ RecordTransfer
<1>0. kv \in KVType
  BY DEF TypeOK
<1>1. CASE \/ LoadIdentity \/ LoadToken \/ GenerateToken \/ StartFunding
           \/ ReconcileFunding \/ AskBalance \/ CreateInvoice
           \/ CheckParentBalance \/ PayInvoice \/ WaitForCredit \/ LoadVps
           \/ AdoptOrphanServer \/ LaunchChildServer \/ WaitForServerReady
           \/ DeployChildCode \/ BootChildOrchestrator \/ LoadTransfer
           \/ ReconcileTransfer \/ SizeInheritance \/ SendInheritance
           \/ Recover \/ Restart \/ Shutdown \/ UpdateRestart \/ Crash
           \/ OperatorRestart \/ InvoiceExpires \/ CreditToken
           \/ UNCHANGED vars
  <2>1. kv' = kv
    BY <1>1
    DEF LoadIdentity, LoadToken, GenerateToken, StartFunding, ReconcileFunding,
      AskBalance, CreateInvoice, CheckParentBalance, PayInvoice, WaitForCredit,
      LoadVps, AdoptOrphanServer, LaunchChildServer, WaitForServerReady,
      DeployChildCode, BootChildOrchestrator, LoadTransfer, ReconcileTransfer,
      SizeInheritance, SendInheritance, Recover, Restart, Shutdown,
      UpdateRestart, Crash, OperatorRestart, InvoiceExpires, CreditToken, vars
  <2> QED
    BY <2>1
<1>2. CASE ChildWallet
  BY <1>0, <1>2 DEF ChildWallet, Save, KVType
<1>3. CASE RecordToken
  BY <1>0, <1>3 DEF RecordToken, SaveToken, Save, KVType
<1>4. CASE CountAttempt
  BY <1>0, <1>4 DEF CountAttempt, Save, KVType
<1>5. CASE RecordInvoice
  BY <1>0, <1>5 DEF RecordInvoice, Save, KVType
<1>6. CASE RecordFunding
  BY <1>0, <1>6 DEF RecordFunding, Save, KVType
<1>7. CASE RecordIdentity
  BY <1>0, <1>7 DEF RecordIdentity, Save, KVType
<1>8. CASE RecordVpsIntent
  BY <1>0, <1>8 DEF RecordVpsIntent, Save, KVType
<1>9. CASE RecordVps
  BY <1>0, <1>9 DEF RecordVps, Save, KVType
<1>10. CASE RecordTransferIntent
  BY <1>0, <1>10 DEF RecordTransferIntent, Save, KVType
<1>11. CASE RecordTransfer
  BY <1>0, <1>11 DEF RecordTransfer, Save, KVType
<1>12. CASE SpawnAges
  BY <1>0, <1>12 DEF SpawnAges, Save, KVType
<1>13. CASE Tick
  BY <1>0, <1>13 DEF Tick, Save, MarkSpawnStarted, KVType
<1> QED
  BY <1>1, <1>2, <1>3, <1>4, <1>5, <1>6, <1>7, <1>8, <1>9, <1>10, <1>11, <1>12, <1>13
  DEF Next, Pipeline, Process, Environment

(* How the pipeline gets to a point that claims a server or a payment. *)
LEMMA BackedPoints ==
  ASSUME TypeOK, Pipeline
  PROVE  /\ pc' \in Served =>
              \/ pc \in Served
              \/ pc = "adopt" /\ mem.tok \in hosted
              \/ pc = "launch" /\ LaunchServer
              \/ LoadVps /\ kv.vpsInfo = mem.sid
         /\ pc' \in PaidFor =>
              \/ pc \in PaidFor
              \/ LoadIdentity /\ kv.identity.sid = mem.sid
              \/ pc = "reconcile" /\ <<mem.inv, mem.tok>> \in paidInv
              \/ pc \in {"askBalance", "credit"} /\ mem.tok \in credited
              \/ pc = "fundSend" /\ BroadcastFunding
<1> USE DEF InPipeline, Awaits, Syncs, Late, Booted, Served, PaidFor
<1>1. CASE \/ LoadIdentity \/ ChildWallet \/ LoadToken \/ GenerateToken
           \/ RecordToken \/ StartFunding \/ ReconcileFunding \/ AskBalance
           \/ CountAttempt \/ CreateInvoice \/ RecordInvoice \/ CheckParentBalance
  BY <1>1
  DEF LoadIdentity, ChildWallet, LoadToken, GenerateToken, RecordToken,
      StartFunding, ReconcileFunding, AskBalance, CountAttempt, CreateInvoice,
      RecordInvoice, CheckParentBalance, PriorSendFound, Runs, Answered, Raise
<1>2. CASE \/ PayInvoice \/ RecordFunding \/ WaitForCredit \/ RecordIdentity
           \/ LoadVps \/ AdoptOrphanServer \/ RecordVpsIntent
           \/ LaunchChildServer \/ WaitForServerReady \/ RecordVps
  BY <1>2
  DEF PayInvoice, RecordFunding, WaitForCredit, RecordIdentity, LoadVps,
      AdoptOrphanServer, RecordVpsIntent, LaunchChildServer,
      WaitForServerReady, RecordVps, External, Query, Runs, Answered, Raise
<1>3. CASE \/ DeployChildCode \/ BootChildOrchestrator \/ LoadTransfer
           \/ ReconcileTransfer \/ SizeInheritance \/ RecordTransferIntent
           \/ SendInheritance \/ RecordTransfer \/ CompleteSpawn
  BY <1>3
  DEF DeployChildCode, BootChildOrchestrator, LoadTransfer, ReconcileTransfer,
      SizeInheritance, RecordTransferIntent, SendInheritance, RecordTransfer,
      CompleteSpawn, External, Query, Runs, Answered, Raise
<1> QED
  BY <1>1, <1>2, <1>3 DEF Pipeline

(* Where the child's address in memory comes from. *)
LEMMA AddressKept ==
  ASSUME TypeOK, Pipeline, pc' \in Addressed
  PROVE  \/ pc \in Addressed /\ mem'.addr = mem.addr
         \/ LoadIdentity /\ kv.identity.sid = mem.sid /\ mem'.addr = kv.identity.addr
         \/ ChildWallet /\ kv.wallet.sid = mem.sid /\ mem'.addr = kv.wallet.addr
         \/ ChildWallet /\ mem'.addr = fresh + 1
<1> USE DEF InPipeline, Awaits, Syncs, Addressed
<1>0. mem \in MemType
  BY DEF TypeOK
<1>1. CASE LoadIdentity \/ ChildWallet
  BY <1>0, <1>1
  DEF LoadIdentity, ChildWallet, RehydratesWallet, Runs, Raise, MemType
<1>2. CASE LoadToken \/ GenerateToken \/ StartFunding \/ CreateInvoice
  BY <1>0, <1>2
  DEF LoadToken, GenerateToken, StartFunding, CreateInvoice, Runs, Answered,
      Raise, local, MemType
<1>3. CASE \/ RecordToken \/ ReconcileFunding \/ AskBalance \/ CountAttempt
           \/ RecordInvoice \/ CheckParentBalance \/ PayInvoice
           \/ RecordFunding \/ WaitForCredit \/ RecordIdentity \/ LoadVps
           \/ AdoptOrphanServer \/ RecordVpsIntent \/ LaunchChildServer
           \/ WaitForServerReady \/ RecordVps \/ DeployChildCode
           \/ BootChildOrchestrator \/ LoadTransfer \/ ReconcileTransfer
           \/ SizeInheritance \/ RecordTransferIntent \/ SendInheritance
           \/ RecordTransfer \/ CompleteSpawn
  BY <1>3
  DEF RecordToken, ReconcileFunding, AskBalance, CountAttempt, RecordInvoice,
      CheckParentBalance, PayInvoice, RecordFunding, WaitForCredit,
      RecordIdentity, LoadVps, AdoptOrphanServer, RecordVpsIntent,
      LaunchChildServer, WaitForServerReady, RecordVps, DeployChildCode,
      BootChildOrchestrator, LoadTransfer, ReconcileTransfer, SizeInheritance,
      RecordTransferIntent, SendInheritance, RecordTransfer, CompleteSpawn,
      Runs, Answered, local
<1> QED
  BY <1>1, <1>2, <1>3 DEF Pipeline

(* mark_spawn_completed forgets wallet and server. *)
LEMMA ClearedServer ==
  ASSUME NEW k, NEW success
  PROVE  /\ MarkSpawnCompleted(k, success).wallet.sid = NoSpawn
         /\ MarkSpawnCompleted(k, success).vpsInfo = NoSpawn
BY DEF MarkSpawnCompleted, ClearedKV

(* What the token in memory hosts or paid counts for the current spawn. *)
LEMMA TokensOwnedBacked ==
  ASSUME TypeOK, TokenInv, pc \in TokenKnown
  PROVE  /\ mem.tok \in hosted => launches[mem.sid] > 0
         /\ mem.tok \in credited => paid[mem.sid] > 0
         /\ <<mem.inv, mem.tok>> \in paidInv => paid[mem.sid] > 0
<1>1. <<mem.sid, mem.tok>> \in Bindings
  BY DEF Bindings
<1>2. <<mem.inv, mem.tok>> \in paidInv => mem.tok \in PaidTokens
  <2>1. <<mem.inv, mem.tok>>[2] = mem.tok
    OBVIOUS
  <2> QED
    BY <2>1 DEF PaidTokens
<1> QED
  BY <1>1, <1>2 DEF TokenInv, TokensBacked, TokensFresh

(* Every step keeps the keys backed. *)
LEMMA KeysBackedStep ==
  ASSUME TypeOK, TokenInv, KeysBacked, PointsBacked, [Next]_vars
  PROVE  KeysBacked'
<1>0. /\ kv \in KVType /\ mem \in MemType /\ fresh \in Nat
      /\ paid \in [SpawnIds -> Nat] /\ launches \in [SpawnIds -> Nat]
      /\ paid' \in [SpawnIds -> Nat] /\ launches' \in [SpawnIds -> Nat]
      /\ \A s \in SpawnIds : launches'[s] >= launches[s] /\ paid'[s] >= paid[s]
  BY WorldStep, TokensWorldStep DEF TypeOK, WorldOK, ControlOK
<1>1. CASE (CompleteSpawn \/ HandleShutdown) /\ kv' # kv
  <2>1. /\ kv'.wallet.sid = NoSpawn /\ kv'.vpsInfo = NoSpawn
        /\ kv'.identity.sid = NoSpawn
    <3>1. \E success \in BOOLEAN : kv' = MarkSpawnCompleted(kv, success)
      BY <1>1 DEF CompleteSpawn, HandleShutdown, Save
    <3> QED
      BY <3>1, ClearedServer, ClearedBindings
  <2> QED
    BY <2>1 DEF KeysBacked
<1>2. CASE kv' = kv \/ (~CompleteSpawn /\ ~HandleShutdown)
  <2>1. kv'.wallet.sid # NoSpawn => kv'.wallet.addr # 0
    <3>1. CASE kv'.wallet = kv.wallet
      BY <3>1 DEF KeysBacked
    <3>2. CASE ChildWallet
      BY <1>0, <3>2 DEF ChildWallet, Save, KeysBacked, KVType
    <3> QED
      BY <1>2, <3>1, <3>2, KeyWrites
  <2>2. kv'.identity.sid # NoSpawn => kv'.identity.addr # 0 /\ paid'[kv'.identity.sid] > 0
    <3>1. CASE kv'.identity = kv.identity
      <4>1. kv.identity.sid # NoSpawn => kv.identity.sid \in SpawnIds
        BY <1>0 DEF KVType, AnySpawn
      <4> QED
        BY <1>0, <3>1, <4>1 DEF KeysBacked
    <3>2. CASE RecordIdentity
      <4>1. pc = "idRec" /\ mem.sid \in SpawnIds /\ mem.addr # 0 /\ paid[mem.sid] > 0
        BY <3>2 DEF RecordIdentity, Runs, PointsBacked, Addressed, PaidFor,
           InPipeline, Syncs, Awaits, TypeOK, ControlOK
      <4>2. kv'.identity = [sid |-> mem.sid, tok |-> mem.tok, addr |-> mem.addr]
        BY <1>0, <3>2 DEF RecordIdentity, Save, KVType
      <4> QED
        BY <1>0, <4>1, <4>2
    <3> QED
      BY <1>2, <3>1, <3>2, KeyWrites
  <2>3. kv'.vpsInfo # NoSpawn => launches'[kv'.vpsInfo] > 0
    <3>1. CASE kv'.vpsInfo = kv.vpsInfo
      <4>1. kv.vpsInfo # NoSpawn => kv.vpsInfo \in SpawnIds
        BY <1>0 DEF KVType, AnySpawn
      <4> QED
        BY <1>0, <3>1, <4>1 DEF KeysBacked
    <3>2. CASE RecordVps
      <4>1. pc = "vpsRec" /\ mem.sid \in SpawnIds /\ launches[mem.sid] > 0
        BY <3>2 DEF RecordVps, Runs, PointsBacked, Served,
           InPipeline, Syncs, Awaits, TypeOK, ControlOK
      <4>2. kv'.vpsInfo = mem.sid
        BY <1>0, <3>2 DEF RecordVps, Save, KVType
      <4> QED
        BY <1>0, <4>1, <4>2
    <3> QED
      BY <1>2, <3>1, <3>2, KeyWrites
  <2> QED
    BY <2>1, <2>2, <2>3 DEF KeysBacked
<1> QED
  BY <1>1, <1>2

(* Every step keeps the points backed. *)
LEMMA PointsBackedStep ==
  ASSUME TypeOK, TokenInv, KeysBacked, PointsBacked, [Next]_vars
  PROVE  PointsBacked'
<1>0. /\ kv \in KVType /\ mem \in MemType /\ fresh \in Nat
      /\ paid \in [SpawnIds -> Nat] /\ launches \in [SpawnIds -> Nat]
      /\ paid' \in [SpawnIds -> Nat] /\ launches' \in [SpawnIds -> Nat]
      /\ \A s \in SpawnIds : launches'[s] >= launches[s] /\ paid'[s] >= paid[s]
  BY WorldStep, TokensWorldStep DEF TypeOK, WorldOK, ControlOK
<1>p. /\ Served \subseteq InPipeline /\ PaidFor \subseteq InPipeline
      /\ Addressed \subseteq InPipeline
      /\ \A q \in {"start", "boot", "idle", "down"} : q \notin Served \cup PaidFor \cup Addressed
  BY DEF Served, Booted, PaidFor, Late, Addressed, InPipeline, Awaits, Syncs
<1>1. CASE Pipeline
  <2>1. mem'.sid = mem.sid /\ mem.sid \in SpawnIds /\ mem.sid # NoSpawn
    BY <1>1, PipelineStep DEF TypeOK, ControlOK, SpawnIds, NoSpawn
  <2>2. ASSUME pc' \in Addressed PROVE mem'.addr # 0
    <3>1. fresh + 1 # 0
      BY <1>0
    <3> QED
      BY <1>1, <2>1, <2>2, <3>1, AddressKept DEF KeysBacked, PointsBacked
  <2>3. ASSUME pc' \in Served PROVE launches'[mem'.sid] > 0
    <3>1. CASE pc \in Served
      BY <1>0, <2>1, <3>1 DEF PointsBacked
    <3>2. CASE pc = "adopt" /\ mem.tok \in hosted
      <4>1. pc \in TokenKnown
        BY <3>2 DEF TokenKnown, InPipeline, Awaits
      <4> QED
        BY <1>0, <2>1, <3>2, <4>1, TokensOwnedBacked
    <3>3. CASE pc = "launch" /\ LaunchServer
      BY <1>0, <2>1, <3>3 DEF LaunchServer
    <3>4. CASE LoadVps /\ kv.vpsInfo = mem.sid
      BY <1>0, <2>1, <3>4 DEF KeysBacked
    <3> QED
      BY <1>1, <2>3, <3>1, <3>2, <3>3, <3>4, BackedPoints
  <2>4. ASSUME pc' \in PaidFor PROVE paid'[mem'.sid] > 0
    <3>1. CASE pc \in PaidFor
      BY <1>0, <2>1, <3>1 DEF PointsBacked
    <3>2. CASE LoadIdentity /\ kv.identity.sid = mem.sid
      BY <1>0, <2>1, <3>2 DEF KeysBacked
    <3>3. CASE \/ pc = "reconcile" /\ <<mem.inv, mem.tok>> \in paidInv
               \/ pc \in {"askBalance", "credit"} /\ mem.tok \in credited
      <4>1. pc \in TokenKnown
        BY <3>3 DEF TokenKnown, InPipeline, Awaits
      <4> QED
        BY <1>0, <2>1, <3>3, <4>1, TokensOwnedBacked
    <3>4. CASE pc = "fundSend" /\ BroadcastFunding
      BY <1>0, <2>1, <3>4 DEF BroadcastFunding
    <3> QED
      BY <1>1, <2>4, <3>1, <3>2, <3>3, <3>4, BackedPoints
  <2> QED
    BY <2>2, <2>3, <2>4 DEF PointsBacked
<1>2. CASE Process \/ Environment \/ UNCHANGED vars
  <2>1. CASE UNCHANGED <<pc, mem>>
    <3>1. pc \in InPipeline => mem.sid \in SpawnIds
      BY DEF TypeOK, ControlOK
    <3> QED
      BY <1>0, <1>p, <2>1, <3>1 DEF PointsBacked
  <2>2. CASE pc' \in {"start", "boot", "idle", "down"}
    BY <1>p, <2>2 DEF PointsBacked
  <2> QED
    BY <1>2, <2>1, <2>2, ProcessStep
<1> QED
  BY <1>1, <1>2 DEF Next

(* A spawn is recorded as a success only at the end of the pipeline. *)
LEMMA DeliveredStep ==
  ASSUME TypeOK, WorksOnOpenSpawn, HistoryInv, ChildHoldsKey, PointsBacked, TokenInv,
         CompletedIsDelivered, [Next]_vars
  PROVE  CompletedIsDelivered'
<1>0. /\ kv \in KVType /\ mem \in MemType
      /\ paid \in [SpawnIds -> Nat] /\ launches \in [SpawnIds -> Nat]
      /\ paid' \in [SpawnIds -> Nat] /\ launches' \in [SpawnIds -> Nat]
      /\ child \in [SpawnIds -> Nat]
      /\ \A s \in SpawnIds : launches'[s] >= launches[s] /\ paid'[s] >= paid[s]
  BY WorldStep, TokensWorldStep DEF TypeOK, WorldOK, ControlOK
<1>1. ASSUME NEW s \in SpawnIds, child[s] # 0 PROVE child'[s] # 0
  <2>1. CASE pc = "bootChild" /\ InstallChild
    <3>1. mem.addr # 0
      BY <2>1 DEF PointsBacked, Addressed, InPipeline, Awaits
    <3> QED
      BY <1>0, <1>1, <2>1, <3>1 DEF InstallChild
  <2>2. CASE child' = child
    BY <1>1, <2>2
  <2> QED
    BY <2>1, <2>2, WorldChange
    DEF world, BroadcastFunding, LaunchServer, BroadcastGift, CreditToken
<1>2. ASSUME NEW s \in kv.history \ {NoSpawn}
      PROVE  child'[s] # 0 /\ launches'[s] > 0 /\ paid'[s] > 0
  <2>1. s \in SpawnIds
    BY <1>0 DEF KVType, AnySpawn
  <2> QED
    BY <1>0, <1>1, <2>1 DEF CompletedIsDelivered
<1>3. CASE CompleteSpawn
  <2>1. pc = "done" /\ kv'.history = kv.history \cup {kv.spawnId} /\ UNCHANGED world
    BY <1>0, <1>3, ClearedLedgerKeys DEF CompleteSpawn, Runs, Save, Internal
  <2>2. pc \in InPipeline /\ pc \in Booted /\ pc \in Served /\ pc \in PaidFor /\ pc \in Addressed
    BY <2>1 DEF InPipeline, Syncs, Awaits, Booted, Served, PaidFor, Late, Addressed
  <2>3. CASE stopping
    BY <1>2, <2>1, <2>3 DEF WorksOnOpenSpawn, HistoryInv, CompletedIsDelivered
  <2>4. CASE ~stopping
    <3>1. kv.spawnId = mem.sid
      BY <2>2, <2>4 DEF WorksOnOpenSpawn
    <3>2. child[mem.sid] # 0 /\ launches[mem.sid] > 0 /\ paid[mem.sid] > 0
      BY <2>2 DEF ChildHoldsKey, PointsBacked
    <3> QED
      BY <1>2, <2>1, <3>1, <3>2 DEF CompletedIsDelivered, world
  <2> QED
    BY <2>3, <2>4
<1>4. CASE ~CompleteSpawn
  <2>1. kv'.history = kv.history
    <3>1. CASE HandleShutdown
      BY <1>0, <3>1, ClearedLedgerKeys DEF HandleShutdown, Save
    <3>2. CASE Tick
      BY <1>0, <3>2 DEF Tick, Save, MarkSpawnStarted, KVType
    <3> QED
      BY <1>4, <3>1, <3>2, LedgerKeyStep
  <2> QED
    BY <1>2, <2>1 DEF CompletedIsDelivered
<1> QED
  BY <1>3, <1>4

(* Nothing is claimed at first. *)
LEMMA DeliveryInit == Init => DeliveryInv
BY DEF Init, InitKV, ClearedKV, DeliveryInv, KeysBacked, PointsBacked,
   CompletedIsDelivered, Served, Booted, PaidFor, Late, Addressed, InPipeline,
   Awaits, Syncs

(* The tokens are kept apart throughout. *)
LEMMA TokenHolds == Spec => []TokenInv
BY TokenInit, TokenStep, TypeCorrect, PTL DEF Spec

(* The keys and the points are backed throughout. *)
LEMMA DeliveryHolds == Spec => []DeliveryInv
<1>1. TypeOK /\ InheritanceInv /\ HistoryInv /\ IdentityInv /\ TokenInv
        /\ DeliveryInv /\ [Next]_vars => DeliveryInv'
  BY KeysBackedStep, PointsBackedStep, DeliveredStep
  DEF DeliveryInv, InheritanceInv, IdentityInv
<1> QED
  BY <1>1, DeliveryInit, HistoryHolds, IdentityHolds, TokenHolds, PTL DEF Spec

(* A spawn the history records as successful was paid for, has its server, *)
(* and its child holds the key, whatever crashes came between.             *)
THEOREM SuccessIsDelivered == Spec => []CompletedIsDelivered
<1>1. DeliveryInv => CompletedIsDelivered
  BY DEF DeliveryInv
<1> QED
  BY <1>1, DeliveryHolds, PTL

(***************************************************************************)
(* The store and the world.                                                *)
(***************************************************************************)

(* Without signals the process never runs its shutdown handler. *)
LEMMA NeverStopping ==
  ASSUME ~SignalsArrive
  PROVE  Spec => []~stopping
<1>1. Init => ~stopping
  BY DEF Init
<1>2. TypeOK /\ ~stopping /\ [Next]_vars => ~stopping'
  <2> SUFFICES ASSUME TypeOK, ~stopping, [Next]_vars PROVE ~stopping'
    OBVIOUS
  <2>1. ~HandleShutdown
    BY DEF HandleShutdown
  <2> QED
    BY <2>1, PipelineStep, ProcessStep DEF Next
<1> QED
  BY <1>1, <1>2, TypeCorrect, PTL DEF Spec

(* What the steps that record an answer rely on; and the order in which the *)
(* store learns of identity and server.                                    *)
AnswersOnRecord ==
  /\ pc = "idRec" => mem.tok \in credited
  /\ pc \in {"ready", "vpsRec"} => mem.tok \in hosted
  /\ pc = "xferRec" => gifts[mem.sid] > 0
ServerAfterIdentity ==
  kv.inProgress /\ kv.vpsInfo = kv.spawnId => kv.identity.sid = kv.spawnId
StoreInv == NoStaleKeys /\ AnswersOnRecord /\ ServerAfterIdentity /\ StoreNeverAhead

(* Only the completion of a spawn closes it, and it clears the keys. *)
LEMMA NoStaleKeysStep ==
  ASSUME TypeOK, WorksOnOpenSpawn, ~stopping, ~SignalsArrive, NoStaleKeys, [Next]_vars
  PROVE  NoStaleKeys'
<1>0. kv \in KVType
  BY DEF TypeOK
<1>n. ~HandleShutdown /\ ~SpawnAges
  BY DEF HandleShutdown, SpawnAges
<1>1. CASE CompleteSpawn
  <2>1. \E h : kv' = ClearedKV(h)
    BY <1>1 DEF CompleteSpawn, Save, MarkSpawnCompleted
  <2>2. \A h : ClearedKV(h).history = h
    BY DEF ClearedKV
  <2> QED
    BY <2>1, <2>2 DEF NoStaleKeys, NoSpawnKeys
<1>2. CASE Pipeline /\ ~CompleteSpawn
  <2>1. ~Tick
    BY <1>2, PipelineStep DEF Tick, Answered, InPipeline
  <2>2. kv.inProgress /\ kv'.inProgress = kv.inProgress
    BY <1>2, <1>n, <2>1, PipelineStep, LedgerKeyStep DEF WorksOnOpenSpawn
  <2> QED
    BY <2>2 DEF NoStaleKeys
<1>3. CASE Tick
  BY <1>0, <1>3 DEF Tick, Save, MarkSpawnStarted, KVType, NoStaleKeys
<1>4. CASE (Process \/ Environment \/ UNCHANGED vars) /\ ~Tick
  <2>1. kv' = kv
    BY <1>4, <1>n
    DEF Process, Environment, Recover, Restart, Shutdown, UpdateRestart, Crash,
        OperatorRestart, InvoiceExpires, CreditToken, vars
  <2> QED
    BY <2>1 DEF NoStaleKeys
<1> QED
  BY <1>1, <1>2, <1>3, <1>4 DEF Next

(* An answer waiting to be recorded stays true. *)
LEMMA AnswersStep ==
  ASSUME TypeOK, AnswersOnRecord, [Next]_vars
  PROVE  AnswersOnRecord'
<1>0. /\ gifts \in [SpawnIds -> Nat] /\ mem \in MemType
      /\ (pc \in InPipeline => mem.sid \in SpawnIds)
  BY DEF TypeOK, WorldOK, ControlOK
<1>w. credited \subseteq credited' /\ hosted \subseteq hosted'
  BY WorldChange
  DEF world, BroadcastFunding, LaunchServer, InstallChild, BroadcastGift, CreditToken
<1>g. \A s \in SpawnIds : gifts[s] > 0 => gifts'[s] > 0
  BY <1>0, GiftChange
<1>1. CASE Pipeline
  <2>1. pc' = "idRec" => mem' = mem /\ pc = "credit" /\ mem.tok \in credited
    BY <1>1 DEF Pipeline, LoadIdentity, ChildWallet, LoadToken, GenerateToken,
      RecordToken, StartFunding, ReconcileFunding, AskBalance, CountAttempt,
      CreateInvoice, RecordInvoice, CheckParentBalance, PayInvoice,
      RecordFunding, WaitForCredit, RecordIdentity, LoadVps,
      AdoptOrphanServer, RecordVpsIntent, LaunchChildServer,
      WaitForServerReady, RecordVps, DeployChildCode, BootChildOrchestrator,
      LoadTransfer, ReconcileTransfer, SizeInheritance, RecordTransferIntent,
      SendInheritance, RecordTransfer, CompleteSpawn, External, Query, Answered,
      Raise, local
  <2>2. pc' \in {"ready", "vpsRec"} =>
          /\ mem' = mem
          /\ pc = "ready" \/ mem.tok \in hosted'
    BY <1>1, <1>w DEF Pipeline, LoadIdentity, ChildWallet, LoadToken, GenerateToken,
      RecordToken, StartFunding, ReconcileFunding, AskBalance, CountAttempt,
      CreateInvoice, RecordInvoice, CheckParentBalance, PayInvoice,
      RecordFunding, WaitForCredit, RecordIdentity, LoadVps,
      AdoptOrphanServer, RecordVpsIntent, LaunchChildServer,
      WaitForServerReady, RecordVps, DeployChildCode, BootChildOrchestrator,
      LoadTransfer, ReconcileTransfer, SizeInheritance, RecordTransferIntent,
      SendInheritance, RecordTransfer, CompleteSpawn, External, Query, Answered,
      Raise, local, LaunchServer
  <2>3. pc' = "xferRec" =>
          \/ pc = "xferRecon" /\ gifts[mem.sid] > 0
          \/ pc = "xferSend" /\ BroadcastGift
    BY <1>1 DEF Pipeline, LoadIdentity, ChildWallet, LoadToken, GenerateToken,
      RecordToken, StartFunding, ReconcileFunding, AskBalance, CountAttempt,
      CreateInvoice, RecordInvoice, CheckParentBalance, PayInvoice,
      RecordFunding, WaitForCredit, RecordIdentity, LoadVps,
      AdoptOrphanServer, RecordVpsIntent, LaunchChildServer,
      WaitForServerReady, RecordVps, DeployChildCode, BootChildOrchestrator,
      LoadTransfer, ReconcileTransfer, SizeInheritance, RecordTransferIntent,
      SendInheritance, RecordTransfer, CompleteSpawn, External, Query, Answered,
      Raise, local, PriorSendFound
  <2>4. pc' = "xferRec" => gifts'[mem'.sid] > 0
    <3>1. mem'.sid = mem.sid /\ mem.sid \in SpawnIds
      BY <1>0, <1>1, PipelineStep
    <3>2. CASE pc = "xferSend" /\ BroadcastGift
      BY <1>0, <3>1, <3>2 DEF BroadcastGift
    <3> QED
      BY <1>g, <2>3, <3>1, <3>2
  <2> QED
    BY <1>w, <2>1, <2>2, <2>4 DEF AnswersOnRecord
<1>2. CASE Process \/ Environment \/ UNCHANGED vars
  <2>1. CASE UNCHANGED <<pc, mem>>
    BY <1>0, <1>w, <1>g, <2>1 DEF AnswersOnRecord, InPipeline, Awaits, Syncs
  <2>2. CASE pc' \in {"start", "boot", "idle", "down"}
    BY <2>2 DEF AnswersOnRecord
  <2> QED
    BY <1>2, <2>1, <2>2, ProcessStep
<1> QED
  BY <1>1, <1>2 DEF Next

(* A key is written after what it says has happened. *)
LEMMA NeverAheadStep ==
  ASSUME TypeOK, TokenInv, WorksOnOpenSpawn, IdentityOnDisk, PointsBacked, ~stopping,
         ~SignalsArrive, StoreInv, [Next]_vars
  PROVE  ServerAfterIdentity' /\ StoreNeverAhead'
<1>0. /\ kv \in KVType /\ mem \in MemType /\ lastSpawn \in Nat
      /\ paid \in [SpawnIds -> Nat] /\ gifts \in [SpawnIds -> Nat]
      /\ paid' \in [SpawnIds -> Nat]
      /\ \A s \in SpawnIds : paid'[s] >= paid[s]
  BY WorldStep, TokensWorldStep DEF TypeOK, WorldOK, ControlOK
<1>w. credited \subseteq credited' /\ hosted \subseteq hosted'
  BY WorldChange
  DEF world, BroadcastFunding, LaunchServer, InstallChild, BroadcastGift, CreditToken
<1>g. \A s \in SpawnIds : gifts[s] > 0 => gifts'[s] > 0
  BY <1>0, GiftChange
<1>i. NoStaleKeys /\ AnswersOnRecord /\ ServerAfterIdentity /\ StoreNeverAhead
  BY DEF StoreInv
<1>n. ~HandleShutdown
  BY DEF HandleShutdown
<1>o. pc \in InPipeline => kv.inProgress /\ kv.spawnId = mem.sid /\ mem.sid \in SpawnIds
  BY DEF WorksOnOpenSpawn
<1>1. CASE CompleteSpawn
  BY <1>1, ClearedKeys DEF CompleteSpawn, Save, ServerAfterIdentity, StoreNeverAhead
<1>2. CASE Tick
  <2>1. kv = ClearedKV(kv.history)
    BY <1>2, <1>i DEF Tick, NoStaleKeys, NoSpawnKeys
  <2>2. /\ kv.identity.sid = NoSpawn /\ kv.vpsInfo = NoSpawn
        /\ kv.fundTxid = FALSE /\ kv.xferTxid = FALSE
    BY <2>1 DEF ClearedKV
  <2>3. /\ kv'.spawnId = lastSpawn + 1 /\ kv'.identity = kv.identity
        /\ kv'.vpsInfo = kv.vpsInfo /\ kv'.fundTxid = kv.fundTxid
        /\ kv'.xferTxid = kv.xferTxid
    BY <1>0, <1>2 DEF Tick, Save, MarkSpawnStarted, KVType
  <2>4. kv'.spawnId # NoSpawn
    BY <1>0, <2>3 DEF NoSpawn
  <2> QED
    BY <2>2, <2>3, <2>4 DEF ServerAfterIdentity, StoreNeverAhead
<1>3. CASE ~CompleteSpawn /\ ~Tick
  <2>1. kv'.inProgress = kv.inProgress /\ kv'.spawnId = kv.spawnId
    BY <1>3, <1>n, LedgerKeyStep
  <2>2. /\ kv'.fundTxid = kv.fundTxid \/ RecordFunding
        /\ kv'.identity = kv.identity \/ RecordIdentity
        /\ kv'.vpsInfo = kv.vpsInfo \/ RecordVps
        /\ kv'.xferTxid = kv.xferTxid \/ RecordTransfer
    BY <1>3, <1>n, KeyWrites
  <2>o. kv.inProgress => kv.spawnId \in SpawnIds
    BY DEF WorksOnOpenSpawn
  <2>3. CASE RecordIdentity
    <3>1. /\ pc = "idRec" /\ kv'.fundTxid = kv.fundTxid /\ kv'.vpsInfo = kv.vpsInfo
          /\ kv'.xferTxid = kv.xferTxid
          /\ kv'.identity = [sid |-> mem.sid, tok |-> mem.tok, addr |-> mem.addr]
      BY <1>0, <2>3 DEF RecordIdentity, Save, Runs, KVType
    <3>2. pc \in InPipeline /\ pc \in Early
      BY <3>1 DEF InPipeline, Early, Late, Awaits, Syncs
    <3>3. kv.identity.sid # mem.sid
      BY <3>2 DEF IdentityOnDisk
    <3>4. kv.vpsInfo # kv.spawnId
      BY <1>i, <1>o, <3>2, <3>3 DEF ServerAfterIdentity
    <3>5. mem.tok \in credited
      BY <1>i, <3>1 DEF AnswersOnRecord
    <3> QED
      BY <1>0, <1>w, <1>g, <1>i, <1>o, <2>1, <2>o, <3>1, <3>2, <3>4, <3>5
      DEF ServerAfterIdentity, StoreNeverAhead
  <2>4. CASE RecordVps
    <3>1. /\ pc = "vpsRec" /\ kv'.fundTxid = kv.fundTxid /\ kv'.vpsInfo = mem.sid
          /\ kv'.xferTxid = kv.xferTxid /\ kv'.identity = kv.identity
      BY <1>0, <2>4 DEF RecordVps, Save, Runs, KVType
    <3>2. pc \in InPipeline /\ pc \in Late
      BY <3>1 DEF InPipeline, Late, Awaits, Syncs
    <3>3. kv.identity.sid = mem.sid /\ kv.identity.tok = mem.tok /\ mem.tok \in hosted
      BY <1>i, <3>1, <3>2 DEF IdentityOnDisk, AnswersOnRecord
    <3> QED
      BY <1>0, <1>w, <1>g, <1>i, <1>o, <2>1, <2>o, <3>1, <3>2, <3>3
      DEF ServerAfterIdentity, StoreNeverAhead
  <2>5. CASE RecordFunding
    <3>1. /\ pc = "fundRec" /\ kv'.vpsInfo = kv.vpsInfo
          /\ kv'.xferTxid = kv.xferTxid /\ kv'.identity = kv.identity
      BY <1>0, <2>5 DEF RecordFunding, Save, Runs, KVType
    <3>2. pc \in InPipeline /\ pc \in PaidFor
      BY <3>1 DEF InPipeline, PaidFor, Awaits, Syncs
    <3>3. paid[mem.sid] > 0
      BY <3>2 DEF PointsBacked
    <3> QED
      BY <1>0, <1>w, <1>g, <1>i, <1>o, <2>1, <2>o, <3>1, <3>2, <3>3
      DEF ServerAfterIdentity, StoreNeverAhead
  <2>6. CASE RecordTransfer
    <3>1. /\ pc = "xferRec" /\ kv'.vpsInfo = kv.vpsInfo
          /\ kv'.fundTxid = kv.fundTxid /\ kv'.identity = kv.identity
      BY <1>0, <2>6 DEF RecordTransfer, Save, Runs, KVType
    <3>2. pc \in InPipeline
      BY <3>1 DEF InPipeline, Awaits, Syncs
    <3>3. gifts[mem.sid] > 0
      BY <1>i, <3>1 DEF AnswersOnRecord
    <3> QED
      BY <1>0, <1>w, <1>g, <1>i, <1>o, <2>1, <2>o, <3>1, <3>2, <3>3
      DEF ServerAfterIdentity, StoreNeverAhead
  <2>7. CASE /\ kv'.fundTxid = kv.fundTxid /\ kv'.identity = kv.identity
             /\ kv'.vpsInfo = kv.vpsInfo /\ kv'.xferTxid = kv.xferTxid
    BY <1>0, <1>w, <1>g, <1>i, <2>1, <2>o, <2>7 DEF ServerAfterIdentity, StoreNeverAhead
  <2> QED
    BY <2>2, <2>3, <2>4, <2>5, <2>6, <2>7
<1> QED
  BY <1>1, <1>2, <1>3

(* The store starts empty. *)
LEMMA StoreInit == Init => StoreInv
<1> SUFFICES ASSUME Init PROVE StoreInv
  OBVIOUS
<1>1. kv = ClearedKV({}) /\ pc = "boot" /\ kv.history = {} /\ ~kv.inProgress
  BY DEF Init, InitKV, ClearedKV
<1> QED
  BY <1>1 DEF StoreInv, NoStaleKeys, NoSpawnKeys, AnswersOnRecord,
              ServerAfterIdentity, StoreNeverAhead

(* The store is behind the world throughout. *)
LEMMA StoreHolds ==
  ASSUME ~SignalsArrive
  PROVE  Spec => []StoreInv
<1>1. TypeOK /\ InheritanceInv /\ IdentityInv /\ TokenInv /\ DeliveryInv /\ ~stopping
        /\ StoreInv /\ [Next]_vars => StoreInv'
  <2> SUFFICES ASSUME TypeOK, InheritanceInv, IdentityInv, TokenInv, DeliveryInv,
                      ~stopping, StoreInv, [Next]_vars
               PROVE  StoreInv'
    OBVIOUS
  <2>1. WorksOnOpenSpawn /\ IdentityOnDisk /\ PointsBacked /\ NoStaleKeys /\ AnswersOnRecord
    BY DEF InheritanceInv, IdentityInv, DeliveryInv, StoreInv
  <2>2. NoStaleKeys'
    BY <2>1, NoStaleKeysStep
  <2>3. AnswersOnRecord'
    BY <2>1, AnswersStep
  <2>4. ServerAfterIdentity' /\ StoreNeverAhead'
    BY <2>1, NeverAheadStep
  <2> QED
    BY <2>2, <2>3, <2>4 DEF StoreInv
<1> QED
  BY <1>1, StoreInit, HistoryHolds, IdentityHolds, TokenHolds, DeliveryHolds,
     NeverStopping, PTL DEF Spec

(* Between spawns no key of a spawn is left in the store, for any number of *)
(* crashes, as long as no signal interrupts a spawn (a signal does leave   *)
(* keys: run spawn_stale).                                                 *)
THEOREM NothingLeftBehind ==
  ASSUME ~SignalsArrive
  PROVE  Spec => []NoStaleKeys
<1>1. StoreInv => NoStaleKeys
  BY DEF StoreInv
<1> QED
  BY <1>1, StoreHolds, PTL

(* The store never claims a payment, a server or an inheritance that has   *)
(* not happened, as long as no signal interrupts a spawn.                  *)
THEOREM StoreBehindWorld ==
  ASSUME ~SignalsArrive
  PROVE  Spec => []StoreNeverAhead
<1>1. StoreInv => StoreNeverAhead
  BY DEF StoreInv
<1> QED
  BY <1>1, StoreHolds, PTL

(***************************************************************************)
(* One server.                                                             *)
(***************************************************************************)

(* A spawn that is about to order a server has none, and one that has a    *)
(* server would find it through the recorded intent.                       *)
ServerStillDue ==
  /\ \A s \in SpawnIds : s > lastSpawn => launches[s] = 0
  /\ pc \in {"vpsIntent", "launch"} => launches[mem.sid] = 0
ServerAdoptable ==
  kv.inProgress /\ launches[kv.spawnId] > 0 =>
    /\ kv.identity.sid = kv.spawnId /\ kv.identity.tok \in hosted
    /\ kv.vpsIntent.sid = kv.spawnId /\ kv.vpsIntent.tok = kv.identity.tok
ServerInv == ServerStillDue /\ ServerAdoptable /\ ServerOnce

(* Spawn numbers are given in order. *)
LEMMA LastSpawnStep ==
  ASSUME TypeOK, [Next]_vars
  PROVE  lastSpawn \in Nat /\ lastSpawn' \in Nat /\ lastSpawn' >= lastSpawn
<1>1. lastSpawn \in Nat
  BY DEF TypeOK, ControlOK
<1>2. lastSpawn' = lastSpawn \/ lastSpawn' = lastSpawn + 1
  BY PipelineStep, ProcessStep DEF Next
<1> QED
  BY <1>1, <1>2

(* Servers are launched at one point of the pipeline. *)
LEMMA LaunchChange ==
  ASSUME TypeOK, [Next]_vars
  PROVE  \/ launches' = launches
         \/ pc = "launch" /\ LaunchServer /\ pc' \in {"ready", "idle", "down"}
<1>1. launches' = launches \/ (pc = "launch" /\ LaunchServer)
  BY WorldChange DEF world, BroadcastFunding, InstallChild, BroadcastGift, CreditToken
<1>2. ASSUME pc = "launch", LaunchServer PROVE launches' # launches
  <2>1. mem.sid \in SpawnIds /\ launches \in [SpawnIds -> Nat]
    BY <1>2 DEF TypeOK, ControlOK, WorldOK, InPipeline, Awaits
  <2>2. launches'[mem.sid] = launches[mem.sid] + 1
    BY <1>2, <2>1 DEF LaunchServer
  <2> QED
    BY <2>1, <2>2
<1>3. ASSUME pc = "launch", LaunchServer PROVE pc' \in {"ready", "idle", "down"}
  <2>0. ~UNCHANGED world
    BY <1>2, <1>3 DEF world
  <2>1. CASE Pipeline
    BY <1>3, <2>0, <2>1 DEF Pipeline, LoadIdentity, ChildWallet, LoadToken, GenerateToken,
      RecordToken, StartFunding, ReconcileFunding, AskBalance, CountAttempt,
      CreateInvoice, RecordInvoice, CheckParentBalance, PayInvoice,
      RecordFunding, WaitForCredit, RecordIdentity, LoadVps,
      AdoptOrphanServer, RecordVpsIntent, LaunchChildServer,
      WaitForServerReady, RecordVps, DeployChildCode, BootChildOrchestrator,
      LoadTransfer, ReconcileTransfer, SizeInheritance, RecordTransferIntent,
      SendInheritance, RecordTransfer, CompleteSpawn, External, Query, Answered,
      Raise, Runs
  <2>2. CASE Process \/ Environment \/ UNCHANGED vars
    BY <1>3, <2>0, <2>2 DEF Process, Environment, Recover, Tick, Restart, HandleShutdown,
      Shutdown, UpdateRestart, Crash, OperatorRestart, SpawnAges, InvoiceExpires,
      CreditToken, Internal, vars, LaunchServer, world
  <2> QED
    BY <2>1, <2>2 DEF Next
<1> QED
  BY <1>1, <1>3

(* Every step keeps a server due where one is ordered next. *)
LEMMA ServerDueStep ==
  ASSUME TypeOK, WorksOnOpenSpawn, IdentityOnDisk, ~stopping, ServerStillDue,
         ServerAdoptable, [Next]_vars
  PROVE  ServerStillDue'
<1>0. /\ launches \in [SpawnIds -> Nat] /\ mem \in MemType
      /\ (pc \in InPipeline => mem.sid \in SpawnIds /\ mem.sid <= lastSpawn)
  BY DEF TypeOK, WorldOK, ControlOK, WorksOnOpenSpawn
<1>1. CASE pc = "launch" /\ LaunchServer /\ pc' \in {"ready", "idle", "down"}
  <2>1. pc \in InPipeline
    BY <1>1 DEF InPipeline, Awaits
  <2>2. ASSUME NEW s \in SpawnIds, s > lastSpawn' PROVE launches'[s] = 0
    BY <1>0, <1>1, <2>1, <2>2, LastSpawnStep DEF LaunchServer, ServerStillDue, SpawnIds
  <2> QED
    BY <1>1, <2>2 DEF ServerStillDue
<1>2. CASE launches' = launches
  <2>1. \A s \in SpawnIds : s > lastSpawn' => launches'[s] = 0
    BY <1>2, LastSpawnStep DEF ServerStillDue, SpawnIds
  <2>2. CASE Pipeline
    <3>1. pc' \in {"vpsIntent", "launch"} =>
            /\ mem' = mem
            /\ \/ pc = "vpsIntent"
               \/ pc = "vps" /\ ~MatchingVpsIntent
               \/ pc = "adopt" /\ mem.tok \notin hosted
      BY <2>2 DEF Pipeline, LoadIdentity, ChildWallet, LoadToken, GenerateToken,
      RecordToken, StartFunding, ReconcileFunding, AskBalance, CountAttempt,
      CreateInvoice, RecordInvoice, CheckParentBalance, PayInvoice,
      RecordFunding, WaitForCredit, RecordIdentity, LoadVps,
      AdoptOrphanServer, RecordVpsIntent, LaunchChildServer,
      WaitForServerReady, RecordVps, DeployChildCode, BootChildOrchestrator,
      LoadTransfer, ReconcileTransfer, SizeInheritance, RecordTransferIntent,
      SendInheritance, RecordTransfer, CompleteSpawn, External, Query, Answered,
      Raise, local, Runs
    <3>2. ASSUME \/ pc = "vps" /\ ~MatchingVpsIntent
                 \/ pc = "adopt" /\ mem.tok \notin hosted
          PROVE  launches[mem.sid] = 0
      <4>1. pc \in Late /\ pc \in InPipeline
        BY <3>2 DEF Late, InPipeline, Awaits, Syncs
      <4>2. kv.inProgress /\ kv.spawnId = mem.sid /\ mem.sid \in SpawnIds
        BY <1>0, <4>1 DEF WorksOnOpenSpawn
      <4>3. kv.identity.tok = mem.tok
        BY <4>1 DEF IdentityOnDisk
      <4>4. ~(launches[mem.sid] > 0)
        BY <3>2, <4>2, <4>3 DEF ServerAdoptable, MatchingVpsIntent
      <4> QED
        BY <1>0, <4>2, <4>4
    <3> QED
      BY <1>2, <2>1, <3>1, <3>2 DEF ServerStillDue
  <2>3. CASE Process \/ Environment \/ UNCHANGED vars
    <3>1. UNCHANGED <<pc, mem>> \/ pc' \in {"start", "boot", "idle", "down"}
      BY <2>3, ProcessStep
    <3> QED
      BY <1>2, <2>1, <3>1 DEF ServerStillDue
  <2> QED
    BY <2>2, <2>3 DEF Next
<1> QED
  BY <1>1, <1>2, LaunchChange

(* A launched server stays adoptable until the spawn ends. *)
LEMMA AdoptableStep ==
  ASSUME TypeOK, WorksOnOpenSpawn, IntentsOnDisk, IdentityOnDisk, ~stopping,
         ~SignalsArrive, ServerStillDue, ServerAdoptable, [Next]_vars
  PROVE  ServerAdoptable'
<1>0. /\ kv \in KVType /\ launches \in [SpawnIds -> Nat] /\ lastSpawn \in Nat
  BY DEF TypeOK, WorldOK, ControlOK
<1>w. hosted \subseteq hosted'
  BY WorldChange
  DEF world, BroadcastFunding, LaunchServer, InstallChild, BroadcastGift, CreditToken
<1>n. ~HandleShutdown
  BY DEF HandleShutdown
<1>1. CASE CompleteSpawn
  BY <1>1, ClearedKeys DEF CompleteSpawn, Save, ServerAdoptable
<1>2. CASE Tick
  <2>1. lastSpawn + 1 \in SpawnIds /\ lastSpawn + 1 > lastSpawn
    BY <1>0, <1>2 DEF Tick, SpawnIds
  <2>2. kv'.spawnId = lastSpawn + 1 /\ launches' = launches
    BY <1>0, <1>2, <2>1, StartedKeys DEF Tick, Save, world
  <2> QED
    BY <2>1, <2>2 DEF ServerAdoptable, ServerStillDue
<1>3. CASE ~CompleteSpawn /\ ~Tick
  <2>1. kv'.inProgress = kv.inProgress /\ kv'.spawnId = kv.spawnId
    BY <1>3, <1>n, LedgerKeyStep
  <2>2. /\ kv'.identity = kv.identity \/ RecordIdentity
        /\ kv'.vpsIntent = kv.vpsIntent \/ RecordVpsIntent
    BY <1>3, <1>n, KeyWrites
  <2>3. CASE pc = "launch" /\ LaunchServer
    <3>1. pc \in Late /\ pc \in InPipeline
      BY <2>3 DEF Late, InPipeline, Awaits
    <3>2. kv.spawnId = mem.sid /\ kv.identity.sid = mem.sid /\ kv.identity.tok = mem.tok
      BY <3>1 DEF WorksOnOpenSpawn, IdentityOnDisk
    <3>3. kv.vpsIntent.sid = mem.sid /\ kv.vpsIntent.tok = mem.tok
      BY <2>3 DEF IntentsOnDisk
    <3>4. kv'.identity = kv.identity /\ kv'.vpsIntent = kv.vpsIntent
      BY <2>2, <2>3 DEF RecordIdentity, RecordVpsIntent, Runs
    <3>5. mem.tok \in hosted'
      BY <2>3 DEF LaunchServer
    <3> QED
      BY <2>1, <3>2, <3>3, <3>4, <3>5 DEF ServerAdoptable
  <2>4. CASE launches' = launches
    <3>1. CASE RecordIdentity
      <4>1. pc \in Early /\ pc \in InPipeline
        BY <3>1 DEF RecordIdentity, Runs, Early, Late, InPipeline, Awaits, Syncs
      <4>2. kv.identity.sid # kv.spawnId
        BY <4>1 DEF WorksOnOpenSpawn, IdentityOnDisk
      <4> QED
        BY <2>1, <2>4, <4>2 DEF ServerAdoptable
    <3>2. CASE RecordVpsIntent
      <4>1. pc = "vpsIntent" /\ pc \in InPipeline
        BY <3>2 DEF RecordVpsIntent, Runs, InPipeline, Awaits, Syncs
      <4>2. kv.spawnId = mem.sid /\ launches[mem.sid] = 0
        BY <4>1 DEF WorksOnOpenSpawn, ServerStillDue
      <4> QED
        BY <2>1, <2>4, <4>2 DEF ServerAdoptable
    <3> QED
      BY <1>w, <2>1, <2>2, <2>4, <3>1, <3>2 DEF ServerAdoptable
  <2> QED
    BY <2>3, <2>4, LaunchChange
<1> QED
  BY <1>1, <1>2, <1>3

(* A launch is the first one of its spawn. *)
LEMMA ServerOnceStep ==
  ASSUME TypeOK, ServerStillDue, ServerOnce, [Next]_vars
  PROVE  ServerOnce'
<1>1. CASE launches' = launches
  BY <1>1 DEF ServerOnce
<1>2. CASE pc = "launch" /\ LaunchServer
  <2>1. mem.sid \in SpawnIds /\ launches \in [SpawnIds -> Nat] /\ launches[mem.sid] = 0
    BY <1>2 DEF TypeOK, ControlOK, WorldOK, InPipeline, Awaits, ServerStillDue
  <2> QED
    BY <1>2, <2>1 DEF LaunchServer, ServerOnce
<1> QED
  BY <1>1, <1>2, LaunchChange

(* There are no servers at first. *)
LEMMA ServerInit == Init => ServerInv
BY DEF Init, InitKV, ClearedKV, ServerInv, ServerStillDue, ServerAdoptable, ServerOnce

(* The intents are on disk throughout. *)
LEMMA IntentsHold == Spec => []IntentsOnDisk
BY IntentsInit, IntentsStep, TypeCorrect, PTL DEF Spec

(* A spawn launches at most one server, for any number of crashes between  *)
(* the launch and its record, as long as no signal interrupts a spawn: the *)
(* restart adopts the server it finds under the intent's token.            *)
THEOREM OneServerPerSpawn ==
  ASSUME ~SignalsArrive
  PROVE  Spec => []ServerOnce
<1>1. TypeOK /\ InheritanceInv /\ IntentsOnDisk /\ IdentityInv /\ ~stopping
        /\ ServerInv /\ [Next]_vars => ServerInv'
  BY ServerDueStep, AdoptableStep, ServerOnceStep
  DEF InheritanceInv, IdentityInv, ServerInv
<1>2. Spec => []ServerInv
  BY <1>1, ServerInit, HistoryHolds, IntentsHold, IdentityHolds, NeverStopping, PTL
  DEF Spec
<1>3. ServerInv => ServerOnce
  BY DEF ServerInv
<1> QED
  BY <1>2, <1>3, PTL

(***************************************************************************)
(* One payment.                                                            *)
(***************************************************************************)

(* Points before the payment, and before the token is on disk. *)
Unpaid == {"askBalance", "mint", "invoice", "invoiceRec", "fundCheck", "fundSend"}
Tokenless == {"wallet", "token", "tokenMint", "tokenRec"}

(* A spawn that is about to pay has not paid, even if its keys were just   *)
(* cleared by a signal; its token is on disk; and a payment that was made  *)
(* would be found through the recorded invoice.                            *)
PaymentStillDue ==
  /\ \A s \in SpawnIds : s > lastSpawn => paid[s] = 0
  /\ pc \in Unpaid /\ (~stopping \/ pc = "fundSend") => paid[mem.sid] = 0
TokenOnDisk ==
  ~stopping =>
    /\ pc \in {"tokenMint", "tokenRec"} => kv.token.sid # mem.sid
    /\ pc \in Early \ Tokenless => kv.token.sid = mem.sid /\ kv.token.tok = mem.tok
PaymentReconcilable ==
  kv.inProgress /\ paid[kv.spawnId] > 0 =>
    /\ kv.fundIntent.sid = kv.spawnId /\ kv.token.sid = kv.spawnId
    /\ kv.fundIntent.tok = kv.token.tok
    /\ <<kv.fundIntent.inv, kv.fundIntent.tok>> \in paidInv
FundingInv == PaymentStillDue /\ TokenOnDisk /\ PaymentReconcilable /\ FundingOnce

(* The hosting is paid at one point of the pipeline. *)
LEMMA PaymentChange ==
  ASSUME TypeOK, [Next]_vars
  PROVE  \/ paid' = paid /\ paidInv' = paidInv
         \/ pc = "fundSend" /\ BroadcastFunding /\ pc' \in {"fundRec", "idle", "down"}
<1>1. (paid' = paid /\ paidInv' = paidInv) \/ (pc = "fundSend" /\ BroadcastFunding)
  BY WorldChange DEF world, LaunchServer, InstallChild, BroadcastGift, CreditToken
<1>2. ASSUME pc = "fundSend", BroadcastFunding PROVE paid' # paid
  <2>1. mem.sid \in SpawnIds /\ paid \in [SpawnIds -> Nat]
    BY <1>2 DEF TypeOK, ControlOK, WorldOK, InPipeline, Awaits
  <2>2. paid'[mem.sid] = paid[mem.sid] + 1
    BY <1>2, <2>1 DEF BroadcastFunding
  <2> QED
    BY <2>1, <2>2
<1>3. ASSUME pc = "fundSend", BroadcastFunding PROVE pc' \in {"fundRec", "idle", "down"}
  <2>0. ~UNCHANGED world
    BY <1>2, <1>3 DEF world
  <2>1. CASE Pipeline
    BY <1>3, <2>0, <2>1 DEF Pipeline, LoadIdentity, ChildWallet, LoadToken, GenerateToken,
      RecordToken, StartFunding, ReconcileFunding, AskBalance, CountAttempt,
      CreateInvoice, RecordInvoice, CheckParentBalance, PayInvoice,
      RecordFunding, WaitForCredit, RecordIdentity, LoadVps,
      AdoptOrphanServer, RecordVpsIntent, LaunchChildServer,
      WaitForServerReady, RecordVps, DeployChildCode, BootChildOrchestrator,
      LoadTransfer, ReconcileTransfer, SizeInheritance, RecordTransferIntent,
      SendInheritance, RecordTransfer, CompleteSpawn, External, Query, Answered,
      Raise, Runs
  <2>2. CASE Process \/ Environment \/ UNCHANGED vars
    BY <1>3, <2>0, <2>2 DEF Process, Environment, Recover, Tick, Restart, HandleShutdown,
      Shutdown, UpdateRestart, Crash, OperatorRestart, SpawnAges, InvoiceExpires,
      CreditToken, Internal, vars, BroadcastFunding, world
  <2> QED
    BY <2>1, <2>2 DEF Next
<1> QED
  BY <1>1, <1>3

(* Every step keeps a payment due where one is made next. *)
LEMMA PaymentDueStep ==
  ASSUME TypeOK, WorksOnOpenSpawn, IntentsOnDisk, ~IndexerLag,
         PaymentStillDue, TokenOnDisk, PaymentReconcilable, [Next]_vars
  PROVE  PaymentStillDue'
<1>0. /\ paid \in [SpawnIds -> Nat] /\ mem \in MemType
      /\ (pc \in InPipeline => mem.sid \in SpawnIds /\ mem.sid <= lastSpawn)
  BY DEF TypeOK, WorldOK, ControlOK, WorksOnOpenSpawn
<1>1. CASE pc = "fundSend" /\ BroadcastFunding /\ pc' \in {"fundRec", "idle", "down"}
  <2>1. pc \in InPipeline
    BY <1>1 DEF InPipeline, Awaits
  <2>2. ASSUME NEW s \in SpawnIds, s > lastSpawn' PROVE paid'[s] = 0
    BY <1>0, <1>1, <2>1, <2>2, LastSpawnStep DEF BroadcastFunding, PaymentStillDue, SpawnIds
  <2> QED
    BY <1>1, <2>2 DEF PaymentStillDue, Unpaid
<1>2. CASE paid' = paid
  <2>1. \A s \in SpawnIds : s > lastSpawn' => paid'[s] = 0
    BY <1>2, LastSpawnStep DEF PaymentStillDue, SpawnIds
  <2>2. CASE Pipeline
    <3>1. pc' \in Unpaid =>
            /\ pc' = "fundSend" => ~stopping
            /\ \/ pc \in Unpaid
               \/ pc = "fund" /\ ~MatchingFundIntent
               \/ pc = "reconcile" /\ <<mem.inv, mem.tok>> \notin paidInv
      BY <2>2 DEF Unpaid, Pipeline, LoadIdentity, ChildWallet, LoadToken, GenerateToken,
      RecordToken, StartFunding, ReconcileFunding, AskBalance, CountAttempt,
      CreateInvoice, RecordInvoice, CheckParentBalance, PayInvoice,
      RecordFunding, WaitForCredit, RecordIdentity, LoadVps,
      AdoptOrphanServer, RecordVpsIntent, LaunchChildServer,
      WaitForServerReady, RecordVps, DeployChildCode, BootChildOrchestrator,
      LoadTransfer, ReconcileTransfer, SizeInheritance, RecordTransferIntent,
      SendInheritance, RecordTransfer, CompleteSpawn, External, Query, Answered,
      Raise, Runs, PriorSendMissed
    <3>2. ASSUME ~stopping,
                 \/ pc = "fund" /\ ~MatchingFundIntent
                 \/ pc = "reconcile" /\ <<mem.inv, mem.tok>> \notin paidInv
          PROVE  paid[mem.sid] = 0
      <4>1. pc \in Early \ Tokenless /\ pc \in InPipeline
        BY <3>2 DEF Early, Late, Tokenless, InPipeline, Awaits, Syncs
      <4>2. kv.inProgress /\ kv.spawnId = mem.sid /\ mem.sid \in SpawnIds
        BY <1>0, <3>2, <4>1 DEF WorksOnOpenSpawn
      <4>3. kv.token.sid = mem.sid /\ kv.token.tok = mem.tok
        BY <3>2, <4>1 DEF TokenOnDisk
      <4>4. pc = "reconcile" => kv.fundIntent.inv = mem.inv /\ kv.fundIntent.tok = mem.tok
        BY <3>2 DEF IntentsOnDisk
      <4>5. ~(paid[mem.sid] > 0)
        BY <3>2, <4>2, <4>3, <4>4 DEF PaymentReconcilable, MatchingFundIntent
      <4> QED
        BY <1>0, <4>2, <4>5
    <3>3. mem'.sid = mem.sid /\ stopping' = stopping
      BY <2>2, PipelineStep
    <3> QED
      BY <1>2, <2>1, <3>1, <3>2, <3>3 DEF PaymentStillDue
  <2>3. CASE Process \/ Environment \/ UNCHANGED vars
    <3>1. \/ UNCHANGED <<pc, mem>> /\ (~stopping' => ~stopping)
          \/ pc' \in {"start", "boot", "idle", "down"}
      BY <2>3, ProcessStep
    <3> QED
      BY <1>2, <2>1, <3>1 DEF PaymentStillDue, Unpaid
  <2> QED
    BY <2>2, <2>3 DEF Next
<1> QED
  BY <1>1, <1>2, PaymentChange

(* The token is on disk before anything is paid to it. *)
LEMMA TokenOnDiskStep ==
  ASSUME TypeOK, TokenOnDisk, [Next]_vars
  PROVE  TokenOnDisk'
<1> SUFFICES ASSUME ~stopping' PROVE TokenOnDisk'
  BY DEF TokenOnDisk
<1> USE DEF Early, Late, Tokenless, InPipeline, Awaits, Syncs
<1>0. kv \in KVType /\ mem \in MemType
  BY DEF TypeOK
<1>n. ~HandleShutdown
  BY DEF HandleShutdown
<1>s. Pipeline => ~stopping
  BY PipelineStep
<1>1. CASE LoadToken
  BY <1>0, <1>1, <1>s DEF Pipeline, LoadToken, Runs, TokenOnDisk, KVType, MemType
<1>2. CASE RecordToken
  BY <1>0, <1>2, <1>s DEF Pipeline, RecordToken, SaveToken, Save, local, TokenOnDisk, KVType
<1>3. CASE CompleteSpawn
  BY <1>3 DEF CompleteSpawn, TokenOnDisk
<1>4. CASE Pipeline /\ ~LoadToken /\ ~RecordToken /\ ~CompleteSpawn
  <2>1. kv'.token = kv.token /\ mem'.sid = mem.sid
    BY <1>4, <1>n, KeyWrites, PipelineStep
  <2>2. pc' \in Early \ Tokenless => pc \in Early \ Tokenless /\ mem'.tok = mem.tok
    <3>1. CASE LoadIdentity \/ ChildWallet \/ GenerateToken \/ StartFunding \/ CreateInvoice
      BY <1>0, <3>1
      DEF LoadIdentity, ChildWallet, GenerateToken, StartFunding, CreateInvoice,
          Runs, Answered, Raise, local, MemType
    <3>2. CASE ~(LoadIdentity \/ ChildWallet \/ GenerateToken \/ StartFunding \/ CreateInvoice)
      BY <1>4, <3>2
      DEF Pipeline, ReconcileFunding, AskBalance, CountAttempt,
      RecordInvoice, CheckParentBalance, PayInvoice,
      RecordFunding, WaitForCredit, RecordIdentity, LoadVps,
      AdoptOrphanServer, RecordVpsIntent, LaunchChildServer,
      WaitForServerReady, RecordVps, DeployChildCode, BootChildOrchestrator,
      LoadTransfer, ReconcileTransfer, SizeInheritance, RecordTransferIntent,
      SendInheritance, RecordTransfer, External, Query, Answered,
      Raise, Runs, local
    <3> QED
      BY <3>1, <3>2
  <2>3. pc' \in {"tokenMint", "tokenRec"} => pc = "tokenMint"
    BY <1>4
    DEF Pipeline, LoadIdentity, ChildWallet, GenerateToken, StartFunding,
      CreateInvoice, ReconcileFunding, AskBalance, CountAttempt,
      RecordInvoice, CheckParentBalance, PayInvoice,
      RecordFunding, WaitForCredit, RecordIdentity, LoadVps,
      AdoptOrphanServer, RecordVpsIntent, LaunchChildServer,
      WaitForServerReady, RecordVps, DeployChildCode, BootChildOrchestrator,
      LoadTransfer, ReconcileTransfer, SizeInheritance, RecordTransferIntent,
      SendInheritance, RecordTransfer, External, Query, Answered,
      Raise, Runs, local
  <2> HIDE DEF Early, Late, Tokenless, InPipeline, Awaits, Syncs
  <2> QED
    BY <1>4, <1>s, <2>1, <2>2, <2>3 DEF TokenOnDisk
<1>5. CASE Process \/ Environment \/ UNCHANGED vars
  <2>1. CASE pc' \in {"start", "boot", "idle", "down"}
    BY <2>1 DEF TokenOnDisk
  <2>2. CASE UNCHANGED <<pc, mem>> /\ ~stopping /\ ~(pc' \in {"start", "boot", "idle", "down"})
    <3>1. ~CompleteSpawn \/ pc' = "idle"
      BY DEF CompleteSpawn
    <3>2. kv'.token = kv.token \/ RecordToken
      BY <1>n, <2>2, <3>1, KeyWrites
    <3>3. ~RecordToken
      BY <2>2 DEF RecordToken, Runs
    <3> HIDE DEF Early, Late, Tokenless, InPipeline, Awaits, Syncs
    <3> QED
      BY <2>2, <3>2, <3>3 DEF TokenOnDisk
  <2> QED
    BY <1>5, <2>1, <2>2, ProcessStep
<1> QED
  BY <1>1, <1>2, <1>3, <1>4, <1>5 DEF Next

(* A payment stays reconcilable until the spawn ends. *)
LEMMA ReconcilableStep ==
  ASSUME TypeOK, WorksOnOpenSpawn, IntentsOnDisk, PaymentStillDue, TokenOnDisk, PaymentReconcilable, [Next]_vars
  PROVE  PaymentReconcilable'
<1>0. /\ kv \in KVType /\ paid \in [SpawnIds -> Nat] /\ lastSpawn \in Nat
  BY DEF TypeOK, WorldOK, ControlOK
<1>1. CASE CompleteSpawn
  BY <1>1, ClearedKeys DEF CompleteSpawn, Save, PaymentReconcilable
<1>4. CASE HandleShutdown
  BY <1>4, ClearedKeys DEF HandleShutdown, Save, PaymentReconcilable
<1>2. CASE Tick
  <2>1. lastSpawn + 1 \in SpawnIds /\ lastSpawn + 1 > lastSpawn
    BY <1>0, <1>2 DEF Tick, SpawnIds
  <2>2. kv'.spawnId = lastSpawn + 1 /\ paid' = paid
    BY <1>0, <1>2, <2>1, StartedKeys DEF Tick, Save, world
  <2> QED
    BY <2>1, <2>2 DEF PaymentReconcilable, PaymentStillDue
<1>3. CASE ~CompleteSpawn /\ ~Tick /\ ~HandleShutdown
  <2>1. kv'.inProgress = kv.inProgress /\ kv'.spawnId = kv.spawnId
    BY <1>3, LedgerKeyStep
  <2> SUFFICES ASSUME ~stopping PROVE PaymentReconcilable'
    BY <2>1 DEF WorksOnOpenSpawn, PaymentReconcilable
  <2>2. /\ kv'.token = kv.token \/ RecordToken
        /\ kv'.fundIntent = kv.fundIntent \/ RecordInvoice
    BY <1>3, KeyWrites
  <2>3. CASE pc = "fundSend" /\ BroadcastFunding
    <3>1. pc \in Early \ Tokenless /\ pc \in InPipeline
      BY <2>3 DEF Early, Late, Tokenless, InPipeline, Awaits
    <3>2. kv.spawnId = mem.sid /\ kv.token.sid = mem.sid /\ kv.token.tok = mem.tok
      BY <3>1 DEF WorksOnOpenSpawn, TokenOnDisk
    <3>3. kv.fundIntent = [sid |-> mem.sid, tok |-> mem.tok, inv |-> mem.inv]
      BY <2>3 DEF IntentsOnDisk
    <3>4. kv'.token = kv.token /\ kv'.fundIntent = kv.fundIntent
      BY <2>2, <2>3 DEF RecordToken, RecordInvoice, Runs
    <3>5. <<mem.inv, mem.tok>> \in paidInv'
      BY <2>3 DEF BroadcastFunding
    <3> QED
      BY <2>1, <3>2, <3>3, <3>4, <3>5 DEF PaymentReconcilable
  <2>4. CASE paid' = paid /\ paidInv' = paidInv
    <3>1. CASE RecordToken
      <4>1. pc = "tokenRec" /\ pc \in InPipeline
        BY <3>1 DEF RecordToken, Runs, InPipeline, Awaits, Syncs
      <4>2. kv.token.sid # kv.spawnId
        BY <4>1 DEF WorksOnOpenSpawn, TokenOnDisk
      <4> QED
        BY <2>1, <2>4, <4>2 DEF PaymentReconcilable
    <3>2. CASE RecordInvoice
      <4>1. pc = "invoiceRec" /\ pc \in InPipeline /\ pc \in Unpaid
        BY <3>2 DEF RecordInvoice, Runs, InPipeline, Awaits, Syncs, Unpaid
      <4>2. kv.spawnId = mem.sid /\ paid[mem.sid] = 0
        BY <4>1 DEF WorksOnOpenSpawn, PaymentStillDue
      <4> QED
        BY <2>1, <2>4, <4>2 DEF PaymentReconcilable
    <3> QED
      BY <2>1, <2>2, <2>4, <3>1, <3>2 DEF PaymentReconcilable
  <2> QED
    BY <2>3, <2>4, PaymentChange
<1> QED
  BY <1>1, <1>2, <1>3, <1>4

(* A payment is the first one of its spawn. *)
LEMMA FundingOnceStep ==
  ASSUME TypeOK, PaymentStillDue, FundingOnce, [Next]_vars
  PROVE  FundingOnce'
<1>1. CASE paid' = paid
  BY <1>1 DEF FundingOnce
<1>2. CASE pc = "fundSend" /\ BroadcastFunding
  <2>1. mem.sid \in SpawnIds /\ paid \in [SpawnIds -> Nat] /\ paid[mem.sid] = 0
    BY <1>2 DEF TypeOK, ControlOK, WorldOK, InPipeline, Awaits, PaymentStillDue, Unpaid
  <2> QED
    BY <1>2, <2>1 DEF BroadcastFunding, FundingOnce
<1> QED
  BY <1>1, <1>2, PaymentChange

(* Nothing is paid at first. *)
LEMMA FundingInit == Init => FundingInv
BY DEF Init, InitKV, ClearedKV, FundingInv, PaymentStillDue, TokenOnDisk,
   PaymentReconcilable, FundingOnce, Unpaid, Tokenless, Early, InPipeline,
   Awaits, Syncs

(* A spawn pays for its hosting at most once, for any number of crashes    *)
(* between the payment and its record and signals at any point, when the   *)
(* indexer the restart asks is up to date (it may lag: run spawn_lag).     *)
THEOREM OnePaymentPerSpawn ==
  ASSUME ~IndexerLag
  PROVE  Spec => []FundingOnce
<1>1. TypeOK /\ InheritanceInv /\ IntentsOnDisk
        /\ FundingInv /\ [Next]_vars => FundingInv'
  BY PaymentDueStep, TokenOnDiskStep, ReconcilableStep, FundingOnceStep
  DEF InheritanceInv, FundingInv
<1>2. Spec => []FundingInv
  BY <1>1, FundingInit, HistoryHolds, IntentsHold, PTL DEF Spec
<1>3. FundingInv => FundingOnce
  BY DEF FundingInv
<1> QED
  BY <1>2, <1>3, PTL
================================================================================
