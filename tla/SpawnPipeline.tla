---------------------------- MODULE SpawnPipeline ----------------------------
(***************************************************************************)
(* The child-spawn pipeline of a Mycelium node: the decision coroutine     *)
(* that starts or resumes a spawn, the five steps of deployer.spawn_child  *)
(* with their write-ahead intents, and what can interrupt them: a crash,   *)
(* the SIGTERM handler, a code-update restart, and external calls that     *)
(* fail, or take effect and lose their answer.                             *)
(*                                                                         *)
(* pc is the point the coroutine has reached.  At a label of Awaits it is  *)
(* suspended on an external call running in a worker thread; at any other  *)
(* label it is between an answer and the next write to the store, where a  *)
(* signal handler can still run, for Python runs handlers between any two  *)
(* bytecodes of the main thread.                                           *)
(***************************************************************************)
EXTENDS SpawnState

CONSTANTS
  MaxFundingAttempts,   \* _MAX_FUNDING_ATTEMPTS, 5 in the code
  MaxFaults,            \* bound: crashes and failed external calls
  IndexerLag,           \* can find_prior_send miss a transaction for 90 s?
  SignalsArrive         \* can SIGTERM or SIGINT arrive?

ASSUME PipelineAssumption ==
  /\ MaxFundingAttempts \in Nat
  /\ MaxFaults \in Nat
  /\ IndexerLag \in BOOLEAN
  /\ SignalsArrive \in BOOLEAN

VARIABLES
  kv,          \* the persistent store
  pc,          \* where the decision coroutine is
  stopping,    \* the signal handler has cancelled the tasks
  mem,         \* the pipeline's local variables, lost in a crash
  lastSpawn,   \* spawn ids handed out (uuid4 in the code)
  fresh,       \* addresses, tokens and invoices created
  invLive,     \* is the latest invoice still payable (expiry - 60 s)?
  faults,      \* faults so far
  paid,        \* chain: invoice payments broadcast, per spawn
  paidInv,     \* chain: <<invoice, token>> a payment was broadcast for
  credited,    \* SporeStack: tokens with a positive balance
  launches,    \* SporeStack: servers launched, per spawn
  hosted,      \* SporeStack: tokens that own a server
  child,       \* the address whose mnemonic the child of a spawn holds
  gifts,       \* chain: inheritance transactions broadcast, per spawn
  giftAddr     \* chain: the address the last of them paid

world == <<paid, paidInv, credited, launches, hosted, child, gifts, giftAddr>>
local == <<mem, fresh, invLive>>
vars  == <<kv, pc, stopping, mem, lastSpawn, fresh, invLive, faults, world>>

Awaits == {"boot", "idle", "tokenMint", "reconcile", "askBalance", "invoice",
           "fundCheck", "fundSend", "credit", "adopt", "launch", "ready",
           "deploy", "bootChild", "xferRecon", "xferSize", "xferSend"}
Syncs  == {"start", "wallet", "token", "tokenRec", "fund", "mint", "invoiceRec",
           "fundRec", "idRec", "vps", "vpsIntent", "vpsRec", "xfer",
           "xferIntent", "xferRec", "done"}
InPipeline == (Awaits \cup Syncs) \ {"boot", "idle"}

NoMem == [sid |-> NoSpawn, tok |-> 0, addr |-> 0, inv |-> 0]

Init ==
  /\ kv = InitKV /\ pc = "boot" /\ stopping = FALSE /\ mem = NoMem
  /\ lastSpawn = 0 /\ fresh = 0 /\ invLive = FALSE /\ faults = 0
  /\ paid = [s \in SpawnIds |-> 0] /\ paidInv = {} /\ credited = {}
  /\ launches = [s \in SpawnIds |-> 0] /\ hosted = {}
  /\ child = [s \in SpawnIds |-> 0]
  /\ gifts = [s \in SpawnIds |-> 0] /\ giftAddr = [s \in SpawnIds |-> 0]

-----------------------------------------------------------------------------
(* Control helpers.                                                         *)

(* A step taken when the call the coroutine waits for has answered. *)
Answered(label) == pc = label /\ ~stopping
(* A step of straight-line code: a cancelled task still takes it. *)
Runs(label) == pc = label

Fault  == faults < MaxFaults /\ faults' = faults + 1
Sound  == UNCHANGED faults
(* SpawnError or any exception: spawn_child returns False, the flag stays. *)
Raise  == pc' = "idle"
Save(newKV) == kv' = newKV

(* The step keeps the persistent store, the process and everything outside. *)
Internal == UNCHANGED <<stopping, lastSpawn, world>>

BroadcastFunding ==
  /\ paid' = [paid EXCEPT ![mem.sid] = @ + 1]
  /\ paidInv' = paidInv \cup {<<mem.inv, mem.tok>>}
  /\ UNCHANGED <<credited, launches, hosted, child, gifts, giftAddr>>

LaunchServer ==
  /\ launches' = [launches EXCEPT ![mem.sid] = @ + 1]
  /\ hosted' = hosted \cup {mem.tok}
  /\ UNCHANGED <<paid, paidInv, credited, child, gifts, giftAddr>>

(* start_orchestrator writes the mnemonic over whatever the server held. *)
InstallChild ==
  /\ child' = [child EXCEPT ![mem.sid] = mem.addr]
  /\ UNCHANGED <<paid, paidInv, credited, launches, hosted, gifts, giftAddr>>

BroadcastGift ==
  /\ gifts' = [gifts EXCEPT ![mem.sid] = @ + 1]
  /\ giftAddr' = [giftAddr EXCEPT ![mem.sid] = mem.addr]
  /\ UNCHANGED <<paid, paidInv, credited, launches, hosted, child>>

(* An external call with an effect: it succeeds, it fails, or it takes     *)
(* effect and its answer is lost.                                          *)
External(effect, next) ==
  \/ effect /\ pc' = next /\ Sound
  \/ effect /\ Raise /\ Fault
  \/ UNCHANGED world /\ Raise /\ Fault

(* An external read: it answers, or it fails. *)
Query(next) ==
  /\ UNCHANGED world
  /\ \/ pc' = next /\ Sound
     \/ Raise /\ Fault

-----------------------------------------------------------------------------
(* Starting and resuming: decision_loop._handle_recovery and _tick.         *)

(* A start that resumes without reading the flag. *)
Recover_Unconditional ==
  /\ Answered("boot")
  /\ pc' = "start" /\ Sound
  /\ mem' = [NoMem EXCEPT !.sid = kv.spawnId]
  /\ Internal /\ UNCHANGED <<kv, fresh, invLive>>

(* A start that never resumes. *)
Recover_Never ==
  /\ Answered("boot")
  /\ pc' = "idle" /\ Sound
  /\ Internal /\ UNCHANGED <<kv, mem, fresh, invLive>>

(* _handle_recovery also clears a flag that has no spawn id beside it:     *)
(* WorksOnOpenSpawn, below, shows that no store comes to that state.       *)
Recover ==
  /\ Answered("boot")
  /\ \/ /\ ~kv.inProgress
        /\ pc' = "idle" /\ Sound /\ UNCHANGED mem
     \/ /\ kv.inProgress        \* the monitor did not refresh in 300 s
        /\ pc' = "idle" /\ Fault /\ UNCHANGED mem
     \/ /\ kv.inProgress
        /\ pc' = "start" /\ Sound
        /\ mem' = [NoMem EXCEPT !.sid = kv.spawnId]
  /\ Internal /\ UNCHANGED <<kv, fresh, invLive>>

(* An eligible tick: neither flag is set, so a new spawn starts. *)
Tick ==
  /\ Answered("idle")
  /\ ~kv.inProgress
  /\ lastSpawn < MaxSpawns
  /\ lastSpawn' = lastSpawn + 1
  /\ Save(MarkSpawnStarted(kv, lastSpawn + 1))
  /\ mem' = [NoMem EXCEPT !.sid = lastSpawn + 1]
  /\ pc' = "start"
  /\ UNCHANGED <<stopping, fresh, invLive, faults, world>>

-----------------------------------------------------------------------------
(* Step 1, the child's identity: spawn_identity.prepare_child_identity.     *)

LoadIdentity ==
  /\ Runs("start")
  /\ \/ /\ kv.identity.sid = mem.sid
        /\ mem' = [mem EXCEPT !.tok = kv.identity.tok, !.addr = kv.identity.addr]
        /\ pc' = "vps"
     \/ /\ kv.identity.sid # mem.sid
        /\ pc' = "wallet" /\ UNCHANGED mem
  /\ Sound /\ Internal /\ UNCHANGED <<kv, fresh, invLive>>

(* The wallet persisted by an earlier attempt at this spawn is reused. *)
RehydratesWallet == kv.wallet.sid = mem.sid

(* The mnemonic is persisted the instant it exists.  The keypair generated *)
(* before it, or the wallet, may fail.                                     *)
ChildWallet ==
  /\ Runs("wallet")
  /\ \/ /\ RehydratesWallet
        /\ mem' = [mem EXCEPT !.addr = kv.wallet.addr]
        /\ pc' = "token" /\ Sound /\ UNCHANGED <<kv, fresh>>
     \/ /\ ~RehydratesWallet
        /\ fresh' = fresh + 1
        /\ mem' = [mem EXCEPT !.addr = fresh + 1]
        /\ Save([kv EXCEPT !.wallet = [sid |-> mem.sid, addr |-> fresh + 1]])
        /\ pc' = "token" /\ Sound
     \/ Raise /\ Fault /\ UNCHANGED <<kv, mem, fresh>>
  /\ Internal /\ UNCHANGED invLive

LoadToken ==
  /\ Runs("token")
  /\ \/ /\ kv.token.sid = mem.sid
        /\ mem' = [mem EXCEPT !.tok = kv.token.tok]
        /\ pc' = "fund"
     \/ /\ kv.token.sid # mem.sid
        /\ pc' = "tokenMint" /\ UNCHANGED mem
  /\ Sound /\ Internal /\ UNCHANGED <<kv, fresh, invLive>>

GenerateToken ==
  /\ Answered("tokenMint")
  /\ \/ /\ fresh' = fresh + 1
        /\ mem' = [mem EXCEPT !.tok = fresh + 1]
        /\ pc' = "tokenRec" /\ Sound
     \/ Raise /\ Fault /\ UNCHANGED <<mem, fresh>>
  /\ Internal /\ UNCHANGED <<kv, invLive>>

(* A mint whose result is never persisted. *)
SaveToken_Forgotten == kv
SaveToken == [kv EXCEPT !.token = [sid |-> mem.sid, tok |-> mem.tok]]

RecordToken ==
  /\ Runs("tokenRec")
  /\ Save(SaveToken)
  /\ pc' = "fund"
  /\ Sound /\ Internal /\ UNCHANGED local

(* _fund_sporestack_token *)
MatchingFundIntent == kv.fundIntent.sid = mem.sid /\ kv.fundIntent.tok = mem.tok

StartFunding ==
  /\ Runs("fund")
  /\ \/ kv.fundTxid /\ pc' = "credit" /\ UNCHANGED mem
     \/ /\ ~kv.fundTxid /\ MatchingFundIntent
        /\ mem' = [mem EXCEPT !.inv = kv.fundIntent.inv]
        /\ pc' = "reconcile"
     \/ ~kv.fundTxid /\ ~MatchingFundIntent /\ pc' = "mint" /\ UNCHANGED mem
  /\ Sound /\ Internal /\ UNCHANGED <<kv, fresh, invLive>>

(* wallet.find_prior_send: poll the wallet history for 90 s. *)
PriorSendFound(sent) == sent
PriorSendMissed(sent) == ~sent \/ IndexerLag

ReconcileFunding ==
  /\ Answered("reconcile")
  /\ \/ PriorSendFound(<<mem.inv, mem.tok>> \in paidInv) /\ pc' = "fundRec"
     \/ PriorSendMissed(<<mem.inv, mem.tok>> \in paidInv) /\ pc' = "askBalance"
  /\ Sound /\ Internal /\ UNCHANGED <<kv, local>>

(* get_balance: a positive balance reconciles; a failed call or 0 does not. *)
AskBalance ==
  /\ Answered("askBalance")
  /\ \/ mem.tok \in credited /\ pc' = "fundRec" /\ Sound
     \/ mem.tok \notin credited /\ pc' = (IF invLive THEN "fundCheck" ELSE "mint") /\ Sound
     \/ mem.tok \in credited /\ pc' = (IF invLive THEN "fundCheck" ELSE "mint") /\ Fault
  /\ Internal /\ UNCHANGED <<kv, local>>

(* _mint_funding_invoice: count the attempt, then ask for an invoice. *)
CountAttempt ==
  /\ Runs("mint")
  /\ \/ /\ kv.attempts >= MaxFundingAttempts
        /\ Raise /\ UNCHANGED kv
     \/ /\ kv.attempts < MaxFundingAttempts
        /\ Save([kv EXCEPT !.attempts = @ + 1])
        /\ pc' = "invoice"
  /\ Sound /\ Internal /\ UNCHANGED local

CreateInvoice ==
  /\ Answered("invoice")
  /\ \/ /\ fresh' = fresh + 1
        /\ mem' = [mem EXCEPT !.inv = fresh + 1]
        /\ invLive' = TRUE
        /\ pc' = "invoiceRec" /\ Sound
     \/ Raise /\ Fault /\ UNCHANGED local
  /\ Internal /\ UNCHANGED kv

RecordInvoice ==
  /\ Runs("invoiceRec")
  /\ Save([kv EXCEPT !.fundIntent =
             [sid |-> mem.sid, tok |-> mem.tok, inv |-> mem.inv]])
  /\ pc' = "fundCheck"
  /\ Sound /\ Internal /\ UNCHANGED local

(* _check_parent_balance, then the second liveness check. *)
CheckParentBalance ==
  /\ Answered("fundCheck")
  /\ \/ invLive /\ pc' = "fundSend" /\ Sound
     \/ ~invLive /\ Raise /\ Sound
     \/ Raise /\ Fault                               \* insufficient balance
  /\ Internal /\ UNCHANGED <<kv, local>>

PayInvoice ==
  /\ Answered("fundSend")
  /\ External(BroadcastFunding, "fundRec")
  /\ UNCHANGED <<kv, stopping, lastSpawn, local>>

RecordFunding ==
  /\ Runs("fundRec")
  /\ Save([kv EXCEPT !.fundTxid = TRUE])
  /\ pc' = "credit"
  /\ Sound /\ Internal /\ UNCHANGED local

(* _wait_for_credit: 1800 s of polling. *)
WaitForCredit ==
  /\ Answered("credit")
  /\ \/ mem.tok \in credited /\ pc' = "idRec" /\ Sound
     \/ Raise /\ Fault
  /\ Internal /\ UNCHANGED <<kv, local>>

RecordIdentity ==
  /\ Runs("idRec")
  /\ Save([kv EXCEPT !.identity =
             [sid |-> mem.sid, tok |-> mem.tok, addr |-> mem.addr]])
  /\ pc' = "vps"
  /\ Sound /\ Internal /\ UNCHANGED local

-----------------------------------------------------------------------------
(* Step 2, the server: spawn_provision.provision_child_vps.                 *)

(* A resume that never looks for a server launched before a crash. *)
MatchingVpsIntent_Never == FALSE
MatchingVpsIntent == kv.vpsIntent.sid = mem.sid /\ kv.vpsIntent.tok = mem.tok

(* A resume that takes a recorded server for a booted child. *)
LoadVps_AssumesBooted ==
  /\ Runs("vps")
  /\ \/ kv.vpsInfo = mem.sid /\ pc' = "xfer"
     \/ kv.vpsInfo # mem.sid /\ MatchingVpsIntent /\ pc' = "adopt"
     \/ kv.vpsInfo # mem.sid /\ ~MatchingVpsIntent /\ pc' = "vpsIntent"
  /\ Sound /\ Internal /\ UNCHANGED <<kv, local>>

LoadVps ==
  /\ Runs("vps")
  /\ \/ kv.vpsInfo = mem.sid /\ pc' = "deploy"
     \/ kv.vpsInfo # mem.sid /\ MatchingVpsIntent /\ pc' = "adopt"
     \/ kv.vpsInfo # mem.sid /\ ~MatchingVpsIntent /\ pc' = "vpsIntent"
  /\ Sound /\ Internal /\ UNCHANGED <<kv, local>>

(* _adopt_orphan_server: an API failure raises rather than read as "none". *)
AdoptOrphanServer ==
  /\ Answered("adopt")
  /\ \/ mem.tok \in hosted /\ pc' = "ready" /\ Sound
     \/ mem.tok \notin hosted /\ pc' = "vpsIntent" /\ Sound
     \/ Raise /\ Fault
  /\ Internal /\ UNCHANGED <<kv, local>>

(* A launch with no intent written ahead of it. *)
RecordVpsIntent_Skipped ==
  /\ Runs("vpsIntent")
  /\ pc' = "launch"
  /\ Sound /\ Internal /\ UNCHANGED <<kv, local>>

RecordVpsIntent ==
  /\ Runs("vpsIntent")
  /\ Save([kv EXCEPT !.vpsIntent = [sid |-> mem.sid, tok |-> mem.tok]])
  /\ pc' = "launch"
  /\ Sound /\ Internal /\ UNCHANGED local

LaunchChildServer ==
  /\ Answered("launch")
  /\ External(LaunchServer, "ready")
  /\ UNCHANGED <<kv, stopping, lastSpawn, local>>

WaitForServerReady ==
  /\ Answered("ready")
  /\ Query("vpsRec")
  /\ UNCHANGED <<kv, stopping, lastSpawn, local>>

RecordVps ==
  /\ Runs("vpsRec")
  /\ Save([kv EXCEPT !.vpsInfo = mem.sid])
  /\ pc' = "deploy"
  /\ Sound /\ Internal /\ UNCHANGED local

-----------------------------------------------------------------------------
(* Steps 3 and 4, run again on every attempt: spawn_deploy.                 *)

DeployChildCode ==
  /\ Answered("deploy")
  /\ Query("bootChild")
  /\ UNCHANGED <<kv, stopping, lastSpawn, local>>

(* A boot whose failure is swallowed. *)
BootChildOrchestrator_Swallows ==
  /\ Answered("bootChild")
  /\ \/ InstallChild /\ pc' = "xfer" /\ Sound
     \/ UNCHANGED world /\ pc' = "xfer" /\ Fault
  /\ UNCHANGED <<kv, stopping, lastSpawn, local>>

BootChildOrchestrator ==
  /\ Answered("bootChild")
  /\ External(InstallChild, "xfer")
  /\ UNCHANGED <<kv, stopping, lastSpawn, local>>

-----------------------------------------------------------------------------
(* Step 5, the inheritance: spawn_transfer.transfer_inheritance.            *)

(* A resume that ignores the write-ahead transfer intent. *)
MatchingXferIntent_Never == FALSE
MatchingXferIntent == kv.xferIntent.sid = mem.sid

LoadTransfer ==
  /\ Runs("xfer")
  /\ \/ kv.xferTxid /\ pc' = "done"
     \/ ~kv.xferTxid /\ MatchingXferIntent /\ pc' = "xferRecon"
     \/ ~kv.xferTxid /\ ~MatchingXferIntent /\ pc' = "xferSize"
  /\ Sound /\ Internal /\ UNCHANGED <<kv, local>>

(* A miss raises: the code refuses to broadcast a second time. *)
ReconcileTransfer ==
  /\ Answered("xferRecon")
  /\ \/ PriorSendFound(gifts[mem.sid] > 0) /\ pc' = "xferRec"
     \/ PriorSendMissed(gifts[mem.sid] > 0) /\ Raise
  /\ Sound /\ Internal /\ UNCHANGED <<kv, local>>

(* compute_child_share, the wallet scan, the cap and the dust test: the    *)
(* share is worth sending, or it is dust and the spawn is complete.        *)
SizeInheritance ==
  /\ Answered("xferSize")
  /\ \/ pc' = "xferIntent" /\ Sound
     \/ pc' = "done" /\ Sound
     \/ Raise /\ Fault
  /\ Internal /\ UNCHANGED <<kv, local>>

RecordTransferIntent ==
  /\ Runs("xferIntent")
  /\ Save([kv EXCEPT !.xferIntent = [sid |-> mem.sid, addr |-> mem.addr]])
  /\ pc' = "xferSend"
  /\ Sound /\ Internal /\ UNCHANGED local

SendInheritance ==
  /\ Answered("xferSend")
  /\ External(BroadcastGift, "xferRec")
  /\ UNCHANGED <<kv, stopping, lastSpawn, local>>

RecordTransfer ==
  /\ Runs("xferRec")
  /\ Save([kv EXCEPT !.xferTxid = TRUE])
  /\ pc' = "done"
  /\ Sound /\ Internal /\ UNCHANGED local

CompleteSpawn ==
  /\ Runs("done")
  /\ Save(MarkSpawnCompleted(kv, TRUE))
  /\ pc' = "idle"
  /\ Sound /\ Internal /\ UNCHANGED local

-----------------------------------------------------------------------------
(* The process: main.Orchestrator and scripts/orchestrator_wrapper.sh.      *)

Crash ==
  /\ pc # "down"
  /\ Fault
  /\ pc' = "down" /\ stopping' = FALSE /\ mem' = NoMem
  /\ UNCHANGED <<kv, lastSpawn, fresh, invLive, world>>

(* The operator, or a reboot of the VPS, starts the wrapper again. *)
Restart ==
  /\ pc = "down"
  /\ pc' = "boot"
  /\ UNCHANGED <<kv, stopping, mem, lastSpawn, fresh, invLive, faults, world>>

(* _handle_shutdown: a signal during a young spawn is ignored; an old one  *)
(* is abandoned, its keys cleared, and the tasks cancelled.                *)
HandleShutdown ==
  /\ SignalsArrive
  /\ pc # "down" /\ ~stopping
  /\ \/ ~kv.inProgress /\ UNCHANGED kv
     \/ kv.inProgress /\ kv.aged /\ Save(MarkSpawnCompleted(kv, FALSE))
  /\ stopping' = TRUE
  /\ UNCHANGED <<pc, lastSpawn, faults, local, world>>

(* The cancelled task ends at its next await and the process exits with 0. *)
(* A worker thread that has started its call finishes it first.            *)
Shutdown ==
  /\ stopping /\ pc \in Awaits
  /\ \/ UNCHANGED world
     \/ pc = "fundSend" /\ BroadcastFunding
     \/ pc = "launch" /\ LaunchServer
     \/ pc = "bootChild" /\ InstallChild
     \/ pc = "xferSend" /\ BroadcastGift
  /\ pc' = "down" /\ stopping' = FALSE /\ mem' = NoMem
  /\ UNCHANGED <<kv, lastSpawn, fresh, invLive, faults>>

(* check_for_updates: os._exit(42), but never while a spawn is in progress. *)
UpdateRestart ==
  /\ pc = "idle" /\ ~stopping
  /\ ~kv.inProgress
  /\ pc' = "boot" /\ mem' = NoMem
  /\ UNCHANGED <<kv, stopping, lastSpawn, fresh, invLive, faults, world>>

(* The operator kills and restarts a node whose spawn has failed. *)
OperatorRestart ==
  /\ pc = "idle" /\ ~stopping
  /\ kv.inProgress
  /\ pc' = "boot" /\ mem' = NoMem
  /\ UNCHANGED <<kv, stopping, lastSpawn, fresh, invLive, faults, world>>

-----------------------------------------------------------------------------
(* Time and the outside world.                                              *)

(* MAX_SPAWN_DURATION passes since spawn_started_at. *)
SpawnAges ==
  /\ SignalsArrive
  /\ kv.inProgress /\ ~kv.aged
  /\ Save([kv EXCEPT !.aged = TRUE])
  /\ UNCHANGED <<pc, stopping, lastSpawn, faults, local, world>>

InvoiceExpires ==
  /\ invLive
  /\ invLive' = FALSE
  /\ UNCHANGED <<kv, pc, stopping, mem, lastSpawn, fresh, faults, world>>

(* SporeStack credits the token of a paid invoice once it confirms. *)
CreditToken ==
  /\ \E p \in paidInv : p[2] \notin credited /\ credited' = credited \cup {p[2]}
  /\ UNCHANGED <<kv, pc, stopping, mem, lastSpawn, fresh, invLive, faults,
                 paid, paidInv, launches, hosted, child, gifts, giftAddr>>

-----------------------------------------------------------------------------
Pipeline ==
  \/ LoadIdentity \/ ChildWallet \/ LoadToken \/ GenerateToken \/ RecordToken
  \/ StartFunding \/ ReconcileFunding \/ AskBalance \/ CountAttempt
  \/ CreateInvoice \/ RecordInvoice \/ CheckParentBalance \/ PayInvoice
  \/ RecordFunding \/ WaitForCredit \/ RecordIdentity
  \/ LoadVps \/ AdoptOrphanServer \/ RecordVpsIntent \/ LaunchChildServer
  \/ WaitForServerReady \/ RecordVps
  \/ DeployChildCode \/ BootChildOrchestrator
  \/ LoadTransfer \/ ReconcileTransfer \/ SizeInheritance
  \/ RecordTransferIntent \/ SendInheritance \/ RecordTransfer \/ CompleteSpawn

Process == Recover \/ Tick \/ Restart \/ HandleShutdown \/ Shutdown
           \/ UpdateRestart

Environment == Crash \/ OperatorRestart \/ SpawnAges \/ InvoiceExpires \/ CreditToken

Next == Pipeline \/ Process \/ Environment

Spec == Init /\ [][Next]_vars

(* What the node's own scheduler guarantees: the event loop runs, ticks    *)
(* come, worker threads answer or time out, the remote publishes updates.  *)
NodeFairness ==
  WF_vars(Pipeline) /\ WF_vars(Recover) /\ WF_vars(Tick)
  /\ WF_vars(UpdateRestart) /\ WF_vars(Restart) /\ WF_vars(CreditToken)

(* ... and what it leaves to its operator: restart a node that is stuck. *)
TendedSpec == Spec /\ NodeFairness /\ WF_vars(OperatorRestart)

-----------------------------------------------------------------------------
(* Properties.                                                              *)

MemType == [sid : AnySpawn, tok : Nat, addr : Nat, inv : Nat]

ControlOK ==
  /\ pc \in Awaits \cup Syncs \cup {"down"}
  /\ pc \in InPipeline => mem.sid \in SpawnIds
  /\ stopping \in BOOLEAN
  /\ lastSpawn \in 0 .. MaxSpawns
  /\ fresh \in Nat /\ invLive \in BOOLEAN /\ faults \in Nat

WorldOK ==
  /\ paid \in [SpawnIds -> Nat]
  /\ paidInv \subseteq Nat \X Nat /\ credited \subseteq Nat
  /\ launches \in [SpawnIds -> Nat] /\ hosted \subseteq Nat
  /\ child \in [SpawnIds -> Nat]
  /\ gifts \in [SpawnIds -> Nat] /\ giftAddr \in [SpawnIds -> Nat]

(* Every variable has its type, and a pipeline works on a real spawn. *)
TypeOK == kv \in KVType /\ mem \in MemType /\ ControlOK /\ WorldOK

(* A spawn's inheritance is broadcast at most once, although the node may  *)
(* crash after the broadcast, lose its answer, be cancelled by a signal,   *)
(* or find the indexer blind to it (transfer_inheritance).                 *)
InheritanceOnce == \A s \in SpawnIds : gifts[s] <= 1

(* A cancelled pipeline has no open spawn; a live one works on the open    *)
(* spawn, which has been handed out.                                       *)
WorksOnOpenSpawn ==
  /\ stopping => ~kv.inProgress
  /\ pc \in InPipeline => mem.sid <= lastSpawn
  /\ pc \in InPipeline /\ ~stopping => kv.inProgress /\ kv.spawnId = mem.sid
  /\ kv.inProgress => kv.spawnId \in SpawnIds /\ kv.spawnId <= lastSpawn

(* The points from which the inheritance may still be sent are reached     *)
(* only while it has not been, and no spawn has one before it starts.      *)
GiftStillDue ==
  /\ pc \in {"xferIntent", "xferSend"} => gifts[mem.sid] = 0
  /\ pc = "xferSize" /\ ~stopping => gifts[mem.sid] = 0
  /\ \A s \in SpawnIds : s > lastSpawn => gifts[s] = 0

(* The intent that routes every resume to the reconcile path is on disk    *)
(* before the inheritance is sent and as long as the spawn is open.        *)
GiftIntended ==
  /\ pc = "xferSend" /\ ~stopping => kv.xferIntent.sid = mem.sid
  /\ kv.inProgress /\ gifts[kv.spawnId] # 0 => kv.xferIntent.sid = kv.spawnId

(* Why a second broadcast is impossible: the inductive invariant behind    *)
(* InheritanceOnce (see SpawnPipelineProofs).                              *)
InheritanceInv ==
  WorksOnOpenSpawn /\ GiftStillDue /\ GiftIntended /\ InheritanceOnce

(* At most one paid server is launched for a spawn, although the answer of *)
(* launch_server may be lost and the node restarted any number of times    *)
(* (provision_child_vps, _adopt_orphan_server).                            *)
ServerOnce == \A s \in SpawnIds : launches[s] <= 1

(* The child of a spawn whose inheritance is on the chain holds the        *)
(* mnemonic of the address that was paid, also after later attempts have   *)
(* rewritten its secrets (boot_child_orchestrator, the stored identity).   *)
InheritanceSpendable ==
  \A s \in SpawnIds : gifts[s] > 0 => child[s] = giftAddr[s]

(* A spawn's SporeStack invoice is paid at most once, as the header of     *)
(* spawn_identity.py promises.                                             *)
FundingOnce == \A s \in SpawnIds : paid[s] <= 1

(* When no spawn is in progress no key of an earlier one is left for the   *)
(* next spawn to misread (mark_spawn_completed).                           *)
NoStaleKeys == ~kv.inProgress => NoSpawnKeys(kv)

(* What the store says happened for the spawn in progress did happen: the  *)
(* keys the resume paths trust without checking (no spawn id in them, or   *)
(* no further query) are never ahead of the world.                         *)
StoreNeverAhead ==
  kv.inProgress =>
    /\ kv.fundTxid => paid[kv.spawnId] > 0
    /\ kv.identity.sid = kv.spawnId => kv.identity.tok \in credited
    /\ kv.vpsInfo = kv.spawnId => kv.identity.tok \in hosted
    /\ kv.xferTxid => gifts[kv.spawnId] > 0

(* A spawn recorded as successful has a booted child on a server of its    *)
(* own, paid for (transfer_inheritance is the pipeline's last step).       *)
CompletedIsDelivered ==
  \A s \in kv.history \ {NoSpawn} :
    child[s] # 0 /\ launches[s] > 0 /\ paid[s] > 0

(* Money and servers are only spent when the record that lets a restart    *)
(* find them is already on disk, unless the spawn is being abandoned.      *)
WriteAhead ==
  [][~stopping =>
       /\ gifts' # gifts => kv.xferIntent = [sid |-> mem.sid, addr |-> mem.addr]
       /\ launches' # launches => kv.vpsIntent = [sid |-> mem.sid, tok |-> mem.tok]
       /\ paid' # paid => kv.fundIntent = [sid |-> mem.sid, tok |-> mem.tok,
                                           inv |-> mem.inv]]_vars

(* The spawns of a node as the ledger sees them. *)
PhaseOf ==
  [s \in SpawnIds |->
     IF s > lastSpawn THEN "new"
     ELSE IF kv.inProgress /\ kv.spawnId = s THEN "open"
     ELSE IF s \in kv.history THEN "done" ELSE "dropped"]

Ledger == INSTANCE SpawnLedger WITH phase <- PhaseOf

(* The pipeline implements the ledger. *)
RefinesLedger == Ledger!Spec

(* Stuck in a way the code documents: the operator must reconcile the      *)
(* transfer, or the cap on invoices is reached.                            *)
ManualReview ==
  /\ pc = "idle"
  /\ \/ kv.xferIntent.sid = kv.spawnId /\ gifts[kv.spawnId] = 0
     \/ kv.attempts >= MaxFundingAttempts /\ ~kv.fundTxid

(* A node whose operator restarts it after a failure brings every spawn it *)
(* starts to an end, or to one of the two states the code leaves to a      *)
(* human.                                                                  *)
SpawnResolves == kv.inProgress ~> (~kv.inProgress \/ ManualReview)
==============================================================================
