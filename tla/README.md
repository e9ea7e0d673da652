# Specifications of the superorganism experiment

TLA+ modules for the repository's own logic, TLC configurations that check them
on small instances, and TLAPS proofs of what matters most for every instance.
Paths below are relative to the repository (`src/`); `M/` stands for
`self_replication_service__mycelium/mycelium/code/`.

## 1. The system

| Part | Where | State | Operations |
|---|---|---|---|
| Spawn pipeline | `M/modules/spawning/` | local variables of one coroutine; the spawn keys of the store | five steps: identity and funding, server, code, boot, inheritance; each resumable |
| Persistent state | `M/modules/core/state.py` | SQLite key-value table, one transaction per write | get, set, mark_spawn_started, mark_spawn_completed, failsafe flag, caution trait |
| Decision loop | `M/modules/orchestration/` | none of its own (reads monitor, peers, store) | recovery, tick: failsafe, top-up, spawn |
| Orchestrator process | `M/main.py`, `M/scripts/orchestrator_wrapper.sh` | running flag, task list | signal handler, update check, restart on exit code 42 |
| Wallet, SporeStack client | `M/modules/core/wallet.py`, `M/modules/monitoring/` | bitcoinlib wallet, remote account | send, sweep, scan, find_prior_send; invoices, tokens, servers |
| Seeding, liberation gossip | `M/modules/seeding/` | torrent session, peer registry | announce content, announce node information |
| Democracy replication | `democracy/network/`, `democracy/storage/`, `democracy/democracy_service.py` | SQLite tables of six kinds of object, with foreign keys and UNIQUE constraints | create, IHAVE, IWANT, object, store_remote |
| Democracy funding | `democracy/funding/` | pledges and campaigns in the same store | create campaign, pledge, assemble, finalize |
| IPv8 thread | `democracy/network/ipv8_thread.py` | pending queue, loop, community | start, submit, flush, stop |
| Authentication | `authentication/` | challenge store in memory, registrations in a JSON file | request challenge, verify response, register |
| Health checker | `torrent_health_and_investment/healthchecker/` | received content in memory and in SQLite | receive, sample, purge |
| Bitcoin verification | `bitcoin/`, `authentication/transaction_verification/` | none | look up and verify transactions |
| Learning to rank | `crowdsourced_learn_to_rank/ltr_community_thread.py` | model and click logs | gossip of model updates |
| User interface | `ui/`, `main.py` | widgets | shows the above |

The Mycelium node is one asyncio process. Its decision coroutine calls the spawn
pipeline and awaits external calls in worker threads; the signal handler and the
update coroutine share the store with it. Other nodes meet it only through the
chain, SporeStack and gossip. The democracy application runs an IPv8 community in
a thread of its own, beside the user interface, and replicates a set of objects
by announcing identifiers (IHAVE) and asking for the missing ones (IWANT).

### What is hard

* Money is spent by calls that cannot be undone, whose answers can be lost, and
  which are followed by a write to the store that a crash can prevent.
* Signals run between any two bytecodes of the coroutine and clear the store.
* The wallet's view of the chain, and SporeStack's view of a payment, are late.
* A failed spawn is left for "the next restart", and the flag that marks it also
  defers restarts.
* Decisions are made on a snapshot that another refresh may replace, that takes a
  failed query for an empty account, and that a refresh which raises leaves as it was.
* Replicated objects refer to one another and are constrained, but arrive in any
  order; what a peer rejects it is offered again.
* Between the questions of a funding call to the Bitcoin node come blocks, spends and
  pledges from peers that nobody validated.
* Several threads hand each other work during start-up and shut-down.

### What makes each part correct

* Spawn: the inheritance is sent once, the child can spend it, a server is bought
  once, an invoice is paid once, a spawn that ended stays ended, and one that
  started ends.
* Replication: no object without its parent, no two votes of a voter, peers that
  keep talking agree on everything that has no rival, and go quiet.
* Decision loop: a spawn and a failsafe never both spend the wallet, no decision
  spends or gives away money on a view that was complete, a low runway is acted on.
* Funding: what is broadcast pays its campaign with unspent pledged coins, and a
  pledge that was accepted counts.
* IPv8 thread: objects leave in the order they were made, and a stop ends it.
* Authentication: a signature opens one session, and who paid can log in.
* Health checker: what is announced is listed and sampled, what is silent is dropped.

## 2. Modules

| Module | Models |
|---|---|
| `SpawnState` | the spawn keys of the store and the operations of `state.py` over them |
| `SpawnPipeline` | the coroutine that starts, runs and resumes a spawn, and what interrupts it |
| `SpawnLedger` | the abstract promise: one open spawn, an ended one is never reopened, one inheritance each |
| `MCSpawnPipeline` | the module TLC runs |
| `SpawnPipelineProofs`, `SpawnDeliveryProofs` | the theorems about it; the second builds on the first |
| `DemocracyGossip` | creating, announcing, requesting and storing democracy objects on several peers |
| `ReplicatedStore` | the abstract promise: peers make their own objects and learn those of others, within the schema |
| `MCDemocracyGossip` | the instance TLC runs: a line of three peers, five objects |
| `DemocracyGossipProofs` | the theorems about it |
| `IPv8Thread` | the thread below the gossip: start-up, pending queue, slots, stop |
| `SpawnThresholds` | runway, costs, share and eligibility as integer operators |
| `DecisionLoop` | tick, failsafe, top-up, node monitor, peer registry and the tasks beside them; uses `SpawnThresholds` |
| `CampaignFunding` | campaigns, pledges, validation, selection and broadcast on several peers and a chain |
| `Authentication` | challenge store, login and registration, with the overlays that call them |
| `SwarmHealth` | the two threads of the health checker on one database |
| `MC...` | for each of them, the module TLC runs |
| `AuthenticationProofs`, `CampaignFundingProofs`, `DecisionLoopProofs`, `IPv8ThreadProofs`, `SwarmHealthProofs` | the theorems about those |

Definitions named `X_Y`, with a comment that calls them a mutant or a mistake, are
wrong variants of `X`. No specification uses them: each shows that a property fails
when the code makes that mistake.

### State and actions of SpawnPipeline

`kv` is the store; a record field stands for a key, and the fields that are
records carry the spawn id the code compares on read. `pc` is where the coroutine
stands. Labels in `Awaits` are external calls (`asyncio.to_thread`, or the sleep
of the loop); labels in `Syncs` are straight-line code that ends with a write to
the store. A task cancelled by the signal handler (`stopping`) still runs its
straight-line code, and a worker thread that has started its call finishes it:
`Shutdown` therefore may have the call's effect. `mem` holds the local variables.
`paid`, `launches`, `gifts` and the other variables of `world` are the chain and
SporeStack, where calls take effect.

Every external call with an effect has three outcomes (`External`): success,
failure, and effect with its answer lost. `Fault` counts failures and crashes
against `MaxFaults`. Amounts, keys, hosts and addresses are numbers drawn from one
counter; whether the share is dust is a free choice; the age of a spawn and the
expiry of an invoice are flags that time may set. The wrapper restarts only on exit
code 42, so a node that stops otherwise is `down` until `Restart`.

### State and actions of DemocracyGossip

`store` holds the rows of each peer's database and only grows: nothing calls the
repository's delete and replace operations. An object is a number, in the
canonical order of gossip items (type, then UUID); its type, the row its foreign key
names, the value of its UNIQUE constraint and its maker are constants. `Create` is a
user's call of a service: the INSERT commits or is refused (`Accepts`), and only what
committed is handed to the network thread (`outbox`). Funding objects have no
publisher and spread by announcements alone. `Publish` is the thread's broadcast;
`DropOutbox` stands for a thread that is not running, fails to start or stops.
`AnnounceFullInventory` is the periodic task; `OnIHave`, `OnIWant` and `OnObject` are
the handlers, with batching of announcements and requests (`MaxItems`, 79 in the
code). `net` is a set of datagrams, delivered in any order; `Lose` and `ReceiveCopy`
lose or duplicate one, `MaxFaults` times. What a message encodes is its set of items;
the bit packing is left out.

### State and actions of DecisionLoop

`kv` holds the two persistent flags, `pc` the await at which the decision task
stands, `ns` the monitor's published state and `snap` the tick's copy. A refresh is
three steps: the wallet scan (`RefreshScan`, its balance in `reader`), `get_info`
(`RefreshInfo`, its answer in `told`), and `get_servers` with the publication
(`RefreshPublish`). Both the monitor loop and the tick may have one under way. Every
query can fail the way the code handles it: a failed scan leaves the database's
balance, a failed `get_info` counts as an empty account, a failed `get_servers` as
unknown days. Everything else that is raised before, between or after these is
swallowed by `refresh`, which then publishes nothing (`RefreshRaises`): the state
before it stays, and its field `old` remembers that the last refresh left it. `seen`
remembers which kinds of trouble have happened, so that a property can say under which
it holds; `"old"` is seen when a tick decides on such a state, not when the refresh
raises, so a later refresh that succeeds makes it good. Fees are left out, the quote of an invoice is its price, a
spawn is one step with its outcomes (`SpawnPipeline` has its inside), a lease that
runs out does not stop the node, and the wallet's database changes by a scan or a
sweep only, as in the code (`broadcast=False`). `SpawnThresholds` keeps the code's
roundings, with rate and ratio as fractions.

### State and actions of CampaignFunding

Every peer has its own `known` campaigns and `pledges`; gossip copies them, and
`HearForeignPledge` stores a pledge of a peer outside the model, unvalidated, as
`store_remote` does. A status or broadcast call reads the height once and then asks
the node about one stored pledge after the other, one step each; the two calls are
the same until all are checked. A signed PSBT is one of five kinds, by what its
checks, `combine_anyonecanpay_pledges` and the network make of it; one of another
version or locktime passes the checks of a pledge, and then cannot be combined with the
others. `testmempoolaccept` and the sending are one step: they ask the same, and a
refusal of either leaves nothing. `Acceptable` refuses a fee below the node's minimum
and above its `maxfeerate`, for which the code passes nothing (there is no change
output: all that exceeds the price is fee); rates are per input, which stands for size.
Coins are numbered in the order of their pledges' `created_at`. `create_pledge_request`
changes no state. The chain is not reorganised. The interface only asks for the status
(`ui/app.py:330`); preparing and broadcasting are operations of the service that tests
call, so nothing is claimed about when, or whether, they are called.

### State and actions of Authentication

A challenge is its age, a signature is of the latest challenge of its key or of an
older one (nonces are fresh). Only the signature in the overlay is followed. A login
is two steps: the checks up to the lookup of the payment, and its outcome; the clock
and the chain move in between. A wrong private key signs, too. With a full store the
overlay does not open, because only `ValueError` is caught.

### State and actions of SwarmHealth and IPv8Thread

In `SwarmHealth` the receiving thread remembers an infohash and then stores it; the
checker thread picks, probes, records and marks, and purges every `PurgeCycles`
cycles. Announcement times are ages, cut off beyond the threshold; of `last_checked` and
`received_at` only the order of the rows is kept, as the relations `checked` and
`arrived`. `Before` is the ORDER BY of the sampling query and `SamplingLimit` its LIMIT,
for unchecked rows, too. Every write may fail, a failed purge ends the thread, and so
does a failed initialisation of the checker (`health_thread.py:96-101`), which is an
outcome of `Restart`. The relay's `sent_to_peers` and the list of seedboxes are left
out: neither thread decides anything by them. The checker's `init_db` runs beside
`start()`; the model has it done before, as the tables it makes exist from the first
start on. In `IPv8Thread` objects are numbered as they are
published; `ready` is the loop's queue of coroutines, and a coroutine runs up to its
next await in one step. A broadcast that raises while the queue is flushed fails the
start with the overlay set and part of the queue sent (`FlushFails`); one that raises in
a slot's coroutine loses that object's push only, and is left out.

### Runs

| Run | Instance | Shows |
|---|---|---|
| `spawn_signals` | 2 spawns, 2 faults, late indexer, signals | types, one inheritance, spendable by the child, success means delivered, intents first, implements `SpawnLedger` |
| `spawn_live` | 2 spawns, 3 faults, prompt indexer, no signals, fair | one server, one invoice payment, no stale keys, store never ahead of the world, every spawn ends or is one of the two documented manual cases |
| `spawn_lag` | 1 spawn, 2 faults, late indexer | *violated*: a second invoice payment |
| `spawn_stale` | signals | *violated*: keys left behind by an abandoned spawn |
| `gossip_live` | rival campaigns and a pledge for one of them on a line of 3 peers, 1 fault, fair | types, foreign keys, unique keys, provenance, implements `ReplicatedStore`; every object, or a rival of it, reaches every peer, and what neither has a rival nor descends from one that has is then left alone |
| `ipv8_thread` | 5 objects, fair | types, order of broadcasts, what reached the loop goes out, a stop ends the thread |
| `decision_money` | three purses, 1 fault, 1 day, 1 update, 1 donation, fair | types, exclusion of spawn and failsafe, no overbuying, spawns leave a runway, the failsafe fires only when all is exhausted, low runway is paid for, an interrupted sweep is resumed |
| `decision_wedge` | the last coins, no fault, fair | *violated*: the failsafe after a successful failsafe never completes |
| `funding` | 2 peers, 1 campaign, 3 coins, 1 fault | types, a sound final transaction, no superfluous input, accepted pledges count |
| `login` | 2 keys, store of 1, lifetime 2, 2 faults, fair | types, no replay, refused only if full of others' challenges, who paid logs in |
| `health` | 2 contents, 1 row offered at a time, 2 faults, fair | types, samples belong to rows and stay bounded by the restarts, every row is sampled again and again, the silent is purged |
| `health_stale` | announced content, fair | *violated*: content that is announced all the time is purged and not listed again |

Bounds. Two spawns are the least with which a key of one can be misread by the
other, and two or three faults the least with which a lost answer, a crash and the
loss of a second answer fall in one behaviour; two funding attempts reach the cap.
`spawn_live` takes the prompt indexer for the sake of `FundingOnce`, which needs it;
the other properties do not. `ServerOnce` and `StoreNeverAhead` are not claimed with
signals: a signal clears the keys under a call that is under way, and the thread that
makes it is not stopped by cancellation. One spawn is enough for TLC to find a second
launch, and two spawns and two faults for a record that the next spawn takes for its
own.

Three peers on a line are the least with a relay that passes on what it did not
make; two items in a message cut every larger inventory. The pledge has no rival of its
own and is refused all the same by a peer that holds the other campaign. `MaxInFlight` bounds how much
may be in flight when a peer announces or publishes. It is one: an announcement or a
publication starts on an empty network, and everything it sets off, with losses and
duplicates, happens in any order. Handlers are never held back by it.

In `decision_money` a day costs a cent and a cent is two satoshi. One purse is enough
for a child, one for a single top-up, one is gone a day later; one fault with one day,
one update and one donation lets every failed query, refresh that raises, lost answer
and crash fall into every state of each. In `funding` the values 1, 2 and 3 against a price and fee of 4
make several selections, equality and a shortfall possible, fees of selections are on
both sides of the two rates, and the campaign has one block before its deadline, at it
and after it. A store of one challenge for two keys
makes every second request meet a full store. In `health` the second of two contents
is the least that can starve when one row is offered at a time, and purge intervals of two cycles with one sample kept
trim in every behaviour.

The thread of `ipv8_thread` ends and the users of `funding` stop when the bounds are
used up: those two runs do not look for deadlocks.

### Fairness

`NodeFairness` says that the event loop runs, calls return or time out (every
external call of the code has a timeout), ticks come, a stopped node is started
again and SporeStack credits paid invoices. The code guarantees the first three;
the others are its environment's part and are needed for any spawn to end.
`TendedSpec` adds an operator who restarts a node whose spawn failed, as the log
messages ask for. Crashes and faults are bounded and never fair.

`DecisionLoop`'s `TendedSpec` is the same for the node's money: tasks are scheduled,
queries answer or fail in time, the service manager restarts the process, an operator
restarts a node that stands idle with a flag set, and a payment is credited in the
end. Donations, days, updates and peers are not fair.

`CampaignFunding` has no fairness: nothing in the program calls for a final transaction,
and a call may stop at any of its questions. `Authentication`: the clock runs, a lookup returns, and a user who keeps to a key goes
on opening the overlay, signing in time and logging in; strongly, because the other
events disable these again and again. `SwarmHealth`: the checker thread runs, and a
random choice that is offered again and again is made (which row is offered is decided by
the order of the query, not by fairness); `AnnouncedSpec` adds that time
passes and announcements keep arriving. `IPv8Thread`: the loop runs and the start and
the stop of IPv8 return.

In `DemocracyGossip` the periodic task of every peer is fair (IPv8 repeats it at a
fixed interval; strongly fair because the bound `MaxInFlight`, which the code does
not have, can disable it again and again) and some datagram arrives while there are
any. Users, the publishing thread and faults are not fair.

## 3. Proofs

Every safety property that a run checks, invariant or action property, is a theorem
for every value of the constants. Where a theorem has a hypothesis besides the named
assumptions on the constants, it is given below with what happens without it.

### Spawn pipeline

`SpawnPipelineProofs` proves, for every number of spawns, funding attempts and
faults, with and without signals and indexer lag:

* `TypeCorrect`: `Spec => []TypeOK`;
* `InheritanceInvariant`: `Spec => []InheritanceInv`;
* `InheritanceSentOnce`: `Spec => []InheritanceOnce`;
* `SpentAfterIntent`: `Spec => WriteAhead`;
* `ImplementsLedger`: `Spec => RefinesLedger`.

The only assumptions are the types of the constants. `InheritanceOnce` is not
inductive. `InheritanceInv` adds three things: a pipeline that has not been
cancelled works on the open spawn and a cancelled one leaves no spawn open
(`WorksOnOpenSpawn`); the points from which the broadcast can be reached are
entered only while nothing was sent (`GiftStillDue`); and the intent, which sends
every later attempt to the reconcile path, is on disk from before the broadcast
until the spawn is closed (`GiftIntended`). `TypeOK` and `InheritanceInv` are
inductive only together: a resume reads its spawn id from the store, and
`WorksOnOpenSpawn` is what says that it is one. The lemmas say in turn what a step
does to the store (`StoreStep`, `KeyStep`), to the outside (`WorldChange`,
`GiftChange`) and to control (`PipelineStep`, `ProcessStep`); the invariant's parts
follow from those. `WriteAhead` needs that the three intents stay on disk at the
points that act on them (`IntentsOnDisk`); the refinement needs in addition that
history holds only spawns that were started and not the open one.

`SpawnDeliveryProofs` continues with what spans several attempts of one spawn:

| Theorem | Property | Hypothesis |
|---|---|---|
| `InheritanceReachesChild` | `InheritanceSpendable` | none |
| `SuccessIsDelivered` | `CompletedIsDelivered` | none |
| `NothingLeftBehind` | `NoStaleKeys` | no signals |
| `StoreBehindWorld` | `StoreNeverAhead` | no signals |
| `OneServerPerSpawn` | `ServerOnce` | no signals |
| `OnePaymentPerSpawn` | `FundingOnce` | no indexer lag (signals may arrive) |

TLC finds each of the last four violated without its hypothesis (`spawn_stale` and
`spawn_lag` keep the two counterexamples the code's documents speak about). Common to
all is `TokenInv`: a token in memory or in the store belongs to one spawn, and what was
paid to it or is hosted under it is counted for that spawn. On top of it, each theorem
has an invariant of its own: memory and store agree on the identity once it is
recorded, and a gift went to it (`IdentityInv`); keys and points that claim something
have the world behind them (`DeliveryInv`); the steps that record an answer have it
(`StoreInv`); a spawn about to launch, or to pay, has not done so, and one that has
would find it through its intent (`ServerInv`, `FundingInv`).

### Democracy gossip

`DemocracyGossipProofs` proves, for every network, every set of objects and every
bound:

* `GossipTypeCorrect`: `Spec => []TypeOK`;
* `DatabaseIntegrity`: `Spec => []SchemaHolds` (foreign and unique keys);
* `ProvenanceHolds`: `Spec => []Provenance`;
* `ImplementsReplicatedStore`: `Spec => RefinesReplica`.

`GossipAssumption` is all it assumes: links are symmetric and join two peers, and the
constants that describe objects have their types. The inductive invariant is the
conjunction of the invariants. `Provenance` is what carries it: a message is backed
by the store it speaks of, which only grows, so an object that is delivered is held
by the peer that sent it. `StepEffect` reduces every step to "nothing, or one object
gained", from which integrity (`GainKeepsIntegrity`) and the refinement follow.

### Decision loop

`DecisionLoopProofs` proves, for all prices, thresholds, peers and faults:

* `CriticalActionsExclude`: `Spec => []OneCriticalAction`. Inductive with the types of
  the two flags: `TickMoves`, `RecoverMoves`, `RefreshMoves` and `OtherMoves` list what
  a step may do to the flags and to the task's place.
* `LoopTypeCorrect`: `Spec => []TypeOK`, with the fact that a sweep has a target.
* `AccountNotOverfilled`: `Spec => []NoOverbuying`. `AccountKnown` relates the account
  and the credit under way to the published state, to what each refresh was told and to
  the invoice in hand; the published state may be replaced by the other refresh between
  any two steps.
* `FailsafeOnlyWhenExhausted`: `Spec => FailsafeWhenExhausted`, from `RunwayKnown`: when
  the monitor is not in the middle of a refresh, the true runway is at most what the
  published state says, unless the last refresh raised; and from `ScanCurrent`: what the
  monitor scanned in the loop's sleep is what the wallet's database holds, so that no
  overlap of refreshes reaches the next tick.
* `SpawnKeepsRunway`: `Spec => SpawnLeavesRunway`, from `BalanceKnown`. It assumes that
  a day costs at least one satoshi: below that the code counts the outlay as no days
  (`if cost_per_day > 0 else 0` in `spawn_thresholds.py`) and no longer tests what
  the spawn leaves.

The three properties about money except, by name, the kinds of trouble under which the
code does not keep them: a failed `get_info` and a credit on its way (`NoOverbuying`,
`FailsafeWhenExhausted`), a failed scan and two refreshes that overlap
(`SpawnLeavesRunway`), and for all three a tick that decides on the state a refresh that
raised left behind. TLC finds each property violated when any one of its exceptions is
dropped. Lost answers, crashes, restarts and refreshes that raised and were made good by
a later one are not excepted.

The lemmas about `SpawnThresholds` say what its roundings may lose (`NeededDollars`,
`TotalRunway` and the outlay), so that the theorems hold with the code's roundings.

### Funding

`CampaignFundingProofs` proves, for every set of peers, campaigns, coins and values:

* `FundingTypeCorrect`: `Spec => []TypeOK`;
* `FinalTransactionSound`: `Spec => []FinalTxSound`;
* `SelectionNeedsNoMore`: `Spec => []FewestInputs`;
* `SubmittedPledgesCount`: `Spec => OwnPledgesCount`.

The inductive invariant `FundingInv` says of a call under way that it collected only
stored pledges for its campaign, prepared them at their coins' real value, chose inputs
that are worth what is required and no more of them than any other choice, and began
before the deadline (`CallSound`, `CallBest`); of repositories that they are finite and
hold one pledge per campaign and coin (`OnePledge`); and of what was sent that it is
sound. Since repositories only grow, whatever the chain and the peers do during a call
leaves this true.

`OwnPledgesCount` needs that a pledge with a good signature and its coin's real value was
accepted at some time (`OwnSettled`): its coin then had its confirmations, and keeps them
because the chain only grows (`SettledStays`). A call compares its own height with the
deadline, so that blocks during the call do not disqualify the pledges it has not yet
looked at.

That the greedy choice of `_select_pledges` needs the fewest inputs is an exchange
argument: until one pledge is enough to finish, the largest are taken, so what was
chosen before the last round is worth at least as much as any other choice of that size
(`OutweighsTotal`), and it did not suffice (`StageStep`, `SelectionFewest`). It needs induction over the recursive selection and over sums of
finite sets. The library's induction theorems have an operator parameter that the
provers cannot instantiate; the proofs use that a collection of finite sets, or a set
of numbers, has a least member (`SmallestSubset`, `SmallestNumber`, from `WFMin`),
and derive a contradiction from a smallest counterexample.

### Authentication, IPv8 thread and health checker

`AuthenticationProofs` proves, for every set of keys, store size, lifetime and number
of failures, `AuthenticationTypeCorrect`, `SignatureAcceptedOnce` (`[]NoReplay`),
`ChallengeStoreBounded` (`[]StoreBounded`) and `RefusalIsJustified`
(`[]RefusedOnlyIfFull`: in every state, a key that `save` would refuse has exactly
`max_size` other keys with live challenges against it, its own not counted; this rests on
the bound of the store). `NoReplay` needs that a signature which was accepted, and still
is of the latest challenge, is of a challenge no longer stored (`UsedIsSpent`): a login
consumes its challenge and a new one makes the signature old. `StoreBounded` needs that
the store is finite, and `SaveEffect` what `save` keeps of it.

`IPv8ThreadProofs` proves, for every number of objects, `ThreadTypeCorrect` and
`BroadcastsInOrder` (`[]SentInOrder`). `OrderInv` says that objects are in order in
each of `ready`, `pending` and `sent` and from each to the next, and that nothing
waits once the overlay is set; the lemmas before it say what appending, taking the
head and joining do to such sequences.

`SwarmHealthProofs` proves, for every set of torrents, threshold, purge interval and
number of faults, `HealthTypeCorrect` and `SamplesOfStoredContent` (`[]SamplesBelong`).
What is probed is stored, because the thread that purges is the one that probes
(`ProbedIsStored`); `FewSamples` counts the cycles since the last purge and, for every
restart that forgets them, a purge interval more.

### Only model-checked

Liveness, which the prover does not reach: `SpawnResolves`, `Converges`, `SpreadEnds`,
`EventuallyFunded`, `FundsRescued`, `LoginPossible`, `EveryRowSampled`, `SilentIsPurged`, `BroadcastsSent` and `ThreadEnds`. The four
violated runs are counterexamples and need no proof.

## 4. What the violated runs, and reading beside them, show

The four violated runs are listed with the lines they contradict in `PROJECT.json`.
Other disagreements between code and its documents, without a run:

* a resumed spawn is sized from the balance after its invoice was paid, although a
  comment of `transfer_inheritance` says before;
* a failed spawn stays in progress until somebody restarts the node, because the flag
  defers the update restart (`SpawnResolves` assumes the operator);
* of two rival campaigns the one a peer rejected, and every pledge for it, is asked for
  and sent again after every announcement (`SpreadEnds` excepts contested objects and
  what descends from them);
* the docstring of `compute_funding_status` names two errors, but one stored pledge that
  cannot be finalized makes it raise for the campaign's every pledger, and no operation
  removes that pledge;
* `refresh` swallows every exception and keeps the state before it: the tick that pays
  for days and then decides on a spawn does so on the balance from before the payment
  (`SpawnLeavesRunway`, `NoOverbuying` and `FailsafeWhenExhausted` except it);
* the failsafe fires on an account query that was not answered
  (`FailsafeWhenExhausted` excepts it);
* a comment allows `BTC_USD_RATE = 0`, by which `_vps_cost_sat` divides;
* the health checker's README describes retries of a probe that the code has not;
* a broadcast before the loop of the IPv8 thread exists is dropped, a stop before it
  is ignored, and after a failed start `_pending` grows for ever;
* nothing records that a campaign was paid: with pledges left it can be paid again;
* opening the join overlay again replaces the pending identity, and a payment made for
  it can no longer be registered;
* an abandoned spawn may launch a second server after a signal (see Bounds).

## 5. Not modelled

* Vendored IPv8 (`crowdsourced_learn_to_rank/ipv8`), generated resources
  (`ui/resources`), data sets, notebooks, trained models and benchmark scripts: by far
  most of the repository's lines, and none of its own logic.
* Learning to rank: what it exchanges are numbers of a statistical model.
* User interface: presentation, but for the calls that `Authentication` models.
* SSH, git, HTTP and electrum commands, torrent transfers, bitcoinlib's selection of
  coins, the byte layout of messages and transactions: libraries and I/O. Their effect
  on what is modelled, and their failures, are actions.
* `mutate_caution_trait`: a Gaussian draw. The metrics of the health checker: floating
  point. Cryptography and the parsing of registration outputs: their verdict is an
  input.
* Genesis scripts and the local simulation: run by hand, or stand-ins for the external
  services.
* The delete and replace operations of the democracy repository: they have no caller.
* Two windows of a few bytecodes in which a signal could fall: between a tick's look at
  the flags and `mark_spawn_started` (`decision_loop.py:110-187`, one step `Tick` of
  `SpawnPipeline`), and between the read of the spawn id and the transaction in
  `mark_spawn_completed` (`state.py:114-127`).
* Samples that pile up: the bound of `SamplesBelong` grows with every restart, because
  the purge counts its cycles in memory. A stream of new torrents without end, which
  would keep older rows from being sampled: `Content` is finite.

## 6. Plan

Every component of the table in section 2 is modelled and every safety property of the
runs is proved. What is left:

1. The abstraction behind liveness that TLC checks on one instance: for each leads-to
   property, the safety part of the argument (what a waiting state keeps until the
   helpful step, and that a measure falls) can be stated as action properties and
   proved; the fairness part stays with TLC.
2. `IPv8Thread` and `DemocracyGossip`: that the outbox of the gossip is what the thread
   below it delivers, as a refinement of a common queue.
3. `SpawnDeliveryProofs`: what still holds of servers and records when signals arrive
   (for instance, at most one launch per spawn beyond the cancelled one).
