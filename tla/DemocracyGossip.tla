---------------------------- MODULE DemocracyGossip ----------------------------
(***************************************************************************)
(* Replication of democracy objects between peers: the application creates *)
(* an object and hands it to the network thread, peers announce what they  *)
(* have (IHAVE), ask for what they miss (IWANT) and send full objects, over *)
(* UDP, which loses, duplicates and reorders (network/community.py,        *)
(* network/replication.py, storage/sqlite_repository.py).                  *)
(*                                                                         *)
(* Objects are numbered in the canonical order of gossip items, by object  *)
(* type and then by UUID.  Their contents are the constants below: type,   *)
(* the object a foreign key points to, the value of the UNIQUE constraint  *)
(* (NoClaim when the table has none) and the peer whose user makes it.     *)
(***************************************************************************)
EXTENDS Naturals, FiniteSets

CONSTANTS
  Peers,
  Links,        \* pairs of peers that know each other (get_peers)
  Objects,
  ObjectType, Parent, Claim, Author,
  NoParent, NoClaim,
  MaxItems,     \* gossip items that fit one message, 79 in the code
  MaxInFlight,  \* bound: messages in flight when one is sent unasked
  MaxFaults     \* bound: messages lost or duplicated

Types == {"issue", "issue_vote", "solution", "solution_vote",
          "funding_campaign", "funding_pledge"}

ASSUME GossipAssumption ==
  /\ Links \subseteq Peers \X Peers
  /\ \A l \in Links : l[1] # l[2] /\ <<l[2], l[1]>> \in Links
  /\ Objects \subseteq Nat /\ IsFiniteSet(Objects)
  /\ ObjectType \in [Objects -> Types]
  /\ Parent \in [Objects -> Objects \cup {NoParent}] /\ NoParent \notin Objects
  /\ Author \in [Objects -> Peers]
  /\ MaxItems \in Nat \ {0} /\ MaxInFlight \in Nat /\ MaxFaults \in Nat

VARIABLES
  store,     \* rows of each peer's database
  outbox,    \* objects handed to a peer's network thread, not yet sent
  net,       \* messages in flight
  faults

vars == <<store, outbox, net, faults>>

Message == [kind : {"ihave", "iwant", "object"}, from : Peers, to : Peers,
            items : SUBSET Objects]

Init ==
  /\ store = [p \in Peers |-> {}]
  /\ outbox = [p \in Peers |-> {}]
  /\ net = {} /\ faults = 0

-----------------------------------------------------------------------------
(* The repository.                                                          *)

(* A schema without its foreign keys (the pragma is off by default). *)
ReferencesHold_Off(rows, o) == TRUE
ReferencesHold(rows, o) == Parent[o] = NoParent \/ Parent[o] \in rows

ClaimFree(rows, o) ==
  \A r \in rows : ObjectType[r] = ObjectType[o] /\ Claim[r] = Claim[o]
                  => Claim[o] = NoClaim

(* An INSERT goes through; otherwise it raises IntegrityError, which       *)
(* store_remote reports as REJECTED, or ALREADY_PRESENT for a second vote. *)
Accepts(rows, o) == ReferencesHold(rows, o) /\ ClaimFree(rows, o)

(* The application publishes what DemocracyService creates; the funding    *)
(* service has no publisher and leaves its objects to the announcements.   *)
Published(o) ==
  ObjectType[o] \in {"issue", "issue_vote", "solution", "solution_vote"}

-----------------------------------------------------------------------------
(* Messages.                                                                *)

Neighbours(p) == {q \in Peers : <<p, q>> \in Links}

To(kind, p, q, items) == [kind |-> kind, from |-> p, to |-> q, items |-> items]

(* _multicast *)
Multicast(kind, p, items, skip) ==
  {To(kind, p, q, items) : q \in Neighbours(p) \ skip}

(* The index of an item in the canonical order. *)
Position(items, o) == Cardinality({i \in items : i < o})

(* A batch of indexes in place of the items at them. *)
Batches_Indexes(items) == {{Position(items, o) : o \in items}}

(* batch_gossip_items cuts the sorted items every MaxItems. *)
Batches(items) ==
  {{o \in items : Position(items, o) \div MaxItems
                  = Position(items, first) \div MaxItems} : first \in items}

(* _announce_inventory *)
AnnounceInventory(p, items, skip) ==
  UNION {Multicast("ihave", p, batch, skip) : batch \in Batches(items)}

-----------------------------------------------------------------------------
(* The application: DemocracyService and FundingService, in the GUI thread. *)

(* A created object is handed to the network thread. *)
HandOver(p, o) ==
  outbox' = [outbox EXCEPT ![p] = IF Published(o) THEN @ \cup {o} ELSE @]

(* A service that publishes a vote the repository refused as well. *)
Create_PublishesRefused(p, o) ==
  /\ Author[o] = p
  /\ o \notin store[p]
  /\ store' = [store EXCEPT ![p] = IF Accepts(@, o) THEN @ \cup {o} ELSE @]
  /\ HandOver(p, o)
  /\ UNCHANGED <<net, faults>>

(* The INSERT is committed before anything is published. *)
Create(p, o) ==
  /\ Author[o] = p
  /\ o \notin store[p]
  /\ Accepts(store[p], o)
  /\ store' = [store EXCEPT ![p] = @ \cup {o}]
  /\ HandOver(p, o)
  /\ UNCHANGED <<net, faults>>

(* The network thread: broadcast_created_model. *)
Publish(p, o) ==
  /\ o \in outbox[p]
  /\ Cardinality(net) < MaxInFlight
  /\ outbox' = [outbox EXCEPT ![p] = @ \ {o}]
  /\ net' = net \cup Multicast("object", p, {o}, {})
  /\ UNCHANGED <<store, faults>>

(* The thread is not running, fails to start or is stopped: what it was    *)
(* handed is dropped (_loop is None, _pending.clear, stop).                *)
DropOutbox(p) ==
  /\ outbox[p] # {}
  /\ outbox' = [outbox EXCEPT ![p] = {}]
  /\ UNCHANGED <<store, net, faults>>

(* A community whose on_start registers no periodic task. *)
AnnounceFullInventory_Never(p) == FALSE /\ UNCHANGED vars

(* The periodic task _announce_full_inventory. *)
AnnounceFullInventory(p) ==
  /\ Cardinality(net) < MaxInFlight
  /\ net' = net \cup AnnounceInventory(p, store[p], {})
  /\ net' # net
  /\ UNCHANGED <<store, outbox, faults>>

-----------------------------------------------------------------------------
(* Handlers.  A message is consumed, or stays for a second delivery.        *)

Consume(m) == net \ {m}

(* A handler that asks for everything it is told of. *)
Missing_All(p, items) == items
Missing(p, items) == items \ store[p]

(* on_ihave_message *)
OnIHave(m, rest) ==
  /\ m \in net /\ m.kind = "ihave"
  /\ net' = rest \cup {To("iwant", m.to, m.from, batch) :
                         batch \in Batches(Missing(m.to, m.items))}
  /\ UNCHANGED <<store, outbox>>

(* _send_object: what is not stored is not sent. *)
Answer(p, items) == items \cap store[p]

(* on_iwant_message *)
OnIWant(m, rest) ==
  /\ m \in net /\ m.kind = "iwant"
  /\ net' = rest \cup {To("object", m.to, m.from, {o}) :
                         o \in Answer(m.to, m.items)}
  /\ UNCHANGED <<store, outbox>>

(* An INSERT OR REPLACE, which drops the row it conflicts with. *)
Stored_Replaces(m, o, rest) ==
  /\ o \notin store[m.to]
  /\ ReferencesHold(store[m.to], o)
  /\ store' = [store EXCEPT ![m.to] = {r \in @ : ClaimFree({r}, o)} \cup {o}]
  /\ net' = rest \cup AnnounceInventory(m.to, {o}, {m.from})

(* _handle_object_message: store_remote says STORED, and the object is     *)
(* announced to everyone but its sender.                                   *)
Stored(m, o, rest) ==
  /\ o \notin store[m.to]
  /\ Accepts(store[m.to], o)
  /\ store' = [store EXCEPT ![m.to] = @ \cup {o}]
  /\ net' = rest \cup AnnounceInventory(m.to, {o}, {m.from})

(* ... or ALREADY_PRESENT, or REJECTED: nothing happens. *)
NotStored(m, o, rest) ==
  /\ o \in store[m.to] \/ ~Accepts(store[m.to], o)
  /\ net' = rest /\ UNCHANGED store

OnObject(m, rest) ==
  /\ m \in net /\ m.kind = "object"
  /\ \E o \in m.items : Stored(m, o, rest) \/ NotStored(m, o, rest)
  /\ UNCHANGED outbox

Receive(m) ==
  \/ OnIHave(m, Consume(m)) /\ UNCHANGED faults
  \/ OnIWant(m, Consume(m)) /\ UNCHANGED faults
  \/ OnObject(m, Consume(m)) /\ UNCHANGED faults

Fault == faults < MaxFaults /\ faults' = faults + 1

Lose(m) == Fault /\ net' = Consume(m) /\ UNCHANGED <<store, outbox>>

ReceiveCopy(m) ==
  Fault /\ (OnIHave(m, net) \/ OnIWant(m, net) \/ OnObject(m, net))

Next ==
  \/ \E p \in Peers, o \in Objects : Create(p, o) \/ Publish(p, o)
  \/ \E p \in Peers : DropOutbox(p) \/ AnnounceFullInventory(p)
  \/ \E m \in net : Receive(m) \/ Lose(m) \/ ReceiveCopy(m)

Spec == Init /\ [][Next]_vars

-----------------------------------------------------------------------------
(* Fairness: IPv8 runs the periodic task of every peer, and some datagram   *)
(* arrives while there are any.  The task is strongly fair because          *)
(* MaxInFlight, which can disable it again and again, is a bound of the     *)
(* model.                                                                   *)
Fairness ==
  /\ \A p \in Peers : SF_vars(AnnounceFullInventory(p))
  /\ WF_vars(\E m \in net : Receive(m))

FairSpec == Spec /\ Fairness

-----------------------------------------------------------------------------
(* Properties.                                                              *)

TypeOK ==
  /\ store \in [Peers -> SUBSET Objects]
  /\ outbox \in [Peers -> SUBSET Objects]
  /\ net \subseteq Message
  /\ faults \in 0..MaxFaults

(* No vote, solution, campaign or pledge without the object it refers to. *)
ReferentialIntegrity ==
  \A p \in Peers : \A o \in store[p] : Parent[o] \in store[p] \cup {NoParent}

Rivals(o, r) == /\ o # r /\ ObjectType[o] = ObjectType[r]
                /\ Claim[o] = Claim[r] /\ Claim[o] # NoClaim

(* Not two votes of one voter, campaigns of one solution, pledges of one   *)
(* coin.                                                                   *)
UniqueClaims == \A p \in Peers : \A o, r \in store[p] : ~Rivals(o, r)

(* Every database keeps its foreign and its unique keys, however datagrams *)
(* were reordered and although different peers may send it both of two     *)
(* rivals: store_remote rejects a child that overtakes its parent, and the *)
(* second of two rivals.                                                   *)
SchemaHolds == ReferentialIntegrity /\ UniqueClaims

(* Whatever is held was made: its author holds it.  Whatever is announced, *)
(* sent or published is held by the peer that does so, and whatever is     *)
(* asked for is held by the peer that is asked, so no request is in vain.  *)
HeldByAuthor == \A p \in Peers : \A o \in store[p] : o \in store[Author[o]]
MessagesBacked ==
  \A m \in net : m.items \subseteq store[IF m.kind = "iwant" THEN m.to ELSE m.from]
Provenance ==
  /\ HeldByAuthor
  /\ \A p \in Peers : outbox[p] \subseteq store[p]
  /\ MessagesBacked

(* The peers implement the replicated store: they only ever make their own *)
(* objects or learn the ones of others, one at a time, within the schema.  *)
Replica == INSTANCE ReplicatedStore
RefinesReplica == Replica!Spec

(* An object whose ancestors have no rivals can be stored by everyone. *)
Uncontested[o \in Objects] ==
  \/ Parent[o] = NoParent
  \/ /\ \A r \in Objects : ~Rivals(Parent[o], r)
     /\ Uncontested[Parent[o]]

(* Everything made reaches every peer, or a rival of it does: although the *)
(* network thread may drop what it was handed, datagrams are lost and      *)
(* children that overtake their parents are rejected, the announcements    *)
(* offer it again.                                                         *)
Converges ==
  \A o \in Objects : Uncontested[o] =>
    \A p \in Peers :
      o \in store[Author[o]] ~> \E r \in store[p] : r = o \/ Rivals(o, r)

(* An object that some peer may have to refuse for good: it has a rival,   *)
(* or an ancestor of it has one and the foreign key keeps it out.          *)
Contested(o) == ~Uncontested[o] \/ \E r \in Objects : Rivals(o, r)

(* The gossip comes to rest: in the end nobody asks for or sends an object *)
(* that neither has a rival nor descends from one that has, since          *)
(* everybody has it; repeated announcements and late datagrams start       *)
(* nothing again.                                                          *)
SpreadEnds ==
  <>[](\A m \in net : m.kind # "ihave" => \A o \in m.items : Contested(o))
===============================================================================
