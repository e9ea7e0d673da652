------------------------- MODULE DemocracyGossipProofs -------------------------
(***************************************************************************)
(* Proofs about DemocracyGossip, for every network, every set of objects   *)
(* and every bound: types, the integrity of every peer's database, the     *)
(* provenance of what it holds, and that the peers implement               *)
(* ReplicatedStore.                                                        *)
(***************************************************************************)
EXTENDS DemocracyGossip, TLAPS

-----------------------------------------------------------------------------
(* What is sent.                                                            *)

(* A batch is part of the items that were batched. *)
LEMMA BatchesWithin ==
  ASSUME NEW items, NEW batch \in Batches(items)
  PROVE  batch \subseteq items
BY DEF Batches

(* An announcement goes from the announcing peer and carries only items of *)
(* the inventory it was given.                                             *)
LEMMA AnnouncementCarries ==
  ASSUME NEW p \in Peers, NEW items \in SUBSET Objects, NEW skip,
         NEW m \in AnnounceInventory(p, items, skip)
  PROVE  /\ m \in Message /\ m.kind = "ihave" /\ m.from = p
         /\ m.items \subseteq items
<1>1. PICK batch \in Batches(items) : m \in Multicast("ihave", p, batch, skip)
  BY DEF AnnounceInventory
<1>2. batch \subseteq items
  BY BatchesWithin
<1>3. PICK q \in Peers : m = To("ihave", p, q, batch)
  BY <1>1 DEF Multicast, Neighbours
<1> QED
  BY <1>2, <1>3 DEF To, Message

-----------------------------------------------------------------------------
(* The disjuncts of the next-state relation, as the proofs split them.      *)

Deliver(m, rest) == OnIHave(m, rest) \/ OnIWant(m, rest) \/ OnObject(m, rest)

(* Every step is an action of the application or of the network thread, a  *)
(* loss, or the delivery of a message in flight that leaves some of the    *)
(* others in flight.                                                       *)
LEMMA StepCases ==
  ASSUME Next, TypeOK
  PROVE  \/ \E p \in Peers, o \in Objects : Create(p, o)
         \/ \E p \in Peers, o \in Objects : Publish(p, o)
         \/ \E p \in Peers : DropOutbox(p)
         \/ \E p \in Peers : AnnounceFullInventory(p)
         \/ \E m \in net : Lose(m)
         \/ \E m \in net, rest \in SUBSET net :
              Deliver(m, rest) /\ faults' \in 0..MaxFaults
<1>1. CASE \E p \in Peers, o \in Objects : Create(p, o) \/ Publish(p, o)
  BY <1>1
<1>2. CASE \E p \in Peers : DropOutbox(p) \/ AnnounceFullInventory(p)
  BY <1>2
<1>3. ASSUME NEW m \in net, Receive(m)
      PROVE  Deliver(m, net \ {m}) /\ faults' \in 0..MaxFaults
  BY <1>3, Zenon DEF Receive, Deliver, Consume, TypeOK
<1>4. ASSUME NEW m \in net, ReceiveCopy(m)
      PROVE  Deliver(m, net) /\ faults' \in 0..MaxFaults
  <2>1. faults' \in 0..MaxFaults
    BY <1>4, GossipAssumption DEF ReceiveCopy, Fault, TypeOK
  <2> QED
    BY <1>4, <2>1 DEF ReceiveCopy, Deliver
<1>5. CASE \E m \in net : Receive(m) \/ Lose(m) \/ ReceiveCopy(m)
  BY <1>3, <1>4, <1>5
<1> QED
  BY <1>1, <1>2, <1>5 DEF Next

-----------------------------------------------------------------------------
(* What a step changes.                                                     *)

(* What a delivery changes: at most one object is added to the store of    *)
(* the addressee, when it is new there and the schema accepts it, and what *)
(* is sent is an answer backed by the store it says it is.                 *)
LEMMA DeliverEffect ==
  ASSUME TypeOK, MessagesBacked, NEW m \in net, NEW rest \in SUBSET net,
         Deliver(m, rest)
  PROVE  /\ outbox' = outbox
         /\ \/ store' = store
            \/ \E o \in m.items :
                 /\ m.kind = "object"
                 /\ o \notin store[m.to] /\ Accepts(store[m.to], o)
                 /\ store' = [store EXCEPT ![m.to] = @ \cup {o}]
         /\ \A n \in net' \ net :
              /\ n \in Message
              /\ n.items \subseteq store'[IF n.kind = "iwant" THEN n.to ELSE n.from]
<1> m \in Message
  BY DEF TypeOK
<1>1. CASE OnIHave(m, rest)
  <2>1. ASSUME NEW n \in net' \ net
        PROVE  n \in Message /\ n.kind = "iwant" /\ n.to = m.from
               /\ n.items \subseteq m.items
    <3>1. PICK batch \in Batches(Missing(m.to, m.items)) :
            n = To("iwant", m.to, m.from, batch)
      BY <1>1, <2>1 DEF OnIHave
    <3>2. batch \subseteq m.items
      BY BatchesWithin DEF Missing
    <3> QED
      BY <3>1, <3>2 DEF To, Message
  <2>2. m.items \subseteq store[m.from]
    BY <1>1 DEF MessagesBacked, OnIHave
  <2> QED
    BY <1>1, <2>1, <2>2 DEF OnIHave
<1>2. CASE OnIWant(m, rest)
  <2>1. ASSUME NEW n \in net' \ net
        PROVE  n \in Message /\ n.kind = "object" /\ n.from = m.to
               /\ n.items \subseteq store[m.to]
    <3>1. PICK o \in Answer(m.to, m.items) : n = To("object", m.to, m.from, {o})
      BY <1>2, <2>1 DEF OnIWant
    <3>2. o \in store[m.to] /\ o \in Objects
      BY <3>1 DEF Answer, Message
    <3> QED
      BY <3>1, <3>2 DEF To, Message
  <2> QED
    BY <1>2, <2>1 DEF OnIWant
<1>3. CASE OnObject(m, rest)
  <2>1. PICK o \in m.items : Stored(m, o, rest) \/ NotStored(m, o, rest)
    BY <1>3 DEF OnObject
  <2>2. CASE NotStored(m, o, rest)
    BY <1>3, <2>2 DEF NotStored, OnObject
  <2>3. CASE Stored(m, o, rest)
    <3>0. o \in Objects /\ m.to \in Peers
      BY DEF Message
    <3>1. store'[m.to] = store[m.to] \cup {o}
      BY <2>3, <3>0 DEF Stored, TypeOK
    <3>2. ASSUME NEW n \in net' \ net
          PROVE  /\ n \in Message /\ n.kind = "ihave" /\ n.from = m.to
                 /\ n.items \subseteq {o}
      <4>1. n \in AnnounceInventory(m.to, {o}, {m.from})
        BY <2>3, <3>2 DEF Stored
      <4>2. {o} \in SUBSET Objects
        BY <3>0
      <4> QED
        BY <4>1, <4>2, <3>0, AnnouncementCarries
    <3> QED
      BY <1>3, <2>3, <3>1, <3>2 DEF Stored, OnObject
  <2> QED
    BY <2>1, <2>2, <2>3
<1> QED
  BY <1>1, <1>2, <1>3 DEF Deliver

(* A peer gains one object: it made it, or another peer already has it. *)
Gains(p, o) ==
  /\ o \notin store[p] /\ Accepts(store[p], o)
  /\ store' = [store EXCEPT ![p] = @ \cup {o}]
  /\ Author[o] = p \/ \E q \in Peers : o \in store[q]

(* Every step leaves the stores alone or adds one object to one of them,   *)
(* and keeps the messages and the outboxes backed by the stores.           *)
LEMMA StepEffect ==
  ASSUME TypeOK, Provenance, Next
  PROVE  /\ store' = store \/ \E p \in Peers, o \in Objects : Gains(p, o)
         /\ outbox' \in [Peers -> SUBSET Objects]
         /\ \A p \in Peers : outbox'[p] \subseteq store'[p]
         /\ faults' \in 0..MaxFaults
         /\ \A n \in net' \ net :
              /\ n \in Message
              /\ n.items \subseteq store'[IF n.kind = "iwant" THEN n.to ELSE n.from]
<1>1. CASE \E p \in Peers, o \in Objects : Create(p, o)
  <2>1. PICK p \in Peers, o \in Objects : Create(p, o)
    BY <1>1
  <2>2. Gains(p, o) /\ store'[p] = store[p] \cup {o}
    BY <2>1 DEF Create, Gains, TypeOK
  <2>3. /\ outbox' \in [Peers -> SUBSET Objects]
        /\ \A q \in Peers : outbox'[q] \subseteq store'[q]
    BY <2>1 DEF Create, HandOver, TypeOK, Provenance
  <2> QED
    BY <2>1, <2>2, <2>3 DEF Create, TypeOK
<1>2. CASE \E p \in Peers, o \in Objects : Publish(p, o)
  <2>1. PICK p \in Peers, o \in Objects : Publish(p, o)
    BY <1>2
  <2>2. o \in store[p]
    BY <2>1 DEF Publish, Provenance
  <2>3. ASSUME NEW n \in net' \ net
        PROVE  n \in Message /\ n.kind = "object" /\ n.from = p /\ n.items = {o}
    <3>1. PICK q \in Peers : n = To("object", p, q, {o})
      BY <2>1, <2>3 DEF Publish, Multicast, Neighbours
    <3> QED
      BY <3>1 DEF To, Message
  <2>4. /\ outbox' \in [Peers -> SUBSET Objects]
        /\ \A q \in Peers : outbox'[q] \subseteq outbox[q]
    BY <2>1 DEF Publish, TypeOK
  <2>5. store' = store /\ faults' = faults
    BY <2>1 DEF Publish
  <2> QED
    BY <2>2, <2>3, <2>4, <2>5 DEF TypeOK, Provenance
<1>3. CASE \E p \in Peers : DropOutbox(p)
  BY <1>3 DEF DropOutbox, TypeOK, Provenance
<1>4. CASE \E p \in Peers : AnnounceFullInventory(p)
  <2>1. PICK p \in Peers : AnnounceFullInventory(p)
    BY <1>4
  <2>2. store[p] \in SUBSET Objects
    BY DEF TypeOK
  <2>3. ASSUME NEW n \in net' \ net
        PROVE  n \in Message /\ n.kind = "ihave" /\ n.from = p
               /\ n.items \subseteq store[p]
    <3>1. n \in AnnounceInventory(p, store[p], {})
      BY <2>1, <2>3 DEF AnnounceFullInventory
    <3> QED
      BY <3>1, <2>2, AnnouncementCarries
  <2> QED
    BY <2>1, <2>3 DEF AnnounceFullInventory, TypeOK, Provenance
<1>5. CASE \E m \in net : Lose(m)
  <2>1. faults' \in 0..MaxFaults
    BY <1>5, GossipAssumption DEF Lose, Fault, TypeOK
  <2> QED
    BY <1>5, <2>1 DEF Lose, Consume, TypeOK, Provenance
<1>6. CASE \E m \in net, rest \in SUBSET net :
             Deliver(m, rest) /\ faults' \in 0..MaxFaults
  <2>1. PICK m \in net, rest \in SUBSET net :
               Deliver(m, rest) /\ faults' \in 0..MaxFaults
    BY <1>6
  <2>2. m \in Message /\ MessagesBacked
    BY DEF TypeOK, Provenance
  <2>3. /\ outbox' = outbox
        /\ \/ store' = store
           \/ \E o \in m.items :
                /\ m.kind = "object"
                /\ o \notin store[m.to] /\ Accepts(store[m.to], o)
                /\ store' = [store EXCEPT ![m.to] = @ \cup {o}]
        /\ \A n \in net' \ net :
             /\ n \in Message
             /\ n.items \subseteq store'[IF n.kind = "iwant" THEN n.to ELSE n.from]
    BY <2>1, <2>2, DeliverEffect
  <2>4. CASE store' = store
    BY <2>1, <2>3, <2>4 DEF TypeOK, Provenance
  <2>5. ASSUME NEW o \in m.items, m.kind = "object",
               o \notin store[m.to], Accepts(store[m.to], o),
               store' = [store EXCEPT ![m.to] = @ \cup {o}]
        PROVE  /\ o \in Objects /\ m.to \in Peers /\ Gains(m.to, o)
               /\ \A p \in Peers : outbox[p] \subseteq store'[p]
    <3>1. o \in Objects /\ m.to \in Peers /\ m.from \in Peers
      BY <2>2 DEF Message
    <3>2. o \in store[m.from]
      BY <2>2, <2>5 DEF MessagesBacked
    <3> QED
      BY <2>5, <3>1, <3>2 DEF Gains, TypeOK, Provenance
  <2> QED
    BY <2>1, <2>3, <2>4, <2>5 DEF TypeOK
<1> QED
  BY <1>1, <1>2, <1>3, <1>4, <1>5, <1>6, StepCases

-----------------------------------------------------------------------------
(* The inductive invariant.                                                 *)

GossipInv == TypeOK /\ ReferentialIntegrity /\ UniqueClaims /\ Provenance

(* One more object keeps a database whole: that is what the schema checks. *)
LEMMA GainKeepsIntegrity ==
  ASSUME GossipInv, NEW p \in Peers, NEW o \in Objects, Gains(p, o)
  PROVE  /\ store' \in [Peers -> SUBSET Objects]
         /\ \A q \in Peers : store[q] \subseteq store'[q]
         /\ ReferentialIntegrity' /\ UniqueClaims' /\ HeldByAuthor'
<1>1. \A q \in Peers : store'[q] = IF q = p THEN store[q] \cup {o} ELSE store[q]
  BY DEF Gains, GossipInv, TypeOK
<1>2. store' \in [Peers -> SUBSET Objects]
  BY DEF Gains, GossipInv, TypeOK
<1>3. ReferentialIntegrity'
  BY <1>1 DEF ReferentialIntegrity, GossipInv, Gains, Accepts, ReferencesHold
<1>4. UniqueClaims'
  <2>1. \A r \in store[p] : ~Rivals(o, r) /\ ~Rivals(r, o)
    BY DEF Gains, Accepts, ClaimFree, Rivals
  <2>2. ~Rivals(o, o)
    BY DEF Rivals
  <2>3. \A q \in Peers : \A x, y \in store[q] : ~Rivals(x, y)
    BY DEF GossipInv, UniqueClaims
  <2>4. ASSUME NEW q \in Peers, NEW x \in store'[q], NEW y \in store'[q]
        PROVE  ~Rivals(x, y)
    <3>1. x = o \/ x \in store[q]
      BY <1>1
    <3>2. y = o \/ y \in store[q]
      BY <1>1
    <3>3. CASE q = p
      BY <2>1, <2>2, <2>3, <3>1, <3>2, <3>3
    <3>4. CASE q # p
      BY <1>1, <2>3, <3>4
    <3> QED
      BY <3>3, <3>4
  <2> QED
    BY <2>4 DEF UniqueClaims
<1>5. HeldByAuthor'
  <2>1. \A q \in Peers : \A x \in store[q] : x \in Objects /\ x \in store[Author[x]]
    BY DEF GossipInv, TypeOK, Provenance, HeldByAuthor
  <2>2. o \in store'[Author[o]]
    BY <1>1, <2>1, GossipAssumption DEF Gains
  <2>3. ASSUME NEW q \in Peers, NEW x \in store'[q] PROVE x \in store'[Author[x]]
    <3>1. x = o \/ x \in store[q]
      BY <1>1
    <3>2. CASE x \in store[q]
      <4>1. Author[x] \in Peers /\ x \in store[Author[x]]
        BY <2>1, <3>2, GossipAssumption
      <4> QED
        BY <1>1, <4>1
    <3> QED
      BY <2>2, <3>1, <3>2
  <2> QED
    BY <2>3 DEF HeldByAuthor
<1> QED
  BY <1>1, <1>2, <1>3, <1>4, <1>5

(* The invariant holds initially. *)
LEMMA GossipInvInit == Init => GossipInv
BY GossipAssumption DEF Init, GossipInv, TypeOK, ReferentialIntegrity,
   UniqueClaims, Provenance, HeldByAuthor, MessagesBacked

(* Every step preserves the invariant. *)
LEMMA GossipInvStep ==
  ASSUME GossipInv, Next
  PROVE  GossipInv'
<1>1. TypeOK /\ Provenance
  BY DEF GossipInv
<1>2. /\ store' = store \/ \E p \in Peers, o \in Objects : Gains(p, o)
      /\ outbox' \in [Peers -> SUBSET Objects]
      /\ \A p \in Peers : outbox'[p] \subseteq store'[p]
      /\ faults' \in 0..MaxFaults
      /\ \A n \in net' \ net :
           /\ n \in Message
           /\ n.items \subseteq store'[IF n.kind = "iwant" THEN n.to ELSE n.from]
  BY <1>1, StepEffect
<1>3. /\ store' \in [Peers -> SUBSET Objects]
      /\ \A q \in Peers : store[q] \subseteq store'[q]
      /\ ReferentialIntegrity' /\ UniqueClaims' /\ HeldByAuthor'
  <2>1. CASE store' = store
    BY <1>1, <2>1 DEF GossipInv, TypeOK, ReferentialIntegrity, UniqueClaims,
       Provenance, HeldByAuthor
  <2>2. CASE \E p \in Peers, o \in Objects : Gains(p, o)
    BY <2>2, GainKeepsIntegrity
  <2> QED
    BY <1>2, <2>1, <2>2
<1>4. TypeOK'
  BY <1>1, <1>2, <1>3 DEF TypeOK
<1>5. MessagesBacked'
  <2>1. ASSUME NEW n \in net'
        PROVE  n.items \subseteq store'[IF n.kind = "iwant" THEN n.to ELSE n.from]
    <3>1. CASE n \in net
      <4>1. n.to \in Peers /\ n.from \in Peers
        BY <1>1, <3>1 DEF TypeOK, Message
      <4> QED
        BY <1>1, <1>3, <3>1, <4>1 DEF Provenance, MessagesBacked
    <3> QED
      BY <1>2, <2>1, <3>1
  <2> QED
    BY <2>1 DEF MessagesBacked
<1> QED
  BY <1>2, <1>3, <1>4, <1>5 DEF GossipInv, Provenance

(* Every reachable state satisfies the invariant. *)
LEMMA GossipInvariant == Spec => []GossipInv
<1>1. GossipInv /\ [Next]_vars => GossipInv'
  <2> SUFFICES ASSUME GossipInv, [Next]_vars PROVE GossipInv'
    OBVIOUS
  <2>1. CASE Next
    BY <2>1, GossipInvStep
  <2>2. CASE UNCHANGED vars
    BY <2>2 DEF vars, GossipInv, TypeOK, ReferentialIntegrity, UniqueClaims,
       Provenance, HeldByAuthor, MessagesBacked
  <2> QED
    BY <2>1, <2>2
<1> QED
  BY <1>1, GossipInvInit, PTL DEF Spec

(* The gossip is type-correct: stores and outboxes hold objects, and every *)
(* message in flight is one of the protocol.                               *)
THEOREM GossipTypeCorrect == Spec => []TypeOK
<1>1. GossipInv => TypeOK
  BY DEF GossipInv
<1> QED
  BY <1>1, GossipInvariant, PTL

(* Whatever the network loses, repeats or reorders, no database holds an   *)
(* object without the one its foreign key names, nor two rivals for one    *)
(* unique key: votes of a voter, campaigns of a solution, pledges of a     *)
(* coin.                                                                   *)
THEOREM DatabaseIntegrity == Spec => []SchemaHolds
<1>1. GossipInv => SchemaHolds
  BY DEF GossipInv, SchemaHolds
<1> QED
  BY <1>1, GossipInvariant, PTL

(* What a peer holds, its author holds; what is announced or sent, its     *)
(* sender holds; what is asked for, the peer that is asked holds.          *)
THEOREM ProvenanceHolds == Spec => []Provenance
<1>1. GossipInv => Provenance
  BY DEF GossipInv
<1> QED
  BY <1>1, GossipInvariant, PTL

-----------------------------------------------------------------------------
(* The replicated store.                                                    *)

(* The gossip implements the replicated store: every step makes or learns  *)
(* one object within the schema, or leaves the stores alone.               *)
THEOREM ImplementsReplicatedStore == Spec => RefinesReplica
<1>1. Init => Replica!Init
  BY DEF Init, Replica!Init
<1>2. GossipInv /\ [Next]_vars => [Replica!Next]_store
  <2> SUFFICES ASSUME GossipInv, [Next]_vars PROVE [Replica!Next]_store
    OBVIOUS
  <2>1. CASE Next
    <3>1. store' = store \/ \E p \in Peers, o \in Objects : Gains(p, o)
      BY <2>1, StepEffect DEF GossipInv
    <3>2. ASSUME NEW p \in Peers, NEW o \in Objects, Gains(p, o)
          PROVE  Replica!Next
      BY <3>2 DEF Gains, Replica!Next, Replica!Make, Replica!Learn, Replica!Add
    <3> QED
      BY <3>1, <3>2
  <2>2. CASE UNCHANGED vars
    BY <2>2 DEF vars
  <2> QED
    BY <2>1, <2>2
<1> QED
  BY <1>1, <1>2, GossipInvariant, PTL DEF Spec, RefinesReplica, Replica!Spec
===============================================================================
