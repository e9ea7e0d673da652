---------------------------- MODULE ReplicatedStore ----------------------------
(***************************************************************************)
(* What the democracy application promises about the objects of its peers: *)
(* an object is made by its author, a peer learns only objects that some   *)
(* other peer already has, and whatever it holds satisfies the schema.     *)
(***************************************************************************)
CONSTANTS Peers, Objects, Author, Accepts(_, _)

VARIABLE store           \* the objects each peer holds

Init == store = [p \in Peers |-> {}]

Add(p, o) ==
  /\ o \notin store[p]
  /\ Accepts(store[p], o)
  /\ store' = [store EXCEPT ![p] = @ \cup {o}]

Make(p, o) == Author[o] = p /\ Add(p, o)

Learn(p, o) == (\E q \in Peers : o \in store[q]) /\ Add(p, o)

Next == \E p \in Peers, o \in Objects : Make(p, o) \/ Learn(p, o)

Spec == Init /\ [][Next]_store
===============================================================================
