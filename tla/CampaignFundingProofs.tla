------------------------- MODULE CampaignFundingProofs -------------------------
(***************************************************************************)
(* Proofs about CampaignFunding: its types, the soundness of what          *)
(* broadcast_final_transaction sends, the optimality of _select_pledges,   *)
(* and that what submit_signed_pledge accepted is counted.                 *)
(*                                                                         *)
(* The selection is a recursive function and a sum is a fold.  What they   *)
(* compute is proved by induction over sets: a smallest counterexample     *)
(* exists (WFMin of WellFoundedInduction), and a smaller one contradicts   *)
(* it.                                                                     *)
(***************************************************************************)
EXTENDS CampaignFunding, FiniteSetTheorems, WellFoundedInduction, TLAPS

(* Every collection of subsets of a finite set has a smallest member: the  *)
(* induction over sets that the proofs below use.                          *)
LEMMA SmallestSubset ==
  ASSUME NEW S, IsFiniteSet(S), NEW B \in SUBSET (SUBSET S), B # {}
  PROVE  \E T \in B : \A U \in B : U \subseteq T => U = T
<1>1. IsWellFoundedOn(StrictSubsetOrdering(S), SUBSET S)
  BY FS_StrictSubsetOrderingWellFounded, FS_FiniteSubsetsOfFinite
<1>2. \E T \in B : \A U \in B : ~(<<U, T>> \in StrictSubsetOrdering(S))
  BY <1>1, WFMin
<1>3. \A U, T \in SUBSET S : U \subseteq T /\ U # T => <<U, T>> \in StrictSubsetOrdering(S)
  BY DEF StrictSubsetOrdering
<1> QED
  BY <1>2, <1>3

(* Every set of numbers has a least one: the induction over measures. *)
LEMMA SmallestNumber ==
  ASSUME NEW T \in SUBSET Nat, T # {}
  PROVE  \E n \in T : \A m \in T : n <= m
<1>1. IsWellFoundedOn(OpToRel(<, Nat), Nat)
  BY NatLessThanWellFounded
<1>2. \E n \in T : \A m \in T : ~(<<m, n>> \in OpToRel(<, Nat))
  BY <1>1, WFMin
<1>3. \A m, n \in Nat : m < n => <<m, n>> \in OpToRel(<, Nat)
  BY DEF OpToRel
<1>4. \E n \in T : \A m \in T : ~(m < n)
  BY <1>2, <1>3, Zenon
<1> QED
  BY <1>4

(* A finite set with a total, transitive order has a first element. *)
LEMMA FirstOfOrder ==
  ASSUME NEW S, IsFiniteSet(S), S # {}, NEW R,
         \A p, q \in S : <<p, q>> \in R \/ <<q, p>> \in R,
         \A p, q, r \in S : <<p, q>> \in R /\ <<q, r>> \in R => <<p, r>> \in R
  PROVE  \E p \in S : \A q \in S : <<p, q>> \in R
<1> DEFINE B == {T \in SUBSET S : T # {} /\ ~\E p \in T : \A q \in T : <<p, q>> \in R}
<1> SUFFICES ASSUME B # {} PROVE FALSE
  OBVIOUS
<1>1. PICK T \in B : \A U \in B : U \subseteq T => U = T
  <2>1. B \in SUBSET (SUBSET S)
    OBVIOUS
  <2> HIDE DEF B
  <2> QED
    BY <2>1, SmallestSubset
<1>2. PICK x \in T : TRUE
  OBVIOUS
<1>3. \A q \in T : q = x => <<x, q>> \in R
  BY <1>1, <1>2
<1>4. PICK m \in T \ {x} : \A q \in T \ {x} : <<m, q>> \in R
  <2>1. T \ {x} # {}
    <3>1. ~\A q \in T : <<x, q>> \in R
      BY <1>1, <1>2
    <3> QED
      BY <1>3, <3>1
  <2>2. T \ {x} \notin B
    <3> HIDE DEF B
    <3>1. T \ {x} \subseteq T /\ T \ {x} # T
      BY <1>2
    <3> QED
      BY <1>1, <3>1
  <2> QED
    BY <2>1, <2>2
<1>5. ~(<<m, x>> \in R)
  BY <1>4
<1>6. \A q \in T : <<x, q>> \in R
  BY <1>3, <1>4, <1>5
<1> QED
  BY <1>6

(* The two orders that _select_pledges sorts by each have a first pledge. *)
LEMMA FirstExists ==
  ASSUME NEW S \in SUBSET Pledges, IsFiniteSet(S), S # {}
  PROVE  /\ \E p \in S : \A q \in S : SmallestFirst(p, q)
         /\ \E p \in S : \A q \in S : LargestFirst(p, q)
<1>0. \A p \in S : p.value \in Nat /\ p.coin \in Nat
  BY FundingAssumption DEF Pledges
<1>1. \E p \in S : \A q \in S : SmallestFirst(p, q)
  <2> DEFINE R == {e \in S \X S : SmallestFirst(e[1], e[2])}
  <2>1. \A p, q \in S : <<p, q>> \in R <=> SmallestFirst(p, q)
    OBVIOUS
  <2>2. /\ \A p, q \in S : SmallestFirst(p, q) \/ SmallestFirst(q, p)
        /\ \A p, q, r \in S : SmallestFirst(p, q) /\ SmallestFirst(q, r) => SmallestFirst(p, r)
    BY <1>0 DEF SmallestFirst
  <2> HIDE DEF R
  <2>3. \E p \in S : \A q \in S : <<p, q>> \in R
    BY <2>1, <2>2, FirstOfOrder
  <2> QED
    BY <2>1, <2>3
<1>2. \E p \in S : \A q \in S : LargestFirst(p, q)
  <2> DEFINE R == {e \in S \X S : LargestFirst(e[1], e[2])}
  <2>1. \A p, q \in S : <<p, q>> \in R <=> LargestFirst(p, q)
    OBVIOUS
  <2>2. /\ \A p, q \in S : LargestFirst(p, q) \/ LargestFirst(q, p)
        /\ \A p, q, r \in S : LargestFirst(p, q) /\ LargestFirst(q, r) => LargestFirst(p, r)
    BY <1>0 DEF LargestFirst
  <2> HIDE DEF R
  <2>3. \E p \in S : \A q \in S : <<p, q>> \in R
    BY <2>1, <2>2, FirstOfOrder
  <2> QED
    BY <2>1, <2>3
<1> QED
  BY <1>1, <1>2

(* The pledge _select_pledges takes next is one that remains. *)
LEMMA NextPledgeRemains ==
  ASSUME NEW S \in SUBSET Pledges, IsFiniteSet(S), S # {}, NEW shortfall
  PROVE  NextPledge(S, shortfall) \in S
<1> DEFINE finishing == {p \in S : p.value >= shortfall}
<1>1. finishing \in SUBSET Pledges /\ IsFiniteSet(finishing) /\ finishing \subseteq S
  BY FS_Subset
<1>2. CASE finishing # {}
  <2>1. \E p \in finishing : \A q \in finishing : SmallestFirst(p, q)
    BY <1>1, <1>2, FirstExists
  <2>2. (CHOOSE p \in finishing : \A q \in finishing : SmallestFirst(p, q)) \in finishing
    BY <2>1
  <2> QED
    BY <1>1, <1>2, <2>2, Zenon DEF NextPledge
<1>3. CASE finishing = {}
  <2>1. \E p \in S : \A q \in S : LargestFirst(p, q)
    BY FirstExists
  <2>2. (CHOOSE p \in S : \A q \in S : LargestFirst(p, q)) \in S
    BY <2>1
  <2> QED
    BY <1>3, <2>2, Zenon DEF NextPledge
<1> QED
  BY <1>2, <1>3

(* g moves from argument to argument until it may stop. *)
Descends(g, X, stop, step) == g = [s \in X |-> IF s \in stop THEN s ELSE g[step[s]]]

(* A function defined by moving to an argument of a smaller measure until  *)
(* it may stop exists: it is built for the arguments of measure 0, 1, ...  *)
LEMMA DescentExists ==
  ASSUME NEW X, NEW stop, NEW step, NEW c \in [X -> Nat], NEW top \in Nat,
         \A s \in X : c[s] <= top,
         \A s \in X : s \notin stop => step[s] \in X /\ c[step[s]] < c[s]
  PROVE  \E g : Descends(g, X, stop, step)
<1> DEFINE D(k) == {s \in X : c[s] < k}
           Good(k) == \E g : g = [s \in D(k) |-> IF s \in stop THEN s ELSE g[step[s]]]
           Bad == {k \in Nat : ~Good(k)}
<1>1. Good(0)
  <2>1. D(0) = {}
    OBVIOUS
  <2>2. \A g : [s \in D(0) |-> IF s \in stop THEN s ELSE g[step[s]]] = [s \in {} |-> s]
    BY <2>1
  <2> QED
    BY <2>2
<1>2. ASSUME NEW k \in Nat, Good(k) PROVE Good(k + 1)
  <2>1. PICK g : g = [s \in D(k) |-> IF s \in stop THEN s ELSE g[step[s]]]
    BY <1>2
  <2> DEFINE h == [s \in D(k + 1) |-> IF s \in stop THEN s ELSE g[step[s]]]
  <2>2. \A s \in D(k) : s \in D(k + 1)
    OBVIOUS
  <2>3. \A s \in D(k + 1) : s \notin stop => step[s] \in D(k)
    OBVIOUS
  <2> HIDE DEF D
  <2>4. \A s \in D(k) : h[s] = g[s]
    BY <2>1, <2>2
  <2>5. h = [s \in D(k + 1) |-> IF s \in stop THEN s ELSE h[step[s]]]
    BY <2>3, <2>4
  <2> HIDE DEF h
  <2> QED
    BY <2>5
<1> HIDE DEF Good
<1>3. Bad = {}
  <2> SUFFICES ASSUME Bad # {} PROVE FALSE
    OBVIOUS
  <2>1. PICK k \in Bad : \A m \in Bad : k <= m
    <3>1. Bad \in SUBSET Nat
      OBVIOUS
    <3> HIDE DEF Bad
    <3> QED
      BY <3>1, SmallestNumber
  <2>2. k \in Nat /\ ~Good(k) /\ k # 0
    BY <1>1
  <2>3. k - 1 \in Nat /\ (k - 1) + 1 = k /\ ~(k <= k - 1)
    BY <2>2
  <2>4. Good(k - 1)
    BY <2>1, <2>3
  <2> QED
    BY <1>2, <2>2, <2>3, <2>4
<1>4. Good(top + 1)
  BY <1>3
<1>5. D(top + 1) = X
  OBVIOUS
<1> HIDE DEF D
<1>6. PICK g : g = [s \in X |-> IF s \in stop THEN s ELSE g[step[s]]]
  BY <1>4, <1>5 DEF Good
<1> QED
  BY <1>6 DEF Descends

(***************************************************************************)
(* _select_pledges.                                                        *)
(***************************************************************************)

(* Such a function ends at a stop, and in every set K of arguments that its *)
(* moves do not leave.                                                     *)
LEMMA DescentEnds ==
  ASSUME NEW X, NEW stop, NEW step, NEW c \in [X -> Nat],
         \A s \in X : s \notin stop => step[s] \in X /\ c[step[s]] < c[s],
         NEW g, \A s \in X : g[s] = IF s \in stop THEN s ELSE g[step[s]],
         NEW K \in SUBSET X, \A s \in K : s \notin stop => step[s] \in K
  PROVE  \A s \in K : g[s] \in K /\ g[s] \in stop
<1> DEFINE Bad == {s \in K : ~(g[s] \in K /\ g[s] \in stop)}
           B == {c[s] : s \in Bad}
<1> SUFFICES ASSUME Bad # {} PROVE FALSE
  OBVIOUS
<1>1. B \in SUBSET Nat /\ B # {}
  OBVIOUS
<1>2. PICK n \in B : \A m \in B : n <= m
  <2> HIDE DEF B
  <2> QED
    BY <1>1, SmallestNumber
<1>3. PICK s \in Bad : c[s] = n
  OBVIOUS
<1>4. s \in K /\ s \in X
  OBVIOUS
<1>5. s \notin stop
  BY <1>3, <1>4
<1>6. step[s] \in K /\ c[step[s]] < c[s] /\ c[s] \in Nat /\ c[step[s]] \in Nat
  BY <1>4, <1>5
<1>7. step[s] \notin Bad
  <2> SUFFICES ASSUME step[s] \in Bad PROVE FALSE
    OBVIOUS
  <2>1. c[step[s]] \in B
    OBVIOUS
  <2>2. n <= c[step[s]]
    BY <1>2, <2>1
  <2> QED
    BY <1>3, <1>6, <2>2
<1>8. g[s] = g[step[s]]
  BY <1>4, <1>5
<1> QED
  BY <1>3, <1>6, <1>7, <1>8

(* The loop of _select_pledges: where it stops, how it moves, and how many *)
(* pledges it has not taken yet.                                           *)
Stops(P, required) == {s \in SUBSET P : Total(s) >= required \/ s = P}
Steps(P, required) == [s \in SUBSET P |-> s \cup {NextPledge(P \ s, required - Total(s))}]
Lack(P) == [s \in SUBSET P |-> Cardinality(P \ s)]

(* A round of the loop takes one of the remaining pledges. *)
LEMMA SelectionDescends ==
  ASSUME NEW P \in SUBSET Pledges, IsFiniteSet(P), NEW required,
         NEW s \in SUBSET P, s \notin Stops(P, required)
  PROVE  /\ NextPledge(P \ s, required - Total(s)) \in P \ s
         /\ Steps(P, required)[s] = s \cup {NextPledge(P \ s, required - Total(s))}
         /\ Steps(P, required)[s] \in SUBSET P
         /\ Lack(P)[Steps(P, required)[s]] < Lack(P)[s]
<1>1. P \ s # {} /\ P \ s \in SUBSET Pledges /\ IsFiniteSet(P \ s)
  BY FS_Subset DEF Stops
<1> DEFINE x == NextPledge(P \ s, required - Total(s))
<1>2. x \in P \ s
  BY <1>1, NextPledgeRemains
<1>3. Steps(P, required)[s] = s \cup {x}
  BY DEF Steps
<1> HIDE DEF x
<1>4. P \ (s \cup {x}) = (P \ s) \ {x}
  OBVIOUS
<1>5. /\ Cardinality((P \ s) \ {x}) = Cardinality(P \ s) - 1
      /\ Cardinality(P \ s) \in Nat
  BY <1>1, <1>2, FS_RemoveElement, FS_CardinalityType
<1>6. s \cup {x} \in SUBSET P
  BY <1>2
<1>7. Lack(P)[s \cup {x}] < Lack(P)[s]
  <2>1. Lack(P)[s \cup {x}] = Cardinality((P \ s) \ {x}) /\ Lack(P)[s] = Cardinality(P \ s)
    BY <1>4, <1>6 DEF Lack
  <2> QED
    BY <1>5, <2>1
<1> QED
  BY <1>2, <1>3, <1>6, <1>7 DEF x

(* What every round keeps true (K) is true of the selection, which has     *)
(* stopped.                                                                *)
LEMMA SelectionIn ==
  ASSUME NEW P \in SUBSET Pledges, IsFiniteSet(P), NEW required,
         NEW K \in SUBSET (SUBSET P), {} \in K,
         \A s \in K : s \notin Stops(P, required) => Steps(P, required)[s] \in K
  PROVE  _select_pledges(P, required) \in K \cap Stops(P, required)
<1> DEFINE X == SUBSET P
           stop == Stops(P, required)
           step == Steps(P, required)
           c == Lack(P)
           Body(g) == [s \in SUBSET P |->
                         IF Total(s) >= required \/ s = P THEN s
                         ELSE g[s \cup {NextPledge(P \ s, required - Total(s))}]]
           Moves(g) == [s \in X |-> IF s \in stop THEN s ELSE g[step[s]]]
<1>1. c \in [X -> Nat] /\ Cardinality(P) \in Nat /\ \A s \in X : c[s] <= Cardinality(P)
  <2>1. \A s \in X : Cardinality(P \ s) \in Nat /\ Cardinality(P \ s) <= Cardinality(P)
    BY FS_Subset, FS_CardinalityType
  <2> QED
    BY <2>1, FS_CardinalityType DEF Lack
<1>2. \A s \in X : s \notin stop => step[s] \in X /\ c[step[s]] < c[s]
  BY SelectionDescends
<1>3. \A g : Body(g) = Moves(g)
  BY DEF Stops, Steps
<1>4. _select_pledges(P, required) = (CHOOSE g : g = Body(g))[{}]
  BY Zenon DEF _select_pledges
<1> DEFINE grow == CHOOSE g : g = Body(g)
<1>5. grow = Body(grow)
  <2>1. \E g : g = Moves(g)
    <3> DEFINE top == Cardinality(P)
    <3>1. top \in Nat /\ c \in [X -> Nat] /\ \A s \in X : c[s] <= top
      BY <1>1
    <3>2. \E g : Descends(g, X, stop, step)
      <4> HIDE DEF X, stop, step, c, top
      <4> QED
        BY <1>2, <3>1, DescentExists
    <3> QED
      BY <3>2, Zenon DEF Descends
  <2>2. \E g : g = Body(g)
    <3> HIDE DEF Body, Moves
    <3> QED
      BY <1>3, <2>1
  <2> HIDE DEF Body
  <2> QED
    BY <2>2
<1> HIDE DEF grow
<1>6. grow = Moves(grow)
  <2> HIDE DEF Body, Moves
  <2> QED
    BY <1>3, <1>5
<1>7. \A s \in X : grow[s] = IF s \in stop THEN s ELSE grow[step[s]]
  BY <1>6
<1>8. \A s \in K : grow[s] \in K /\ grow[s] \in stop
  <2> HIDE DEF X, stop, step, c
  <2>1. K \in SUBSET X
    BY DEF X
  <2>2. \A s \in K : s \notin stop => step[s] \in K
    BY DEF stop, step
  <2> QED
    BY <1>1, <1>2, <1>7, <2>1, <2>2, DescentEnds
<1> QED
  BY <1>4, <1>8 DEF grow

(* _select_pledges takes prepared pledges only, and all of them if it falls *)
(* short.                                                                  *)
LEMMA SelectionSound ==
  ASSUME NEW P \in SUBSET Pledges, IsFiniteSet(P), NEW required
  PROVE  /\ _select_pledges(P, required) \subseteq P
         /\ \/ Total(_select_pledges(P, required)) >= required
            \/ _select_pledges(P, required) = P
<1> DEFINE K == SUBSET P
<1>1. \A s \in K : s \notin Stops(P, required) => Steps(P, required)[s] \in K
  BY SelectionDescends
<1>2. _select_pledges(P, required) \in K \cap Stops(P, required)
  <2>1. K \in SUBSET (SUBSET P) /\ {} \in K
    OBVIOUS
  <2> HIDE DEF K
  <2> QED
    BY <1>1, <2>1, SelectionIn
<1> QED
  BY <1>2 DEF Stops

(* Where every pledge claims its coin's real value, the two sums agree. *)
LEMMA ClaimedIsReal ==
  ASSUME NEW S, \A p \in S : p.value = Value[p.coin]
  PROVE  MapThenSumSet(LAMBDA p : Value[p.coin], S) = Total(S)
<1> DEFINE pick(s) == CHOOSE x \in s : TRUE
           F(g) == [s \in SUBSET S |-> IF s = {} THEN 0
                                        ELSE pick(s).value + g[s \ {pick(s)}]]
           G(g) == [s \in SUBSET S |-> IF s = {} THEN 0
                                        ELSE Value[pick(s).coin] + g[s \ {pick(s)}]]
<1>1. \A s \in SUBSET S : s # {} => pick(s) \in S
  BY Zenon
<1>2. \A g : F(g) = G(g)
  <2> TAKE g
  <2> QED
    BY <1>1
<1>3. Total(S) = (CHOOSE g : g = F(g))[S]
  BY Zenon DEF Total, MapThenSumSet, MapThenFoldSet
<1>4. MapThenSumSet(LAMBDA p : Value[p.coin], S) = (CHOOSE g : g = G(g))[S]
  BY Zenon DEF MapThenSumSet, MapThenFoldSet
<1> HIDE DEF F, G
<1>5. (CHOOSE g : g = F(g)) = (CHOOSE g : g = G(g))
  BY <1>2, Zenon
<1> QED
  BY <1>3, <1>4, <1>5, Zenon

(***************************************************************************)
(* Total, the sum of the pledged values: the fold it is defined by takes   *)
(* the elements in some order, and the order does not matter.              *)
(***************************************************************************)
Pick(s) == CHOOSE x \in s : TRUE

(* The table of partial sums that the fold behind Total builds. *)
Sums(g, S) == g = [s \in SUBSET S |-> IF s = {} THEN 0 ELSE Pick(s).value + g[s \ {Pick(s)}]]

(* The element the fold takes next is one of the set. *)
LEMMA PickIn == ASSUME NEW s, s # {} PROVE Pick(s) \in s
BY Zenon DEF Pick

(* Total is the last entry of such a table. *)
LEMMA TotalIsSum == ASSUME NEW S PROVE Total(S) = (CHOOSE g : Sums(g, S))[S]
BY Zenon DEF Total, MapThenSumSet, MapThenFoldSet, Sums, Pick

(* The table exists for every finite set: it is built for the subsets of 0, *)
(* 1, ... elements.                                                        *)
LEMMA SumExists == ASSUME NEW S, IsFiniteSet(S) PROVE \E g : Sums(g, S)
<1> DEFINE D(k) == {s \in SUBSET S : Cardinality(s) < k}
           Body(g, s) == IF s = {} THEN 0 ELSE Pick(s).value + g[s \ {Pick(s)}]
           Good(k) == \E g : g = [s \in D(k) |-> Body(g, s)]
           Bad == {k \in Nat : ~Good(k)}
<1>0. \A s \in SUBSET S : /\ IsFiniteSet(s) /\ Cardinality(s) \in Nat
                          /\ Cardinality(s) <= Cardinality(S)
  BY FS_Subset, FS_CardinalityType
<1>1. Good(0)
  <2>1. D(0) = {}
    BY <1>0
  <2>2. \A g : [s \in D(0) |-> Body(g, s)] = [s \in {} |-> s]
    BY <2>1
  <2> QED
    BY <2>2
<1>2. ASSUME NEW k \in Nat, Good(k) PROVE Good(k + 1)
  <2>1. PICK g : g = [s \in D(k) |-> Body(g, s)]
    BY <1>2
  <2> DEFINE h == [s \in D(k + 1) |-> Body(g, s)]
  <2>2. \A s \in D(k) : s \in D(k + 1)
    BY <1>0
  <2>3. \A s \in D(k + 1) : s # {} => s \ {Pick(s)} \in D(k)
    <3> SUFFICES ASSUME NEW s \in D(k + 1), s # {} PROVE s \ {Pick(s)} \in D(k)
      OBVIOUS
    <3>1. Cardinality(s \ {Pick(s)}) = Cardinality(s) - 1 /\ Cardinality(s) \in Nat
      BY <1>0, PickIn, FS_RemoveElement
    <3> QED
      BY <3>1
  <2> HIDE DEF D
  <2>4. \A s \in D(k) : h[s] = g[s]
    BY <2>1, <2>2
  <2>5. \A s \in D(k + 1) : Body(g, s) = Body(h, s)
    BY <2>3, <2>4
  <2>6. h = [s \in D(k + 1) |-> Body(h, s)]
    <3> HIDE DEF Body
    <3> QED
      BY <2>5
  <2> HIDE DEF h
  <2> QED
    BY <2>6
<1> HIDE DEF Good
<1>3. Bad = {}
  <2> SUFFICES ASSUME Bad # {} PROVE FALSE
    OBVIOUS
  <2>1. PICK k \in Bad : \A m \in Bad : k <= m
    <3>1. Bad \in SUBSET Nat
      OBVIOUS
    <3> HIDE DEF Bad
    <3> QED
      BY <3>1, SmallestNumber
  <2>2. k \in Nat /\ ~Good(k) /\ k # 0
    BY <1>1
  <2>3. k - 1 \in Nat /\ (k - 1) + 1 = k /\ ~(k <= k - 1)
    BY <2>2
  <2>4. Good(k - 1)
    BY <2>1, <2>3
  <2> QED
    BY <1>2, <2>2, <2>3, <2>4
<1>4. Cardinality(S) + 1 \in Nat /\ Cardinality(S) \in Nat
  BY FS_CardinalityType
<1>5. Good(Cardinality(S) + 1)
  BY <1>3, <1>4
<1>6. D(Cardinality(S) + 1) = SUBSET S
  BY <1>0, <1>4
<1> HIDE DEF D
<1> QED
  BY <1>5, <1>6 DEF Good, Sums

(* Tables for a set and for a subset agree on the subset. *)
LEMMA SumUnique ==
  ASSUME NEW S, IsFiniteSet(S), NEW T \in SUBSET S, NEW f, Sums(f, S), NEW g, Sums(g, T)
  PROVE  f[T] = g[T]
<1> DEFINE B == {u \in SUBSET T : f[u] # g[u]}
<1> SUFFICES ASSUME B # {} PROVE FALSE
  OBVIOUS
<1>1. PICK u \in B : \A w \in B : w \subseteq u => w = u
  <2>1. B \in SUBSET (SUBSET T) /\ IsFiniteSet(T)
    BY FS_Subset
  <2> HIDE DEF B
  <2> QED
    BY <2>1, SmallestSubset
<1>2. /\ f[u] = IF u = {} THEN 0 ELSE Pick(u).value + f[u \ {Pick(u)}]
      /\ g[u] = IF u = {} THEN 0 ELSE Pick(u).value + g[u \ {Pick(u)}]
  <2>1. u \in SUBSET S /\ u \in SUBSET T
    OBVIOUS
  <2> QED
    BY <2>1 DEF Sums
<1>3. u # {} /\ Pick(u) \in u
  BY <1>1, <1>2, PickIn
<1>4. u \ {Pick(u)} \notin B
  <2> HIDE DEF B
  <2> QED
    BY <1>1, <1>3
<1>5. f[u \ {Pick(u)}] = g[u \ {Pick(u)}]
  BY <1>1, <1>4
<1> QED
  BY <1>1, <1>2, <1>3, <1>5

(* The sum of nothing is 0. *)
LEMMA TotalEmpty == Total({}) = 0
<1>1. PICK g : Sums(g, {})
  BY SumExists, FS_EmptySet
<1>2. Sums((CHOOSE f : Sums(f, {})), {})
  BY <1>1
<1> DEFINE f == CHOOSE f : Sums(f, {})
<1>3. f[{}] = 0
  BY <1>2 DEF Sums
<1> QED
  BY <1>3, TotalIsSum

(* The sum of a set: one element's value, and the sum of the rest. *)
LEMMA TotalPick ==
  ASSUME NEW S, IsFiniteSet(S), S # {}
  PROVE  Total(S) = Pick(S).value + Total(S \ {Pick(S)})
<1> DEFINE T == S \ {Pick(S)}
           f == CHOOSE h : Sums(h, S)
           g == CHOOSE h : Sums(h, T)
<1>1. T \in SUBSET S /\ IsFiniteSet(T)
  BY FS_Subset
<1>2. Sums(f, S) /\ Sums(g, T)
  BY <1>1, SumExists
<1>3. Total(S) = f[S] /\ Total(T) = g[T]
  BY TotalIsSum
<1> HIDE DEF f, g
<1>4. f[S] = Pick(S).value + f[T]
  BY <1>2 DEF Sums
<1> HIDE DEF T
<1>5. f[T] = g[T]
  BY <1>1, <1>2, SumUnique
<1> QED
  BY <1>3, <1>4, <1>5 DEF T

(* Sums of pledged values are natural numbers. *)
LEMMA TotalType ==
  ASSUME NEW S \in SUBSET Pledges, IsFiniteSet(S)
  PROVE  Total(S) \in Nat
<1> DEFINE B == {u \in SUBSET S : Total(u) \notin Nat}
<1> SUFFICES ASSUME B # {} PROVE FALSE
  OBVIOUS
<1>1. PICK u \in B : \A w \in B : w \subseteq u => w = u
  <2>1. B \in SUBSET (SUBSET S)
    OBVIOUS
  <2> HIDE DEF B
  <2> QED
    BY <2>1, SmallestSubset
<1>2. u # {} /\ Pick(u) \in u /\ u \subseteq Pledges /\ IsFiniteSet(u)
  <2>1. u \subseteq S /\ Total(u) \notin Nat
    BY <1>1
  <2>2. u # {}
    <3>1. Total({}) = 0
      BY TotalEmpty
    <3> QED
      BY <2>1, <3>1
  <2>3. Pick(u) \in u
    BY <2>2, PickIn
  <2>4. IsFiniteSet(u)
    BY <2>1, FS_Subset
  <2> QED
    BY <2>1, <2>2, <2>3, <2>4
<1>3. u \ {Pick(u)} \notin B
  <2> HIDE DEF B
  <2> QED
    BY <1>1, <1>2
<1>4. Total(u \ {Pick(u)}) \in Nat
  BY <1>1, <1>3
<1>5. Pick(u).value \in Nat
  BY <1>2 DEF Pledges
<1>6. Total(u) = Pick(u).value + Total(u \ {Pick(u)})
  BY <1>2, TotalPick
<1> QED
  BY <1>1, <1>4, <1>5, <1>6

(***************************************************************************)
(* The fewest inputs.                                                      *)
(***************************************************************************)

(* A pledge that is added adds its value, wherever the sum's order puts it. *)
LEMMA TotalAdd ==
  ASSUME NEW P \in SUBSET Pledges, IsFiniteSet(P),
         NEW S \in SUBSET P, NEW x \in P \ S
  PROVE  Total(S \cup {x}) = Total(S) + x.value
<1> DEFINE Good(s) == \A y \in P \ s : Total(s \cup {y}) = Total(s) + y.value
           B == {s \in SUBSET P : ~Good(s)}
<1> SUFFICES ASSUME B # {} PROVE FALSE
  OBVIOUS
<1>1. PICK s \in B : \A w \in B : w \subseteq s => w = s
  <2>1. B \in SUBSET (SUBSET P)
    OBVIOUS
  <2> HIDE DEF B
  <2> QED
    BY <2>1, SmallestSubset
<1>2. s \in SUBSET P /\ ~Good(s)
  BY <1>1
<1>3. \A w \in SUBSET P : w \subseteq s /\ w # s => Good(w)
  BY <1>1
<1> HIDE DEF B
<1>4. PICK y \in P \ s : Total(s \cup {y}) # Total(s) + y.value
  BY <1>2
<1> DEFINE T == s \cup {y}
<1>5. T \in SUBSET P /\ IsFiniteSet(T) /\ T # {} /\ IsFiniteSet(s)
  BY <1>2, <1>4, FS_Subset
<1> DEFINE z == Pick(T)
<1>6. z \in T /\ Total(T) = z.value + Total(T \ {z})
  BY <1>5, PickIn, TotalPick
<1>7. \A w \in SUBSET P : Total(w) \in Nat
  <2> SUFFICES ASSUME NEW w \in SUBSET P PROVE Total(w) \in Nat
    OBVIOUS
  <2>1. w \in SUBSET Pledges /\ IsFiniteSet(w)
    BY FS_Subset
  <2> QED
    BY <2>1, TotalType
<1>8. \A p \in P : p.value \in Nat
  BY DEF Pledges
<1> HIDE DEF z
<1>9. CASE z = y
  <2>1. T \ {z} = s
    BY <1>4, <1>9
  <2>2. Total(T) = y.value + Total(s)
    BY <1>6, <1>9, <2>1
  <2>3. Total(s) \in Nat /\ y.value \in Nat
    BY <1>2, <1>4, <1>7, <1>8
  <2> HIDE DEF T
  <2>4. Total(T) = Total(s) + y.value
    BY <2>2, <2>3
  <2> QED
    BY <1>4, <2>4 DEF T
<1>10. CASE z # y
  <2> DEFINE w == s \ {z}
  <2>1. z \in s /\ w \in SUBSET P /\ w \subseteq s /\ w # s /\ z \in P \ w /\ y \in P \ w
    BY <1>2, <1>4, <1>6, <1>10
  <2>2. Total(w \cup {y}) = Total(w) + y.value /\ Total(w \cup {z}) = Total(w) + z.value
    BY <1>3, <2>1
  <2>3. w \cup {y} = T \ {z} /\ w \cup {z} = s
    BY <1>4, <1>10, <2>1
  <2>4. Total(w) \in Nat /\ y.value \in Nat /\ z.value \in Nat
    BY <1>7, <1>8, <2>1
  <2>5. Total(T \ {z}) = Total(w) + y.value /\ Total(s) = Total(w) + z.value
    BY <2>2, <2>3
  <2> HIDE DEF T, w
  <2>6. Total(T) = Total(s) + y.value
    BY <1>6, <2>4, <2>5
  <2> QED
    BY <1>4, <2>6 DEF T
<1> QED
  BY <1>9, <1>10

(* L has at least as many pledges as S, and where they differ L's are      *)
(* worth at least as much.                                                 *)
Outweighs(L, S) ==
  /\ Cardinality(S) <= Cardinality(L)
  /\ \A p \in L \ S, q \in S \ L : q.value <= p.value

(* Such an L is worth at least as much as S: equal pledges are taken off   *)
(* both, then pairs.                                                       *)
LEMMA OutweighsTotal ==
  ASSUME NEW P \in SUBSET Pledges, IsFiniteSet(P),
         NEW S \in SUBSET P, NEW L \in SUBSET P, Outweighs(L, S)
  PROVE  Total(S) <= Total(L)
<1> DEFINE Good(s) == \A l \in SUBSET P : Outweighs(l, s) => Total(s) <= Total(l)
           B == {s \in SUBSET P : ~Good(s)}
<1> SUFFICES ASSUME B # {} PROVE FALSE
  OBVIOUS
<1>1. PICK s \in B : \A w \in B : w \subseteq s => w = s
  <2>1. B \in SUBSET (SUBSET P)
    OBVIOUS
  <2> HIDE DEF B
  <2> QED
    BY <2>1, SmallestSubset
<1>2. s \in SUBSET P /\ ~Good(s)
  BY <1>1
<1>3. \A w \in SUBSET P : w \subseteq s /\ w # s => Good(w)
  BY <1>1
<1> HIDE DEF B
<1>4. PICK l \in SUBSET P : Outweighs(l, s) /\ ~(Total(s) <= Total(l))
  BY <1>2
<1>5. \A w \in SUBSET P : Total(w) \in Nat /\ IsFiniteSet(w) /\ Cardinality(w) \in Nat
  <2> SUFFICES ASSUME NEW w \in SUBSET P
               PROVE  Total(w) \in Nat /\ IsFiniteSet(w) /\ Cardinality(w) \in Nat
    OBVIOUS
  <2>1. w \in SUBSET Pledges /\ IsFiniteSet(w)
    BY FS_Subset
  <2> QED
    BY <2>1, TotalType, FS_CardinalityType
<1>6. \A p \in P : p.value \in Nat
  BY DEF Pledges
(* The sum and the size lose what is removed. *)
<1>7. ASSUME NEW w \in SUBSET P, NEW p \in w
      PROVE  /\ Total(w) = Total(w \ {p}) + p.value
             /\ Cardinality(w \ {p}) = Cardinality(w) - 1
             /\ w \ {p} \in SUBSET P /\ w \ {p} \subseteq w /\ w \ {p} # w
  <2>1. w \ {p} \in SUBSET P /\ p \in P \ (w \ {p}) /\ (w \ {p}) \cup {p} = w
    OBVIOUS
  <2>2. Total((w \ {p}) \cup {p}) = Total(w \ {p}) + p.value
    BY <2>1, TotalAdd
  <2>3. Cardinality(w \ {p}) = Cardinality(w) - 1
    BY <1>5, FS_RemoveElement
  <2> QED
    BY <2>1, <2>2, <2>3
(* One pledge of each is removed, and the rest still compares. *)
<1>8. ASSUME NEW a \in s, NEW b \in l, a.value <= b.value, Outweighs(l \ {b}, s \ {a})
      PROVE  FALSE
  <2>1. Total(s \ {a}) <= Total(l \ {b})
    BY <1>2, <1>3, <1>4, <1>7, <1>8
  <2>2. Total(s) = Total(s \ {a}) + a.value /\ Total(l) = Total(l \ {b}) + b.value
    BY <1>2, <1>4, <1>7
  <2>3. /\ Total(s) \in Nat /\ Total(l) \in Nat /\ a.value \in Nat /\ b.value \in Nat
        /\ Total(s \ {a}) \in Nat /\ Total(l \ {b}) \in Nat
    BY <1>2, <1>4, <1>5, <1>6, <1>7
  <2>4. ~(Total(s) <= Total(l))
    BY <1>4
  <2>5. \A i, j, u, v, x, y \in Nat : i <= j /\ u <= v /\ x = i + u /\ y = j + v => x <= y
    OBVIOUS
  <2> QED
    BY <1>8, <2>1, <2>2, <2>3, <2>4, <2>5, Zenon
<1>9. s # {}
  <2>1. Total({}) = 0
    BY TotalEmpty
  <2> QED
    BY <1>4, <1>5, <2>1
<1>10. CASE s \cap l # {}
  <2>1. PICK a \in s \cap l : TRUE
    BY <1>10
  <2>2. Cardinality(s \ {a}) = Cardinality(s) - 1 /\ Cardinality(l \ {a}) = Cardinality(l) - 1
    BY <1>2, <1>4, <1>7, <2>1
  <2>3. Cardinality(s \ {a}) <= Cardinality(l \ {a})
    BY <1>2, <1>4, <1>5, <2>2 DEF Outweighs
  <2>4. (l \ {a}) \ (s \ {a}) = l \ s /\ (s \ {a}) \ (l \ {a}) = s \ l
    BY <2>1
  <2>5. Outweighs(l \ {a}, s \ {a})
    BY <1>4, <2>3, <2>4 DEF Outweighs
  <2>6. a.value <= a.value
    BY <1>2, <1>6, <2>1
  <2> QED
    BY <1>8, <2>1, <2>5, <2>6
<1>11. CASE s \cap l = {}
  <2>1. PICK a \in s : TRUE
    BY <1>9
  <2>2. l # {}
    <3>1. Cardinality(s) # 0
      BY <1>2, <1>5, <1>9, FS_EmptySet
    <3>2. Cardinality(l) # 0
      BY <1>2, <1>4, <1>5, <3>1 DEF Outweighs
    <3> QED
      BY <3>2, FS_EmptySet
  <2>3. PICK b \in l : TRUE
    BY <2>2
  <2>4. a \in s \ l /\ b \in l \ s
    BY <1>11, <2>1, <2>3
  <2>5. a.value <= b.value
    BY <1>4, <2>4 DEF Outweighs
  <2>6. Cardinality(s \ {a}) = Cardinality(s) - 1 /\ Cardinality(l \ {b}) = Cardinality(l) - 1
    BY <1>2, <1>4, <1>7, <2>1, <2>3
  <2>7. Cardinality(s \ {a}) <= Cardinality(l \ {b})
    BY <1>2, <1>4, <1>5, <2>6 DEF Outweighs
  <2>8. (l \ {b}) \ (s \ {a}) \subseteq l \ s /\ (s \ {a}) \ (l \ {b}) \subseteq s \ l
    BY <2>4, <1>11
  <2>9. Outweighs(l \ {b}, s \ {a})
    BY <1>4, <2>7, <2>8 DEF Outweighs
  <2> QED
    BY <1>8, <2>5, <2>9
<1> QED
  BY <1>10, <1>11

(* NextPledge finishes when one pledge can, and is a largest one otherwise. *)
LEMMA NextPledgeBest ==
  ASSUME NEW S \in SUBSET Pledges, IsFiniteSet(S), S # {}, NEW shortfall
  PROVE  \/ NextPledge(S, shortfall).value >= shortfall
         \/ \A q \in S : q.value <= NextPledge(S, shortfall).value
<1> DEFINE finishing == {p \in S : p.value >= shortfall}
<1>1. finishing \in SUBSET Pledges /\ IsFiniteSet(finishing) /\ finishing \subseteq S
  BY FS_Subset
<1>2. CASE finishing # {}
  <2>1. \E p \in finishing : \A q \in finishing : SmallestFirst(p, q)
    BY <1>1, <1>2, FirstExists
  <2>2. (CHOOSE p \in finishing : \A q \in finishing : SmallestFirst(p, q)) \in finishing
    BY <2>1
  <2>3. NextPledge(S, shortfall) \in finishing
    BY <1>2, <2>2, Zenon DEF NextPledge
  <2> QED
    BY <2>3
<1>3. CASE finishing = {}
  <2> DEFINE m == CHOOSE p \in S : \A q \in S : LargestFirst(p, q)
  <2>1. \E p \in S : \A q \in S : LargestFirst(p, q)
    BY FirstExists
  <2>2. m \in S /\ \A q \in S : LargestFirst(m, q)
    BY <2>1
  <2>3. NextPledge(S, shortfall) = m
    BY <1>3, Zenon DEF NextPledge
  <2>4. \A p \in S : p.value \in Nat
    BY DEF Pledges
  <2> HIDE DEF m
  <2>5. \A q \in S : q.value <= m.value
    BY <2>2, <2>4 DEF LargestFirst
  <2> QED
    BY <2>3, <2>5
<1> QED
  BY <1>2, <1>3

(* No pledge outside L is worth more than one in it. *)
TopHeavy(P, L) == \A p \in L, q \in P \ L : q.value <= p.value

(* No subset with fewer pledges than s reaches what is required. *)
Fewest(P, required, s) ==
  \A S \in SUBSET P : Cardinality(S) < Cardinality(s) => Total(S) < required

(* What the selection is at every stage. *)
GoodStage(P, required, s) ==
  Fewest(P, required, s) /\ (Total(s) >= required \/ TopHeavy(P, s))

(* A round keeps the stage: before the last one the largest pledges were   *)
(* taken, so no set of as many reaches what these do not.                  *)
LEMMA StageStep ==
  ASSUME NEW P \in SUBSET Pledges, IsFiniteSet(P), NEW required \in Nat,
         NEW s \in SUBSET P, s \notin Stops(P, required), GoodStage(P, required, s)
  PROVE  GoodStage(P, required, Steps(P, required)[s])
<1> DEFINE x == NextPledge(P \ s, required - Total(s))
<1>1. x \in P \ s /\ Steps(P, required)[s] = s \cup {x}
  BY SelectionDescends
<1>2. ASSUME NEW w \in SUBSET P
      PROVE  Total(w) \in Nat /\ IsFiniteSet(w) /\ Cardinality(w) \in Nat
  <2>1. w \in SUBSET Pledges /\ IsFiniteSet(w)
    BY FS_Subset
  <2> QED
    BY <2>1, TotalType, FS_CardinalityType
<1>3. Total(s) < required /\ TopHeavy(P, s)
  <2>1. ~(Total(s) >= required) /\ Total(s) \in Nat
    BY <1>2 DEF Stops
  <2> QED
    BY <2>1 DEF GoodStage
<1>4. /\ x.value >= required - Total(s)
         \/ \A q \in P \ s : q.value <= x.value
  <2>1. P \ s # {} /\ P \ s \in SUBSET Pledges /\ IsFiniteSet(P \ s)
    BY <1>1, <1>2
  <2> QED
    BY <2>1, NextPledgeBest
<1>5. \A p \in P : p.value \in Nat
  BY DEF Pledges
<1> HIDE DEF x
<1>6. Cardinality(s \cup {x}) = Cardinality(s) + 1
  BY <1>1, <1>2, FS_AddElement
<1>7. Fewest(P, required, s \cup {x})
  <2> SUFFICES ASSUME NEW S \in SUBSET P, Cardinality(S) < Cardinality(s \cup {x})
               PROVE  Total(S) < required
    BY DEF Fewest
  <2>1. Cardinality(S) <= Cardinality(s)
    BY <1>2, <1>6
  <2>2. Outweighs(s, S)
    BY <1>3, <2>1 DEF Outweighs, TopHeavy
  <2>3. Total(S) <= Total(s)
    BY <2>2, OutweighsTotal
  <2>4. Total(S) \in Nat /\ Total(s) \in Nat
    BY <1>2
  <2> QED
    BY <1>3, <2>3, <2>4
<1>8. CASE x.value >= required - Total(s)
  <2>1. Total(s \cup {x}) = Total(s) + x.value
    BY <1>1, TotalAdd
  <2>2. Total(s) \in Nat /\ x.value \in Nat
    BY <1>1, <1>2, <1>5
  <2>3. Total(s \cup {x}) >= required
    BY <1>8, <2>1, <2>2
  <2> QED
    BY <1>1, <1>7, <2>3 DEF GoodStage
<1>9. CASE \A q \in P \ s : q.value <= x.value
  <2>1. TopHeavy(P, s \cup {x})
    BY <1>1, <1>3, <1>9 DEF TopHeavy
  <2> QED
    BY <1>1, <1>7, <2>1 DEF GoodStage
<1> QED
  BY <1>4, <1>8, <1>9

(* _select_pledges uses as few pledges as any choice that is enough. *)
LEMMA SelectionFewest ==
  ASSUME NEW P \in SUBSET Pledges, IsFiniteSet(P), NEW required \in Nat
  PROVE  Fewest(P, required, _select_pledges(P, required))
<1> DEFINE K == {s \in SUBSET P : GoodStage(P, required, s)}
<1>1. \A s \in K : s \notin Stops(P, required) => Steps(P, required)[s] \in K
  BY StageStep, SelectionDescends
<1>2. {} \in K
  <2>1. \A S \in SUBSET P : Cardinality(S) \in Nat /\ Cardinality({}) = 0
    BY FS_Subset, FS_CardinalityType, FS_EmptySet
  <2>2. Fewest(P, required, {})
    BY <2>1 DEF Fewest
  <2>3. TopHeavy(P, {})
    BY DEF TopHeavy
  <2> QED
    BY <2>2, <2>3 DEF GoodStage
<1>3. K \in SUBSET (SUBSET P)
  OBVIOUS
<1>4. _select_pledges(P, required) \in K
  <2> HIDE DEF K
  <2> QED
    BY <1>1, <1>2, <1>3, SelectionIn
<1> QED
  BY <1>4 DEF GoodStage

(***************************************************************************)
(* The invariant.                                                          *)
(***************************************************************************)

(* The values of the call variable. *)
Calls == [pc : {"idle", "check", "send"}, campaign : Campaigns, height : 0..MaxHeight,
          todo : SUBSET Pledges, prepared : SUBSET Pledges, inputs : SUBSET Pledges]

(* The type invariant in parts: the chain, the repositories, the calls,    *)
(* what was sent.                                                          *)
ChainType ==
  /\ height \in 0..MaxHeight /\ spent \subseteq Coins
  /\ mined \in [Coins -> {NotMined} \cup 0..MaxHeight]
  /\ faults \in 0..MaxFaults
StoreType ==
  /\ deadline \in [Campaigns -> Nat]
  /\ known \in [Nodes -> SUBSET Campaigns]
  /\ pledges \in [Nodes -> SUBSET Pledges]
CallType == call \in [Nodes -> Calls]
SentType == \A t \in sent : t.campaign \in Campaigns /\ t.inputs \subseteq Pledges

TypeInv == ChainType /\ StoreType /\ CallType /\ SentType

(* The parts are the model's type invariant, with calls and pledges as     *)
(* functions.                                                              *)
LEMMA TypeInvStrong == TypeInv => TypeOK
<1> SUFFICES ASSUME TypeInv PROVE TypeOK
  OBVIOUS
<1>1. \A n \in Nodes : pledges[n] \subseteq Pledges
  BY DEF TypeInv, StoreType
<1>2. \A n \in Nodes :
        /\ call[n].pc \in {"idle", "check", "send"}
        /\ call[n].campaign \in Campaigns
        /\ call[n].height \in 0..MaxHeight
        /\ call[n].todo \cup call[n].prepared \cup call[n].inputs \subseteq Pledges
  BY DEF TypeInv, CallType, Calls
<1> QED
  BY <1>1, <1>2 DEF TypeOK, TypeInv, ChainType, StoreType, SentType

(* A peer without a call. *)
LEMMA IdleType == Idle \in Calls
<1>1. (CHOOSE k \in Campaigns : TRUE) \in Campaigns
  BY FundingAssumption
<1>2. 0 \in 0..MaxHeight
  BY FundingAssumption
<1> QED
  BY <1>1, <1>2 DEF Idle, Calls

(* Repositories are finite, and hold one pledge per campaign and coin (the *)
(* UNIQUE constraint of the pledges table).                                *)
FiniteStores == \A n \in Nodes : IsFiniteSet(pledges[n])
OnePledge ==
  \A n \in Nodes : \A p, q \in pledges[n] :
    p.campaign = q.campaign /\ p.coin = q.coin => p = q

(* What a call c of peer n has collected: stored pledges for its campaign, *)
(* those it prepared at their coins' real value, inputs from these worth   *)
(* what is required, and a campaign that was open at the height it read.   *)
(* A peer without a call has nothing to do.                                *)
CallOK(n, c) ==
  /\ c.pc = "idle" => c.todo = {}
  /\ \A p \in c.todo \cup c.prepared : p \in pledges[n] /\ p.campaign = c.campaign
  /\ \A p \in c.prepared : p.value = Value[p.coin]
  /\ c.inputs \subseteq c.prepared
  /\ c.pc # "idle" => c.campaign \in known[n] /\ c.height <= deadline[c.campaign]
  /\ c.pc = "send" => Total(c.inputs) >= Required(c.campaign)
CallSound == \A n \in Nodes : CallOK(n, call[n])

(* A call that is about to send has chosen no more inputs than it needs. *)
BestCalls ==
  {c \in Calls : c.pc = "send" => Fewest(c.prepared, Required(c.campaign), c.inputs)}
CallBest == \A n \in Nodes : call[n] \in BestCalls

(* A peer without a call is not sending. *)
LEMMA IdleBest == Idle \in BestCalls
<1>1. Idle.pc = "idle"
  BY DEF Idle
<1> QED
  BY <1>1, IdleType DEF BestCalls

(* A peer without a call has collected nothing. *)
LEMMA IdleOK == ASSUME NEW n PROVE CallOK(n, Idle)
BY DEF CallOK, Idle

(* What is stored stays stored, and the deadline of a known campaign does not move. *)
StoresGrow ==
  /\ \A n \in Nodes : known[n] \subseteq known'[n] /\ pledges[n] \subseteq pledges'[n]
  /\ \A n \in Nodes : \A k \in known[n] : deadline'[k] = deadline[k]

(* create_campaign sets the deadline of a campaign no peer knows yet. *)
LEMMA CreateGrows ==
  ASSUME StoreType, ChainType, NEW n \in Nodes, NEW k \in Campaigns, create_campaign(n, k)
  PROVE  StoresGrow /\ StoreType' /\ UNCHANGED <<chain, pledges, call, sent, faults>>
<1>1. /\ known' = [known EXCEPT ![n] = @ \cup {k}] /\ \A m \in Nodes : k \notin known[m]
      /\ UNCHANGED <<chain, pledges, call, sent, faults>>
  BY DEF create_campaign
<1>2. known' \in [Nodes -> SUBSET Campaigns] /\ \A m \in Nodes : known[m] \subseteq known'[m]
  BY <1>1 DEF StoreType
<1>3. deadline' \in [Campaigns -> Nat] /\ \A j \in Campaigns : j # k => deadline'[j] = deadline[j]
  <2>1. CASE is_active(k)
    <3>1. deadline' = [deadline EXCEPT ![k] = height + deadline_height_offset]
      BY <2>1 DEF create_campaign
    <3>2. height + deadline_height_offset \in Nat
      BY FundingAssumption DEF ChainType
    <3> QED
      BY <3>1, <3>2 DEF StoreType
  <2>2. CASE ~is_active(k)
    BY <2>2 DEF create_campaign, StoreType
  <2> QED
    BY <2>1, <2>2
<1> QED
  BY <1>1, <1>2, <1>3 DEF StoresGrow, StoreType

(* Gossip of a campaign brings it with its deadline. *)
LEMMA HearGrows ==
  ASSUME StoreType, NEW n \in Nodes, NEW m \in Nodes, NEW k \in Campaigns, HearCampaign(n, m, k)
  PROVE  StoresGrow /\ StoreType' /\ UNCHANGED <<chain, pledges, call, sent, faults>>
BY DEF HearCampaign, StoresGrow, StoreType

(* add_pledge adds one pledge, and one the repository has no equal of. *)
LEMMA PledgeGrows ==
  ASSUME StoreType, FiniteStores, OnePledge, NEW n \in Nodes, NEW p \in Pledges,
         add_pledge(n, p), UNCHANGED <<deadline, known>>
  PROVE  StoresGrow /\ StoreType' /\ FiniteStores' /\ OnePledge'
<1>1. pledges' = [pledges EXCEPT ![n] = @ \cup {p}]
  BY DEF add_pledge
<1>2. /\ pledges'[n] = pledges[n] \cup {p}
      /\ \A m \in Nodes : m # n => pledges'[m] = pledges[m]
      /\ pledges' \in [Nodes -> SUBSET Pledges]
  BY <1>1 DEF StoreType
<1>3. FiniteStores'
  <2>1. IsFiniteSet(pledges[n] \cup {p})
    BY FS_AddElement DEF FiniteStores
  <2> QED
    BY <1>2, <2>1 DEF FiniteStores
<1>4. OnePledge'
  <2>1. \A q \in pledges[n] : q.campaign = p.campaign => q.coin # p.coin
    BY DEF add_pledge, StoredFor
  <2> QED
    BY <1>2, <2>1 DEF OnePledge
<1> QED
  BY <1>2, <1>3, <1>4 DEF StoresGrow, StoreType

(* The steps that write to a repository. *)
RepositoryStep ==
  \/ \E n \in Nodes, k \in Campaigns : create_campaign(n, k)
  \/ \E n, m \in Nodes, k \in Campaigns : HearCampaign(n, m, k)
  \/ \E n, m \in Nodes : \E p \in pledges[m] : HearPledge(n, m, p)
  \/ \E n \in Nodes, k \in Campaigns, c \in Coins, kind \in Kinds :
       submit_signed_pledge(n, k, c, kind)
  \/ \E n \in Nodes, k \in Campaigns, c \in Coins :
       \/ HearForeignPledge(n, k, c, "signed", Value[c] + 1)
       \/ \E kind \in {"incomplete", "otherTx", "otherVersion"} :
            HearForeignPledge(n, k, c, kind, Value[c])

(* Every write to a repository only adds to it, and leaves the chain and   *)
(* the calls alone.                                                        *)
LEMMA RepositoryGrows ==
  ASSUME TypeInv, FiniteStores, OnePledge, RepositoryStep
  PROVE  /\ StoresGrow /\ StoreType' /\ FiniteStores' /\ OnePledge'
         /\ UNCHANGED <<chain, call, sent>> /\ faults' \in 0..MaxFaults
<1>0. StoreType /\ ChainType /\ MaxFaults \in Nat
  BY FundingAssumption DEF TypeInv
<1>1. ASSUME NEW n \in Nodes, NEW k \in Campaigns, create_campaign(n, k)
      PROVE  /\ StoresGrow /\ StoreType' /\ FiniteStores' /\ OnePledge'
             /\ UNCHANGED <<chain, call, sent>> /\ faults' \in 0..MaxFaults
  BY <1>0, <1>1, CreateGrows DEF FiniteStores, OnePledge, ChainType
<1>2. ASSUME NEW n \in Nodes, NEW m \in Nodes, NEW k \in Campaigns, HearCampaign(n, m, k)
      PROVE  /\ StoresGrow /\ StoreType' /\ FiniteStores' /\ OnePledge'
             /\ UNCHANGED <<chain, call, sent>> /\ faults' \in 0..MaxFaults
  BY <1>0, <1>2, HearGrows DEF FiniteStores, OnePledge, ChainType
<1>3. ASSUME NEW n \in Nodes, NEW m \in Nodes, NEW p \in pledges[m], HearPledge(n, m, p)
      PROVE  /\ StoresGrow /\ StoreType' /\ FiniteStores' /\ OnePledge'
             /\ UNCHANGED <<chain, call, sent>> /\ faults' \in 0..MaxFaults
  <2>1. p \in Pledges
    BY <1>0 DEF StoreType
  <2>2. add_pledge(n, p) /\ UNCHANGED <<deadline, known, chain, call, sent, faults>>
    BY <1>3 DEF HearPledge
  <2> QED
    BY <1>0, <2>1, <2>2, PledgeGrows DEF ChainType
<1>4. ASSUME NEW n \in Nodes, NEW k \in Campaigns, NEW c \in Coins, NEW kind \in Kinds,
             submit_signed_pledge(n, k, c, kind)
      PROVE  /\ StoresGrow /\ StoreType' /\ FiniteStores' /\ OnePledge'
             /\ UNCHANGED <<chain, call, sent>> /\ faults' \in 0..MaxFaults
  <2> DEFINE p == [campaign |-> k, coin |-> c, value |-> Value[c], kind |-> kind]
  <2>1. p \in Pledges
    BY FundingAssumption DEF Pledges
  <2>2. /\ add_pledge(n, p) /\ UNCHANGED <<deadline, known, chain, call, sent>>
        /\ faults' \in {faults, faults + 1} /\ faults' <= MaxFaults
    BY <1>4 DEF submit_signed_pledge
  <2>3. faults' \in 0..MaxFaults
    BY <1>0, <2>2 DEF ChainType
  <2> HIDE DEF p
  <2> QED
    BY <1>0, <2>1, <2>2, <2>3, PledgeGrows
<1>5. ASSUME NEW n \in Nodes, NEW k \in Campaigns, NEW c \in Coins, NEW kind \in Kinds,
             NEW value \in Nat, HearForeignPledge(n, k, c, kind, value)
      PROVE  /\ StoresGrow /\ StoreType' /\ FiniteStores' /\ OnePledge'
             /\ UNCHANGED <<chain, call, sent>> /\ faults' \in 0..MaxFaults
  <2> DEFINE p == [campaign |-> k, coin |-> c, value |-> value, kind |-> kind]
  <2>1. p \in Pledges
    BY DEF Pledges
  <2>2. /\ add_pledge(n, p) /\ UNCHANGED <<deadline, known, chain, call, sent>>
        /\ faults' = faults + 1 /\ faults < MaxFaults
    BY <1>5 DEF HearForeignPledge
  <2>3. faults' \in 0..MaxFaults
    BY <1>0, <2>2 DEF ChainType
  <2> HIDE DEF p
  <2> QED
    BY <1>0, <2>1, <2>2, <2>3, PledgeGrows
<1>6. /\ \A c \in Coins : Value[c] \in Nat /\ Value[c] + 1 \in Nat
      /\ {"signed", "incomplete", "otherTx", "otherVersion"} \subseteq Kinds
  BY FundingAssumption DEF Kinds
<1> QED
  BY <1>1, <1>2, <1>3, <1>4, <1>5, <1>6 DEF RepositoryStep

(* A call that goes on undisturbed stays sound while the stores grow. *)
LEMMA CallKept ==
  ASSUME StoresGrow, NEW n \in Nodes, NEW c, CallOK(n, c)
  PROVE  /\ \A p \in c.todo \cup c.prepared : p \in pledges'[n] /\ p.campaign = c.campaign
         /\ c.pc # "idle" => c.campaign \in known'[n] /\ c.height <= deadline'[c.campaign]
BY DEF StoresGrow, CallOK

(* A sound call stays sound while the stores grow. *)
LEMMA CallCarried ==
  ASSUME StoresGrow, NEW n \in Nodes, NEW c, CallOK(n, c), call'[n] = c
  PROVE  CallOK(n, call[n])'
<1>1. /\ \A p \in c.todo \cup c.prepared : p \in pledges'[n] /\ p.campaign = c.campaign
      /\ c.pc # "idle" => c.campaign \in known'[n] /\ c.height <= deadline'[c.campaign]
  BY CallKept
<1>2. /\ c.pc = "idle" => c.todo = {}
      /\ \A p \in c.prepared : p.value = Value[p.coin]
      /\ c.inputs \subseteq c.prepared
      /\ c.pc = "send" => Total(c.inputs) >= Required(c.campaign)
  BY DEF CallOK
<1>3. Total(call[n].inputs)' = Total(c.inputs)
  BY Zenon DEF Total, MapThenSumSet, MapThenFoldSet
<1>4. Required(call[n].campaign)' = Required(c.campaign)
  BY DEF Required
<1> QED
  BY <1>1, <1>2, <1>3, <1>4, Zenon DEF CallOK

(* So do all of them, when none moves. *)
LEMMA CallsKept ==
  ASSUME StoresGrow, CallSound, UNCHANGED call
  PROVE  CallSound'
<1> SUFFICES ASSUME NEW n \in Nodes PROVE CallOK(n, call[n])'
  BY DEF CallSound
<1>1. CallOK(n, call[n]) /\ call'[n] = call[n]
  BY DEF CallSound
<1> QED
  BY <1>1, CallCarried

(* One call moves on to a sound record; nothing is lost from the stores. *)
LEMMA CallMoves ==
  ASSUME CallType, CallSound, CallBest, StoresGrow, NEW n \in Nodes, NEW c \in BestCalls,
         CallOK(n, c), call' = [call EXCEPT ![n] = c]
  PROVE  CallType' /\ CallSound' /\ CallBest'
<1>1. CallType'
  BY DEF CallType, BestCalls
<1>3. CallBest'
  <2>1. \A m \in Nodes : call'[m] \in BestCalls
    BY DEF CallType, CallBest
  <2> QED
    BY <2>1 DEF CallBest
<1>2. ASSUME NEW m \in Nodes PROVE CallOK(m, call[m])'
  <2>1. CASE m = n
    <3>1. call'[n] = c
      BY DEF CallType
    <3> QED
      BY <2>1, <3>1, CallCarried
  <2>2. CASE m # n
    <3>1. call'[m] = call[m] /\ CallOK(m, call[m])
      BY <2>2 DEF CallType, CallSound
    <3> QED
      BY <3>1, CallCarried
  <2> QED
    BY <2>1, <2>2
<1> QED
  BY <1>1, <1>2, <1>3 DEF CallSound

(* compute_funding_status or broadcast_final_transaction begins on an open *)
(* campaign.                                                               *)
LEMMA StartIsSound ==
  ASSUME TypeInv, NEW n \in Nodes, NEW k \in Campaigns, StartCall(n, k)
  PROVE  \E c \in BestCalls : CallOK(n, c) /\ call' = [call EXCEPT ![n] = c]
<1> DEFINE c == [Idle EXCEPT !.pc = "check", !.campaign = k,
                             !.height = height, !.todo = StoredFor(n, k)]
<1>1. /\ c.pc = "check" /\ c.campaign = k /\ c.height = height /\ c.todo = StoredFor(n, k)
      /\ c.prepared = {} /\ c.inputs = {}
  <2>1. Idle.prepared = {} /\ Idle.inputs = {}
    BY DEF Idle
  <2> QED
    BY <2>1, IdleType DEF Calls
<1>2. k \in known[n] /\ ~(height > deadline[k]) /\ call' = [call EXCEPT ![n] = c]
  <2>1. k \in known[n] /\ ~(height > deadline[k])
    BY DEF StartCall, Expired
  <2>2. call' = [call EXCEPT ![n] = c]
    BY Zenon DEF StartCall
  <2> QED
    BY <2>1, <2>2
<1>3. height \in 0..MaxHeight /\ deadline[k] \in Nat /\ StoredFor(n, k) \subseteq Pledges
  BY DEF TypeInv, ChainType, StoreType, StoredFor
<1>4. height <= deadline[k]
  BY <1>2, <1>3, FundingAssumption
<1>5. c \in Calls
  BY <1>3, IdleType DEF Calls
<1> HIDE DEF c
<1>6. CallOK(n, c)
  BY <1>1, <1>2, <1>4 DEF CallOK, StoredFor
<1>7. c \in BestCalls
  BY <1>1, <1>5 DEF BestCalls
<1> QED
  BY <1>2, <1>6, <1>7

(* _prepare_valid_pledges_for_campaign keeps a pledge only at its coin's   *)
(* real value.                                                             *)
LEMMA CheckIsSound ==
  ASSUME TypeInv, CallSound, NEW n \in Nodes, _prepare_valid_pledges_for_campaign(n)
  PROVE  \E c \in BestCalls : CallOK(n, c) /\ call' = [call EXCEPT ![n] = c]
<1>1. PICK p \in call[n].todo :
        call' = [call EXCEPT ![n] =
          IF p.kind = "incomplete" THEN Idle
          ELSE [call[n] EXCEPT !.todo = @ \ {p},
                         !.prepared = IF _validate_pledge_for_campaign(p, call[n].height)
                                        THEN @ \cup {p} ELSE @]]
  BY DEF _prepare_valid_pledges_for_campaign
<1>0. call[n] \in Calls /\ CallOK(n, call[n]) /\ n \in DOMAIN call /\ call[n].pc = "check"
  BY DEF TypeInv, CallType, CallSound, _prepare_valid_pledges_for_campaign
<1>2. CASE p.kind = "incomplete"
  BY <1>1, <1>2, IdleBest, IdleOK
<1>3. CASE p.kind # "incomplete"
  <2> DEFINE more == IF _validate_pledge_for_campaign(p, call[n].height)
                       THEN call[n].prepared \cup {p} ELSE call[n].prepared
             c == [call[n] EXCEPT !.todo = call[n].todo \ {p}, !.prepared = more]
  <2>1. call' = [call EXCEPT ![n] = c]
    <3>1. call' = [call EXCEPT ![n] = [call[n] EXCEPT !.todo = @ \ {p},
                     !.prepared = IF _validate_pledge_for_campaign(p, call[n].height)
                                    THEN @ \cup {p} ELSE @]]
      BY <1>1, <1>3, Zenon
    <3> QED
      BY <3>1
  <2>2. /\ c.todo = call[n].todo \ {p} /\ c.prepared = more /\ c.pc = call[n].pc
        /\ c.campaign = call[n].campaign /\ c.height = call[n].height /\ c.inputs = call[n].inputs
    BY <1>0 DEF Calls
  <2>3. more \subseteq Pledges /\ call[n].prepared \subseteq more
        /\ more \subseteq call[n].prepared \cup {p}
    BY <1>0 DEF Calls
  <2>4. c \in Calls
    BY <1>0, <2>3 DEF Calls
  <2>5. p \in more \ call[n].prepared => p.value = Value[p.coin]
    BY DEF _validate_pledge_for_campaign, _validate_pledge_against_chain
  <2> HIDE DEF more, c
  <2>6. CallOK(n, c)
    BY <1>0, <2>2, <2>3, <2>5 DEF CallOK
  <2>7. c \in BestCalls
    BY <1>0, <2>2, <2>4 DEF BestCalls
  <2> QED
    BY <2>1, <2>6, <2>7
<1> QED
  BY <1>2, <1>3

(* prepare_final_transaction goes on only with enough, and with no more    *)
(* inputs than it needs.                                                   *)
LEMMA PrepareIsSound ==
  ASSUME TypeInv, CallSound, FiniteStores, NEW n \in Nodes, prepare_final_transaction(n)
  PROVE  \E c \in BestCalls : CallOK(n, c) /\ call' = [call EXCEPT ![n] = c]
<1>0. call[n] \in Calls /\ CallOK(n, call[n]) /\ n \in DOMAIN call /\ call[n].pc = "check"
  BY DEF TypeInv, CallType, CallSound, prepare_final_transaction
<1> DEFINE required == Required(call[n].campaign)
           selected == _select_pledges(call[n].prepared, required)
           raises == Total(selected) < required \/ ~combine_anyonecanpay_pledges(selected)
<1>1. call[n].prepared \in SUBSET Pledges /\ IsFiniteSet(call[n].prepared)
  <2>1. call[n].prepared \subseteq pledges[n] /\ IsFiniteSet(pledges[n])
    BY <1>0 DEF CallOK, FiniteStores
  <2> QED
    BY <1>0, <2>1, FS_Subset DEF Calls
<1>2. selected \subseteq call[n].prepared
  BY <1>1, SelectionSound
<1>3. call' = [call EXCEPT ![n] = IF raises THEN Idle
                                  ELSE [call[n] EXCEPT !.pc = "send", !.inputs = selected]]
  BY DEF prepare_final_transaction
<1>4. CASE raises
  <2> HIDE DEF selected, required, raises
  <2>1. call' = [call EXCEPT ![n] = Idle]
    BY <1>3, <1>4
  <2> QED
    BY <2>1, IdleBest, IdleOK
<1>5. CASE ~raises
  <2> HIDE DEF selected
  <2> DEFINE c == [call[n] EXCEPT !.pc = "send", !.inputs = selected]
  <2>1. call' = [call EXCEPT ![n] = c]
    <3> HIDE DEF raises
    <3> QED
      BY <1>0, <1>3, <1>5
  <2>2. /\ c.pc = "send" /\ c.inputs = selected /\ c.todo = call[n].todo
        /\ c.prepared = call[n].prepared /\ c.campaign = call[n].campaign
        /\ c.height = call[n].height
    BY <1>0 DEF Calls
  <2>3. c \in Calls
    BY <1>0, <1>1, <1>2 DEF Calls
  <2>4. Total(selected) >= required
    <3>1. Total(selected) \in Nat
      <4>1. selected \in SUBSET Pledges /\ IsFiniteSet(selected)
        BY <1>1, <1>2, FS_Subset
      <4> QED
        BY <4>1, TotalType
    <3>2. required \in Nat
      BY <1>0, FundingAssumption DEF Required, Calls
    <3> HIDE DEF required
    <3> QED
      BY <1>5, <3>1, <3>2
  <2> HIDE DEF c
  <2>5. CallOK(n, c)
    BY <1>0, <1>2, <2>2, <2>4 DEF CallOK
  <2>6. c \in BestCalls
    <3>1. required \in Nat
      BY <1>0, FundingAssumption DEF Required, Calls
    <3> HIDE DEF required
    <3>2. Fewest(call[n].prepared, required, selected)
      BY <1>1, <3>1, SelectionFewest DEF selected
    <3> QED
      BY <2>2, <2>3, <3>2 DEF BestCalls, required
  <2> QED
    BY <2>1, <2>5, <2>6
<1> QED
  BY <1>4, <1>5

(* The sum of the coins' own values. *)
Worth(S) == MapThenSumSet(LAMBDA p : Value[p.coin], S)

(* A sound final transaction, of a campaign some repository knows. *)
TxOK(t) ==
  /\ t.campaign \in Campaigns /\ t.inputs \subseteq Pledges
  /\ \A p \in t.inputs : p.campaign = t.campaign /\ \E n \in Nodes : p \in pledges[n]
  /\ \A p, q \in t.inputs : p.coin = q.coin => p = q
  /\ Worth(t.inputs) >= Required(t.campaign)
  /\ t.asof <= deadline[t.campaign]
  /\ \E n \in Nodes : t.campaign \in known[n]
SentSound == \A t \in sent : TxOK(t)

(* A sound transaction stays so: pledges are never deleted, and the        *)
(* deadline of a known campaign is never moved.                            *)
LEMMA TxKept ==
  ASSUME StoresGrow, NEW t, TxOK(t)
  PROVE  TxOK(t)'
<1>1. /\ \A p \in t.inputs : p.campaign = t.campaign /\ \E n \in Nodes : p \in pledges'[n]
      /\ deadline'[t.campaign] = deadline[t.campaign]
      /\ \E n \in Nodes : t.campaign \in known'[n]
  BY DEF TxOK, StoresGrow
<1>2. /\ t.campaign \in Campaigns /\ t.inputs \subseteq Pledges
      /\ \A p, q \in t.inputs : p.coin = q.coin => p = q
      /\ Worth(t.inputs) >= Required(t.campaign)
      /\ t.asof <= deadline[t.campaign]
  BY DEF TxOK
<1>3. (Worth(t.inputs) >= Required(t.campaign))' <=> Worth(t.inputs) >= Required(t.campaign)
  OBVIOUS
<1> QED
  BY <1>1, <1>2, <1>3, Zenon DEF TxOK

(* So do all of them, when none is sent. *)
LEMMA SentKept ==
  ASSUME StoresGrow, SentSound, UNCHANGED sent
  PROVE  SentSound'
BY TxKept, Zenon DEF SentSound

(* Sound transactions satisfy the property the runs check. *)
LEMMA SentIsSound == SentSound => FinalTxSound /\ SentType
<1> SUFFICES ASSUME SentSound PROVE FinalTxSound /\ SentType
  OBVIOUS
<1>1. ASSUME NEW t \in sent
      PROVE  /\ \A p \in t.inputs : p.campaign = t.campaign /\ \E n \in Nodes : p \in pledges[n]
             /\ \A p, q \in t.inputs : p.coin = q.coin => p = q
             /\ MapThenSumSet(LAMBDA p : Value[p.coin], t.inputs) >= Required(t.campaign)
             /\ t.asof <= deadline[t.campaign]
             /\ t.campaign \in Campaigns /\ t.inputs \subseteq Pledges
  BY Zenon DEF SentSound, TxOK, Worth
<1>2. FinalTxSound
  BY <1>1, Zenon DEF FinalTxSound
<1>3. SentType
  BY <1>1, Zenon DEF SentType
<1> QED
  BY <1>2, <1>3

(* What a call that reached the broadcast sends is sound. *)
LEMMA FinalTransactionIsSound ==
  ASSUME TypeInv, CallSound, OnePledge, NEW n \in Nodes, call[n].pc = "send"
  PROVE  TxOK([campaign |-> call[n].campaign, inputs |-> call[n].inputs, asof |-> call[n].height])
<1> DEFINE c == call[n]
           t == [campaign |-> c.campaign, inputs |-> c.inputs, asof |-> c.height]
<1>1. c \in Calls /\ CallOK(n, c)
  BY DEF TypeInv, CallType, CallSound
<1>2. t.campaign = c.campaign /\ t.inputs = c.inputs /\ t.asof = c.height
  OBVIOUS
<1>3. c.pc = "send"
  OBVIOUS
<1> HIDE DEF c, t
<1>4. c.campaign \in Campaigns /\ c.inputs \subseteq Pledges
  BY <1>1 DEF Calls
<1>5. /\ \A p \in c.inputs : p \in pledges[n] /\ p.campaign = c.campaign
                             /\ p.value = Value[p.coin]
      /\ c.campaign \in known[n] /\ c.height <= deadline[c.campaign]
      /\ Total(c.inputs) >= Required(c.campaign)
  BY <1>1, <1>3 DEF CallOK
<1>6. \A p, q \in c.inputs : p.coin = q.coin => p = q
  BY <1>5 DEF OnePledge
<1>7. Worth(c.inputs) = Total(c.inputs)
  BY <1>5, ClaimedIsReal DEF Worth
<1>8. Worth(c.inputs) >= Required(c.campaign)
  BY <1>5, <1>7
<1>9. TxOK(t)
  BY <1>2, <1>4, <1>5, <1>6, <1>8 DEF TxOK
<1> QED
  BY <1>9 DEF t, c

(* The inductive invariant: besides the types, what every call has         *)
(* collected so far, because the transaction is judged when it is sent and *)
(* built from what earlier questions found.                                *)
FundingInv == TypeInv /\ FiniteStores /\ OnePledge /\ CallSound /\ CallBest /\ SentSound

(* The invariant holds of empty repositories. *)
LEMMA FundingStarts == Init => FundingInv
<1> SUFFICES ASSUME Init PROVE FundingInv
  OBVIOUS
<1>1. ChainType
  BY FundingAssumption DEF Init, ChainType
<1>2. StoreType
  BY DEF Init, StoreType
<1>3. CallType
  BY IdleType DEF Init, CallType
<1>4. FiniteStores /\ OnePledge
  BY FS_EmptySet DEF Init, FiniteStores, OnePledge
<1>5. CallSound
  <2> SUFFICES ASSUME NEW n \in Nodes PROVE CallOK(n, call[n])
    BY DEF CallSound
  <2>1. call[n] = Idle
    BY DEF Init
  <2> QED
    BY <2>1, IdleOK
<1>6. SentSound /\ SentType
  BY DEF Init, SentSound, SentType
<1>7. CallBest
  BY IdleBest DEF Init, CallBest
<1> QED
  BY <1>1, <1>2, <1>3, <1>4, <1>5, <1>6, <1>7 DEF FundingInv, TypeInv

(* Repositories that are not written to are a special case of growing ones. *)
LEMMA StoresStay == ASSUME UNCHANGED stores PROVE StoresGrow
BY DEF stores, StoresGrow

(* A step of a call that sends nothing. *)
LEMMA QuietCallStep ==
  ASSUME FundingInv, NEW n \in Nodes, NEW c \in BestCalls, CallOK(n, c),
         call' = [call EXCEPT ![n] = c], UNCHANGED <<chain, stores, sent, faults>>
  PROVE  FundingInv'
<1>0. TypeInv /\ FiniteStores /\ OnePledge /\ CallSound /\ CallBest /\ SentSound
  BY DEF FundingInv
<1>1. StoresGrow
  BY StoresStay
<1>2. CallType' /\ CallSound' /\ CallBest'
  BY <1>0, <1>1, CallMoves DEF TypeInv
<1>3. SentSound'
  BY <1>0, <1>1, SentKept
<1>4. ChainType' /\ StoreType' /\ SentType' /\ FiniteStores' /\ OnePledge'
  BY <1>0 DEF TypeInv, ChainType, StoreType, SentType, FiniteStores, OnePledge, chain, stores
<1> QED
  BY <1>2, <1>3, <1>4 DEF FundingInv, TypeInv

(* broadcast_final_transaction sends what the call prepared, or nothing. *)
LEMMA BroadcastKeeps ==
  ASSUME FundingInv, NEW n \in Nodes, broadcast_final_transaction(n)
  PROVE  FundingInv'
<1> DEFINE t == [campaign |-> call[n].campaign, inputs |-> call[n].inputs, asof |-> call[n].height]
<1>0. TypeInv /\ FiniteStores /\ OnePledge /\ CallSound /\ CallBest /\ SentSound
  BY DEF FundingInv
<1>1. /\ call[n].pc = "send" /\ call' = [call EXCEPT ![n] = Idle]
      /\ UNCHANGED <<height, mined, stores, faults>>
  BY Zenon DEF broadcast_final_transaction
<1>2. StoresGrow
  BY <1>1, StoresStay
<1>3. CallType' /\ CallSound' /\ CallBest'
  BY <1>0, <1>1, <1>2, CallMoves, IdleBest, IdleOK DEF TypeInv
<1>4. TxOK(t)
  BY <1>0, <1>1, FinalTransactionIsSound
<1>5. sent' \subseteq sent \cup {t}
  BY DEF broadcast_final_transaction
<1>6. spent' \subseteq Coins
  <2>1. spent \subseteq Coins /\ \A p \in call[n].inputs : p.coin \in Coins
    BY <1>0 DEF TypeInv, ChainType, CallType, Calls, Pledges
  <2>2. spent' \subseteq spent \cup {p.coin : p \in call[n].inputs}
    BY DEF broadcast_final_transaction
  <2> QED
    BY <2>1, <2>2
<1> HIDE DEF t
<1>7. SentSound'
  <2> SUFFICES ASSUME NEW u \in sent' PROVE TxOK(u)'
    BY DEF SentSound
  <2>1. TxOK(u)
    BY <1>0, <1>4, <1>5 DEF SentSound
  <2> QED
    BY <1>2, <2>1, TxKept
<1>8. ChainType' /\ StoreType' /\ FiniteStores' /\ OnePledge'
  BY <1>0, <1>1, <1>6 DEF TypeInv, ChainType, StoreType, FiniteStores, OnePledge, stores
<1>9. SentType'
  BY <1>7 DEF SentSound, SentType, TxOK
<1> QED
  BY <1>3, <1>7, <1>8, <1>9 DEF FundingInv, TypeInv

(* A step of the chain touches neither repositories nor calls. *)
LEMMA ChainKeeps ==
  ASSUME FundingInv, ChainType', UNCHANGED <<stores, call, sent>>
  PROVE  FundingInv'
<1>0. TypeInv /\ FiniteStores /\ OnePledge /\ CallSound /\ CallBest /\ SentSound
  BY DEF FundingInv
<1>1. StoresGrow
  BY StoresStay
<1>2. CallSound' /\ CallBest' /\ SentSound'
  BY <1>0, <1>1, CallsKept, SentKept DEF CallBest
<1>3. StoreType' /\ CallType' /\ SentType' /\ FiniteStores' /\ OnePledge'
  BY <1>0 DEF TypeInv, CallType, StoreType, SentType, FiniteStores, OnePledge, stores
<1> QED
  BY <1>2, <1>3 DEF FundingInv, TypeInv

(* A block keeps heights within the bound. *)
LEMMA BlockType == ASSUME FundingInv, Block PROVE ChainType'
<1>0. ChainType
  BY DEF FundingInv, TypeInv
<1>1. height' \in 0..MaxHeight
  BY <1>0, FundingAssumption DEF Block, ChainType
<1>2. mined' \in [Coins -> {NotMined} \cup 0..MaxHeight]
  <2>1. PICK S : mined' = [c \in Coins |-> IF c \in S THEN height' ELSE mined[c]]
    BY DEF Block
  <2> QED
    BY <1>0, <1>1, <2>1 DEF ChainType
<1> QED
  BY <1>0, <1>1, <1>2 DEF Block, ChainType

(* An owner's spend is one of the bounded faults. *)
LEMMA SpendType == ASSUME FundingInv, NEW c \in Coins, SpendElsewhere(c) PROVE ChainType'
<1>0. ChainType
  BY DEF FundingInv, TypeInv
<1>1. faults' \in 0..MaxFaults
  BY <1>0, FundingAssumption DEF SpendElsewhere, ChainType
<1> QED
  BY <1>0, <1>1 DEF SpendElsewhere, ChainType

(* Writes to a repository keep the invariant, calls in progress included. *)
LEMMA RepositoryKeeps == ASSUME FundingInv, RepositoryStep PROVE FundingInv'
<1>0. TypeInv /\ FiniteStores /\ OnePledge /\ CallSound /\ CallBest /\ SentSound
  BY DEF FundingInv
<1>1. /\ StoresGrow /\ StoreType' /\ FiniteStores' /\ OnePledge'
      /\ UNCHANGED <<chain, call, sent>> /\ faults' \in 0..MaxFaults
  BY <1>0, RepositoryGrows
<1>2. CallSound' /\ CallBest' /\ SentSound'
  BY <1>0, <1>1, CallsKept, SentKept DEF CallBest
<1>3. ChainType' /\ CallType' /\ SentType'
  BY <1>0, <1>1 DEF TypeInv, ChainType, CallType, SentType, chain
<1> QED
  BY <1>1, <1>2, <1>3 DEF FundingInv, TypeInv

(* Every step keeps the invariant. *)
LEMMA FundingStep == FundingInv /\ [Next]_vars => FundingInv'
<1> SUFFICES ASSUME FundingInv, [Next]_vars PROVE FundingInv'
  OBVIOUS
<1>0. TypeInv /\ FiniteStores /\ OnePledge /\ CallSound /\ CallBest /\ SentSound
  BY DEF FundingInv
<1>1. CASE RepositoryStep
  BY <1>1, RepositoryKeeps
<1>2. ASSUME NEW n \in Nodes, NEW k \in Campaigns, StartCall(n, k) PROVE FundingInv'
  <2>1. PICK c \in BestCalls : CallOK(n, c) /\ call' = [call EXCEPT ![n] = c]
    BY <1>0, <1>2, StartIsSound
  <2>2. UNCHANGED <<chain, stores, sent, faults>>
    BY <1>2 DEF StartCall
  <2> QED
    BY <2>1, <2>2, QuietCallStep
<1>3. ASSUME NEW n \in Nodes, CallStep(n) PROVE FundingInv'
  <2>1. CASE _prepare_valid_pledges_for_campaign(n)
    <3>1. PICK c \in BestCalls : CallOK(n, c) /\ call' = [call EXCEPT ![n] = c]
      BY <1>0, <2>1, CheckIsSound
    <3>2. UNCHANGED <<chain, stores, sent, faults>>
      BY <2>1 DEF _prepare_valid_pledges_for_campaign
    <3> QED
      BY <3>1, <3>2, QuietCallStep
  <2>2. CASE compute_funding_status(n)
    <3>1. call' = [call EXCEPT ![n] = Idle] /\ UNCHANGED <<chain, stores, sent, faults>>
      BY <2>2 DEF compute_funding_status
    <3> QED
      BY <3>1, IdleBest, IdleOK, QuietCallStep
  <2>3. CASE prepare_final_transaction(n)
    <3>1. PICK c \in BestCalls : CallOK(n, c) /\ call' = [call EXCEPT ![n] = c]
      BY <1>0, <2>3, PrepareIsSound
    <3>2. UNCHANGED <<chain, stores, sent, faults>>
      BY <2>3 DEF prepare_final_transaction
    <3> QED
      BY <3>1, <3>2, QuietCallStep
  <2>4. CASE broadcast_final_transaction(n)
    BY <2>4, BroadcastKeeps
  <2> QED
    BY <1>3, <2>1, <2>2, <2>3, <2>4 DEF CallStep
<1>4. CASE Block
  <2>1. UNCHANGED <<stores, call, sent>>
    BY <1>4 DEF Block
  <2> QED
    BY <1>4, <2>1, BlockType, ChainKeeps
<1>5. ASSUME NEW c \in Coins, SpendElsewhere(c) PROVE FundingInv'
  <2>1. UNCHANGED <<stores, call, sent>>
    BY <1>5 DEF SpendElsewhere
  <2> QED
    BY <1>5, <2>1, SpendType, ChainKeeps
<1>6. CASE UNCHANGED vars
  <2>1. UNCHANGED <<stores, call, sent>> /\ ChainType'
    BY <1>0, <1>6 DEF vars, stores, TypeInv, ChainType
  <2> QED
    BY <2>1, ChainKeeps
<1>7. Callers \subseteq Nodes
  BY FundingAssumption
<1> QED
  BY <1>1, <1>2, <1>3, <1>4, <1>5, <1>6, <1>7, Zenon DEF Next, RepositoryStep

(* The invariant holds throughout. *)
LEMMA FundingInvariant == Spec => []FundingInv
BY FundingStarts, FundingStep, PTL DEF Spec

(* The types of all the variables, for any peers, campaigns and coins. *)
THEOREM FundingTypeCorrect == Spec => []TypeOK
<1>1. FundingInv => TypeOK
  BY TypeInvStrong DEF FundingInv
<1> QED
  BY <1>1, FundingInvariant, PTL

(* Whatever blocks, spends and unvalidated pledges come between the        *)
(* questions of broadcast_final_transaction, what it puts on the network   *)
(* spends distinct coins pledged to the campaign, worth the asking price   *)
(* and the fee by the chain's own values, of a campaign that was open when *)
(* the call began.                                                         *)
THEOREM FinalTransactionSound == Spec => []FinalTxSound
<1>1. FundingInv => FinalTxSound
  BY SentIsSound DEF FundingInv
<1> QED
  BY <1>1, FundingInvariant, PTL

(* The selection succeeds whenever all the prepared pledges together would *)
(* (what compute_funding_status reports), and no choice of fewer pledges is *)
(* enough, for every set of pledges and every price.                       *)
THEOREM SelectionNeedsNoMore == Spec => []FewestInputs
<1>1. ASSUME FundingInv PROVE FewestInputs
  <2> SUFFICES ASSUME NEW n \in Nodes
               PROVE  LET all == call[n].prepared
                          required == Required(call[n].campaign)
                          fewer == {S \in SUBSET all : Cardinality(S) < Cardinality(call[n].inputs)}
                      IN  /\ call[n].pc = "send" => \A S \in fewer : Total(S) < required
                          /\ call[n].pc = "check" /\ call[n].todo = {} /\ Total(all) >= required =>
                               Total(_select_pledges(all, required)) >= required
    BY Zenon DEF FewestInputs
  <2> DEFINE all == call[n].prepared
             required == Required(call[n].campaign)
  <2>0. FiniteStores /\ CallSound /\ CallBest
    BY <1>1 DEF FundingInv
  <2>1. call[n] \in Calls /\ (call[n].pc = "send" => Fewest(all, required, call[n].inputs))
    BY <2>0 DEF CallBest, BestCalls
  <2>2. all \in SUBSET Pledges /\ IsFiniteSet(all)
    <3>1. all \subseteq pledges[n] /\ IsFiniteSet(pledges[n])
      BY <2>0 DEF CallSound, CallOK, FiniteStores
    <3> QED
      BY <2>1, <3>1, FS_Subset DEF Calls
  <2> HIDE DEF all, required
  <2>3. call[n].pc = "send" =>
          \A S \in {S \in SUBSET all : Cardinality(S) < Cardinality(call[n].inputs)} :
            Total(S) < required
    BY <2>1, Zenon DEF Fewest
  <2>4. Total(all) >= required => Total(_select_pledges(all, required)) >= required
    <3>1. \/ Total(_select_pledges(all, required)) >= required
          \/ _select_pledges(all, required) = all
      BY <2>2, SelectionSound
    <3> QED
      BY <3>1, Zenon
  <2> QED
    BY <2>3, <2>4, Zenon DEF all, required
<1> QED
  BY <1>1, FundingInvariant, PTL

-------------------------------------------------------------------------------
(***************************************************************************)
(* What submit_signed_pledge accepted goes on being valid.                 *)
(***************************************************************************)

(* The pledges only submit_signed_pledge makes. *)
Own(p) == p.kind = "signed" /\ p.value = Value[p.coin]

(* Wherever it is stored, such a pledge is to a campaign that asks for     *)
(* something, and its coin is confirmed as often as the policy wants.      *)
Settled(p) == is_active(p.campaign) /\ Confirmations(p.coin) >= min_confirmations
OwnSettled == \A n \in Nodes : \A p \in pledges[n] : Own(p) => Settled(p)

(* Confirmations are never lost: blocks are only added. *)
LEMMA SettledStays ==
  ASSUME ChainType, NEW p \in Pledges, Settled(p), UNCHANGED <<height, mined>> \/ Block
  PROVE  Settled(p)'
<1>0. p.coin \in Coins /\ height \in Nat /\ min_confirmations \in Nat
  BY FundingAssumption DEF Pledges, ChainType
<1>1. mined[p.coin] = NotMined \/ mined[p.coin] \in Nat
  <2>1. mined[p.coin] \in {NotMined} \cup 0..MaxHeight
    BY <1>0 DEF ChainType
  <2>2. \A h \in 0..MaxHeight : h \in Nat
    OBVIOUS
  <2> QED
    BY <2>1, <2>2
<1>2. is_active(p.campaign)'
  BY DEF Settled, is_active
<1>3. CASE UNCHANGED <<height, mined>>
  BY <1>2, <1>3 DEF Settled, Confirmations
<1>4. CASE Block
  <2>1. PICK S \in SUBSET {c \in Coins : mined[c] = NotMined} :
          mined' = [c \in Coins |-> IF c \in S THEN height' ELSE mined[c]]
    BY <1>4 DEF Block
  <2>2. height' = height + 1
    BY <1>4 DEF Block
  <2>3. mined'[p.coin] = mined[p.coin] \/ (mined[p.coin] = NotMined /\ mined'[p.coin] = height')
    BY <1>0, <2>1
  <2>4. Confirmations(p.coin)' \in Int /\ Confirmations(p.coin)' >= Confirmations(p.coin)
        /\ Confirmations(p.coin) \in Int
    BY <1>0, <1>1, <2>2, <2>3 DEF Confirmations, NotMined
  <2> QED
    BY <1>0, <1>2, <2>4 DEF Settled
<1> QED
  BY <1>3, <1>4

(* A stored pledge was stored before, came from another repository, was    *)
(* submitted here and found valid, or is not one submit makes.             *)
LEMMA StoredFrom ==
  ASSUME TypeInv, RepositoryStep, NEW n \in Nodes, NEW p \in pledges'[n]
  PROVE  (\E m \in Nodes : p \in pledges[m]) \/ ~Own(p) \/ Settled(p)
<1>0. /\ pledges \in [Nodes -> SUBSET Pledges]
      /\ \A c \in Coins : Value[c] \in Nat
  BY FundingAssumption DEF TypeInv, StoreType
<1>1. CASE UNCHANGED pledges
  BY <1>1
<1>2. ASSUME NEW i \in Nodes, NEW m \in Nodes, NEW q \in pledges[m], HearPledge(i, m, q)
      PROVE  \E j \in Nodes : p \in pledges[j]
  <2>1. pledges' = [pledges EXCEPT ![i] = @ \cup {q}]
    BY <1>2 DEF HearPledge, add_pledge
  <2> QED
    BY <1>0, <1>2, <2>1
<1>3. ASSUME NEW i \in Nodes, NEW k \in Campaigns, NEW c \in Coins, NEW kind \in Kinds,
             submit_signed_pledge(i, k, c, kind)
      PROVE  (\E m \in Nodes : p \in pledges[m]) \/ Settled(p)
  <2> DEFINE q == [campaign |-> k, coin |-> c, value |-> Value[c], kind |-> kind]
  <2>1. /\ pledges' = [pledges EXCEPT ![i] = @ \cup {q}]
        /\ _validate_pledge_for_campaign(q, height)
    BY <1>3 DEF submit_signed_pledge, add_pledge
  <2>2. Settled(q)
    BY <2>1 DEF _validate_pledge_for_campaign, _validate_pledge_against_chain, Settled
  <2> HIDE DEF q
  <2> QED
    BY <1>0, <2>1, <2>2
<1>4. ASSUME NEW i \in Nodes, NEW k \in Campaigns, NEW c \in Coins, NEW kind, NEW value,
             HearForeignPledge(i, k, c, kind, value), kind # "signed" \/ value # Value[c]
      PROVE  (\E m \in Nodes : p \in pledges[m]) \/ ~Own(p)
  <2> DEFINE q == [campaign |-> k, coin |-> c, value |-> value, kind |-> kind]
  <2>1. pledges' = [pledges EXCEPT ![i] = @ \cup {q}]
    BY <1>4 DEF HearForeignPledge, add_pledge
  <2>2. ~Own(q)
    BY <1>4 DEF Own
  <2> HIDE DEF q
  <2> QED
    BY <1>0, <2>1, <2>2
<1>5. \A c \in Coins : Value[c] + 1 # Value[c]
  BY <1>0
<1>6. ASSUME NEW i \in Nodes, NEW k \in Campaigns, create_campaign(i, k) PROVE UNCHANGED pledges
  BY <1>6 DEF create_campaign
<1>7. ASSUME NEW i \in Nodes, NEW m \in Nodes, NEW k \in Campaigns, HearCampaign(i, m, k)
      PROVE  UNCHANGED pledges
  BY <1>7 DEF HearCampaign
<1> QED
  BY <1>1, <1>2, <1>3, <1>4, <1>5, <1>6, <1>7 DEF RepositoryStep

(* Steps outside the repositories leave the pledges alone, and of the      *)
(* chain they move only what a block or a spend moves.                     *)
LEMMA OtherSteps ==
  ASSUME [Next]_vars
  PROVE  RepositoryStep \/ (UNCHANGED pledges /\ (UNCHANGED <<height, mined>> \/ Block))
<1>1. ASSUME NEW n \in Callers, NEW k \in Campaigns, StartCall(n, k)
      PROVE  UNCHANGED <<pledges, height, mined>>
  BY <1>1 DEF StartCall, chain, stores
<1>2. ASSUME NEW n \in Callers, CallStep(n) PROVE UNCHANGED <<pledges, height, mined>>
  BY <1>2 DEF CallStep, _prepare_valid_pledges_for_campaign, compute_funding_status,
     prepare_final_transaction, broadcast_final_transaction, chain, stores
<1>3. ASSUME NEW c \in Coins, SpendElsewhere(c) PROVE UNCHANGED <<pledges, height, mined>>
  BY <1>3 DEF SpendElsewhere, stores
<1>4. ASSUME Block PROVE UNCHANGED pledges
  BY <1>4 DEF Block, stores
<1>5. ASSUME UNCHANGED vars PROVE UNCHANGED <<pledges, height, mined>>
  BY <1>5 DEF vars
<1> QED
  BY <1>1, <1>2, <1>3, <1>4, <1>5 DEF Next, RepositoryStep

LEMMA OwnSettledStep ==
  ASSUME FundingInv, OwnSettled, [Next]_vars
  PROVE  OwnSettled'
<1>0. TypeInv /\ FiniteStores /\ OnePledge
  BY DEF FundingInv
<1> SUFFICES ASSUME NEW n \in Nodes, NEW p \in pledges'[n], Own(p) PROVE Settled(p)'
  BY DEF OwnSettled, Own
<1>1. CASE RepositoryStep
  <2>1. Settled(p)
    BY <1>0, <1>1, StoredFrom DEF OwnSettled
  <2>2. UNCHANGED chain /\ pledges' \in [Nodes -> SUBSET Pledges]
    BY <1>0, <1>1, RepositoryGrows DEF StoreType
  <2>3. p \in Pledges /\ UNCHANGED <<height, mined>>
    BY <2>2 DEF chain
  <2> QED
    BY <1>0, <2>1, <2>3, SettledStays DEF TypeInv
<1>2. CASE UNCHANGED pledges /\ (UNCHANGED <<height, mined>> \/ Block)
  <2>1. p \in pledges[n] /\ p \in Pledges
    BY <1>0, <1>2 DEF TypeInv, StoreType
  <2> QED
    BY <1>0, <1>2, <2>1, SettledStays DEF TypeInv, OwnSettled
<1> QED
  BY <1>1, <1>2, OtherSteps

(* Only the loop over a call's pledges takes one off its list. *)
LEMMA TakenByTheLoop ==
  ASSUME FundingInv, [Next]_vars, NEW n \in Nodes, NEW p \in call[n].todo \ call'[n].todo,
         call'[n].pc # "idle"
  PROVE  /\ call[n].pc = "check"
         /\ call'[n].prepared = IF _validate_pledge_for_campaign(p, call[n].height)
                                   THEN call[n].prepared \cup {p} ELSE call[n].prepared
<1>0. call \in [Nodes -> Calls] /\ CallOK(n, call[n]) /\ Idle.pc = "idle"
  BY DEF FundingInv, TypeInv, CallType, CallSound, Idle
<1>1. CASE UNCHANGED call
  BY <1>1
<1>2. ASSUME NEW m \in Nodes, NEW c, call' = [call EXCEPT ![m] = c]
      PROVE  n = m /\ call'[n] = c
  BY <1>0, <1>2
<1>3. ASSUME NEW m \in Nodes, NEW k \in Campaigns, StartCall(m, k) PROVE FALSE
  <2>1. call[m].pc = "idle" /\ \E c : call' = [call EXCEPT ![m] = c]
    BY <1>3, Zenon DEF StartCall
  <2>2. n = m
    BY <1>2, <2>1
  <2> QED
    BY <1>0, <2>1, <2>2 DEF CallOK
<1>4. ASSUME NEW m \in Nodes, compute_funding_status(m) \/ broadcast_final_transaction(m)
      PROVE  FALSE
  <2>1. call' = [call EXCEPT ![m] = Idle]
    BY <1>4, Zenon DEF compute_funding_status, broadcast_final_transaction
  <2> QED
    BY <1>0, <1>2, <2>1
<1>5. ASSUME NEW m \in Nodes, prepare_final_transaction(m) PROVE FALSE
  <2>1. call[m].todo = {} /\ \E c : call' = [call EXCEPT ![m] = c]
    BY <1>5, Zenon DEF prepare_final_transaction
  <2> QED
    BY <1>2, <2>1
<1>6. ASSUME NEW m \in Nodes, _prepare_valid_pledges_for_campaign(m)
      PROVE  /\ call[n].pc = "check"
             /\ call'[n].prepared = IF _validate_pledge_for_campaign(p, call[n].height)
                                       THEN call[n].prepared \cup {p} ELSE call[n].prepared
  <2>1. PICK q \in call[m].todo :
          call' = [call EXCEPT ![m] =
            IF q.kind = "incomplete" THEN Idle
            ELSE [call[m] EXCEPT !.todo = @ \ {q},
                           !.prepared = IF _validate_pledge_for_campaign(q, call[m].height)
                                          THEN @ \cup {q} ELSE @]]
    BY <1>6 DEF _prepare_valid_pledges_for_campaign
  <2>2. n = m /\ call[n].pc = "check"
    <3>1. call[m].pc = "check" /\ \E c : call' = [call EXCEPT ![m] = c]
      BY <1>6, <2>1, Zenon DEF _prepare_valid_pledges_for_campaign
    <3> QED
      BY <1>2, <3>1
  <2> DEFINE more == IF _validate_pledge_for_campaign(q, call[n].height)
                       THEN call[n].prepared \cup {q} ELSE call[n].prepared
  <2>3. q.kind # "incomplete"
    <3> SUFFICES ASSUME q.kind = "incomplete" PROVE FALSE
      OBVIOUS
    <3>1. call' = [call EXCEPT ![m] = Idle]
      BY <2>1, Zenon
    <3> QED
      BY <1>0, <1>2, <3>1
  <2>4. call'[n] = [call[n] EXCEPT !.todo = call[n].todo \ {q}, !.prepared = more]
    <3>1. call'[n] = [call[n] EXCEPT !.todo = @ \ {q},
                        !.prepared = IF _validate_pledge_for_campaign(q, call[n].height)
                                       THEN @ \cup {q} ELSE @]
      BY <1>0, <2>1, <2>2, <2>3
    <3> QED
      BY <3>1
  <2>5. call'[n].todo = call[n].todo \ {q} /\ call'[n].prepared = more
    <3> HIDE DEF more
    <3>1. call[n] \in Calls
      BY <1>0
    <3> QED
      BY <2>4, <3>1 DEF Calls
  <2>6. p = q
    BY <2>5
  <2> QED
    BY <2>2, <2>5, <2>6
<1>7. \/ \E m \in Nodes, k \in Campaigns : StartCall(m, k)
      \/ \E m \in Nodes : CallStep(m)
      \/ UNCHANGED call
  <2>1. Callers \subseteq Nodes /\ TypeInv /\ FiniteStores /\ OnePledge
    BY FundingAssumption DEF FundingInv
  <2>2. RepositoryStep => UNCHANGED call
    BY <2>1, RepositoryGrows
  <2>3. Block \/ (\E c \in Coins : SpendElsewhere(c)) \/ UNCHANGED vars => UNCHANGED call
    BY DEF Block, SpendElsewhere, vars
  <2> QED
    BY <2>1, <2>2, <2>3, Zenon DEF Next, RepositoryStep
<1> QED
  BY <1>1, <1>3, <1>4, <1>5, <1>6, <1>7 DEF CallStep

(* OwnPledgesCount: a pledge that submit_signed_pledge accepted is passed  *)
(* over by a later call, at any peer, only if its coin is spent, whatever  *)
(* blocks come between the call's questions.                               *)
THEOREM SubmittedPledgesCount == Spec => OwnPledgesCount
<1> DEFINE A == \A n \in Nodes : \A p \in call[n].todo \ call'[n].todo :
                  call'[n].pc # "idle" /\ p.kind = "signed" /\ p.value = Value[p.coin] =>
                    p \in call'[n].prepared \/ p.coin \in spent
           Inv == FundingInv /\ OwnSettled
<1>1. Init => OwnSettled
  BY DEF Init, OwnSettled
<1>2. OwnSettled /\ FundingInv /\ [Next]_vars => OwnSettled'
  BY OwnSettledStep
<1>3. Inv /\ [Next]_vars => A
  <2> SUFFICES ASSUME Inv, [Next]_vars, NEW n \in Nodes, NEW p \in call[n].todo \ call'[n].todo,
                      call'[n].pc # "idle", p.kind = "signed", p.value = Value[p.coin],
                      p.coin \notin spent
               PROVE  p \in call'[n].prepared
    OBVIOUS
  <2>1. /\ call[n].pc = "check"
        /\ call'[n].prepared = IF _validate_pledge_for_campaign(p, call[n].height)
                                  THEN call[n].prepared \cup {p} ELSE call[n].prepared
    BY TakenByTheLoop
  <2>2. /\ p \in pledges[n] /\ p.campaign = call[n].campaign
        /\ call[n].height <= deadline[p.campaign]
    BY <2>1 DEF FundingInv, CallSound, CallOK
  <2>3. call[n].height \in Nat /\ deadline[p.campaign] \in Nat
    <3>1. call[n] \in Calls /\ deadline \in [Campaigns -> Nat]
      BY DEF FundingInv, TypeInv, CallType, StoreType
    <3> QED
      BY <2>2, <3>1, FundingAssumption DEF Calls
  <2>4. ~Expired(p.campaign, call[n].height)
    BY <2>2, <2>3 DEF Expired
  <2>5. Settled(p)
    BY <2>2 DEF OwnSettled, Own
  <2>6. _validate_pledge_for_campaign(p, call[n].height)
    BY <2>4, <2>5 DEF _validate_pledge_for_campaign, _validate_pledge_against_chain,
       _validate_finalized_pledge_transaction, Settled, Unspent
  <2> QED
    BY <2>1, <2>6
<1>4. Spec => [][A]_vars
  <2> HIDE DEF A
  <2>1. Spec => []Inv
    BY <1>1, <1>2, FundingInvariant, PTL DEF Spec
  <2>2. Inv /\ [Next]_vars => [A]_vars
    BY <1>3
  <2> QED
    BY <2>1, <2>2, PTL DEF Spec
<1> QED
  BY <1>4 DEF OwnPledgesCount
===============================================================================
