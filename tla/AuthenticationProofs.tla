------------------------- MODULE AuthenticationProofs -------------------------
(***************************************************************************)
(* Proofs about Authentication, for every set of identities, every size of *)
(* the challenge store, every lifetime of a challenge and every number of  *)
(* failures: types, the bound of the store, and that no signature is       *)
(* accepted twice.                                                         *)
(***************************************************************************)
EXTENDS Authentication, FiniteSetTheorems, TLAPS

USE AuthenticationAssumption

(* A signature that was accepted no longer fits a stored challenge: what   *)
(* makes NoReplay inductive.                                               *)
UsedIsSpent == sig.used /\ sig.current => sig.key \notin Stored

FiniteStore == IsFiniteSet(Stored)

AuthInv == TypeOK /\ NoReplay /\ UsedIsSpent /\ FiniteStore /\ StoreBounded

-----------------------------------------------------------------------------
(* The challenge store.                                                     *)

(* What save leaves: types, room for no more than max_size, and a          *)
(* challenge for no other key than k that had none.                        *)
LEMMA SaveEffect ==
  ASSUME TypeOK, FiniteStore, StoreBounded, NEW k \in Keys, save(k)
  PROVE  /\ store' \in [Keys -> {Absent} \cup Ages] /\ refused' \in BOOLEAN
         /\ Stored' \subseteq Stored \cup {k}
         /\ refused' => k \notin Stored'
         /\ FiniteStore' /\ StoreBounded'
<1> DEFINE kept == _cleanup_expired(k)
           full == Refuses(k)
           held == IF full THEN kept ELSE kept \cup {k}
<1>1. /\ refused' = full
      /\ store' = [j \in Keys |-> IF j \notin held THEN Absent
                                   ELSE IF j = k THEN 0 ELSE store[j]]
  BY DEF save
<1>2. kept \subseteq Stored /\ Stored \subseteq Keys
  BY DEF _cleanup_expired, Active, Stored
<1>3. Stored' = held
  <2>1. held \subseteq Keys /\ \A j \in held : j = k \/ store[j] # Absent
    BY <1>2 DEF Stored
  <2>2. \A j \in Keys : store'[j] # Absent <=> j \in held
    BY <1>1, <2>1 DEF Absent
  <2> QED
    BY <2>1, <2>2 DEF Stored
<1>4. store' \in [Keys -> {Absent} \cup Ages]
  BY <1>1 DEF TypeOK, Ages
<1>5. IsFiniteSet(kept) /\ Cardinality(kept) \in Nat /\ Cardinality(kept) <= max_size
  BY <1>2, FS_Subset, FS_CardinalityType DEF FiniteStore, StoreBounded
<1>6. /\ IsFiniteSet(kept \cup {k})
      /\ Cardinality(kept \cup {k}) = IF k \in kept THEN Cardinality(kept)
                                       ELSE Cardinality(kept) + 1
  BY <1>5, FS_AddElement
<1>7. IsFiniteSet(held) /\ Cardinality(held) <= max_size
  BY <1>5, <1>6 DEF Refuses
<1> HIDE DEF kept, full, held
<1>8. FiniteStore' /\ StoreBounded'
  BY <1>3, <1>7 DEF FiniteStore, StoreBounded
<1>9. refused' \in BOOLEAN /\ (refused' => k \notin Stored') /\ Stored' \subseteq Stored \cup {k}
  BY <1>1, <1>2, <1>3 DEF full, held, kept, Refuses
<1> QED
  BY <1>4, <1>8, <1>9

(* A step that adds no challenge keeps the store within its bound. *)
LEMMA SmallerStore ==
  ASSUME FiniteStore, StoreBounded, Stored' \subseteq Stored
  PROVE  FiniteStore' /\ StoreBounded'
<1>1. Stored' \in SUBSET Stored
  OBVIOUS
<1>2. IsFiniteSet(Stored') /\ Cardinality(Stored') <= Cardinality(Stored)
  BY <1>1, FS_Subset DEF FiniteStore
<1>3. Cardinality(Stored') \in Nat /\ Cardinality(Stored) \in Nat
  BY <1>2, FS_CardinalityType DEF FiniteStore
<1> QED
  BY <1>2, <1>3 DEF FiniteStore, StoreBounded

(* Reading a challenge drops it or leaves it. *)
LEMMA DroppedEffect ==
  ASSUME TypeOK, NEW k \in Keys, store' = Dropped(k)
  PROVE  /\ store' \in [Keys -> {Absent} \cup Ages]
         /\ Stored' \subseteq Stored
         /\ k \in Stored /\ ~is_expired(k) => k \in Stored'
BY DEF TypeOK, Dropped, Stored, is_expired, Absent, Ages

-----------------------------------------------------------------------------
(* The steps, one lemma each for those that touch the challenges.           *)

(* A new challenge, asked for while no login is being looked up. *)
LEMMA ChallengeStep ==
  ASSUME AuthInv, NEW k \in Keys, create_challenge_message(k), Idle, lookup' = lookup
  PROVE  /\ store' \in [Keys -> {Absent} \cup Ages] /\ refused' \in BOOLEAN
         /\ sig' \in [key : Keys \cup {NoKey}, current : BOOLEAN, used : BOOLEAN]
         /\ NoReplay' /\ UsedIsSpent' /\ FiniteStore' /\ StoreBounded'
<1> USE DEF AuthInv
<1>1. /\ store' \in [Keys -> {Absent} \cup Ages] /\ refused' \in BOOLEAN
      /\ Stored' \subseteq Stored \cup {k}
      /\ refused' => k \notin Stored'
      /\ FiniteStore' /\ StoreBounded'
  BY SaveEffect DEF create_challenge_message
<1>2. sig' = IF sig.key = k /\ ~refused' THEN [sig EXCEPT !.current = FALSE] ELSE sig
  BY DEF create_challenge_message
<1>3. sig \in [key : Keys \cup {NoKey}, current : BOOLEAN, used : BOOLEAN]
  BY DEF TypeOK
<1>4. UsedIsSpent'
  <2>1. CASE sig.key = k /\ ~refused'
    BY <1>2, <1>3, <2>1 DEF UsedIsSpent
  <2>2. CASE sig.key = k /\ refused'
    BY <1>1, <1>2, <1>3, <2>2 DEF UsedIsSpent
  <2>3. CASE sig.key # k
    BY <1>1, <1>2, <1>3, <2>3 DEF UsedIsSpent
  <2> QED
    BY <2>1, <2>2, <2>3
<1>5. NoReplay'
  BY DEF NoReplay, Idle
<1> QED
  BY <1>1, <1>2, <1>3, <1>4, <1>5

LEMMA AuthInvInit == Init => AuthInv
<1> SUFFICES ASSUME Init PROVE AuthInv
  OBVIOUS
<1>1. TypeOK
  <2>1. store \in [Keys -> {Absent} \cup Ages]
    BY DEF Init
  <2>2. sig \in [key : Keys \cup {NoKey}, current : BOOLEAN, used : BOOLEAN]
    BY DEF Init, NoSignature
  <2>3. payment \in [Keys -> {"none", "mempool", "confirmed"}]
    BY DEF Init
  <2>4. faults \in 0..MaxFaults
    BY DEF Init
  <2>5. open \in BOOLEAN /\ refused \in BOOLEAN
    BY DEF Init
  <2> QED
    BY <2>1, <2>2, <2>3, <2>4, <2>5 DEF Init, TypeOK
<1>3. NoReplay /\ UsedIsSpent
  BY DEF Init, NoReplay, UsedIsSpent, NoSignature
<1>2. Stored = {}
  BY DEF Init, Stored
<1> QED
  BY <1>1, <1>2, <1>3, FS_EmptySet DEF AuthInv, FiniteStore, StoreBounded

(* Every step keeps the invariant. *)
LEMMA AuthInvStep ==
  ASSUME AuthInv, [Next]_vars
  PROVE  AuthInv'
<1> DEFINE Sig == [key : Keys \cup {NoKey}, current : BOOLEAN, used : BOOLEAN]
<1>0. TypeOK /\ NoReplay /\ UsedIsSpent /\ FiniteStore /\ StoreBounded
  BY DEF AuthInv
<1>s. /\ sig \in Sig /\ sig.key \in Keys \cup {NoKey}
      /\ sig.current \in BOOLEAN /\ sig.used \in BOOLEAN
  BY <1>0 DEF TypeOK
<1>f. Fault => faults' \in 0..MaxFaults
  BY <1>0 DEF Fault, TypeOK
<1>1. CASE _open_login_overlay
  <2>1. CASE field # NoKey
    <3>1. field \in Keys /\ create_challenge_message(field) /\ Idle /\ lookup' = lookup
      BY <1>0, <1>1, <2>1 DEF _open_login_overlay, TypeOK
    <3>2. /\ store' \in [Keys -> {Absent} \cup Ages] /\ refused' \in BOOLEAN /\ sig' \in Sig
          /\ NoReplay' /\ UsedIsSpent' /\ FiniteStore' /\ StoreBounded'
      BY <3>1, ChallengeStep
    <3>3. open' \in BOOLEAN /\ UNCHANGED <<field, committed, lookup, accepted, pending,
                                            registered, payment, faults>>
      BY <1>1 DEF _open_login_overlay, joining
    <3> QED
      BY <1>0, <3>2, <3>3 DEF AuthInv, TypeOK
  <2>2. CASE field = NoKey
    BY <1>0, <1>1, <2>2 DEF _open_login_overlay, joining, AuthInv, TypeOK, NoReplay,
       UsedIsSpent, Stored, FiniteStore, StoreBounded
  <2> QED
    BY <2>1, <2>2
<1>2. ASSUME NEW k \in Keys, EnterKey(k)
      PROVE  AuthInv'
  <2>0. /\ field' = k /\ committed' = k /\ Idle
        /\ UNCHANGED <<open, lookup, accepted, pending, registered, payment, faults>>
    BY <1>2 DEF EnterKey, joining
  <2>1. CASE k # committed
    <3>1. create_challenge_message(k)
      BY <1>2, <2>1 DEF EnterKey
    <3>2. /\ store' \in [Keys -> {Absent} \cup Ages] /\ refused' \in BOOLEAN /\ sig' \in Sig
          /\ NoReplay' /\ UsedIsSpent' /\ FiniteStore' /\ StoreBounded'
      BY <3>1, <2>0, ChallengeStep
    <3> QED
      BY <1>0, <3>2, <2>0 DEF AuthInv, TypeOK
  <2>2. CASE k = committed
    <3>1. UNCHANGED <<store, refused, sig>>
      BY <1>2, <2>2 DEF EnterKey
    <3> QED
      BY <1>0, <2>0, <3>1 DEF AuthInv, TypeOK, NoReplay,
         UsedIsSpent, Stored, FiniteStore, StoreBounded
  <2> QED
    BY <2>1, <2>2
<1>3. CASE close_overlay
  BY <1>0, <1>3 DEF close_overlay, joining, AuthInv, TypeOK, NoReplay, UsedIsSpent, Stored,
     FiniteStore, StoreBounded
<1>4. ASSUME NEW k \in Keys, sign_outstanding_challenge(k)
      PROVE  AuthInv'
  <2>1. /\ field \in Keys /\ lookup = NoKey /\ store' = Dropped(field)
        /\ sig' = IF is_expired(field) THEN sig
                  ELSE [key |-> field, current |-> k = field, used |-> FALSE]
        /\ UNCHANGED <<field, committed, open, refused, lookup, accepted, pending,
                       registered, payment, faults>>
    BY <1>4 DEF sign_outstanding_challenge, overlay, joining, Idle, Stored
  <2>2. store' \in [Keys -> {Absent} \cup Ages] /\ Stored' \subseteq Stored
    BY <1>0, <2>1, DroppedEffect
  <2>3. sig' \in Sig /\ UsedIsSpent'
    BY <1>0, <1>s, <2>1, <2>2 DEF UsedIsSpent
  <2>4. FiniteStore' /\ StoreBounded'
    BY <1>0, <2>2, SmallerStore
  <2> QED
    BY <1>0, <2>1, <2>2, <2>3, <2>4 DEF AuthInv, TypeOK, NoReplay
<1>5. CASE verify_login
  <2>1. /\ field \in Keys /\ field \in Stored /\ store' = Dropped(field)
        /\ lookup' = IF ~is_expired(field) /\ sig.key = field /\ sig.current
                       THEN field ELSE NoKey
        /\ UNCHANGED <<field, committed, open, refused, sig, accepted, pending,
                       registered, payment, faults>>
    BY <1>5 DEF verify_login, overlay, joining, Stored
  <2>2. /\ store' \in [Keys -> {Absent} \cup Ages] /\ Stored' \subseteq Stored
        /\ ~is_expired(field) => field \in Stored'
    BY <1>0, <2>1, DroppedEffect
  <2>3. NoReplay'
    <3>1. CASE ~is_expired(field) /\ sig.key = field /\ sig.current
      BY <1>0, <1>s, <2>1, <2>2, <3>1 DEF NoReplay, UsedIsSpent
    <3>2. CASE ~(~is_expired(field) /\ sig.key = field /\ sig.current)
      BY <2>1, <3>2 DEF NoReplay
    <3> QED
      BY <3>1, <3>2
  <2>4. UsedIsSpent'
    BY <1>0, <2>1, <2>2 DEF UsedIsSpent
  <2>5. FiniteStore' /\ StoreBounded'
    BY <1>0, <2>2, SmallerStore
  <2> QED
    BY <1>0, <2>1, <2>2, <2>3, <2>4, <2>5 DEF AuthInv, TypeOK
<1>6. CASE LoginSucceeds
  <2>1. /\ lookup \in Keys /\ sig.key = lookup
        /\ store' = [store EXCEPT ![lookup] = Absent]
        /\ accepted' = accepted \cup {lookup}
        /\ sig' = [sig EXCEPT !.used = TRUE]
        /\ lookup' = NoKey /\ open' = FALSE
        /\ UNCHANGED <<field, committed, refused, pending, registered, payment, faults>>
    BY <1>0, <1>6 DEF LoginSucceeds, joining, TypeOK, NoReplay
  <2>2. /\ store' \in [Keys -> {Absent} \cup Ages] /\ Stored' \subseteq Stored
        /\ lookup \notin Stored'
    BY <1>0, <2>1 DEF TypeOK, Stored
  <2>3. sig' \in Sig /\ sig'.key = sig.key
    BY <1>s, <2>1
  <2>4. UsedIsSpent' /\ NoReplay'
    BY <2>1, <2>2, <2>3 DEF UsedIsSpent, NoReplay
  <2>5. FiniteStore' /\ StoreBounded'
    BY <1>0, <2>2, SmallerStore
  <2> QED
    BY <1>0, <2>1, <2>2, <2>3, <2>4, <2>5 DEF AuthInv, TypeOK
<1>7. CASE LoginFails
  <2>1. faults' \in 0..MaxFaults
    BY <1>0, <1>7, <1>f DEF LoginFails, TypeOK
  <2> QED
    BY <1>0, <1>7, <2>1 DEF LoginFails, overlay, joining, AuthInv, TypeOK, NoReplay,
       UsedIsSpent, Stored, FiniteStore, StoreBounded
<1>8. ASSUME NEW k \in Keys, _open_join_mesh_overlay(k) \/ Pay(k) \/ Confirm(k)
      PROVE  AuthInv'
  <2>1. /\ UNCHANGED <<store, field, committed, open, refused, sig, lookup, accepted,
                       registered, faults>>
        /\ pending' \in {pending, k}
        /\ payment' \in [Keys -> {"none", "mempool", "confirmed"}]
    BY <1>0, <1>8 DEF _open_join_mesh_overlay, Pay, Confirm, overlay, joining, TypeOK
  <2> QED
    BY <1>0, <2>1 DEF AuthInv, TypeOK, NoReplay, UsedIsSpent, Stored, FiniteStore,
       StoreBounded
<1>9. CASE register
  BY <1>0, <1>9 DEF register, overlay, AuthInv, TypeOK, NoReplay,
     UsedIsSpent, Stored, FiniteStore, StoreBounded
<1>10. CASE Tick
  <2>1. /\ store' = [k \in Keys |-> IF k \in Active THEN store[k] + 1 ELSE store[k]]
        /\ UNCHANGED <<field, committed, open, refused, sig, lookup, accepted, pending,
                       registered, payment, faults>>
    BY <1>10 DEF Tick, overlay, joining
  <2>2. \A k \in Active : k \in Stored /\ store[k] \in 0..TTL
    BY <1>0 DEF TypeOK, Active, Stored, is_expired, Absent, Ages
  <2>3. store' \in [Keys -> {Absent} \cup Ages]
    <3>1. ASSUME NEW k \in Keys
          PROVE  (IF k \in Active THEN store[k] + 1 ELSE store[k]) \in {Absent} \cup Ages
      BY <1>0, <2>2 DEF TypeOK, Ages
    <3> QED
      BY <2>1, <3>1
  <2>4. Stored' = Stored
    BY <2>1, <2>2 DEF Stored, Absent
  <2> QED
    BY <1>0, <2>1, <2>3, <2>4 DEF AuthInv, TypeOK, NoReplay, UsedIsSpent, FiniteStore,
       StoreBounded
<1>11. CASE Restart
  <2>1. /\ store' = [k \in Keys |-> Absent]
        /\ field' = NoKey /\ committed' = NoKey /\ open' = FALSE /\ refused' = FALSE
        /\ sig' = [sig EXCEPT !.current = FALSE]
        /\ lookup' = NoKey /\ pending' = NoKey /\ faults' \in 0..MaxFaults
        /\ UNCHANGED <<accepted, payment, registered>>
    BY <1>11, <1>f DEF Restart
  <2>2. store' \in [Keys -> {Absent} \cup Ages] /\ Stored' \subseteq Stored
    BY <2>1 DEF Stored
  <2>3. sig' \in Sig /\ sig'.current = FALSE
    BY <1>s, <2>1
  <2>4. FiniteStore' /\ StoreBounded'
    BY <1>0, <2>2, SmallerStore
  <2> QED
    BY <1>0, <2>1, <2>2, <2>3, <2>4 DEF AuthInv, TypeOK, NoReplay, UsedIsSpent
<1>12. CASE UNCHANGED vars
  BY <1>0, <1>12 DEF vars, AuthInv, TypeOK, NoReplay, UsedIsSpent, Stored, FiniteStore,
     StoreBounded
<1> QED
  BY <1>1, <1>2, <1>3, <1>4, <1>5, <1>6, <1>7, <1>8, <1>9, <1>10, <1>11, <1>12 DEF Next

LEMMA AuthInvariant == Spec => []AuthInv
BY AuthInvInit, AuthInvStep, PTL DEF Spec

-----------------------------------------------------------------------------
(* Every variable of the login and the registration keeps its type.         *)
THEOREM AuthenticationTypeCorrect == Spec => []TypeOK
<1>1. AuthInv => TypeOK
  BY DEF AuthInv
<1> QED
  BY <1>1, AuthInvariant, PTL

(* No signature is accepted twice, and a login that looks up its payment   *)
(* still owns the challenge it will consume: create_challenge_message,     *)
(* verify_login and delete together make replay impossible.                *)
THEOREM SignatureAcceptedOnce == Spec => []NoReplay
<1>1. AuthInv => NoReplay
  BY DEF AuthInv
<1> QED
  BY <1>1, AuthInvariant, PTL

(* The challenge store never holds more than max_size challenges. *)
THEOREM ChallengeStoreBounded == Spec => []StoreBounded
<1>1. AuthInv => StoreBounded
  BY DEF AuthInv
<1> QED
  BY <1>1, AuthInvariant, PTL

(* save refuses a key only when the cleanup it tried left the store full:  *)
(* a store that is full without the cleanup is cleaned up first.           *)
LEMMA RefusalFindsFull ==
  ASSUME NEW k, Refuses(k)
  PROVE  k \notin Active /\ Cardinality(Active) >= max_size
<1> DEFINE kept == _cleanup_expired(k)
<1>1. k \notin kept /\ Cardinality(kept) >= max_size
  BY DEF Refuses
<1>2. kept = IF k \notin Stored /\ Cardinality(Stored) >= max_size THEN Active ELSE Stored
  BY DEF _cleanup_expired
<1> HIDE DEF kept
<1>3. kept = Active
  BY <1>1, <1>2, Zenon
<1> QED
  BY <1>1, <1>3, Zenon

(* At any time a key is refused only because max_size other keys hold      *)
(* challenges that have not expired: expired ones of users who left never  *)
(* lock others out, a key's own challenge never does, and the store has    *)
(* not outgrown its bound.                                                 *)
THEOREM RefusalIsJustified == Spec => []RefusedOnlyIfFull
<1>1. ASSUME AuthInv, NEW k \in Keys, Refuses(k)
      PROVE  Cardinality(Active \ {k}) = max_size
  <2>1. k \notin Active /\ Cardinality(Active) >= max_size
    BY <1>1, RefusalFindsFull
  <2>2. Active \subseteq Stored /\ IsFiniteSet(Stored) /\ Cardinality(Stored) <= max_size
    BY <1>1 DEF AuthInv, FiniteStore, StoreBounded, Active
  <2>3. IsFiniteSet(Active) /\ Cardinality(Active) <= Cardinality(Stored)
    BY <2>2, FS_Subset
  <2>c. Cardinality(Active) \in Nat /\ Cardinality(Stored) \in Nat
    BY <2>2, <2>3, FS_CardinalityType
  <2>4. Active \ {k} = Active
    BY <2>1
  <2> QED
    BY <2>1, <2>2, <2>3, <2>c, <2>4
<1>2. AuthInv => RefusedOnlyIfFull
  BY <1>1 DEF RefusedOnlyIfFull
<1> QED
  BY <1>2, AuthInvariant, PTL
=============================================================================
