---------------------------- MODULE Authentication ----------------------------
(***************************************************************************)
(* Registration and login at the landing page (src/authentication, driven  *)
(* by ui/landing).  An identity is registered by a payment that commits to *)
(* its public key; to log in, the key's holder signs the challenge stored  *)
(* for the key, and the service then looks the payment up.  The calls run  *)
(* on the user interface's thread, one at a time; the clock and the chain  *)
(* do not wait for them.                                                   *)
(*                                                                         *)
(* A challenge is its age, cut off after its lifetime, and a signature is  *)
(* of the challenge now stored for its key or of an earlier one: nonces    *)
(* are fresh, so no signature fits a later challenge.                      *)
(***************************************************************************)
EXTENDS Integers, FiniteSets

CONSTANTS
  Keys,         \* public keys of the identities
  NoKey,
  max_size,     \* of the challenge store
  TTL,          \* AUTHENTICATION_CHALLENGE_TTL_SECONDS, in ticks
  MaxFaults     \* bound on restarts, wrong IDs and unanswered lookups

ASSUME AuthenticationAssumption ==
  /\ NoKey \notin Keys /\ max_size \in Nat \ {0}
  /\ TTL \in Nat \ {0} /\ MaxFaults \in Nat

Absent == -1
Ages == 0..(TTL + 1)

VARIABLES
  store,      \* store[k]: the age of the challenge stored for k, or Absent
  field,      \* the public key typed into the login overlay
  committed,  \* _last_committed_public_key
  open,       \* the login overlay is visible
  refused,    \* the last challenge asked for was refused: store full
  sig,        \* the signature in the overlay
  lookup,     \* the key whose payment verify_login is looking up
  accepted,   \* the keys that have logged in
  pending,    \* _pending_identity of the join overlay
  payment,    \* payment[k]: "none", "mempool" or "confirmed"
  registered, \* keys in the registration file
  faults
vars == <<store, field, committed, open, refused, sig, lookup, accepted,
          pending, payment, registered, faults>>
overlay == <<field, committed, open>>
joining == <<pending, registered>>

NoSignature == [key |-> NoKey, current |-> FALSE, used |-> FALSE]
Stored == {k \in Keys : store[k] # Absent}
is_expired(k) == store[k] > TTL
Active == {k \in Stored : ~is_expired(k)}

Init ==
  /\ store = [k \in Keys |-> Absent]
  /\ field = NoKey /\ committed = NoKey /\ open = FALSE /\ refused = FALSE
  /\ sig = NoSignature
  /\ lookup = NoKey /\ accepted = {}
  /\ pending = NoKey /\ payment = [k \in Keys |-> "none"] /\ registered = {}
  /\ faults = 0

(* The user interface handles one event at a time. *)
Idle == lookup = NoKey

Fault == faults < MaxFaults /\ faults' = faults + 1

-------------------------------------------------------------------------------
(***************************************************************************)
(* The challenge store.                                                    *)
(***************************************************************************)

(* Mutant: nothing is ever cleaned up. *)
_cleanup_expired_Never(k) == Stored

(* What the store holds after save tried to make room for k. *)
_cleanup_expired(k) ==
  IF k \notin Stored /\ Cardinality(Stored) >= max_size THEN Active ELSE Stored

(* There is no room for k even then: ChallengeStoreFullError. *)
Refuses(k) ==
  k \notin _cleanup_expired(k) /\ Cardinality(_cleanup_expired(k)) >= max_size

(* Saves a challenge for k unless it is refused. *)
save(k) ==
  LET kept == _cleanup_expired(k)
      held == IF Refuses(k) THEN kept ELSE kept \cup {k}
  IN  /\ refused' = Refuses(k)
      /\ store' = [j \in Keys |-> IF j \notin held THEN Absent
                                   ELSE IF j = k THEN 0 ELSE store[j]]

(* get(k) drops a challenge that has expired. *)
Dropped(k) == [store EXCEPT ![k] = IF is_expired(k) THEN Absent ELSE @]

(* Mutant: the message has no fresh nonce, so an old signature fits it. *)
create_challenge_message_SameNonce(k) == save(k) /\ UNCHANGED sig

(* A new challenge makes the signature of the earlier one worthless. *)
create_challenge_message(k) ==
  /\ save(k)
  /\ sig' = IF sig.key = k /\ ~refused' THEN [sig EXCEPT !.current = FALSE] ELSE sig

-------------------------------------------------------------------------------
(***************************************************************************)
(* The login overlay.                                                      *)
(***************************************************************************)

(* Mutant: an overlay that is opened again keeps the challenge it showed. *)
_open_login_overlay_Quiet ==
  /\ Idle /\ ~open
  /\ open' = TRUE
  /\ UNCHANGED <<store, field, committed, refused, sig, lookup, accepted,
                 joining, payment, faults>>

(* Opening the overlay asks for a challenge for the key it still shows.    *)
(* Only ValueError is caught: when the store is full it does not open.     *)
_open_login_overlay ==
  /\ Idle /\ ~open
  /\ IF field # NoKey THEN create_challenge_message(field)
                      ELSE UNCHANGED <<store, refused, sig>>
  /\ open' = (field = NoKey \/ ~refused')
  /\ UNCHANGED <<field, committed, lookup, accepted, joining, payment, faults>>

(* Another key in the field asks for a challenge, the same key does not.   *)
EnterKey(k) ==
  /\ Idle /\ open
  /\ field' = k
  /\ committed' = k
  /\ IF k # committed THEN create_challenge_message(k)
                      ELSE UNCHANGED <<store, refused, sig>>
  /\ UNCHANGED <<open, lookup, accepted, joining, payment, faults>>

close_overlay ==
  /\ Idle /\ open
  /\ open' = FALSE
  /\ UNCHANGED <<store, field, committed, refused, sig, lookup, accepted,
                 joining, payment, faults>>

(* The challenge of the key in the field, signed with the key of owner. *)
sign_outstanding_challenge(owner) ==
  /\ Idle /\ open /\ field \in Stored
  /\ store' = Dropped(field)
  /\ sig' = IF is_expired(field) THEN sig
            ELSE [key |-> field, current |-> owner = field, used |-> FALSE]
  /\ UNCHANGED <<overlay, refused, lookup, accepted, joining, payment, faults>>

(* verify_login up to the lookup of the payment. *)
verify_login ==
  /\ Idle /\ open /\ field \in Stored /\ sig # NoSignature
  /\ store' = Dropped(field)
  /\ lookup' = IF ~is_expired(field) /\ sig.key = field /\ sig.current
                 THEN field ELSE NoKey
  /\ UNCHANGED <<overlay, refused, sig, accepted, joining, payment, faults>>

(* BaseVerifier.verify: enough confirmations, fee and commitment. *)
verify(k) == payment[k] = "confirmed"

(* Mutant: the key is reported after the request was cleared. *)
LoginSucceeds_Cleared ==
  /\ lookup # NoKey /\ verify(lookup)
  /\ store' = [store EXCEPT ![lookup] = Absent]
  /\ lookup' = NoKey /\ open' = FALSE
  /\ accepted' = accepted \cup {lookup'}
  /\ sig' = [sig EXCEPT !.used = TRUE]
  /\ UNCHANGED <<field, committed, refused, joining, payment, faults>>

(* The challenge is consumed only when everything succeeded. *)
LoginSucceeds ==
  /\ lookup # NoKey /\ verify(lookup)
  /\ store' = [store EXCEPT ![lookup] = Absent]
  /\ accepted' = accepted \cup {lookup}
  /\ sig' = [sig EXCEPT !.used = TRUE]
  /\ lookup' = NoKey /\ open' = FALSE
  /\ UNCHANGED <<field, committed, refused, joining, payment, faults>>

(* The payment is missing or young, the transaction ID is another one, or  *)
(* the node does not answer: the challenge stays for another attempt.      *)
LoginFails ==
  /\ lookup # NoKey
  /\ \/ ~verify(lookup) /\ UNCHANGED faults
     \/ Fault
  /\ lookup' = NoKey
  /\ UNCHANGED <<store, overlay, refused, sig, accepted, joining, payment>>

-------------------------------------------------------------------------------
(***************************************************************************)
(* Registration.                                                           *)
(***************************************************************************)

(* Opening the join overlay generates an identity of its own. *)
_open_join_mesh_overlay(k) ==
  /\ Idle
  /\ k \notin registered \cup {pending} /\ payment[k] = "none"
  /\ pending' = k
  /\ UNCHANGED <<store, overlay, refused, sig, lookup, accepted, registered,
                 payment, faults>>

(* The transaction ID is submitted for the identity now pending. *)
register ==
  /\ Idle /\ pending # NoKey
  /\ pending \notin registered /\ verify(pending)
  /\ registered' = registered \cup {pending}
  /\ pending' = NoKey
  /\ UNCHANGED <<store, overlay, refused, sig, lookup, accepted, payment, faults>>

-------------------------------------------------------------------------------
(***************************************************************************)
(* The chain and the clock.                                                *)
(***************************************************************************)

(* The user pays with the commitment shown for identity k. *)
Pay(k) ==
  /\ k = pending /\ payment[k] = "none"
  /\ payment' = [payment EXCEPT ![k] = "mempool"]
  /\ UNCHANGED <<store, overlay, refused, sig, lookup, accepted, joining, faults>>

Confirm(k) ==
  /\ payment[k] = "mempool"
  /\ payment' = [payment EXCEPT ![k] = "confirmed"]
  /\ UNCHANGED <<store, overlay, refused, sig, lookup, accepted, joining, faults>>

Tick ==
  /\ store' = [k \in Keys |-> IF k \in Active THEN store[k] + 1 ELSE store[k]]
  /\ UNCHANGED <<overlay, refused, sig, lookup, accepted, joining, payment, faults>>

(* The application is restarted: only the file and the chain remain. *)
Restart ==
  /\ Fault
  /\ store' = [k \in Keys |-> Absent]
  /\ field' = NoKey /\ committed' = NoKey /\ open' = FALSE /\ refused' = FALSE
  /\ sig' = [sig EXCEPT !.current = FALSE]
  /\ lookup' = NoKey /\ pending' = NoKey
  /\ UNCHANGED <<accepted, payment, registered>>

Next ==
  \/ _open_login_overlay \/ close_overlay
  \/ \E k \in Keys : EnterKey(k)
  \/ \E k \in Keys : sign_outstanding_challenge(k)
  \/ verify_login
  \/ LoginSucceeds \/ LoginFails
  \/ \E k \in Keys : _open_join_mesh_overlay(k) \/ Pay(k) \/ Confirm(k)
  \/ register
  \/ Tick \/ Restart

Spec == Init /\ [][Next]_vars

(* Time passes, a call returns, and the user goes on closing and opening   *)
(* the overlay and, with the right private key and before the challenge    *)
(* has expired, signing and logging in.                                    *)
FairSpec ==
  /\ Spec
  /\ WF_vars(Tick) /\ WF_vars(LoginSucceeds \/ LoginFails) /\ SF_vars(LoginSucceeds)
  /\ SF_vars(_open_login_overlay) /\ SF_vars(close_overlay)
  /\ SF_vars(field \in Active /\ sign_outstanding_challenge(field))
  /\ SF_vars(verify_login /\ lookup' # NoKey)

-------------------------------------------------------------------------------
(***************************************************************************)
(* Properties.                                                             *)
(***************************************************************************)

(* Types of all the variables. *)
TypeOK ==
  /\ store \in [Keys -> {Absent} \cup Ages]
  /\ field \in Keys \cup {NoKey} /\ committed \in Keys \cup {NoKey}
  /\ open \in BOOLEAN /\ refused \in BOOLEAN
  /\ sig \in [key : Keys \cup {NoKey}, current : BOOLEAN, used : BOOLEAN]
  /\ lookup \in Keys \cup {NoKey} /\ accepted \subseteq Keys
  /\ pending \in Keys \cup {NoKey}
  /\ payment \in [Keys -> {"none", "mempool", "confirmed"}]
  /\ registered \subseteq Keys
  /\ faults \in 0..MaxFaults

(* A signature opens one session: the lookup is reached only with a        *)
(* signature not accepted before, of the latest challenge of its key, and  *)
(* that challenge is still there to be consumed when the lookup returns,   *)
(* through expiry, failed lookups, new challenges and restarts.            *)
NoReplay ==
  lookup # NoKey =>
    /\ ~sig.used /\ sig.current /\ sig.key = lookup
    /\ lookup \in Stored

(* The store never holds more than max_size challenges. *)
StoreBounded == Cardinality(Stored) <= max_size

(* Whichever key asks next, and however often it was refused before: it is *)
(* refused only while exactly max_size OTHER keys hold challenges that     *)
(* have not expired.  Neither its own challenge, nor expired ones of users *)
(* who left, nor a store grown too large stand in its way.                 *)
RefusedOnlyIfFull ==
  \A k \in Keys : Refuses(k) => Cardinality(Active \ {k}) = max_size

(* Liveness: a user who keeps to one key, whose payment is confirmed, in   *)
(* the end logs in, whatever expired, was refused or failed before.        *)
LoginPossible ==
  \A k \in Keys :
    <>[](field = k) /\ <>(payment[k] = "confirmed") => <>(k \in accepted)
===============================================================================
