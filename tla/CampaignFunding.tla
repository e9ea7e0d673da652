---------------------------- MODULE CampaignFunding ----------------------------
(***************************************************************************)
(* Crowdfunding of campaigns (democracy/funding/service.py).  A pledger    *)
(* signs one coin for the fixed outputs of a campaign; every peer keeps    *)
(* the pledges it was given or heard of in its own repository; any peer    *)
(* may check its pledges against the Bitcoin node, choose enough of them   *)
(* and broadcast the combined transaction.                                 *)
(*                                                                         *)
(* A call reads the chain height once and then asks the node about one     *)
(* pledge after the other: blocks, spends and pledges from other peers     *)
(* come between these questions.  The program's own user interface only    *)
(* asks for the status; the final transaction is an operation of the       *)
(* service that a user's script or a test calls.                           *)
(***************************************************************************)
EXTENDS Integers, FiniteSets, FiniteSetsExt

CONSTANTS
  Nodes,             \* peers with a repository
  Callers,           \* the peers whose users ask for a status or a broadcast
  Campaigns,         \* campaigns for different solutions
  Coins,             \* outpoints, numbered as their pledges' created_at order them
  Owner,             \* Owner[c]: the peer whose user owns coin c
  Value,             \* Value[c]: satoshis of coin c
  Developer,         \* Developer[k]: the peer whose user creates campaign k
  asking_price_sats, \* of a campaign; 0 for one that asks for nothing
  fee_buffer_sats,
  min_confirmations,
  deadline_height_offset,
  Unconfirmed,       \* the coins that are only in the mempool at first
  MinFeeRate,        \* satoshis per input below which the node does not relay (minrelaytxfee)
  MaxFeeRate,        \* satoshis per input above which it refuses to send (maxfeerate)
  MaxHeight,         \* bound on the chain height
  MaxFaults          \* bound on missigned and foreign pledges and on spends elsewhere

ASSUME FundingAssumption ==
  /\ Callers \subseteq Nodes /\ Campaigns # {} /\ Coins \subseteq Nat /\ Unconfirmed \subseteq Coins
  /\ Value \in [Coins -> Nat \ {0}] /\ Owner \in [Coins -> Nodes]
  /\ asking_price_sats \in [Campaigns -> Nat] /\ Developer \in [Campaigns -> Nodes]
  /\ fee_buffer_sats \in Nat /\ min_confirmations \in Nat
  /\ deadline_height_offset \in Nat \ {0}
  /\ MinFeeRate \in Nat /\ MaxFeeRate \in Nat
  /\ MaxHeight \in Nat /\ MaxFaults \in Nat

(***************************************************************************)
(* What a signed PSBT turns out to be: complete and signed as asked for;   *)
(* not finalizable; a transaction with another input, other outputs or     *)
(* another sequence; one of another version or locktime; or one whose      *)
(* signature does not allow further inputs (signed ALL instead of          *)
(* ALL|ANYONECANPAY).                                                      *)
(***************************************************************************)
Kinds == {"signed", "incomplete", "otherTx", "otherVersion", "alone"}
Pledges == [campaign : Campaigns, coin : Coins, value : Nat, kind : Kinds]

NotMined == -1

VARIABLES
  height,    \* the Bitcoin chain's height
  mined,     \* mined[c]: the height coin c was confirmed at, or NotMined
  spent,     \* coins spent in a block or in the mempool
  deadline,  \* deadline[k]: the last height campaign k may be funded at
  known,     \* known[n]: campaigns in n's repository
  pledges,   \* pledges[n]: pledges in n's repository
  call,      \* call[n]: the status or broadcast call n is executing
  sent,      \* final transactions accepted by the network
  faults
vars == <<height, mined, spent, deadline, known, pledges, call, sent, faults>>
chain == <<height, mined, spent>>
stores == <<deadline, known, pledges>>

Idle == [pc |-> "idle", campaign |-> CHOOSE k \in Campaigns : TRUE,
         height |-> 0, todo |-> {}, prepared |-> {}, inputs |-> {}]

is_active(k) == asking_price_sats[k] > 0
Required(k) == asking_price_sats[k] + fee_buffer_sats
Expired(k, h) == h > deadline[k]
Total(S) == MapThenSumSet(LAMBDA p : p.value, S)
StoredFor(n, k) == {p \in pledges[n] : p.campaign = k}
Unspent(c) == c \notin spent
Confirmations(c) == IF mined[c] = NotMined THEN 0 ELSE height - mined[c] + 1

Init ==
  /\ height = 0 /\ spent = {}
  /\ mined = [c \in Coins |-> IF c \in Unconfirmed THEN NotMined ELSE 0]
  /\ deadline = [k \in Campaigns |-> 0]
  /\ known = [n \in Nodes |-> {}]
  /\ pledges = [n \in Nodes |-> {}]
  /\ call = [n \in Nodes |-> Idle]
  /\ sent = {} /\ faults = 0

(***************************************************************************)
(* The repository.                                                         *)
(***************************************************************************)

(* A mistake: the offset taken the wrong way. *)
create_campaign_Past(n, k) ==
  /\ Developer[k] = n /\ call[n].pc = "idle"
  /\ \A m \in Nodes : k \notin known[m]
  /\ known' = [known EXCEPT ![n] = @ \cup {k}]
  /\ deadline' = [deadline EXCEPT ![k] = height - deadline_height_offset]
  /\ UNCHANGED <<chain, pledges, call, sent, faults>>

create_campaign(n, k) ==
  /\ Developer[k] = n /\ call[n].pc = "idle"
  /\ \A m \in Nodes : k \notin known[m]
  /\ known' = [known EXCEPT ![n] = @ \cup {k}]
  /\ deadline' = IF is_active(k)
                   THEN [deadline EXCEPT ![k] = height + deadline_height_offset]
                   ELSE deadline
  /\ UNCHANGED <<chain, pledges, call, sent, faults>>

(* One pledge per campaign and coin, of a known campaign. *)
add_pledge(n, p) ==
  /\ p.campaign \in known[n]
  /\ \A q \in StoredFor(n, p.campaign) : q.coin # p.coin
  /\ pledges' = [pledges EXCEPT ![n] = @ \cup {p}]

(* Gossip brings campaign k, or pledge p, from the repository of m. *)
HearCampaign(n, m, k) ==
  /\ k \in known[m] \ known[n]
  /\ known' = [known EXCEPT ![n] = @ \cup {k}]
  /\ UNCHANGED <<chain, deadline, pledges, call, sent, faults>>

HearPledge(n, m, p) ==
  /\ p \in pledges[m] \ pledges[n]
  /\ add_pledge(n, p)
  /\ UNCHANGED <<chain, deadline, known, call, sent, faults>>

(* A peer outside the model relays a pledge: it is stored unvalidated. *)
HearForeignPledge(n, k, c, kind, value) ==
  /\ faults < MaxFaults /\ faults' = faults + 1
  /\ add_pledge(n, [campaign |-> k, coin |-> c, value |-> value, kind |-> kind])
  /\ UNCHANGED <<chain, deadline, known, call, sent>>

(***************************************************************************)
(* Validation of one pledge.                                               *)
(***************************************************************************)

(* A mistake: the value the pledge claims is taken for granted. *)
_validate_pledge_against_chain_Trusting(p, h) ==
  /\ is_active(p.campaign)
  /\ ~Expired(p.campaign, h)
  /\ Unspent(p.coin)
  /\ Confirmations(p.coin) >= min_confirmations

_validate_pledge_against_chain(p, h) ==
  /\ is_active(p.campaign)
  /\ ~Expired(p.campaign, h)
  /\ Unspent(p.coin)
  /\ Confirmations(p.coin) >= min_confirmations
  /\ Value[p.coin] = p.value

_validate_finalized_pledge_transaction(p) == p.kind # "otherTx"

_validate_pledge_for_campaign(p, h) ==
  /\ _validate_pledge_against_chain(p, h)
  /\ p.kind # "incomplete"
  /\ _validate_finalized_pledge_transaction(p)

(* The local user pledges coin c with what the wallet signed: a wallet     *)
(* that does not do what the request asks for is a fault.                  *)
submit_signed_pledge(n, k, c, kind) ==
  LET p == [campaign |-> k, coin |-> c, value |-> Value[c], kind |-> kind] IN
  /\ Owner[c] = n /\ call[n].pc = "idle"
  /\ faults' = IF kind = "signed" THEN faults ELSE faults + 1
  /\ faults' <= MaxFaults
  /\ _validate_pledge_for_campaign(p, height)
  /\ add_pledge(n, p)
  /\ UNCHANGED <<chain, deadline, known, call, sent>>

(***************************************************************************)
(* compute_funding_status and broadcast_final_transaction.                 *)
(***************************************************************************)

(* The two calls are the same until every pledge is checked, so which one  *)
(* it is is left open until then.  An expired campaign ends the call at    *)
(* once: status says so, broadcast raises.                                 *)
StartCall(n, k) ==
  /\ call[n].pc = "idle"
  /\ k \in known[n] /\ is_active(k)
  /\ ~Expired(k, height)
  /\ call' = [call EXCEPT ![n] =
                [Idle EXCEPT !.pc = "check", !.campaign = k,
                             !.height = height, !.todo = StoredFor(n, k)]]
  /\ UNCHANGED <<chain, stores, sent, faults>>

(* A mistake: the height is asked for again with every pledge. *)
_prepare_valid_pledges_for_campaign_Rereads(n) ==
  /\ call[n].pc = "check"
  /\ \E p \in call[n].todo :
       /\ \A q \in call[n].todo : p.coin <= q.coin
       /\ call' = [call EXCEPT ![n] =
         IF p.kind = "incomplete" THEN Idle
         ELSE [call[n] EXCEPT !.todo = @ \ {p},
                              !.prepared = IF _validate_pledge_for_campaign(p, height)
                                             THEN @ \cup {p} ELSE @]]
  /\ UNCHANGED <<chain, stores, sent, faults>>

(* One iteration, in the order of created_at: a stored pledge that cannot  *)
(* be finalized raises.                                                    *)
_prepare_valid_pledges_for_campaign(n) ==
  /\ call[n].pc = "check"
  /\ \E p \in call[n].todo :
       /\ \A q \in call[n].todo : p.coin <= q.coin
       /\ call' = [call EXCEPT ![n] =
         IF p.kind = "incomplete" THEN Idle
         ELSE [call[n] EXCEPT !.todo = @ \ {p},
                              !.prepared = IF _validate_pledge_for_campaign(p, call[n].height)
                                             THEN @ \cup {p} ELSE @]]
  /\ UNCHANGED <<chain, stores, sent, faults>>

SmallestFirst(p, q) == \/ p.value < q.value
                       \/ p.value = q.value /\ p.coin <= q.coin
LargestFirst(p, q)  == \/ p.value > q.value
                       \/ p.value = q.value /\ p.coin <= q.coin

(* A mistake: small pledges first, whatever is missing. *)
NextPledge_Smallest(remaining, shortfall) ==
  CHOOSE p \in remaining : \A q \in remaining : SmallestFirst(p, q)

NextPledge(remaining, shortfall) ==
  LET finishing == {p \in remaining : p.value >= shortfall}
  IN  IF finishing # {}
        THEN CHOOSE p \in finishing : \A q \in finishing : SmallestFirst(p, q)
        ELSE CHOOSE p \in remaining : \A q \in remaining : LargestFirst(p, q)

_select_pledges(prepared, required) ==
  LET grow[s \in SUBSET prepared] ==
        IF Total(s) >= required \/ s = prepared
          THEN s
          ELSE grow[s \cup {NextPledge(prepared \ s, required - Total(s))}]
  IN  grow[{}]

(* A status call answers, and changes nothing. *)
compute_funding_status(n) ==
  /\ call[n].pc = "check" /\ call[n].todo = {}
  /\ call' = [call EXCEPT ![n] = Idle]
  /\ UNCHANGED <<chain, stores, sent, faults>>

(* Transactions of different versions or locktimes cannot be combined. *)
combine_anyonecanpay_pledges(inputs) ==
  \A p, q \in inputs : p.kind = "otherVersion" => q.kind = "otherVersion"

(* Too small a total raises, and so does a selection that cannot be combined. *)
prepare_final_transaction(n) ==
  /\ call[n].pc = "check" /\ call[n].todo = {}
  /\ LET required == Required(call[n].campaign)
         selected == _select_pledges(call[n].prepared, required)
     IN  call' = [call EXCEPT ![n] =
                    IF Total(selected) < required \/ ~combine_anyonecanpay_pledges(selected)
                      THEN Idle
                    ELSE [call[n] EXCEPT !.pc = "send", !.inputs = selected]]
  /\ UNCHANGED <<chain, stores, sent, faults>>

(* What the Bitcoin node requires of a combined transaction.  There is no  *)
(* output for change: what the inputs are worth beyond the asking price is *)
(* the fee, and the node refuses too low and too high a one.               *)
Acceptable(k, inputs) ==
  LET fee == MapThenSumSet(LAMBDA p : Value[p.coin], inputs) - asking_price_sats[k]
      size == Cardinality(inputs)
  IN  /\ \A p \in inputs : Unspent(p.coin)
      /\ MinFeeRate * size <= fee /\ fee <= MaxFeeRate * size
      /\ size = 1 \/ \A p \in inputs : p.kind # "alone"

(* The test and the sending ask the same of the chain, and a refusal of    *)
(* either leaves nothing behind: only the moment of the sending matters.   *)
broadcast_final_transaction(n) ==
  /\ call[n].pc = "send"
  /\ call' = [call EXCEPT ![n] = Idle]
  /\ IF Acceptable(call[n].campaign, call[n].inputs)
       THEN /\ sent' = sent \cup {[campaign |-> call[n].campaign,
                                   inputs |-> call[n].inputs, asof |-> call[n].height]}
            /\ spent' = spent \cup {p.coin : p \in call[n].inputs}
       ELSE UNCHANGED <<sent, spent>>
  /\ UNCHANGED <<height, mined, stores, faults>>

(***************************************************************************)
(* The chain.                                                              *)
(***************************************************************************)

Block ==
  /\ height < MaxHeight
  /\ height' = height + 1
  /\ \E S \in SUBSET {c \in Coins : mined[c] = NotMined} :
       mined' = [c \in Coins |-> IF c \in S THEN height' ELSE mined[c]]
  /\ UNCHANGED <<spent, stores, call, sent, faults>>

(* The owner of a coin spends it on something else. *)
SpendElsewhere(c) ==
  /\ Unspent(c) /\ faults < MaxFaults
  /\ faults' = faults + 1
  /\ spent' = spent \cup {c}
  /\ UNCHANGED <<height, mined, stores, call, sent>>

CallStep(n) ==
  \/ _prepare_valid_pledges_for_campaign(n)
  \/ compute_funding_status(n)
  \/ prepare_final_transaction(n)
  \/ broadcast_final_transaction(n)

Next ==
  \/ \E n \in Nodes, k \in Campaigns : create_campaign(n, k)
  \/ \E n, m \in Nodes, k \in Campaigns : HearCampaign(n, m, k)
  \/ \E n, m \in Nodes : \E p \in pledges[m] : HearPledge(n, m, p)
  \/ \E n \in Nodes, k \in Campaigns, c \in Coins, kind \in Kinds :
       submit_signed_pledge(n, k, c, kind)
  \/ \E n \in Nodes, k \in Campaigns, c \in Coins :
       \/ HearForeignPledge(n, k, c, "signed", Value[c] + 1)
       \/ \E kind \in {"incomplete", "otherTx", "otherVersion"} :
            HearForeignPledge(n, k, c, kind, Value[c])
  \/ \E n \in Callers, k \in Campaigns : StartCall(n, k)
  \/ \E n \in Callers : CallStep(n)
  \/ Block
  \/ \E c \in Coins : SpendElsewhere(c)

Spec == Init /\ [][Next]_vars

-------------------------------------------------------------------------------
(***************************************************************************)
(* Properties.                                                             *)
(***************************************************************************)

(* Types of all the variables. *)
TypeOK ==
  /\ height \in 0..MaxHeight
  /\ mined \in [Coins -> {NotMined} \cup 0..MaxHeight]
  /\ spent \subseteq Coins
  /\ deadline \in [Campaigns -> Nat]
  /\ known \in [Nodes -> SUBSET Campaigns]
  /\ \A n \in Nodes : pledges[n] \subseteq Pledges
  /\ \A n \in Nodes :
       /\ call[n].pc \in {"idle", "check", "send"}
       /\ call[n].campaign \in Campaigns
       /\ call[n].height \in 0..MaxHeight
       /\ call[n].todo \cup call[n].prepared \cup call[n].inputs \subseteq Pledges
  /\ \A t \in sent : t.campaign \in Campaigns /\ t.inputs \subseteq Pledges
  /\ faults \in 0..MaxFaults

(* What broadcast_final_transaction puts on the network, whatever blocks,  *)
(* spends and unvalidated pledges came between its questions, spends       *)
(* distinct coins pledged to that campaign, worth the asking price and the *)
(* fee together by the chain's own values, and is of a campaign that was   *)
(* open when the call began.                                               *)
FinalTxSound ==
  \A t \in sent :
    /\ \A p \in t.inputs : p.campaign = t.campaign /\ \E n \in Nodes : p \in pledges[n]
    /\ \A p, q \in t.inputs : p.coin = q.coin => p = q
    /\ MapThenSumSet(LAMBDA p : Value[p.coin], t.inputs) >= Required(t.campaign)
    /\ t.asof <= deadline[t.campaign]

(* The heuristic of _select_pledges against its purpose: it succeeds       *)
(* whenever all the prepared pledges together are enough (the answer of    *)
(* compute_funding_status), and no choice of fewer inputs would do.        *)
FewestInputs ==
  \A n \in Nodes :
    LET all == call[n].prepared
        required == Required(call[n].campaign)
        fewer == {S \in SUBSET all : Cardinality(S) < Cardinality(call[n].inputs)}
    IN  /\ call[n].pc = "send" => \A S \in fewer : Total(S) < required
        /\ call[n].pc = "check" /\ call[n].todo = {} /\ Total(all) >= required =>
             Total(_select_pledges(all, required)) >= required

(* What submit_signed_pledge once accepted counts in every later status or *)
(* final transaction, at any peer the pledge was relayed to: whatever      *)
(* blocks arrive while the node is asked about one pledge after the other, *)
(* past the deadline too, a call passes over a pledge of a coin's real     *)
(* value only if the coin is spent.                                        *)
OwnPledgesCount ==
  [][\A n \in Nodes : \A p \in call[n].todo \ call'[n].todo :
       call'[n].pc # "idle" /\ p.kind = "signed" /\ p.value = Value[p.coin] =>
         p \in call'[n].prepared \/ p.coin \in spent]_vars
===============================================================================
