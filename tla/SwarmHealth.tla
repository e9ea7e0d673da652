------------------------------ MODULE SwarmHealth ------------------------------
(***************************************************************************)
(* The health checker (torrent_health_and_investment/healthchecker): the   *)
(* IPv8 thread stores the torrents that seedboxes announce, the checker    *)
(* thread samples the stored torrents one by one and from time to time     *)
(* purges the ones that are no longer announced.  The two threads share    *)
(* the database.                                                           *)
(*                                                                         *)
(* Times are kept as ages, cut off where they no longer matter, so that    *)
(* the model may run for ever.                                             *)
(***************************************************************************)
EXTENDS Integers, FiniteSets

CONSTANTS
  Content,         \* infohashes
  StaleThreshold,  \* _STALE_CONTENT_THRESHOLD_SECONDS, in ticks
  MaxDelay,        \* bound on the age of an announcement when it arrives
  PurgeCycles,     \* _PURGE_INTERVAL_CYCLES
  KeepSamples,     \* _DHT_SAMPLES_KEEP
  SamplingLimit,   \* rows get_next_entry chooses from
  MaxFaults,       \* bound on failed writes and restarts
  NoContent

ASSUME HealthAssumption ==
  /\ NoContent \notin Content
  /\ StaleThreshold \in Nat \ {0} /\ MaxDelay \in 0..StaleThreshold
  /\ PurgeCycles \in Nat \ {0} /\ KeepSamples \in Nat \ {0}
  /\ SamplingLimit \in Nat \ {0} /\ MaxFaults \in Nat

Ages == 0..(StaleThreshold + 1)
Older(age) == IF age > StaleThreshold THEN age ELSE age + 1

VARIABLES
  seeded,    \* the content some seedbox still announces
  quiet,     \* quiet[h]: time since h was last announced (0 while seeded)
  received,  \* received_content of the service, in memory
  rows,      \* infohashes in the table received_content
  age,       \* age[h]: age of last_announced_at in the row of h
  arrived,   \* the order of received_at: <<g, h>> when that of g is no later than that of h
  checked,   \* the order of last_checked: <<g, h>> when g was checked no later than h
  samples,   \* samples[h]: rows of h in the table dht_samples
  pc,        \* where the checker thread is in its loop
  probing,   \* the content the checker thread is probing
  cycle,     \* cycle of _run_health_checker, modulo PurgeCycles
  faults
vars == <<seeded, quiet, received, rows, age, arrived, checked, samples, pc,
          probing, cycle, faults>>
world == <<seeded, quiet>>
database == <<rows, age, arrived, checked, samples>>
checker == <<pc, probing, cycle>>

Init ==
  /\ seeded = Content /\ quiet = [h \in Content |-> 0]
  /\ received = {} /\ rows = {}
  /\ age = [h \in Content |-> 0]
  /\ arrived = {} /\ checked = {} /\ samples = [h \in Content |-> 0]
  /\ pc = "idle" /\ probing = NoContent /\ cycle = 0
  /\ faults = 0

-------------------------------------------------------------------------------
(***************************************************************************)
(* The IPv8 thread.                                                        *)
(***************************************************************************)

(* The order of received_at once h, a ticks old, is stored.  A row's own   *)
(* received_at is as old as its last announcement, because what is stored  *)
(* is not announced to the table again before it is purged.                *)
Arrival(h, a) ==
  IF h \in rows THEN arrived
  ELSE arrived \cup {<<h, h>>}
         \cup {<<g, h>> : g \in {g \in rows : age[g] >= a}}
         \cup {<<h, g>> : g \in {g \in rows : age[g] <= a}}

(* A mistake: a timestamp ahead of the clock. *)
insert_received_content_Ahead(h, a) ==
  /\ rows' = rows \cup {h}
  /\ age' = [age EXCEPT ![h] = a - 1]
  /\ arrived' = Arrival(h, a)
  /\ UNCHANGED <<checked, samples>>

(* ON CONFLICT: an existing row only has its announcement renewed. *)
insert_received_content(h, a) ==
  /\ rows' = rows \cup {h}
  /\ age' = [age EXCEPT ![h] = a]
  /\ arrived' = Arrival(h, a)
  /\ UNCHANGED <<checked, samples>>

(* An infohash that was seen before is ignored.  One that was not is       *)
(* remembered first and stored then; the callback's exception is logged.   *)
on_content_received(h, a) ==
  IF h \in received
    THEN UNCHANGED <<received, database, faults>>
    ELSE /\ received' = received \cup {h}
         /\ \/ insert_received_content(h, a) /\ UNCHANGED faults
            \/ /\ faults < MaxFaults /\ faults' = faults + 1
               /\ UNCHANGED database

(* An announcement of h, a ticks old, arrives from a seedbox or is relayed *)
(* by another checker.                                                     *)
on_liberated_content(h, a) ==
  /\ quiet[h] <= a /\ a <= MaxDelay
  /\ on_content_received(h, a)
  /\ UNCHANGED <<world, checker>>

(* The program is closed, or dies, and is opened again: what is only in    *)
(* memory is gone, and start loads the infohashes that are stored.  A      *)
(* checker that cannot be initialized ends its thread at once.             *)
Restart ==
  /\ faults < MaxFaults /\ faults' = faults + 1
  /\ received' = rows
  /\ pc' \in {"idle", "dead"} /\ probing' = NoContent /\ cycle' = 0
  /\ UNCHANGED <<world, database>>

-------------------------------------------------------------------------------
(***************************************************************************)
(* The checker thread.                                                     *)
(***************************************************************************)

(* The rows whose last_checked is not NULL. *)
Checked == {h \in Content : <<h, h>> \in checked}
Unchecked == rows \ Checked

(* A mistake: the most recently checked first, NULLS LAST. *)
Before_Latest(h) ==
  IF h \in Checked
    THEN {g \in Checked : <<g, h>> \notin checked}
    ELSE Checked \cup {g \in Unchecked : <<g, h>> \notin arrived}

(* ORDER BY last_checked ASC NULLS FIRST, received_at DESC: the rows that  *)
(* come before h.  Two with the same received_at may come in either order. *)
Before(h) ==
  IF h \in Checked
    THEN Unchecked \cup {g \in Checked : <<h, g>> \notin checked}
    ELSE {g \in Unchecked : <<g, h>> \notin arrived}

(* LIMIT. *)
get_received_content_for_sampling ==
  {h \in rows : Cardinality(Before(h)) < SamplingLimit}

get_next_entry(h) ==
  /\ pc = "idle" /\ h \in get_received_content_for_sampling
  /\ pc' = "probe" /\ probing' = h
  /\ UNCHANGED <<world, received, database, cycle, faults>>

NothingToCheck ==
  /\ pc = "idle" /\ rows = {}
  /\ pc' = "cycle"
  /\ UNCHANGED <<world, received, database, probing, cycle, faults>>

(* An order of rows, outside S. *)
Without(order, S) == {e \in order : e[1] \notin S /\ e[2] \notin S}

insert_sample ==
  /\ pc = "probe"
  /\ samples' = [samples EXCEPT ![probing] = @ + 1]
  /\ pc' = "mark"
  /\ UNCHANGED <<world, received, rows, age, arrived, checked, probing, cycle, faults>>

mark_content_checked ==
  /\ pc = "mark"
  /\ checked' = IF probing \in rows
                  THEN Without(checked, {probing}) \cup {<<g, probing>> : g \in Checked \cup {probing}}
                  ELSE checked
  /\ pc' = "cycle" /\ probing' = NoContent
  /\ UNCHANGED <<world, received, rows, age, arrived, samples, cycle, faults>>

(* run_once raises in one of its writes; the loop goes on. *)
RunOnceFails ==
  /\ pc \in {"probe", "mark"}
  /\ faults < MaxFaults /\ faults' = faults + 1
  /\ pc' = "cycle" /\ probing' = NoContent
  /\ UNCHANGED <<world, received, database, cycle>>

(* A mistake: the cutoff compared the other way round. *)
Stale_Young == {h \in rows : age[h] < StaleThreshold}

Stale == {h \in rows : age[h] > StaleThreshold}
Trimmed(n) == IF n > KeepSamples THEN KeepSamples ELSE n

(* A mistake: the samples of purged content stay. *)
purge_stale_entries_Orphans ==
  /\ rows' = rows \ Stale
  /\ arrived' = Without(arrived, Stale) /\ checked' = Without(checked, Stale)
  /\ samples' = [h \in Content |-> Trimmed(samples[h])]
  /\ age' = [h \in Content |-> IF h \in Stale THEN 0 ELSE age[h]]

purge_stale_entries ==
  /\ rows' = rows \ Stale
  /\ arrived' = Without(arrived, Stale) /\ checked' = Without(checked, Stale)
  /\ samples' = [h \in Content |-> IF h \in Stale THEN 0 ELSE Trimmed(samples[h])]
  /\ age' = [h \in Content |-> IF h \in Stale THEN 0 ELSE age[h]]

EndCycle ==
  /\ pc = "cycle"
  /\ cycle' = (cycle + 1) % PurgeCycles
  /\ IF cycle' = 0 THEN purge_stale_entries ELSE UNCHANGED database
  /\ pc' = "idle"
  /\ UNCHANGED <<world, received, probing, faults>>

(* Nothing catches an exception of the purge: the thread ends. *)
PurgeRaises ==
  /\ pc = "cycle" /\ (cycle + 1) % PurgeCycles = 0
  /\ faults < MaxFaults /\ faults' = faults + 1
  /\ pc' = "dead"
  /\ UNCHANGED <<world, received, database, probing, cycle>>

-------------------------------------------------------------------------------
(***************************************************************************)
(* The seedboxes and time.                                                 *)
(***************************************************************************)

StopSeeding(h) ==
  /\ h \in seeded
  /\ seeded' = seeded \ {h}
  /\ UNCHANGED <<quiet, received, database, checker, faults>>

Tick ==
  /\ quiet' = [h \in Content |-> IF h \in seeded THEN 0 ELSE Older(quiet[h])]
  /\ age' = [h \in Content |-> IF h \in rows THEN Older(age[h]) ELSE age[h]]
  /\ UNCHANGED <<seeded, received, rows, arrived, checked, samples, checker, faults>>

CheckerStep ==
  \/ \E h \in Content : get_next_entry(h)
  \/ NothingToCheck \/ insert_sample \/ mark_content_checked \/ EndCycle

Next ==
  \/ \E h \in Content, a \in 0..MaxDelay : on_liberated_content(h, a)
  \/ Restart
  \/ CheckerStep \/ RunOnceFails \/ PurgeRaises
  \/ \E h \in Content : StopSeeding(h)
  \/ Tick

Spec == Init /\ [][Next]_vars

(* The checker thread keeps running, and a random choice that is offered   *)
(* again and again is made.                                                *)
FairSpec ==
  /\ Spec
  /\ WF_vars(CheckerStep)
  /\ \A h \in Content : SF_vars(get_next_entry(h))

(* Time passes, and the seedboxes' announcements keep arriving, too. *)
AnnouncedSpec ==
  /\ FairSpec /\ WF_vars(Tick)
  /\ \A h \in Content : SF_vars(on_liberated_content(h, 0))

-------------------------------------------------------------------------------
(***************************************************************************)
(* Properties.                                                             *)
(***************************************************************************)

(* Types of all the variables. *)
TypeOK ==
  /\ seeded \subseteq Content /\ received \subseteq Content /\ rows \subseteq Content
  /\ quiet \in [Content -> Ages] /\ age \in [Content -> Ages]
  /\ arrived \subseteq Content \X Content /\ checked \subseteq Content \X Content
  /\ samples \in [Content -> Nat]
  /\ pc \in {"idle", "probe", "mark", "cycle", "dead"}
  /\ probing \in Content \cup {NoContent}
  /\ cycle \in 0..(PurgeCycles - 1)
  /\ faults \in 0..MaxFaults

(* The tables agree although each write is a transaction of its own and    *)
(* either thread may die between two: no sample is left of a content that  *)
(* was purged, and at most KeepSamples plus those of the cycles since the  *)
(* last purge, which a restart counts from the beginning, are kept of any. *)
SamplesBelong ==
  \A h \in Content :
    /\ samples[h] > 0 => h \in rows
    /\ samples[h] <= KeepSamples + PurgeCycles * (1 + faults)

(* Liveness: no stored content is passed over for ever.  Only the first    *)
(* SamplingLimit rows are offered to the checker and newer unchecked ones  *)
(* go first, and still every content is probed again and again, unless it  *)
(* is purged or the checker thread has died.                               *)
EveryRowSampled ==
  \A h \in Content : []<>(probing = h \/ h \notin rows \/ pc = "dead")

(* Liveness: as time passes, what no seedbox announces any more disappears *)
(* from the tables, unless the checker thread has died.                    *)
SilentIsPurged ==
  WF_vars(Tick) => \A h \in Content : h \notin seeded ~> (h \notin rows \/ pc = "dead")

(* Liveness: a content that goes on being announced is listed, and listed  *)
(* again after every purge: the purge is for rows "not re-announced since  *)
(* cutoff_ts".                                                             *)
SeededIsListed ==
  \A h \in Content : [](h \in seeded) => []<>(h \in rows)
===============================================================================
