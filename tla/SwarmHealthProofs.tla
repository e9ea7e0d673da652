--------------------------- MODULE SwarmHealthProofs ---------------------------
(***************************************************************************)
(* Proofs about SwarmHealth, for every set of torrents, every threshold    *)
(* and every number of faults: the tables of the health checker agree,     *)
(* whatever its two threads do and wherever a write fails or the program   *)
(* is restarted.                                                           *)
(***************************************************************************)
EXTENDS SwarmHealth, TLAPS

USE HealthAssumption

-------------------------------------------------------------------------------
(* Types.                                                                   *)

(* Growing older keeps an age within the ages that are told apart. *)
LEMMA OlderType == \A a \in Ages : Older(a) \in Ages
BY DEF Ages, Older

(* The database and the world, and the memory of the two threads. *)
TablesType ==
  /\ seeded \subseteq Content /\ rows \subseteq Content
  /\ quiet \in [Content -> Ages] /\ age \in [Content -> Ages]
  /\ arrived \subseteq Content \X Content /\ checked \subseteq Content \X Content
  /\ samples \in [Content -> Nat]
MemoryType ==
  /\ received \subseteq Content
  /\ pc \in {"idle", "probe", "mark", "cycle", "dead"}
  /\ probing \in Content \cup {NoContent}
  /\ cycle \in 0..(PurgeCycles - 1)
  /\ faults \in 0..MaxFaults

LEMMA TypeParts == TypeOK <=> TablesType /\ MemoryType
BY DEF TypeOK, TablesType, MemoryType

(* A probe or a mark is of a row: the checker thread is the only one that  *)
(* deletes rows, and never between the choice of an entry and its mark.    *)
ProbedIsStored ==
  /\ pc \in {"probe", "mark"} => probing \in rows
  /\ \A e \in checked : e[1] \in rows /\ e[2] \in rows

(* A checked row is a row. *)
LEMMA CheckedIsStored ==
  ASSUME ProbedIsStored
  PROVE  Checked \subseteq rows
<1> SUFFICES ASSUME NEW h \in Checked PROVE h \in rows
  OBVIOUS
<1>1. <<h, h>> \in checked
  BY DEF Checked
<1>2. <<h, h>>[1] \in rows
  BY <1>1 DEF ProbedIsStored
<1> QED
  BY <1>2

LEMMA TablesStep ==
  ASSUME TypeOK, ProbedIsStored, [Next]_vars
  PROVE  TablesType'
<1>0. TablesType /\ MemoryType
  BY TypeParts
<1> USE DEF TablesType
<1>1. ASSUME NEW h \in Content, NEW a \in 0..MaxDelay, on_liberated_content(h, a)
      PROVE  TablesType'
  <2>1. a \in Ages
    BY DEF Ages
  <2>2. CASE UNCHANGED database
    BY <1>0, <1>1, <2>2 DEF on_liberated_content, world, database
  <2>3. CASE insert_received_content(h, a)
    <3>1. arrived' \subseteq Content \X Content
      BY <1>0, <1>1, <2>3 DEF insert_received_content, Arrival
    <3> QED
      BY <1>0, <1>1, <2>1, <2>3, <3>1 DEF on_liberated_content, insert_received_content, world
  <2> QED
    BY <1>1, <2>2, <2>3 DEF on_liberated_content, on_content_received
<1>2. CASE \/ Restart \/ RunOnceFails \/ PurgeRaises \/ NothingToCheck
           \/ \E h \in Content : get_next_entry(h)
  BY <1>0, <1>2 DEF Restart, RunOnceFails, PurgeRaises, NothingToCheck, get_next_entry,
     world, database
<1>3. CASE insert_sample
  <2>1. probing \in Content
    BY <1>0, <1>3 DEF insert_sample, ProbedIsStored
  <2> QED
    BY <1>0, <1>3, <2>1 DEF insert_sample, world
<1>4. CASE mark_content_checked
  <2>1. UNCHANGED <<seeded, quiet, rows, age, arrived, samples>>
    BY <1>4 DEF mark_content_checked, world
  <2>2. checked' \subseteq Content \X Content
    <3>1. CASE probing \in rows
      <4>1. checked' = Without(checked, {probing}) \cup {<<g, probing>> : g \in Checked \cup {probing}}
        BY <1>4, <3>1 DEF mark_content_checked
      <4>2. Without(checked, {probing}) \subseteq checked
        BY DEF Without
      <4>3. Checked \cup {probing} \subseteq Content
        BY <1>0, <3>1 DEF Checked
      <4> QED
        BY <1>0, <4>1, <4>2, <4>3
    <3>2. CASE probing \notin rows
      BY <1>0, <1>4, <3>2 DEF mark_content_checked
    <3> QED
      BY <3>1, <3>2
  <2> QED
    BY <1>0, <2>1, <2>2
<1>5. CASE EndCycle
  <2>1. UNCHANGED <<seeded, quiet>>
    BY <1>5 DEF EndCycle, world
  <2>2. CASE purge_stale_entries
    <3>1. /\ rows' \subseteq Content
          /\ arrived' \subseteq Content \X Content /\ checked' \subseteq Content \X Content
      BY <1>0, <2>2 DEF purge_stale_entries, Without
    <3>2. age' \in [Content -> Ages]
      BY <1>0, <2>2 DEF purge_stale_entries, Ages
    <3>3. samples' \in [Content -> Nat]
      BY <1>0, <2>2 DEF purge_stale_entries, Trimmed
    <3> QED
      BY <1>0, <2>1, <3>1, <3>2, <3>3
  <2>3. CASE UNCHANGED database
    BY <1>0, <2>1, <2>3 DEF database
  <2> QED
    BY <1>5, <2>2, <2>3 DEF EndCycle
<1>6. ASSUME NEW h \in Content, StopSeeding(h) PROVE TablesType'
  BY <1>0, <1>6 DEF StopSeeding, database
<1>7. CASE Tick
  <2>1. quiet' \in [Content -> Ages]
    BY <1>0, <1>7, OlderType DEF Tick, Ages
  <2>2. age' \in [Content -> Ages]
    BY <1>0, <1>7, OlderType DEF Tick
  <2> QED
    BY <1>0, <1>7, <2>1, <2>2 DEF Tick
<1>8. CASE UNCHANGED vars
  BY <1>0, <1>8 DEF vars
<1> QED
  BY <1>1, <1>2, <1>3, <1>4, <1>5, <1>6, <1>7, <1>8 DEF Next, CheckerStep

LEMMA MemoryStep ==
  ASSUME TypeOK, [Next]_vars
  PROVE  MemoryType'
<1>0. TablesType /\ MemoryType
  BY TypeParts
<1> USE DEF MemoryType
<1>1. ASSUME NEW h \in Content, NEW a \in 0..MaxDelay, on_liberated_content(h, a)
      PROVE  MemoryType'
  <2>1. UNCHANGED checker
    BY <1>1 DEF on_liberated_content
  <2>2. received' \subseteq Content /\ faults' \in 0..MaxFaults
    BY <1>0, <1>1 DEF on_liberated_content, on_content_received
  <2> QED
    BY <1>0, <2>1, <2>2 DEF checker
<1>3. CASE Restart
  <2>1. received' \subseteq Content
    BY <1>0, <1>3 DEF Restart, TablesType
  <2> QED
    BY <1>0, <1>3, <2>1 DEF Restart
<1>4. CASE \E h \in Content : get_next_entry(h)
  BY <1>0, <1>4 DEF get_next_entry
<1>5. CASE NothingToCheck \/ insert_sample \/ mark_content_checked \/ RunOnceFails \/ PurgeRaises
  BY <1>0, <1>5 DEF NothingToCheck, insert_sample, mark_content_checked, RunOnceFails,
     PurgeRaises
<1>6. CASE EndCycle
  BY <1>0, <1>6 DEF EndCycle
<1>7. CASE (\E h \in Content : StopSeeding(h)) \/ Tick
  BY <1>0, <1>7 DEF StopSeeding, Tick, checker
<1>8. CASE UNCHANGED vars
  BY <1>0, <1>8 DEF vars
<1> QED
  BY <1>1, <1>3, <1>4, <1>5, <1>6, <1>7, <1>8 DEF Next, CheckerStep

LEMMA ProbedIsStoredStep ==
  ASSUME TypeOK, ProbedIsStored, [Next]_vars
  PROVE  ProbedIsStored'
<1>0. /\ pc \in {"probe", "mark"} => probing \in rows
      /\ \A e \in checked : e[1] \in rows /\ e[2] \in rows
  BY DEF ProbedIsStored
<1> USE DEF ProbedIsStored
<1>1. ASSUME NEW h \in Content, NEW a \in 0..MaxDelay, on_liberated_content(h, a)
      PROVE  ProbedIsStored'
  BY <1>0, <1>1 DEF on_liberated_content, on_content_received, insert_received_content,
     database, checker
<1>2. CASE \/ Restart \/ NothingToCheck \/ RunOnceFails \/ PurgeRaises \/ insert_sample
  BY <1>0, <1>2 DEF Restart, NothingToCheck, RunOnceFails,
     PurgeRaises, insert_sample, database, checker
<1>3. ASSUME NEW h \in Content, get_next_entry(h) PROVE ProbedIsStored'
  <2>1. h \in rows
    BY <1>3 DEF get_next_entry, get_received_content_for_sampling
  <2> QED
    BY <1>0, <1>3, <2>1 DEF get_next_entry, database
<1>4. CASE mark_content_checked
  <2>1. rows' = rows /\ pc' = "cycle"
    BY <1>4 DEF mark_content_checked
  <2>2. ASSUME NEW e \in checked' PROVE e[1] \in rows /\ e[2] \in rows
    <3>1. CASE e \in checked
      BY <1>0, <3>1
    <3>2. CASE e \notin checked
      <4>1. probing \in rows
            /\ e \in Without(checked, {probing}) \cup {<<g, probing>> : g \in Checked \cup {probing}}
        BY <1>4, <2>2, <3>2 DEF mark_content_checked
      <4>2. PICK g \in Checked \cup {probing} : e = <<g, probing>>
        BY <3>2, <4>1 DEF Without
      <4> QED
        BY <4>1, <4>2, CheckedIsStored
    <3> QED
      BY <3>1, <3>2
  <2> QED
    BY <2>1, <2>2
<1>5. CASE EndCycle
  <2>1. pc' = "idle"
    BY <1>5 DEF EndCycle
  <2>2. CASE purge_stale_entries
    BY <1>0, <2>1, <2>2 DEF purge_stale_entries, Without
  <2>3. CASE UNCHANGED database
    BY <1>0, <2>1, <2>3 DEF database
  <2> QED
    BY <1>5, <2>2, <2>3 DEF EndCycle
<1>6. CASE (\E h \in Content : StopSeeding(h)) \/ Tick
  BY <1>0, <1>6 DEF StopSeeding, Tick, database, checker
<1>7. CASE UNCHANGED vars
  BY <1>0, <1>7 DEF vars
<1> QED
  BY <1>1, <1>2, <1>3, <1>4, <1>5, <1>6, <1>7 DEF Next, CheckerStep

LEMMA HealthTypesInit == Init => TypeOK /\ ProbedIsStored
BY DEF Init, TypeOK, ProbedIsStored, Ages

(* The types, with the rows the checker thread works on. *)
StoredInv == TypeOK /\ ProbedIsStored

LEMMA StoredStep == StoredInv /\ [Next]_vars => StoredInv'
<1> SUFFICES ASSUME TypeOK, ProbedIsStored, [Next]_vars PROVE TypeOK' /\ ProbedIsStored'
  BY DEF StoredInv
<1>1. TablesType' /\ MemoryType'
  BY TablesStep, MemoryStep
<1>2. TypeOK'
  BY <1>1 DEF TypeOK, TablesType, MemoryType
<1> QED
  BY <1>2, ProbedIsStoredStep

(* Types: every variable of the two threads and of their database keeps    *)
(* its type, whatever arrives and whatever fails.                          *)
THEOREM HealthTypeCorrect == Spec => []TypeOK
<1>1. Init => StoredInv
  BY HealthTypesInit DEF StoredInv
<1>2. StoredInv => TypeOK
  BY DEF StoredInv
<1> QED
  BY <1>1, <1>2, StoredStep, PTL DEF Spec

-------------------------------------------------------------------------------
(* Samples.                                                                 *)

(* Samples are of stored content. *)
SampledIsStored == \A h \in Content : samples[h] > 0 => h \in rows

(* How many samples of one content there may be: the purge leaves          *)
(* KeepSamples, every cycle since then may have added one, and so may each *)
(* of the at most PurgeCycles cycles before a restart that forgot them.    *)
Added == IF pc \in {"mark", "cycle"} THEN 1 ELSE 0
SampleBound == KeepSamples + PurgeCycles * faults + cycle + Added
FewSamples == \A h \in Content : samples[h] <= SampleBound

LEMMA SampledIsStoredStep ==
  ASSUME TypeOK, ProbedIsStored, SampledIsStored, [Next]_vars
  PROVE  SampledIsStored'
<1>0. /\ samples \in [Content -> Nat]
      /\ \A h \in Content : samples[h] > 0 => h \in rows
  BY DEF TypeOK, SampledIsStored
<1> USE DEF SampledIsStored
<1>1. CASE insert_sample
  <2>1. probing \in rows /\ rows' = rows
    BY <1>1 DEF insert_sample, ProbedIsStored
  <2>2. \A h \in Content : h # probing => samples'[h] = samples[h]
    BY <1>0, <1>1 DEF insert_sample
  <2> QED
    BY <1>0, <2>1, <2>2
<1>2. CASE purge_stale_entries
  <2> SUFFICES ASSUME NEW h \in Content, samples'[h] > 0 PROVE h \in rows'
    OBVIOUS
  <2>1. samples'[h] = IF h \in Stale THEN 0 ELSE Trimmed(samples[h])
    BY <1>2 DEF purge_stale_entries
  <2>2. h \notin Stale
    BY <2>1
  <2>3. samples[h] \in Nat /\ Trimmed(samples[h]) > 0
    BY <1>0, <2>1, <2>2
  <2>4. samples[h] > 0
    BY <2>3 DEF Trimmed
  <2> QED
    BY <1>0, <1>2, <2>2, <2>4 DEF purge_stale_entries
<1>3. CASE UNCHANGED samples /\ rows \subseteq rows'
  BY <1>0, <1>3
<1>4. insert_sample \/ purge_stale_entries \/ (UNCHANGED samples /\ rows \subseteq rows')
  BY DEF Next, CheckerStep, on_liberated_content, on_content_received, insert_received_content,
     Restart, RunOnceFails, PurgeRaises, NothingToCheck, get_next_entry,
     mark_content_checked, EndCycle, StopSeeding, Tick, vars, database
<1> QED
  BY <1>1, <1>2, <1>3, <1>4

(* The arithmetic of the bound. *)
LEMMA BoundArithmetic ==
  ASSUME NEW f \in Nat, NEW c \in Nat, NEW b \in {0, 1}, c + 1 <= PurgeCycles
  PROVE  /\ KeepSamples + PurgeCycles * f + c + b \in Nat
         /\ KeepSamples <= KeepSamples + PurgeCycles * f + c + b
         /\ \A g \in Nat, d \in {0, 1} :
              KeepSamples + PurgeCycles * f + c + b
                <= KeepSamples + PurgeCycles * (f + 1) + g + d
         /\ KeepSamples + PurgeCycles * f + c + b <= KeepSamples + PurgeCycles * (1 + f)
<1>1. PurgeCycles * f \in Nat
  OBVIOUS
<1>2. PurgeCycles * (f + 1) = PurgeCycles * f + PurgeCycles /\ 1 + f = f + 1
  OBVIOUS
<1> DEFINE m == PurgeCycles * f
<1>3. m \in Nat
  BY <1>1
<1> HIDE DEF m
<1>4. /\ KeepSamples + m + c + b \in Nat
      /\ KeepSamples <= KeepSamples + m + c + b
      /\ \A g \in Nat, d \in {0, 1} :
           KeepSamples + m + c + b <= KeepSamples + (m + PurgeCycles) + g + d
      /\ KeepSamples + m + c + b <= KeepSamples + (m + PurgeCycles)
  BY <1>3
<1> QED
  BY <1>2, <1>4 DEF m

(* The bound only sinks where a purge enforces it. *)
LEMMA SampleBoundStep ==
  ASSUME TypeOK, TypeOK', [Next]_vars
  PROVE  /\ SampleBound \in Nat /\ SampleBound' \in Nat /\ KeepSamples <= SampleBound'
         /\ insert_sample => SampleBound' = SampleBound + 1
         /\ SampleBound <= SampleBound' \/ purge_stale_entries
<1>0. /\ faults \in Nat /\ cycle \in Nat /\ cycle + 1 <= PurgeCycles
      /\ faults' \in Nat /\ cycle' \in Nat /\ cycle' + 1 <= PurgeCycles
      /\ Added \in {0, 1} /\ Added' \in {0, 1}
  <2>1. /\ faults \in 0..MaxFaults /\ cycle \in 0..(PurgeCycles - 1)
        /\ faults' \in 0..MaxFaults /\ cycle' \in 0..(PurgeCycles - 1)
    BY DEF TypeOK
  <2>2. /\ \A f \in 0..MaxFaults : f \in Nat
        /\ \A c \in 0..(PurgeCycles - 1) : c \in Nat /\ c + 1 <= PurgeCycles
    OBVIOUS
  <2>3. Added \in {0, 1} /\ Added' \in {0, 1}
    BY DEF Added
  <2> QED
    BY <2>1, <2>2, <2>3, Zenon
<1>1. /\ SampleBound = KeepSamples + PurgeCycles * faults + cycle + Added
      /\ SampleBound' = KeepSamples + PurgeCycles * faults' + cycle' + Added'
  BY DEF SampleBound
<1>2. SampleBound \in Nat /\ SampleBound' \in Nat /\ KeepSamples <= SampleBound'
  <2>1. SampleBound \in Nat
    BY <1>0, <1>1, BoundArithmetic, Zenon
  <2>2. SampleBound' \in Nat
    BY <1>0, <1>1, BoundArithmetic, Zenon
  <2>3. KeepSamples <= SampleBound'
    BY <1>0, <1>1, BoundArithmetic, Zenon
  <2> QED
    BY <2>1, <2>2, <2>3
<1>3. CASE faults' = faults /\ cycle' = cycle /\ ~EndCycle
  <2>1. Added' = Added \/ Added = 0
    BY <1>0, <1>3 DEF Next, CheckerStep, on_liberated_content, Restart,
       RunOnceFails, PurgeRaises, NothingToCheck, get_next_entry, insert_sample,
       mark_content_checked, StopSeeding, Tick, vars, checker, Added
  <2>2. insert_sample => Added = 0 /\ Added' = 1
    BY DEF insert_sample, Added
  <2> DEFINE base == KeepSamples + PurgeCycles * faults + cycle
  <2>3. SampleBound = base + Added /\ SampleBound' = base + Added'
    BY <1>1, <1>3
  <2>4. base \in Int
    BY <1>0
  <2> HIDE DEF base
  <2>5. \A x \in Int, a, b \in {0, 1} :
          /\ b = a \/ a = 0 => x + a <= x + b
          /\ a = 0 /\ b = 1 => x + b = (x + a) + 1
    OBVIOUS
  <2>6. SampleBound <= SampleBound' /\ (insert_sample => SampleBound' = SampleBound + 1)
    BY <1>0, <2>1, <2>2, <2>3, <2>4, <2>5, Zenon
  <2> QED
    BY <1>2, <2>6
<1>4. CASE faults' = faults + 1
  <2>1. ~insert_sample
    BY <1>0, <1>4 DEF insert_sample
  <2> QED
    BY <1>0, <1>1, <1>2, <1>4, <2>1, BoundArithmetic
<1>5. CASE EndCycle
  <2>1. /\ faults' = faults /\ cycle' = (cycle + 1) % PurgeCycles
        /\ Added = 1 /\ Added' = 0 /\ ~insert_sample
    BY <1>5 DEF EndCycle, insert_sample, Added
  <2>2. CASE cycle' = 0
    BY <1>2, <1>5, <2>1, <2>2 DEF EndCycle
  <2>3. CASE cycle' # 0
    <3>1. cycle' = cycle + 1
      BY <1>0, <2>1, <2>3
    <3> QED
      BY <1>0, <1>1, <1>2, <2>1, <3>1
  <2> QED
    BY <2>2, <2>3
<1>6. (faults' = faults /\ cycle' = cycle) \/ faults' = faults + 1 \/ EndCycle
  BY DEF Next, CheckerStep, on_liberated_content, on_content_received,
     Restart, RunOnceFails, PurgeRaises, NothingToCheck, get_next_entry, insert_sample,
     mark_content_checked, StopSeeding, Tick, vars, checker
<1> QED
  BY <1>3, <1>4, <1>5, <1>6

LEMMA FewSamplesStep ==
  ASSUME TypeOK, TypeOK', FewSamples, [Next]_vars
  PROVE  FewSamples'
<1> SUFFICES ASSUME NEW h \in Content PROVE samples'[h] <= SampleBound'
  BY DEF FewSamples
<1>0. samples \in [Content -> Nat] /\ samples[h] \in Nat /\ samples[h] <= SampleBound
  BY DEF TypeOK, FewSamples
<1>b. SampleBound \in Nat /\ SampleBound' \in Nat /\ KeepSamples <= SampleBound'
  BY SampleBoundStep
<1>1. CASE insert_sample
  <2>1. samples'[h] \in {samples[h], samples[h] + 1}
    BY <1>0, <1>1 DEF insert_sample
  <2>2. SampleBound' = SampleBound + 1
    BY <1>1, SampleBoundStep
  <2> QED
    BY <1>0, <1>b, <2>1, <2>2
<1>2. CASE purge_stale_entries
  <2>1. samples'[h] \in Nat /\ samples'[h] <= KeepSamples
    BY <1>0, <1>2 DEF purge_stale_entries, Trimmed
  <2> QED
    BY <1>b, <2>1
<1>3. CASE UNCHANGED samples /\ ~purge_stale_entries
  <2>1. SampleBound <= SampleBound'
    BY <1>3, SampleBoundStep
  <2> QED
    BY <1>0, <1>b, <1>3, <2>1
<1>4. insert_sample \/ purge_stale_entries \/ UNCHANGED samples
  BY DEF Next, CheckerStep, on_liberated_content, on_content_received, insert_received_content,
     Restart, RunOnceFails, PurgeRaises, NothingToCheck, get_next_entry,
     mark_content_checked, EndCycle, StopSeeding, Tick, vars, database
<1> QED
  BY <1>1, <1>2, <1>3, <1>4

(* SamplesBelong: no sample outlives its content, and a content has at     *)
(* most KeepSamples and those of the cycles since the last purge, however  *)
(* often the program is restarted in between.                              *)
THEOREM SamplesOfStoredContent == Spec => []SamplesBelong
<1> DEFINE Inv == StoredInv /\ SampledIsStored /\ FewSamples
<1>1. Init => Inv
  <2> SUFFICES ASSUME Init PROVE Inv
    OBVIOUS
  <2>1. StoredInv
    BY HealthTypesInit DEF StoredInv
  <2>2. SampledIsStored
    BY DEF Init, SampledIsStored
  <2>3. SampleBound = KeepSamples + PurgeCycles * 0 + 0 + 0
    BY DEF Init, SampleBound, Added
  <2>4. 0 <= SampleBound
    BY <2>3
  <2>5. FewSamples
    BY <2>4 DEF Init, FewSamples
  <2> QED
    BY <2>1, <2>2, <2>5
<1>2. Inv /\ [Next]_vars => Inv'
  BY StoredStep, SampledIsStoredStep, FewSamplesStep DEF StoredInv
<1>3. Inv => SamplesBelong
  <2> SUFFICES ASSUME Inv, NEW h \in Content
               PROVE  /\ samples[h] > 0 => h \in rows
                      /\ samples[h] <= KeepSamples + PurgeCycles * (1 + faults)
    BY DEF SamplesBelong
  <2>1. samples[h] > 0 => h \in rows
    BY DEF SampledIsStored
  <2>2. /\ faults \in Nat /\ cycle \in Nat /\ cycle + 1 <= PurgeCycles
        /\ Added \in {0, 1} /\ samples[h] \in Nat
    BY DEF StoredInv, TypeOK, Added
  <2>3. samples[h] <= KeepSamples + PurgeCycles * faults + cycle + Added
    BY DEF FewSamples, SampleBound
  <2>4. /\ KeepSamples + PurgeCycles * faults + cycle + Added \in Nat
        /\ KeepSamples + PurgeCycles * faults + cycle + Added
              <= KeepSamples + PurgeCycles * (1 + faults)
    BY <2>2, BoundArithmetic
  <2>5. PurgeCycles * (1 + faults) \in Nat
    BY <2>2
  <2> QED
    BY <2>1, <2>2, <2>3, <2>4, <2>5
<1> QED
  BY <1>1, <1>2, <1>3, PTL DEF Spec
===============================================================================
