--------------------------- MODULE FlowTruthProofs ---------------------------
(***************************************************************************)
(* The flow and the outside world, for any number of processes, runs and   *)
(* movies, with and without orphaned children. First what is true of a     *)
(* manifest by itself, and that every operator on one keeps it: the stages *)
(* a run has passed left successful records, a permission to resume a      *)
(* stalled torrent belongs to a download, flags belong to attention, a     *)
(* settled item has the records of its settlement, and the counts, the     *)
(* aggregates and the final result agree with the items. Then the world:   *)
(* what the manifests on disk claim did happen to the movies directory and *)
(* to the sheet, what happened there is accounted for by a manifest, every *)
(* child was started on the successful artifact of the stage before, a     *)
(* stalled torrent is resumed only where an operator asked for it, and     *)
(* nothing that recovery must not repeat is repeated beside an orphan. At  *)
(* the end, that the flow keeps the promise of FlowPromise.                *)
(***************************************************************************)
EXTENDS MovieFlowProofs

-----------------------------------------------------------------------------
(* What is true of a manifest by itself *)

\* The stages a run has passed when it is at a stage.
Passed == [recommendations |-> {},
           search   |-> {"recommendations"},
           probe    |-> SharedStages,
           download |-> SharedStages \cup {"probe"},
           transfer |-> SharedStages \cup {"probe", "download"},
           history  |-> SharedStages \cup {"probe", "download", "transfer"}]

Through == {"SUCCEEDED", "PARTIAL_SUCCESS"}
Moved   == {"moved", "cleanup_failed"}
Listed  == {"recorded", "already_recorded"}

\* Every stage an open run has passed left the artifact the next one needs.
HandedOver(m) ==
    m.state \in OpenStates =>
        \A s \in Passed[m.stage] : /\ RecordOf(m, s).artifact \in Handoff[NextStage[s]]
                                   /\ RecordOf(m, s).status \in Through

\* A permission to resume a stalled torrent belongs to a download.
Granted(m) == m.authorized => m.stage = "download"

\* The records of a settled item.
SkippedRecords(item) ==
    \A s \in ItemStages : item.stages[s].status = IF s = "probe" THEN "NO_RESULT" ELSE "SKIPPED"

AcquiredRecords(item) ==
    /\ item.stages["history"].artifact \in Listed
    /\ \A s \in ItemStages : item.stages[s].status \in Through

\* What a cleanup an operator has to acknowledge leaves behind.
CleanupLeft(m) ==
    /\ Batch(m) /\ m.stage = "transfer" /\ m.rank \in Ranks
    /\ m.items[m.rank].status = "ACQUIRED_CLEANUP_REQUIRED"
    /\ AcquiredRecords(m.items[m.rank])

\* Flags are those of the attention the run is in.
Flagged(m) ==
    /\ m.state \in {"RUNNING", "RETRYABLE_FAILURE"} => m.attention = {}
    /\ m.state = "ATTENTION_REQUIRED" =>
          /\ "stalled" \in m.attention => m.stage = "download"
          /\ "resume_allowed" \in m.attention =>
                "clear_continues_batch" \notin m.attention /\ m.stage \in ResumableStages
          /\ "clear_continues_batch" \in m.attention => CleanupLeft(m)

\* The status of an item says what became of its stages.
ItemsTrue(m) ==
    \A k \in Ranks :
        LET item == m.items[k] IN
        /\ item.status = "SKIPPED" => SkippedRecords(item)
        /\ item.status = "ACQUIRED" => AcquiredRecords(item)
        /\ item.status = "ACQUIRED_CLEANUP_REQUIRED" =>
              /\ k = m.rank /\ AcquiredRecords(item)
              /\ m.state = "ATTENTION_REQUIRED" /\ "clear_continues_batch" \in m.attention

Counted(m) == m.acquired = Count(m, "ACQUIRED") /\ m.skipped = Count(m, "SKIPPED")

Gained(m) == {k \in Ranks : m.items[k].status = "ACQUIRED"}

\* What a run that ended says of itself agrees with its items and records.
Reported(m) ==
    /\ m.state \in {"NO_ACTION_NEEDED", "NO_ACQUISITION_AVAILABLE"} => Gained(m) = {}
    /\ m.result = "flow_completed" => m.state = "COMPLETED" /\ (Batch(m) => Gained(m) = Ranks)
    /\ m.result = "flow_completed_with_skips" =>
          Batch(m) /\ m.state = "COMPLETED" /\ Gained(m) # {} /\ Gained(m) # Ranks
    /\ ~Batch(m) /\ m.state = "COMPLETED" => m.stages["history"].artifact \in Listed

\* The body of AggregatesSettle.
SettledAggregates(m) ==
    Batch(m) /\ m.requested > 0 /\ m.state \in {"COMPLETED", "NO_ACQUISITION_AVAILABLE"} =>
        \A s \in ItemStages :
            LET through == {k \in 1..m.requested : m.items[k].stages[s].status \in Through}
                clean == {k \in 1..m.requested : m.items[k].stages[s].status = "SUCCEEDED"}
            IN  m.stages[s].status = IF through = {} THEN "NO_RESULT"
                                     ELSE IF clean = 1..m.requested THEN "SUCCEEDED"
                                     ELSE "PARTIAL_SUCCESS"

Honest(m) ==
    /\ HandedOver(m) /\ Granted(m) /\ Flagged(m) /\ ItemsTrue(m)
    /\ Counted(m) /\ Reported(m) /\ SettledAggregates(m)

-----------------------------------------------------------------------------
(* What a manifest says of its movies *)

\* Movie k of the run reached the transfer, or the run was given up.
Beyond(m, k) ==
    \/ m.state = "CLEARED"
    \/ k \in Ranks /\ m.items[k].status = "ACQUIRED"
    \/ m.state \in OpenStates /\ m.stage \in {"transfer", "history"} /\ k = m.rank
    \/ ~Batch(m) /\ k = 0 /\ m.state = "COMPLETED"

\* The ranks of a run's movies, and the record of a stage of one of them.
RanksOf(m) == IF Batch(m) THEN Ranks ELSE {0}
RecordAt(m, k, s) == IF Batch(m) THEN m.items[k].stages[s] ELSE m.stages[s]

\* The movies that a transfer of the run reported as copied, and those that
\* its history stage reported as listed in the sheet.
MovedBy(m)  == {k \in RanksOf(m) : RecordAt(m, k, "transfer").artifact \in Moved}
ListedBy(m) == {k \in RanksOf(m) : RecordAt(m, k, "history").artifact \in Listed}

\* n takes back nothing that m reached and claims nothing that m did not.
Carries(m, n) ==
    /\ \A k \in 0..Target : Beyond(m, k) => Beyond(n, k)
    /\ MovedBy(n) \subseteq MovedBy(m)
    /\ ListedBy(n) \subseteq ListedBy(m)

-----------------------------------------------------------------------------
(* Which records an operator leaves alone *)

\* The record of a stage exists where the run stands.
Near(m, s) == s \in Stages /\ (PerItem(m, s) => m.rank \in Ranks)

\* n has the counts of m and, but for one stage, its records.
SameRest(m, n, s) ==
    /\ n.acquired = m.acquired /\ n.skipped = m.skipped
    /\ \A t \in Stages \ {s} : Near(m, t) => RecordOf(n, t) = RecordOf(m, t)

\* Two changes of the same record are one.
LEMMA RestTransitive ==
  ASSUME NEW m, NEW b, NEW n, NEW s, SamePlace(m, b), SameRest(m, b, s), SameRest(b, n, s)
  PROVE  SameRest(m, n, s)
BY DEF SameRest, SamePlace, Near, PerItem, Batch

\* Writing one record.
LEMMA RecordRest ==
  ASSUME NEW m \in Manifest, NEW s, At(m, s), NEW r \in StageRecord
  PROVE  SameRest(m, WithRecord(m, s, r), s)
<1> DEFINE n == WithRecord(m, s, r)
<1>0. s \in Stages
  BY DEF At
<1>1. CASE PerItem(m, s)
  <2>1. m.rank \in Ranks /\ s \in ItemStages /\ Batch(m)
    BY <1>1 DEF At, PerItem
  <2>2. n = [m EXCEPT !.items[m.rank].stages[s] = r]
    BY <1>1 DEF WithRecord
  <2>3. /\ n.acquired = m.acquired /\ n.skipped = m.skipped /\ n.stages = m.stages
        /\ n.schema = m.schema /\ n.rank = m.rank
    BY <2>2 DEF Manifest
  <2>4. \A t \in ItemStages \ {s} : n.items[m.rank].stages[t] = m.items[m.rank].stages[t]
    BY <2>1, <2>2 DEF Manifest, Item
  <2> HIDE DEF n
  <2>5. SameRest(m, n, s)
    BY <2>3, <2>4 DEF SameRest, RecordOf, PerItem, Batch
  <2> QED
    BY <2>5 DEF n
<1>2. CASE ~PerItem(m, s)
  <2>1. n = [m EXCEPT !.stages[s] = r]
    BY <1>2 DEF WithRecord
  <2>2. /\ n.acquired = m.acquired /\ n.skipped = m.skipped /\ n.items = m.items
        /\ n.schema = m.schema /\ n.rank = m.rank
        /\ \A t \in Stages \ {s} : n.stages[t] = m.stages[t]
    BY <1>0, <2>1 DEF Manifest
  <2> HIDE DEF n
  <2>3. SameRest(m, n, s)
    BY <2>2 DEF SameRest, RecordOf, PerItem, Batch
  <2> QED
    BY <2>3 DEF n
<1> QED
  BY <1>1, <1>2

\* Changing the status of one stage.
LEMMA StatusRest ==
  ASSUME NEW m \in Manifest, NEW s, At(m, s), NEW status \in StageStatus
  PROVE  LET n == WithStatus(m, s, status) IN
         /\ SameRest(m, n, s)
         /\ RecordOf(n, s) = [RecordOf(m, s) EXCEPT !.status = status]
         /\ RecordOf(n, s).status = status
         /\ RecordOf(n, s).artifact = RecordOf(m, s).artifact
<1> DEFINE r == [RecordOf(m, s) EXCEPT !.status = status]
<1>1. RecordOf(m, s) \in StageRecord
  BY RecordOfType DEF At
<1>2. r \in StageRecord /\ r.status = status /\ r.artifact = RecordOf(m, s).artifact
  BY <1>1 DEF StageRecord
<1> HIDE DEF r
<1>3. WithStatus(m, s, status) = WithRecord(m, s, r)
  BY DEF WithStatus, r
<1>4. RecordOf(WithRecord(m, s, r), s) = r
  BY <1>2, WithRecordKeeps
<1> QED
  BY <1>2, <1>3, <1>4, RecordRest DEF r

\* Setting the status of the current item and its aggregate changes no record
\* that is read where the run stands.
LEMMA ItemRest ==
  ASSUME NEW m \in Manifest, NEW s, At(m, s),
         NEW status \in ItemStatus, NEW aggregate \in StageStatus
  PROVE  LET n == WithItem(m, s, status, aggregate) IN
         /\ SameRest(m, n, s)
         /\ RecordOf(n, s) = RecordOf(m, s)
<1> DEFINE n == WithItem(m, s, status, aggregate)
<1>1. CASE PerItem(m, s)
  <2>1. m.rank \in Ranks /\ s \in ItemStages /\ Batch(m) /\ s \in Stages
    BY <1>1 DEF At, PerItem
  <2>2. n = [m EXCEPT !.items[m.rank].status = status, !.stages[s].status = aggregate]
    BY <1>1 DEF WithItem
  <2>3. /\ n.acquired = m.acquired /\ n.skipped = m.skipped
        /\ n.schema = m.schema /\ n.rank = m.rank
        /\ \A t \in Stages \ {s} : n.stages[t] = m.stages[t]
    BY <2>1, <2>2 DEF Manifest
  <2>4. n.items[m.rank].stages = m.items[m.rank].stages
    BY <2>1, <2>2 DEF Manifest, Item
  <2> HIDE DEF n
  <2>5. SameRest(m, n, s) /\ RecordOf(n, s) = RecordOf(m, s)
    BY <1>1, <2>3, <2>4 DEF SameRest, RecordOf, PerItem, Batch
  <2> QED
    BY <2>5 DEF n
<1>2. CASE ~PerItem(m, s)
  BY <1>2 DEF WithItem, SameRest
<1> QED
  BY <1>1, <1>2
\* A failure recorded at the current position.
LEMMA FailureRest ==
  ASSUME NEW m, Sound(m), NEW s, At(m, s), NEW status \in StageStatus, NEW mark \in ItemStatus
  PROVE  LET n == WithItem(WithStatus(m, s, status), s, mark, status) IN
         /\ SameRest(m, n, s)
         /\ RecordOf(n, s).artifact = RecordOf(m, s).artifact
         /\ RecordOf(n, s).status = status
         /\ PerItem(m, s) => n.items[m.rank].status = mark
<1> DEFINE b == WithStatus(m, s, status)
           n == WithItem(b, s, mark, status)
<1>0. m \in Manifest
  BY DEF Sound
<1>1. b \in Manifest /\ SamePlace(m, b)
  BY <1>0, WithStatusKeeps
<1>2. /\ SameRest(m, b, s) /\ RecordOf(b, s).status = status
      /\ RecordOf(b, s).artifact = RecordOf(m, s).artifact
  BY <1>0, StatusRest
<1>3. At(b, s) /\ b.rank = m.rank /\ (PerItem(b, s) <=> PerItem(m, s))
  BY <1>1, SamePlaceAt DEF SamePlace, PerItem, Batch
<1> HIDE DEF b
<1>4. SameRest(b, n, s) /\ RecordOf(n, s) = RecordOf(b, s)
  BY <1>1, <1>3, ItemRest
<1>5. PerItem(b, s) => n.items[b.rank].status = mark
  BY <1>1, <1>3, WithItemKeeps
<1> HIDE DEF n
<1>6. SameRest(m, n, s)
  BY <1>1, <1>2, <1>4, RestTransitive
<1> QED
  BY <1>2, <1>3, <1>4, <1>5, <1>6 DEF n, b

-----------------------------------------------------------------------------
(* What work at the current position leaves true *)

\* While the current item stays unsettled, the same items are settled.
LEMMA CountsKept ==
  ASSUME NEW m, Sound(m), NEW n, Reworks(m, n)
  PROVE  /\ Count(n, "ACQUIRED") = Count(m, "ACQUIRED")
         /\ Count(n, "SKIPPED") = Count(m, "SKIPPED")
         /\ Gained(n) = Gained(m)
<1>1. n.requested = m.requested /\ m.requested \in 0..Target /\ Target \in Nat
  BY BoundsAssumption DEF Reworks, SamePlace, Sound, Manifest
<1>2. ASSUME NEW status \in {"ACQUIRED", "SKIPPED"}, NEW k \in Ranks
      PROVE  n.items[k].status = status <=> m.items[k].status = status
  <2>1. CASE k = m.rank
    BY <1>2, <2>1 DEF Reworks, Sound, Ordered, Settled
  <2>2. CASE k # m.rank
    BY <1>2, <2>2 DEF Reworks, SamePlace
  <2> QED
    BY <2>1, <2>2
<1>3. \A k \in 1..m.requested : k \in Ranks
  BY <1>1 DEF Ranks
<1>4. \A status \in {"ACQUIRED", "SKIPPED"} :
        {k \in 1..n.requested : n.items[k].status = status}
          = {k \in 1..m.requested : m.items[k].status = status}
  BY <1>1, <1>2, <1>3
<1> QED
  BY <1>2, <1>4 DEF Count, Gained

\* While the artifacts of transfer and history stay, so do their claims.
LEMMA WitnessKept ==
  ASSUME NEW m, Sound(m), NEW n, SamePlace(m, n),
         \A t \in {"transfer", "history"} : Near(m, t) =>
             RecordOf(n, t).artifact = RecordOf(m, t).artifact
  PROVE  MovedBy(n) = MovedBy(m) /\ ListedBy(n) = ListedBy(m)
<1>1. RanksOf(n) = RanksOf(m) /\ (Batch(n) <=> Batch(m)) /\ n.rank = m.rank
  BY DEF SamePlace, RanksOf, Batch
<1>2. ~Batch(m) => m.rank = 0
  BY BoundsAssumption DEF Sound, Placed, Ordered, Manifest
<1>3. ASSUME NEW t \in {"transfer", "history"}, NEW k \in RanksOf(m)
      PROVE  RecordAt(n, k, t).artifact = RecordAt(m, k, t).artifact
  <2>1. t \in ItemStages /\ t \in Stages
    BY DEF ItemStages, Stages
  <2>2. CASE k = m.rank
    <3>1. Near(m, t)
      BY <2>1, <2>2, <1>3 DEF Near, PerItem, RanksOf
    <3>2. RecordAt(n, k, t) = RecordOf(n, t) /\ RecordAt(m, k, t) = RecordOf(m, t)
      BY <1>1, <2>1, <2>2 DEF RecordAt, RecordOf, PerItem
    <3> QED
      BY <3>1, <3>2
  <2>3. CASE k # m.rank
    <3>1. Batch(m) /\ k \in Ranks
      BY <1>2, <1>3, <2>3 DEF RanksOf
    <3> QED
      BY <1>1, <2>3, <3>1 DEF RecordAt, SamePlace
  <2> QED
    BY <2>2, <2>3
<1> QED
  BY <1>1, <1>3 DEF MovedBy, ListedBy

\* n is m after work at its stage that neither left it nor ended the run.
Stays(m, n) ==
    /\ Reworks(m, n)
    /\ SameRest(m, n, m.stage)
    /\ n.stage = m.stage /\ n.authorized = m.authorized
    /\ n.state \in OpenStates
    /\ n.result \notin {"flow_completed", "flow_completed_with_skips"}
    /\ m.rank \in Ranks => n.items[m.rank].status # "ACQUIRED_CLEANUP_REQUIRED"
    /\ n.state # "ATTENTION_REQUIRED" => n.attention = {}
    /\ n.attention \subseteq {"stalled", "resume_allowed"}
    /\ "stalled" \in n.attention => n.stage = "download"
    /\ "resume_allowed" \in n.attention => n.stage \in ResumableStages

\* The current stage is none of those passed, and those passed are near.
LEMMA PassedNear ==
  ASSUME NEW m, Sound(m), m.state \in OpenStates, NEW s \in Passed[m.stage]
  PROVE  Near(m, s) /\ s # m.stage /\ s \in Stages /\ s # "history"
<1>1. m.stage \in Stages
  BY DEF Sound, Manifest
<1>2. s \in Stages /\ s # m.stage /\ s # "history"
  BY <1>1 DEF Passed, Stages, SharedStages, ItemStages
<1>3. s \in ItemStages => m.stage \in ItemStages
  BY <1>1 DEF Passed, Stages, SharedStages, ItemStages
<1> QED
  BY <1>2, <1>3 DEF Sound, Placed, Near, PerItem

\* Work at the current stage keeps a manifest honest.
LEMMA StayHonest ==
  ASSUME NEW m, Sound(m), Honest(m), m.state \in OpenStates, NEW n, Stays(m, n)
  PROVE  /\ Honest(n)
         /\ \A k \in 0..Target : Beyond(m, k) => Beyond(n, k)
<1>1. Reworks(m, n) /\ SamePlace(m, n) /\ SameRest(m, n, m.stage) /\ n.stage = m.stage
  BY DEF Stays, Reworks
<1>2. HandedOver(n)
  <2>1. ASSUME NEW s \in Passed[m.stage]
        PROVE  RecordOf(n, s) = RecordOf(m, s)
    BY <1>1, <2>1, PassedNear DEF SameRest
  <2> QED
    BY <1>1, <2>1 DEF Honest, HandedOver
<1>3. Granted(n)
  BY DEF Honest, Granted, Stays
<1>4. Flagged(n)
  BY DEF Flagged, Stays, OpenStates
<1>5. ItemsTrue(n)
  <2> SUFFICES ASSUME NEW k \in Ranks
               PROVE  LET item == n.items[k] IN
                      /\ item.status = "SKIPPED" => SkippedRecords(item)
                      /\ item.status = "ACQUIRED" => AcquiredRecords(item)
                      /\ item.status # "ACQUIRED_CLEANUP_REQUIRED"
    BY DEF ItemsTrue
  <2>1. CASE k = m.rank
    BY <1>1, <2>1 DEF Stays, Reworks, Settled
  <2>2. CASE k # m.rank
    BY <1>1, <2>2 DEF SamePlace, Honest, ItemsTrue
  <2> QED
    BY <2>1, <2>2
<1>6. Counted(n)
  BY <1>1, CountsKept DEF Honest, Counted, SameRest
<1>7. Reported(n) /\ SettledAggregates(n)
  BY DEF Stays, Reported, SettledAggregates, OpenStates
<1>8. \A k \in 0..Target : Beyond(m, k) => Beyond(n, k)
  BY <1>1, CountsKept DEF Beyond, Stays, SamePlace, OpenStates, Gained
<1> QED
  BY <1>2, <1>3, <1>4, <1>5, <1>6, <1>7, <1>8 DEF Honest

\* If it also keeps the artifact of the stage, it claims nothing new.
LEMMA StayCarries ==
  ASSUME NEW m, Sound(m), Honest(m), m.state \in OpenStates, NEW n, Stays(m, n),
         RecordOf(n, m.stage).artifact = RecordOf(m, m.stage).artifact
  PROVE  Carries(m, n)
<1>1. \A t \in {"transfer", "history"} : Near(m, t) =>
         RecordOf(n, t).artifact = RecordOf(m, t).artifact
  BY DEF Stays, SameRest, Near
<1> QED
  BY <1>1, WitnessKept, StayHonest DEF Stays, Reworks, Carries
\* Two pieces of work at one stage are one.
LEMMA StaysTransitive ==
  ASSUME NEW m, NEW b, NEW n, Stays(m, b), Stays(b, n)
  PROVE  Stays(m, n)
<1>1. SamePlace(m, b) /\ SamePlace(b, n)
  BY DEF Stays, Reworks
<1>2. SameRest(m, n, m.stage)
  BY <1>1, RestTransitive DEF Stays
<1>3. Reworks(m, n)
  BY <1>1 DEF Stays, Reworks, SamePlace
<1> QED
  BY <1>1, <1>2, <1>3 DEF Stays, SamePlace

\* Changing the head of a manifest changes none of its records and counts.
LEMMA HeadRest ==
  ASSUME NEW b, NEW n, n.schema = b.schema, n.rank = b.rank, n.items = b.items,
         n.stages = b.stages, n.acquired = b.acquired, n.skipped = b.skipped, NEW s
  PROVE  SameRest(b, n, s) /\ RecordOf(n, s) = RecordOf(b, s)
BY DEF SameRest, RecordOf, PerItem, Batch

\* Only a batch in its item stages has a current item.
LEMMA RankedPerItem ==
  ASSUME NEW m, Sound(m), m.rank \in Ranks
  PROVE  PerItem(m, m.stage)
BY BoundsAssumption DEF Sound, Placed, Ordered, Manifest, Ranks, PerItem, Stages

\* While a run is neither blocked nor over its current item awaits no cleanup.
LEMMA NoCleanupAwaited ==
  ASSUME NEW m, Honest(m), m.state # "ATTENTION_REQUIRED", m.rank \in Ranks
  PROVE  m.items[m.rank].status # "ACQUIRED_CLEANUP_REQUIRED"
BY DEF Honest, ItemsTrue

\* A retryable failure of the current stage.
LEMMA RetryTrue ==
  ASSUME NEW m, Sound(m), Honest(m), m.state = "RUNNING"
  PROVE  LET n == Retry(m, m.stage) IN
         Stays(m, n) /\ RecordOf(n, m.stage).artifact = RecordOf(m, m.stage).artifact
<1> DEFINE s == m.stage
           b == WithItem(WithStatus(m, s, "FAILED"), s, "RETRYABLE_FAILURE", "FAILED")
           n == Retry(m, s)
<1>0. At(m, s) /\ "FAILED" \in StageStatus /\ "RETRYABLE_FAILURE" \in ItemStatus \ {"ACQUIRED", "SKIPPED"}
  BY OpenAtStage DEF OpenStates, StageStatus, ItemStatus
<1>1. Reworks(m, b) /\ SameHead(m, b)
  BY <1>0, FailureReworks
<1>2. /\ SameRest(m, b, s) /\ RecordOf(b, s).artifact = RecordOf(m, s).artifact
      /\ PerItem(m, s) => b.items[m.rank].status = "RETRYABLE_FAILURE"
  BY <1>0, FailureRest
<1>3. n = [b EXCEPT !.state = "RETRYABLE_FAILURE", !.result = "flow_retryable_failure",
                    !.stage = s]
  BY DEF Retry
<1>4. m.attention = {} /\ m.stage \in Stages
  BY DEF Honest, Flagged, Sound, Manifest
<1> HIDE DEF b, n
<1>5. /\ n \in Manifest /\ n.run = b.run /\ n.schema = b.schema /\ n.rank = b.rank
      /\ n.requested = b.requested /\ n.items = b.items /\ n.stages = b.stages
      /\ n.acquired = b.acquired /\ n.skipped = b.skipped
      /\ n.state = "RETRYABLE_FAILURE" /\ n.result = "flow_retryable_failure"
      /\ n.stage = s /\ n.attention = {} /\ n.authorized = m.authorized
  BY <1>1, <1>3, <1>4 DEF Reworks, Manifest, States, Results, SameHead
<1>6. Reworks(m, n)
  BY <1>1, <1>5, HeadReworks
<1>7. SameRest(b, n, s) /\ RecordOf(n, s) = RecordOf(b, s)
  BY <1>5, HeadRest
<1>8. SameRest(m, n, s)
  BY <1>1, <1>2, <1>7, RestTransitive DEF Reworks
<1> QED
  BY <1>2, <1>5, <1>6, <1>7, <1>8, RankedPerItem DEF Stays, OpenStates, n

\* A failure of the current stage that an operator has to clear up.
LEMMA AttendTrue ==
  ASSUME NEW m, Sound(m), Honest(m), m.state = "RUNNING", NEW flags \in SUBSET {"stalled"},
         "stalled" \in flags => m.stage = "download"
  PROVE  LET n == Attend(m, m.stage, flags) IN
         /\ Stays(m, n) /\ RecordOf(n, m.stage).artifact = RecordOf(m, m.stage).artifact
         /\ n.state = "ATTENTION_REQUIRED"
<1> DEFINE s == m.stage
           b == WithItem(WithStatus(m, s, "FAILED"), s, "ATTENTION_REQUIRED", "FAILED")
           all == flags \cup (IF s \in ResumableStages THEN {"resume_allowed"} ELSE {})
           n == Attend(m, s, flags)
<1>0. At(m, s) /\ "FAILED" \in StageStatus /\ "ATTENTION_REQUIRED" \in ItemStatus \ {"ACQUIRED", "SKIPPED"}
  BY OpenAtStage DEF OpenStates, StageStatus, ItemStatus
<1>1. Reworks(m, b) /\ SameHead(m, b)
  BY <1>0, FailureReworks
<1>2. /\ SameRest(m, b, s) /\ RecordOf(b, s).artifact = RecordOf(m, s).artifact
      /\ PerItem(m, s) => b.items[m.rank].status = "ATTENTION_REQUIRED"
  BY <1>0, FailureRest
<1>3. n = [b EXCEPT !.state = "ATTENTION_REQUIRED", !.result = "flow_attention_required",
                    !.stage = s, !.attention = all]
  BY DEF Attend
<1>4. all \in SUBSET AttentionFlags /\ all \subseteq {"stalled", "resume_allowed"}
      /\ ("stalled" \in all => s = "download")
      /\ ("resume_allowed" \in all => s \in ResumableStages)
  BY DEF AttentionFlags
<1>5. m.stage \in Stages
  BY DEF Sound, Manifest
<1> HIDE DEF b, n, all
<1>6. /\ n \in Manifest /\ n.run = b.run /\ n.schema = b.schema /\ n.rank = b.rank
      /\ n.requested = b.requested /\ n.items = b.items /\ n.stages = b.stages
      /\ n.acquired = b.acquired /\ n.skipped = b.skipped
      /\ n.state = "ATTENTION_REQUIRED" /\ n.result = "flow_attention_required"
      /\ n.stage = s /\ n.attention = all /\ n.authorized = m.authorized
  BY <1>1, <1>3, <1>4, <1>5 DEF Reworks, Manifest, States, Results, SameHead
<1>7. Reworks(m, n)
  BY <1>1, <1>6, HeadReworks
<1>8. SameRest(b, n, s) /\ RecordOf(n, s) = RecordOf(b, s)
  BY <1>6, HeadRest
<1>9. SameRest(m, n, s)
  BY <1>1, <1>2, <1>8, RestTransitive DEF Reworks
<1> QED
  BY <1>2, <1>4, <1>6, <1>7, <1>8, <1>9, RankedPerItem DEF Stays, OpenStates, n

\* Opening an attempt.
LEMMA StartTrue ==
  ASSUME NEW m, Sound(m), Honest(m), m.state \in {"RUNNING", "RETRYABLE_FAILURE"}
  PROVE  LET n == StartAttempt(m) IN
         /\ Stays(m, n) /\ RecordOf(n, m.stage).artifact = RecordOf(m, m.stage).artifact
         /\ n.state = "RUNNING" /\ RecordOf(n, m.stage).attempt = "RUNNING"
<1> DEFINE s == m.stage
           r == [RecordOf(m, s) EXCEPT !.status = "RUNNING", !.attempt = "RUNNING"]
           b == WithRecord(m, s, r)
           c == WithItem(b, s, "PROCESSING", "RUNNING")
           n == StartAttempt(m)
<1>1. At(m, s) /\ m \in Manifest /\ ArtifactsFit(m) /\ s \in Stages
  BY OpenAtStage DEF Sound, OpenStates, Manifest
<1>2. RecordOf(m, s) \in StageRecord /\ Fits(RecordOf(m, s), s)
  BY <1>1, RecordOfType DEF At
<1>3. /\ r \in StageRecord /\ Fits(r, s) /\ r.artifact = RecordOf(m, s).artifact
      /\ r.attempt = "RUNNING"
  BY <1>2 DEF StageRecord, StageStatus, AttemptStatus, Fits
<1> HIDE DEF r
<1>4. Reworks(m, b) /\ SameHead(m, b) /\ RecordOf(b, s) = r /\ SameRest(m, b, s)
  BY <1>1, <1>3, SoundReworks, RecordReworks, WithRecordKeeps, RecordRest
<1>5. At(b, s) /\ b \in Manifest /\ SamePlace(m, b)
  BY <1>1, <1>4, SamePlaceAt DEF Reworks
<1>6. "PROCESSING" \in ItemStatus \ {"ACQUIRED", "SKIPPED"} /\ "RUNNING" \in StageStatus
  BY DEF ItemStatus, StageStatus
<1> HIDE DEF b
<1>7. /\ Reworks(m, c) /\ SameHead(b, c)
      /\ PerItem(b, s) => c.items[b.rank].status = "PROCESSING"
  BY <1>4, <1>5, <1>6, ItemReworks, WithItemKeeps
<1>8. SameRest(b, c, s) /\ RecordOf(c, s) = r
  BY <1>4, <1>5, <1>6, ItemRest
<1>9. SameRest(m, c, s)
  BY <1>4, <1>5, <1>8, RestTransitive
<1>10. n = [c EXCEPT !.state = "RUNNING", !.result = "flow_running"]
  BY DEF StartAttempt, b, r
<1> HIDE DEF c, n
<1>11. /\ n \in Manifest /\ n.run = c.run /\ n.schema = c.schema /\ n.rank = c.rank
       /\ n.requested = c.requested /\ n.items = c.items /\ n.stages = c.stages
       /\ n.acquired = c.acquired /\ n.skipped = c.skipped
       /\ n.state = "RUNNING" /\ n.result = "flow_running" /\ n.stage = m.stage
       /\ n.attention = m.attention /\ n.authorized = m.authorized
  BY <1>4, <1>7, <1>10 DEF Reworks, Manifest, States, Results, SameHead
<1>12. Reworks(m, n)
  BY <1>7, <1>11, HeadReworks
<1>13. SameRest(c, n, s) /\ RecordOf(n, s) = RecordOf(c, s)
  BY <1>11, HeadRest
<1>14. SameRest(m, n, s)
  BY <1>7, <1>9, <1>13, RestTransitive DEF Reworks
<1>15. m.attention = {}
  BY DEF Honest, Flagged
<1>16. PerItem(b, s) <=> PerItem(m, s)
  BY <1>5 DEF SamePlace, PerItem, Batch
<1>17. m.rank \in Ranks => n.items[m.rank].status # "ACQUIRED_CLEANUP_REQUIRED"
  BY <1>5, <1>7, <1>11, <1>16, RankedPerItem DEF SamePlace
<1> QED
  BY <1>3, <1>8, <1>11, <1>12, <1>13, <1>14, <1>15, <1>17 DEF Stays, OpenStates, n

\* Writing a record of the current stage.
LEMMA RecordTrue ==
  ASSUME NEW m, Sound(m), Honest(m), m.state = "RUNNING", NEW r \in StageRecord, Fits(r, m.stage)
  PROVE  LET n == WithRecord(m, m.stage, r) IN
         /\ Stays(m, n) /\ RecordOf(n, m.stage) = r /\ n.state = "RUNNING"
         /\ Sound(n) /\ Honest(n)
<1> DEFINE n == WithRecord(m, m.stage, r)
<1>1. At(m, m.stage) /\ m \in Manifest /\ m.attention = {} /\ m.result \in Results
  BY OpenAtStage DEF Sound, OpenStates, Honest, Flagged, Manifest
<1>2. /\ Reworks(m, n) /\ SameHead(m, n) /\ Follows(m, n) /\ RecordOf(n, m.stage) = r
      /\ \A k \in Ranks : n.items[k].status = m.items[k].status
      /\ SameRest(m, n, m.stage)
  BY <1>1, RecordFollows, WithRecordKeeps, RecordRest DEF OpenStates
<1> HIDE DEF n
<1>3. m.result \notin {"flow_completed", "flow_completed_with_skips"}
  BY DEF Honest, Reported
<1>4. Stays(m, n)
  BY <1>1, <1>2, <1>3, NoCleanupAwaited DEF Stays, OpenStates, SameHead
<1> QED
  BY <1>2, <1>4, StayHonest DEF Follows, SameHead, OpenStates, n
\* An attempt that could not be launched or answered nothing.
LEMMA FailTrue ==
  ASSUME NEW m, Sound(m), Honest(m), m.state = "RUNNING", NEW attempt \in AttemptStatus
  PROVE  LET n == FailAttempt(m, attempt) IN
         Stays(m, n) /\ RecordOf(n, m.stage).artifact = RecordOf(m, m.stage).artifact
<1> DEFINE r == [RecordOf(m, m.stage) EXCEPT !.status = "FAILED", !.attempt = attempt]
<1>1. RecordOf(m, m.stage) \in StageRecord /\ Fits(RecordOf(m, m.stage), m.stage)
  BY OpenAtStage, RecordOfType DEF Sound, OpenStates, At
<1>2. r \in StageRecord /\ Fits(r, m.stage) /\ r.artifact = RecordOf(m, m.stage).artifact
  BY <1>1 DEF StageRecord, StageStatus, Fits
<1>3. FailAttempt(m, attempt) = WithRecord(m, m.stage, r)
  BY DEF FailAttempt
<1> HIDE DEF r
<1> QED
  BY <1>2, <1>3, RecordTrue

\* A child's answer becomes the artifact of the current stage.
LEMMA CompleteTrue ==
  ASSUME NEW m, Sound(m), Honest(m), m.state = "RUNNING",
         NEW kind \in Kinds[m.stage], NEW found \in 0..Target
  PROVE  LET n == CompleteAttempt(m, kind, found) IN
         /\ Stays(m, n)
         /\ RecordOf(n, m.stage).artifact = kind
<1> DEFINE r == [status |-> "COMPLETED", attempt |-> "COMPLETED", artifact |-> kind]
           b == WithRecord(m, m.stage, r)
           n == CompleteAttempt(m, kind, found)
<1>0. m.stage \in Stages
  BY DEF Sound, Manifest
<1>1. r \in StageRecord /\ Fits(r, m.stage) /\ r.artifact = kind
  <2>1. kind \in AllKinds
    BY <1>0 DEF AllKinds
  <2> QED
    BY <2>1 DEF StageRecord, StageStatus, AttemptStatus, Fits
<1> HIDE DEF r
<1>2. Stays(m, b) /\ RecordOf(b, m.stage) = r /\ b.state = "RUNNING"
  BY <1>1, RecordTrue
<1>3. n = [b EXCEPT !.found = IF kind = "found" THEN found ELSE b.found]
  BY DEF CompleteAttempt, r
<1> HIDE DEF b, n
<1>4. (IF kind = "found" THEN found ELSE b.found) \in 0..Target
  BY <1>2 DEF Stays, Reworks, Manifest
<1>5. /\ n \in Manifest /\ n.run = b.run /\ n.schema = b.schema /\ n.rank = b.rank
      /\ n.requested = b.requested /\ n.items = b.items /\ n.stages = b.stages
      /\ n.acquired = b.acquired /\ n.skipped = b.skipped
      /\ n.state = b.state /\ n.stage = b.stage /\ n.attention = b.attention
      /\ n.authorized = b.authorized /\ n.result = b.result
  BY <1>2, <1>3, <1>4 DEF Stays, Reworks, Manifest
<1>6. Reworks(m, n)
  BY <1>2, <1>5, HeadReworks DEF Stays
<1>7. SameRest(b, n, m.stage) /\ RecordOf(n, m.stage) = RecordOf(b, m.stage)
  BY <1>5, HeadRest
<1>8. SameRest(m, n, m.stage)
  BY <1>2, <1>7, RestTransitive DEF Stays, Reworks
<1> QED
  BY <1>1, <1>2, <1>5, <1>6, <1>7, <1>8 DEF Stays, n

\* An attempt nobody knows the end of.
LEMMA InterruptTrue ==
  ASSUME NEW m, Sound(m), Honest(m), m.state = "RUNNING"
  PROVE  LET n == InterruptAttempt(m) IN
         /\ Stays(m, n) /\ RecordOf(n, m.stage).artifact = RecordOf(m, m.stage).artifact
         /\ m.stage \notin SafeInterruptedStages => n.state = "ATTENTION_REQUIRED"
<1> DEFINE s == m.stage
           r == [RecordOf(m, s) EXCEPT !.attempt = "INTERRUPTED"]
           b == WithRecord(m, s, r)
           n == InterruptAttempt(m)
<1>0. At(m, s) /\ m \in Manifest /\ ArtifactsFit(m)
  BY OpenAtStage DEF Sound, OpenStates
<1>1. RecordOf(m, s) \in StageRecord /\ Fits(RecordOf(m, s), s)
  BY <1>0, RecordOfType DEF At
<1>2. r \in StageRecord /\ Fits(r, s) /\ r.artifact = RecordOf(m, s).artifact
  BY <1>1 DEF StageRecord, AttemptStatus, Fits
<1> HIDE DEF r
<1>3. /\ Stays(m, b) /\ RecordOf(b, s) = r /\ b.state = "RUNNING" /\ b.stage = s
      /\ Sound(b) /\ Honest(b)
  BY <1>2, RecordTrue DEF Stays
<1>4. CASE s \notin SafeInterruptedStages
  <2>1. n = Attend(b, s, {})
    BY <1>4 DEF InterruptAttempt, r
  <2> HIDE DEF b, n
  <2>2. /\ Stays(b, n) /\ RecordOf(n, s).artifact = RecordOf(b, s).artifact
        /\ n.state = "ATTENTION_REQUIRED"
    BY <1>3, <2>1, AttendTrue
  <2> QED
    BY <1>2, <1>3, <2>2, StaysTransitive DEF n
<1>5. CASE s \in SafeInterruptedStages
  <2> DEFINE c == WithStatus(b, s, "INTERRUPTED_RETRYABLE")
             d == IF PerItem(m, s) THEN [c EXCEPT !.items[m.rank].status = "PROCESSING"] ELSE c
  <2>1. n = d
    BY <1>5 DEF InterruptAttempt, r
  <2>2. At(b, s) /\ b \in Manifest /\ SamePlace(m, b)
    BY <1>0, <1>3, SamePlaceAt DEF Stays, Reworks
  <2> HIDE DEF b
  <2>3. "INTERRUPTED_RETRYABLE" \in StageStatus
    BY DEF StageStatus
  <2>4. Reworks(m, c) /\ SameHead(b, c)
    BY <1>3, <2>2, <2>3, StatusReworks DEF Stays
  <2>5. SameRest(b, c, s) /\ RecordOf(c, s).artifact = RecordOf(b, s).artifact
    BY <2>2, <2>3, StatusRest
  <2>6. SameRest(m, c, s)
    BY <1>3, <2>2, <2>5, RestTransitive DEF Stays
  <2>7. \A k \in Ranks : c.items[k].status = b.items[k].status
    BY <2>2, <2>3, WithStatusKeeps
  <2> HIDE DEF c
  <2>8. /\ Reworks(m, d) /\ SameHead(c, d) /\ SameRest(c, d, s)
        /\ RecordOf(d, s) = RecordOf(c, s)
        /\ m.rank \in Ranks => d.items[m.rank].status # "ACQUIRED_CLEANUP_REQUIRED"
    <3>1. CASE PerItem(m, s)
      <4> DEFINE old == c.items[m.rank]
                 item == [old EXCEPT !.status = "PROCESSING"]
      <4>1. /\ m.rank \in Ranks /\ c \in Manifest /\ ArtifactsFit(c) /\ c.rank = m.rank
            /\ c.schema = m.schema
        BY <1>0, <2>4, <3>1 DEF At, Reworks, SamePlace
      <4>2. old \in Item /\ \A t \in ItemStages : Fits(old.stages[t], t)
        BY <4>1 DEF Manifest, ArtifactsFit
      <4>3. item \in Item /\ item.stages = old.stages /\ item.status = "PROCESSING"
        BY <4>2 DEF Item, ItemStatus
      <4>4. d = [c EXCEPT !.items = [c.items EXCEPT ![m.rank] = item]]
        BY <3>1
      <4>5. d.acquired = c.acquired /\ d.skipped = c.skipped
        BY <4>1, <4>4 DEF Manifest
      <4> HIDE DEF item, d
      <4>6. /\ d \in Manifest /\ ArtifactsFit(d) /\ SamePlace(m, d) /\ SameHead(c, d)
            /\ d.items[m.rank] = item /\ d.stages = c.stages
        BY <2>4, <4>1, <4>2, <4>3, <4>4, ReplaceItem
      <4>7. SameRest(c, d, s) /\ RecordOf(d, s) = RecordOf(c, s)
        BY <4>1, <4>3, <4>5, <4>6 DEF SameRest, RecordOf, PerItem, Batch, SamePlace
      <4> QED
        BY <4>3, <4>6, <4>7 DEF Reworks, Settled
    <3>2. CASE ~PerItem(m, s)
      <4>1. m.rank \notin Ranks
        BY <3>2, RankedPerItem
      <4> QED
        BY <2>4, <3>2, <4>1 DEF SameHead, SameRest
    <3> QED
      BY <3>1, <3>2
  <2> HIDE DEF d, n
  <2>9. SameRest(m, d, s)
    BY <2>4, <2>6, <2>8, RestTransitive DEF Reworks
  <2>10. Stays(m, d)
    BY <1>3, <2>4, <2>8, <2>9 DEF Stays, SameHead, OpenStates
  <2> QED
    BY <1>2, <1>3, <1>5, <2>1, <2>5, <2>8, <2>10 DEF n
<1> QED
  BY <1>4, <1>5
-----------------------------------------------------------------------------
(* Going on to the next stage *)

\* n is m at the stage after its own, with the artifact that stage reads.
Advances(m, n) ==
    /\ Reworks(m, n)
    /\ SameRest(m, n, m.stage)
    /\ RecordOf(n, m.stage).artifact = RecordOf(m, m.stage).artifact
    /\ RecordOf(m, m.stage).artifact \in Handoff[NextStage[m.stage]]
    /\ RecordOf(n, m.stage).status \in Through
    /\ m.stage # "history" /\ n.stage = NextStage[m.stage]
    /\ n.state = "RUNNING" /\ n.result = "flow_running" /\ n.attention = {} /\ ~n.authorized
    /\ m.rank \in Ranks => n.items[m.rank].status = "PROCESSING"

\* The next stage has passed what its predecessor had, and its predecessor.
LEMMA PassedNext ==
  ASSUME NEW s \in Stages \ {"history"}
  PROVE  NextStage[s] \in Stages /\ Passed[NextStage[s]] = Passed[s] \cup {s}
BY DEF Passed, NextStage, Stages, SharedStages, ItemStages

\* Going on keeps a manifest honest and claims nothing new.
LEMMA AdvanceHonest ==
  ASSUME NEW m, Sound(m), Honest(m), m.state \in OpenStates, NEW n, Advances(m, n)
  PROVE  Honest(n) /\ Carries(m, n)
<1>1. Reworks(m, n) /\ SamePlace(m, n) /\ m.stage \in Stages \ {"history"}
  BY DEF Advances, Reworks, Sound, Manifest
<1>2. HandedOver(n)
  <2>1. ASSUME NEW s \in Passed[m.stage]
        PROVE  RecordOf(n, s) = RecordOf(m, s)
    BY <2>1, PassedNear DEF Advances, SameRest
  <2>2. ASSUME NEW s \in Passed[n.stage]
        PROVE  /\ RecordOf(n, s).artifact \in Handoff[NextStage[s]]
               /\ RecordOf(n, s).status \in Through
    <3>1. s \in Passed[m.stage] \/ s = m.stage
      BY <1>1, <2>2, PassedNext DEF Advances
    <3>2. CASE s \in Passed[m.stage]
      BY <2>1, <3>2 DEF Honest, HandedOver
    <3>3. CASE s = m.stage
      BY <3>3 DEF Advances
    <3> QED
      BY <3>1, <3>2, <3>3
  <2> QED
    BY <2>2 DEF HandedOver
<1>3. Granted(n) /\ Flagged(n)
  BY DEF Granted, Flagged, Advances
<1>4. ItemsTrue(n)
  <2> SUFFICES ASSUME NEW k \in Ranks
               PROVE  LET item == n.items[k] IN
                      /\ item.status = "SKIPPED" => SkippedRecords(item)
                      /\ item.status = "ACQUIRED" => AcquiredRecords(item)
                      /\ item.status # "ACQUIRED_CLEANUP_REQUIRED"
    BY DEF ItemsTrue
  <2>1. CASE k = m.rank
    BY <1>1, <2>1 DEF Advances
  <2>2. CASE k # m.rank
    BY <1>1, <2>2 DEF SamePlace, Honest, ItemsTrue
  <2> QED
    BY <2>1, <2>2
<1>5. Counted(n)
  BY <1>1, CountsKept DEF Honest, Counted, SameRest, Advances
<1>6. Reported(n) /\ SettledAggregates(n)
  BY DEF Advances, Reported, SettledAggregates
<1>7. \A k \in 0..Target : Beyond(m, k) => Beyond(n, k)
  <2>1. m.stage = "transfer" => n.stage = "history"
    BY DEF Advances, NextStage
  <2> QED
    BY <1>1, <2>1, CountsKept DEF Beyond, Advances, SamePlace, OpenStates, Gained
<1>8. MovedBy(n) = MovedBy(m) /\ ListedBy(n) = ListedBy(m)
  <2>1. \A t \in {"transfer", "history"} : Near(m, t) =>
           RecordOf(n, t).artifact = RecordOf(m, t).artifact
    BY DEF Advances, SameRest, Near
  <2> QED
    BY <1>1, <2>1, WitnessKept
<1> QED
  BY <1>2, <1>3, <1>4, <1>5, <1>6, <1>7, <1>8 DEF Honest, Carries

\* A finished stage with a usable artifact advances the run, whatever was
\* noted for the time after history.
LEMMA AdvanceTrue ==
  ASSUME NEW m, Sound(m), Honest(m), m.state = "RUNNING",
         m.stage # "history", m.stage = "search" => ~Batch(m),
         RecordOf(m, m.stage).artifact \in Handoff[NextStage[m.stage]],
         NEW b, Reworks(m, b), SameHead(m, b), SameRest(m, b, m.stage),
         RecordOf(b, m.stage) = RecordOf(m, m.stage), NEW status \in Through
  PROVE  Advances(m, Advance(b, m.stage, status))
<1> DEFINE s == m.stage
           c == WithStatus(b, s, status)
           d == IF PerItem(b, s) THEN [c EXCEPT !.items[b.rank].status = "PROCESSING"] ELSE c
           granted == s # "download" /\ d.authorized
           n == Advance(b, s, status)
<1>1. /\ At(m, s) /\ At(b, s) /\ b \in Manifest /\ SamePlace(m, b) /\ status \in StageStatus
      /\ s \in Stages
  BY OpenAtStage, SamePlaceAt DEF OpenStates, Reworks, Through, StageStatus, Sound, Manifest
<1>2. Reworks(m, c) /\ SameHead(b, c)
  BY <1>1, StatusReworks
<1>3. /\ SameRest(b, c, s) /\ RecordOf(c, s).status = status
      /\ RecordOf(c, s).artifact = RecordOf(b, s).artifact
  BY <1>1, StatusRest
<1>4. SameRest(m, c, s)
  BY <1>1, <1>3, RestTransitive
<1> HIDE DEF c
<1>5. /\ Reworks(m, d) /\ SameHead(c, d) /\ SameRest(c, d, s)
      /\ RecordOf(d, s) = RecordOf(c, s)
      /\ m.rank \in Ranks => d.items[m.rank].status = "PROCESSING"
  <2>0. (PerItem(b, s) <=> PerItem(m, s)) /\ b.rank = m.rank /\ c.rank = m.rank
    BY <1>1, <1>2 DEF SamePlace, PerItem, Batch, Reworks
  <2>1. CASE PerItem(b, s)
    <3> DEFINE old == c.items[m.rank]
               item == [old EXCEPT !.status = "PROCESSING"]
    <3>1. m.rank \in Ranks /\ c \in Manifest /\ ArtifactsFit(c) /\ c.schema = m.schema
      BY <1>1, <1>2, <2>0, <2>1 DEF At, Reworks, SamePlace
    <3>2. old \in Item /\ \A t \in ItemStages : Fits(old.stages[t], t)
      BY <3>1 DEF Manifest, ArtifactsFit
    <3>3. item \in Item /\ item.stages = old.stages /\ item.status = "PROCESSING"
      BY <3>2 DEF Item, ItemStatus
    <3>4. d = [c EXCEPT !.items = [c.items EXCEPT ![m.rank] = item]]
      BY <2>0, <2>1
    <3>5. d.acquired = c.acquired /\ d.skipped = c.skipped
      BY <3>1, <3>4 DEF Manifest
    <3> HIDE DEF item, d
    <3>6. /\ d \in Manifest /\ ArtifactsFit(d) /\ SamePlace(m, d) /\ SameHead(c, d)
          /\ d.items[m.rank] = item /\ d.stages = c.stages
      BY <1>2, <3>1, <3>2, <3>3, <3>4, ReplaceItem
    <3>7. SameRest(c, d, s) /\ RecordOf(d, s) = RecordOf(c, s)
      BY <2>0, <3>1, <3>3, <3>5, <3>6 DEF SameRest, RecordOf, PerItem, Batch, SamePlace
    <3> QED
      BY <3>3, <3>6, <3>7 DEF Reworks, Settled
  <2>2. CASE ~PerItem(b, s)
    <3>1. m.rank \notin Ranks
      BY <2>0, <2>2, RankedPerItem
    <3> QED
      BY <1>2, <2>2, <3>1 DEF SameHead, SameRest
  <2> QED
    BY <2>1, <2>2
<1>6. SameRest(m, d, s)
  BY <1>2, <1>4, <1>5, RestTransitive DEF Reworks
<1>7. n = [[d EXCEPT !.state = "RUNNING", !.result = "flow_running", !.stage = NextStage[s],
                     !.attention = {}] EXCEPT !.authorized = granted]
  BY DEF Advance, Proceed, Manifest, c
<1>8. d.authorized = m.authorized
  BY <1>2, <1>5 DEF SameHead
<1>9. ~granted /\ granted \in BOOLEAN
  BY <1>8 DEF Honest, Granted
<1>10. NextStage[s] \in Stages
  BY <1>1, PassedNext
<1> HIDE DEF d, granted, n
<1>11. /\ n \in Manifest /\ n.run = d.run /\ n.schema = d.schema /\ n.rank = d.rank
       /\ n.requested = d.requested /\ n.items = d.items /\ n.stages = d.stages
       /\ n.acquired = d.acquired /\ n.skipped = d.skipped
       /\ n.state = "RUNNING" /\ n.result = "flow_running" /\ n.stage = NextStage[s]
       /\ n.attention = {} /\ ~n.authorized
  BY <1>5, <1>7, <1>9, <1>10 DEF Reworks, Manifest, States, Results, AttentionFlags
<1>12. Reworks(m, n)
  BY <1>5, <1>11, HeadReworks
<1>13. SameRest(d, n, s) /\ RecordOf(n, s) = RecordOf(d, s)
  BY <1>11, HeadRest
<1>14. SameRest(m, n, s)
  BY <1>5, <1>6, <1>13, RestTransitive DEF Reworks
<1>15. /\ RecordOf(n, s).artifact = RecordOf(m, s).artifact
       /\ RecordOf(n, s).status \in Through
  BY <1>3, <1>5, <1>13
<1> QED
  BY <1>5, <1>11, <1>12, <1>14, <1>15 DEF Advances, n
-----------------------------------------------------------------------------
(* Ending a batch *)

\* The items after the last one of a batch are untouched.
Bounded(m) == \A k \in Ranks : k > m.requested => m.items[k] = FreshItem

\* The count of acquired movies tells none, some and all of a batch apart.
LEMMA GainedCount ==
  ASSUME NEW m \in Manifest, Bounded(m)
  PROVE  /\ Count(m, "ACQUIRED") = 0 <=> Gained(m) = {}
         /\ Count(m, "ACQUIRED") = Target <=> Gained(m) = Ranks
         /\ Gained(m) = Ranks => m.requested = Target /\ Count(m, "SKIPPED") = 0
<1>1. m.requested \in 0..Target /\ Target \in Nat /\ Target >= 1
  BY BoundsAssumption DEF Manifest
<1>2. FreshItem.status = "PENDING"
  BY DEF FreshItem
<1>3. Gained(m) = {k \in 1..m.requested : m.items[k].status = "ACQUIRED"}
  <2>1. \A k \in Ranks : k \in Nat /\ (k \in 1..m.requested <=> k <= m.requested)
    BY <1>1 DEF Ranks
  <2>2. \A k \in 1..m.requested : k \in Ranks
    BY <1>1 DEF Ranks
  <2> QED
    BY <1>1, <1>2, <2>1, <2>2 DEF Gained, Bounded
<1>4. Count(m, "ACQUIRED") = Cardinality(Gained(m))
  BY <1>3 DEF Count
<1>5. IsFiniteSet(Ranks) /\ Cardinality(Ranks) = Target
  BY <1>1, FS_Interval DEF Ranks
<1>6. Gained(m) \subseteq Ranks
  BY DEF Gained
<1>7. /\ IsFiniteSet(Gained(m)) /\ Cardinality(Gained(m)) \in Nat
      /\ Cardinality(Gained(m)) = Target => Gained(m) = Ranks
  BY <1>5, <1>6, FS_Subset, FS_CardinalityType
<1>8. Cardinality(Gained(m)) = 0 <=> Gained(m) = {}
  BY <1>7, FS_EmptySet
<1>9. ASSUME Gained(m) = Ranks
      PROVE  m.requested = Target /\ Count(m, "SKIPPED") = 0
  <2>1. Target \in Ranks
    BY <1>1 DEF Ranks
  <2>2. m.requested = Target
    BY <1>1, <1>3, <1>9, <2>1
  <2>3. {k \in 1..m.requested : m.items[k].status = "SKIPPED"} = {}
    BY <1>9, <2>2 DEF Gained, Ranks
  <2> QED
    BY <2>2, <2>3, FS_EmptySet DEF Count
<1> QED
  BY <1>4, <1>5, <1>7, <1>8, <1>9

\* What the aggregate over settled items says.
LEMMA AggregateSettles ==
  ASSUME NEW m \in Manifest, m.requested > 0,
         \A k \in 1..m.requested : \/ SkippedRecords(m.items[k])
                                   \/ AcquiredRecords(m.items[k]),
         NEW s \in ItemStages
  PROVE  LET through == {k \in 1..m.requested : m.items[k].stages[s].status \in Through}
             clean == {k \in 1..m.requested : m.items[k].stages[s].status = "SUCCEEDED"}
         IN  Aggregate(m, s) = IF through = {} THEN "NO_RESULT"
                               ELSE IF clean = 1..m.requested THEN "SUCCEEDED"
                               ELSE "PARTIAL_SUCCESS"
<1> DEFINE status(k) == m.items[k].stages[s].status
           last == m.requested
           found == {status(k) : k \in 1..last}
           through == {k \in 1..last : status(k) \in Through}
           clean == {k \in 1..last : status(k) = "SUCCEEDED"}
<1>1. last \in Nat /\ 1 \in 1..last
  BY BoundsAssumption DEF Manifest
<1>2. \A k \in 1..last : status(k) \in Through \cup {"NO_RESULT", "SKIPPED"}
  BY DEF SkippedRecords, AcquiredRecords
<1>3. Aggregate(m, s) =
        CASE found \cap {"FAILED", "INTERRUPTED_RETRYABLE"} # {} -> "FAILED"
          [] found = {"SUCCEEDED"} -> "SUCCEEDED"
          [] /\ found \cap {"FAILED", "INTERRUPTED_RETRYABLE"} = {}
             /\ found \cap {"SUCCEEDED", "PARTIAL_SUCCESS"} # {}
             /\ found # {"SUCCEEDED"} -> "PARTIAL_SUCCESS"
          [] found # {} /\ found \subseteq {"NO_RESULT", "SKIPPED"} -> "NO_RESULT"
          [] OTHER -> m.stages[s].status
  BY DEF Aggregate
<1> HIDE DEF status, last
<1>4. found \subseteq Through \cup {"NO_RESULT", "SKIPPED"} /\ found # {}
  BY <1>1, <1>2
<1>5. found \cap {"FAILED", "INTERRUPTED_RETRYABLE"} = {}
  BY <1>4 DEF Through
<1>6. through = {} <=> found \cap Through = {}
  OBVIOUS
<1>7. clean = 1..last <=> found = {"SUCCEEDED"}
  BY <1>1
<1>8. Through = {"SUCCEEDED", "PARTIAL_SUCCESS"}
  BY DEF Through
<1> HIDE DEF found, through, clean
<1>9. CASE through = {}
  <2>1. found \subseteq {"NO_RESULT", "SKIPPED"} /\ found # {"SUCCEEDED"}
    BY <1>4, <1>6, <1>9, <1>8
  <2>2. Aggregate(m, s) = "NO_RESULT"
    BY <1>3, <1>4, <1>5, <1>6, <1>8, <1>9, <2>1
  <2> QED
    BY <1>9, <2>2 DEF through, last, status
<1>10. CASE through # {} /\ clean = 1..last
  <2>1. found = {"SUCCEEDED"}
    BY <1>7, <1>10
  <2>2. Aggregate(m, s) = "SUCCEEDED"
    BY <1>3, <1>5, <2>1
  <2> QED
    BY <1>10, <2>2 DEF through, clean, last, status
<1>11. CASE through # {} /\ clean # 1..last
  <2>1. found # {"SUCCEEDED"} /\ found \cap Through # {}
    BY <1>6, <1>7, <1>11
  <2>2. ~(found \subseteq {"NO_RESULT", "SKIPPED"})
    BY <2>1, <1>8
  <2>3. Aggregate(m, s) = "PARTIAL_SUCCESS"
    BY <1>3, <1>5, <1>8, <2>1, <2>2
  <2> QED
    BY <1>11, <2>3 DEF through, clean, last, status
<1> QED
  BY <1>9, <1>10, <1>11

\* A batch whose items are all settled ends with a true report.
LEMMA FinishBatchHonest ==
  ASSUME NEW m \in Manifest, Batch(m), Bounded(m), ~m.authorized,
         \A k \in Ranks : k <= m.requested => Settled(m.items[k]),
         \A k \in Ranks : /\ m.items[k].status = "SKIPPED" => SkippedRecords(m.items[k])
                          /\ m.items[k].status = "ACQUIRED" => AcquiredRecords(m.items[k])
  PROVE  LET n == FinishBatch(m) IN
         /\ Honest(n) /\ ~n.authorized
         /\ n.schema = m.schema /\ n.items = m.items /\ n.requested = m.requested /\ n.rank = 0
         /\ n.state = IF Gained(m) = {} THEN "NO_ACQUISITION_AVAILABLE" ELSE "COMPLETED"
<1> DEFINE a == RefreshSummary(m)
           full == a.acquired = Target /\ a.skipped = 0 /\ a.requested >= Target
           state == IF a.acquired = 0 THEN "NO_ACQUISITION_AVAILABLE" ELSE "COMPLETED"
           result == CASE a.acquired = 0 -> "flow_no_acquisition_available"
                       [] a.acquired # 0 /\ full -> "flow_completed"
                       [] OTHER -> "flow_completed_with_skips"
           b == [a EXCEPT !.state = state, !.result = result, !.stage = "history",
                          !.rank = 0, !.attention = {}]
           n == FinishBatch(m)
<1>1. /\ a \in Manifest /\ a.schema = m.schema /\ a.requested = m.requested
      /\ a.items = m.items /\ a.stages = m.stages /\ a.authorized = m.authorized
  BY RefreshSummaryKeeps DEF SamePlace, SameHead
<1>2. a.acquired = Count(m, "ACQUIRED") /\ a.skipped = Count(m, "SKIPPED")
  BY CountType DEF RefreshSummary, Manifest
<1>3. /\ a.acquired = 0 <=> Gained(m) = {}
      /\ full <=> Gained(m) = Ranks
  BY <1>1, <1>2, GainedCount DEF Manifest
<1>4. n = RefreshAggregates(b)
  BY DEF FinishBatch
<1>5. state \in States /\ result \in Results
  BY DEF States, TerminalStates, Results
<1>6. state = IF Gained(m) = {} THEN "NO_ACQUISITION_AVAILABLE" ELSE "COMPLETED"
  BY <1>3
<1>7. result = IF Gained(m) = {} THEN "flow_no_acquisition_available"
               ELSE IF Gained(m) = Ranks THEN "flow_completed" ELSE "flow_completed_with_skips"
  BY <1>3
<1> HIDE DEF a, state, result
<1>8. /\ b \in Manifest /\ b.schema = a.schema /\ b.requested = a.requested
      /\ b.items = a.items /\ b.stages = a.stages /\ b.acquired = a.acquired
      /\ b.skipped = a.skipped /\ b.authorized = a.authorized
      /\ b.state = state /\ b.stage = "history" /\ b.rank = 0 /\ b.result = result
      /\ b.attention = {}
  <2>1. 0 \in 0..Target /\ "history" \in Stages /\ {} \in SUBSET AttentionFlags
    BY BoundsAssumption DEF Stages, ItemStages
  <2> QED
    BY <1>1, <1>5, <2>1 DEF Manifest
<1> HIDE DEF b, n
<1>9. /\ n \in Manifest /\ n.schema = b.schema /\ n.rank = 0 /\ n.requested = b.requested
      /\ n.items = b.items /\ n.state = b.state /\ n.stage = b.stage /\ n.result = b.result
      /\ n.attention = b.attention /\ n.authorized = b.authorized
  BY <1>4, <1>8, RefreshAggregatesKeeps DEF SamePlace, SameHead
<1>10. n.acquired = b.acquired /\ n.skipped = b.skipped
  BY <1>4, <1>8 DEF RefreshAggregates, Manifest
<1>11. \A s \in ItemStages : n.stages[s].status = Aggregate(b, s)
  <2>1. \A s \in ItemStages : s \in Stages /\ b.stages[s] \in StageRecord
    BY <1>8 DEF Manifest, Stages
  <2>2. n.stages = [s \in Stages |-> IF s \in ItemStages
                        THEN [b.stages[s] EXCEPT !.status = Aggregate(b, s)] ELSE b.stages[s]]
    BY <1>4, <1>8 DEF RefreshAggregates, Manifest
  <2> QED
    BY <2>1, <2>2 DEF StageRecord
<1>12. Gained(n) = Gained(m)
  BY <1>1, <1>8, <1>9 DEF Gained
<1>13. HandedOver(n) /\ Granted(n) /\ Flagged(n)
  BY <1>1, <1>6, <1>8, <1>9 DEF HandedOver, Granted, Flagged, OpenStates
<1>14. ItemsTrue(n)
  <2> SUFFICES ASSUME NEW k \in Ranks
               PROVE  m.items[k].status # "ACQUIRED_CLEANUP_REQUIRED"
    BY <1>1, <1>8, <1>9 DEF ItemsTrue
  <2>1. m.requested \in Nat /\ k \in Nat
    BY BoundsAssumption DEF Manifest, Ranks
  <2>2. Settled(m.items[k]) \/ m.items[k] = FreshItem
    BY <2>1 DEF Bounded
  <2> QED
    BY <2>2 DEF Settled, FreshItem
<1>15. Counted(n)
  BY <1>1, <1>2, <1>8, <1>9, <1>10 DEF Counted, Count
<1>16. Reported(n)
  <2>1. Batch(n)
    BY <1>1, <1>8, <1>9 DEF Batch
  <2> QED
    BY <1>6, <1>7, <1>8, <1>9, <1>12, <2>1 DEF Reported
<1>17. SettledAggregates(n)
  <2>1. b.requested = m.requested /\ b.items = m.items /\ n.items = m.items
        /\ n.requested = m.requested
    BY <1>1, <1>8, <1>9
  <2>2. ASSUME m.requested > 0, NEW s \in ItemStages
        PROVE  LET through == {k \in 1..n.requested : n.items[k].stages[s].status \in Through}
                   clean == {k \in 1..n.requested : n.items[k].stages[s].status = "SUCCEEDED"}
               IN  n.stages[s].status = IF through = {} THEN "NO_RESULT"
                                        ELSE IF clean = 1..n.requested THEN "SUCCEEDED"
                                        ELSE "PARTIAL_SUCCESS"
    <3>1. \A k \in 1..b.requested : k \in Ranks /\ k <= m.requested
      BY <2>1, BoundsAssumption DEF Manifest, Ranks
    <3>2. \A k \in 1..b.requested : SkippedRecords(b.items[k]) \/ AcquiredRecords(b.items[k])
      BY <2>1, <3>1 DEF Settled
    <3>3. LET through == {k \in 1..b.requested : b.items[k].stages[s].status \in Through}
              clean == {k \in 1..b.requested : b.items[k].stages[s].status = "SUCCEEDED"}
          IN  Aggregate(b, s) = IF through = {} THEN "NO_RESULT"
                                ELSE IF clean = 1..b.requested THEN "SUCCEEDED"
                                ELSE "PARTIAL_SUCCESS"
      BY <1>8, <2>1, <2>2, <3>2, AggregateSettles
    <3> QED
      BY <1>11, <2>1, <3>3
  <2> QED
    BY <2>1, <2>2 DEF SettledAggregates
<1> QED
  BY <1>1, <1>6, <1>8, <1>9, <1>13, <1>14, <1>15, <1>16, <1>17 DEF Honest, n
-----------------------------------------------------------------------------
(* From one item to the next *)

\* b is m after its current item was settled, with the records to show for it.
SettlesTruly(m, b) ==
    LET item == b.items[m.rank]
    IN  /\ Settles(m, b) /\ ~b.authorized
        /\ \A s \in SharedStages : b.stages[s] = m.stages[s]
        /\ \A s \in ItemStages : item.stages[s].artifact = m.items[m.rank].stages[s].artifact
        /\ item.status = "SKIPPED" => SkippedRecords(item)
        /\ item.status = "ACQUIRED" => AcquiredRecords(item)
        /\ m.stage \in {"transfer", "history"} => item.status = "ACQUIRED"

\* n is m with its current item settled, at the next item or at its end.
Closes(m, n) ==
    /\ n.schema = m.schema /\ n.requested = m.requested
    /\ \A k \in Ranks : k # m.rank => n.items[k] = m.items[k]
    /\ Settled(n.items[m.rank])
    /\ IF m.rank < m.requested
       THEN n.state = "RUNNING" /\ n.rank = m.rank + 1
       ELSE /\ n.rank = 0
            /\ n.state = IF Gained(n) = {} THEN "NO_ACQUISITION_AVAILABLE" ELSE "COMPLETED"

\* A settled item is never lost, so settling one loses nothing reached.
LEMMA SettleCarries ==
  ASSUME NEW m, Sound(m), Batch(m), m.rank \in Ranks, m.state \in OpenStates,
         NEW b, SettlesTruly(m, b), NEW n, n.schema = b.schema, n.items = b.items
  PROVE  Carries(m, n)
<1>1. /\ Batch(n) /\ RanksOf(n) = Ranks /\ RanksOf(m) = Ranks
      /\ \A k \in Ranks : k # m.rank => n.items[k] = m.items[k]
      /\ \A s \in ItemStages : n.items[m.rank].stages[s].artifact
                                 = m.items[m.rank].stages[s].artifact
  BY DEF SettlesTruly, Settles, SamePlace, Batch, RanksOf
<1>2. \A k \in 0..Target : Beyond(m, k) => Beyond(n, k)
  <2> SUFFICES ASSUME NEW k \in 0..Target, Beyond(m, k) PROVE Beyond(n, k)
    OBVIOUS
  <2>1. CASE k \in Ranks /\ m.items[k].status = "ACQUIRED"
    <3>1. k # m.rank
      BY <2>1 DEF Sound, Ordered, Settled
    <3> QED
      BY <1>1, <2>1, <3>1 DEF Beyond
  <2>2. CASE m.stage \in {"transfer", "history"} /\ k = m.rank
    BY <2>2 DEF Beyond, SettlesTruly
  <2> QED
    BY <2>1, <2>2 DEF Beyond, OpenStates
<1>3. \A k \in Ranks, t \in {"transfer", "history"} :
         RecordAt(n, k, t).artifact = RecordAt(m, k, t).artifact
  BY <1>1 DEF RecordAt, ItemStages
<1> QED
  BY <1>1, <1>2, <1>3 DEF Carries, MovedBy, ListedBy

\* With its current item truly settled, a batch goes on or ends honestly.
LEMMA NextItemHonest ==
  ASSUME NEW m, Sound(m), Honest(m), Batch(m), m.rank \in Ranks, m.state \in OpenStates,
         m.stage \in ItemStages, NEW b, SettlesTruly(m, b)
  PROVE  LET n == AdvanceToNextItem(b) IN
         Honest(n) /\ Carries(m, n) /\ ~n.authorized /\ Closes(m, n)
<1> DEFINE n == AdvanceToNextItem(b)
<1>1. /\ b \in Manifest /\ Batch(b) /\ b.rank = m.rank /\ b.schema = m.schema
      /\ b.requested = m.requested /\ Settled(b.items[m.rank]) /\ ~b.authorized
      /\ \A k \in Ranks : k # m.rank => b.items[k] = m.items[k]
      /\ \A s \in SharedStages : b.stages[s] = m.stages[s]
  BY DEF SettlesTruly, Settles, SamePlace, Batch
<1>2. m.rank \in 1..Target /\ m.requested \in 0..Target /\ Target \in Nat
  BY BoundsAssumption DEF Sound, Manifest, Ranks
<1>3. m.rank <= m.requested
  BY DEF Sound, Ordered
<1>4. \A k \in Ranks :
         /\ b.items[k].status = "SKIPPED" => SkippedRecords(b.items[k])
         /\ b.items[k].status = "ACQUIRED" => AcquiredRecords(b.items[k])
         /\ b.items[k].status # "ACQUIRED_CLEANUP_REQUIRED"
  <2> SUFFICES ASSUME NEW k \in Ranks
               PROVE  /\ b.items[k].status = "SKIPPED" => SkippedRecords(b.items[k])
                      /\ b.items[k].status = "ACQUIRED" => AcquiredRecords(b.items[k])
                      /\ b.items[k].status # "ACQUIRED_CLEANUP_REQUIRED"
    OBVIOUS
  <2>1. CASE k = m.rank
    BY <1>1, <2>1 DEF SettlesTruly, Settled
  <2>2. CASE k # m.rank
    BY <1>1, <2>2 DEF Honest, ItemsTrue
  <2> QED
    BY <2>1, <2>2
<1>5. CASE b.rank \in 1..(b.requested - 1)
  <2> DEFINE c == [[b EXCEPT !.state = "RUNNING", !.result = "flow_running",
                             !.stage = "probe", !.attention = {}] EXCEPT !.rank = b.rank + 1]
  <2>1. n = RefreshSummary(c)
    BY <1>5 DEF AdvanceToNextItem, Proceed
  <2>2. b.rank + 1 \in 0..Target /\ b.rank < b.requested
    BY <1>1, <1>2, <1>5
  <2>3. "RUNNING" \in States /\ "flow_running" \in Results /\ "probe" \in Stages
    BY DEF States, Results, Stages, ItemStages
  <2>4. /\ c \in Manifest /\ c.schema = b.schema /\ c.rank = b.rank + 1
        /\ c.requested = b.requested /\ c.items = b.items /\ c.stages = b.stages
        /\ c.state = "RUNNING" /\ c.stage = "probe" /\ c.result = "flow_running"
        /\ c.attention = {} /\ c.authorized = b.authorized
    BY <1>1, <2>2, <2>3 DEF Manifest
  <2> HIDE DEF c, n
  <2>5. /\ n \in Manifest /\ n.schema = b.schema /\ n.rank = b.rank + 1
        /\ n.requested = b.requested /\ n.items = b.items /\ n.stages = b.stages
        /\ n.state = "RUNNING" /\ n.stage = "probe" /\ n.result = "flow_running"
        /\ n.attention = {} /\ ~n.authorized
    BY <1>1, <2>1, <2>4, RefreshSummaryKeeps DEF SamePlace, SameHead
  <2>6. n.acquired = Count(n, "ACQUIRED") /\ n.skipped = Count(n, "SKIPPED")
    <3>1. n.acquired = Count(c, "ACQUIRED") /\ n.skipped = Count(c, "SKIPPED")
      BY <2>1, <2>4, CountType DEF RefreshSummary, Manifest
    <3> QED
      BY <2>4, <2>5, <3>1 DEF Count
  <2>7. HandedOver(n)
    <3>1. ASSUME NEW s \in SharedStages
          PROVE  RecordOf(n, s) = RecordOf(m, s) /\ s \in Passed[m.stage]
      BY <1>1, <2>5, <3>1 DEF RecordOf, PerItem, SharedStages, ItemStages, Passed
    <3>2. Passed[n.stage] = SharedStages
      BY <2>5 DEF Passed
    <3> QED
      BY <3>1, <3>2 DEF HandedOver, Honest
  <2>8. Granted(n) /\ Flagged(n) /\ Reported(n) /\ SettledAggregates(n)
    BY <2>5 DEF Granted, Flagged, Reported, SettledAggregates
  <2>9. ItemsTrue(n)
    BY <1>4, <2>5 DEF ItemsTrue
  <2>10. Carries(m, n)
    BY <2>5, SettleCarries
  <2>11. Closes(m, n)
    BY <1>1, <1>2, <2>2, <2>5 DEF Closes
  <2> QED
    BY <2>5, <2>6, <2>7, <2>8, <2>9, <2>10, <2>11 DEF Honest, Counted, n
<1>6. CASE b.rank \notin 1..(b.requested - 1)
  <2>1. m.rank = m.requested
    BY <1>1, <1>2, <1>3, <1>6
  <2>2. Bounded(b) /\ \A k \in Ranks : k <= b.requested => Settled(b.items[k])
    BY <1>1, <1>2, <2>1 DEF Sound, Ordered, Ranks, Bounded
  <2>3. n = FinishBatch(b)
    BY <1>6 DEF AdvanceToNextItem
  <2> HIDE DEF n
  <2>4. /\ Honest(n) /\ ~n.authorized
        /\ n.schema = b.schema /\ n.items = b.items /\ n.requested = b.requested /\ n.rank = 0
        /\ n.state = IF Gained(b) = {} THEN "NO_ACQUISITION_AVAILABLE" ELSE "COMPLETED"
    BY <1>1, <1>4, <2>2, <2>3, FinishBatchHonest
  <2>5. Carries(m, n)
    BY <2>4, SettleCarries
  <2>6. Gained(n) = Gained(b)
    BY <2>4 DEF Gained
  <2>7. Closes(m, n)
    BY <1>1, <1>2, <2>1, <2>4, <2>6 DEF Closes
  <2> QED
    BY <2>4, <2>5, <2>7 DEF n
<1> QED
  BY <1>5, <1>6

\* A skipped item has the records of a skip.
LEMMA SkipTrue ==
  ASSUME NEW m, Sound(m), m.rank \in Ranks, m.stage = "probe", ~m.authorized
  PROVE  SettlesTruly(m, SkipItem(m))
<1> DEFINE old == m.items[m.rank]
           stages == [s \in ItemStages |->
                         [old.stages[s] EXCEPT
                             !.status = IF s = "probe" THEN "NO_RESULT" ELSE "SKIPPED"]]
           item == [old EXCEPT !.status = "SKIPPED", !.stages = stages]
           n == SkipItem(m)
<1>1. m \in Manifest /\ old \in Item
  BY DEF Sound, Manifest
<1>2. Settles(m, n)
  BY SoundReworks, SkipSettles
<1> HIDE DEF old
<1>3. \A s \in ItemStages : old.stages[s] \in StageRecord
  BY <1>1 DEF Item
<1>4. \A s \in ItemStages : /\ stages[s].artifact = old.stages[s].artifact
                            /\ stages[s].status = IF s = "probe" THEN "NO_RESULT" ELSE "SKIPPED"
  BY <1>3 DEF StageRecord
<1> HIDE DEF stages
<1>5. item.stages = stages /\ item.status = "SKIPPED"
  BY <1>1 DEF Item
<1>6. n = [m EXCEPT !.items = [m.items EXCEPT ![m.rank] = item]]
  BY <1>1 DEF SkipItem, Manifest, Item, item, old, stages
<1> HIDE DEF item, n
<1>7. n.items[m.rank] = item /\ n.stages = m.stages /\ ~n.authorized
  BY <1>1, <1>6 DEF Manifest
<1>8. SkippedRecords(item)
  BY <1>4, <1>5 DEF SkippedRecords
<1> QED
  BY <1>2, <1>4, <1>5, <1>7, <1>8 DEF SettlesTruly, n, old

\* An item is acquired with its records as they are.
LEMMA AcquireTrue ==
  ASSUME NEW m, NEW b, Reworks(m, b), m.rank \in Ranks, ~b.authorized,
         AcquiredRecords(b.items[m.rank]),
         \A s \in SharedStages : b.stages[s] = m.stages[s],
         \A s \in ItemStages : b.items[m.rank].stages[s].artifact
                                 = m.items[m.rank].stages[s].artifact
  PROVE  SettlesTruly(m, AcquireItem(b))
<1> DEFINE old == b.items[m.rank]
           item == [old EXCEPT !.status = "ACQUIRED", !.outcome = "none"]
           n == AcquireItem(b)
<1>1. b \in Manifest /\ b.rank = m.rank /\ old \in Item
  BY DEF Reworks, SamePlace, Manifest
<1>2. Settles(m, n)
  BY AcquireSettles
<1>3. item.stages = old.stages /\ item.status = "ACQUIRED"
  BY <1>1 DEF Item
<1>4. n = [b EXCEPT !.items = [b.items EXCEPT ![m.rank] = item]]
  BY ZenonT(40), <1>1 DEF AcquireItem, Manifest, Item
<1> HIDE DEF item, n
<1>5. n.items[m.rank] = item /\ n.stages = b.stages /\ ~n.authorized
  BY <1>1, <1>4 DEF Manifest
<1>6. AcquiredRecords(item)
  BY <1>3 DEF AcquiredRecords
<1> QED
  BY <1>2, <1>3, <1>5, <1>6 DEF SettlesTruly, n
-----------------------------------------------------------------------------
(* Beginning and ending a run *)

\* A run that has found no movie has no current one and no settled one.
LEMMA NothingFound ==
  ASSUME NEW m, Sound(m), m.requested = 0
  PROVE  m.rank = 0 /\ Bounded(m) /\ (\A k \in Ranks : m.items[k] = FreshItem) /\ Gained(m) = {}
<1>1. m.rank = 0 /\ \A k \in Ranks : m.items[k] = FreshItem
  BY BoundsAssumption DEF Sound, Ordered, Manifest, Ranks
<1>2. Bounded(m)
  BY <1>1 DEF Bounded
<1>3. FreshItem.status # "ACQUIRED"
  BY DEF FreshItem
<1> QED
  BY <1>1, <1>2, <1>3 DEF Gained

\* The manifest of a run that has just begun is honest, and so is none.
LEMMA NewHonest ==
  ASSUME NEW r \in Runs, NEW schema \in {1, 2}
  PROVE  LET m == NewManifest(r, schema) IN
         /\ Honest(m) /\ Honest(Absent(r)) /\ ~m.authorized
         /\ MovedBy(m) = {} /\ ListedBy(m) = {}
         /\ MovedBy(Absent(r)) = {} /\ ListedBy(Absent(r)) = {}
<1> DEFINE Blank(m) == /\ m.requested = 0 /\ m.acquired = 0 /\ m.skipped = 0
                       /\ m.attention = {} /\ ~m.authorized /\ m.result = "flow_running"
                       /\ m.state \in {"RUNNING", "ABSENT"} /\ m.stage = "recommendations"
                       /\ \A k \in Ranks : m.items[k] = FreshItem
                       /\ \A s \in Stages : m.stages[s] = Pending
<1>1. ASSUME NEW m, Blank(m)
      PROVE  Honest(m) /\ MovedBy(m) = {} /\ ListedBy(m) = {}
  <2>1. HandedOver(m) /\ Granted(m) /\ Flagged(m) /\ SettledAggregates(m)
    BY <1>1 DEF HandedOver, Granted, Flagged, SettledAggregates, Passed, OpenStates
  <2>2. ItemsTrue(m) /\ Reported(m)
    BY <1>1 DEF ItemsTrue, Reported, FreshItem
  <2>3. Counted(m)
    <3>1. \A status : {k \in 1..m.requested : m.items[k].status = status} = {}
      BY <1>1
    <3> QED
      BY <1>1, <3>1, FS_EmptySet DEF Counted, Count
  <2>4. MovedBy(m) = {} /\ ListedBy(m) = {}
    BY <1>1 DEF MovedBy, ListedBy, RecordAt, RanksOf, Moved, Listed, FreshItem, Pending, Stages,
               ItemStages
  <2> QED
    BY <2>1, <2>2, <2>3, <2>4 DEF Honest
<1>2. Blank(NewManifest(r, schema)) /\ Blank(Absent(r))
  BY DEF NewManifest, Absent
<1> QED
  BY <1>1, <1>2

\* n is m after its search listed at least one movie.
Opens(m, n) ==
    /\ m.requested = 0 /\ n.requested \in 1..Target /\ n.rank = 1
    /\ n.state = "RUNNING"
    /\ \A k \in Ranks : n.items[k] = FreshItem

\* n is m at the end of a run that had no movie to settle.
Ends(m, n) ==
    /\ m.requested = 0 /\ n.requested = 0
    /\ n.state \in {"COMPLETED", "NO_ACTION_NEEDED", "NO_ACQUISITION_AVAILABLE"}

\* A run without movies of a batch ends honestly.
LEMMA FinishHonest ==
  ASSUME NEW m, Sound(m), Honest(m), m.state \in OpenStates, m.requested = 0,
         m.stage # "download", NEW state, NEW result \in Results,
         \/ /\ state = "NO_ACTION_NEEDED" /\ result = "flow_no_action_needed"
            /\ m.stage = "recommendations"
         \/ /\ state = "NO_ACQUISITION_AVAILABLE" /\ result = "flow_no_acquisition_available"
            /\ m.stage = "probe"
         \/ /\ state = "COMPLETED" /\ result = "flow_completed" /\ ~Batch(m)
            /\ m.stage = "history" /\ m.stages["history"].artifact \in Listed
  PROVE  LET n == Finish(m, state, result) IN
         Honest(n) /\ Carries(m, n) /\ ~n.authorized /\ Ends(m, n)
<1> DEFINE record == [m.stages[m.stage] EXCEPT
                         !.status = IF state = "NO_ACQUISITION_AVAILABLE" THEN "NO_RESULT"
                                    ELSE "SUCCEEDED"]
           stages == [m.stages EXCEPT ![m.stage] = record]
           n == Finish(m, state, result)
<1>1. m \in Manifest /\ m.stage \in Stages /\ m.stages[m.stage] \in StageRecord
  BY DEF Sound, Manifest
<1>2. record.artifact = m.stages[m.stage].artifact
  BY <1>1 DEF StageRecord
<1>3. \A t \in Stages : stages[t].artifact = m.stages[t].artifact
  BY <1>1, <1>2 DEF Manifest
<1>4. n = [m EXCEPT !.stages = stages, !.state = state, !.result = result, !.attention = {}]
  BY DEF Finish
<1> HIDE DEF stages, n
<1>5. /\ n.stages = stages /\ n.items = m.items /\ n.requested = 0 /\ n.schema = m.schema
      /\ n.rank = m.rank /\ n.stage = m.stage /\ n.state = state /\ n.result = result
      /\ n.attention = {} /\ n.authorized = m.authorized
      /\ n.acquired = m.acquired /\ n.skipped = m.skipped
  BY <1>1, <1>4 DEF Manifest
<1>6. ~n.authorized
  BY <1>5 DEF Honest, Granted
<1>7. m.rank = 0 /\ Gained(m) = {} /\ Gained(n) = {} /\ \A k \in Ranks : n.items[k] = FreshItem
  BY <1>5, NothingFound DEF Gained
<1>8. HandedOver(n) /\ Granted(n) /\ Flagged(n) /\ SettledAggregates(n)
  BY <1>5, <1>6 DEF HandedOver, Granted, Flagged, SettledAggregates, OpenStates
<1>9. ItemsTrue(n)
  BY <1>7 DEF ItemsTrue, FreshItem
<1>10. Counted(n)
  BY <1>5 DEF Honest, Counted, Count
<1>11. Reported(n)
  BY <1>3, <1>5, <1>7 DEF Reported, Batch, Stages, ItemStages
<1>12. Carries(m, n)
  <2>1. \A k \in 0..Target : Beyond(m, k) => Beyond(n, k)
    BY <1>5, <1>7 DEF Beyond, OpenStates, Gained, Batch
  <2>2. \A k \in RanksOf(m), t \in {"transfer", "history"} :
           RecordAt(n, k, t).artifact = RecordAt(m, k, t).artifact
    BY <1>3, <1>5 DEF RecordAt, Batch, Stages, ItemStages
  <2>3. RanksOf(n) = RanksOf(m)
    BY <1>5 DEF RanksOf, Batch
  <2> QED
    BY <2>1, <2>2, <2>3 DEF Carries, MovedBy, ListedBy
<1>13. Ends(m, n)
  BY <1>5 DEF Ends
<1> QED
  BY <1>6, <1>8, <1>9, <1>10, <1>11, <1>12, <1>13 DEF Honest, n

\* A search that lists movies opens the first one, one that lists none ends.
LEMMA InitializeHonest ==
  ASSUME NEW m, Sound(m), Honest(m), m.state \in OpenStates, Batch(m), m.stage = "search",
         m.stages["search"].artifact = "found"
  PROVE  LET n == InitializeItems(m) IN
         Honest(n) /\ Carries(m, n) /\ ~n.authorized /\ (Opens(m, n) \/ Ends(m, n))
<1> DEFINE a == WithStatus(m, "search", "SUCCEEDED")
           fresh == [k \in Ranks |-> FreshItem]
           b == [a EXCEPT !.requested = m.found, !.items = fresh]
           c == RefreshSummary(b)
           n == InitializeItems(m)
<1>1. m \in Manifest /\ m.requested = 0 /\ m.found \in 0..Target
  BY DEF Sound, Placed, SharedStages, Manifest
<1>2. At(m, "search") /\ "SUCCEEDED" \in StageStatus
  BY <1>1 DEF At, PerItem, ItemStages, Stages, SharedStages, StageStatus
<1>3. a \in Manifest /\ SamePlace(m, a) /\ SameHead(m, a)
  BY <1>1, <1>2, WithStatusKeeps
<1>4. /\ SameRest(m, a, "search") /\ RecordOf(a, "search").status = "SUCCEEDED"
      /\ RecordOf(a, "search").artifact = RecordOf(m, "search").artifact
  BY <1>1, <1>2, StatusRest
<1>5. Batch(a) /\ a.schema = m.schema /\ ~a.authorized
  BY <1>3 DEF SamePlace, SameHead, Batch, Honest, Granted
<1>6. /\ a.stages["search"].artifact = "found" /\ a.stages["search"].status = "SUCCEEDED"
      /\ a.stages["recommendations"] = m.stages["recommendations"]
  BY <1>4 DEF SameRest, Near, RecordOf, PerItem, ItemStages, Stages, SharedStages
<1>7. fresh \in [Ranks -> Item]
  BY FreshItemType
<1>8. \A k \in Ranks : fresh[k] = FreshItem
  OBVIOUS
<1> HIDE DEF a, fresh
<1>9. /\ b \in Manifest /\ b.schema = m.schema /\ b.rank = 0 /\ b.requested = m.found
      /\ b.items = fresh /\ b.stages = a.stages /\ b.authorized = a.authorized
  <2>1. a.rank = 0
    BY <1>1, <1>3, NothingFound DEF SamePlace
  <2> QED
    BY <1>1, <1>3, <1>5, <1>7, <2>1 DEF Manifest
<1> HIDE DEF b
<1>10. /\ c \in Manifest /\ c.schema = m.schema /\ c.rank = 0 /\ c.requested = m.found
       /\ c.items = fresh /\ c.stages = a.stages /\ ~c.authorized
  BY <1>5, <1>9, RefreshSummaryKeeps DEF SamePlace, SameHead
<1>11. c.acquired = Count(b, "ACQUIRED") /\ c.skipped = Count(b, "SKIPPED")
  BY <1>9, CountType DEF RefreshSummary, Manifest
<1> HIDE DEF c
<1>12. Batch(c) /\ Bounded(c)
  BY <1>8, <1>10 DEF Batch, Bounded
<1>13. n = IF m.found = 0 THEN FinishBatch(c)
           ELSE [[c EXCEPT !.state = "RUNNING", !.result = "flow_running", !.stage = "probe",
                           !.attention = {}] EXCEPT !.rank = 1]
  BY DEF InitializeItems, Proceed, a, b, c, fresh
<1>14. ASSUME n.schema = m.schema, n.items = fresh PROVE Carries(m, n)
  <2>1. \A k \in 0..Target : ~Beyond(m, k)
    <3>1. m.rank = 0 /\ Gained(m) = {}
      BY <1>1, NothingFound
    <3> QED
      BY <3>1 DEF Beyond, OpenStates, Gained
  <2>2. Batch(n) /\ \A k \in Ranks : n.items[k] = FreshItem
    BY <1>8, <1>14 DEF Batch
  <2>3. MovedBy(n) = {} /\ ListedBy(n) = {}
    BY <2>2 DEF MovedBy, ListedBy, RecordAt, RanksOf, Moved, Listed, FreshItem, Pending, ItemStages
  <2> QED
    BY <2>1, <2>3 DEF Carries
<1>15. CASE m.found = 0
  <2>1. \A k \in Ranks : ~ k <= 0 /\ c.items[k].status = "PENDING"
    BY <1>8, <1>10, BoundsAssumption DEF Ranks, FreshItem
  <2>2. n = FinishBatch(c)
    BY <1>13, <1>15
  <2> HIDE DEF n
  <2>3. /\ Honest(n) /\ ~n.authorized /\ n.schema = c.schema /\ n.items = c.items
        /\ n.requested = c.requested
        /\ n.state \in {"NO_ACQUISITION_AVAILABLE", "COMPLETED"}
    BY <1>10, <1>12, <1>15, <2>1, <2>2, FinishBatchHonest
  <2>4. Carries(m, n) /\ Ends(m, n)
    BY <1>1, <1>10, <1>14, <1>15, <2>3 DEF Ends
  <2> QED
    BY <2>3, <2>4 DEF n
<1>16. CASE m.found # 0
  <2>1. 1 \in 0..Target /\ m.found \in 1..Target /\ 1 \in Ranks
    BY <1>1, <1>16, BoundsAssumption DEF Ranks
  <2>2. "RUNNING" \in States /\ "flow_running" \in Results /\ "probe" \in Stages
    BY DEF States, Results, Stages, ItemStages
  <2>3. n = [[c EXCEPT !.state = "RUNNING", !.result = "flow_running", !.stage = "probe",
                           !.attention = {}] EXCEPT !.rank = 1]
    BY <1>13, <1>16
  <2> HIDE DEF n
  <2>4. /\ n.schema = c.schema /\ n.rank = 1 /\ n.requested = m.found /\ n.items = fresh
        /\ n.stages = c.stages /\ n.state = "RUNNING" /\ n.stage = "probe"
        /\ n.result = "flow_running" /\ n.attention = {} /\ ~n.authorized
        /\ n.acquired = c.acquired /\ n.skipped = c.skipped
    BY <1>10, <2>1, <2>2, <2>3 DEF Manifest
  <2>5. HandedOver(n)
    <3>1. Passed["probe"] = SharedStages
      BY DEF Passed
    <3>2. \A s \in SharedStages : RecordOf(n, s) = a.stages[s]
      BY <1>10, <2>4 DEF RecordOf, PerItem, SharedStages, ItemStages
    <3>3. /\ m.stages["recommendations"].artifact \in Handoff["search"]
          /\ m.stages["recommendations"].status \in Through
      BY DEF Honest, HandedOver, Passed, NextStage, RecordOf, PerItem, ItemStages
    <3>4. Handoff["probe"] = {"found"} /\ "SUCCEEDED" \in Through
          /\ NextStage["search"] = "probe" /\ NextStage["recommendations"] = "search"
      BY DEF Handoff, Through, NextStage
    <3> QED
      BY <1>6, <2>4, <3>1, <3>2, <3>3, <3>4 DEF HandedOver, SharedStages
  <2>6. Granted(n) /\ Flagged(n) /\ Reported(n) /\ SettledAggregates(n)
    BY <2>4 DEF Granted, Flagged, Reported, SettledAggregates
  <2>7. ItemsTrue(n)
    BY <1>8, <2>4 DEF ItemsTrue, FreshItem
  <2>8. Counted(n)
    BY <1>9, <1>11, <2>4 DEF Counted, Count
  <2>9. Carries(m, n)
    BY <1>10, <1>14, <2>4
  <2>10. Opens(m, n)
    BY <1>1, <1>8, <2>1, <2>4 DEF Opens
  <2> QED
    BY <2>4, <2>5, <2>6, <2>7, <2>8, <2>9, <2>10 DEF Honest, n
<1> QED
  BY <1>15, <1>16

-----------------------------------------------------------------------------
(* Evaluating a stage *)

\* A movie is recorded, but its removal from the seedbox failed: attention
\* goes back to the transfer and nothing that was reached is lost.
LEMMA CleanupTrue ==
  ASSUME NEW m, Sound(m), Honest(m), m.state \in OpenStates, m.stage = "history",
         NEW b, Reworks(m, b), SameHead(m, b), SameRest(m, b, "history"),
         RecordOf(b, "history").artifact = RecordOf(m, "history").artifact,
         RecordOf(b, "history").artifact \in Listed,
         RecordOf(b, "history").status \in Through
  PROVE  LET n == AttendCleanup(b) IN
         /\ Honest(n) /\ Carries(m, n) /\ Reworks(m, n)
         /\ n.state = "ATTENTION_REQUIRED" /\ ~n.authorized
<1> DEFINE a == WithStatus(b, "transfer", "PARTIAL_SUCCESS")
           c == WithItem(a, "transfer", "ACQUIRED_CLEANUP_REQUIRED", "PARTIAL_SUCCESS")
           flags == IF Batch(c) THEN {"clear_continues_batch"} ELSE {}
           n == AttendCleanup(b)
<1>1. /\ b \in Manifest /\ SamePlace(m, b) /\ m \in Manifest
      /\ Batch(m) => m.rank \in Ranks
  BY DEF Reworks, Sound, Placed, ItemStages
<1>2. At(b, "transfer") /\ "PARTIAL_SUCCESS" \in StageStatus
      /\ "ACQUIRED_CLEANUP_REQUIRED" \in ItemStatus \ {"ACQUIRED", "SKIPPED"}
  BY <1>1 DEF At, PerItem, Batch, SamePlace, Stages, ItemStages, SharedStages, StageStatus,
             ItemStatus
<1>3. Reworks(m, a) /\ SameHead(b, a)
  BY <1>2, StatusReworks
<1>4. /\ SameRest(b, a, "transfer") /\ RecordOf(a, "transfer").status = "PARTIAL_SUCCESS"
      /\ RecordOf(a, "transfer").artifact = RecordOf(b, "transfer").artifact
  BY <1>1, <1>2, StatusRest
<1>5. At(a, "transfer") /\ a \in Manifest /\ SamePlace(m, a)
  BY <1>1, <1>2, <1>3 DEF Reworks, At, SamePlace, PerItem, Batch
<1> HIDE DEF a
<1>6. /\ Reworks(m, c) /\ SameHead(a, c)
      /\ PerItem(a, "transfer") => c.items[a.rank].status = "ACQUIRED_CLEANUP_REQUIRED"
  BY <1>2, <1>3, <1>5, ItemReworks, WithItemKeeps
<1>7. SameRest(a, c, "transfer") /\ RecordOf(c, "transfer") = RecordOf(a, "transfer")
  BY <1>2, <1>5, ItemRest
<1>8. n = [c EXCEPT !.state = "ATTENTION_REQUIRED", !.result = "flow_attention_required",
                    !.stage = "transfer", !.attention = flags]
  <2>1. Batch(b) <=> Batch(c)
    BY <1>1, <1>6 DEF Reworks, SamePlace, Batch
  <2> QED
    BY <2>1 DEF AttendCleanup, a
<1>9. flags \in SUBSET AttentionFlags /\ "transfer" \in Stages
  BY DEF AttentionFlags, Stages, ItemStages
<1>10. ~m.authorized
  BY DEF Honest, Granted
<1> HIDE DEF c, n, flags
<1>11. /\ n \in Manifest /\ n.run = c.run /\ n.schema = c.schema /\ n.rank = c.rank
       /\ n.requested = c.requested /\ n.items = c.items /\ n.stages = c.stages
       /\ n.acquired = c.acquired /\ n.skipped = c.skipped
       /\ n.state = "ATTENTION_REQUIRED" /\ n.result = "flow_attention_required"
       /\ n.stage = "transfer" /\ n.attention = flags /\ ~n.authorized
  BY <1>3, <1>6, <1>8, <1>9, <1>10 DEF Reworks, Manifest, States, Results, SameHead
<1>12. Reworks(m, n) /\ SamePlace(m, n) /\ SamePlace(m, c)
  BY <1>6, <1>11, HeadReworks DEF Reworks
<1>13. \A t \in Stages : RecordOf(n, t) = RecordOf(c, t)
  BY <1>11, HeadRest
<1>14. /\ RecordOf(n, "transfer").status = "PARTIAL_SUCCESS"
       /\ RecordOf(n, "transfer").artifact = RecordOf(b, "transfer").artifact
  BY <1>4, <1>7, <1>9, <1>13
<1>15. \A t \in Stages \ {"transfer"} : Near(m, t) => RecordOf(n, t) = RecordOf(b, t)
  <2>1. \A t \in Stages : Near(m, t) => Near(b, t) /\ Near(a, t)
    BY <1>1, <1>5 DEF Near, SamePlace, PerItem, Batch
  <2> QED
    BY <1>4, <1>7, <1>13, <2>1 DEF SameRest
<1>16. \A t \in Stages \ {"history", "transfer"} : Near(m, t) => RecordOf(n, t) = RecordOf(m, t)
  BY <1>15 DEF SameRest
<1>17. \A t \in Stages : Near(m, t) => RecordOf(n, t).artifact = RecordOf(m, t).artifact
  BY <1>9, <1>14, <1>15, <1>16 DEF SameRest
<1>18. n.acquired = m.acquired /\ n.skipped = m.skipped
  BY <1>4, <1>7, <1>11 DEF SameRest
<1>19. "history" \in Stages /\ Near(m, "history")
  BY <1>1 DEF Near, PerItem, Stages, ItemStages
<1>20. HandedOver(n)
  <2>1. Passed["transfer"] \subseteq Passed["history"] \ {"history", "transfer"}
    BY DEF Passed, SharedStages
  <2>2. \A s \in Passed["transfer"] : RecordOf(n, s) = RecordOf(m, s)
    BY <1>16, <2>1, PassedNear
  <2> QED
    BY <1>11, <2>1, <2>2 DEF Honest, HandedOver
<1>21. Batch(m) => /\ n.items[m.rank].status = "ACQUIRED_CLEANUP_REQUIRED"
                   /\ AcquiredRecords(n.items[m.rank])
  <2> SUFFICES ASSUME Batch(m)
               PROVE  /\ n.items[m.rank].status = "ACQUIRED_CLEANUP_REQUIRED"
                      /\ AcquiredRecords(n.items[m.rank])
    OBVIOUS
  <2>1. n.items[m.rank].status = "ACQUIRED_CLEANUP_REQUIRED"
    BY <1>1, <1>5, <1>6, <1>11 DEF PerItem, SamePlace, Batch, ItemStages
  <2>2. \A s \in ItemStages : RecordOf(n, s) = n.items[m.rank].stages[s]
    BY <1>12 DEF RecordOf, PerItem, Batch, SamePlace
  <2>3. \A s \in ItemStages : RecordOf(n, s).status \in Through
    <3>1. RecordOf(n, "history").status \in Through
      BY <1>15, <1>19
    <3>2. \A s \in {"probe", "download"} : RecordOf(n, s).status \in Through
      <4>1. \A s \in {"probe", "download"} : s \in Passed["history"] /\ s \in Stages
        BY DEF Passed, Stages, ItemStages
      <4> QED
        BY <1>16, <4>1, PassedNear DEF Honest, HandedOver
    <3>3. "PARTIAL_SUCCESS" \in Through
      BY DEF Through
    <3> QED
      BY <1>14, <3>1, <3>2, <3>3 DEF ItemStages
  <2>4. RecordOf(n, "history").artifact \in Listed
    BY <1>17, <1>19
  <2> QED
    BY <2>1, <2>2, <2>3, <2>4 DEF AcquiredRecords, ItemStages
<1>22. Granted(n) /\ Reported(n) /\ SettledAggregates(n)
  BY <1>11 DEF Granted, Reported, SettledAggregates
<1>23. Batch(n) <=> Batch(m)
  BY <1>12 DEF SamePlace, Batch
<1>24. flags = IF Batch(m) THEN {"clear_continues_batch"} ELSE {}
  BY <1>12 DEF SamePlace, Batch, flags
<1>25. Flagged(n)
  BY <1>1, <1>11, <1>12, <1>21, <1>23, <1>24 DEF Flagged, CleanupLeft, SamePlace
<1>26. ItemsTrue(n)
  <2> SUFFICES ASSUME NEW k \in Ranks
               PROVE  LET item == n.items[k] IN
                      /\ item.status = "SKIPPED" => SkippedRecords(item)
                      /\ item.status = "ACQUIRED" => AcquiredRecords(item)
                      /\ item.status = "ACQUIRED_CLEANUP_REQUIRED" =>
                            /\ k = n.rank /\ AcquiredRecords(item)
                            /\ n.state = "ATTENTION_REQUIRED"
                            /\ "clear_continues_batch" \in n.attention
    BY DEF ItemsTrue
  <2>1. CASE k = m.rank
    <3>1. Batch(m)
      BY <2>1, RankedPerItem DEF PerItem
    <3> QED
      BY <1>11, <1>12, <1>21, <1>24, <2>1, <3>1 DEF SamePlace
  <2>2. CASE k # m.rank
    <3>1. n.items[k] = m.items[k]
      BY <1>12, <2>2 DEF SamePlace
    <3> QED
      BY <2>2, <3>1 DEF Honest, ItemsTrue
  <2> QED
    BY <2>1, <2>2
<1>27. Counted(n)
  BY <1>12, <1>18, CountsKept DEF Honest, Counted
<1>28. Carries(m, n)
  <2>1. MovedBy(n) = MovedBy(m) /\ ListedBy(n) = ListedBy(m)
    BY <1>12, <1>17, WitnessKept DEF Stages, ItemStages
  <2>2. \A k \in 0..Target : Beyond(m, k) => Beyond(n, k)
    BY <1>11, <1>12, CountsKept DEF Beyond, OpenStates, Gained, SamePlace
  <2> QED
    BY <2>1, <2>2 DEF Carries
<1> QED
  BY <1>11, <1>12, <1>20, <1>22, <1>25, <1>26, <1>27, <1>28 DEF Honest, n

\* Recomputing the aggregates of a batch changes no record of its items.
LEMMA AggregatesRest ==
  ASSUME NEW m \in Manifest, Batch(m)
  PROVE  LET n == RefreshAggregates(m) IN
         /\ n.acquired = m.acquired /\ n.skipped = m.skipped
         /\ \A s \in SharedStages : n.stages[s] = m.stages[s]
         /\ \A s \in Stages : RecordOf(n, s) = RecordOf(m, s)
<1> DEFINE n == RefreshAggregates(m)
           stages == [s \in Stages |->
                        IF s \in ItemStages THEN [m.stages[s] EXCEPT !.status = Aggregate(m, s)]
                                            ELSE m.stages[s]]
<1>1. n = [m EXCEPT !.stages = stages]
  BY DEF RefreshAggregates
<1>2. \A s \in SharedStages : stages[s] = m.stages[s]
  BY DEF Stages, SharedStages, ItemStages
<1> HIDE DEF stages, n
<1>3. /\ n.acquired = m.acquired /\ n.skipped = m.skipped /\ n.stages = stages
      /\ n.items = m.items /\ n.rank = m.rank /\ n.schema = m.schema
  BY <1>1 DEF Manifest
<1>4. \A s \in Stages : s \in ItemStages \/ s \in SharedStages
  BY DEF Stages
<1> QED
  BY <1>2, <1>3, <1>4 DEF RecordOf, PerItem, Batch, n

\* What an evaluation may do with an open run: work on where it stands, open
\* the first movie, close the current one, or end a run without any.
Moves(m, n) ==
    \/ Reworks(m, n) /\ n.state \in OpenStates
    \/ Batch(m) /\ m.rank \in Ranks /\ Closes(m, n)
    \/ Opens(m, n)
    \/ Ends(m, n)

\* A recorded movie is acquired, or its cleanup waits for an operator.
LEMMA RecordedTrue ==
  ASSUME NEW m, Sound(m), Honest(m), m.state = "RUNNING", m.stage = "history",
         RecordOf(m, "history").artifact \in Listed
  PROVE  LET n == Recorded(m) IN
         Honest(n) /\ Carries(m, n) /\ ~n.authorized /\ Moves(m, n)
<1> DEFINE a == WithStatus(m, "history", "SUCCEEDED")
           n == Recorded(m)
<1>1. /\ At(m, "history") /\ m \in Manifest /\ m.state \in OpenStates /\ ~m.authorized
      /\ "SUCCEEDED" \in StageStatus /\ "SUCCEEDED" \in Through
  BY OpenAtStage DEF Sound, OpenStates, Honest, Granted, StageStatus, Through
<1>2. Reworks(m, a) /\ SameHead(m, a)
  BY <1>1, SoundReworks, StatusReworks
<1>3. /\ SameRest(m, a, "history") /\ RecordOf(a, "history").status = "SUCCEEDED"
      /\ RecordOf(a, "history").artifact = RecordOf(m, "history").artifact
  BY <1>1, StatusRest
<1>4. ASSUME n = AttendCleanup(a)
      PROVE  Honest(n) /\ Carries(m, n) /\ ~n.authorized /\ Moves(m, n)
  <2> HIDE DEF a, n
  <2>1. LET q == AttendCleanup(a) IN
        /\ Honest(q) /\ Carries(m, q) /\ Reworks(m, q)
        /\ q.state = "ATTENTION_REQUIRED" /\ ~q.authorized
    BY <1>1, <1>2, <1>3, CleanupTrue
  <2> QED
    BY <1>4, <2>1 DEF Moves, OpenStates
<1>5. CASE Batch(m)
  <2> DEFINE b == RefreshAggregates(a)
  <2>1. m.rank \in Ranks /\ m.stage \in ItemStages
    BY <1>1, <1>5 DEF Sound, Placed, ItemStages
  <2>2. a \in Manifest /\ SamePlace(m, a) /\ Batch(a)
    BY <1>2, <1>5 DEF Reworks, SamePlace, Batch
  <2>3. /\ b \in Manifest /\ SamePlace(a, b) /\ SameHead(a, b) /\ b.items = a.items
        /\ ArtifactsFit(b)
    BY <1>2, <2>2, RefreshAggregatesKeeps DEF Reworks
  <2>4. /\ b.acquired = a.acquired /\ b.skipped = a.skipped
        /\ \A s \in SharedStages : b.stages[s] = a.stages[s]
        /\ \A s \in Stages : RecordOf(b, s) = RecordOf(a, s)
    BY <2>2, AggregatesRest
  <2>5. n = IF m.items[m.rank].outcome = "cleanup_attention" THEN AttendCleanup(b)
            ELSE AdvanceToNextItem(AcquireItem(b))
    BY <1>5 DEF Recorded
  <2> HIDE DEF a, b, n
  <2>6. Reworks(m, b) /\ SameHead(m, b) /\ SamePlace(m, b)
    BY <1>2, <2>2, <2>3 DEF Reworks, SamePlace, SameHead
  <2>7. SameRest(m, b, "history")
    BY <1>3, <2>4 DEF SameRest
  <2>8. RecordOf(b, "history") = RecordOf(a, "history")
    BY <1>1, <2>4 DEF At
  <2>9. CASE n = AttendCleanup(b)
    <3>1. LET q == AttendCleanup(b) IN
          /\ Honest(q) /\ Carries(m, q) /\ Reworks(m, q)
          /\ q.state = "ATTENTION_REQUIRED" /\ ~q.authorized
      BY <1>1, <1>3, <2>6, <2>7, <2>8, CleanupTrue
    <3> QED
      BY <2>9, <3>1 DEF Moves, OpenStates, n
  <2>10. CASE n = AdvanceToNextItem(AcquireItem(b))
    <3>1. \A s \in ItemStages : /\ RecordOf(b, s) = b.items[m.rank].stages[s]
                                /\ RecordOf(m, s) = m.items[m.rank].stages[s]
                                /\ Near(m, s)
      BY <1>5, <2>1, <2>6 DEF RecordOf, PerItem, Batch, SamePlace, Near, Stages
    <3>2. \A s \in ItemStages \ {"history"} : RecordOf(b, s) = RecordOf(m, s)
      BY <2>7, <3>1 DEF SameRest, Stages
    <3>3. AcquiredRecords(b.items[m.rank])
      <4>1. \A s \in ItemStages \ {"history"} : s \in Passed["history"]
        BY DEF Passed, ItemStages
      <4>2. \A s \in ItemStages \ {"history"} : RecordOf(b, s).status \in Through
        BY <1>1, <3>2, <4>1 DEF Honest, HandedOver
      <4> QED
        BY <1>1, <1>3, <2>8, <3>1, <4>2 DEF AcquiredRecords, ItemStages
    <3>4. \A s \in ItemStages :
             b.items[m.rank].stages[s].artifact = m.items[m.rank].stages[s].artifact
      BY <1>3, <2>8, <3>1, <3>2
    <3>5. \A s \in SharedStages : b.stages[s] = m.stages[s]
      <4>1. \A s \in SharedStages : s \in Stages \ {"history"} /\ ~PerItem(m, s) /\ ~PerItem(b, s)
        BY DEF SharedStages, Stages, PerItem, ItemStages
      <4>2. \A s \in SharedStages : RecordOf(b, s) = RecordOf(m, s)
        BY <2>7, <4>1 DEF SameRest, Near
      <4> QED
        BY <4>1, <4>2 DEF RecordOf
    <3>6. ~b.authorized
      BY <1>1, <2>6 DEF SameHead
    <3>7. SettlesTruly(m, AcquireItem(b))
      BY <2>1, <2>6, <3>3, <3>4, <3>5, <3>6, AcquireTrue
    <3>8. LET q == AdvanceToNextItem(AcquireItem(b)) IN
          Honest(q) /\ Carries(m, q) /\ ~q.authorized /\ Closes(m, q)
      BY <1>1, <1>5, <2>1, <3>7, NextItemHonest
    <3> QED
      BY <1>5, <2>1, <2>10, <3>8 DEF Moves, n
  <2> QED
    BY <2>5, <2>9, <2>10 DEF n
<1>6. CASE ~Batch(m)
  <2>1. m.requested = 0 /\ m.stages["history"].artifact \in Listed
    BY <1>6 DEF Sound, Placed, RecordOf, PerItem
  <2>2. LET q == Finish(m, "COMPLETED", "flow_completed") IN
        Honest(q) /\ Carries(m, q) /\ ~q.authorized /\ Ends(m, q)
    BY <1>1, <1>6, <2>1, FinishHonest DEF Results
  <2>3. CASE n = Finish(m, "COMPLETED", "flow_completed")
    BY <2>2, <2>3 DEF Moves
  <2> QED
    BY <1>4, <1>6, <2>3 DEF Recorded
<1> QED
  BY <1>5, <1>6

\* Noting what to do after history is work that touches no record.
LEMMA OutcomeRest ==
  ASSUME NEW m, Sound(m), m.state \in OpenStates, m.stage = "transfer", NEW outcome \in PostHistory
  PROVE  LET b == SetOutcome(m, outcome) IN
         /\ Reworks(m, b) /\ SameHead(m, b) /\ SameRest(m, b, m.stage)
         /\ RecordOf(b, m.stage) = RecordOf(m, m.stage)
<1> DEFINE b == SetOutcome(m, outcome)
<1>1. m \in Manifest /\ (Batch(m) => m.rank \in Ranks)
  BY DEF Sound, Placed, ItemStages
<1>2. Reworks(m, b) /\ SameHead(m, b)
  BY <1>1, SoundReworks, OutcomeReworks
<1>3. /\ b.acquired = m.acquired /\ b.skipped = m.skipped /\ b.stages = m.stages
      /\ b.schema = m.schema /\ b.rank = m.rank
  BY <1>1 DEF SetOutcome, Manifest
<1>4. Batch(m) => b.items[m.rank].stages = m.items[m.rank].stages
  BY <1>1 DEF SetOutcome, Manifest, Item
<1> HIDE DEF b
<1> QED
  BY <1>2, <1>3, <1>4 DEF SameRest, RecordOf, PerItem, Batch, b

\* What an evaluation proves of the manifest it leads to.
Truly(m, n) ==
    /\ Honest(n) /\ Carries(m, n) /\ Moves(m, n)
    /\ n.authorized => m.authorized /\ n.rank = m.rank

\* Work that keeps the artifact of its stage.
LEMMA StayTruly ==
  ASSUME NEW m, Sound(m), Honest(m), m.state \in OpenStates, NEW n, Stays(m, n),
         RecordOf(n, m.stage).artifact = RecordOf(m, m.stage).artifact
  PROVE  Truly(m, n)
BY StayHonest, StayCarries DEF Stays, Truly, Moves, Reworks, SamePlace

\* Going on to the next stage.
LEMMA AdvanceTruly ==
  ASSUME NEW m, Sound(m), Honest(m), m.state \in OpenStates, NEW n, Advances(m, n)
  PROVE  Truly(m, n)
BY AdvanceHonest DEF Advances, Truly, Moves, OpenStates

\* Whatever a stage printed, its evaluation is true to the manifest.
LEMMA EvaluateArtifactTrue ==
  ASSUME NEW m, Sound(m), Honest(m), m.state = "RUNNING"
  PROVE  Truly(m, EvaluateArtifact(m, m.stage, RecordOf(m, m.stage).artifact))
<1> DEFINE s == m.stage
           kind == RecordOf(m, s).artifact
           n == EvaluateArtifact(m, s, kind)
<1>1. /\ m \in Manifest /\ s \in Stages /\ At(m, s) /\ m.state \in OpenStates
      /\ Batch(m) /\ s \in ItemStages => m.rank \in Ranks
      /\ ~Batch(m) \/ s \in SharedStages => m.requested = 0
  BY OpenAtStage DEF Sound, Manifest, Placed, OpenStates
<1>2. kind \in Kinds[s] \cup {"none"}
  BY <1>1, RecordOfType DEF At, Fits, Sound
<1>3. Truly(m, Retry(m, s))
  BY <1>1, RetryTrue, StayTruly
<1>4. Truly(m, Attend(m, s, {}))
  BY <1>1, AttendTrue, StayTruly
<1>5. /\ Reworks(m, m) /\ SameHead(m, m) /\ SameRest(m, m, s)
      /\ "SUCCEEDED" \in Through /\ "PARTIAL_SUCCESS" \in Through
  BY SoundReworks DEF SameHead, SameRest, Through
<1>6. ASSUME s # "history", s = "search" => ~Batch(m), kind \in Handoff[NextStage[s]]
      PROVE  Truly(m, Advance(m, s, "SUCCEEDED"))
  <2>1. Advances(m, Advance(m, s, "SUCCEEDED"))
    BY <1>5, <1>6, AdvanceTrue
  <2> QED
    BY <1>1, <2>1, AdvanceTruly
<1>7. CASE kind \in {"created", "healthy", "ready"}
  <2>1. s \in {"recommendations", "probe", "download"} /\ kind \in Handoff[NextStage[s]]
    BY <1>1, <1>2, <1>7 DEF Kinds, Stages, SharedStages, ItemStages, Handoff, NextStage
  <2>2. Truly(m, Advance(m, s, "SUCCEEDED"))
    BY <1>6, <2>1
  <2> QED
    BY <1>7, <2>2 DEF EvaluateArtifact
<1>8. CASE kind = "not_needed"
  <2>1. s = "recommendations"
    BY <1>1, <1>2, <1>8 DEF Kinds, Stages, SharedStages, ItemStages
  <2>2. LET q == Finish(m, "NO_ACTION_NEEDED", "flow_no_action_needed") IN
        Honest(q) /\ Carries(m, q) /\ ~q.authorized /\ Ends(m, q)
    BY <1>1, <2>1, FinishHonest DEF Results, SharedStages
  <2> QED
    BY <1>8, <2>2 DEF EvaluateArtifact, Truly, Moves
<1>9. CASE kind = "found"
  <2>1. s = "search" /\ kind \in Handoff[NextStage[s]]
    BY <1>1, <1>2, <1>9 DEF Kinds, Stages, SharedStages, ItemStages, Handoff, NextStage
  <2>2. CASE Batch(m)
    <3>1. m.stages["search"].artifact = "found"
      BY <1>9, <2>1 DEF RecordOf, PerItem, ItemStages
    <3>2. LET q == InitializeItems(m) IN
          Honest(q) /\ Carries(m, q) /\ ~q.authorized /\ (Opens(m, q) \/ Ends(m, q))
      BY <1>1, <2>1, <2>2, <3>1, InitializeHonest
    <3> QED
      BY <1>9, <2>2, <3>2 DEF EvaluateArtifact, Truly, Moves
  <2>3. CASE ~Batch(m)
    <3>1. Truly(m, Advance(m, s, "SUCCEEDED"))
      BY <1>6, <2>1, <2>3
    <3> QED
      BY <1>9, <2>3, <3>1 DEF EvaluateArtifact
  <2> QED
    BY <2>2, <2>3
<1>10. CASE kind = "no_candidate"
  <2>1. s = "probe" /\ s \in ItemStages
    BY <1>1, <1>2, <1>10 DEF Kinds, Stages, SharedStages, ItemStages
  <2>2. CASE Batch(m)
    <3>1. SettlesTruly(m, SkipItem(m))
      BY <1>1, <2>1, <2>2, SkipTrue DEF Honest, Granted
    <3>2. LET q == AdvanceToNextItem(SkipItem(m)) IN
          Honest(q) /\ Carries(m, q) /\ ~q.authorized /\ Closes(m, q)
      BY <1>1, <2>1, <2>2, <3>1, NextItemHonest
    <3> QED
      BY <1>1, <1>10, <2>1, <2>2, <3>2 DEF EvaluateArtifact, Truly, Moves
  <2>3. CASE ~Batch(m)
    <3>1. LET q == Finish(m, "NO_ACQUISITION_AVAILABLE", "flow_no_acquisition_available") IN
          Honest(q) /\ Carries(m, q) /\ ~q.authorized /\ Ends(m, q)
      BY <1>1, <2>1, <2>3, FinishHonest DEF Results
    <3> QED
      BY <1>10, <2>3, <3>1 DEF EvaluateArtifact, Truly, Moves
  <2> QED
    BY <2>2, <2>3
<1>11. CASE kind \in {"moved", "cleanup_failed"}
  <2>1. s = "transfer" /\ kind \in Handoff[NextStage[s]]
    BY <1>1, <1>2, <1>11 DEF Kinds, Stages, SharedStages, ItemStages, Handoff, NextStage
  <2>2. ASSUME NEW outcome \in PostHistory, NEW status \in Through
        PROVE  Truly(m, Advance(SetOutcome(m, outcome), s, status))
    <3>1. Advances(m, Advance(SetOutcome(m, outcome), s, status))
      BY <1>1, <2>1, OutcomeRest, AdvanceTrue
    <3> QED
      BY <1>1, <3>1, AdvanceTruly
  <2>3. "completed" \in PostHistory /\ "cleanup_attention" \in PostHistory
    BY DEF PostHistory
  <2> QED
    BY <1>5, <1>11, <2>2, <2>3 DEF EvaluateArtifact
<1>12. CASE kind \in Listed
  <2>1. s = "history"
    BY <1>1, <1>2, <1>12 DEF Kinds, Stages, SharedStages, ItemStages, Listed
  <2>2. LET q == Recorded(m) IN Honest(q) /\ Carries(m, q) /\ ~q.authorized /\ Moves(m, q)
    BY <1>12, <2>1, RecordedTrue
  <2> QED
    BY <1>12, <2>2 DEF EvaluateArtifact, Truly, Listed
<1>13. CASE kind = "stalled"
  <2>1. s = "download"
    BY <1>1, <1>2, <1>13 DEF Kinds, Stages, SharedStages, ItemStages
  <2>2. Truly(m, Attend(m, s, {"stalled"}))
    BY <1>1, <2>1, AttendTrue, StayTruly
  <2> QED
    BY <1>13, <2>2 DEF EvaluateArtifact
<1>14. CASE kind \in {"offline", "unclean", "failed", "none"}
  BY <1>3, <1>4, <1>14 DEF EvaluateArtifact
<1> QED
  BY <1>1, <1>2, <1>7, <1>8, <1>9, <1>10, <1>11, <1>12, <1>13, <1>14
     DEF Kinds, Stages, SharedStages, ItemStages, Listed

\* The evaluation of the newest attempt is true to the manifest.
LEMMA EvaluateTrue ==
  ASSUME NEW m, Sound(m), Honest(m), m.state = "RUNNING"
  PROVE  Truly(m, EvaluateStage(m))
<1>1. Truly(m, EvaluateArtifact(m, m.stage, RecordOf(m, m.stage).artifact))
  BY EvaluateArtifactTrue
<1>2. Truly(m, Retry(m, m.stage)) /\ Truly(m, Attend(m, m.stage, {}))
  BY RetryTrue, AttendTrue, StayTruly DEF OpenStates
<1> QED
  BY <1>1, <1>2 DEF EvaluateStage

-----------------------------------------------------------------------------
(* What an operator's command makes of a manifest *)

\* A resume only opens the run again, with the permission it was asked for.
LEMMA ResumeTrue ==
  ASSUME NEW m, Sound(m), Honest(m), m.state = "ATTENTION_REQUIRED",
         "resume_allowed" \in m.attention
  PROVE  LET n == ResumeManifest(m) IN
         /\ Honest(n) /\ Carries(m, n) /\ Reworks(m, n)
         /\ n.state = "RUNNING" /\ n.rank = m.rank /\ n.stage = m.stage
<1> DEFINE granted == m.authorized \/ "stalled" \in m.attention
           n == ResumeManifest(m)
<1>1. n = [m EXCEPT !.state = "RUNNING", !.result = "flow_running", !.attention = {},
                    !.authorized = granted]
  BY DEF ResumeManifest, Sound, Manifest
<1>2. granted \in BOOLEAN /\ m \in Manifest
  BY DEF Sound, Manifest
<1>3. granted => m.stage = "download"
  BY DEF Honest, Granted, Flagged
<1>4. "clear_continues_batch" \notin m.attention
  BY DEF Honest, Flagged
<1> HIDE DEF granted, n
<1>5. /\ n \in Manifest /\ n.run = m.run /\ n.schema = m.schema /\ n.rank = m.rank
      /\ n.requested = m.requested /\ n.items = m.items /\ n.stages = m.stages
      /\ n.acquired = m.acquired /\ n.skipped = m.skipped
      /\ n.state = "RUNNING" /\ n.result = "flow_running"
      /\ n.stage = m.stage /\ n.attention = {} /\ n.authorized = granted
  BY <1>1, <1>2 DEF Manifest, States, Results
<1>6. Reworks(m, n)
  BY <1>5, SoundReworks, HeadReworks
<1>7. SameRest(m, n, m.stage) /\ RecordOf(n, m.stage) = RecordOf(m, m.stage)
  BY <1>5, HeadRest
<1>8. \A s \in Stages : RecordOf(n, s) = RecordOf(m, s)
  BY <1>5, HeadRest
<1>9. HandedOver(n)
  <2>1. m.stage \in Stages /\ m.state \in OpenStates
    BY <1>2 DEF Manifest, OpenStates
  <2>2. \A s \in Passed[m.stage] : s \in Stages
    BY <2>1, PassedNear
  <2> QED
    BY <1>5, <1>8, <2>1, <2>2 DEF Honest, HandedOver
<1>10. Granted(n) /\ Flagged(n) /\ Reported(n) /\ SettledAggregates(n)
  BY <1>3, <1>5 DEF Granted, Flagged, Reported, SettledAggregates
<1>11. ItemsTrue(n)
  BY <1>4, <1>5 DEF Honest, ItemsTrue
<1>12. Counted(n)
  BY <1>5 DEF Honest, Counted, Count
<1>13. Carries(m, n)
  <2>1. MovedBy(n) = MovedBy(m) /\ ListedBy(n) = ListedBy(m)
    BY <1>5 DEF MovedBy, ListedBy, RanksOf, RecordAt, Batch
  <2>2. \A k \in 0..Target : Beyond(m, k) => Beyond(n, k)
    BY <1>5 DEF Beyond, OpenStates
  <2> QED
    BY <2>1, <2>2 DEF Carries
<1> QED
  BY <1>5, <1>6, <1>9, <1>10, <1>11, <1>12, <1>13 DEF Honest, n

\* n is m given up, with everything but its head as it was.
GivesUp(m, n) ==
    /\ n.state = "CLEARED" /\ n.schema = m.schema /\ n.requested = m.requested
    /\ n.items = m.items

\* A clear gives a run up, or acknowledges the cleanup it waits for.
LEMMA ClearTrue ==
  ASSUME NEW m, Sound(m), Honest(m), m.state \in {"ATTENTION_REQUIRED", "RETRYABLE_FAILURE"}
  PROVE  LET n == ClearManifest(m) IN
         /\ Honest(n) /\ Carries(m, n)
         /\ n.authorized => m.authorized /\ n.rank = m.rank
         /\ \/ GivesUp(m, n)
            \/ /\ m.state = "ATTENTION_REQUIRED" /\ Batch(m) /\ m.rank \in Ranks
               /\ Closes(m, n) /\ n.items[m.rank].status = "ACQUIRED"
<1> DEFINE n == ClearManifest(m)
<1>0. m \in Manifest /\ m.state \in OpenStates
  BY DEF Sound, OpenStates
<1>1. CASE Batch(m) /\ "clear_continues_batch" \in m.attention
  <2> DEFINE a == AcquireItem(m)
             old == a.items[m.rank]
             item == [old EXCEPT !.acknowledged = TRUE]
             c == [a EXCEPT !.items = [a.items EXCEPT ![m.rank] = item]]
             b == [c EXCEPT !.attention = {}, !.state = "RUNNING", !.result = "flow_running"]
  <2>1. /\ m.state = "ATTENTION_REQUIRED" /\ m.rank \in Ranks /\ m.stage = "transfer"
        /\ AcquiredRecords(m.items[m.rank])
    BY <1>1 DEF Honest, Flagged, CleanupLeft
  <2>2. ~m.authorized
    BY <2>1 DEF Honest, Granted
  <2>3. SettlesTruly(m, a)
    BY <2>1, <2>2, SoundReworks, AcquireTrue
  <2>4. a.items[m.rank].status = "ACQUIRED"
    BY <1>0, <2>1 DEF AcquireItem, Manifest, Item
  <2>5. n = AdvanceToNextItem(b)
    <3>1. a.rank = m.rank /\ a \in Manifest
      BY <2>3 DEF SettlesTruly, Settles, SamePlace
    <3> QED
      BY <1>1, <2>1, <3>1 DEF ClearManifest, AcknowledgeCleanup, Manifest, Item
  <2>6. a \in Manifest /\ ArtifactsFit(a) /\ SamePlace(m, a) /\ old \in Item
    BY <2>1, <2>3 DEF SettlesTruly, Settles, Manifest
  <2> HIDE DEF a
  <2>7. /\ item \in Item /\ item.stages = old.stages /\ item.status = old.status
    BY <2>6 DEF Item
  <2> HIDE DEF item
  <2>8. [a.items EXCEPT ![m.rank] = item] \in [Ranks -> Item]
    BY <2>6, <2>7 DEF Manifest
  <2>9. c \in Manifest
    BY <2>6, <2>8, ManifestPartsTypes
  <2>10. /\ c.items[m.rank] = item /\ \A k \in Ranks : k # m.rank => c.items[k] = a.items[k]
         /\ c.stages = a.stages /\ c.rank = a.rank /\ c.requested = a.requested
         /\ c.run = a.run /\ c.schema = a.schema /\ c.authorized = a.authorized
    BY <2>1, <2>6 DEF Manifest
  <2> HIDE DEF c
  <2>11. /\ b \in Manifest /\ b.items = c.items /\ b.stages = c.stages /\ b.rank = c.rank
         /\ b.requested = c.requested /\ b.run = c.run /\ b.schema = c.schema
         /\ b.authorized = c.authorized
    BY <2>9 DEF Manifest, States, Results
  <2> HIDE DEF b
  <2>12. ArtifactsFit(b)
    <3>1. \A k \in Ranks : b.items[k].stages = a.items[k].stages
      BY <2>7, <2>10, <2>11
    <3>2. b.stages = a.stages
      BY <2>10, <2>11
    <3> QED
      BY <2>6, <3>1, <3>2 DEF ArtifactsFit
  <2>13. SettlesTruly(m, b)
    <3>1. b.items[m.rank].status = "ACQUIRED" /\ b.items[m.rank].stages = a.items[m.rank].stages
      BY <2>4, <2>7, <2>10, <2>11
    <3>2. SamePlace(m, b)
      BY <2>6, <2>10, <2>11 DEF SamePlace
    <3>3. AcquiredRecords(b.items[m.rank])
      BY <2>3, <2>4, <3>1 DEF SettlesTruly, AcquiredRecords
    <3>4. ~b.authorized /\ b.stages = a.stages
      BY <2>3, <2>10, <2>11 DEF SettlesTruly
    <3> QED
      BY <2>3, <2>11, <2>12, <3>1, <3>2, <3>3, <3>4 DEF SettlesTruly, Settles, Settled
  <2>14. m.stage \in ItemStages
    BY <2>1 DEF ItemStages
  <2>15. LET q == AdvanceToNextItem(b) IN
         Honest(q) /\ Carries(m, q) /\ ~q.authorized /\ Closes(m, q)
    BY <1>0, <1>1, <2>1, <2>13, <2>14, NextItemHonest
  <2> HIDE DEF n
  <2>16. n.items[m.rank].status = "ACQUIRED"
    <3>1. m.rank \in 0..Target /\ Beyond(m, m.rank)
      BY <1>0, <2>1 DEF Beyond, Manifest
    <3>2. Beyond(n, m.rank) /\ n.schema = m.schema /\ n.state # "CLEARED" /\ n.rank # m.rank
      BY <2>1, <2>5, <2>15, <3>1 DEF Carries, Closes, Ranks
    <3> QED
      BY <1>1, <3>2 DEF Beyond, Batch
  <2> QED
    BY <1>1, <2>1, <2>5, <2>15, <2>16 DEF n
<1>2. CASE ~(Batch(m) /\ "clear_continues_batch" \in m.attention)
  <2>1. n = [m EXCEPT !.state = "CLEARED", !.result = "flow_cleared"]
    BY <1>2 DEF ClearManifest
  <2> HIDE DEF n
  <2>2. /\ n.schema = m.schema /\ n.rank = m.rank /\ n.requested = m.requested
        /\ n.items = m.items /\ n.stages = m.stages
        /\ n.acquired = m.acquired /\ n.skipped = m.skipped
        /\ n.state = "CLEARED" /\ n.result = "flow_cleared"
        /\ n.stage = m.stage /\ n.authorized = m.authorized
    BY <1>0, <2>1 DEF Manifest
  <2>3. HandedOver(n) /\ Granted(n) /\ Flagged(n) /\ Reported(n) /\ SettledAggregates(n)
    BY <2>2 DEF HandedOver, Granted, Flagged, Reported, SettledAggregates, OpenStates, Honest
  <2>4. ItemsTrue(n)
    <3>1. \A k \in Ranks : m.items[k].status # "ACQUIRED_CLEANUP_REQUIRED"
      BY <1>2, RankedPerItem DEF Honest, ItemsTrue, PerItem
    <3> QED
      BY <2>2, <3>1 DEF Honest, ItemsTrue
  <2>5. Counted(n)
    BY <2>2 DEF Honest, Counted, Count
  <2>6. Carries(m, n)
    BY <2>2 DEF Carries, Beyond, MovedBy, ListedBy, RanksOf, RecordAt, Batch
  <2> QED
    BY <2>2, <2>3, <2>4, <2>5, <2>6 DEF Honest, GivesUp, n
<1> QED
  BY <1>1, <1>2

-----------------------------------------------------------------------------
(* The inductive invariant *)

\* The transfers and records a run's manifest claims did happen.
Witnessed(r) ==
    /\ \A k \in MovedBy(disk[r]) : <<r, k>> \in copies
    /\ \A k \in ListedBy(disk[r]) : rows[<<r, k>>] > 0

Manifested == \A r \in Runs : Honest(disk[r]) /\ Witnessed(r)

\* A child works on a movie that its run took as far, on a verified artifact,
\* and its phase says what it did to the world.
KidTrue(c) ==
    LET k == kid[c] IN
    /\ k.stage \in {"transfer", "history"} => Beyond(disk[k.run], k.rank)
    /\ k.stage = "history" => MovieOf(k) \in copies
    /\ k.phase = "copied" => k.stage = "transfer" /\ MovieOf(k) \in copies
    /\ k.phase \in {"listed", "appended"} => k.stage = "history" /\ rows[MovieOf(k)] > 0
    /\ k.phase = "unlisted" => k.stage = "history"
    /\ k.stage \in DOMAIN Handoff => k.input \in Handoff[k.stage]

KidsTrue == \A c \in Slots : KidTrue(c)

\* A process has a child exactly while it waits for it, at its own position.
KidPlaced(p) ==
    IF pc[p] = "wait"
    THEN kid[p].stage = mem[p].stage /\ kid[p].run = mem[p].run /\ kid[p].rank = mem[p].rank
    ELSE kid[p] = NoChild

KidsPlaced ==
    /\ \A p \in Procs : KidPlaced(p)
    /\ ~Orphans => kid[Nobody] = NoChild

\* Every copy belongs to a movie its run took that far, and every row to a copy.
WorldTrue ==
    /\ \A movie \in copies : Beyond(disk[movie[1]], movie[2])
    /\ \A movie \in Movies : rows[movie] > 0 => movie \in copies

\* The permission to resume a stalled torrent is an operator's.
ConsentTrue ==
    /\ \A p \in Procs : kid[p].resume_stalled =>
           <<kid[p].run, kid[p].rank, "download">> \in resumed
    /\ newest # 0 /\ disk[newest].authorized =>
           <<newest, disk[newest].rank, "download">> \in resumed

TruthInv == Manifested /\ KidsTrue /\ KidsPlaced /\ WorldTrue /\ ConsentTrue

-----------------------------------------------------------------------------
(* The building blocks of the actions *)

\* No child is one that does nothing.
LEMMA NoChildIdle ==
  /\ NoChild.stage = "none" /\ NoChild.phase = "started" /\ NoChild.resume_stalled = FALSE
  /\ NoChild.stage \notin DOMAIN Handoff /\ ~Alive(NoChild)
BY DEF NoChild, Handoff, Alive

\* Only the process that holds the lock, or has just taken it, is not off.
LEMMA OthersOff ==
  ASSUME FlowInv, NEW p \in Procs, lock = p \/ lock = Nobody
  PROVE  \A q \in Procs : q # p => pc[q] = "off"
BY ProcsAssumption DEF FlowInv, ControlInv

\* A save that claims nothing untrue, by a process whose child is gone.
LEMMA SaveTruth ==
  ASSUME FlowInv, TruthInv, NEW p \in Procs, lock = p \/ lock = Nobody,
         NEW m, NEW goto, Save(p, m, goto), m.run \in Runs, Honest(m),
         \A k \in 0..Target : Beyond(disk[m.run], k) => Beyond(m, k),
         \A k \in MovedBy(m) : <<m.run, k>> \in copies,
         \A k \in ListedBy(m) : rows[<<m.run, k>>] > 0,
         m.authorized => <<m.run, m.rank, "download">> \in resumed',
         UNCHANGED world,
         \/ pc[p] # "wait" /\ kid' = kid
         \/ kid' = [kid EXCEPT ![p] = NoChild]
  PROVE  TruthInv' /\ (\A q \in Procs : kid'[q] = NoChild) /\ kid'[Nobody] = kid[Nobody]
<1>1. /\ disk' = [disk EXCEPT ![m.run] = m] /\ newest' = m.run
      /\ pc' = [pc EXCEPT ![p] = "mirror"] /\ copies' = copies /\ rows' = rows
  BY DEF Save, world
<1>2. /\ disk \in [Runs -> Manifest] /\ kid \in [Slots -> Child] /\ pc \in [Procs -> PcValues]
      /\ copies \subseteq Movies
  BY DEF FlowInv, FilesInv, ControlInv, WorldInv
<1>3. \A r \in Runs : disk'[r] = IF r = m.run THEN m ELSE disk[r]
  BY <1>1, <1>2
<1>4. \A q \in Procs : q # p => pc[q] = "off"
  BY OthersOff
<1>5. \A q \in Procs : pc'[q] # "wait" /\ kid'[q] = NoChild
  BY <1>1, <1>2, <1>4 DEF TruthInv, KidsPlaced, KidPlaced, Slots
<1>6. kid'[Nobody] = kid[Nobody]
  BY <1>2, ProcsAssumption DEF Slots
<1>7. \A r \in Runs, k \in 0..Target : Beyond(disk[r], k) => Beyond(disk'[r], k)
  BY <1>3
<1>8. Manifested'
  BY <1>1, <1>3 DEF TruthInv, Manifested, Witnessed
<1>9. KidsTrue'
  <2>1. \A q \in Procs : KidTrue(q)'
    BY <1>5, NoChildIdle DEF KidTrue
  <2>2. KidTrue(Nobody)'
    <3>1. KidTrue(Nobody) /\ kid[Nobody].run \in Runs /\ kid[Nobody].rank \in 0..Target
      BY <1>2 DEF TruthInv, KidsTrue, Slots, Child
    <3> QED
      BY <1>1, <1>6, <1>7, <3>1 DEF KidTrue
  <2> QED
    BY <2>1, <2>2 DEF KidsTrue, Slots
<1>10. KidsPlaced'
  BY <1>5, <1>6 DEF TruthInv, KidsPlaced, KidPlaced
<1>11. WorldTrue'
  <2>1. \A movie \in copies : movie[1] \in Runs /\ movie[2] \in 0..Target
    BY <1>2 DEF Movies
  <2> QED
    BY <1>1, <1>7, <2>1 DEF TruthInv, WorldTrue
<1>12. ConsentTrue'
  BY <1>1, <1>3, <1>5, NoChildIdle DEF ConsentTrue
<1> QED
  BY <1>5, <1>6, <1>8, <1>9, <1>10, <1>11, <1>12 DEF TruthInv

\* A step that leaves the disk, the children and the world alone.
LEMMA QuietTruth ==
  ASSUME TruthInv, UNCHANGED <<disk, newest, kid, world, resumed>>,
         \A q \in Procs : pc[q] # "wait" /\ pc'[q] # "wait"
  PROVE  TruthInv'
BY DEF TruthInv, Manifested, Witnessed, KidsTrue, KidTrue, KidsPlaced, KidPlaced, WorldTrue,
       ConsentTrue, world

\* What a manifest saved by a step of the loop may claim.
LEMMA LoopTruth ==
  ASSUME FlowInv, TruthInv, NEW p \in Procs, lock = p \/ lock = Nobody, newest # 0,
         NEW m, NEW goto, Save(p, m, goto), m.run = newest,
         Honest(m), Carries(disk[newest], m),
         m.authorized => <<newest, m.rank, "download">> \in resumed',
         UNCHANGED world,
         \/ pc[p] # "wait" /\ kid' = kid
         \/ kid' = [kid EXCEPT ![p] = NoChild]
  PROVE  TruthInv' /\ (\A q \in Procs : kid'[q] = NoChild) /\ kid'[Nobody] = kid[Nobody]
<1>1. newest \in Runs
  BY NewestIsRun DEF FlowInv
<1>2. Witnessed(newest)
  BY <1>1 DEF TruthInv, Manifested
<1> QED
  BY <1>1, <1>2, SaveTruth DEF Witnessed, Carries

-----------------------------------------------------------------------------
(* Every action keeps the truth *)

\* A run that begins claims nothing.
LEMMA RunNewTruth ==
  ASSUME FlowInv, TruthInv, NEW p \in Procs, RunNew(p)
  PROVE  TruthInv'
<1> DEFINE r == newest + 1
           m == NewManifest(r, 2)
<1>1. /\ newest \in 0..MaxRuns /\ newest < MaxRuns /\ MaxRuns \in Nat
      /\ lock = Nobody /\ pc[p] = "off" /\ Save(p, m, "exec") /\ UNCHANGED <<kid, world>>
  BY BoundsAssumption DEF RunNew, TakeLock, FlowInv, FilesInv
<1>2. r \in Runs /\ r > newest
  BY <1>1 DEF Runs
<1>3. disk[r] = Absent(r)
  BY <1>2 DEF FlowInv, FilesInv
<1>4. /\ Honest(m) /\ ~m.authorized /\ MovedBy(m) = {} /\ ListedBy(m) = {}
      /\ m.run = r /\ Absent(r).state = "ABSENT"
      /\ \A k \in Ranks : Absent(r).items[k] = FreshItem
  BY ZenonT(40), <1>2, NewHonest, NewManifestSound, AbsentSound DEF Absent, NewManifest
<1>5. \A k \in 0..Target : ~Beyond(disk[r], k)
  BY <1>3, <1>4 DEF Beyond, OpenStates, FreshItem
<1> HIDE DEF m, r
<1> QED
  BY <1>1, <1>2, <1>4, <1>5, SaveTruth

\* Taking a run up changes nothing but who works on it.
LEMMA RunContinueTruth ==
  ASSUME FlowInv, TruthInv, NEW p \in Procs, RunContinue(p)
  PROVE  TruthInv'
<1>1. /\ lock = Nobody /\ pc[p] = "off" /\ pc' = [pc EXCEPT ![p] = "recover"]
      /\ UNCHANGED <<disk, newest, kid, world, resumed>>
  BY DEF RunContinue, TakeLock, files
<1>2. \A q \in Procs : pc[q] # "wait" /\ pc'[q] # "wait"
  BY <1>1, OthersOff DEF FlowInv, ControlInv
<1> QED
  BY <1>1, <1>2, QuietTruth

\* Nor does a refusal.
LEMMA RefuseTruth ==
  ASSUME FlowInv, TruthInv, NEW p \in Procs, Refuse(p)
  PROVE  TruthInv'
<1>1. /\ lock = Nobody /\ pc[p] = "off" /\ pc' = [pc EXCEPT ![p] = "exit"]
      /\ UNCHANGED <<disk, newest, kid, world, resumed>>
  BY DEF Refuse, TakeLock, Goto, files
<1>2. \A q \in Procs : pc[q] # "wait" /\ pc'[q] # "wait"
  BY <1>1, OthersOff DEF FlowInv, ControlInv
<1> QED
  BY <1>1, <1>2, QuietTruth

\* An operator's resume is remembered with the permission it gives.
LEMMA ResumeTruth ==
  ASSUME FlowInv, TruthInv, NEW p \in Procs, Resume(p)
  PROVE  TruthInv'
<1> DEFINE m == ResumeManifest(disk[newest])
<1>1. /\ newest # 0 /\ disk[newest].state = "ATTENTION_REQUIRED" /\ pc[p] = "off"
      /\ "resume_allowed" \in disk[newest].attention
      /\ lock = Nobody /\ Save(p, m, "exec") /\ UNCHANGED <<kid, world>>
      /\ resumed' = resumed \cup {<<newest, disk[newest].rank, disk[newest].stage>>}
  BY DEF Resume, TakeLock
<1>2. /\ newest \in Runs /\ Sound(disk[newest]) /\ disk[newest].run = newest
      /\ Honest(disk[newest])
  BY <1>1, NewestIsRun DEF FlowInv, TruthInv, Manifested
<1>3. /\ Honest(m) /\ Carries(disk[newest], m) /\ Reworks(disk[newest], m)
      /\ m.rank = disk[newest].rank /\ m.stage = disk[newest].stage
  BY <1>1, <1>2, ResumeTrue
<1> HIDE DEF m
<1>4. m.run = newest
  BY <1>2, <1>3 DEF Reworks, SamePlace
<1>5. m.authorized => <<newest, m.rank, "download">> \in resumed'
  BY <1>1, <1>3 DEF Honest, Granted
<1> QED
  BY <1>1, <1>3, <1>4, <1>5, LoopTruth

\* An operator's clear gives the run up or moves it to its next movie.
LEMMA ClearTruth ==
  ASSUME FlowInv, TruthInv, NEW p \in Procs, Clear(p)
  PROVE  TruthInv'
<1> DEFINE m == ClearManifest(disk[newest])
<1>1. /\ newest # 0 /\ disk[newest].state \in {"ATTENTION_REQUIRED", "RETRYABLE_FAILURE"}
      /\ lock = Nobody /\ pc[p] = "off" /\ Save(p, m, NextPlace(m))
      /\ UNCHANGED <<kid, world, resumed>>
  BY DEF Clear, TakeLock
<1>2. /\ newest \in Runs /\ Sound(disk[newest]) /\ disk[newest].run = newest
      /\ Honest(disk[newest])
  BY <1>1, NewestIsRun DEF FlowInv, TruthInv, Manifested
<1>3. /\ Honest(m) /\ Carries(disk[newest], m)
      /\ m.authorized => disk[newest].authorized /\ m.rank = disk[newest].rank
  BY <1>1, <1>2, ClearTrue
<1>4. m.run = newest
  BY <1>1, <1>2, ClearFollows DEF Follows
<1> HIDE DEF m
<1>5. m.authorized => <<newest, m.rank, "download">> \in resumed'
  BY <1>1, <1>3 DEF TruthInv, ConsentTrue
<1> QED
  BY <1>1, <1>3, <1>4, <1>5, LoopTruth

\* What a process at work knows of its manifest.
LEMMA AtWorkTruly ==
  ASSUME FlowInv, TruthInv, NEW p \in Procs, pc[p] \notin {"off", "exit"}
  PROVE  /\ lock = p /\ newest # 0 /\ newest \in Runs /\ mem[p] = disk[newest]
         /\ Sound(mem[p]) /\ Honest(mem[p]) /\ mem[p].run = newest /\ Witnessed(newest)
         /\ mem[p].authorized => <<newest, mem[p].rank, "download">> \in resumed
         /\ pc[p] \in {"spawn", "wait", "judge"} => mem[p].state = "RUNNING"
         /\ pc[p] = "exec" => mem[p].state \in {"RUNNING", "RETRYABLE_FAILURE"}
<1>1. /\ lock = p /\ newest # 0 /\ newest \in Runs /\ mem[p] = disk[newest]
      /\ Sound(mem[p]) /\ Continues(mem[p], Place(p))
  BY AtWork DEF FlowInv
<1> QED
  BY <1>1, NewestIsRun DEF FlowInv, TruthInv, Manifested, ConsentTrue, Continues, Place

\* Work at the current stage that keeps its artifact is a true save.
LEMMA StayTruth ==
  ASSUME FlowInv, TruthInv, NEW p \in Procs, pc[p] \notin {"off", "exit"},
         NEW n, NEW goto, Save(p, n, goto), Stays(mem[p], n),
         mem[p].state \in OpenStates,
         RecordOf(n, mem[p].stage).artifact = RecordOf(mem[p], mem[p].stage).artifact,
         UNCHANGED <<world, resumed>>,
         \/ pc[p] # "wait" /\ kid' = kid
         \/ kid' = [kid EXCEPT ![p] = NoChild]
  PROVE  TruthInv'
<1>1. /\ lock = p /\ newest # 0 /\ mem[p] = disk[newest] /\ mem[p].run = newest
      /\ Sound(mem[p]) /\ Honest(mem[p])
      /\ mem[p].authorized => <<newest, mem[p].rank, "download">> \in resumed
  BY AtWorkTruly
<1>2. Honest(n) /\ Carries(mem[p], n)
  BY <1>1, StayHonest, StayCarries
<1>3. n.run = newest /\ n.rank = mem[p].rank /\ n.authorized = mem[p].authorized
  BY <1>1 DEF Stays, Reworks, SamePlace
<1> QED
  BY <1>1, <1>2, <1>3, LoopTruth

\* Recovery.
LEMMA RecoverTruth ==
  ASSUME FlowInv, TruthInv, NEW p \in Procs, Recover(p)
  PROVE  TruthInv'
<1> DEFINE n == InterruptAttempt(mem[p])
<1>1. /\ pc[p] = "recover" /\ UNCHANGED <<kid, world, resumed>>
      /\ Sound(mem[p]) /\ Honest(mem[p]) /\ lock = p
  BY AtWorkTruly DEF Recover
<1>2. ASSUME NEW place \in {"judge", "exec"}, Goto(p, place)
      PROVE  TruthInv'
    <2>1. UNCHANGED <<disk, newest>> /\ pc' = [pc EXCEPT ![p] = place]
      BY <1>2 DEF Goto, files
    <2>2. \A q \in Procs : pc[q] # "wait" /\ pc'[q] # "wait"
      BY <1>1, <2>1, OthersOff DEF FlowInv, ControlInv
    <2> QED
      BY <1>1, <2>1, <2>2, QuietTruth
<1>3. CASE mem[p].state = "RUNNING" /\ Save(p, n, NextPlace(n))
  <2>1. /\ Stays(mem[p], n)
        /\ RecordOf(n, mem[p].stage).artifact = RecordOf(mem[p], mem[p].stage).artifact
    BY <1>1, <1>3, InterruptTrue
  <2> HIDE DEF n
  <2> QED
    BY <1>1, <1>3, <2>1, StayTruth DEF OpenStates
<1> QED
  BY <1>2, <1>3 DEF Recover

\* Opening an attempt.
LEMMA ExecuteTruth ==
  ASSUME FlowInv, TruthInv, NEW p \in Procs, Execute(p)
  PROVE  TruthInv'
<1> DEFINE n == StartAttempt(mem[p])
<1>1. pc[p] = "exec" /\ Save(p, n, "spawn") /\ UNCHANGED <<kid, world, resumed>>
  BY DEF Execute
<1>2. /\ Sound(mem[p]) /\ Honest(mem[p])
      /\ mem[p].state \in {"RUNNING", "RETRYABLE_FAILURE"}
  BY <1>1, AtWorkTruly
<1>3. /\ Stays(mem[p], n)
      /\ RecordOf(n, mem[p].stage).artifact = RecordOf(mem[p], mem[p].stage).artifact
  BY <1>2, StartTrue
<1> HIDE DEF n
<1> QED
  BY <1>1, <1>2, <1>3, StayTruth DEF OpenStates

\* The artifact handed to a child is the one its stage needs.
LEMMA InputVerified ==
  ASSUME NEW m, Sound(m), Honest(m), m.state = "RUNNING", m.stage # "recommendations"
  PROVE  InputOf(m, m.stage) \in Handoff[m.stage]
<1>1. m.stage \in Stages \ {"recommendations"} /\ m.state \in OpenStates
  BY DEF Sound, Manifest, OpenStates
<1>2. PrevStage[m.stage] \in Passed[m.stage] /\ NextStage[PrevStage[m.stage]] = m.stage
  BY <1>1 DEF Stages, SharedStages, ItemStages, PrevStage, NextStage, Passed
<1> QED
  BY <1>1, <1>2 DEF Honest, HandedOver, InputOf

\* A movie whose history stage is due was copied.
LEMMA HistoryCopied ==
  ASSUME NEW m, Sound(m), Honest(m), m.state = "RUNNING", m.stage = "history"
  PROVE  m.rank \in MovedBy(m)
<1>1. RecordOf(m, "transfer").artifact \in Moved
  <2>1. "transfer" \in Passed["history"] /\ Handoff[NextStage["transfer"]] = Moved
    BY DEF Passed, Handoff, NextStage, Moved
  <2> QED
    BY <2>1 DEF Honest, HandedOver, OpenStates
<1>2. m.rank \in RanksOf(m)
  BY BoundsAssumption DEF Sound, Placed, Ordered, Manifest, RanksOf, OpenStates, ItemStages
<1> QED
  BY <1>1, <1>2 DEF MovedBy, RecordAt, RecordOf, PerItem, ItemStages

\* Starting a child.
LEMMA SpawnTruth ==
  ASSUME FlowInv, TruthInv, NEW p \in Procs, Spawn(p)
  PROVE  TruthInv'
<1> DEFINE m == mem[p]
           child == [stage |-> m.stage, run |-> m.run, rank |-> m.rank, phase |-> "started",
                     resume_stalled |-> m.stage = "download" /\ m.authorized,
                     input |-> InputOf(m, m.stage)]
<1>1. /\ pc[p] = "spawn" /\ Goto(p, "wait") /\ kid' = [kid EXCEPT ![p] = child]
      /\ UNCHANGED <<lock, world, resumed>>
  BY DEF Spawn
<1>2. /\ lock = p /\ newest # 0 /\ newest \in Runs /\ m = disk[newest]
      /\ Sound(m) /\ Honest(m) /\ m.run = newest /\ Witnessed(newest)
      /\ m.authorized => <<newest, m.rank, "download">> \in resumed
      /\ m.state = "RUNNING" /\ m \in Manifest
  BY <1>1, AtWorkTruly DEF Sound
<1>3. /\ disk' = disk /\ newest' = newest /\ mem' = mem /\ pc' = [pc EXCEPT ![p] = "wait"]
      /\ copies' = copies /\ rows' = rows /\ resumed' = resumed
  BY <1>1 DEF Goto, files, world
<1>4. \A q \in Procs : q # p => pc[q] = "off" /\ pc'[q] = "off" /\ kid'[q] = NoChild
  BY <1>1, <1>2, <1>3, OthersOff DEF FlowInv, ControlInv, TruthInv, KidsPlaced, KidPlaced,
                                     WorldInv, Slots
<1>5. /\ child.stage = m.stage /\ child.run = newest /\ child.rank = m.rank
      /\ child.phase = "started" /\ child.input = InputOf(m, m.stage)
      /\ child.resume_stalled => m.authorized
  BY <1>2
<1> HIDE DEF child
<1>6. kid'[p] = child /\ kid'[Nobody] = kid[Nobody] /\ pc'[p] = "wait"
  BY <1>1, <1>3, ProcsAssumption DEF FlowInv, ControlInv, WorldInv, Slots
<1>7. KidsTrue'
  <2>1. KidTrue(p)'
    <3>1. m.stage \in {"transfer", "history"} => Beyond(m, m.rank)
      BY <1>2 DEF Beyond, OpenStates
    <3>2. m.stage = "history" => <<newest, m.rank>> \in copies
      BY <1>2, HistoryCopied DEF Witnessed
    <3>3. m.stage \in DOMAIN Handoff => child.input \in Handoff[m.stage]
      BY <1>2, <1>5, InputVerified DEF Handoff
    <3> QED
      BY <1>2, <1>3, <1>5, <1>6, <3>1, <3>2, <3>3 DEF KidTrue, MovieOf
  <2>2. \A q \in Procs : q # p => KidTrue(q)'
    BY <1>4, NoChildIdle DEF KidTrue
  <2>3. KidTrue(Nobody)'
    BY <1>3, <1>6 DEF TruthInv, KidsTrue, KidTrue, Slots
  <2> QED
    BY <2>1, <2>2, <2>3 DEF KidsTrue, Slots
<1>8. KidsPlaced'
  BY <1>2, <1>3, <1>4, <1>5, <1>6 DEF TruthInv, KidsPlaced, KidPlaced
<1>9. ConsentTrue'
  <2>1. kid'[p].resume_stalled => <<kid'[p].run, kid'[p].rank, "download">> \in resumed
    BY <1>2, <1>5, <1>6
  <2> QED
    BY <1>3, <1>4, <2>1, NoChildIdle DEF TruthInv, ConsentTrue
<1>10. Manifested' /\ WorldTrue'
  BY <1>3 DEF TruthInv, Manifested, Witnessed, WorldTrue
<1> QED
  BY <1>7, <1>8, <1>9, <1>10 DEF TruthInv

\* A child that cannot be launched.
LEMMA LaunchFailsTruth ==
  ASSUME FlowInv, TruthInv, NEW p \in Procs, LaunchFails(p)
  PROVE  TruthInv'
<1> DEFINE n == FailAttempt(mem[p], "LAUNCH_FAILED")
<1>1. pc[p] = "spawn" /\ Save(p, n, "judge") /\ UNCHANGED <<kid, world, resumed>>
  BY DEF LaunchFails
<1>2. Sound(mem[p]) /\ Honest(mem[p]) /\ mem[p].state = "RUNNING"
  BY <1>1, AtWorkTruly
<1>3. /\ Stays(mem[p], n)
      /\ RecordOf(n, mem[p].stage).artifact = RecordOf(mem[p], mem[p].stage).artifact
  BY <1>2, FailTrue DEF AttemptStatus
<1> HIDE DEF n
<1> QED
  BY <1>1, <1>2, <1>3, StayTruth DEF OpenStates

\* A child that answers nothing readable.
LEMMA ChildBreaksTruth ==
  ASSUME FlowInv, TruthInv, NEW p \in Procs, ChildBreaks(p)
  PROVE  TruthInv'
<1> DEFINE n == FailAttempt(mem[p], "INVALID_OUTPUT")
<1>1. /\ pc[p] = "wait" /\ Save(p, n, "judge") /\ kid' = [kid EXCEPT ![p] = NoChild]
      /\ UNCHANGED <<world, resumed>>
  BY DEF ChildBreaks
<1>2. Sound(mem[p]) /\ Honest(mem[p]) /\ mem[p].state = "RUNNING"
  BY <1>1, AtWorkTruly
<1>3. /\ Stays(mem[p], n)
      /\ RecordOf(n, mem[p].stage).artifact = RecordOf(mem[p], mem[p].stage).artifact
  BY <1>2, FailTrue DEF AttemptStatus
<1> HIDE DEF n
<1> QED
  BY <1>1, <1>2, <1>3, StayTruth DEF OpenStates

\* An answer adds one artifact to what a manifest claims.
LEMMA AnswerClaims ==
  ASSUME NEW m, Sound(m), NEW n, Stays(m, n), NEW kind,
         RecordOf(n, m.stage).artifact = kind
  PROVE  /\ \A k \in MovedBy(n) :
               k \in MovedBy(m) \/ (k = m.rank /\ m.stage = "transfer" /\ kind \in Moved)
         /\ \A k \in ListedBy(n) :
               k \in ListedBy(m) \/ (k = m.rank /\ m.stage = "history" /\ kind \in Listed)
<1>1. SamePlace(m, n) /\ SameRest(m, n, m.stage)
  BY DEF Stays, Reworks
<1>2. RanksOf(n) = RanksOf(m) /\ (Batch(n) <=> Batch(m)) /\ n.rank = m.rank
  BY <1>1 DEF SamePlace, RanksOf, Batch
<1>3. ~Batch(m) => m.rank = 0
  BY BoundsAssumption DEF Sound, Placed, Ordered, Manifest
<1>4. ASSUME NEW t \in {"transfer", "history"}, NEW k \in RanksOf(m)
      PROVE  \/ RecordAt(n, k, t).artifact = RecordAt(m, k, t).artifact
             \/ k = m.rank /\ m.stage = t /\ RecordAt(n, k, t).artifact = kind
  <2>1. t \in ItemStages /\ t \in Stages
    BY DEF ItemStages, Stages
  <2>2. CASE k = m.rank
    <3>1. Near(m, t)
      BY <1>4, <2>1, <2>2 DEF Near, PerItem, RanksOf
    <3>2. RecordAt(n, k, t) = RecordOf(n, t) /\ RecordAt(m, k, t) = RecordOf(m, t)
      BY <1>2, <2>1, <2>2 DEF RecordAt, RecordOf, PerItem
    <3>3. CASE t = m.stage
      BY <2>2, <3>2, <3>3
    <3>4. CASE t # m.stage
      BY <1>1, <2>1, <3>1, <3>2, <3>4 DEF SameRest
    <3> QED
      BY <3>3, <3>4
  <2>3. CASE k # m.rank
    <3>1. Batch(m) /\ k \in Ranks
      BY <1>3, <1>4, <2>3 DEF RanksOf
    <3> QED
      BY <1>1, <1>2, <2>3, <3>1 DEF RecordAt, SamePlace
  <2> QED
    BY <2>2, <2>3
<1>5. ASSUME NEW k \in MovedBy(n)
      PROVE  k \in MovedBy(m) \/ (k = m.rank /\ m.stage = "transfer" /\ kind \in Moved)
  <2>1. k \in RanksOf(m) /\ RecordAt(n, k, "transfer").artifact \in Moved
    BY <1>2 DEF MovedBy
  <2> QED
    BY <1>4, <2>1 DEF MovedBy
<1>6. ASSUME NEW k \in ListedBy(n)
      PROVE  k \in ListedBy(m) \/ (k = m.rank /\ m.stage = "history" /\ kind \in Listed)
  <2>1. k \in RanksOf(m) /\ RecordAt(n, k, "history").artifact \in Listed
    BY <1>2 DEF ListedBy
  <2> QED
    BY <1>4, <2>1 DEF ListedBy
<1> QED
  BY <1>5, <1>6

\* A child's answer: a transfer answers that it moved a payload only after it
\* copied it, and a history stage only after it saw or appended the row.
LEMMA ChildAnswersTruth ==
  ASSUME FlowInv, TruthInv, NEW p \in Procs, ChildAnswers(p)
  PROVE  TruthInv'
<1>1. PICK kind \in Kinds[kid[p].stage], found \in 0..Target :
         /\ kind \in {"moved", "cleanup_failed"} <=> kid[p].phase = "copied"
         /\ kind = "recorded" => kid[p].phase = "appended"
         /\ kind = "already_recorded" <=> kid[p].phase = "listed"
         /\ Save(p, CompleteAttempt(mem[p], kind, found), "judge")
  BY DEF ChildAnswers
<1> DEFINE m == mem[p]
           n == CompleteAttempt(m, kind, found)
<1>2. pc[p] = "wait" /\ kid' = [kid EXCEPT ![p] = NoChild] /\ UNCHANGED <<world, resumed>>
  BY DEF ChildAnswers
<1>3. /\ lock = p /\ newest # 0 /\ newest \in Runs /\ m = disk[newest]
      /\ Sound(m) /\ Honest(m) /\ m.run = newest /\ Witnessed(newest)
      /\ m.authorized => <<newest, m.rank, "download">> \in resumed
      /\ m.state = "RUNNING" /\ m.state \in OpenStates
  BY <1>2, AtWorkTruly DEF OpenStates
<1>4. kid[p].stage = m.stage /\ kid[p].run = newest /\ kid[p].rank = m.rank /\ KidTrue(p)
  BY <1>2, <1>3 DEF TruthInv, KidsPlaced, KidPlaced, KidsTrue, Slots
<1>5. Stays(m, n) /\ RecordOf(n, m.stage).artifact = kind
  BY <1>1, <1>3, <1>4, CompleteTrue
<1> HIDE DEF n
<1>6. Honest(n) /\ \A k \in 0..Target : Beyond(m, k) => Beyond(n, k)
  BY <1>3, <1>5, StayHonest
<1>7. n.run = newest /\ n.rank = m.rank /\ n.authorized = m.authorized
  BY <1>3, <1>5 DEF Stays, Reworks, SamePlace
<1>8. \A k \in MovedBy(n) : <<newest, k>> \in copies
  <2>1. kind \in Moved => <<newest, m.rank>> \in copies
    BY <1>1, <1>4 DEF KidTrue, MovieOf, Moved
  <2> QED
    BY <1>3, <1>5, <2>1, AnswerClaims DEF Witnessed
<1>9. \A k \in ListedBy(n) : rows[<<newest, k>>] > 0
  <2>1. kind \in Listed => rows[<<newest, m.rank>>] > 0
    BY <1>1, <1>4 DEF KidTrue, MovieOf, Listed
  <2> QED
    BY <1>3, <1>5, <2>1, AnswerClaims DEF Witnessed
<1>10. Save(p, n, "judge")
  BY <1>1 DEF n
<1> QED
  BY <1>2, <1>3, <1>6, <1>7, <1>8, <1>9, <1>10, SaveTruth

\* The evaluation of an attempt.
LEMMA JudgeTruth ==
  ASSUME FlowInv, TruthInv, NEW p \in Procs, Judge(p)
  PROVE  TruthInv'
<1> DEFINE n == EvaluateStage(mem[p])
<1>1. pc[p] = "judge" /\ Save(p, n, NextPlace(n)) /\ UNCHANGED <<kid, world, resumed>>
  BY DEF Judge
<1>2. /\ lock = p /\ newest # 0 /\ mem[p] = disk[newest] /\ mem[p].run = newest
      /\ Sound(mem[p]) /\ Honest(mem[p]) /\ mem[p].state = "RUNNING"
      /\ mem[p].authorized => <<newest, mem[p].rank, "download">> \in resumed
  BY <1>1, AtWorkTruly
<1>3. /\ Honest(n) /\ Carries(mem[p], n)
      /\ n.authorized => mem[p].authorized /\ n.rank = mem[p].rank
  BY <1>2, EvaluateTrue DEF Truly
<1>4. n.run = newest
  BY <1>2, EvaluateStageFollows DEF Follows, OpenStates
<1> HIDE DEF n
<1> QED
  BY <1>1, <1>2, <1>3, <1>4, LoopTruth

\* The copy to latest-status.json.
LEMMA MirrorTruth ==
  ASSUME FlowInv, TruthInv, NEW p \in Procs, Mirror(p)
  PROVE  TruthInv'
<1>1. /\ pc[p] = "mirror" /\ pc' = [pc EXCEPT ![p] = after[p]]
      /\ UNCHANGED <<disk, newest, kid, world, resumed>>
  BY DEF Mirror
<1>2. lock = p /\ after[p] # "wait"
  BY <1>1, AtWork DEF FlowInv
<1>3. \A q \in Procs : pc[q] # "wait" /\ pc'[q] # "wait"
  BY <1>1, <1>2, OthersOff DEF FlowInv, ControlInv
<1> QED
  BY <1>1, <1>3, QuietTruth

\* The end of a command.
LEMMA ExitTruth ==
  ASSUME FlowInv, TruthInv, NEW p \in Procs, Exit(p)
  PROVE  TruthInv'
<1>1. /\ pc[p] = "exit" /\ pc' = [pc EXCEPT ![p] = "off"]
      /\ UNCHANGED <<disk, newest, kid, world, resumed>>
  BY DEF Exit, files
<1>2. lock = p
  BY <1>1 DEF FlowInv, ControlInv
<1>3. \A q \in Procs : pc[q] # "wait" /\ pc'[q] # "wait"
  BY <1>1, <1>2, OthersOff DEF FlowInv, ControlInv
<1> QED
  BY <1>1, <1>3, QuietTruth

\* A death takes the child along or leaves it to nobody.
LEMMA CrashTruth ==
  ASSUME FlowInv, TruthInv, NEW p \in Procs, Crash(p) \/ CrashLeavingOrphan(p)
  PROVE  TruthInv'
<1>1. /\ pc[p] # "off" /\ pc' = [pc EXCEPT ![p] = "off"] /\ mem' = [mem EXCEPT ![p] = Absent(1)]
      /\ disk' = disk /\ newest' = newest /\ resumed' = resumed
      /\ copies' = copies /\ rows' = rows
  BY DEF Crash, CrashLeavingOrphan, Dies, files, world
<1>2. lock = p
  BY <1>1 DEF FlowInv, ControlInv
<1>3. \A q \in Procs : pc'[q] = "off"
  BY <1>1, <1>2, OthersOff DEF FlowInv, ControlInv
<1>4. /\ \A q \in Procs : kid'[q] = NoChild
      /\ kid'[Nobody] = kid[Nobody] \/ (Orphans /\ kid'[Nobody] = kid[p])
  <2>1. \A q \in Procs : q # p => kid[q] = NoChild
    BY <1>2, OthersOff DEF TruthInv, KidsPlaced, KidPlaced
  <2>2. CASE Crash(p)
    BY <2>1, <2>2, ProcsAssumption DEF Crash, FlowInv, WorldInv, Slots
  <2>3. CASE CrashLeavingOrphan(p)
    <3>1. Orphans /\ kid' = [kid EXCEPT ![p] = NoChild, ![Nobody] = kid[p]]
      BY <2>3 DEF CrashLeavingOrphan
    <3> QED
      BY <2>1, <3>1, ProcsAssumption DEF FlowInv, WorldInv, Slots
  <2> QED
    BY <2>2, <2>3
<1>5. KidsTrue'
  <2>1. \A q \in Procs : KidTrue(q)'
    BY <1>4, NoChildIdle DEF KidTrue
  <2>2. KidTrue(Nobody)'
    BY <1>1, <1>4 DEF TruthInv, KidsTrue, KidTrue, Slots
  <2> QED
    BY <2>1, <2>2 DEF KidsTrue, Slots
<1>6. KidsPlaced'
  BY <1>3, <1>4 DEF TruthInv, KidsPlaced, KidPlaced
<1>7. ConsentTrue'
  BY <1>1, <1>4, NoChildIdle DEF TruthInv, ConsentTrue
<1>8. Manifested' /\ WorldTrue'
  BY <1>1 DEF TruthInv, Manifested, Witnessed, WorldTrue
<1> QED
  BY <1>5, <1>6, <1>7, <1>8 DEF TruthInv

\* Two steps of a child differ from each other only in its phase.
LEMMA PhaseTruth ==
  ASSUME FlowInv, TruthInv, NEW c \in Slots, Alive(kid[c]), NEW phase \in Phases,
         kid' = [kid EXCEPT ![c].phase = phase],
         UNCHANGED <<files, lock, control, resumed>>,
         copies \subseteq copies', \A movie \in Movies : rows[movie] > 0 => rows'[movie] > 0,
         phase = "copied" => kid[c].stage = "transfer" /\ MovieOf(kid[c]) \in copies',
         phase \in {"listed", "appended"} => kid[c].stage = "history" /\ rows'[MovieOf(kid[c])] > 0,
         phase = "unlisted" => kid[c].stage = "history",
         WorldTrue'
  PROVE  TruthInv'
<1>1. /\ disk' = disk /\ newest' = newest /\ pc' = pc /\ mem' = mem /\ resumed' = resumed
  BY DEF files, control
<1>2. /\ kid \in [Slots -> Child]
      /\ \A d \in Slots : kid[d].run \in Runs /\ kid[d].rank \in 0..Target
  BY DEF FlowInv, WorldInv, Child
<1>3. \A d \in Slots : d # c => kid'[d] = kid[d]
  BY <1>2
<1>4. /\ kid'[c].stage = kid[c].stage /\ kid'[c].run = kid[c].run /\ kid'[c].rank = kid[c].rank
      /\ kid'[c].input = kid[c].input /\ kid'[c].resume_stalled = kid[c].resume_stalled
      /\ kid'[c].phase = phase
  BY <1>2 DEF Child
<1>5. \A d \in Slots : MovieOf(kid'[d]) = MovieOf(kid[d]) /\ MovieOf(kid[d]) \in Movies
  BY <1>2, <1>3, <1>4 DEF MovieOf, Movies
<1>6. Manifested'
  <2>1. \A r \in Runs, k \in 0..Target : <<r, k>> \in Movies
    BY DEF Movies
  <2>2. \A r \in Runs : \A k \in ListedBy(disk[r]) : k \in 0..Target
    BY BoundsAssumption DEF ListedBy, RanksOf, Ranks
  <2> QED
    BY <1>1, <2>1, <2>2 DEF TruthInv, Manifested, Witnessed
<1>7. KidsTrue'
  <2>1. KidTrue(c)'
    <3>1. KidTrue(c)
      BY DEF TruthInv, KidsTrue
    <3> QED
      BY <1>1, <1>4, <1>5, <3>1 DEF KidTrue
  <2>2. ASSUME NEW d \in Slots, d # c
        PROVE  KidTrue(d)'
    <3>1. KidTrue(d) /\ kid'[d] = kid[d] /\ MovieOf(kid[d]) \in Movies
      BY <1>3, <1>5, <2>2 DEF TruthInv, KidsTrue
    <3> QED
      BY <1>1, <3>1 DEF KidTrue
  <2> QED
    BY <2>1, <2>2 DEF KidsTrue
<1>8. KidsPlaced'
  <2>1. ASSUME NEW q \in Procs
        PROVE  KidPlaced(q)'
    <3>1. q \in Slots /\ KidPlaced(q)
      BY DEF TruthInv, KidsPlaced, Slots
    <3>2. CASE q = c
      BY <1>1, <1>4, <3>1, <3>2, NoChildIdle DEF KidPlaced
    <3>3. CASE q # c
      BY <1>1, <1>3, <3>1, <3>3 DEF KidPlaced
    <3> QED
      BY <3>2, <3>3
  <2>2. ~Orphans => kid'[Nobody] = NoChild
    BY <1>3, NoChildIdle DEF TruthInv, KidsPlaced, Slots
  <2> QED
    BY <2>1, <2>2 DEF KidsPlaced
<1>9. ConsentTrue'
  <2>1. \A q \in Procs : /\ kid'[q].run = kid[q].run /\ kid'[q].rank = kid[q].rank
                         /\ kid'[q].resume_stalled = kid[q].resume_stalled
    BY <1>3, <1>4 DEF Slots
  <2> QED
    BY <1>1, <2>1 DEF TruthInv, ConsentTrue
<1> QED
  BY <1>6, <1>7, <1>8, <1>9 DEF TruthInv

\* What a child does to the world is what its run has come to.
LEMMA EffectTruth ==
  ASSUME FlowInv, TruthInv, NEW c \in Slots, Effect(c)
  PROVE  TruthInv'
<1>1. /\ KidTrue(c) /\ kid[c] \in Child /\ MovieOf(kid[c]) \in Movies
      /\ MovieOf(kid[c])[1] = kid[c].run /\ MovieOf(kid[c])[2] = kid[c].rank
      /\ rows \in [Movies -> Nat]
  BY DEF FlowInv, WorldInv, TruthInv, KidsTrue, Child, MovieOf, Movies
<1>2. WorldTrue
  BY DEF TruthInv
<1>3. CASE CopyPayload(c)
  <2>1. /\ kid[c].stage = "transfer" /\ copies' = copies \cup {MovieOf(kid[c])}
        /\ kid' = [kid EXCEPT ![c].phase = "copied"]
        /\ rows' = rows /\ UNCHANGED <<files, lock, control, resumed>>
    BY <1>3 DEF CopyPayload
  <2>2. disk' = disk
    BY <2>1 DEF files
  <2>3. Beyond(disk[MovieOf(kid[c])[1]], MovieOf(kid[c])[2])
    BY <1>1, <2>1 DEF KidTrue
  <2>4. WorldTrue'
    BY <1>2, <2>1, <2>2, <2>3 DEF WorldTrue
  <2> QED
    BY <1>1, <2>1, <2>4, PhaseTruth DEF Alive, Phases
<1>4. CASE ReadSheet(c)
  <2> DEFINE phase == IF rows[MovieOf(kid[c])] > 0 THEN "listed" ELSE "unlisted"
  <2>1. /\ kid[c].stage = "history" /\ kid' = [kid EXCEPT ![c].phase = phase]
        /\ copies' = copies /\ rows' = rows /\ UNCHANGED <<files, lock, control, resumed>>
    BY <1>4 DEF ReadSheet, world
  <2>2. /\ phase \in Phases /\ phase \notin {"copied", "appended"}
        /\ phase = "listed" => rows[MovieOf(kid[c])] > 0
    BY DEF Phases
  <2> HIDE DEF phase
  <2>3. WorldTrue'
    BY <1>2, <2>1 DEF WorldTrue, files
  <2> QED
    BY <1>1, <2>1, <2>2, <2>3, PhaseTruth DEF Alive
<1>5. CASE AppendRow(c)
  <2>1. /\ kid[c].stage = "history" /\ kid' = [kid EXCEPT ![c].phase = "appended"]
        /\ rows' = [rows EXCEPT ![MovieOf(kid[c])] = rows[MovieOf(kid[c])] + 1]
        /\ copies' = copies /\ UNCHANGED <<files, lock, control, resumed>>
    BY <1>5 DEF AppendRow
  <2>2. \A movie \in Movies : rows'[movie] = IF movie = MovieOf(kid[c]) THEN rows[movie] + 1
                                             ELSE rows[movie]
    BY <1>1, <2>1
  <2>3. rows[MovieOf(kid[c])] \in Nat /\ MovieOf(kid[c]) \in copies
    BY <1>1, <2>1 DEF KidTrue
  <2>4. WorldTrue'
    BY <1>2, <2>1, <2>2, <2>3 DEF WorldTrue, files
  <2>5. rows'[MovieOf(kid[c])] > 0 /\ \A movie \in Movies : rows[movie] > 0 => rows'[movie] > 0
    BY <1>1, <2>2, <2>3
  <2> QED
    BY <1>1, <2>1, <2>4, <2>5, PhaseTruth DEF Alive, Phases
<1> QED
  BY <1>3, <1>4, <1>5 DEF Effect

\* The end of an orphan takes nothing back.
LEMMA OrphanEndsTruth ==
  ASSUME FlowInv, TruthInv, OrphanEnds
  PROVE  TruthInv'
<1>1. /\ kid' = [kid EXCEPT ![Nobody] = NoChild]
      /\ disk' = disk /\ newest' = newest /\ pc' = pc /\ mem' = mem /\ resumed' = resumed
      /\ copies' = copies /\ rows' = rows
  BY DEF OrphanEnds, files, control, world
<1>2. kid'[Nobody] = NoChild /\ \A q \in Procs : kid'[q] = kid[q]
  BY <1>1, ProcsAssumption DEF FlowInv, WorldInv, Slots
<1>3. KidsTrue'
  <2>1. KidTrue(Nobody)'
    BY <1>2, NoChildIdle DEF KidTrue
  <2>2. \A q \in Procs : KidTrue(q)'
    BY <1>1, <1>2 DEF TruthInv, KidsTrue, KidTrue, Slots
  <2> QED
    BY <2>1, <2>2 DEF KidsTrue, Slots
<1>4. KidsPlaced' /\ ConsentTrue'
  BY <1>1, <1>2 DEF TruthInv, KidsPlaced, KidPlaced, ConsentTrue
<1>5. Manifested' /\ WorldTrue'
  BY <1>1 DEF TruthInv, Manifested, Witnessed, WorldTrue
<1> QED
  BY <1>3, <1>4, <1>5 DEF TruthInv

-----------------------------------------------------------------------------
(* The induction *)

\* An empty directory, or one with a schema-1 run, claims nothing.
LEMMA InitTruth ==
  ASSUME Init
  PROVE  TruthInv
<1>1. 1 \in Runs
  BY BoundsAssumption DEF Runs
<1>2. \A r \in Runs : /\ Honest(disk[r]) /\ ~disk[r].authorized
                      /\ MovedBy(disk[r]) = {} /\ ListedBy(disk[r]) = {}
  <2>1. \A r \in Runs : disk[r] = NewManifest(1, 1) \/ disk[r] = Absent(r)
    BY DEF Init
  <2>2. \A r \in Runs : ~Absent(r).authorized
    BY DEF Absent, NewManifest
  <2> QED
    BY <1>1, <2>1, <2>2, NewHonest
<1>3. Manifested
  BY <1>2 DEF Manifested, Witnessed
<1>4. KidsTrue
  BY NoChildIdle DEF Init, KidsTrue, KidTrue
<1>5. KidsPlaced
  BY DEF Init, KidsPlaced, KidPlaced, Slots
<1>6. WorldTrue
  BY DEF Init, WorldTrue
<1>7. ConsentTrue
  <2>1. newest \in {0, 1}
    BY DEF Init
  <2> QED
    BY <1>1, <1>2, <2>1, NoChildIdle DEF Init, ConsentTrue, Slots
<1> QED
  BY <1>3, <1>4, <1>5, <1>6, <1>7 DEF TruthInv

\* Every step keeps it.
LEMMA StepTruth ==
  ASSUME FlowInv, TruthInv, [Next]_vars
  PROVE  TruthInv'
<1>1. ASSUME NEW p \in Procs, Command(p) PROVE TruthInv'
  BY <1>1, RunNewTruth, RunContinueTruth, RefuseTruth, ResumeTruth, ClearTruth DEF Command
<1>2. ASSUME NEW p \in Procs, Step(p) PROVE TruthInv'
  <2>1. CASE Recover(p) \/ Execute(p) \/ Spawn(p) \/ LaunchFails(p)
    BY <2>1, RecoverTruth, ExecuteTruth, SpawnTruth, LaunchFailsTruth
  <2>2. CASE ChildAnswers(p) \/ ChildBreaks(p) \/ Judge(p)
    BY <2>2, ChildAnswersTruth, ChildBreaksTruth, JudgeTruth
  <2>3. CASE Mirror(p) \/ Exit(p)
    BY <2>3, MirrorTruth, ExitTruth
  <2> QED
    BY <1>2, <2>1, <2>2, <2>3 DEF Step
<1>3. ASSUME NEW p \in Procs, Crash(p) \/ CrashLeavingOrphan(p) PROVE TruthInv'
  BY <1>3, CrashTruth
<1>4. CASE (\E c \in Slots : Effect(c)) \/ OrphanEnds
  BY <1>4, EffectTruth, OrphanEndsTruth
<1>5. CASE UNCHANGED vars
  BY <1>5 DEF vars, TruthInv, Manifested, Witnessed, KidsTrue, KidTrue, KidsPlaced, KidPlaced,
              WorldTrue, ConsentTrue
<1> QED
  BY <1>1, <1>2, <1>3, <1>4, <1>5 DEF Next

-----------------------------------------------------------------------------
(* The theorems *)

\* What the manifests say is true, and what happened is accounted for, at
\* every moment of every history of the flow, crashes and orphans included.
THEOREM TruthInvariant == Spec => [](FlowInv /\ TruthInv)
<1>1. Init => FlowInv /\ TruthInv
  BY InitFlowInv, InitTruth
<1>2. (FlowInv /\ TruthInv) /\ [Next]_vars => (FlowInv /\ TruthInv)'
  BY StepKeeps, StepTruth DEF Preserved
<1> QED
  BY <1>1, <1>2, PTL DEF Spec

\* --resume-stalled reaches only the download of the movie whose stall an
\* operator decided about: the stored permission never outlives its stage.
THEOREM StallsResumedByConsent == Spec => []StallConsent
<1>1. ASSUME FlowInv, TruthInv PROVE StallConsent
  <2>1. 1 \in Runs
    BY BoundsAssumption DEF Runs
  <2>2. newest = 0 => ~disk[1].authorized
    <3>1. newest = 0 => disk[1] = Absent(1)
      BY <1>1, <2>1 DEF FlowInv, FilesInv
    <3>2. ~Absent(1).authorized
      BY DEF Absent, NewManifest
    <3> QED
      BY <3>1, <3>2
  <2>3. newest # 0 => Honest(disk[newest])
    BY <1>1, NewestIsRun DEF FlowInv, TruthInv, Manifested
  <2> QED
    BY <1>1, <2>2, <2>3 DEF TruthInv, ConsentTrue, StallConsent, Newest, Honest, Granted
<1> QED
  BY <1>1, TruthInvariant, PTL

\* _latest_artifact hands a child only the successful artifact of the stage
\* before, although failed attempts overwrite latest_artifact too.
THEOREM HandoffsVerified == Spec => []HandoffVerified
<1>1. TruthInv => HandoffVerified
  BY DEF TruthInv, KidsTrue, KidTrue, HandoffVerified
<1> QED
  BY <1>1, TruthInvariant, PTL

\* An item a manifest calls acquired is listed in the sheet.
LEMMA AcquiredListed ==
  ASSUME FlowInv, TruthInv, NEW r \in Runs, NEW k \in Ranks,
         disk[r].items[k].status \in {"ACQUIRED", "ACQUIRED_CLEANUP_REQUIRED"}
  PROVE  rows[<<r, k>>] > 0
<1> DEFINE m == disk[r]
<1>1. Sound(m) /\ Honest(m) /\ Witnessed(r)
  BY DEF FlowInv, FilesInv, TruthInv, Manifested
<1>2. AcquiredRecords(m.items[k])
  BY <1>1 DEF Honest, ItemsTrue
<1>3. Batch(m)
  <2>1. ~Batch(m) => m.requested = 0
    BY <1>1 DEF Sound, Placed
  <2>2. FreshItem.status = "PENDING"
    BY DEF FreshItem
  <2> QED
    BY <1>1, <2>1, <2>2, NothingFound
<1>4. k \in ListedBy(m)
  BY <1>2, <1>3 DEF ListedBy, RanksOf, RecordAt, AcquiredRecords
<1> QED
  BY <1>1, <1>4 DEF Witnessed

\* A movie of a movie set.
LEMMA MovieParts ==
  ASSUME NEW movie \in Movies
  PROVE  movie[1] \in Runs /\ movie[2] \in 0..Target /\ movie = <<movie[1], movie[2]>>
BY DEF Movies

\* A movie called acquired is in the movies directory and in the sheet, and
\* the sheet lists nothing that is not in the directory.
THEOREM AcquisitionsAreReal == Spec => []AcquiredIsReal
<1>1. ASSUME FlowInv, TruthInv PROVE AcquiredIsReal
  <2>1. \A movie \in Movies : rows[movie] > 0 => movie \in copies
    BY <1>1 DEF TruthInv, WorldTrue
  <2>2. ASSUME NEW r \in Runs, NEW k \in Ranks,
               disk[r].items[k].status \in {"ACQUIRED", "ACQUIRED_CLEANUP_REQUIRED"}
        PROVE  <<r, k>> \in copies /\ rows[<<r, k>>] > 0
    <3>1. <<r, k>> \in Movies
      BY BoundsAssumption DEF Movies, Ranks
    <3> QED
      BY <1>1, <2>1, <2>2, <3>1, AcquiredListed
  <2>3. ASSUME NEW r \in Runs, ~Batch(disk[r]), disk[r].state = "COMPLETED"
        PROVE  rows[<<r, 0>>] > 0
    <3>1. Honest(disk[r]) /\ Witnessed(r)
      BY <1>1 DEF TruthInv, Manifested
    <3>2. 0 \in ListedBy(disk[r])
      BY <2>3, <3>1 DEF Honest, Reported, ListedBy, RanksOf, RecordAt
    <3> QED
      BY <3>1, <3>2 DEF Witnessed
  <2> QED
    BY <2>1, <2>2, <2>3 DEF AcquiredIsReal
<1> QED
  BY <1>1, TruthInvariant, PTL

\* A movie that was copied and never recorded belongs to a run that is still
\* open or that an operator cleared: no failure path drops it silently.
THEOREM CopiesAccounted == Spec => []CopyAccounted
<1>1. ASSUME FlowInv, TruthInv PROVE CopyAccounted
  <2> SUFFICES ASSUME NEW movie \in copies, rows[movie] = 0
               PROVE  disk[movie[1]].state \in {"RUNNING", "RETRYABLE_FAILURE",
                                                "ATTENTION_REQUIRED", "CLEARED"}
    BY DEF CopyAccounted
  <2>1. movie \in Movies
    BY <1>1 DEF FlowInv, WorldInv
  <2> DEFINE r == movie[1]
             k == movie[2]
  <2>2. r \in Runs /\ k \in 0..Target /\ movie = <<r, k>>
    BY <2>1, MovieParts
  <2> HIDE DEF r, k
  <2>3. Beyond(disk[r], k) /\ Honest(disk[r]) /\ Witnessed(r)
    BY <1>1, <2>2 DEF TruthInv, WorldTrue, Manifested, r, k
  <2>4. ~(rows[<<r, k>>] > 0)
    BY <2>2
  <2>5. ~(k \in Ranks /\ disk[r].items[k].status = "ACQUIRED")
    BY <1>1, <2>2, <2>4, AcquiredListed
  <2>6. ~(~Batch(disk[r]) /\ k = 0 /\ disk[r].state = "COMPLETED")
    <3>1. ASSUME ~Batch(disk[r]), k = 0, disk[r].state = "COMPLETED" PROVE FALSE
      <4>1. 0 \in ListedBy(disk[r])
        BY <2>3, <3>1 DEF Honest, Reported, ListedBy, RanksOf, RecordAt
      <4> QED
        BY <2>3, <2>4, <3>1, <4>1 DEF Witnessed
    <3> QED
      BY <3>1
  <2> QED
    BY <2>3, <2>5, <2>6 DEF Beyond, OpenStates, r
<1> QED
  BY <1>1, TruthInvariant, PTL

\* What a batch that completed recorded are the movies it calls acquired.
LEMMA CompletedRecords ==
  ASSUME FlowInv, TruthInv, NEW r \in Runs, Batch(disk[r]), disk[r].state = "COMPLETED"
  PROVE  RecordedBy(r) = Gained(disk[r])
<1>1. ASSUME NEW k \in RecordedBy(r)
      PROVE  k \in Gained(disk[r])
  <2>1. <<r, k>> \in Movies /\ rows[<<r, k>>] > 0
    BY DEF RecordedBy, Movies
  <2>2. Beyond(disk[r], k)
    BY <2>1 DEF TruthInv, WorldTrue
  <2> QED
    BY <2>2 DEF Beyond, OpenStates, Gained
<1>2. ASSUME NEW k \in Gained(disk[r])
      PROVE  k \in RecordedBy(r)
  <2>1. k \in Ranks /\ k \in 0..Target /\ disk[r].items[k].status = "ACQUIRED"
    BY BoundsAssumption DEF Gained, Ranks
  <2> QED
    BY <2>1, AcquiredListed DEF RecordedBy
<1> QED
  BY <1>1, <1>2

\* The counts and the final result of every persisted manifest are true of
\* its items, of the sheet and of the movies directory.
THEOREM ReportsTrue == Spec => []ReportsAreTruthful
<1>1. ASSUME FlowInv, TruthInv PROVE ReportsAreTruthful
  <2> SUFFICES ASSUME NEW r \in Runs
               PROVE  LET m == disk[r] IN
                      /\ m.acquired = Count(m, "ACQUIRED") /\ m.skipped = Count(m, "SKIPPED")
                      /\ m.state \in {"NO_ACTION_NEEDED", "NO_ACQUISITION_AVAILABLE"} =>
                             \A k \in 0..Target : <<r, k>> \notin copies
                      /\ Batch(m) /\ m.result = "flow_completed" => RecordedBy(r) = Ranks
                      /\ m.result = "flow_completed_with_skips" =>
                             RecordedBy(r) # {} /\ RecordedBy(r) # Ranks
    BY DEF ReportsAreTruthful
  <2> DEFINE m == disk[r]
  <2>1. Honest(m)
    BY <1>1 DEF TruthInv, Manifested
  <2>2. m.acquired = Count(m, "ACQUIRED") /\ m.skipped = Count(m, "SKIPPED")
    BY <2>1 DEF Honest, Counted
  <2>3. ASSUME m.state \in {"NO_ACTION_NEEDED", "NO_ACQUISITION_AVAILABLE"},
               NEW k \in 0..Target, <<r, k>> \in copies
        PROVE  FALSE
    <3>1. Beyond(m, k)
      BY <1>1, <2>3 DEF TruthInv, WorldTrue
    <3>2. Gained(m) = {}
      BY <2>1, <2>3 DEF Honest, Reported
    <3> QED
      BY <2>3, <3>1, <3>2 DEF Beyond, OpenStates, Gained
  <2>4. Batch(m) /\ m.state = "COMPLETED" => RecordedBy(r) = Gained(m)
    BY <1>1, CompletedRecords
  <2> HIDE DEF m
  <2>5. Batch(m) /\ m.result = "flow_completed" => RecordedBy(r) = Ranks
    BY <2>1, <2>4 DEF Honest, Reported
  <2>6. m.result = "flow_completed_with_skips" => RecordedBy(r) # {} /\ RecordedBy(r) # Ranks
    BY <2>1, <2>4 DEF Honest, Reported
  <2> QED
    BY <2>2, <2>3, <2>5, <2>6 DEF m
<1> QED
  BY <1>1, TruthInvariant, PTL

\* When a batch ends by itself, the run-level status of each item stage says
\* whether all, some or none of its movies got through that stage.
THEOREM AggregatesAreSettled == Spec => []AggregatesSettle
<1>1. TruthInv => AggregatesSettle
  BY DEF TruthInv, Manifested, Honest, SettledAggregates, AggregatesSettle, Through
<1> QED
  BY <1>1, TruthInvariant, PTL

-----------------------------------------------------------------------------
(* Without orphans: one row per movie *)

\* A child that is about to append a movie is the only one that may, and the
\* sheet does not list it yet.
RowsInv ==
    /\ OneRowPerMovie
    /\ \A c \in Slots : kid[c].phase = "unlisted" => rows[MovieOf(kid[c])] = 0

\* Without orphans there is at most one child.
LEMMA OnlyChild ==
  ASSUME FlowInv, TruthInv, ~Orphans, NEW c \in Slots, Alive(kid[c]), NEW d \in Slots, d # c
  PROVE  kid[d] = NoChild
<1>1. kid[Nobody] = NoChild
  BY DEF TruthInv, KidsPlaced
<1>2. c \in Procs /\ pc[c] = "wait"
  BY <1>1, NoChildIdle DEF Slots, TruthInv, KidsPlaced, KidPlaced
<1>3. CASE d = Nobody
  BY <1>1, <1>3
<1>4. CASE d \in Procs
  <2>1. lock = c /\ pc[d] = "off"
    BY <1>2, <1>4, OthersOff DEF FlowInv, ControlInv
  <2> QED
    BY <1>4, <2>1 DEF TruthInv, KidsPlaced, KidPlaced
<1> QED
  BY <1>3, <1>4 DEF Slots

\* A step that leaves the sheet alone and starts no reading of it.
LEMMA RowsKept ==
  ASSUME RowsInv, rows' = rows,
         \A c \in Slots : kid'[c].phase = "unlisted" =>
             rows[MovieOf(kid'[c])] = 0
  PROVE  RowsInv'
BY DEF RowsInv, OneRowPerMovie

\* Every step keeps it.
LEMMA StepRows ==
  ASSUME FlowInv, TruthInv, RowsInv, ~Orphans, [Next]_vars
  PROVE  RowsInv'
<1>1. kid \in [Slots -> Child] /\ rows \in [Movies -> Nat]
  BY DEF FlowInv, WorldInv
<1>2. ASSUME rows' = rows, \A c \in Slots : kid'[c] = kid[c] \/ kid'[c].phase # "unlisted"
      PROVE  RowsInv'
  BY <1>2, RowsKept DEF RowsInv
<1>3. CASE rows' = rows /\ kid' = kid
  BY <1>2, <1>3
<1>4. ASSUME NEW p \in Procs, rows' = rows, NEW child, child.phase = "started",
             kid' = [kid EXCEPT ![p] = child]
      PROVE  RowsInv'
  BY <1>1, <1>2, <1>4
<1>5. ASSUME NEW p \in Procs, Command(p) PROVE RowsInv'
  BY <1>3, <1>5 DEF Command, RunNew, RunContinue, Refuse, Resume, Clear, world
<1>6. ASSUME NEW p \in Procs, Step(p) PROVE RowsInv'
  <2>1. CASE Recover(p) \/ Execute(p) \/ LaunchFails(p) \/ Judge(p) \/ Mirror(p) \/ Exit(p)
    BY <1>3, <2>1 DEF Recover, Execute, LaunchFails, Judge, Mirror, Exit, world
  <2>2. CASE Spawn(p)
    <3> DEFINE m == mem[p]
               child == [stage |-> m.stage, run |-> m.run, rank |-> m.rank,
                         phase |-> "started",
                         resume_stalled |-> m.stage = "download" /\ m.authorized,
                         input |-> InputOf(m, m.stage)]
    <3>1. rows' = rows /\ kid' = [kid EXCEPT ![p] = child]
      BY <2>2 DEF Spawn, world
    <3>2. child.phase = "started"
      OBVIOUS
    <3> HIDE DEF child
    <3> QED
      BY <1>4, <3>1, <3>2
  <2>3. CASE ChildAnswers(p) \/ ChildBreaks(p)
    BY <1>4, <2>3, NoChildIdle DEF ChildAnswers, ChildBreaks, world
  <2> QED
    BY <1>6, <2>1, <2>2, <2>3 DEF Step
<1>7. ASSUME NEW p \in Procs, Crash(p) \/ CrashLeavingOrphan(p) PROVE RowsInv'
  BY <1>4, <1>7, NoChildIdle DEF Crash, CrashLeavingOrphan, Dies, world
<1>8. ASSUME NEW c \in Slots, Effect(c) PROVE RowsInv'
  <2>1. /\ MovieOf(kid[c]) \in Movies
        /\ \A d \in Slots : kid[d] = NoChild => kid[d].phase = "started"
    BY <1>1, NoChildIdle DEF MovieOf, Movies, Child
  <2>2. CASE CopyPayload(c)
    <3>1. rows' = rows /\ kid' = [kid EXCEPT ![c].phase = "copied"]
      BY <2>2 DEF CopyPayload
    <3> QED
      BY <1>1, <1>2, <3>1 DEF Child
  <2>3. CASE ReadSheet(c)
    <3> DEFINE phase == IF rows[MovieOf(kid[c])] > 0 THEN "listed" ELSE "unlisted"
    <3>1. rows' = rows /\ kid' = [kid EXCEPT ![c].phase = phase]
      BY <2>3 DEF ReadSheet, world
    <3>2. phase = "unlisted" => rows[MovieOf(kid[c])] = 0
      BY <1>1, <2>1
    <3> HIDE DEF phase
    <3>3. /\ \A d \in Slots : d # c => kid'[d] = kid[d]
          /\ MovieOf(kid'[c]) = MovieOf(kid[c]) /\ kid'[c].phase = phase
      BY <1>1, <3>1 DEF Child, MovieOf
    <3> QED
      BY <3>1, <3>2, <3>3, RowsKept DEF RowsInv
  <2>4. CASE AppendRow(c)
    <3>1. /\ kid[c].stage = "history" /\ kid[c].phase = "unlisted"
          /\ rows' = [rows EXCEPT ![MovieOf(kid[c])] = rows[MovieOf(kid[c])] + 1]
          /\ kid' = [kid EXCEPT ![c].phase = "appended"]
      BY <2>4 DEF AppendRow
    <3>2. rows[MovieOf(kid[c])] = 0 /\ rows'[MovieOf(kid[c])] = 1
      BY <1>1, <2>1, <3>1 DEF RowsInv
    <3>3. \A movie \in Movies : movie # MovieOf(kid[c]) => rows'[movie] = rows[movie]
      BY <1>1, <3>1
    <3>4. OneRowPerMovie'
      BY <3>2, <3>3 DEF RowsInv, OneRowPerMovie
    <3>5. \A d \in Slots : d # c => kid'[d].phase # "unlisted"
      BY <1>1, <2>1, <3>1, OnlyChild, NoChildIdle DEF Alive
    <3>6. kid'[c].phase = "appended"
      BY <1>1, <3>1 DEF Child
    <3> QED
      BY <3>4, <3>5, <3>6 DEF RowsInv
  <2> QED
    BY <1>8, <2>2, <2>3, <2>4 DEF Effect
<1>9. CASE OrphanEnds
  BY <1>1, <1>2, <1>9, NoChildIdle, ProcsAssumption DEF OrphanEnds, world, Slots
<1>10. CASE UNCHANGED vars
  BY <1>3, <1>10 DEF vars
<1> QED
  BY <1>5, <1>6, <1>7, <1>8, <1>9, <1>10 DEF Next

\* As long as no child outlives its orchestrator, movie_history's reading
\* before appending keeps the sheet free of duplicates: whatever crashes and
\* is repeated, no movie gets a second row.
THEOREM OneRow == ~Orphans => (Spec => []OneRowPerMovie)
<1> SUFFICES ASSUME ~Orphans
             PROVE  Spec => []OneRowPerMovie
  OBVIOUS
<1>1. Init => RowsInv
  BY NoChildIdle DEF Init, RowsInv, OneRowPerMovie
<1>2. FlowInv /\ TruthInv /\ RowsInv /\ [Next]_vars => RowsInv'
  BY StepRows
<1>3. RowsInv => OneRowPerMovie
  BY DEF RowsInv
<1> QED
  BY <1>1, <1>2, <1>3, TruthInvariant, PTL DEF Spec
-----------------------------------------------------------------------------
(* With orphans: nothing unsafe is repeated beside one *)

\* An orphan's probe or transfer is still what the run is at: the attempt was
\* left RUNNING, or recovery put it before an operator; nobody executes it.
Held(m, s) ==
    /\ m.stage = s
    /\ \/ /\ m.state = "RUNNING" /\ RecordOf(m, s).attempt = "RUNNING"
          /\ \A q \in Procs : Place(q) \in {"off", "recover", "exit"}
       \/ /\ m.state = "ATTENTION_REQUIRED"
          /\ \A q \in Procs : Place(q) \in {"off", "exit"}

\* The run of an orphan has gone on to another movie, or an operator resumed
\* its stage, or the stage is held.
Overtaken(o) ==
    LET m == disk[o.run] IN
    Alive(o) =>
        /\ o.run <= newest
        /\ m.state \in OpenStates =>
              /\ o.rank <= m.rank
              /\ o.rank = m.rank /\ o.stage \in {"probe", "transfer"}
                    /\ <<o.run, o.rank, o.stage>> \notin resumed => Held(m, o.stage)

\* Only the stages an operator may correct are resumed, and an attempt is on
\* disk as RUNNING from before its child starts until after it ended.
OrphanInv ==
    /\ \A entry \in resumed : entry[3] \in ResumableStages
    /\ \A q \in Procs : Place(q) \in {"spawn", "wait"} =>
           RecordOf(mem[q], mem[q].stage).attempt = "RUNNING"
    /\ Overtaken(kid[Nobody])

\* A run that is open is the newest one.
LEMMA OpenIsNewest ==
  ASSUME FlowInv, NEW r \in Runs, r <= newest, disk[r].state \in OpenStates
  PROVE  r = newest /\ newest # 0
BY BoundsAssumption DEF FlowInv, FilesInv, Runs

\* Work never returns to an earlier movie while the run is open.
LEMMA RankGrows ==
  ASSUME NEW m, Sound(m), NEW n, Sound(n), Moves(m, n), n.state \in OpenStates
  PROVE  n.rank >= m.rank
<1>1. m.rank \in Nat /\ n.rank \in Nat /\ m.rank <= m.requested
  BY BoundsAssumption DEF Sound, Manifest, Ordered
<1>2. CASE Opens(m, n)
  BY <1>1, <1>2 DEF Opens
<1>3. CASE Closes(m, n)
  BY <1>1, <1>3 DEF Closes, OpenStates
<1> QED
  BY <1>1, <1>2, <1>3 DEF Moves, Ends, Reworks, SamePlace, OpenStates

\* A step that changes no manifest, and starts nobody on the stage loop.
LEMMA QuietOrphan ==
  ASSUME FlowInv, OrphanInv, disk' = disk, newest' = newest, resumed' = resumed,
         \A q \in Procs : \/ Place(q)' \in {Place(q), "off", "exit"}
                          \/ Place(q) \notin {"off", "recover", "exit"},
         \A q \in Procs : Place(q)' \in {"spawn", "wait"} =>
             Place(q) \in {"spawn", "wait"} /\ mem'[q] = mem[q],
         \/ kid'[Nobody] = NoChild
         \/ /\ kid'[Nobody].stage = kid[Nobody].stage /\ kid'[Nobody].run = kid[Nobody].run
            /\ kid'[Nobody].rank = kid[Nobody].rank
  PROVE  OrphanInv'
<1> DEFINE o == kid[Nobody]
<1>1. ASSUME NEW m, NEW s, Held(m, s)
      PROVE  /\ m.stage = s
             /\ \/ /\ m.state = "RUNNING" /\ RecordOf(m, s).attempt = "RUNNING"
                   /\ \A q \in Procs : Place(q)' \in {"off", "recover", "exit"}
                \/ /\ m.state = "ATTENTION_REQUIRED"
                   /\ \A q \in Procs : Place(q)' \in {"off", "exit"}
  BY <1>1 DEF Held
<1>2. Overtaken(kid[Nobody])'
  <2>1. CASE kid'[Nobody] = NoChild
    BY <2>1, NoChildIdle DEF Overtaken
  <2>2. CASE kid'[Nobody].stage = o.stage /\ kid'[Nobody].run = o.run /\ kid'[Nobody].rank = o.rank
    BY <1>1, <2>2 DEF OrphanInv, Overtaken, Held, Alive
  <2> QED
    BY <2>1, <2>2
<1> QED
  BY <1>2 DEF OrphanInv

\* A save by a process on the stage loop.
LEMMA BusyOrphan ==
  ASSUME FlowInv, TruthInv, OrphanInv, NEW p \in Procs,
         pc[p] \in {"exec", "wait", "spawn", "judge"},
         NEW n, NEW goto, Save(p, n, goto), Sound(n), n.run = mem[p].run, Moves(mem[p], n),
         goto # "wait", goto = "spawn" => RecordOf(n, n.stage).attempt = "RUNNING",
         resumed' = resumed, kid'[Nobody] = kid[Nobody]
  PROVE  OrphanInv'
<1> DEFINE o == kid[Nobody]
           m == mem[p]
<1>1. /\ lock = p /\ newest # 0 /\ newest \in Runs /\ m = disk[newest] /\ Sound(m)
      /\ m.run = newest /\ m.state \in OpenStates
  BY AtWork, NewestIsRun DEF FlowInv, Place, Continues, OpenStates
<1>2. \A q \in Procs : q # p => pc[q] = "off" /\ pc'[q] = "off"
  BY <1>1, OthersOff DEF Save, FlowInv, ControlInv
<1>3. pc'[p] = "mirror" /\ after'[p] = goto /\ mem'[p] = n
  BY DEF Save, FlowInv, ControlInv
<1>4. \A q \in Procs : Place(q)' \in {"spawn", "wait"} =>
          RecordOf(mem'[q], mem'[q].stage).attempt = "RUNNING"
  BY <1>2, <1>3 DEF Place
<1>5. /\ newest' = newest /\ disk'[newest] = n
      /\ \A r \in Runs : r # newest => disk'[r] = disk[r]
  BY <1>1 DEF Save, FlowInv, FilesInv
<1>6. Overtaken(o)'
  <2> SUFFICES ASSUME Alive(o)
               PROVE  /\ o.run <= newest
                      /\ disk'[o.run].state \in OpenStates =>
                            /\ o.rank <= disk'[o.run].rank
                            /\ o.rank = disk'[o.run].rank /\ o.stage \in {"probe", "transfer"}
                               => <<o.run, o.rank, o.stage>> \in resumed
    BY <1>5 DEF Overtaken
  <2>1. o.run \in Runs /\ o.rank \in Nat /\ o.run <= newest
    BY BoundsAssumption DEF OrphanInv, Overtaken, FlowInv, WorldInv, Slots, Child
  <2>2. CASE o.run # newest
    BY <1>5, <2>1, <2>2, OpenIsNewest
  <2>3. CASE o.run = newest
    <3>1. /\ o.rank <= m.rank
          /\ o.rank = m.rank /\ o.stage \in {"probe", "transfer"} =>
                <<o.run, o.rank, o.stage>> \in resumed
      BY <1>1, <2>3 DEF OrphanInv, Overtaken, Held, Place
    <3>2. n.state \in OpenStates => n.rank >= m.rank
      BY <1>1, RankGrows
    <3>3. m.rank \in Nat /\ n.rank \in Nat
      BY <1>1, BoundsAssumption DEF Sound, Manifest
    <3> QED
      BY <1>5, <2>1, <2>3, <3>1, <3>2, <3>3
  <2> QED
    BY <2>2, <2>3
<1> QED
  BY <1>4, <1>6 DEF OrphanInv

\* A run begins beside an orphan only when the orphan's run is over.
LEMMA RunNewOrphan ==
  ASSUME FlowInv, TruthInv, OrphanInv, NEW p \in Procs, RunNew(p)
  PROVE  OrphanInv'
<1> DEFINE r == newest + 1
           n == NewManifest(r, 2)
           o == kid[Nobody]
<1>1. /\ newest \in 0..MaxRuns /\ newest < MaxRuns /\ MaxRuns \in Nat
      /\ newest # 0 => disk[newest].state \in TerminalStates
      /\ lock = Nobody /\ Save(p, n, "exec") /\ resumed' = {} /\ kid' = kid
  BY BoundsAssumption DEF RunNew, TakeLock, FlowInv, FilesInv
<1>2. r \in Runs /\ n.run = r
  BY <1>1, NewManifestSound DEF Runs
<1> HIDE DEF n
<1>3. /\ newest' = r /\ \A q \in Runs : q # r => disk'[q] = disk[q]
  BY <1>1, <1>2 DEF Save, FlowInv, FilesInv
<1>4. \A q \in Procs : Place(q)' \notin {"spawn", "wait"}
  <2>1. \A q \in Procs : q # p => pc'[q] = "off"
    BY <1>1, OthersOff DEF Save, FlowInv, ControlInv
  <2>2. pc'[p] = "mirror" /\ after'[p] = "exec"
    BY <1>1 DEF Save, FlowInv, ControlInv
  <2> QED
    BY <2>1, <2>2 DEF Place
<1>5. Overtaken(o)'
  <2> SUFFICES ASSUME Alive(o)
               PROVE  o.run <= newest' /\ disk'[o.run].state \notin OpenStates
    BY <1>1 DEF Overtaken
  <2>1. o.run \in Runs /\ o.run <= newest /\ o.run \in Nat
    BY BoundsAssumption DEF OrphanInv, Overtaken, FlowInv, WorldInv, Slots, Child, Runs
  <2>2. disk'[o.run] = disk[o.run]
    BY <1>1, <1>3, <2>1
  <2>3. disk[o.run].state \notin OpenStates
    BY <1>1, <2>1, OpenIsNewest DEF OpenStates, TerminalStates
  <2> QED
    BY <1>1, <1>3, <2>1, <2>2, <2>3
<1> QED
  BY <1>1, <1>4, <1>5 DEF OrphanInv

\* Taking up a run whose attempt was left RUNNING leads to its recovery.
LEMMA RunContinueOrphan ==
  ASSUME FlowInv, TruthInv, OrphanInv, NEW p \in Procs, RunContinue(p)
  PROVE  OrphanInv'
<1> DEFINE o == kid[Nobody]
<1>1. /\ newest # 0 /\ disk[newest].state \in {"RUNNING", "RETRYABLE_FAILURE"}
      /\ lock = Nobody /\ pc' = [pc EXCEPT ![p] = "recover"]
      /\ UNCHANGED <<disk, newest, after, kid, resumed>>
  BY DEF RunContinue, TakeLock, files
<1>2. \A q \in Procs : Place(q)' \in {"off", "recover"}
  BY <1>1, OthersOff DEF Place, FlowInv, ControlInv
<1>3. Overtaken(o)'
  <2>1. o.run \in Runs
    BY DEF FlowInv, WorldInv, Slots, Child
  <2>2. ASSUME NEW s, o.run <= newest, disk[o.run].state \in OpenStates, Held(disk[o.run], s)
        PROVE  Held(disk[o.run], s)'
    <3>1. disk[o.run].state # "ATTENTION_REQUIRED"
      BY <1>1, <2>1, <2>2, OpenIsNewest
    <3> QED
      BY <1>1, <1>2, <2>2, <3>1 DEF Held
  <2> QED
    BY <1>1, <2>2 DEF OrphanInv, Overtaken
<1> QED
  BY <1>1, <1>2, <1>3 DEF OrphanInv

\* A resume is remembered; only what may be corrected is resumed.
LEMMA ResumeOrphan ==
  ASSUME FlowInv, TruthInv, OrphanInv, NEW p \in Procs, Resume(p)
  PROVE  OrphanInv'
<1> DEFINE m == disk[newest]
           n == ResumeManifest(m)
           o == kid[Nobody]
<1>1. /\ newest # 0 /\ m.state = "ATTENTION_REQUIRED" /\ "resume_allowed" \in m.attention
      /\ lock = Nobody /\ Save(p, n, "exec") /\ kid' = kid
      /\ resumed' = resumed \cup {<<newest, m.rank, m.stage>>}
  BY DEF Resume, TakeLock
<1>2. newest \in Runs /\ Sound(m) /\ Honest(m) /\ m.run = newest /\ m.state \in OpenStates
  BY <1>1, NewestIsRun DEF FlowInv, TruthInv, Manifested, OpenStates
<1>3. n.rank = m.rank /\ n.run = newest
  BY <1>1, <1>2, ResumeTrue, ResumeFollows DEF Follows
<1> HIDE DEF n
<1>4. m.stage \in ResumableStages
  BY <1>1, <1>2 DEF Honest, Flagged
<1>5. /\ newest' = newest /\ disk'[newest] = n
      /\ \A r \in Runs : r # newest => disk'[r] = disk[r]
  BY <1>1, <1>2, <1>3 DEF Save, FlowInv, FilesInv
<1>6. \A q \in Procs : Place(q)' \notin {"spawn", "wait"}
  <2>1. \A q \in Procs : q # p => pc'[q] = "off"
    BY <1>1, OthersOff DEF Save, FlowInv, ControlInv
  <2>2. pc'[p] = "mirror" /\ after'[p] = "exec"
    BY <1>1 DEF Save, FlowInv, ControlInv
  <2> QED
    BY <2>1, <2>2 DEF Place
<1>7. Overtaken(o)'
  <2> SUFFICES ASSUME Alive(o)
               PROVE  /\ o.run <= newest
                      /\ disk'[o.run].state \in OpenStates =>
                            /\ o.rank <= disk'[o.run].rank
                            /\ o.rank = disk'[o.run].rank /\ o.stage \in {"probe", "transfer"}
                               => <<o.run, o.rank, o.stage>> \in resumed'
    BY <1>1, <1>5 DEF Overtaken
  <2>1. o.run \in Runs /\ o.run <= newest
    BY DEF OrphanInv, Overtaken, FlowInv, WorldInv, Slots, Child
  <2>2. CASE o.run # newest
    BY <1>5, <2>1, <2>2, OpenIsNewest
  <2>3. CASE o.run = newest
    <3>1. /\ o.rank <= m.rank
          /\ o.rank = m.rank /\ o.stage \in {"probe", "transfer"} =>
                <<o.run, o.rank, o.stage>> \in resumed \/ m.stage = o.stage
      BY <1>2, <2>3 DEF OrphanInv, Overtaken, Held
    <3> QED
      BY <1>1, <1>3, <1>5, <2>1, <2>3, <3>1
  <2> QED
    BY <2>2, <2>3
<1> QED
  BY <1>1, <1>4, <1>6, <1>7 DEF OrphanInv

\* A clear gives the orphan's run up or moves it beyond the orphan's movie.
LEMMA ClearOrphan ==
  ASSUME FlowInv, TruthInv, OrphanInv, NEW p \in Procs, Clear(p)
  PROVE  OrphanInv'
<1> DEFINE m == disk[newest]
           n == ClearManifest(m)
           o == kid[Nobody]
<1>1. /\ newest # 0 /\ m.state \in {"ATTENTION_REQUIRED", "RETRYABLE_FAILURE"}
      /\ lock = Nobody /\ Save(p, n, NextPlace(n)) /\ kid' = kid /\ resumed' = resumed
  BY DEF Clear, TakeLock
<1>2. newest \in Runs /\ Sound(m) /\ Honest(m) /\ m.run = newest /\ m.state \in OpenStates
  BY <1>1, NewestIsRun DEF FlowInv, TruthInv, Manifested, OpenStates
<1>3. n.run = newest /\ (GivesUp(m, n) \/ Closes(m, n))
  BY <1>1, <1>2, ClearTrue, ClearFollows DEF Follows
<1> HIDE DEF n
<1>4. n.state \in OpenStates => n.rank = m.rank + 1
  BY <1>3 DEF GivesUp, Closes, OpenStates
<1>5. /\ newest' = newest /\ disk'[newest] = n
      /\ \A r \in Runs : r # newest => disk'[r] = disk[r]
  BY <1>1, <1>2, <1>3 DEF Save, FlowInv, FilesInv
<1>6. \A q \in Procs : Place(q)' \notin {"spawn", "wait"}
  <2>1. \A q \in Procs : q # p => pc'[q] = "off"
    BY <1>1, OthersOff DEF Save, FlowInv, ControlInv
  <2>2. pc'[p] = "mirror" /\ after'[p] = NextPlace(n)
    BY <1>1 DEF Save, FlowInv, ControlInv
  <2> QED
    BY <2>1, <2>2 DEF Place, NextPlace
<1>7. Overtaken(o)'
  <2> SUFFICES ASSUME Alive(o)
               PROVE  /\ o.run <= newest
                      /\ disk'[o.run].state \in OpenStates =>
                            disk'[o.run].rank \in Nat /\ o.rank < disk'[o.run].rank
    <3>1. o.rank \in Nat /\ \A k \in Nat : o.rank < k => o.rank # k /\ o.rank <= k
      BY BoundsAssumption DEF FlowInv, WorldInv, Slots, Child
    <3> QED
      BY <1>1, <1>5, <3>1 DEF Overtaken
  <2>1. o.run \in Runs /\ o.rank \in Nat /\ o.run <= newest
    BY BoundsAssumption DEF OrphanInv, Overtaken, FlowInv, WorldInv, Slots, Child
  <2>2. CASE o.run # newest
    BY <1>5, <2>1, <2>2, OpenIsNewest
  <2>3. CASE o.run = newest
    <3>1. o.rank <= m.rank /\ m.rank \in Nat
      BY <1>2, <2>3, BoundsAssumption DEF OrphanInv, Overtaken, Sound, Manifest
    <3> QED
      BY <1>4, <1>5, <2>1, <2>3, <3>1
  <2> QED
    BY <2>2, <2>3
<1> QED
  BY <1>1, <1>6, <1>7 DEF OrphanInv

\* Recovery of a held attempt puts it before the operator and executes nothing.
LEMMA RecoverOrphan ==
  ASSUME FlowInv, TruthInv, OrphanInv, NEW p \in Procs, Recover(p)
  PROVE  OrphanInv'
<1> DEFINE m == mem[p]
           n == InterruptAttempt(m)
           o == kid[Nobody]
<1>1. /\ pc[p] = "recover" /\ lock = p /\ newest # 0 /\ newest \in Runs /\ m = disk[newest]
      /\ Sound(m) /\ Honest(m) /\ m.run = newest /\ kid' = kid /\ resumed' = resumed
      /\ m.state \in {"RUNNING", "RETRYABLE_FAILURE"}
  BY AtWorkTruly, AtWork DEF Recover, FlowInv, Place, Continues
<1>2. \A q \in Procs : q # p => pc[q] = "off"
  BY <1>1, OthersOff
<1>3. o.run \in Runs /\ o.rank \in Nat
  BY BoundsAssumption DEF FlowInv, WorldInv, Slots, Child
<1>4. ASSUME NEW s, Held(m, s)
      PROVE  m.state = "RUNNING" /\ RecordOf(m, m.stage).attempt = "RUNNING" /\ m.stage = s
  BY <1>1, <1>4 DEF Held
<1>5. ASSUME NEW place \in {"judge", "exec"}, Goto(p, place),
             m.state # "RUNNING" \/ RecordOf(m, m.stage).attempt # "RUNNING"
      PROVE  OrphanInv'
  <2>1. /\ disk' = disk /\ newest' = newest /\ mem' = mem
        /\ pc' = [pc EXCEPT ![p] = place] /\ after' = after
    BY <1>5 DEF Goto, files
  <2>2. \A q \in Procs : Place(q)' \in {"off", "judge", "exec"}
    BY <1>2, <2>1 DEF Place, FlowInv, ControlInv
  <2>3. \A s : ~Held(m, s)
    BY <1>4, <1>5
  <2>4. Overtaken(o)'
    <3>1. o.run <= newest /\ disk[o.run].state \in OpenStates => disk[o.run] = m
      BY <1>1, <1>3, OpenIsNewest
    <3> QED
      BY <1>1, <2>1, <2>3, <3>1 DEF OrphanInv, Overtaken
  <2> QED
    BY <1>1, <2>2, <2>4 DEF OrphanInv
<1>6. ASSUME m.state = "RUNNING", Save(p, n, NextPlace(n))
      PROVE  OrphanInv'
  <2>1. /\ Stays(m, n)
        /\ m.stage \notin SafeInterruptedStages => n.state = "ATTENTION_REQUIRED"
    BY <1>1, <1>6, InterruptTrue
  <2> HIDE DEF n
  <2>2. n.run = newest /\ n.rank = m.rank /\ n.stage = m.stage /\ n.state \in OpenStates
    BY <1>1, <2>1 DEF Stays, Reworks, SamePlace
  <2>3. /\ newest' = newest /\ disk'[newest] = n
        /\ \A r \in Runs : r # newest => disk'[r] = disk[r]
    BY <1>1, <1>6, <2>2 DEF Save, FlowInv, FilesInv
  <2>4. \A q \in Procs : Place(q)' = IF q = p THEN NextPlace(n) ELSE "off"
    BY <1>2, <1>6 DEF Place, Save, FlowInv, ControlInv
  <2>5. Overtaken(o)'
    <3> SUFFICES ASSUME Alive(o)
                 PROVE  /\ o.run <= newest
                        /\ disk'[o.run].state \in OpenStates =>
                              /\ o.rank <= disk'[o.run].rank
                              /\ o.rank = disk'[o.run].rank /\ o.stage \in {"probe", "transfer"}
                                    /\ <<o.run, o.rank, o.stage>> \notin resumed
                                 => Held(disk[o.run], o.stage)'
      BY <1>1, <2>3 DEF Overtaken
    <3>1. o.run <= newest
      BY DEF OrphanInv, Overtaken
    <3>2. CASE o.run # newest
      BY <1>3, <2>3, <3>1, <3>2, OpenIsNewest
    <3>3. CASE o.run = newest
      <4>1. /\ o.rank <= m.rank
            /\ o.rank = m.rank /\ o.stage \in {"probe", "transfer"}
                  /\ <<o.run, o.rank, o.stage>> \notin resumed => Held(m, o.stage)
        BY <1>1, <3>3 DEF OrphanInv, Overtaken, OpenStates
      <4>2. ASSUME Held(m, o.stage), o.stage \in {"probe", "transfer"}
            PROVE  Held(disk[o.run], o.stage)'
        <5>1. m.stage = o.stage /\ n.state = "ATTENTION_REQUIRED"
          BY <1>4, <2>1, <4>2 DEF SafeInterruptedStages
        <5>2. \A q \in Procs : Place(q)' \in {"off", "exit"}
          BY <2>4, <5>1 DEF NextPlace
        <5>3. disk'[o.run] = n /\ kid'[Nobody].stage = o.stage /\ kid'[Nobody].run = o.run
          BY <1>1, <2>3, <3>3
        <5> QED
          BY <2>2, <5>1, <5>2, <5>3 DEF Held
      <4> QED
        BY <2>2, <2>3, <3>1, <3>3, <4>1, <4>2
    <3> QED
      BY <3>2, <3>3
  <2>6. \A q \in Procs : Place(q)' \notin {"spawn", "wait"}
    BY <2>4 DEF NextPlace
  <2> QED
    BY <1>1, <2>5, <2>6 DEF OrphanInv
<1> QED
  BY <1>5, <1>6 DEF Recover

\* The steps of the stage loop that save.
LEMMA LoopOrphan ==
  ASSUME FlowInv, TruthInv, OrphanInv, NEW p \in Procs,
         Execute(p) \/ LaunchFails(p) \/ ChildAnswers(p) \/ ChildBreaks(p) \/ Judge(p)
  PROVE  OrphanInv'
<1> DEFINE m == mem[p]
<1>1. /\ pc[p] \in {"exec", "spawn", "wait", "judge"} => Sound(m) /\ Honest(m)
      /\ kid'[Nobody] = kid[Nobody] /\ resumed' = resumed
  BY AtWorkTruly, ProcsAssumption
  DEF Execute, LaunchFails, ChildAnswers, ChildBreaks, Judge, FlowInv, WorldInv, Slots
<1>2. ASSUME NEW n, NEW goto \in {"spawn", "judge", "exec", "exit"}, Save(p, n, goto),
             pc[p] \in {"exec", "spawn", "wait", "judge"}, Follows(m, n), Moves(m, n),
             goto = "spawn" => RecordOf(n, n.stage).attempt = "RUNNING"
      PROVE  OrphanInv'
  BY <1>1, <1>2, BusyOrphan DEF Follows
<1>3. CASE Execute(p)
  <2> DEFINE n == StartAttempt(m)
  <2>1. pc[p] = "exec" /\ Save(p, n, "spawn") /\ m.state \in {"RUNNING", "RETRYABLE_FAILURE"}
    BY <1>3, AtWorkTruly DEF Execute
  <2>2. Follows(m, n) /\ Stays(m, n) /\ RecordOf(n, m.stage).attempt = "RUNNING"
    BY <1>1, <2>1, StartFollows, StartTrue DEF OpenStates
  <2> HIDE DEF n
  <2>3. Moves(m, n) /\ n.stage = m.stage
    BY <2>2 DEF Stays, Moves
  <2> QED
    BY <1>2, <2>1, <2>2, <2>3
<1>4. CASE LaunchFails(p) \/ ChildBreaks(p)
  <2>1. PICK attempt \in {"LAUNCH_FAILED", "INVALID_OUTPUT"} :
           Save(p, FailAttempt(m, attempt), "judge") /\ pc[p] \in {"spawn", "wait"}
    BY <1>4 DEF LaunchFails, ChildBreaks
  <2> DEFINE n == FailAttempt(m, attempt)
  <2>2. attempt \in AttemptStatus /\ m.state = "RUNNING"
    BY <2>1, AtWorkTruly DEF AttemptStatus
  <2>3. Follows(m, n) /\ Stays(m, n)
    BY <1>1, <2>1, <2>2, FailFollows, FailTrue
  <2>4. Save(p, n, "judge")
    BY <2>1
  <2> HIDE DEF n
  <2> QED
    BY <1>2, <2>1, <2>3, <2>4 DEF Stays, Moves
<1>5. CASE ChildAnswers(p)
  <2>1. PICK kind \in Kinds[kid[p].stage], found \in 0..Target :
           Save(p, CompleteAttempt(m, kind, found), "judge") /\ pc[p] = "wait"
    BY <1>5 DEF ChildAnswers
  <2> DEFINE n == CompleteAttempt(m, kind, found)
  <2>2. kind \in Kinds[m.stage] /\ m.state = "RUNNING"
    BY <2>1, AtWorkTruly DEF FlowInv, ChildInv
  <2>3. Follows(m, n) /\ Stays(m, n)
    BY <1>1, <2>1, <2>2, CompleteFollows, CompleteTrue
  <2>4. Save(p, n, "judge")
    BY <2>1
  <2> HIDE DEF n
  <2> QED
    BY <1>2, <2>1, <2>3, <2>4 DEF Stays, Moves
<1>6. CASE Judge(p)
  <2> DEFINE n == EvaluateStage(m)
  <2>1. pc[p] = "judge" /\ Save(p, n, NextPlace(n)) /\ m.state = "RUNNING"
    BY <1>6, AtWorkTruly DEF Judge
  <2>2. Follows(m, n) /\ Moves(m, n)
    BY <1>1, <2>1, EvaluateStageFollows, EvaluateTrue DEF OpenStates, Truly
  <2> HIDE DEF n
  <2>3. NextPlace(n) \in {"exec", "exit"}
    BY DEF NextPlace
  <2> QED
    BY <1>2, <2>1, <2>2, <2>3
<1> QED
  BY <1>3, <1>4, <1>5, <1>6

\* The steps of the stage loop that do not save.
LEMMA PassOrphan ==
  ASSUME FlowInv, TruthInv, OrphanInv, NEW p \in Procs, Spawn(p) \/ Mirror(p) \/ Exit(p)
  PROVE  OrphanInv'
<1>1. disk' = disk /\ newest' = newest /\ resumed' = resumed
  BY DEF Spawn, Mirror, Exit, Goto, files
<1>2. kid'[Nobody] = kid[Nobody]
  BY ProcsAssumption DEF Spawn, Mirror, Exit, FlowInv, WorldInv, Slots
<1>3. CASE Spawn(p)
  <2>1. pc[p] = "spawn" /\ pc' = [pc EXCEPT ![p] = "wait"] /\ after' = after /\ mem' = mem
    BY <1>3 DEF Spawn, Goto
  <2>2. /\ \A q \in Procs : q # p => Place(q)' = Place(q)
        /\ Place(p) = "spawn" /\ Place(p)' = "wait"
    BY <2>1 DEF Place, FlowInv, ControlInv
  <2> QED
    BY <1>1, <1>2, <2>1, <2>2, QuietOrphan
<1>4. CASE Mirror(p)
  <2>1. /\ pc[p] = "mirror" /\ pc' = [pc EXCEPT ![p] = after[p]] /\ mem' = mem
        /\ after' = [after EXCEPT ![p] = "off"]
    BY <1>4 DEF Mirror
  <2>2. after[p] \in Places
    BY <2>1, AtWork DEF FlowInv, Place
  <2>3. \A q \in Procs : Place(q)' = Place(q)
    BY <2>1, <2>2 DEF Place, Places, FlowInv, ControlInv
  <2> QED
    BY <1>1, <1>2, <2>1, <2>3, QuietOrphan
<1>5. CASE Exit(p)
  <2>1. /\ pc' = [pc EXCEPT ![p] = "off"] /\ after' = after
        /\ \A q \in Procs : q # p => mem'[q] = mem[q]
    BY <1>5 DEF Exit, FlowInv, ControlInv
  <2>2. /\ \A q \in Procs : q # p => Place(q)' = Place(q)
        /\ Place(p)' = "off"
    BY <2>1 DEF Place, FlowInv, ControlInv
  <2> QED
    BY <1>1, <1>2, <2>1, <2>2, QuietOrphan
<1> QED
  BY <1>3, <1>4, <1>5

\* A death makes an orphan of a child whose attempt is on disk as RUNNING.
LEMMA CrashOrphan ==
  ASSUME FlowInv, TruthInv, OrphanInv, NEW p \in Procs, Crash(p) \/ CrashLeavingOrphan(p)
  PROVE  OrphanInv'
<1>1. /\ pc[p] # "off" /\ pc' = [pc EXCEPT ![p] = "off"]
      /\ disk' = disk /\ newest' = newest /\ resumed' = resumed
      /\ \A q \in Procs : q # p => after'[q] = after[q] /\ mem'[q] = mem[q]
  BY DEF Crash, CrashLeavingOrphan, Dies, files, FlowInv, ControlInv
<1>2. \A q \in Procs : Place(q)' = "off"
  BY <1>1, OthersOff DEF Place, FlowInv, ControlInv
<1>3. CASE Crash(p)
  <2>1. kid'[Nobody] = kid[Nobody]
    BY <1>3, ProcsAssumption DEF Crash, FlowInv, WorldInv, Slots
  <2> QED
    BY <1>1, <1>2, <2>1, QuietOrphan
<1>4. CASE CrashLeavingOrphan(p)
  <2> DEFINE o == kid[p]
             m == mem[p]
  <2>1. Alive(o) /\ kid'[Nobody] = o
    BY <1>4, ProcsAssumption DEF CrashLeavingOrphan, FlowInv, WorldInv, Slots
  <2>2. pc[p] = "wait" /\ o.stage = m.stage /\ o.run = m.run /\ o.rank = m.rank
    BY <2>1, NoChildIdle DEF TruthInv, KidsPlaced, KidPlaced
  <2>3. /\ m = disk[newest] /\ m.run = newest /\ m.state = "RUNNING" /\ Sound(m)
        /\ newest \in 0..MaxRuns
    BY <2>2, AtWorkTruly DEF FlowInv, FilesInv
  <2>4. newest <= newest /\ m.rank <= m.rank
    BY <2>3, BoundsAssumption DEF Sound, Manifest
  <2>5. RecordOf(m, m.stage).attempt = "RUNNING"
    BY <2>2 DEF OrphanInv, Place
  <2>6. Held(disk[newest], kid[Nobody].stage)'
    <3>1. disk'[newest'] = m /\ kid'[Nobody].stage = m.stage
      BY <1>1, <2>1, <2>2, <2>3
    <3> QED
      BY <1>2, <2>3, <2>5, <3>1 DEF Held
  <2>7. Overtaken(kid[Nobody])'
    BY <1>1, <2>1, <2>2, <2>3, <2>4, <2>6 DEF Overtaken
  <2> QED
    BY <1>1, <1>2, <2>7 DEF OrphanInv
<1> QED
  BY <1>3, <1>4

\* Every step keeps it.
LEMMA StepOrphan ==
  ASSUME FlowInv, TruthInv, OrphanInv, [Next]_vars
  PROVE  OrphanInv'
<1>1. ASSUME NEW p \in Procs, Command(p) PROVE OrphanInv'
  <2>1. CASE Refuse(p)
    <3>1. /\ pc' = [pc EXCEPT ![p] = "exit"] /\ after' = after /\ mem' = mem
          /\ disk' = disk /\ newest' = newest /\ resumed' = resumed /\ kid' = kid
      BY <2>1 DEF Refuse, Goto, files
    <3>2. /\ \A q \in Procs : q # p => Place(q)' = Place(q)
          /\ Place(p)' = "exit"
      BY <3>1 DEF Place, FlowInv, ControlInv
    <3> QED
      BY <3>1, <3>2, QuietOrphan
  <2> QED
    BY <1>1, <2>1, RunNewOrphan, RunContinueOrphan, ResumeOrphan, ClearOrphan DEF Command
<1>2. ASSUME NEW p \in Procs, Step(p) PROVE OrphanInv'
  BY <1>2, RecoverOrphan, LoopOrphan, PassOrphan DEF Step
<1>3. ASSUME NEW p \in Procs, Crash(p) \/ CrashLeavingOrphan(p) PROVE OrphanInv'
  BY <1>3, CrashOrphan
<1>4. ASSUME UNCHANGED <<files, control, resumed>>,
             \/ kid'[Nobody] = NoChild
             \/ /\ kid'[Nobody].stage = kid[Nobody].stage /\ kid'[Nobody].run = kid[Nobody].run
                /\ kid'[Nobody].rank = kid[Nobody].rank
      PROVE  OrphanInv'
  <2>1. disk' = disk /\ newest' = newest /\ resumed' = resumed /\ mem' = mem
    BY <1>4 DEF files, control
  <2>2. \A q \in Procs : Place(q)' = Place(q)
    BY <1>4 DEF Place, control
  <2> QED
    BY <1>4, <2>1, <2>2, QuietOrphan
<1>5. ASSUME NEW c \in Slots, Effect(c) PROVE OrphanInv'
  <2>1. /\ UNCHANGED <<files, control, resumed>>
        /\ \E phase : kid' = [kid EXCEPT ![c].phase = phase]
    BY <1>5 DEF Effect, CopyPayload, ReadSheet, AppendRow
  <2>2. /\ kid'[Nobody].stage = kid[Nobody].stage /\ kid'[Nobody].run = kid[Nobody].run
        /\ kid'[Nobody].rank = kid[Nobody].rank
    BY <2>1 DEF FlowInv, WorldInv, Child, Slots
  <2> QED
    BY <1>4, <2>1, <2>2
<1>6. CASE OrphanEnds
  BY <1>4, <1>6 DEF OrphanEnds, FlowInv, WorldInv, Slots
<1>7. CASE UNCHANGED vars
  BY <1>4, <1>7 DEF vars, files, control
<1> QED
  BY <1>1, <1>2, <1>3, <1>5, <1>6, <1>7 DEF Next

\* Beside an orphan that still probes its movie no other child probes it, and
\* beside one that still transfers it only a transfer an operator resumed:
\* recovery hands unsafe stages to the operator instead of repeating them.
THEOREM NothingRepeatedBlindly == Spec => []NoBlindRerun
<1>1. Init => OrphanInv
  BY NoChildIdle DEF Init, OrphanInv, Overtaken, Place, Slots
<1>2. FlowInv /\ TruthInv /\ OrphanInv /\ [Next]_vars => OrphanInv'
  BY StepOrphan
<1>3. FlowInv /\ TruthInv /\ OrphanInv => NoBlindRerun
  <2> DEFINE o == kid[Nobody]
  <2> SUFFICES ASSUME FlowInv, TruthInv, OrphanInv,
                      NEW p \in Procs, Alive(kid[p]), Alive(o), MovieOf(kid[p]) = MovieOf(o),
                      kid[p].stage = o.stage, kid[p].stage \in {"probe", "transfer"}
               PROVE  /\ kid[p].stage = "transfer"
                      /\ <<kid[p].run, kid[p].rank, "transfer">> \in resumed
    BY DEF NoBlindRerun
  <2>1. /\ pc[p] = "wait" /\ kid[p].stage = mem[p].stage
        /\ kid[p].run = mem[p].run /\ kid[p].rank = mem[p].rank
    BY NoChildIdle DEF TruthInv, KidsPlaced, KidPlaced
  <2>2. mem[p] = disk[newest] /\ mem[p].run = newest /\ mem[p].state = "RUNNING"
    BY <2>1, AtWorkTruly
  <2>3. o.run = kid[p].run /\ o.rank = kid[p].rank
    BY DEF MovieOf
  <2>4. ~Held(disk[newest], o.stage)
    BY <2>1, <2>2 DEF Held, Place
  <2>5. <<o.run, o.rank, o.stage>> \in resumed
    BY <2>1, <2>2, <2>3, <2>4 DEF OrphanInv, Overtaken, OpenStates
  <2>6. o.stage \in ResumableStages
    BY <2>5 DEF OrphanInv
  <2> QED
    BY <2>3, <2>5, <2>6 DEF ResumableStages
<1> QED
  BY <1>1, <1>2, <1>3, TruthInvariant, PTL DEF Spec
-----------------------------------------------------------------------------
(***************************************************************************)
(* The flow implements its promise (FlowPromise): read off the newest      *)
(* manifest, every step of everybody, crashes and races included, is one   *)
(* step of the promise or none.  First what each kind of save shows; each  *)
(* action of the flow makes one of them.                                   *)
(***************************************************************************)

-----------------------------------------------------------------------------
(* What a manifest shows of a run *)

SettledOf(m)  == Count(m, "ACQUIRED") + Count(m, "SKIPPED")
AcquiredOf(m) == {k \in 1..m.requested : m.items[k].status = "ACQUIRED"}

\* A step of the promise, or none.
Promised == Promise!Next \/ UNCHANGED (Promise!promise)

\* The movies settled are those before the current one, or all of them.
LEMMA SettledBefore ==
  ASSUME NEW m, Sound(m)
  PROVE  /\ SettledOf(m) = IF m.rank = 0 THEN m.requested ELSE m.rank - 1
         /\ m.rank \in 0..m.requested /\ m.requested \in 0..Target /\ Target \in Nat
<1> DEFINE size == m.requested
           gained == {k \in 1..size : m.items[k].status = "ACQUIRED"}
           passed == {k \in 1..size : m.items[k].status = "SKIPPED"}
           top == IF m.rank = 0 THEN m.requested ELSE m.rank - 1
<1>1. /\ m.rank \in 0..Target /\ m.requested \in 0..Target /\ Target \in Nat
      /\ m.rank <= m.requested /\ Ordered(m)
  BY BoundsAssumption DEF Sound, Manifest, Ordered
<1>2. top \in 0..m.requested
  BY <1>1
<1>3. ASSUME NEW k \in 1..m.requested
      PROVE  Settled(m.items[k]) <=> k <= top
  <2>1. k \in Ranks /\ k \in Nat /\ k <= m.requested
    BY <1>1 DEF Ranks
  <2>2. CASE m.rank = 0
    BY <1>1, <2>1, <2>2 DEF Ordered
  <2>3. CASE m.rank # 0
    <3>1. k < m.rank => Settled(m.items[k])
      BY <1>1, <2>1 DEF Ordered
    <3>2. k >= m.rank => ~Settled(m.items[k])
      BY <1>1, <2>1, <2>3, FreshItemType DEF Ordered
    <3> QED
      BY <1>1, <2>1, <2>3, <3>1, <3>2
  <2> QED
    BY <2>2, <2>3
<1> HIDE DEF top
<1>4. gained \cup passed = 1..top
  <2>1. \A k : k \in 1..top <=> k \in 1..size /\ k <= top
    BY <1>1, <1>2
  <2>2. \A k : k \in gained \cup passed <=> k \in 1..size /\ Settled(m.items[k])
    BY DEF Settled
  <2> HIDE DEF gained, passed
  <2> QED
    BY <1>3, <2>1, <2>2
<1>5. gained \cap passed = {} /\ gained \subseteq 1..size /\ passed \subseteq 1..size
  OBVIOUS
<1>6. Count(m, "ACQUIRED") = Cardinality(gained) /\ Count(m, "SKIPPED") = Cardinality(passed)
  BY DEF Count
<1>7. size \in Int /\ top \in Nat
  BY <1>1, <1>2
<1> HIDE DEF gained, passed, size
<1>8. IsFiniteSet(1..size)
  BY <1>7, FS_Interval
<1>9. Cardinality(1..top) = top
  BY <1>7, FS_Interval
<1>10. /\ IsFiniteSet(gained) /\ Cardinality(gained) \in Nat
       /\ IsFiniteSet(passed) /\ Cardinality(passed) \in Nat
  BY <1>5, <1>8, FS_Subset, FS_CardinalityType
<1>11. SettledOf(m) = top
  <2>1. Cardinality(gained \cap passed) = 0
    BY <1>5, FS_EmptySet
  <2>2. Cardinality(gained \cup passed)
          = Cardinality(gained) + Cardinality(passed) - Cardinality(gained \cap passed)
    BY <1>10, FS_Union
  <2>3. Cardinality(gained \cup passed) = top
    BY <1>4, <1>9, Zenon
  <2>4. SettledOf(m) = Cardinality(gained) + Cardinality(passed)
    BY <1>6 DEF SettledOf
  <2>5. top = Cardinality(gained) + Cardinality(passed) - 0
    BY <2>1, <2>2, <2>3, Zenon
  <2> QED
    BY <1>10, <2>4, <2>5
<1> QED
  BY <1>1, <1>11 DEF top

\* The phase of an open run.
LEMMA OpenPhases ==
  ASSUME NEW m
  PROVE  /\ m.state \in {"RUNNING", "RETRYABLE_FAILURE"} => PhaseOf(m) = "open"
         /\ m.state = "ATTENTION_REQUIRED" => PhaseOf(m) = "blocked"
         /\ m.state = "ABSENT" => PhaseOf(m) = "idle"
         /\ m.state = "CLEARED" => PhaseOf(m) = "cleared"
         /\ m.state \in {"COMPLETED", "NO_ACTION_NEEDED", "NO_ACQUISITION_AVAILABLE"} =>
                PhaseOf(m) = "ended"
BY DEF PhaseOf

-----------------------------------------------------------------------------
(* What each kind of save shows *)

\* The newest run is still the same, and its manifest went from m to n.
Saves(m, n) ==
    /\ Newest = m /\ Newest' = n /\ newest' = newest
    /\ Sound(m) /\ Sound(n)

\* Nothing is shown of work at the current place but its phase.
LEMMA ReworkPromised ==
  ASSUME NEW m, NEW n, Saves(m, n), Reworks(m, n),
         m.state \in OpenStates, n.state \in OpenStates
  PROVE  Promised
<1>1. n.requested = m.requested /\ SettledOf(n) = SettledOf(m)
  BY CountsKept DEF Saves, SettledOf, Reworks, SamePlace
<1>2. AcquiredOf(n) = AcquiredOf(m)
  <2>1. \A k \in 1..m.requested : k \in Ranks
    BY SettledBefore DEF Saves, Ranks
  <2>2. \A k \in Ranks : m.items[k].status = "ACQUIRED" <=> n.items[k].status = "ACQUIRED"
    BY CountsKept DEF Saves, Gained
  <2> QED
    BY <1>1, <2>1, <2>2 DEF AcquiredOf
<1>3. PhaseOf(m) \in {"open", "blocked"} /\ PhaseOf(n) \in {"open", "blocked"}
  BY OpenPhases DEF OpenStates
<1> QED
  BY <1>1, <1>2, <1>3
  DEF Promised, Promise!Next, Promise!Block, Promise!Unblock, Promise!promise, Saves,
      SettledOf, AcquiredOf

\* Closing a movie settles exactly the next one, and the last one ends the run.
LEMMA ClosePromised ==
  ASSUME NEW m, NEW n, Saves(m, n), Batch(m), m.rank \in Ranks, Closes(m, n),
         \/ m.state \in {"RUNNING", "RETRYABLE_FAILURE"}
         \/ m.state = "ATTENTION_REQUIRED" /\ n.items[m.rank].status = "ACQUIRED"
  PROVE  Promised
<1>1. /\ m.rank \in 1..m.requested /\ m.requested \in 0..Target /\ n.requested = m.requested
      /\ SettledOf(m) = m.rank - 1
  BY SettledBefore DEF Saves, Closes, Ranks
<1>2. /\ SettledOf(n) = SettledOf(m) + 1
      /\ PhaseOf(n) = IF SettledOf(m) + 1 = m.requested THEN "ended" ELSE "open"
  <2>1. CASE m.rank < m.requested
    <3>1. n.rank = m.rank + 1 /\ n.state = "RUNNING"
      BY <2>1 DEF Closes
    <3> QED
      BY <1>1, <2>1, <3>1, SettledBefore, OpenPhases DEF Saves
  <2>2. CASE ~(m.rank < m.requested)
    <3>1. n.rank = 0 /\ n.state \in {"NO_ACQUISITION_AVAILABLE", "COMPLETED"}
      BY <2>2 DEF Closes
    <3> QED
      BY <1>1, <2>2, <3>1, SettledBefore, OpenPhases DEF Saves
  <2> QED
    BY <2>1, <2>2
<1> DEFINE gained == n.items[m.rank].status = "ACQUIRED"
<1>3. AcquiredOf(n) = IF gained THEN AcquiredOf(m) \cup {SettledOf(m) + 1} ELSE AcquiredOf(m)
  <2>1. \A k \in 1..m.requested : k \in Ranks
    BY <1>1, SettledBefore DEF Saves, Ranks
  <2>2. \A k \in 1..m.requested : k # m.rank => n.items[k] = m.items[k]
    BY <2>1 DEF Closes
  <2>3. m.items[m.rank].status # "ACQUIRED"
    BY DEF Saves, Sound, Ordered, Settled
  <2>4. SettledOf(m) + 1 = m.rank
    BY <1>1
  <2> HIDE DEF gained
  <2>5. gained <=> n.items[m.rank].status = "ACQUIRED"
    BY DEF gained
  <2>6. \A k : k \in AcquiredOf(n)
                 <=> k \in IF gained THEN AcquiredOf(m) \cup {m.rank} ELSE AcquiredOf(m)
    BY <1>1, <2>2, <2>3, <2>5 DEF AcquiredOf
  <2> QED
    BY <2>4, <2>6
<1>4. SettledOf(m) < m.requested
  BY <1>1
<1>5. ASSUME NEW gain \in BOOLEAN, gain <=> gained
      PROVE  Promise!Settle(gain)
  BY <1>1, <1>2, <1>3, <1>4, <1>5 DEF Promise!Settle, Saves, SettledOf, AcquiredOf
<1>6. CASE m.state \in {"RUNNING", "RETRYABLE_FAILURE"}
  <2>1. PhaseOf(Newest) = "open"
    BY <1>6, OpenPhases DEF Saves
  <2>2. \E gain \in BOOLEAN : Promise!Settle(gain)
    BY <1>5
  <2> QED
    BY <2>1, <2>2 DEF Promised, Promise!Next, Promise!SettleNext
<1>7. CASE m.state = "ATTENTION_REQUIRED" /\ gained
  <2>1. PhaseOf(Newest) = "blocked"
    BY <1>7, OpenPhases DEF Saves
  <2>2. Promise!Settle(TRUE)
    BY <1>5, <1>7
  <2> QED
    BY <2>1, <2>2 DEF Promised, Promise!Next, Promise!Acknowledge
<1> QED
  BY <1>6, <1>7

\* The search result is the plan of the run.
LEMMA OpenPromised ==
  ASSUME NEW m, NEW n, Saves(m, n), Opens(m, n), m.state \in {"RUNNING", "RETRYABLE_FAILURE"}
  PROVE  Promised
<1>1. /\ m.requested = 0 /\ n.requested \in 1..Target
      /\ PhaseOf(m) = "open" /\ PhaseOf(n) = "open"
  BY OpenPhases DEF Opens
<1>2. SettledOf(m) = 0 /\ SettledOf(n) = 0
  BY <1>1, SettledBefore DEF Saves, Opens
<1>3. AcquiredOf(m) = {} /\ AcquiredOf(n) = {}
  <2>1. \A k \in 1..n.requested : k \in Ranks
    BY <1>1, SettledBefore DEF Saves, Ranks
  <2> QED
    BY <1>1, <2>1 DEF AcquiredOf, Opens, FreshItem
<1> QED
  BY <1>1, <1>2, <1>3
  DEF Promised, Promise!Next, Promise!Plan, Saves, SettledOf, AcquiredOf

\* A run without movies ends with nothing settled.
LEMMA EndPromised ==
  ASSUME NEW m, NEW n, Saves(m, n), Ends(m, n), m.state \in {"RUNNING", "RETRYABLE_FAILURE"}
  PROVE  Promised
<1>1. /\ m.requested = 0 /\ n.requested = 0
      /\ PhaseOf(m) = "open" /\ PhaseOf(n) = "ended"
  BY OpenPhases DEF Ends
<1>2. SettledOf(m) = 0 /\ SettledOf(n) = 0
  BY <1>1, SettledBefore DEF Saves
<1>3. AcquiredOf(m) = {} /\ AcquiredOf(n) = {}
  BY <1>1 DEF AcquiredOf
<1> QED
  BY <1>1, <1>2, <1>3
  DEF Promised, Promise!Next, Promise!Conclude, Saves, SettledOf, AcquiredOf

\* Giving a run up keeps what it settled.
LEMMA GiveUpPromised ==
  ASSUME NEW m, NEW n, Saves(m, n), GivesUp(m, n), m.state \in OpenStates
  PROVE  Promised
<1>1. n.requested = m.requested /\ SettledOf(n) = SettledOf(m) /\ AcquiredOf(n) = AcquiredOf(m)
  BY DEF GivesUp, SettledOf, AcquiredOf, Count
<1>2. PhaseOf(m) \in {"open", "blocked"} /\ PhaseOf(n) = "cleared"
  BY OpenPhases DEF OpenStates, GivesUp
<1> QED
  BY <1>1, <1>2
  DEF Promised, Promise!Next, Promise!Abandon, Saves, SettledOf, AcquiredOf

\* A step that leaves the manifests alone shows nothing.
LEMMA QuietPromised ==
  ASSUME disk' = disk, newest' = newest
  PROVE  Promised
BY DEF Promised, Promise!promise, Newest

-----------------------------------------------------------------------------
(* Every action keeps the promise *)

\* A save of what follows from the newest manifest.
LEMMA SaveSaves ==
  ASSUME FlowInv, newest # 0, NEW p \in Procs, NEW n, NEW goto, Save(p, n, goto),
         Follows(disk[newest], n)
  PROVE  Saves(disk[newest], n)
<1>1. newest \in Runs /\ Sound(disk[newest]) /\ n.run = newest /\ Sound(n)
  BY NewestIsRun DEF FlowInv, Follows
<1>2. disk'[newest] = n /\ newest' = newest
  BY <1>1 DEF Save, FlowInv, FilesInv
<1> QED
  BY <1>1, <1>2 DEF Saves, Newest

\* A run begins when there is none, or the last one has ended or was cleared.
LEMMA RunNewPromised ==
  ASSUME FlowInv, NEW p \in Procs, RunNew(p)
  PROVE  Promised
<1> DEFINE r == newest + 1
           n == NewManifest(r, 2)
<1>1. /\ newest \in 0..MaxRuns /\ newest < MaxRuns /\ MaxRuns \in Nat
      /\ newest # 0 => disk[newest].state \in TerminalStates /\ Save(p, n, "exec")
      /\ Save(p, n, "exec")
  BY BoundsAssumption DEF RunNew, FlowInv, FilesInv
<1>2. r \in Runs /\ r # 0
  BY <1>1 DEF Runs
<1>3. /\ Sound(n) /\ n.run = r /\ n.state = "RUNNING" /\ n.requested = 0
  BY <1>2, NewManifestSound DEF NewManifest
<1> HIDE DEF n
<1>4. newest' = r /\ disk'[r] = n
  BY <1>1, <1>2, <1>3 DEF Save, FlowInv, FilesInv
<1>5. PhaseOf(Newest) \in {"idle", "ended", "cleared"}
  <2>1. CASE newest = 0
    <3>1. 1 \in Runs /\ 1 > newest
      BY <1>1, <2>1 DEF Runs
    <3>2. disk[1] = Absent(1)
      BY <2>1, <3>1 DEF FlowInv, FilesInv
    <3> QED
      BY <2>1, <3>1, <3>2, AbsentSound, OpenPhases DEF Newest
  <2>2. CASE newest # 0
    BY <1>1, <2>2, OpenPhases DEF Newest, TerminalStates
  <2> QED
    BY <2>1, <2>2
<1>6. Newest' = n
  BY <1>2, <1>4 DEF Newest
<1>7. PhaseOf(n) = "open" /\ SettledOf(n) = 0 /\ AcquiredOf(n) = {}
  BY <1>3, SettledBefore, OpenPhases DEF AcquiredOf
<1> HIDE DEF r
<1>8. newest' = newest + 1
  BY <1>4 DEF r
<1> QED
  BY <1>3, <1>5, <1>6, <1>7, <1>8
  DEF Promised, Promise!Next, Promise!Begin, SettledOf, AcquiredOf

\* An operator's resume opens a blocked run.
LEMMA ResumePromised ==
  ASSUME FlowInv, TruthInv, NEW p \in Procs, Resume(p)
  PROVE  Promised
<1> DEFINE m == disk[newest]
           n == ResumeManifest(m)
<1>1. /\ newest # 0 /\ m.state = "ATTENTION_REQUIRED" /\ "resume_allowed" \in m.attention
      /\ Save(p, n, "exec")
  BY DEF Resume
<1>2. newest \in Runs /\ Sound(m) /\ Honest(m)
  BY <1>1, NewestIsRun DEF FlowInv, TruthInv, Manifested
<1>3. Follows(m, n) /\ Reworks(m, n) /\ n.state = "RUNNING"
  BY <1>1, <1>2, ResumeFollows, ResumeTrue
<1> HIDE DEF n
<1>4. Saves(m, n)
  BY <1>1, <1>3, SaveSaves
<1> QED
  BY <1>1, <1>3, <1>4, ReworkPromised DEF OpenStates

\* An operator's clear gives the run up, or settles the movie it waits for.
LEMMA ClearPromised ==
  ASSUME FlowInv, TruthInv, NEW p \in Procs, Clear(p)
  PROVE  Promised
<1> DEFINE m == disk[newest]
           n == ClearManifest(m)
<1>1. /\ newest # 0 /\ m.state \in {"ATTENTION_REQUIRED", "RETRYABLE_FAILURE"}
      /\ Save(p, n, NextPlace(n))
  BY DEF Clear
<1>2. newest \in Runs /\ Sound(m) /\ Honest(m)
  BY <1>1, NewestIsRun DEF FlowInv, TruthInv, Manifested
<1>3. /\ Follows(m, n)
      /\ \/ GivesUp(m, n)
         \/ /\ m.state = "ATTENTION_REQUIRED" /\ Batch(m) /\ m.rank \in Ranks
            /\ Closes(m, n) /\ n.items[m.rank].status = "ACQUIRED"
  BY <1>1, <1>2, ClearFollows, ClearTrue
<1> HIDE DEF n
<1>4. Saves(m, n)
  BY <1>1, <1>3, SaveSaves
<1> QED
  BY <1>1, <1>3, <1>4, GiveUpPromised, ClosePromised DEF OpenStates

\* What a process at work saves moves its manifest.
LEMMA WorkPromised ==
  ASSUME FlowInv, TruthInv, NEW p \in Procs, pc[p] \notin {"off", "exit", "mirror"},
         NEW n, NEW goto, Save(p, n, goto), Follows(mem[p], n), Moves(mem[p], n)
  PROVE  Promised
<1>1. /\ newest # 0 /\ mem[p] = disk[newest]
      /\ mem[p].state \in {"RUNNING", "RETRYABLE_FAILURE"}
  BY AtWork DEF FlowInv, Place, Places, Continues
<1>2. Saves(mem[p], n)
  BY <1>1, SaveSaves
<1> QED
  BY <1>1, <1>2, ReworkPromised, ClosePromised, OpenPromised, EndPromised
  DEF Moves, OpenStates

\* Work that stays at its stage.
LEMMA StayPromised ==
  ASSUME FlowInv, TruthInv, NEW p \in Procs, pc[p] \notin {"off", "exit", "mirror"},
         NEW n, NEW goto, Save(p, n, goto), Follows(mem[p], n), Stays(mem[p], n)
  PROVE  Promised
BY WorkPromised DEF Stays, Moves

\* The steps of the stage loop.
LEMMA LoopPromised ==
  ASSUME FlowInv, TruthInv, NEW p \in Procs, Step(p)
  PROVE  Promised
<1> DEFINE m == mem[p]
<1>1. pc[p] \notin {"off", "exit"} => Sound(m) /\ Honest(m) /\ m.stage \in Stages
  BY AtWorkTruly DEF Sound, Manifest
<1>2. CASE Recover(p)
  <2> DEFINE n == InterruptAttempt(m)
  <2>1. CASE m.state = "RUNNING" /\ Save(p, n, NextPlace(n))
    <3>1. Follows(m, n) /\ Stays(m, n)
      BY <1>1, <1>2, <2>1, InterruptFollows, InterruptTrue DEF Recover
    <3> HIDE DEF n
    <3> QED
      BY <1>2, <2>1, <3>1, StayPromised DEF Recover
  <2>2. CASE Goto(p, "judge") \/ Goto(p, "exec")
    BY <2>2, QuietPromised DEF Goto, files
  <2> QED
    BY <1>2, <2>1, <2>2 DEF Recover
<1>3. CASE Execute(p)
  <2> DEFINE n == StartAttempt(m)
  <2>1. pc[p] = "exec" /\ Save(p, n, "spawn")
    BY <1>3 DEF Execute
  <2>2. m.state \in {"RUNNING", "RETRYABLE_FAILURE"}
    BY <2>1, AtWorkTruly
  <2>3. Follows(m, n) /\ Stays(m, n)
    BY <1>1, <2>1, <2>2, StartFollows, StartTrue DEF OpenStates
  <2> HIDE DEF n
  <2> QED
    BY <2>1, <2>3, StayPromised
<1>4. CASE LaunchFails(p) \/ ChildBreaks(p)
  <2>1. PICK attempt \in {"LAUNCH_FAILED", "INVALID_OUTPUT"} :
           Save(p, FailAttempt(m, attempt), "judge") /\ pc[p] \in {"spawn", "wait"}
    BY <1>4 DEF LaunchFails, ChildBreaks
  <2> DEFINE n == FailAttempt(m, attempt)
  <2>2. attempt \in AttemptStatus /\ m.state = "RUNNING"
    BY <2>1, AtWorkTruly DEF AttemptStatus
  <2>3. Follows(m, n) /\ Stays(m, n)
    BY <1>1, <2>1, <2>2, FailFollows, FailTrue
  <2> HIDE DEF n
  <2> QED
    BY <2>1, <2>3, StayPromised DEF n
<1>5. CASE ChildAnswers(p)
  <2>1. PICK kind \in Kinds[kid[p].stage], found \in 0..Target :
           Save(p, CompleteAttempt(m, kind, found), "judge") /\ pc[p] = "wait"
    BY <1>5 DEF ChildAnswers
  <2> DEFINE n == CompleteAttempt(m, kind, found)
  <2>2. kind \in Kinds[m.stage] /\ m.state = "RUNNING"
    BY <2>1, AtWorkTruly DEF FlowInv, ChildInv
  <2>3. Follows(m, n) /\ Stays(m, n)
    BY <1>1, <2>1, <2>2, CompleteFollows, CompleteTrue
  <2> HIDE DEF n
  <2> QED
    BY <2>1, <2>3, StayPromised DEF n
<1>6. CASE Judge(p)
  <2> DEFINE n == EvaluateStage(m)
  <2>1. pc[p] = "judge" /\ Save(p, n, NextPlace(n))
    BY <1>6 DEF Judge
  <2>2. m.state = "RUNNING"
    BY <2>1, AtWorkTruly
  <2>3. Follows(m, n) /\ Moves(m, n)
    BY <1>1, <2>1, <2>2, EvaluateStageFollows, EvaluateTrue DEF OpenStates, Truly
  <2> HIDE DEF n
  <2> QED
    BY <2>1, <2>3, WorkPromised
<1>7. CASE Spawn(p) \/ Mirror(p) \/ Exit(p)
  BY <1>7, QuietPromised DEF Spawn, Mirror, Exit, Goto, files
<1> QED
  BY <1>2, <1>3, <1>4, <1>5, <1>6, <1>7 DEF Step

\* Every step of the specification keeps the promise.
LEMMA StepPromised ==
  ASSUME FlowInv, TruthInv, [Next]_vars
  PROVE  Promised
<1>1. ASSUME NEW p \in Procs, Command(p) PROVE Promised
  <2>1. CASE RunNew(p) \/ Resume(p) \/ Clear(p)
    BY <2>1, RunNewPromised, ResumePromised, ClearPromised
  <2>2. CASE RunContinue(p) \/ Refuse(p)
    BY <2>2, QuietPromised DEF RunContinue, Refuse, Goto, files
  <2> QED
    BY <1>1, <2>1, <2>2 DEF Command
<1>2. ASSUME NEW p \in Procs, Step(p) PROVE Promised
  BY <1>2, LoopPromised
<1>3. ASSUME NEW p \in Procs, Crash(p) \/ CrashLeavingOrphan(p) PROVE Promised
  BY <1>3, QuietPromised DEF Crash, CrashLeavingOrphan, Dies, files
<1>4. ASSUME NEW c \in Slots, Effect(c) PROVE Promised
  BY <1>4, QuietPromised DEF Effect, CopyPayload, ReadSheet, AppendRow, files
<1>5. CASE OrphanEnds
  BY <1>5, QuietPromised DEF OrphanEnds, files
<1>6. CASE UNCHANGED vars
  BY <1>6, QuietPromised DEF vars
<1> QED
  BY <1>1, <1>2, <1>3, <1>4, <1>5, <1>6 DEF Next

-----------------------------------------------------------------------------
(* The theorems *)

\* Every step of the flow is one step of its promise or none, whatever it
\* starts from: with an old run in the directory, in the middle of a promise.
THEOREM StepsPromised == Spec => [][Promise!Next]_(Promise!promise)
<1>1. FlowInv /\ TruthInv /\ [Next]_vars => [Promise!Next]_(Promise!promise)
  BY StepPromised DEF Promised
<1> QED
  BY <1>1, TruthInvariant, PTL DEF Spec

\* The flow implements the promise to its owner, from an empty directory.
THEOREM PromiseKept == ~LegacyStart => (Spec => KeepsPromise)
<1>1. ~LegacyStart /\ Init => Promise!Init
  <2> SUFFICES ASSUME Init, ~LegacyStart PROVE Promise!Init
    OBVIOUS
  <2>1. 1 \in Runs
    BY BoundsAssumption DEF Runs
  <2>2. newest = 0 /\ Newest = Absent(1)
    BY <2>1 DEF Init, Newest
  <2>3. Sound(Absent(1)) /\ Absent(1).state = "ABSENT" /\ Absent(1).requested = 0
    BY <2>1, AbsentSound DEF Absent, NewManifest
  <2>4. SettledOf(Absent(1)) = 0 /\ AcquiredOf(Absent(1)) = {}
    BY <2>3, SettledBefore DEF AcquiredOf
  <2> QED
    BY <2>2, <2>3, <2>4, OpenPhases DEF Promise!Init, SettledOf, AcquiredOf
<1> QED
  BY <1>1, StepsPromised, PTL DEF Spec, KeepsPromise, Promise!Spec
=============================================================================
