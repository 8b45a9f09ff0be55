--------------------------- MODULE MovieFlowProofs ---------------------------
(***************************************************************************)
(* The manifests of the flow, for any number of processes, runs and movies *)
(* and every batch size. First the operators on one manifest: they return  *)
(* manifests, move through the items in order and touch no item that is    *)
(* settled. Then the processes: whoever holds the lock works on the newest *)
(* manifest and nobody else does, so every save replaces the newest        *)
(* manifest by one that follows from it.                                   *)
(***************************************************************************)
EXTENDS MovieFlow, FiniteSetTheorems, TLAPS

-----------------------------------------------------------------------------
(* What the operators on a manifest preserve *)

OpenStates == {"RUNNING", "RETRYABLE_FAILURE", "ATTENTION_REQUIRED"}

\* The artifact a record names is one its stage can print.
Fits(record, s) == record.artifact \in Kinds[s] \cup {"none"}

ArtifactsFit(m) ==
    /\ \A s \in Stages : Fits(m.stages[s], s)
    /\ \A k \in Ranks, s \in ItemStages : Fits(m.items[k].stages[s], s)

\* The items before the current one are settled, the current one is not and
\* the ones after it are untouched; without a current one, all or none are.
Ordered(m) ==
    /\ m.rank <= m.requested
    /\ \A k \in Ranks :
          /\ k < m.rank => Settled(m.items[k])
          /\ k = m.rank => ~Settled(m.items[k])
          /\ m.rank # 0 /\ k > m.rank => m.items[k] = FreshItem
          /\ m.rank = 0 /\ k <= m.requested => Settled(m.items[k])
          /\ m.rank = 0 /\ k > m.requested => m.items[k] = FreshItem

\* Where a batch has a current item, and where it cannot have items yet.
Placed(m) ==
    /\ Batch(m) /\ m.state \in OpenStates /\ m.stage \in ItemStages => m.rank \in Ranks
    /\ m.stage \in SharedStages \/ ~Batch(m) => m.requested = 0
    /\ Batch(m) /\ m.state \in OpenStates /\ "clear_continues_batch" \in m.attention
           => m.rank \in Ranks

Sound(m) == m \in Manifest /\ ArtifactsFit(m) /\ Ordered(m) /\ Placed(m)

\* n is m after work on its current position: run, schema, rank and number of
\* items are the same, and so is every item but the current one.
SamePlace(m, n) ==
    /\ n.run = m.run /\ n.schema = m.schema
    /\ n.rank = m.rank /\ n.requested = m.requested
    /\ \A k \in Ranks : k # m.rank => n.items[k] = m.items[k]

-----------------------------------------------------------------------------
(* Types of the parts *)

\* A stage that was not started yet is a stage record, an untouched item an item.
LEMMA FreshItemType == Pending \in StageRecord /\ FreshItem \in Item /\ ~Settled(FreshItem)
  BY DEF Pending, StageRecord, StageStatus, AttemptStatus, FreshItem, Item, ItemStatus,
         PostHistory, Settled

\* The manifest of a run that has just begun is sound and has no item yet.
LEMMA NewManifestSound ==
  ASSUME NEW r \in Runs, NEW schema \in {1, 2}
  PROVE  /\ Sound(NewManifest(r, schema))
         /\ NewManifest(r, schema).run = r
         /\ NewManifest(r, schema).state = "RUNNING"
<1> DEFINE m == NewManifest(r, schema)
<1>1. m \in Manifest
  BY FreshItemType, BoundsAssumption
  DEF NewManifest, Manifest, States, TerminalStates, Results, Stages, SharedStages, Ranks,
      PostHistory
<1>2. ArtifactsFit(m)
  BY DEF ArtifactsFit, Fits, NewManifest, FreshItem, Pending, Stages
<1>3. Ordered(m)
  BY FreshItemType, BoundsAssumption DEF Ordered, NewManifest, Ranks
<1>4. Placed(m)
  BY DEF Placed, NewManifest, ItemStages
<1> QED
  BY <1>1, <1>2, <1>3, <1>4 DEF Sound, NewManifest

\* A run directory without a manifest counts as a sound one too.
LEMMA AbsentSound ==
  ASSUME NEW r \in Runs
  PROVE  Sound(Absent(r)) /\ Absent(r).run = r /\ Absent(r).state = "ABSENT"
<1> DEFINE m == NewManifest(r, 2)
<1>1. Sound(m) /\ m.run = r
  BY NewManifestSound
<1>2. Absent(r) = [m EXCEPT !.state = "ABSENT"]
  BY DEF Absent
<1>3. Absent(r) \in Manifest /\ Absent(r).run = r /\ Absent(r).state = "ABSENT"
  BY <1>1, <1>2 DEF Sound, Manifest, States
<1>4. ArtifactsFit(Absent(r))
  BY <1>1, <1>2 DEF Sound, ArtifactsFit, Manifest
<1>5. Ordered(Absent(r))
  BY <1>1, <1>2 DEF Sound, Ordered, Manifest
<1>6. Placed(Absent(r))
  BY <1>1, <1>2 DEF Sound, Placed, Manifest, Batch, OpenStates
<1> QED
  BY <1>3, <1>4, <1>5, <1>6 DEF Sound

\* The record of a stage, at the run or at the current item, is a stage record.
LEMMA RecordOfType ==
  ASSUME NEW m \in Manifest, NEW s \in Stages, PerItem(m, s) => m.rank \in Ranks
  PROVE  /\ RecordOf(m, s) \in StageRecord
         /\ ArtifactsFit(m) => Fits(RecordOf(m, s), s)
<1>1. CASE PerItem(m, s)
  BY <1>1 DEF RecordOf, Manifest, Item, ArtifactsFit, PerItem
<1>2. CASE ~PerItem(m, s)
  BY <1>2 DEF RecordOf, Manifest, ArtifactsFit
<1> QED
  BY <1>1, <1>2

\* Replacing the items or the stage records of a manifest gives a manifest.
LEMMA ManifestPartsTypes ==
  /\ \A m \in Manifest, items \in [Ranks -> Item] : [m EXCEPT !.items = items] \in Manifest
  /\ \A m \in Manifest, stages \in [Stages -> StageRecord] :
        [m EXCEPT !.stages = stages] \in Manifest
BY DEF Manifest

-----------------------------------------------------------------------------
(* Writing one record, or the status of one item *)

\* s is a stage the current position of m can be at.
At(m, s) ==
    /\ s \in Stages
    /\ PerItem(m, s) => m.rank \in Ranks
    /\ s \in SharedStages => m.requested = 0

\* n differs from m in its stage and item records only.
SameHead(m, n) ==
    /\ n.state = m.state /\ n.result = m.result /\ n.stage = m.stage
    /\ n.found = m.found /\ n.attention = m.attention /\ n.authorized = m.authorized

\* Where an open sound manifest stands is a position its stage can be at.
LEMMA OpenAtStage ==
  ASSUME NEW m, Sound(m), m.state \in OpenStates
  PROVE  At(m, m.stage)
BY DEF Sound, Placed, At, PerItem, Manifest, Stages

\* Replacing one stage record keeps the place, the head and every item status.
LEMMA WithRecordKeeps ==
  ASSUME NEW m \in Manifest, NEW s, At(m, s), NEW r \in StageRecord
  PROVE  LET n == WithRecord(m, s, r) IN
         /\ n \in Manifest
         /\ SamePlace(m, n) /\ SameHead(m, n)
         /\ \A k \in Ranks : /\ n.items[k].status = m.items[k].status
                             /\ n.items[k].outcome = m.items[k].outcome
         /\ RecordOf(n, s) = r
         /\ ArtifactsFit(m) /\ Fits(r, s) => ArtifactsFit(n)
<1> DEFINE n == WithRecord(m, s, r)
<1>1. CASE PerItem(m, s)
  <2>1. m.rank \in Ranks /\ s \in ItemStages /\ Batch(m)
    BY <1>1 DEF At, PerItem
  <2>2. n = [m EXCEPT !.items[m.rank].stages[s] = r]
    BY <1>1 DEF WithRecord
  <2>3. n \in Manifest
    <3> DEFINE item == [m.items[m.rank] EXCEPT !.stages[s] = r]
               items == [m.items EXCEPT ![m.rank] = item]
    <3>1. m.items[m.rank] \in Item
      BY <2>1 DEF Manifest
    <3>2. item \in Item
      BY <2>1, <3>1 DEF Item
    <3>3. items \in [Ranks -> Item]
      BY <3>2 DEF Manifest
    <3>4. n = [m EXCEPT !.items = items]
      BY <2>2
    <3> QED
      BY ZenonT(40), <3>3, <3>4, ManifestPartsTypes
  <2>4. SamePlace(m, n) /\ SameHead(m, n)
    BY <2>1, <2>2 DEF SamePlace, SameHead, Manifest
  <2>5. \A k \in Ranks : /\ n.items[k].status = m.items[k].status
                         /\ n.items[k].outcome = m.items[k].outcome
    BY <2>1, <2>2 DEF Manifest, Item
  <2>6. RecordOf(n, s) = r
    BY <2>1, <2>2 DEF RecordOf, PerItem, Batch, Manifest, Item
  <2>7. ASSUME ArtifactsFit(m), Fits(r, s) PROVE ArtifactsFit(n)
    <3>1. \A t \in Stages : n.stages[t] = m.stages[t]
      BY <2>1, <2>2 DEF Manifest
    <3>2. \A k \in Ranks, t \in ItemStages :
             n.items[k].stages[t] = IF k = m.rank /\ t = s THEN r ELSE m.items[k].stages[t]
      BY <2>1, <2>2 DEF Manifest, Item
    <3> QED
      BY <2>7, <3>1, <3>2 DEF ArtifactsFit
  <2> QED
    BY <2>3, <2>4, <2>5, <2>6, <2>7
<1>2. CASE ~PerItem(m, s)
  <2>1. s \in Stages
    BY DEF At
  <2>2. n = [m EXCEPT !.stages[s] = r]
    BY <1>2 DEF WithRecord
  <2>3. n \in Manifest /\ SamePlace(m, n) /\ SameHead(m, n) /\ n.items = m.items
    BY <2>1, <2>2 DEF Manifest, SamePlace, SameHead
  <2>4. RecordOf(n, s) = r
    BY <1>2, <2>1, <2>2 DEF RecordOf, PerItem, Batch, Manifest
  <2>5. ASSUME ArtifactsFit(m), Fits(r, s) PROVE ArtifactsFit(n)
    BY <2>1, <2>2, <2>5 DEF ArtifactsFit, Manifest
  <2> QED
    BY <2>3, <2>4, <2>5
<1> QED
  BY <1>1, <1>2

\* Changing the status of a stage changes no artifact.
LEMMA WithStatusKeeps ==
  ASSUME NEW m \in Manifest, NEW s, At(m, s), NEW status \in StageStatus
  PROVE  LET n == WithStatus(m, s, status) IN
         /\ n \in Manifest
         /\ SamePlace(m, n) /\ SameHead(m, n)
         /\ \A k \in Ranks : /\ n.items[k].status = m.items[k].status
                             /\ n.items[k].outcome = m.items[k].outcome
         /\ ArtifactsFit(m) => ArtifactsFit(n)
<1> DEFINE r == [RecordOf(m, s) EXCEPT !.status = status]
<1>1. RecordOf(m, s) \in StageRecord /\ (ArtifactsFit(m) => Fits(RecordOf(m, s), s))
  BY RecordOfType DEF At
<1>2. r \in StageRecord /\ r.artifact = RecordOf(m, s).artifact
  BY <1>1 DEF StageRecord
<1>3. ArtifactsFit(m) => Fits(r, s)
  BY <1>1, <1>2 DEF Fits
<1> HIDE DEF r
<1>4. WithStatus(m, s, status) = WithRecord(m, s, r)
  BY DEF WithStatus, r
<1> QED
  BY <1>2, <1>3, <1>4, WithRecordKeeps

\* Setting the status of the current item and its aggregate.
LEMMA WithItemKeeps ==
  ASSUME NEW m \in Manifest, NEW s, At(m, s),
         NEW status \in ItemStatus, NEW aggregate \in StageStatus
  PROVE  LET n == WithItem(m, s, status, aggregate) IN
         /\ n \in Manifest
         /\ SamePlace(m, n) /\ SameHead(m, n)
         /\ ArtifactsFit(m) => ArtifactsFit(n)
         /\ PerItem(m, s) => n.items[m.rank].status = status
         /\ ~PerItem(m, s) => n = m
<1> DEFINE n == WithItem(m, s, status, aggregate)
<1>1. CASE PerItem(m, s)
  <2>1. m.rank \in Ranks /\ s \in Stages
    BY <1>1 DEF At
  <2>2. n = [m EXCEPT !.items[m.rank].status = status, !.stages[s].status = aggregate]
    BY <1>1 DEF WithItem
  <2>3. n \in Manifest
    <3> DEFINE item == [m.items[m.rank] EXCEPT !.status = status]
               items == [m.items EXCEPT ![m.rank] = item]
               stages == [m.stages EXCEPT ![s].status = aggregate]
    <3>1. m.items[m.rank] \in Item /\ m.stages[s] \in StageRecord
      BY <2>1 DEF Manifest
    <3>2. item \in Item /\ [m.stages[s] EXCEPT !.status = aggregate] \in StageRecord
      BY <3>1 DEF Item, StageRecord
    <3>3. items \in [Ranks -> Item] /\ stages \in [Stages -> StageRecord]
      BY <3>2 DEF Manifest
    <3>4. n = [[m EXCEPT !.items = items] EXCEPT !.stages = stages]
      BY <2>2
    <3>5. [m EXCEPT !.items = items] \in Manifest
      BY <3>3, ManifestPartsTypes
    <3> HIDE DEF items, stages
    <3> QED
      BY <3>3, <3>4, <3>5, ManifestPartsTypes
  <2>4. SamePlace(m, n) /\ SameHead(m, n) /\ n.items[m.rank].status = status
    BY <2>1, <2>2 DEF SamePlace, SameHead, Manifest, Item
  <2>5. ASSUME ArtifactsFit(m) PROVE ArtifactsFit(n)
    <3>1. \A t \in Stages : n.stages[t].artifact = m.stages[t].artifact
      BY <2>1, <2>2 DEF Manifest, StageRecord
    <3>2. \A k \in Ranks : n.items[k].stages = m.items[k].stages
      BY <2>1, <2>2 DEF Manifest, Item
    <3> QED
      BY <2>5, <3>1, <3>2 DEF ArtifactsFit, Fits
  <2> QED
    BY <1>1, <2>3, <2>4, <2>5
<1>2. CASE ~PerItem(m, s)
  BY <1>2 DEF WithItem, SamePlace, SameHead
<1> QED
  BY <1>1, <1>2

-----------------------------------------------------------------------------
(* Working on the current position *)

\* n comes from work at the place of m that left its current item unsettled.
Reworks(m, n) ==
    /\ n \in Manifest
    /\ ArtifactsFit(n)
    /\ SamePlace(m, n)
    /\ m.rank \in Ranks => ~Settled(n.items[m.rank])

\* What every save may make of a manifest: the same run, sound, and settled
\* items as they were.
Follows(m, n) ==
    /\ n.run = m.run
    /\ Sound(n)
    /\ n.state # "ABSENT"
    /\ \A k \in Ranks : Settled(m.items[k]) => n.items[k] = m.items[k]

\* Work at the current place keeps the order of the items.
LEMMA ReworkFollows ==
  ASSUME NEW m, Sound(m), NEW n, Reworks(m, n), Placed(n), n.state # "ABSENT"
  PROVE  Follows(m, n)
<1>1. Ordered(n)
  BY DEF Sound, Ordered, Reworks, SamePlace, Manifest, Ranks
<1>2. ASSUME NEW k \in Ranks, Settled(m.items[k])
      PROVE  n.items[k] = m.items[k]
  <2>1. k # m.rank
    BY <1>2 DEF Sound, Ordered
  <2> QED
    BY <2>1 DEF Reworks, SamePlace
<1> QED
  BY <1>1, <1>2 DEF Follows, Sound, Reworks, SamePlace

\* A sound manifest's own current item is not settled.
LEMMA SoundReworks ==
  ASSUME NEW m, Sound(m)
  PROVE  Reworks(m, m)
BY DEF Sound, Ordered, Reworks, SamePlace

\* Writing a stage record of the current position is work at that position.
LEMMA RecordReworks ==
  ASSUME NEW m, NEW b, Reworks(m, b), NEW s, At(b, s),
         NEW r \in StageRecord, Fits(r, s)
  PROVE  Reworks(m, WithRecord(b, s, r)) /\ SameHead(b, WithRecord(b, s, r))
<1> DEFINE n == WithRecord(b, s, r)
<1>0. b \in Manifest /\ ArtifactsFit(b)
  BY DEF Reworks
<1>1. /\ n \in Manifest /\ SamePlace(b, n) /\ SameHead(b, n) /\ ArtifactsFit(n)
      /\ \A k \in Ranks : n.items[k].status = b.items[k].status
  BY <1>0, WithRecordKeeps
<1> QED
  BY <1>1 DEF Reworks, SamePlace, Settled

\* So is changing the status of one of its stages ...
LEMMA StatusReworks ==
  ASSUME NEW m, NEW b, Reworks(m, b), NEW s, At(b, s), NEW status \in StageStatus
  PROVE  Reworks(m, WithStatus(b, s, status)) /\ SameHead(b, WithStatus(b, s, status))
<1> DEFINE n == WithStatus(b, s, status)
<1>0. b \in Manifest /\ ArtifactsFit(b)
  BY DEF Reworks
<1>1. /\ n \in Manifest /\ SamePlace(b, n) /\ SameHead(b, n) /\ ArtifactsFit(n)
      /\ \A k \in Ranks : n.items[k].status = b.items[k].status
  BY <1>0, WithStatusKeeps
<1> QED
  BY <1>1 DEF Reworks, SamePlace, Settled

\* ... and the status of its item, unless that settles the item.
LEMMA ItemReworks ==
  ASSUME NEW m, NEW b, Reworks(m, b), NEW s, At(b, s),
         NEW status \in ItemStatus \ {"ACQUIRED", "SKIPPED"}, NEW aggregate \in StageStatus
  PROVE  /\ Reworks(m, WithItem(b, s, status, aggregate))
         /\ SameHead(b, WithItem(b, s, status, aggregate))
<1> DEFINE n == WithItem(b, s, status, aggregate)
<1>0. b \in Manifest /\ ArtifactsFit(b)
  BY DEF Reworks
<1>1. /\ n \in Manifest /\ SamePlace(b, n) /\ SameHead(b, n) /\ ArtifactsFit(n)
      /\ PerItem(b, s) => n.items[b.rank].status = status
      /\ ~PerItem(b, s) => n = b
  BY <1>0, WithItemKeeps
<1> QED
  BY <1>1 DEF Reworks, SamePlace, Settled

\* A stage a position can be at stays one while the position does.
LEMMA SamePlaceAt ==
  ASSUME NEW m, NEW n, SamePlace(m, n), NEW s, At(m, s)
  PROVE  At(n, s)
BY DEF SamePlace, At, PerItem, Batch

\* Changing the head of a manifest leaves its items, records and place alone.
LEMMA HeadReworks ==
  ASSUME NEW m, NEW b, Reworks(m, b), NEW n \in Manifest,
         n.run = b.run, n.schema = b.schema, n.rank = b.rank, n.requested = b.requested,
         n.items = b.items, n.stages = b.stages
  PROVE  Reworks(m, n)
BY DEF Reworks, SamePlace, ArtifactsFit

\* A failure recorded at the current position, whatever its kind.
LEMMA FailureReworks ==
  ASSUME NEW m, Sound(m), NEW s, At(m, s), NEW status \in StageStatus,
         NEW mark \in ItemStatus \ {"ACQUIRED", "SKIPPED"}
  PROVE  LET n == WithItem(WithStatus(m, s, status), s, mark, status)
         IN  Reworks(m, n) /\ SameHead(m, n)
<1> DEFINE b == WithStatus(m, s, status)
<1>1. Reworks(m, b) /\ SameHead(m, b)
  BY SoundReworks, StatusReworks
<1>2. At(b, s)
  BY <1>1, SamePlaceAt DEF Reworks
<1> HIDE DEF b
<1>3. Reworks(m, WithItem(b, s, mark, status)) /\ SameHead(b, WithItem(b, s, mark, status))
  BY <1>1, <1>2, ItemReworks
<1> QED
  BY <1>1, <1>3 DEF SameHead, b

\* A retryable failure follows from any open manifest.
LEMMA RetryFollows ==
  ASSUME NEW m, Sound(m), m.state \in OpenStates, NEW s, At(m, s)
  PROVE  Follows(m, Retry(m, s)) /\ Retry(m, s).state = "RETRYABLE_FAILURE"
<1> DEFINE b == WithItem(WithStatus(m, s, "FAILED"), s, "RETRYABLE_FAILURE", "FAILED")
           n == Retry(m, s)
<1>1. Reworks(m, b) /\ SameHead(m, b)
  BY FailureReworks DEF StageStatus, ItemStatus
<1>2. n = [b EXCEPT !.state = "RETRYABLE_FAILURE", !.result = "flow_retryable_failure",
                    !.stage = s]
  BY DEF Retry
<1> HIDE DEF b, n
<1>3. /\ n \in Manifest /\ n.run = b.run /\ n.schema = b.schema /\ n.rank = b.rank
      /\ n.requested = b.requested /\ n.items = b.items /\ n.stages = b.stages
      /\ n.state = "RETRYABLE_FAILURE" /\ n.stage = s /\ n.attention = m.attention
  BY <1>1, <1>2 DEF Reworks, Manifest, States, Results, At, SameHead
<1>4. Reworks(m, n)
  BY <1>1, <1>3, HeadReworks
<1>5. Placed(n)
  BY <1>3, <1>4 DEF Placed, Sound, At, PerItem, Reworks, SamePlace, Batch, OpenStates
<1> QED
  BY <1>3, <1>4, <1>5, ReworkFollows DEF n

\* A failure an operator has to clear up follows from any open manifest.
LEMMA AttendFollows ==
  ASSUME NEW m, Sound(m), NEW s, At(m, s), NEW flags \in SUBSET {"stalled"}
  PROVE  Follows(m, Attend(m, s, flags)) /\ Attend(m, s, flags).state = "ATTENTION_REQUIRED"
<1> DEFINE b == WithItem(WithStatus(m, s, "FAILED"), s, "ATTENTION_REQUIRED", "FAILED")
           all == flags \cup (IF s \in ResumableStages THEN {"resume_allowed"} ELSE {})
           n == Attend(m, s, flags)
<1>1. Reworks(m, b)
  BY FailureReworks DEF StageStatus, ItemStatus
<1>2. n = [b EXCEPT !.state = "ATTENTION_REQUIRED", !.result = "flow_attention_required",
                    !.stage = s, !.attention = all]
  BY DEF Attend
<1>3. all \in SUBSET AttentionFlags /\ "clear_continues_batch" \notin all
  BY DEF AttentionFlags
<1> HIDE DEF b, n, all
<1>4. /\ n \in Manifest /\ n.run = b.run /\ n.schema = b.schema /\ n.rank = b.rank
      /\ n.requested = b.requested /\ n.items = b.items /\ n.stages = b.stages
      /\ n.state = "ATTENTION_REQUIRED" /\ n.stage = s /\ n.attention = all
  BY <1>1, <1>2, <1>3 DEF Reworks, Manifest, States, Results, At
<1>5. Reworks(m, n)
  BY <1>1, <1>4, HeadReworks
<1>6. Placed(n)
  BY <1>3, <1>4, <1>5 DEF Placed, Sound, At, PerItem, Reworks, SamePlace, Batch
<1> QED
  BY <1>4, <1>5, <1>6, ReworkFollows DEF n

\* Attention for a cleanup follows from work at the current item of a batch.
LEMMA AttendCleanupFollows ==
  ASSUME NEW m, Sound(m), NEW b, Reworks(m, b), Batch(m) => m.rank \in Ranks,
         ~Batch(m) => m.requested = 0
  PROVE  Follows(m, AttendCleanup(b)) /\ AttendCleanup(b).state = "ATTENTION_REQUIRED"
<1> DEFINE c == WithStatus(b, "transfer", "PARTIAL_SUCCESS")
           d == WithItem(c, "transfer", "ACQUIRED_CLEANUP_REQUIRED", "PARTIAL_SUCCESS")
           flags == IF Batch(b) THEN {"clear_continues_batch"} ELSE {}
           n == AttendCleanup(b)
<1>1. At(b, "transfer")
  BY DEF At, PerItem, Reworks, SamePlace, Batch, Stages, ItemStages, SharedStages
<1>2. Reworks(m, c) /\ SameHead(b, c) /\ SamePlace(m, c)
  BY <1>1, StatusReworks DEF StageStatus, Reworks
<1>3. At(c, "transfer")
  BY <1>1, <1>2 DEF At, PerItem, Reworks, SamePlace, Batch
<1>4. Reworks(m, d)
  BY <1>2, <1>3, ItemReworks DEF StageStatus, ItemStatus
<1>5. n = [d EXCEPT !.state = "ATTENTION_REQUIRED", !.result = "flow_attention_required",
                    !.stage = "transfer", !.attention = flags]
  BY DEF AttendCleanup
<1>6. flags \in SUBSET AttentionFlags
  BY DEF AttentionFlags
<1> HIDE DEF c, d, n, flags
<1>7. /\ n \in Manifest /\ n.run = d.run /\ n.schema = d.schema /\ n.rank = d.rank
      /\ n.requested = d.requested /\ n.items = d.items /\ n.stages = d.stages
      /\ n.state = "ATTENTION_REQUIRED" /\ n.stage = "transfer"
  BY <1>4, <1>5, <1>6 DEF Reworks, Manifest, States, Results, Stages, ItemStages
<1>8. Reworks(m, n)
  BY <1>4, <1>7, HeadReworks
<1>9. Placed(n)
  BY <1>7, <1>8 DEF Placed, Reworks, SamePlace, Batch, SharedStages
<1> QED
  BY <1>7, <1>8, <1>9, ReworkFollows DEF n

\* Moving on to the next stage follows from work at the current position.
LEMMA AdvanceFollows ==
  ASSUME NEW m, Sound(m), NEW b, Reworks(m, b), NEW s, At(b, s), s # "history",
         s = "search" => ~Batch(m), NEW status \in StageStatus
  PROVE  Follows(m, Advance(b, s, status)) /\ Advance(b, s, status).state = "RUNNING"
<1> DEFINE c == WithStatus(b, s, status)
           d == IF PerItem(b, s) THEN [c EXCEPT !.items[b.rank].status = "PROCESSING"] ELSE c
           granted == s # "download" /\ d.authorized
           n == Advance(b, s, status)
<1>1. Reworks(m, c)
  BY StatusReworks
<1>2. Reworks(m, d)
  <2>1. CASE PerItem(b, s)
    <3>1. b.rank \in Ranks /\ b.rank = m.rank /\ c.rank = m.rank
      BY <2>1, <1>1 DEF At, Reworks, SamePlace
    <3> DEFINE item == [c.items[b.rank] EXCEPT !.status = "PROCESSING"]
               items == [c.items EXCEPT ![b.rank] = item]
    <3> HIDE DEF c
    <3>2. c \in Manifest /\ c.items[b.rank] \in Item
      BY <1>1, <3>1 DEF Reworks, Manifest
    <3>3. item \in Item /\ item.stages = c.items[b.rank].stages
      BY <3>2 DEF Item, ItemStatus
    <3>4. items \in [Ranks -> Item]
      BY <3>2, <3>3 DEF Manifest
    <3>5. d = [c EXCEPT !.items = items]
      BY <2>1
    <3>6. d \in Manifest
      BY <3>2, <3>4, <3>5, ManifestPartsTypes
    <3>7. SamePlace(m, d) /\ ~Settled(d.items[m.rank]) /\ d.stages = c.stages
      BY <1>1, <3>1, <3>2, <3>3, <3>5 DEF Reworks, SamePlace, Manifest, Settled, Item
    <3>8. \A k \in Ranks : d.items[k].stages = c.items[k].stages
      BY <3>1, <3>2, <3>3, <3>5 DEF Manifest
    <3> HIDE DEF d
    <3>9. ArtifactsFit(d)
      BY <1>1, <3>7, <3>8 DEF ArtifactsFit, Reworks
    <3> QED
      BY <3>6, <3>7, <3>9 DEF Reworks
  <2>2. CASE ~PerItem(b, s)
    BY <1>1, <2>2
  <2> QED
    BY <2>1, <2>2
<1>3. n = [[d EXCEPT !.state = "RUNNING", !.result = "flow_running", !.stage = NextStage[s],
                     !.attention = {}] EXCEPT !.authorized = granted]
  BY DEF Advance, Proceed, Manifest
<1>4. granted \in BOOLEAN
  BY <1>2 DEF Reworks, Manifest
<1>5. /\ NextStage[s] \in Stages
      /\ NextStage[s] \in SharedStages => s \in SharedStages
      /\ NextStage[s] \in ItemStages => s \in ItemStages \/ s = "search"
  BY DEF At, NextStage, Stages, SharedStages, ItemStages
<1> HIDE DEF c, d, granted, n
<1>6. /\ n \in Manifest /\ n.run = d.run /\ n.schema = d.schema /\ n.rank = d.rank
      /\ n.requested = d.requested /\ n.items = d.items /\ n.stages = d.stages
      /\ n.state = "RUNNING" /\ n.stage = NextStage[s] /\ n.attention = {}
  BY <1>2, <1>3, <1>4, <1>5 DEF Reworks, Manifest, States, Results, AttentionFlags
<1>7. Reworks(m, n)
  BY <1>2, <1>6, HeadReworks
<1>8. Placed(n)
  BY <1>5, <1>6, <1>7 DEF Placed, Reworks, SamePlace, Batch, At, PerItem, Sound, SharedStages, ItemStages
<1> QED
  BY <1>6, <1>7, <1>8, ReworkFollows DEF n

-----------------------------------------------------------------------------
(* Ending a run *)

\* A run that ends outside the item stages ends sound.
LEMMA FinishFollows ==
  ASSUME NEW m, Sound(m), Batch(m) => m.stage \in SharedStages, NEW s, NEW result \in Results,
         s \in {"COMPLETED", "NO_ACTION_NEEDED", "NO_ACQUISITION_AVAILABLE"}
  PROVE  Follows(m, Finish(m, s, result)) /\ Finish(m, s, result).state = s
<1> DEFINE record == [m.stages[m.stage] EXCEPT
                         !.status = IF s = "NO_ACQUISITION_AVAILABLE" THEN "NO_RESULT"
                                    ELSE "SUCCEEDED"]
           stages == [m.stages EXCEPT ![m.stage] = record]
           b == [m EXCEPT !.stages = stages]
           n == Finish(m, s, result)
<1>1. m \in Manifest /\ m.stage \in Stages /\ m.stages[m.stage] \in StageRecord
  BY DEF Sound, Manifest
<1>2. record \in StageRecord /\ record.artifact = m.stages[m.stage].artifact
  BY <1>1 DEF StageRecord, StageStatus
<1>3. stages \in [Stages -> StageRecord]
  BY <1>1, <1>2 DEF Manifest
<1>4. \A t \in Stages : stages[t].artifact = m.stages[t].artifact
  BY <1>1, <1>2 DEF Manifest
<1>5. b \in Manifest
  BY <1>1, <1>3, ManifestPartsTypes
<1> HIDE DEF stages
<1>6. b.stages = stages /\ b.items = m.items /\ SamePlace(m, b) /\ b.stage = m.stage
  BY <1>1 DEF Manifest, SamePlace
<1>7. n = [b EXCEPT !.state = s, !.result = result, !.attention = {}]
  BY DEF Finish, stages
<1> HIDE DEF b, n
<1>8. Reworks(m, b)
  BY <1>4, <1>5, <1>6 DEF Reworks, ArtifactsFit, Fits, Sound, Ordered
<1>9. /\ n \in Manifest /\ n.run = b.run /\ n.schema = b.schema /\ n.rank = b.rank
      /\ n.requested = b.requested /\ n.items = b.items /\ n.stages = b.stages
      /\ n.state = s /\ n.stage = b.stage
  BY <1>5, <1>7 DEF Manifest, States, TerminalStates, AttentionFlags
<1>10. Reworks(m, n)
  BY <1>8, <1>9, HeadReworks
<1>11. Placed(n)
  BY <1>6, <1>9, <1>10 DEF Placed, Sound, Reworks, SamePlace, Batch, OpenStates
<1> QED
  BY <1>9, <1>10, <1>11, ReworkFollows DEF n

\* A manifest counts no more items than a batch has.
LEMMA CountType ==
  ASSUME NEW m \in Manifest, NEW status
  PROVE  Count(m, status) \in 0..Target
<1> DEFINE counted == {k \in 1..m.requested : m.items[k].status = status}
<1>1. m.requested \in 0..Target /\ Target \in Nat
  BY BoundsAssumption DEF Manifest
<1>2. IsFiniteSet(1..Target) /\ Cardinality(1..Target) = Target
  BY <1>1, FS_Interval
<1>3. counted \subseteq 1..Target
  BY <1>1
<1>4. Cardinality(counted) \in Nat /\ Cardinality(counted) <= Target
  BY <1>1, <1>2, <1>3, FS_Subset, FS_CardinalityType
<1> QED
  BY <1>1, <1>4 DEF Count

\* Bringing the counts up to date changes nothing but the counts.
LEMMA RefreshSummaryKeeps ==
  ASSUME NEW m \in Manifest
  PROVE  LET n == RefreshSummary(m) IN
         /\ n \in Manifest /\ SamePlace(m, n) /\ SameHead(m, n)
         /\ n.items = m.items /\ n.stages = m.stages
<1>1. Count(m, "ACQUIRED") \in 0..Target /\ Count(m, "SKIPPED") \in 0..Target
  BY CountType
<1> QED
  BY <1>1 DEF RefreshSummary, Manifest, SamePlace, SameHead

\* Bringing the aggregates up to date changes only run-level statuses.
LEMMA RefreshAggregatesKeeps ==
  ASSUME NEW m \in Manifest
  PROVE  LET n == RefreshAggregates(m) IN
         /\ n \in Manifest /\ SamePlace(m, n) /\ SameHead(m, n)
         /\ n.items = m.items
         /\ ArtifactsFit(m) => ArtifactsFit(n)
<1> DEFINE record(s) == IF s \in ItemStages
                        THEN [m.stages[s] EXCEPT !.status = Aggregate(m, s)] ELSE m.stages[s]
           stages == [s \in Stages |-> record(s)]
           n == RefreshAggregates(m)
<1>1. \A s \in Stages : m.stages[s] \in StageRecord
  BY DEF Manifest
<1>2. \A s \in Stages : Aggregate(m, s) \in StageStatus
  BY <1>1 DEF Aggregate, StageStatus, StageRecord
<1>3. \A s \in Stages : record(s) \in StageRecord /\ record(s).artifact = m.stages[s].artifact
  BY <1>1, <1>2 DEF StageRecord
<1> HIDE DEF record
<1>4. stages \in [Stages -> StageRecord]
  BY <1>3
<1>5. n = [m EXCEPT !.stages = stages]
  BY DEF RefreshAggregates, record
<1>6. n \in Manifest
  BY <1>4, <1>5, ManifestPartsTypes
<1>7. SamePlace(m, n) /\ SameHead(m, n) /\ n.items = m.items /\ n.stages = stages
  BY <1>5 DEF Manifest, SamePlace, SameHead
<1>8. ArtifactsFit(m) => ArtifactsFit(n)
  BY <1>3, <1>7 DEF ArtifactsFit, Fits
<1> QED
  BY <1>6, <1>7, <1>8

\* A batch whose items are all settled ends sound, whatever the counts say.
LEMMA FinishBatchSound ==
  ASSUME NEW m \in Manifest, ArtifactsFit(m), Batch(m),
         \A k \in Ranks : IF k <= m.requested THEN Settled(m.items[k])
                                              ELSE m.items[k] = FreshItem
  PROVE  LET n == FinishBatch(m) IN
         /\ Sound(n) /\ n.run = m.run /\ n.items = m.items
         /\ n.state \in {"NO_ACQUISITION_AVAILABLE", "COMPLETED"}
<1> DEFINE a == RefreshSummary(m)
           full == a.acquired = Target /\ a.skipped = 0 /\ a.requested >= Target
           state == IF a.acquired = 0 THEN "NO_ACQUISITION_AVAILABLE" ELSE "COMPLETED"
           result == CASE a.acquired = 0 -> "flow_no_acquisition_available"
                       [] a.acquired # 0 /\ full -> "flow_completed"
                       [] OTHER -> "flow_completed_with_skips"
           b == [a EXCEPT !.state = state, !.result = result, !.stage = "history",
                          !.rank = 0, !.attention = {}]
           n == FinishBatch(m)
<1>1. /\ a \in Manifest /\ a.run = m.run /\ a.schema = m.schema /\ a.requested = m.requested
      /\ a.items = m.items /\ a.stages = m.stages
  BY RefreshSummaryKeeps DEF SamePlace
<1>2. /\ state \in {"NO_ACQUISITION_AVAILABLE", "COMPLETED"} /\ state \in States
      /\ result \in Results
  BY DEF States, TerminalStates, Results
<1>3. n = RefreshAggregates(b)
  BY DEF FinishBatch
<1> HIDE DEF a, state, result
<1>4. /\ b \in Manifest /\ b.run = a.run /\ b.schema = a.schema /\ b.requested = a.requested
      /\ b.items = a.items /\ b.stages = a.stages
      /\ b.state = state /\ b.stage = "history" /\ b.rank = 0
  <2>1. 0 \in 0..Target /\ "history" \in Stages /\ {} \in SUBSET AttentionFlags
    BY BoundsAssumption DEF Stages, ItemStages
  <2> QED
    BY <1>1, <1>2, <2>1 DEF Manifest
<1>5. ArtifactsFit(b)
  BY <1>1, <1>4 DEF ArtifactsFit
<1> HIDE DEF b, n
<1>6. /\ n \in Manifest /\ ArtifactsFit(n) /\ n.run = b.run /\ n.schema = b.schema
      /\ n.rank = 0 /\ n.requested = b.requested /\ n.items = b.items
      /\ n.state = b.state /\ n.stage = b.stage
  BY <1>3, <1>4, <1>5, RefreshAggregatesKeeps DEF SamePlace, SameHead
<1>7. Ordered(n)
  BY SMTT(30), <1>1, <1>4, <1>6 DEF Ordered, Ranks, Manifest
<1>8. Placed(n)
  BY <1>1, <1>2, <1>4, <1>6 DEF Placed, Batch, OpenStates, SharedStages
<1> QED
  BY <1>1, <1>2, <1>4, <1>6, <1>7, <1>8 DEF Sound, n

-----------------------------------------------------------------------------
(* From one item to the next *)

\* b is m after its current item was settled.
Settles(m, b) ==
    /\ b \in Manifest
    /\ ArtifactsFit(b)
    /\ SamePlace(m, b)
    /\ Settled(b.items[m.rank])

\* With its current item settled, a batch goes on to the next one or ends,
\* and the items settled before are as they were.
LEMMA NextItemFollows ==
  ASSUME NEW m, Sound(m), Batch(m), m.rank \in Ranks, NEW b, Settles(m, b)
  PROVE  /\ Follows(m, AdvanceToNextItem(b))
         /\ AdvanceToNextItem(b).state \in {"RUNNING", "NO_ACQUISITION_AVAILABLE", "COMPLETED"}
<1> DEFINE n == AdvanceToNextItem(b)
<1>1. /\ b \in Manifest /\ ArtifactsFit(b) /\ Batch(b) /\ b.rank = m.rank /\ b.run = m.run
      /\ b.requested = m.requested /\ Settled(b.items[m.rank])
      /\ \A k \in Ranks : k # m.rank => b.items[k] = m.items[k]
  BY DEF Settles, SamePlace, Batch
<1>2. m.rank \in 1..Target /\ m.requested \in 0..Target /\ Target \in Nat
  BY BoundsAssumption DEF Sound, Manifest, Ranks
<1>3. ASSUME NEW k \in Ranks, Settled(m.items[k])
      PROVE  k # m.rank
  BY <1>3 DEF Sound, Ordered
<1>4. CASE b.rank \in 1..(b.requested - 1)
  <2> DEFINE c == [[b EXCEPT !.state = "RUNNING", !.result = "flow_running",
                             !.stage = "probe", !.attention = {}] EXCEPT !.rank = b.rank + 1]
  <2>1. n = RefreshSummary(c)
    BY <1>4 DEF AdvanceToNextItem, Proceed
  <2>2. b.rank + 1 \in 0..Target /\ b.rank + 1 \in Ranks /\ b.rank + 1 <= b.requested
    BY <1>1, <1>2, <1>4 DEF Ranks
  <2>3. "RUNNING" \in States /\ "flow_running" \in Results /\ "probe" \in Stages
    BY DEF States, Results, Stages, ItemStages
  <2>4. /\ c \in Manifest /\ c.run = b.run /\ c.schema = b.schema /\ c.rank = b.rank + 1
        /\ c.requested = b.requested /\ c.items = b.items /\ c.stages = b.stages
        /\ c.state = "RUNNING" /\ c.stage = "probe"
    BY <1>1, <2>2, <2>3 DEF Manifest
  <2> HIDE DEF c, n
  <2>5. /\ n \in Manifest /\ n.run = b.run /\ n.schema = b.schema /\ n.rank = b.rank + 1
        /\ n.requested = b.requested /\ n.items = b.items /\ n.stages = b.stages
        /\ n.state = "RUNNING" /\ n.stage = "probe"
    BY <2>1, <2>4, RefreshSummaryKeeps DEF SamePlace, SameHead
  <2>6. ArtifactsFit(n)
    BY <1>1, <2>5 DEF ArtifactsFit
  <2>7. Ordered(n)
    <3>1. \A k \in Ranks : k < n.rank => Settled(n.items[k])
      BY <1>1, <1>2, <2>5 DEF Sound, Ordered, Ranks
    <3>2. \A k \in Ranks : k >= n.rank => n.items[k] = FreshItem
      BY <1>1, <1>2, <2>5 DEF Sound, Ordered, Ranks
    <3> QED
      BY <2>2, <2>5, <3>1, <3>2, <1>1, <1>2, FreshItemType DEF Ordered, Ranks
  <2>8. Placed(n)
    BY <1>1, <2>2, <2>5 DEF Placed, SharedStages, Batch
  <2> QED
    BY <1>1, <1>3, <2>5, <2>6, <2>7, <2>8 DEF Follows, Sound, n
<1>5. CASE b.rank \notin 1..(b.requested - 1)
  <2>1. m.rank = m.requested
    BY <1>1, <1>2, <1>5 DEF Sound, Ordered
  <2>2. \A k \in Ranks : IF k <= b.requested THEN Settled(b.items[k])
                                             ELSE b.items[k] = FreshItem
    BY <1>1, <1>2, <2>1 DEF Sound, Ordered, Ranks
  <2>3. n = FinishBatch(b)
    BY <1>5 DEF AdvanceToNextItem
  <2> HIDE DEF n
  <2>4. /\ Sound(n) /\ n.run = b.run /\ n.items = b.items
        /\ n.state \in {"NO_ACQUISITION_AVAILABLE", "COMPLETED"}
    BY <1>1, <2>2, <2>3, FinishBatchSound
  <2> QED
    BY <1>1, <1>3, <2>4 DEF Follows, n
<1> QED
  BY <1>4, <1>5

\* Replacing the current item keeps every other one.
LEMMA ReplaceItem ==
  ASSUME NEW m, NEW b, Reworks(m, b), m.rank \in Ranks, NEW item \in Item,
         \A s \in ItemStages : Fits(item.stages[s], s)
  PROVE  LET n == [b EXCEPT !.items = [b.items EXCEPT ![m.rank] = item]] IN
         /\ n \in Manifest /\ ArtifactsFit(n) /\ SamePlace(m, n) /\ SameHead(b, n)
         /\ n.items[m.rank] = item /\ n.stages = b.stages
<1> DEFINE items == [b.items EXCEPT ![m.rank] = item]
           n == [b EXCEPT !.items = items]
<1>1. b \in Manifest /\ ArtifactsFit(b) /\ SamePlace(m, b)
  BY DEF Reworks
<1>2. items \in [Ranks -> Item] /\ items[m.rank] = item
  BY <1>1 DEF Manifest
<1>3. \A k \in Ranks : k # m.rank => items[k] = b.items[k]
  BY <1>1 DEF Manifest
<1> HIDE DEF items
<1>4. n \in Manifest
  BY <1>1, <1>2, ManifestPartsTypes
<1>5. /\ n.items = items /\ n.stages = b.stages /\ n.run = b.run /\ n.schema = b.schema
      /\ n.rank = b.rank /\ n.requested = b.requested /\ SameHead(b, n)
  BY <1>1 DEF Manifest, SameHead
<1> HIDE DEF n
<1>6. ArtifactsFit(n)
  BY <1>1, <1>2, <1>3, <1>5 DEF ArtifactsFit
<1>7. SamePlace(m, n)
  BY <1>1, <1>3, <1>5 DEF SamePlace
<1> QED
  BY <1>2, <1>4, <1>5, <1>6, <1>7 DEF n, items

\* Skipping the current item settles it.
LEMMA SkipSettles ==
  ASSUME NEW m, NEW b, Reworks(m, b), m.rank \in Ranks
  PROVE  Settles(m, SkipItem(b))
<1> DEFINE old == b.items[m.rank]
           stages == [s \in ItemStages |->
                         [old.stages[s] EXCEPT
                             !.status = IF s = "probe" THEN "NO_RESULT" ELSE "SKIPPED"]]
           item == [old EXCEPT !.status = "SKIPPED", !.stages = stages]
<1>1. b \in Manifest /\ ArtifactsFit(b) /\ b.rank = m.rank
  BY DEF Reworks, SamePlace
<1>2. old \in Item /\ \A s \in ItemStages : Fits(old.stages[s], s)
  BY <1>1 DEF Manifest, ArtifactsFit
<1> HIDE DEF old
<1>3. \A s \in ItemStages : old.stages[s] \in StageRecord
  BY <1>2 DEF Item
<1>4. stages \in [ItemStages -> StageRecord]
  BY <1>3 DEF StageRecord, StageStatus
<1>5. \A s \in ItemStages : stages[s].artifact = old.stages[s].artifact
  BY <1>3 DEF StageRecord
<1> HIDE DEF stages
<1>6. item \in Item /\ item.stages = stages /\ item.status = "SKIPPED"
  BY <1>2, <1>4 DEF Item, ItemStatus
<1>7. \A s \in ItemStages : Fits(item.stages[s], s)
  BY <1>2, <1>5, <1>6 DEF Fits
<1>8. SkipItem(b) = [b EXCEPT !.items = [b.items EXCEPT ![m.rank] = item]]
  BY <1>1 DEF SkipItem, Manifest, Item, item, old, stages
<1> HIDE DEF item
<1> QED
  BY <1>6, <1>7, <1>8, ReplaceItem DEF Settles, Settled

\* Acquiring the current item settles it.
LEMMA AcquireSettles ==
  ASSUME NEW m, NEW b, Reworks(m, b), m.rank \in Ranks
  PROVE  Settles(m, AcquireItem(b)) /\ SameHead(b, AcquireItem(b))
<1> DEFINE old == b.items[m.rank]
           item == [old EXCEPT !.status = "ACQUIRED", !.outcome = "none"]
<1>1. b \in Manifest /\ ArtifactsFit(b) /\ b.rank = m.rank
  BY DEF Reworks, SamePlace
<1>2. old \in Item /\ \A s \in ItemStages : Fits(old.stages[s], s)
  BY <1>1 DEF Manifest, ArtifactsFit
<1>3. item \in Item /\ item.stages = old.stages /\ item.status = "ACQUIRED"
  BY <1>2 DEF Item, ItemStatus, PostHistory
<1>4. AcquireItem(b) = [b EXCEPT !.items = [b.items EXCEPT ![m.rank] = item]]
  BY <1>1 DEF AcquireItem, Manifest, Item
<1> HIDE DEF item
<1> QED
  BY <1>2, <1>3, <1>4, ReplaceItem DEF Settles, Settled

\* Noting what follows history is work at the current position.
LEMMA OutcomeReworks ==
  ASSUME NEW m, NEW b, Reworks(m, b), Batch(m) => m.rank \in Ranks, NEW outcome \in PostHistory
  PROVE  Reworks(m, SetOutcome(b, outcome)) /\ SameHead(b, SetOutcome(b, outcome))
<1>1. b \in Manifest /\ ArtifactsFit(b) /\ b.rank = m.rank /\ (Batch(b) <=> Batch(m))
  BY DEF Reworks, SamePlace, Batch
<1>2. CASE Batch(m)
  <2> DEFINE old == b.items[m.rank]
             item == [old EXCEPT !.outcome = outcome]
  <2>1. /\ m.rank \in Ranks /\ old \in Item /\ \A s \in ItemStages : Fits(old.stages[s], s)
        /\ ~Settled(old)
    BY <1>1, <1>2 DEF Manifest, ArtifactsFit, Reworks
  <2>2. item \in Item /\ item.stages = old.stages /\ item.status = old.status
    BY <2>1 DEF Item
  <2>3. SetOutcome(b, outcome) = [b EXCEPT !.items = [b.items EXCEPT ![m.rank] = item]]
    BY <1>1, <1>2 DEF SetOutcome
  <2> HIDE DEF item
  <2> QED
    BY <2>1, <2>2, <2>3, ReplaceItem DEF Reworks, Settled
<1>3. CASE ~Batch(m)
  <2> DEFINE n == SetOutcome(b, outcome)
  <2>1. n = [b EXCEPT !.outcome = outcome]
    BY <1>1, <1>3 DEF SetOutcome
  <2>2. /\ n \in Manifest /\ n.run = b.run /\ n.schema = b.schema /\ n.rank = b.rank
        /\ n.requested = b.requested /\ n.items = b.items /\ n.stages = b.stages
        /\ SameHead(b, n)
    BY <1>1, <2>1 DEF Manifest, SameHead
  <2> HIDE DEF n
  <2> QED
    BY <2>2, HeadReworks DEF n
<1> QED
  BY <1>2, <1>3

-----------------------------------------------------------------------------
(* What an evaluation makes of a manifest *)

\* The items of a search start untouched, the first one current.
LEMMA InitializeFollows ==
  ASSUME NEW m, Sound(m), Batch(m), m.stage = "search"
  PROVE  Follows(m, InitializeItems(m))
<1> DEFINE a == WithStatus(m, "search", "SUCCEEDED")
           fresh == [k \in Ranks |-> FreshItem]
           b == [a EXCEPT !.requested = m.found, !.items = fresh]
           c == RefreshSummary(b)
           n == InitializeItems(m)
<1>1. /\ m \in Manifest /\ ArtifactsFit(m) /\ m.requested = 0 /\ m.rank = 0
      /\ \A k \in Ranks : m.items[k] = FreshItem
  BY BoundsAssumption DEF Sound, Placed, Ordered, SharedStages, Manifest, Ranks
<1>2. At(m, "search")
  BY <1>1 DEF At, PerItem, ItemStages, Stages, SharedStages
<1>3. Reworks(m, a) /\ SameHead(m, a)
  BY <1>2, SoundReworks, StatusReworks DEF StageStatus
<1>4. a \in Manifest /\ ArtifactsFit(a) /\ SamePlace(m, a)
  BY <1>3 DEF Reworks
<1>5. fresh \in [Ranks -> Item] /\ m.found \in 0..Target
  BY <1>1, FreshItemType DEF Manifest
<1>6. \A k \in Ranks : fresh[k] = FreshItem
  OBVIOUS
<1> HIDE DEF a, fresh
<1>7. /\ b \in Manifest /\ b.run = m.run /\ b.schema = m.schema /\ b.rank = 0
      /\ b.requested = m.found /\ b.items = fresh /\ b.stages = a.stages
  BY <1>1, <1>4, <1>5 DEF Manifest, SamePlace
<1> HIDE DEF b
<1>8. /\ c \in Manifest /\ c.run = m.run /\ c.schema = m.schema /\ c.rank = 0
      /\ c.requested = m.found /\ c.items = fresh /\ c.stages = a.stages
  BY <1>7, RefreshSummaryKeeps DEF SamePlace
<1> HIDE DEF c
<1>9. ArtifactsFit(c) /\ Batch(c)
  BY <1>4, <1>6, <1>8 DEF ArtifactsFit, Fits, FreshItem, Pending, Batch
<1>10. n = IF m.found = 0 THEN FinishBatch(c)
           ELSE [[c EXCEPT !.state = "RUNNING", !.result = "flow_running", !.stage = "probe",
                           !.attention = {}] EXCEPT !.rank = 1]
  BY DEF InitializeItems, Proceed, a, b, c, fresh
<1>11. CASE m.found = 0
  <2>1. \A k \in Ranks : ~ k <= 0
    BY BoundsAssumption DEF Ranks
  <2>2. Sound(n) /\ n.run = c.run /\ n.items = c.items /\ n.state # "ABSENT"
    BY <1>6, <1>8, <1>9, <1>10, <1>11, <2>1, FinishBatchSound
  <2> QED
    BY <1>1, <1>6, <1>8, <2>2 DEF Follows
<1>12. CASE m.found # 0
  <2>1. 1 \in 0..Target /\ m.found >= 1 /\ 1 \in Ranks
    BY <1>5, <1>12, BoundsAssumption DEF Ranks
  <2>2. "RUNNING" \in States /\ "flow_running" \in Results /\ "probe" \in Stages
    BY DEF States, Results, Stages, ItemStages
  <2>3. n = [[c EXCEPT !.state = "RUNNING", !.result = "flow_running", !.stage = "probe",
                           !.attention = {}] EXCEPT !.rank = 1]
    BY <1>10, <1>12
  <2> HIDE DEF n
  <2>4. /\ n \in Manifest /\ n.run = c.run /\ n.schema = c.schema /\ n.rank = 1
        /\ n.requested = m.found /\ n.items = fresh /\ n.stages = c.stages
        /\ n.state = "RUNNING" /\ n.stage = "probe"
    BY ZenonT(40), <1>8, <2>1, <2>2, <2>3 DEF Manifest
  <2>5. ArtifactsFit(n)
    BY <1>8, <1>9, <2>4 DEF ArtifactsFit
  <2>6. Ordered(n)
    BY <1>5, <1>6, <2>1, <2>4, FreshItemType DEF Ordered, Ranks
  <2>7. Placed(n)
    BY <1>8, <1>9, <2>1, <2>4 DEF Placed, Batch, SharedStages
  <2> QED
    BY <1>1, <1>6, <1>8, <2>4, <2>5, <2>6, <2>7 DEF Follows, Sound, n
<1> QED
  BY <1>11, <1>12

\* A recorded movie ends a schema-1 run or settles the current item, unless
\* its seedbox cleanup is left over.
LEMMA RecordedFollows ==
  ASSUME NEW m, Sound(m), m.state \in OpenStates, m.stage = "history"
  PROVE  Follows(m, Recorded(m))
<1> DEFINE b == WithStatus(m, "history", "SUCCEEDED")
<1>1. At(m, "history") /\ m.requested \in 0..Target
  BY OpenAtStage DEF Sound, Manifest
<1>2. Reworks(m, b) /\ SameHead(m, b)
  BY <1>1, SoundReworks, StatusReworks DEF StageStatus
<1>3. /\ Batch(m) => m.rank \in Ranks
      /\ ~Batch(m) => m.requested = 0
  BY DEF Sound, Placed, ItemStages
<1>4. CASE Batch(m)
  <2> DEFINE n == RefreshAggregates(b)
  <2>1. /\ n \in Manifest /\ SamePlace(b, n) /\ SameHead(b, n) /\ n.items = b.items
        /\ ArtifactsFit(n)
    BY <1>2, RefreshAggregatesKeeps DEF Reworks
  <2> HIDE DEF b
  <2>2. Reworks(m, n)
    BY <1>2, <2>1 DEF Reworks, SamePlace
  <2>3. Follows(m, AttendCleanup(n))
    BY <1>3, <2>2, AttendCleanupFollows
  <2>4. Settles(m, AcquireItem(n))
    BY <1>3, <1>4, <2>2, AcquireSettles
  <2>5. Follows(m, AdvanceToNextItem(AcquireItem(n)))
    BY <1>3, <1>4, <2>4, NextItemFollows
  <2> QED
    BY <1>4, <2>3, <2>5 DEF Recorded, b
<1>5. CASE ~Batch(m)
  <2>1. Follows(m, AttendCleanup(b))
    BY <1>2, <1>3, <1>5, AttendCleanupFollows
  <2>2. Follows(m, Finish(m, "COMPLETED", "flow_completed"))
    <3>1. "flow_completed" \in Results
      BY DEF Results
    <3> QED
      BY <1>5, <3>1, FinishFollows DEF Follows
  <2> QED
    BY <1>5, <2>1, <2>2 DEF Recorded
<1> QED
  BY <1>4, <1>5

\* Whatever a stage printed, its evaluation follows from the open manifest.
LEMMA EvaluateArtifactFollows ==
  ASSUME NEW m, Sound(m), m.state \in OpenStates,
         NEW kind, kind \in Kinds[m.stage] \cup {"none"}
  PROVE  Follows(m, EvaluateArtifact(m, m.stage, kind))
<1> DEFINE s == m.stage
           n == EvaluateArtifact(m, s, kind)
<1>1. /\ m \in Manifest /\ s \in Stages /\ At(m, s) /\ Reworks(m, m)
      /\ Batch(m) /\ s \in ItemStages => m.rank \in Ranks
  BY OpenAtStage, SoundReworks DEF Sound, Manifest, Placed
<1>2. "SUCCEEDED" \in StageStatus /\ "PARTIAL_SUCCESS" \in StageStatus
  BY DEF StageStatus
<1>3. Follows(m, Retry(m, s))
  BY <1>1, RetryFollows
<1>4. \A flags \in SUBSET {"stalled"} : Follows(m, Attend(m, s, flags))
  BY <1>1, AttendFollows
<1>5. CASE kind \in {"created", "healthy", "ready"}
  <2>1. s \in {"recommendations", "probe", "download"}
    BY <1>1, <1>5 DEF Kinds, Stages, SharedStages, ItemStages
  <2>2. Follows(m, Advance(m, s, "SUCCEEDED"))
    BY <1>1, <1>2, <2>1, AdvanceFollows
  <2> QED
    BY <1>5, <2>2 DEF EvaluateArtifact
<1>6. CASE kind = "not_needed"
  <2>1. s = "recommendations"
    BY <1>1, <1>6 DEF Kinds, Stages, SharedStages, ItemStages
  <2>2. Follows(m, Finish(m, "NO_ACTION_NEEDED", "flow_no_action_needed"))
    BY <2>1, FinishFollows DEF Results, SharedStages
  <2> QED
    BY <1>6, <2>2 DEF EvaluateArtifact
<1>7. CASE kind = "found"
  <2>1. s = "search"
    BY <1>1, <1>7 DEF Kinds, Stages, SharedStages, ItemStages
  <2>2. Batch(m) => Follows(m, InitializeItems(m))
    BY <2>1, InitializeFollows
  <2>3. ~Batch(m) => Follows(m, Advance(m, s, "SUCCEEDED"))
    BY <1>1, <1>2, <2>1, AdvanceFollows
  <2> QED
    BY <1>7, <2>2, <2>3 DEF EvaluateArtifact
<1>8. CASE kind = "no_candidate"
  <2>1. s = "probe"
    BY <1>1, <1>8 DEF Kinds, Stages, SharedStages, ItemStages
  <2>2. Batch(m) => Follows(m, AdvanceToNextItem(SkipItem(m)))
    BY <1>1, <2>1, SkipSettles, NextItemFollows DEF ItemStages
  <2>3. ~Batch(m) => Follows(m, Finish(m, "NO_ACQUISITION_AVAILABLE",
                                       "flow_no_acquisition_available"))
    BY <2>1, FinishFollows DEF Results
  <2> QED
    BY <1>8, <2>2, <2>3 DEF EvaluateArtifact
<1>9. CASE kind \in {"moved", "cleanup_failed"}
  <2>1. s = "transfer"
    BY <1>1, <1>9 DEF Kinds, Stages, SharedStages, ItemStages
  <2>2. \A outcome \in PostHistory : Reworks(m, SetOutcome(m, outcome))
    BY <1>1, <2>1, OutcomeReworks DEF ItemStages
  <2>3. \A outcome \in PostHistory : At(SetOutcome(m, outcome), s)
    BY <1>1, <2>2, SamePlaceAt DEF Reworks
  <2>4. \A outcome \in PostHistory, status \in StageStatus :
           Follows(m, Advance(SetOutcome(m, outcome), s, status))
    BY <2>1, <2>2, <2>3, AdvanceFollows
  <2>5. "completed" \in PostHistory /\ "cleanup_attention" \in PostHistory
    BY DEF PostHistory
  <2> QED
    BY <1>2, <1>9, <2>4, <2>5 DEF EvaluateArtifact
<1>10. CASE kind \in {"recorded", "already_recorded"}
  <2>1. s = "history"
    BY <1>1, <1>10 DEF Kinds, Stages, SharedStages, ItemStages
  <2> QED
    BY <1>10, <2>1, RecordedFollows DEF EvaluateArtifact
<1>11. CASE kind \in {"offline", "stalled", "unclean", "failed", "none"}
  BY <1>3, <1>4, <1>11 DEF EvaluateArtifact
<1> QED
  BY <1>1, <1>5, <1>6, <1>7, <1>8, <1>9, <1>10, <1>11
     DEF Kinds, Stages, SharedStages, ItemStages

\* The evaluation of the newest attempt follows from the open manifest.
LEMMA EvaluateStageFollows ==
  ASSUME NEW m, Sound(m), m.state \in OpenStates
  PROVE  Follows(m, EvaluateStage(m))
<1> DEFINE r == RecordOf(m, m.stage)
<1>1. At(m, m.stage) /\ m \in Manifest /\ ArtifactsFit(m)
  BY OpenAtStage DEF Sound
<1>2. r.artifact \in Kinds[m.stage] \cup {"none"}
  BY <1>1, RecordOfType DEF At, Fits
<1> HIDE DEF r
<1>3. Follows(m, EvaluateArtifact(m, m.stage, r.artifact))
  BY <1>2, EvaluateArtifactFollows
<1>4. Follows(m, Retry(m, m.stage)) /\ Follows(m, Attend(m, m.stage, {}))
  BY <1>1, RetryFollows, AttendFollows
<1> QED
  BY <1>3, <1>4 DEF EvaluateStage, r

-----------------------------------------------------------------------------
(* What is saved around a child *)

\* Two saves in a row follow from the first manifest.
LEMMA FollowsTransitive ==
  ASSUME NEW m, NEW b, NEW n, Follows(m, b), Follows(b, n)
  PROVE  Follows(m, n)
BY DEF Follows

\* Opening an attempt keeps the stage and leaves the run RUNNING.
LEMMA StartFollows ==
  ASSUME NEW m, Sound(m), m.state \in OpenStates
  PROVE  LET n == StartAttempt(m) IN
         Follows(m, n) /\ n.state = "RUNNING" /\ n.stage = m.stage
<1> DEFINE s == m.stage
           r == [RecordOf(m, s) EXCEPT !.status = "RUNNING", !.attempt = "RUNNING"]
           b == WithRecord(m, s, r)
           c == WithItem(b, s, "PROCESSING", "RUNNING")
           n == StartAttempt(m)
<1>1. At(m, s) /\ m \in Manifest /\ ArtifactsFit(m)
  BY OpenAtStage DEF Sound
<1>2. RecordOf(m, s) \in StageRecord /\ Fits(RecordOf(m, s), s)
  BY <1>1, RecordOfType DEF At
<1>3. r \in StageRecord /\ Fits(r, s)
  BY <1>2 DEF StageRecord, StageStatus, AttemptStatus, Fits
<1> HIDE DEF r
<1>4. Reworks(m, b) /\ SameHead(m, b)
  BY <1>1, <1>3, SoundReworks, RecordReworks
<1>5. At(b, s)
  BY <1>1, <1>4, SamePlaceAt DEF Reworks
<1> HIDE DEF b
<1>6. Reworks(m, c) /\ SameHead(m, c)
  <2>1. "PROCESSING" \in ItemStatus \ {"ACQUIRED", "SKIPPED"} /\ "RUNNING" \in StageStatus
    BY DEF ItemStatus, StageStatus
  <2>2. Reworks(m, c) /\ SameHead(b, c)
    BY <1>4, <1>5, <2>1, ItemReworks
  <2> QED
    BY <1>4, <2>2 DEF SameHead
<1>7. n = [c EXCEPT !.state = "RUNNING", !.result = "flow_running"]
  BY DEF StartAttempt, b, r
<1> HIDE DEF c, n
<1>8. /\ n \in Manifest /\ n.run = c.run /\ n.schema = c.schema /\ n.rank = c.rank
      /\ n.requested = c.requested /\ n.items = c.items /\ n.stages = c.stages
      /\ n.state = "RUNNING" /\ n.stage = m.stage /\ n.attention = m.attention
  BY <1>6, <1>7 DEF Reworks, Manifest, States, Results, SameHead
<1>9. Reworks(m, n)
  BY <1>6, <1>8, HeadReworks
<1>10. Placed(n)
  BY <1>8, <1>9 DEF Placed, Sound, Reworks, SamePlace, Batch
<1> QED
  BY <1>8, <1>9, <1>10, ReworkFollows DEF n

\* Writing any record of the stage of an open run follows from its manifest.
LEMMA RecordFollows ==
  ASSUME NEW m, Sound(m), m.state \in OpenStates, NEW r \in StageRecord, Fits(r, m.stage)
  PROVE  LET n == WithRecord(m, m.stage, r) IN
         Reworks(m, n) /\ SameHead(m, n) /\ Follows(m, n)
<1> DEFINE n == WithRecord(m, m.stage, r)
<1>1. At(m, m.stage)
  BY OpenAtStage
<1>2. Reworks(m, n) /\ SameHead(m, n)
  BY <1>1, SoundReworks, RecordReworks
<1> HIDE DEF n
<1>3. Placed(n) /\ n.state # "ABSENT"
  BY <1>2 DEF Placed, Sound, Reworks, SamePlace, SameHead, Batch, OpenStates
<1> QED
  BY <1>2, <1>3, ReworkFollows DEF n

\* So does what a child answers ...
LEMMA CompleteFollows ==
  ASSUME NEW m, Sound(m), m.state = "RUNNING", NEW kind \in Kinds[m.stage], NEW found \in 0..Target
  PROVE  LET n == CompleteAttempt(m, kind, found) IN
         Follows(m, n) /\ n.state = "RUNNING" /\ n.stage = m.stage
<1> DEFINE r == [status |-> "COMPLETED", attempt |-> "COMPLETED", artifact |-> kind]
           b == WithRecord(m, m.stage, r)
           n == CompleteAttempt(m, kind, found)
<1>0. m.stage \in Stages
  BY DEF Sound, Manifest
<1>1. r \in StageRecord /\ Fits(r, m.stage)
  <2>1. kind \in AllKinds
    BY <1>0 DEF AllKinds
  <2> QED
    BY <2>1 DEF StageRecord, StageStatus, AttemptStatus, Fits
<1> HIDE DEF r
<1>2. Reworks(m, b) /\ SameHead(m, b)
  BY <1>1, RecordFollows DEF OpenStates
<1>3. n = [b EXCEPT !.found = IF kind = "found" THEN found ELSE b.found]
  BY DEF CompleteAttempt, r
<1> HIDE DEF b, n
<1>4. (IF kind = "found" THEN found ELSE b.found) \in 0..Target
  BY <1>2 DEF Reworks, Manifest
<1>5. /\ n \in Manifest /\ n.run = b.run /\ n.schema = b.schema /\ n.rank = b.rank
      /\ n.requested = b.requested /\ n.items = b.items /\ n.stages = b.stages
      /\ n.state = "RUNNING" /\ n.stage = m.stage /\ n.attention = m.attention
  BY <1>2, <1>3, <1>4 DEF Reworks, Manifest, SameHead
<1>6. Reworks(m, n)
  BY <1>2, <1>5, HeadReworks
<1>7. Placed(n)
  BY <1>5, <1>6 DEF Placed, Sound, Reworks, SamePlace, Batch, OpenStates
<1> QED
  BY <1>5, <1>6, <1>7, ReworkFollows DEF n

\* ... that it could not be launched or answered nothing ...
LEMMA FailFollows ==
  ASSUME NEW m, Sound(m), m.state = "RUNNING", NEW attempt \in AttemptStatus
  PROVE  LET n == FailAttempt(m, attempt) IN
         Follows(m, n) /\ n.state = "RUNNING" /\ n.stage = m.stage
<1> DEFINE r == [RecordOf(m, m.stage) EXCEPT !.status = "FAILED", !.attempt = attempt]
<1>1. RecordOf(m, m.stage) \in StageRecord /\ Fits(RecordOf(m, m.stage), m.stage)
  BY OpenAtStage, RecordOfType DEF Sound, OpenStates, At
<1>2. r \in StageRecord /\ Fits(r, m.stage)
  BY <1>1 DEF StageRecord, StageStatus, Fits
<1>3. FailAttempt(m, attempt) = WithRecord(m, m.stage, r)
  BY DEF FailAttempt
<1> HIDE DEF r
<1> QED
  BY <1>2, <1>3, RecordFollows DEF OpenStates, SameHead

\* ... and that nobody knows what became of it.
LEMMA InterruptFollows ==
  ASSUME NEW m, Sound(m), m.state = "RUNNING"
  PROVE  LET n == InterruptAttempt(m) IN
         Follows(m, n) /\ n.state \in {"RUNNING", "ATTENTION_REQUIRED"}
<1> DEFINE s == m.stage
           r == [RecordOf(m, s) EXCEPT !.attempt = "INTERRUPTED"]
           b == WithRecord(m, s, r)
           c == WithStatus(b, s, "INTERRUPTED_RETRYABLE")
           n == InterruptAttempt(m)
<1>0. At(m, s) /\ m \in Manifest /\ ArtifactsFit(m)
  BY OpenAtStage DEF Sound, OpenStates
<1>1. RecordOf(m, s) \in StageRecord /\ Fits(RecordOf(m, s), s)
  BY <1>0, RecordOfType DEF At
<1>2. r \in StageRecord /\ Fits(r, s)
  BY <1>1 DEF StageRecord, AttemptStatus, Fits
<1> HIDE DEF r
<1>3. Reworks(m, b) /\ SameHead(m, b) /\ Follows(m, b)
  BY <1>2, RecordFollows DEF OpenStates
<1>4. At(b, s)
  BY <1>0, <1>3, SamePlaceAt DEF Reworks
<1>5. CASE s \notin SafeInterruptedStages
  <2>1. n = Attend(b, s, {})
    BY <1>5 DEF InterruptAttempt, r
  <2> HIDE DEF b, n
  <2>2. Follows(b, n) /\ n.state = "ATTENTION_REQUIRED"
    BY <1>3, <1>4, <2>1, AttendFollows DEF Follows
  <2> QED
    BY <1>3, <2>2, FollowsTransitive DEF n
<1>6. CASE s \in SafeInterruptedStages
  <2> DEFINE d == IF PerItem(m, s) THEN [c EXCEPT !.items[m.rank].status = "PROCESSING"] ELSE c
  <2>1. n = d
    BY <1>6 DEF InterruptAttempt, r
  <2> HIDE DEF b
  <2>2. Reworks(m, c) /\ SameHead(m, c)
    <3>1. "INTERRUPTED_RETRYABLE" \in StageStatus
      BY DEF StageStatus
    <3>2. Reworks(m, c) /\ SameHead(b, c)
      BY <1>3, <1>4, <3>1, StatusReworks
    <3> QED
      BY <1>3, <3>2 DEF SameHead
  <2> HIDE DEF c
  <2>3. Reworks(m, d) /\ SameHead(m, d)
    <3>1. CASE PerItem(m, s)
      <4> DEFINE old == c.items[m.rank]
                 item == [old EXCEPT !.status = "PROCESSING"]
      <4>1. m.rank \in Ranks /\ c \in Manifest /\ ArtifactsFit(c) /\ c.rank = m.rank
        BY <1>0, <2>2, <3>1 DEF At, Reworks, SamePlace
      <4>2. old \in Item /\ \A t \in ItemStages : Fits(old.stages[t], t)
        BY <4>1 DEF Manifest, ArtifactsFit
      <4>3. item \in Item /\ item.stages = old.stages /\ item.status = "PROCESSING"
        BY <4>2 DEF Item, ItemStatus
      <4>4. d = [c EXCEPT !.items = [c.items EXCEPT ![m.rank] = item]]
        BY <3>1
      <4> HIDE DEF item, d
      <4> QED
        BY <2>2, <4>1, <4>2, <4>3, <4>4, ReplaceItem DEF Reworks, Settled, SameHead
    <3>2. CASE ~PerItem(m, s)
      BY <2>2, <3>2
    <3> QED
      BY <3>1, <3>2
  <2> HIDE DEF d, n
  <2>4. Placed(d) /\ d.state = "RUNNING"
    BY <2>3 DEF Placed, Sound, Reworks, SamePlace, SameHead, Batch, OpenStates
  <2> QED
    BY <2>1, <2>3, <2>4, ReworkFollows DEF n
<1> QED
  BY <1>5, <1>6

-----------------------------------------------------------------------------
(* What an operator's command makes of a manifest *)

\* A resumed run is RUNNING again at the stage it stopped at.
LEMMA ResumeFollows ==
  ASSUME NEW m, Sound(m), m.state = "ATTENTION_REQUIRED"
  PROVE  LET n == ResumeManifest(m) IN Follows(m, n) /\ n.state = "RUNNING"
<1> DEFINE n == ResumeManifest(m)
<1>1. m \in Manifest
  BY DEF Sound
<1>2. /\ n \in Manifest /\ n.run = m.run /\ n.schema = m.schema /\ n.rank = m.rank
      /\ n.requested = m.requested /\ n.items = m.items /\ n.stages = m.stages
      /\ n.state = "RUNNING" /\ n.stage = m.stage /\ n.attention = {}
  BY <1>1 DEF ResumeManifest, Manifest, States, Results
<1> HIDE DEF n
<1>3. Reworks(m, n)
  BY <1>2, SoundReworks, HeadReworks
<1>4. Placed(n)
  BY <1>2 DEF Placed, Sound, Batch, OpenStates
<1> QED
  BY <1>2, <1>3, <1>4, ReworkFollows DEF n

\* An acknowledged cleanup settles its item and the batch goes on, and a
\* clear of anything else ends the run where it stands.
LEMMA ClearFollows ==
  ASSUME NEW m, Sound(m), m.state \in {"ATTENTION_REQUIRED", "RETRYABLE_FAILURE"}
  PROVE  Follows(m, ClearManifest(m))
<1>1. m \in Manifest
  BY DEF Sound
<1>2. CASE Batch(m) /\ "clear_continues_batch" \in m.attention
  <2>1. m.rank \in Ranks
    BY <1>2 DEF Sound, Placed, OpenStates
  <2> DEFINE old == m.items[m.rank]
             gained == [old EXCEPT !.status = "ACQUIRED", !.outcome = "none"]
             item == [gained EXCEPT !.acknowledged = TRUE]
             c == [m EXCEPT !.items = [m.items EXCEPT ![m.rank] = gained]]
             a == [m EXCEPT !.items = [m.items EXCEPT ![m.rank] = item]]
             b == [a EXCEPT !.attention = {}, !.state = "RUNNING", !.result = "flow_running"]
  <2>2. old \in Item /\ \A t \in ItemStages : Fits(old.stages[t], t)
    BY <1>1, <2>1 DEF Sound, Manifest, ArtifactsFit
  <2>3. item \in Item /\ item.stages = old.stages /\ item.status = "ACQUIRED"
    BY <2>2 DEF Item, ItemStatus, PostHistory
  <2>4. ClearManifest(m) = AdvanceToNextItem(b)
    <3>1. AcquireItem(m) = c
      BY <1>1, <2>1, <2>2 DEF AcquireItem, Manifest, Item
    <3>2. c.items[m.rank] = gained
      BY <1>1, <2>1 DEF Manifest
    <3> HIDE DEF gained
    <3>3. [c EXCEPT !.items[m.rank].acknowledged = TRUE]
            = [m EXCEPT !.items = [m.items EXCEPT ![m.rank] = item]]
      BY <1>1, <2>1, <3>2 DEF Manifest
    <3>4. [c EXCEPT !.items[m.rank].acknowledged = TRUE, !.attention = {},
                    !.state = "RUNNING", !.result = "flow_running"] = b
      BY <3>3
    <3> HIDE DEF c, b
    <3> QED
      BY <1>2, <3>1, <3>4 DEF ClearManifest, AcknowledgeCleanup
  <2> HIDE DEF item
  <2>5. /\ a \in Manifest /\ ArtifactsFit(a) /\ SamePlace(m, a) /\ a.items[m.rank] = item
    BY <2>1, <2>2, <2>3, SoundReworks, ReplaceItem
  <2> HIDE DEF a
  <2>6. /\ b \in Manifest /\ b.items = a.items /\ b.stages = a.stages /\ b.run = a.run
        /\ b.schema = a.schema /\ b.rank = a.rank /\ b.requested = a.requested
    BY <2>5 DEF Manifest, States, Results, AttentionFlags
  <2> HIDE DEF b
  <2>7. Settles(m, b)
    BY <2>3, <2>5, <2>6 DEF Settles, SamePlace, ArtifactsFit, Settled
  <2> QED
    BY <1>2, <2>1, <2>4, <2>7, NextItemFollows
<1>3. CASE ~(Batch(m) /\ "clear_continues_batch" \in m.attention)
  <2> DEFINE n == [m EXCEPT !.state = "CLEARED", !.result = "flow_cleared"]
  <2>1. ClearManifest(m) = n
    BY <1>3 DEF ClearManifest
  <2>2. /\ n \in Manifest /\ n.run = m.run /\ n.schema = m.schema /\ n.rank = m.rank
        /\ n.requested = m.requested /\ n.items = m.items /\ n.stages = m.stages
        /\ n.state = "CLEARED" /\ n.stage = m.stage
    BY <1>1 DEF Manifest, States, TerminalStates, Results
  <2> HIDE DEF n
  <2>3. Reworks(m, n)
    BY <2>2, SoundReworks, HeadReworks
  <2>4. Placed(n)
    BY <2>2 DEF Placed, Sound, Batch, OpenStates
  <2> QED
    BY <2>1, <2>2, <2>3, <2>4, ReworkFollows
<1> QED
  BY <1>2, <1>3

-----------------------------------------------------------------------------
(* The inductive invariant *)

\* The manifests on disk are sound; only the newest run may be unfinished, and
\* the runs after it were never begun.
FilesInv ==
    /\ disk \in [Runs -> Manifest]
    /\ newest \in 0..MaxRuns
    /\ latest \in Manifest
    /\ \A r \in Runs :
          /\ Sound(disk[r])
          /\ disk[r].run = r
          /\ r > newest => disk[r] = Absent(r)
          /\ r <= newest => disk[r].state # "ABSENT"
          /\ r < newest => disk[r].state \notin OpenStates

\* The manifest states a process can be in at a place of the stage loop.
Continues(m, place) ==
    /\ place \in {"recover", "exec"} => m.state \in {"RUNNING", "RETRYABLE_FAILURE"}
    /\ place \in {"spawn", "wait", "judge"} => m.state = "RUNNING"

\* Where a process is, or will be once latest-status.json is replaced.
Place(p) == IF pc[p] = "mirror" THEN after[p] ELSE pc[p]

Places == {"recover", "exec", "spawn", "wait", "judge", "exit"}

\* A process that works holds in memory what the newest run has on disk.
Working(p) ==
    pc[p] \notin {"off", "exit"} =>
        /\ newest # 0
        /\ mem[p] = disk[newest]
        /\ Place(p) \in Places
        /\ Continues(mem[p], Place(p))
        /\ pc[p] = "mirror" => after[p] # "wait"

ControlInv ==
    /\ lock \in Slots
    /\ pc \in [Procs -> PcValues]
    /\ after \in [Procs -> PcValues]
    /\ mem \in [Procs -> Manifest]
    /\ \A p \in Procs : (pc[p] # "off" <=> lock = p) /\ Working(p)

WorldInv ==
    /\ kid \in [Slots -> Child]
    /\ copies \subseteq Movies
    /\ rows \in [Movies -> Nat]
    /\ resumed \subseteq Runs \X (0..Target) \X Stages

\* A process waits for a child of the stage its manifest is at.
ChildInv == \A p \in Procs : pc[p] = "wait" => kid[p].stage = mem[p].stage

FlowInv == FilesInv /\ ControlInv /\ WorldInv /\ ChildInv

-----------------------------------------------------------------------------
(* What a step may not do to the manifests *)

\* The action of SettledIsFinal.
KeepsSettled ==
    \A r \in Runs :
        /\ disk[r].state \in {"COMPLETED", "NO_ACTION_NEEDED",
                              "NO_ACQUISITION_AVAILABLE", "CLEARED"} => disk'[r] = disk[r]
        /\ \A k \in Ranks : Settled(disk[r].items[k]) => disk'[r].items[k] = disk[r].items[k]

\* The action of OnlyOperatorUnblocks.
KeepsBlocked ==
    \A r \in Runs :
        disk[r].state = "ATTENTION_REQUIRED" /\ disk'[r] # disk[r] =>
            \E p \in Procs : Resume(p) \/ Clear(p)

-----------------------------------------------------------------------------
(* The building blocks of the actions *)

\* The newest run, once there is one, is a run.
LEMMA NewestIsRun ==
  ASSUME FilesInv, newest # 0
  PROVE  newest \in Runs /\ Sound(disk[newest]) /\ disk[newest].run = newest
BY BoundsAssumption DEF FilesInv, Runs

\* A save of a manifest that follows from the open newest one, by the process
\* that holds the lock or has just taken it.
LEMMA SaveKeeps ==
  ASSUME FilesInv, ControlInv, NEW p \in Procs, NEW m,
         NEW goto \in {"exec", "spawn", "judge", "exit"}, Save(p, m, goto),
         lock' = p, lock = p \/ lock = Nobody,
         newest # 0, disk[newest].state \in OpenStates,
         Follows(disk[newest], m), Continues(m, goto)
  PROVE  /\ FilesInv' /\ ControlInv' /\ KeepsSettled
         /\ \A q \in Procs : pc'[q] # "wait"
         /\ \A r \in Runs : disk'[r] # disk[r] => r = newest
<1>1. /\ newest \in Runs /\ Sound(disk[newest]) /\ disk[newest].run = newest
      /\ m.run = newest /\ Sound(m) /\ m \in Manifest /\ m.state # "ABSENT"
  BY NewestIsRun DEF Follows, Sound
<1>2. /\ disk' = [disk EXCEPT ![newest] = m] /\ newest' = newest /\ latest' = latest
      /\ mem' = [mem EXCEPT ![p] = m]
      /\ pc' = [pc EXCEPT ![p] = "mirror"] /\ after' = [after EXCEPT ![p] = goto]
  BY <1>1 DEF Save
<1>3. \A r \in Runs : disk'[r] = IF r = newest THEN m ELSE disk[r]
  BY <1>1, <1>2 DEF FilesInv
<1>4. FilesInv'
  <2>1. newest \in Nat /\ \A r \in Runs : r \in Nat
    BY <1>1, BoundsAssumption DEF Runs
  <2>2. \A r \in Runs :
          /\ Sound(disk'[r]) /\ disk'[r].run = r
          /\ r > newest => disk'[r] = Absent(r)
          /\ r <= newest => disk'[r].state # "ABSENT"
          /\ r < newest => disk'[r].state \notin OpenStates
    BY <1>1, <1>3, <2>1 DEF FilesInv
  <2>3. disk' \in [Runs -> Manifest]
    BY <1>1, <1>2 DEF FilesInv
  <2> QED
    BY <1>2, <2>2, <2>3 DEF FilesInv
<1>5. \A q \in Procs : q # p => pc[q] = "off"
  BY ProcsAssumption DEF ControlInv
<1>6. ControlInv'
  <2>1. /\ lock' \in Slots /\ pc' \in [Procs -> PcValues] /\ after' \in [Procs -> PcValues]
        /\ mem' \in [Procs -> Manifest]
    BY <1>1, <1>2 DEF ControlInv, Slots, PcValues
  <2>2. \A q \in Procs : q # p => pc'[q] = "off"
    BY <1>2, <1>5 DEF ControlInv
  <2>3. pc'[p] = "mirror" /\ after'[p] = goto /\ mem'[p] = m /\ disk'[newest'] = m
    BY <1>1, <1>2, <1>3 DEF ControlInv
  <2>4. \A q \in Procs : (pc'[q] # "off" <=> lock' = q) /\ Working(q)'
    BY <1>2, <2>2, <2>3 DEF Working, Place, Places
  <2> QED
    BY <2>1, <2>4 DEF ControlInv
<1>7. KeepsSettled
  BY <1>1, <1>3 DEF KeepsSettled, Follows, OpenStates
<1>8. \A q \in Procs : pc'[q] # "wait"
  BY <1>2, <1>5 DEF ControlInv
<1> QED
  BY <1>3, <1>4, <1>6, <1>7, <1>8

\* A move of the process that holds the lock to another place.
LEMMA GotoKeeps ==
  ASSUME FilesInv, ControlInv, NEW p \in Procs, NEW place \in Places, Goto(p, place),
         lock' = p, lock = p \/ lock = Nobody,
         place # "exit" => /\ newest # 0 /\ mem[p] = disk[newest]
                           /\ Continues(mem[p], place)
  PROVE  FilesInv' /\ ControlInv' /\ (\A q \in Procs : q # p => pc'[q] = "off")
<1>1. /\ disk' = disk /\ newest' = newest /\ latest' = latest
      /\ after' = after /\ mem' = mem /\ pc' = [pc EXCEPT ![p] = place]
  BY DEF Goto, files
<1>2. FilesInv'
  BY <1>1 DEF FilesInv
<1>3. \A q \in Procs : q # p => pc[q] = "off" /\ pc'[q] = "off"
  BY <1>1, ProcsAssumption DEF ControlInv
<1>4. pc'[p] = place /\ pc' \in [Procs -> PcValues] /\ lock' \in Slots
  BY <1>1 DEF ControlInv, Slots, Places, PcValues
<1>5. \A q \in Procs : (pc'[q] # "off" <=> lock' = q) /\ Working(q)'
  BY <1>1, <1>3, <1>4 DEF Working, Place, Places
<1> QED
  BY <1>1, <1>2, <1>3, <1>4, <1>5 DEF ControlInv

\* The death of a process frees its lock and keeps everything else.
LEMMA DiesKeeps ==
  ASSUME FilesInv, ControlInv, NEW p \in Procs, Dies(p)
  PROVE  /\ FilesInv' /\ ControlInv' /\ disk' = disk
         /\ \A q \in Procs : q # p => pc'[q] = pc[q] /\ mem'[q] = mem[q]
         /\ pc'[p] = "off"
<1>1. /\ disk' = disk /\ newest' = newest /\ latest' = latest
      /\ pc' = [pc EXCEPT ![p] = "off"] /\ after' = [after EXCEPT ![p] = "off"]
      /\ mem' = [mem EXCEPT ![p] = Absent(1)] /\ lock' = Nobody /\ lock = p
  BY DEF Dies, files, ControlInv
<1>2. FilesInv'
  BY <1>1 DEF FilesInv
<1>3. Absent(1) \in Manifest
  BY AbsentSound, BoundsAssumption DEF Sound, Runs
<1>4. /\ pc' \in [Procs -> PcValues] /\ after' \in [Procs -> PcValues]
      /\ mem' \in [Procs -> Manifest] /\ lock' \in Slots
  BY <1>1, <1>3 DEF ControlInv, PcValues, Slots
<1>5. /\ pc'[p] = "off"
      /\ \A q \in Procs : q # p => pc'[q] = pc[q] /\ mem'[q] = mem[q]
  BY <1>1 DEF ControlInv
<1>6. \A q \in Procs : pc'[q] = "off"
  BY <1>1, <1>5 DEF ControlInv
<1>7. \A q \in Procs : (pc'[q] # "off" <=> lock' = q) /\ Working(q)'
  BY <1>1, <1>6, ProcsAssumption DEF Working
<1> QED
  BY <1>1, <1>2, <1>4, <1>5, <1>7 DEF ControlInv

\* What a process at work knows: it has the lock and the newest manifest.
LEMMA AtWork ==
  ASSUME FilesInv, ControlInv, NEW p \in Procs, pc[p] \notin {"off", "exit"}
  PROVE  /\ lock = p /\ newest # 0 /\ newest \in Runs
         /\ mem[p] = disk[newest] /\ Sound(mem[p]) /\ mem[p] \in Manifest
         /\ Place(p) \in Places /\ Continues(mem[p], Place(p))
         /\ pc[p] = "mirror" => after[p] # "wait"
BY NewestIsRun DEF ControlInv, Working, Sound

-----------------------------------------------------------------------------
(* Every action keeps the invariant *)

\* What every step is shown to do.
Preserved == FlowInv' /\ KeepsSettled /\ KeepsBlocked

\* A step that leaves the disk alone neither unsettles nor unblocks anything.
LEMMA QuietKeeps ==
  ASSUME FilesInv, disk' = disk
  PROVE  KeepsSettled /\ KeepsBlocked
BY DEF KeepsSettled, KeepsBlocked

\* What nobody touches stays typed.
LEMMA WorldUnchanged ==
  ASSUME WorldInv, UNCHANGED <<kid, world, resumed>>
  PROVE  WorldInv'
BY DEF WorldInv, world

\* Beginning a run: the first one, or one after a run that has ended.
LEMMA RunNewKeeps ==
  ASSUME FlowInv, NEW p \in Procs, RunNew(p)
  PROVE  Preserved
<1> DEFINE r == newest + 1
           m == NewManifest(r, 2)
<1>1. /\ newest \in 0..MaxRuns /\ newest < MaxRuns /\ MaxRuns \in Nat
      /\ newest # 0 => disk[newest].state \in TerminalStates
      /\ pc[p] = "off" /\ lock = Nobody /\ lock' = p
  BY BoundsAssumption DEF RunNew, TakeLock, FlowInv, FilesInv
<1>2. r \in Runs
  BY <1>1 DEF Runs
<1>3. Sound(m) /\ m.run = r /\ m.state = "RUNNING"
  BY <1>2, NewManifestSound
<1> HIDE DEF m
<1>4. /\ disk' = [disk EXCEPT ![r] = m] /\ newest' = r /\ latest' = latest
      /\ mem' = [mem EXCEPT ![p] = m]
      /\ pc' = [pc EXCEPT ![p] = "mirror"] /\ after' = [after EXCEPT ![p] = "exec"]
      /\ kid' = kid /\ copies' = copies /\ rows' = rows /\ resumed' = {}
  BY <1>3 DEF RunNew, Save, world, m
<1>5. disk[r] = Absent(r)
  BY <1>1, <1>2 DEF FlowInv, FilesInv
<1> HIDE DEF r
<1>6. \A q \in Runs : disk'[q] = IF q = r THEN m ELSE disk[q]
  BY <1>2, <1>4 DEF FlowInv, FilesInv
<1>7. FilesInv'
  <2>1. r = newest + 1 /\ r \in 0..MaxRuns /\ \A q \in Runs : q \in Nat
    BY <1>1, <1>2 DEF r, Runs
  <2>2. \A q \in Runs : Sound(disk'[q]) /\ disk'[q].run = q
    BY <1>3, <1>6 DEF FlowInv, FilesInv
  <2>3. \A q \in Runs : /\ q > r => disk'[q] = Absent(q)
                        /\ q <= r => disk'[q].state # "ABSENT"
    BY <1>1, <1>3, <1>6, <2>1 DEF FlowInv, FilesInv
  <2>4. ASSUME NEW q \in Runs, q < r
        PROVE  disk'[q].state \notin OpenStates
    <3>1. disk'[q] = disk[q] /\ q \in Nat
      BY <1>6, <2>1, <2>4
    <3>2. CASE q < newest
      BY <3>1, <3>2 DEF FlowInv, FilesInv
    <3>3. CASE q = newest
      BY <1>1, <3>1, <3>3 DEF TerminalStates, OpenStates, Runs
    <3> QED
      BY <1>1, <2>1, <2>4, <3>1, <3>2, <3>3
  <2>5. disk' \in [Runs -> Manifest]
    BY <1>2, <1>3, <1>4 DEF FlowInv, FilesInv, Sound
  <2> QED
    BY <1>4, <2>1, <2>2, <2>3, <2>4, <2>5 DEF FlowInv, FilesInv
<1>8. \A q \in Procs : q # p => pc[q] = "off" /\ pc'[q] = "off"
  BY <1>1, <1>4, ProcsAssumption DEF FlowInv, ControlInv
<1>9. pc'[p] = "mirror" /\ after'[p] = "exec" /\ mem'[p] = m /\ disk'[newest'] = m /\ newest' # 0
  BY <1>1, <1>2, <1>4, <1>6 DEF FlowInv, ControlInv, Runs
<1>10. ControlInv'
  <2>1. /\ lock' \in Slots /\ pc' \in [Procs -> PcValues] /\ after' \in [Procs -> PcValues]
        /\ mem' \in [Procs -> Manifest]
    BY <1>1, <1>3, <1>4 DEF FlowInv, ControlInv, Slots, PcValues, Sound
  <2>2. \A q \in Procs : (pc'[q] # "off" <=> lock' = q) /\ Working(q)'
    BY <1>1, <1>3, <1>8, <1>9 DEF Working, Place, Places, Continues
  <2> QED
    BY <2>1, <2>2 DEF ControlInv
<1>11. WorldInv' /\ ChildInv'
  BY <1>4, <1>8, <1>9 DEF FlowInv, WorldInv, ChildInv
<1>12. KeepsSettled /\ KeepsBlocked
  <2>1. disk[r].state = "ABSENT" /\ \A k \in Ranks : disk[r].items[k] = FreshItem
    BY <1>2, <1>5 DEF Absent, NewManifest
  <2> QED
    BY <1>6, <2>1, FreshItemType DEF KeepsSettled, KeepsBlocked
<1> QED
  BY <1>7, <1>10, <1>11, <1>12 DEF Preserved, FlowInv

\* The scheduled run takes up the newest run where it stands.
LEMMA RunContinueKeeps ==
  ASSUME FlowInv, NEW p \in Procs, RunContinue(p)
  PROVE  Preserved
<1>1. /\ newest # 0 /\ disk[newest].state \in {"RUNNING", "RETRYABLE_FAILURE"}
      /\ mem' = [mem EXCEPT ![p] = disk[newest]] /\ pc' = [pc EXCEPT ![p] = "recover"]
      /\ disk' = disk /\ newest' = newest /\ latest' = latest /\ after' = after
      /\ lock = Nobody /\ lock' = p /\ UNCHANGED <<kid, world, resumed>>
  BY DEF RunContinue, TakeLock, files
<1>2. newest \in Runs /\ disk[newest] \in Manifest
  BY <1>1, NewestIsRun DEF FlowInv, Sound
<1>3. FilesInv' /\ WorldInv'
  BY <1>1, WorldUnchanged DEF FlowInv, FilesInv
<1>4. \A q \in Procs : q # p => pc'[q] = "off"
  BY <1>1, ProcsAssumption DEF FlowInv, ControlInv
<1>5. pc'[p] = "recover" /\ mem'[p] = disk[newest]
  BY <1>1 DEF FlowInv, ControlInv
<1>6. ControlInv'
  <2>1. /\ lock' \in Slots /\ pc' \in [Procs -> PcValues] /\ after' \in [Procs -> PcValues]
        /\ mem' \in [Procs -> Manifest]
    BY <1>1, <1>2 DEF FlowInv, ControlInv, Slots, PcValues
  <2>2. \A q \in Procs : (pc'[q] # "off" <=> lock' = q) /\ Working(q)'
    BY <1>1, <1>4, <1>5 DEF Working, Place, Places, Continues
  <2> QED
    BY <2>1, <2>2 DEF ControlInv
<1>7. ChildInv'
  BY <1>4, <1>5 DEF ChildInv
<1> QED
  BY <1>1, <1>3, <1>6, <1>7, QuietKeeps DEF FlowInv, Preserved

\* A refused command only comes and goes.
LEMMA RefuseKeeps ==
  ASSUME FlowInv, NEW p \in Procs, Refuse(p)
  PROVE  Preserved
<1>1. Goto(p, "exit") /\ lock = Nobody /\ lock' = p /\ UNCHANGED <<kid, world, resumed>>
  BY DEF Refuse, TakeLock
<1>2. FilesInv' /\ ControlInv' /\ \A q \in Procs : q # p => pc'[q] = "off"
  BY <1>1, GotoKeeps DEF FlowInv, Places
<1>3. disk' = disk /\ pc'[p] = "exit"
  BY <1>1 DEF Goto, files, FlowInv, ControlInv
<1>4. WorldInv' /\ ChildInv'
  BY <1>1, <1>2, <1>3, WorldUnchanged DEF FlowInv, ChildInv
<1> QED
  BY <1>2, <1>3, <1>4, QuietKeeps DEF FlowInv, Preserved

\* An operator's resume makes the newest run RUNNING again.
LEMMA ResumeKeeps ==
  ASSUME FlowInv, NEW p \in Procs, Resume(p)
  PROVE  Preserved
<1> DEFINE m == ResumeManifest(disk[newest])
<1>1. /\ newest # 0 /\ disk[newest].state = "ATTENTION_REQUIRED"
      /\ lock = Nobody /\ lock' = p /\ Save(p, m, "exec") /\ UNCHANGED <<kid, world>>
      /\ resumed' = resumed \cup {<<newest, disk[newest].rank, disk[newest].stage>>}
  BY DEF Resume, TakeLock
<1>2. newest \in Runs /\ Sound(disk[newest]) /\ disk[newest] \in Manifest
  BY <1>1, NewestIsRun DEF FlowInv, Sound
<1>3. Follows(disk[newest], m) /\ m.state = "RUNNING"
  BY <1>1, <1>2, ResumeFollows
<1> HIDE DEF m
<1>4. /\ FilesInv' /\ ControlInv' /\ KeepsSettled
      /\ \A q \in Procs : pc'[q] # "wait"
  BY <1>1, <1>3, SaveKeeps DEF FlowInv, OpenStates, Continues
<1>5. WorldInv' /\ ChildInv'
  BY <1>1, <1>2, <1>4 DEF FlowInv, WorldInv, ChildInv, world, Manifest
<1>6. KeepsBlocked
  BY DEF KeepsBlocked
<1> QED
  BY <1>4, <1>5, <1>6 DEF FlowInv, Preserved

\* An operator's clear ends the newest run or acknowledges its cleanup.
LEMMA ClearKeeps ==
  ASSUME FlowInv, NEW p \in Procs, Clear(p)
  PROVE  Preserved
<1> DEFINE m == ClearManifest(disk[newest])
<1>1. /\ newest # 0 /\ disk[newest].state \in {"ATTENTION_REQUIRED", "RETRYABLE_FAILURE"}
      /\ lock = Nobody /\ lock' = p /\ Save(p, m, NextPlace(m))
      /\ UNCHANGED <<kid, world, resumed>>
  BY DEF Clear, TakeLock
<1>2. Follows(disk[newest], m)
  BY <1>1, NewestIsRun, ClearFollows DEF FlowInv
<1> HIDE DEF m
<1>3. NextPlace(m) \in {"exec", "exit"} /\ Continues(m, NextPlace(m))
  BY DEF NextPlace, Continues
<1>4. /\ FilesInv' /\ ControlInv' /\ KeepsSettled
      /\ \A q \in Procs : pc'[q] # "wait"
  BY <1>1, <1>2, <1>3, SaveKeeps DEF FlowInv, OpenStates
<1>5. WorldInv' /\ ChildInv'
  BY <1>1, <1>4, WorldUnchanged DEF FlowInv, ChildInv
<1>6. KeepsBlocked
  BY DEF KeepsBlocked
<1> QED
  BY <1>4, <1>5, <1>6 DEF FlowInv, Preserved

\* A process at work whose child is gone saves what follows from the newest
\* manifest: the shape of most steps of the stage loop.
LEMMA WorkKeeps ==
  ASSUME FlowInv, NEW p \in Procs, pc[p] \notin {"off", "exit", "mirror"}, NEW m,
         NEW goto \in {"exec", "spawn", "judge", "exit"}, Save(p, m, goto),
         Follows(mem[p], m), Continues(m, goto), UNCHANGED <<lock, world, resumed>>,
         kid' = kid \/ kid' = [kid EXCEPT ![p] = NoChild]
  PROVE  Preserved
<1>1. /\ lock = p /\ newest # 0 /\ mem[p] = disk[newest]
      /\ disk[newest].state \in {"RUNNING", "RETRYABLE_FAILURE"}
  BY AtWork DEF FlowInv, Place, Places, Continues
<1>2. /\ FilesInv' /\ ControlInv' /\ KeepsSettled
      /\ \A q \in Procs : pc'[q] # "wait"
      /\ \A r \in Runs : disk'[r] # disk[r] => r = newest
  BY <1>1, SaveKeeps DEF FlowInv, OpenStates
<1>3. KeepsBlocked
  BY <1>1, <1>2 DEF KeepsBlocked
<1>4. NoChild \in Child
  BY BoundsAssumption DEF NoChild, Child, Runs, Phases
<1>5. WorldInv' /\ ChildInv'
  BY <1>2, <1>4 DEF FlowInv, WorldInv, ChildInv, world
<1> QED
  BY <1>2, <1>3, <1>5 DEF FlowInv, Preserved

\* Recovery re-evaluates, interrupts or simply goes on.
LEMMA RecoverKeeps ==
  ASSUME FlowInv, NEW p \in Procs, Recover(p)
  PROVE  Preserved
<1> DEFINE m == mem[p]
           n == InterruptAttempt(m)
<1>1. /\ pc[p] = "recover" /\ lock = p /\ lock' = lock /\ newest # 0 /\ m = disk[newest]
      /\ Sound(m) /\ m.state \in {"RUNNING", "RETRYABLE_FAILURE"}
      /\ UNCHANGED <<kid, world, resumed>>
  BY AtWork DEF FlowInv, Recover, Place, Continues
<1>2. ASSUME NEW place \in {"judge", "exec"}, Goto(p, place), Continues(m, place)
      PROVE  Preserved
  <2>1. FilesInv' /\ ControlInv' /\ \A q \in Procs : q # p => pc'[q] = "off"
    BY <1>1, <1>2, GotoKeeps DEF FlowInv, Places
  <2>2. disk' = disk /\ pc'[p] = place
    BY <1>2 DEF Goto, files, FlowInv, ControlInv
  <2>3. WorldInv' /\ ChildInv'
    BY <1>1, <2>1, <2>2, WorldUnchanged DEF FlowInv, ChildInv
  <2> QED
    BY <2>1, <2>2, <2>3, QuietKeeps DEF FlowInv, Preserved
<1>3. CASE m.state = "RUNNING" /\ Goto(p, "judge")
  BY <1>2, <1>3 DEF Continues
<1>4. CASE m.state = "RUNNING" /\ Save(p, n, NextPlace(n))
  <2>1. Follows(m, n)
    BY <1>1, <1>4, InterruptFollows
  <2> HIDE DEF n
  <2>2. NextPlace(n) \in {"exec", "exit"} /\ Continues(n, NextPlace(n))
    BY DEF NextPlace, Continues
  <2> QED
    BY <1>1, <1>4, <2>1, <2>2, WorkKeeps
<1>5. CASE Goto(p, "exec")
  BY <1>1, <1>2, <1>5 DEF Continues
<1> QED
  BY <1>3, <1>4, <1>5 DEF Recover

\* An attempt is opened on disk before its child starts.
LEMMA ExecuteKeeps ==
  ASSUME FlowInv, NEW p \in Procs, Execute(p)
  PROVE  Preserved
<1> DEFINE n == StartAttempt(mem[p])
<1>1. pc[p] = "exec" /\ Save(p, n, "spawn") /\ UNCHANGED <<lock, kid, world, resumed>>
  BY DEF Execute
<1>2. Sound(mem[p]) /\ mem[p].state \in OpenStates
  BY <1>1, AtWork DEF FlowInv, Place, Continues, OpenStates
<1>3. Follows(mem[p], n) /\ n.state = "RUNNING"
  BY <1>2, StartFollows
<1> HIDE DEF n
<1> QED
  BY <1>1, <1>3, WorkKeeps DEF Continues

\* The artifact handed to a child is one some stage can print.
LEMMA InputType ==
  ASSUME NEW m, Sound(m), m.state \in OpenStates
  PROVE  InputOf(m, m.stage) \in AllKinds \cup {"none"}
<1> DEFINE t == PrevStage[m.stage]
<1>0. m \in Manifest /\ m.stage \in Stages
  BY DEF Sound, Manifest
<1>1. CASE m.stage = "recommendations"
  BY <1>1 DEF InputOf
<1>2. CASE m.stage # "recommendations"
  <2>1. t \in Stages /\ (t \in ItemStages => m.stage \in ItemStages)
    BY <1>0, <1>2 DEF PrevStage, Stages, SharedStages, ItemStages
  <2>2. PerItem(m, t) => m.rank \in Ranks
    BY <2>1 DEF PerItem, Sound, Placed
  <2>3. RecordOf(m, t) \in StageRecord
    BY <1>0, <2>1, <2>2, RecordOfType
  <2> QED
    BY <1>2, <2>3 DEF InputOf, StageRecord
<1> QED
  BY <1>1, <1>2

\* The child is started for the stage the manifest is at.
LEMMA SpawnKeeps ==
  ASSUME FlowInv, NEW p \in Procs, Spawn(p)
  PROVE  Preserved
<1> DEFINE m == mem[p]
           child == [stage |-> m.stage, run |-> m.run, rank |-> m.rank, phase |-> "started",
                     resume_stalled |-> m.stage = "download" /\ m.authorized,
                     input |-> InputOf(m, m.stage)]
<1>1. /\ pc[p] = "spawn" /\ Goto(p, "wait") /\ kid' = [kid EXCEPT ![p] = child]
      /\ UNCHANGED <<lock, world, resumed>>
  BY DEF Spawn
<1>2. /\ lock = p /\ newest # 0 /\ m = disk[newest] /\ Sound(m) /\ m \in Manifest
      /\ m.state = "RUNNING"
  BY <1>1, AtWork DEF FlowInv, Place, Continues
<1>3. FilesInv' /\ ControlInv' /\ \A q \in Procs : q # p => pc'[q] = "off"
  BY <1>1, <1>2, GotoKeeps DEF FlowInv, Places, Continues
<1>4. disk' = disk /\ mem' = mem
  BY <1>1 DEF Goto, files
<1>5. child \in Child
  <2>1. InputOf(m, m.stage) \in AllKinds \cup {"none"}
    BY <1>2, InputType DEF OpenStates
  <2>2. /\ m.stage \in Stages /\ m.run \in Runs /\ m.rank \in 0..Target
        /\ m.authorized \in BOOLEAN
    BY <1>2 DEF Manifest
  <2> QED
    BY <2>1, <2>2 DEF Child, Phases
<1>6. child.stage = m.stage
  OBVIOUS
<1> HIDE DEF child
<1>7. WorldInv' /\ ChildInv'
  BY <1>1, <1>3, <1>4, <1>5, <1>6 DEF FlowInv, WorldInv, ChildInv, world, Slots
<1> QED
  BY <1>3, <1>4, <1>7, QuietKeeps DEF FlowInv, Preserved

\* A child that cannot be launched fails its attempt.
LEMMA LaunchFailsKeeps ==
  ASSUME FlowInv, NEW p \in Procs, LaunchFails(p)
  PROVE  Preserved
<1> DEFINE n == FailAttempt(mem[p], "LAUNCH_FAILED")
<1>1. pc[p] = "spawn" /\ Save(p, n, "judge") /\ UNCHANGED <<lock, kid, world, resumed>>
  BY DEF LaunchFails
<1>2. Sound(mem[p]) /\ mem[p].state = "RUNNING"
  BY <1>1, AtWork DEF FlowInv, Place, Continues
<1>3. Follows(mem[p], n) /\ n.state = "RUNNING"
  BY <1>2, FailFollows DEF AttemptStatus
<1> HIDE DEF n
<1> QED
  BY <1>1, <1>3, WorkKeeps DEF Continues

\* A child that answers completes it.
LEMMA ChildAnswersKeeps ==
  ASSUME FlowInv, NEW p \in Procs, ChildAnswers(p)
  PROVE  Preserved
<1>1. PICK kind \in Kinds[kid[p].stage], found \in 0..Target :
         Save(p, CompleteAttempt(mem[p], kind, found), "judge")
  BY DEF ChildAnswers
<1> DEFINE n == CompleteAttempt(mem[p], kind, found)
<1>2. /\ pc[p] = "wait" /\ kid' = [kid EXCEPT ![p] = NoChild]
      /\ UNCHANGED <<lock, world, resumed>>
  BY DEF ChildAnswers
<1>3. Sound(mem[p]) /\ mem[p].state = "RUNNING" /\ kid[p].stage = mem[p].stage
  BY <1>2, AtWork DEF FlowInv, Place, Continues, ChildInv
<1>4. Follows(mem[p], n) /\ n.state = "RUNNING"
  BY <1>3, CompleteFollows
<1> HIDE DEF n
<1> QED
  BY <1>1, <1>2, <1>4, WorkKeeps DEF Continues, n

\* A child that answers nothing readable fails it.
LEMMA ChildBreaksKeeps ==
  ASSUME FlowInv, NEW p \in Procs, ChildBreaks(p)
  PROVE  Preserved
<1> DEFINE n == FailAttempt(mem[p], "INVALID_OUTPUT")
<1>1. /\ pc[p] = "wait" /\ Save(p, n, "judge") /\ kid' = [kid EXCEPT ![p] = NoChild]
      /\ UNCHANGED <<lock, world, resumed>>
  BY DEF ChildBreaks
<1>2. Sound(mem[p]) /\ mem[p].state = "RUNNING"
  BY <1>1, AtWork DEF FlowInv, Place, Continues
<1>3. Follows(mem[p], n) /\ n.state = "RUNNING"
  BY <1>2, FailFollows DEF AttemptStatus
<1> HIDE DEF n
<1> QED
  BY <1>1, <1>3, WorkKeeps DEF Continues

\* The evaluation of an attempt decides where the run goes.
LEMMA JudgeKeeps ==
  ASSUME FlowInv, NEW p \in Procs, Judge(p)
  PROVE  Preserved
<1> DEFINE n == EvaluateStage(mem[p])
<1>1. /\ pc[p] = "judge" /\ Save(p, n, NextPlace(n))
      /\ UNCHANGED <<lock, kid, world, resumed>>
  BY DEF Judge
<1>2. Sound(mem[p]) /\ mem[p].state \in OpenStates
  BY <1>1, AtWork DEF FlowInv, Place, Continues, OpenStates
<1>3. Follows(mem[p], n)
  BY <1>2, EvaluateStageFollows
<1> HIDE DEF n
<1>4. NextPlace(n) \in {"exec", "exit"} /\ Continues(n, NextPlace(n))
  BY DEF NextPlace, Continues
<1> QED
  BY <1>1, <1>3, <1>4, WorkKeeps

\* The copy to latest-status.json touches no run.
LEMMA MirrorKeeps ==
  ASSUME FlowInv, NEW p \in Procs, Mirror(p)
  PROVE  Preserved
<1>1. /\ pc[p] = "mirror" /\ latest' = mem[p] /\ pc' = [pc EXCEPT ![p] = after[p]]
      /\ after' = [after EXCEPT ![p] = "off"]
      /\ disk' = disk /\ newest' = newest /\ lock' = lock /\ mem' = mem
      /\ UNCHANGED <<kid, world, resumed>>
  BY DEF Mirror
<1>2. /\ lock = p /\ newest # 0 /\ mem[p] = disk[newest] /\ mem[p] \in Manifest
      /\ after[p] \in Places /\ Continues(mem[p], after[p])
      /\ after[p] # "wait"
  BY <1>1, AtWork DEF FlowInv, Place
<1>3. FilesInv'
  BY <1>1, <1>2 DEF FlowInv, FilesInv
<1>4. \A q \in Procs : q # p => pc[q] = "off" /\ pc'[q] = "off"
  BY <1>1, <1>2, ProcsAssumption DEF FlowInv, ControlInv
<1>5. /\ pc'[p] = after[p] /\ pc'[p] # "mirror" /\ pc'[p] # "off"
      /\ pc' \in [Procs -> PcValues] /\ after' \in [Procs -> PcValues]
  BY <1>1, <1>2 DEF FlowInv, ControlInv, Places, PcValues
<1>6. ControlInv'
  <2>1. \A q \in Procs : (pc'[q] # "off" <=> lock' = q) /\ Working(q)'
    BY <1>1, <1>2, <1>4, <1>5 DEF Working, Place
  <2> QED
    BY <1>1, <1>5, <2>1 DEF FlowInv, ControlInv
<1>7. WorldInv' /\ ChildInv'
  BY <1>1, <1>2, <1>4, <1>5, WorldUnchanged DEF FlowInv, ChildInv
<1> QED
  BY <1>1, <1>3, <1>6, <1>7, QuietKeeps DEF FlowInv, Preserved

\* A command that is through gives the lock back.
LEMMA ExitKeeps ==
  ASSUME FlowInv, NEW p \in Procs, Exit(p)
  PROVE  Preserved
<1>1. /\ pc[p] = "exit" /\ pc' = [pc EXCEPT ![p] = "off"] /\ mem' = [mem EXCEPT ![p] = Absent(1)]
      /\ lock = p /\ lock' = Nobody /\ after' = after
      /\ disk' = disk /\ newest' = newest /\ latest' = latest
      /\ UNCHANGED <<kid, world, resumed>>
  BY DEF Exit, files, FlowInv, ControlInv
<1>2. FilesInv'
  BY <1>1 DEF FlowInv, FilesInv
<1>3. \A q \in Procs : pc'[q] = "off"
  BY <1>1 DEF FlowInv, ControlInv
<1>4. Absent(1) \in Manifest
  BY AbsentSound, BoundsAssumption DEF Sound, Runs
<1>5. ControlInv'
  <2>1. \A q \in Procs : (pc'[q] # "off" <=> lock' = q) /\ Working(q)'
    BY <1>1, <1>3, ProcsAssumption DEF Working
  <2>2. /\ lock' \in Slots /\ pc' \in [Procs -> PcValues] /\ after' \in [Procs -> PcValues]
        /\ mem' \in [Procs -> Manifest]
    BY <1>1, <1>4 DEF FlowInv, ControlInv, PcValues, Slots
  <2> QED
    BY <2>1, <2>2 DEF ControlInv
<1>6. WorldInv' /\ ChildInv'
  BY <1>1, <1>3, WorldUnchanged DEF FlowInv, ChildInv
<1> QED
  BY <1>1, <1>2, <1>5, <1>6, QuietKeeps DEF FlowInv, Preserved

\* A death, with its child or leaving it orphaned.
LEMMA CrashKeeps ==
  ASSUME FlowInv, NEW p \in Procs, Crash(p) \/ CrashLeavingOrphan(p)
  PROVE  Preserved
<1>1. Dies(p)
  BY DEF Crash, CrashLeavingOrphan
<1>2. /\ FilesInv' /\ ControlInv' /\ disk' = disk
      /\ \A q \in Procs : q # p => pc'[q] = pc[q] /\ mem'[q] = mem[q]
      /\ pc'[p] = "off"
  BY <1>1, DiesKeeps DEF FlowInv
<1>3. NoChild \in Child
  BY BoundsAssumption DEF NoChild, Child, Runs, Phases
<1>4. kid' \in [Slots -> Child] /\ \A q \in Procs : q # p => kid'[q] = kid[q]
  <2>1. Nobody \in Slots /\ p \in Slots /\ kid \in [Slots -> Child]
    BY DEF Slots, FlowInv, WorldInv
  <2>2. CASE Crash(p)
    BY <1>3, <2>1, <2>2 DEF Crash, Slots
  <2>3. CASE CrashLeavingOrphan(p)
    <3>1. kid' = [kid EXCEPT ![p] = NoChild, ![Nobody] = kid[p]] /\ kid[p] \in Child
      BY <2>1, <2>3 DEF CrashLeavingOrphan
    <3> QED
      BY <1>3, <2>1, <3>1, ProcsAssumption DEF Slots
  <2> QED
    BY <2>2, <2>3
<1>5. WorldInv' /\ ChildInv'
  BY <1>1, <1>2, <1>4 DEF FlowInv, WorldInv, ChildInv, Dies, world
<1> QED
  BY <1>2, <1>5, QuietKeeps DEF FlowInv, Preserved

\* What a child does to the world, and an orphan's end.
LEMMA ChildrenKeep ==
  ASSUME FlowInv, (\E c \in Slots : Effect(c)) \/ OrphanEnds
  PROVE  Preserved
<1>1. UNCHANGED <<files, lock, control, resumed>>
  BY DEF Effect, CopyPayload, ReadSheet, AppendRow, OrphanEnds, files, control, world
<1>2. disk' = disk
  BY <1>1 DEF files
<1>3. FilesInv' /\ ControlInv'
  BY <1>1 DEF FlowInv, FilesInv, ControlInv, files, control, Working, Place
<1> DEFINE KidKept == kid' \in [Slots -> Child] /\ \A q \in Procs : kid'[q].stage = kid[q].stage
           EffectsKept == copies' \subseteq Movies /\ rows' \in [Movies -> Nat]
<1>4. KidKept /\ EffectsKept
  <2>1. kid \in [Slots -> Child] /\ copies \subseteq Movies /\ rows \in [Movies -> Nat]
    BY DEF FlowInv, WorldInv
  <2>2. \A c \in Slots : MovieOf(kid[c]) \in Movies
    BY <2>1 DEF MovieOf, Child, Movies
  <2>3. ASSUME NEW c \in Slots, NEW phase \in Phases, kid' = [kid EXCEPT ![c].phase = phase]
        PROVE  KidKept
    BY <2>1, <2>3 DEF Child, Slots
  <2>4. CASE OrphanEnds
    <3>1. NoChild \in Child
      BY BoundsAssumption DEF NoChild, Child, Runs, Phases
    <3> QED
      BY <2>1, <2>4, <3>1, ProcsAssumption DEF OrphanEnds, world, Slots
  <2> HIDE DEF KidKept
  <2>5. ASSUME NEW c \in Slots, CopyPayload(c) PROVE KidKept /\ EffectsKept
    <3>1. KidKept
      BY <2>3, <2>5 DEF CopyPayload, Phases
    <3>2. EffectsKept
      BY <2>1, <2>2, <2>5 DEF CopyPayload
    <3> QED
      BY <3>1, <3>2
  <2>6. ASSUME NEW c \in Slots, ReadSheet(c) PROVE KidKept /\ EffectsKept
    <3> DEFINE phase == IF rows[MovieOf(kid[c])] > 0 THEN "listed" ELSE "unlisted"
    <3>1. phase \in Phases
      BY DEF Phases
    <3>2. kid' = [kid EXCEPT ![c].phase = phase] /\ UNCHANGED world
      BY <2>6 DEF ReadSheet
    <3> HIDE DEF phase
    <3>3. KidKept
      BY <2>3, <3>1, <3>2
    <3> QED
      BY <2>1, <3>2, <3>3 DEF world
  <2>7. ASSUME NEW c \in Slots, AppendRow(c) PROVE KidKept /\ EffectsKept
    <3>1. KidKept
      BY <2>3, <2>7 DEF AppendRow, Phases
    <3>2. EffectsKept
      BY <2>1, <2>2, <2>7 DEF AppendRow
    <3> QED
      BY <3>1, <3>2
  <2> QED
    BY <2>4, <2>5, <2>6, <2>7 DEF Effect, KidKept
<1>5. WorldInv' /\ ChildInv'
  BY <1>1, <1>4 DEF FlowInv, WorldInv, ChildInv, control
<1> QED
  BY <1>2, <1>3, <1>5, QuietKeeps DEF FlowInv, Preserved

-----------------------------------------------------------------------------
(* The induction *)

\* The directory starts empty, or with a schema-1 run.
LEMMA InitFlowInv ==
  ASSUME Init
  PROVE  FlowInv
<1>1. \A r \in Runs : Sound(Absent(r)) /\ Absent(r).run = r /\ Absent(r).state = "ABSENT"
  BY AbsentSound
<1>2. 1 \in Runs /\ MaxRuns \in Nat /\ MaxRuns >= 1 /\ \A r \in Runs : r \in Nat /\ r >= 1
  BY BoundsAssumption DEF Runs
<1>3. /\ Sound(NewManifest(1, 1)) /\ NewManifest(1, 1).run = 1
      /\ NewManifest(1, 1).state = "RUNNING"
  BY <1>2, NewManifestSound
<1>4. \A r \in Runs : disk[r] = IF LegacyStart /\ r = 1 THEN NewManifest(1, 1) ELSE Absent(r)
  BY DEF Init
<1>5. FilesInv
  <2>1. disk \in [Runs -> Manifest]
    BY <1>1, <1>3 DEF Init, Sound
  <2>2. newest = (IF LegacyStart THEN 1 ELSE 0) /\ latest = disk[1]
    BY DEF Init
  <2>3. \A r \in Runs :
          /\ Sound(disk[r]) /\ disk[r].run = r
          /\ r > newest => disk[r] = Absent(r)
          /\ r <= newest => disk[r].state # "ABSENT"
          /\ r < newest => disk[r].state \notin OpenStates
    BY <1>1, <1>2, <1>3, <1>4, <2>2, SwitchesAssumption
  <2> QED
    BY <1>2, <2>1, <2>2, <2>3 DEF FilesInv
<1>6. ControlInv
  <2>1. Absent(1) \in Manifest
    BY <1>1, <1>2 DEF Sound
  <2> QED
    BY <2>1, ProcsAssumption DEF Init, ControlInv, Working, Slots, PcValues
<1>7. WorldInv
  <2>1. NoChild \in Child
    BY BoundsAssumption DEF NoChild, Child, Runs, Phases
  <2> QED
    BY <2>1 DEF Init, WorldInv
<1>8. ChildInv
  BY DEF Init, ChildInv
<1> QED
  BY <1>5, <1>6, <1>7, <1>8 DEF FlowInv

\* Every step of the specification, and every stuttering one, keeps the
\* invariant, whatever is settled and whatever is blocked.
LEMMA StepKeeps ==
  ASSUME FlowInv, [Next]_vars
  PROVE  Preserved
<1>1. ASSUME NEW p \in Procs, Command(p) PROVE Preserved
  BY <1>1, RunNewKeeps, RunContinueKeeps, RefuseKeeps, ResumeKeeps, ClearKeeps DEF Command
<1>2. ASSUME NEW p \in Procs, Step(p) PROVE Preserved
  <2>1. CASE Recover(p) \/ Execute(p) \/ Spawn(p) \/ LaunchFails(p)
    BY <2>1, RecoverKeeps, ExecuteKeeps, SpawnKeeps, LaunchFailsKeeps
  <2>2. CASE ChildAnswers(p) \/ ChildBreaks(p) \/ Judge(p)
    BY <2>2, ChildAnswersKeeps, ChildBreaksKeeps, JudgeKeeps
  <2>3. CASE Mirror(p) \/ Exit(p)
    BY <2>3, MirrorKeeps, ExitKeeps
  <2> QED
    BY <1>2, <2>1, <2>2, <2>3 DEF Step
<1>3. ASSUME NEW p \in Procs, Crash(p) \/ CrashLeavingOrphan(p) PROVE Preserved
  BY <1>3, CrashKeeps
<1>4. CASE (\E c \in Slots : Effect(c)) \/ OrphanEnds
  BY <1>4, ChildrenKeep
<1>5. CASE UNCHANGED vars
  <2>1. FilesInv' /\ ControlInv' /\ WorldInv' /\ ChildInv' /\ disk' = disk
    BY <1>5 DEF vars, FlowInv, FilesInv, ControlInv, WorldInv, ChildInv, Working, Place
  <2> QED
    BY <2>1, QuietKeeps DEF FlowInv, Preserved
<1> QED
  BY <1>1, <1>2, <1>3, <1>4, <1>5 DEF Next

-----------------------------------------------------------------------------
(* The theorems *)

\* The invariant of the flow: sound manifests, one worker, one open run.
THEOREM FlowInvariant == Spec => []FlowInv
<1>1. Init => FlowInv
  BY InitFlowInv
<1>2. FlowInv /\ [Next]_vars => FlowInv'
  BY StepKeeps DEF Preserved
<1> QED
  BY <1>1, <1>2, PTL DEF Spec

\* Every variable keeps to its kind, whatever manifests are persisted.
THEOREM TypeCorrect == Spec => []TypeOK
<1>1. FlowInv => TypeOK
  BY DEF FlowInv, FilesInv, ControlInv, WorldInv, TypeOK
<1> QED
  BY <1>1, FlowInvariant, PTL

\* No two processes are ever at work at the same time: _acquire's file lock
\* makes an orchestrator's reads and saves of the run exclusive.
THEOREM OneWorker == Spec => [](\A p, q \in Procs : pc[p] # "off" /\ pc[q] # "off" => p = q)
<1>1. FlowInv => \A p, q \in Procs : pc[p] # "off" /\ pc[q] # "off" => p = q
  BY DEF FlowInv, ControlInv
<1> QED
  BY <1>1, FlowInvariant, PTL

\* At most the newest run is unfinished, whoever starts, kills and clears runs.
THEOREM OpenRunIsNewest == Spec => []OneOpenRun
<1>1. ASSUME FlowInv PROVE OneOpenRun
  <2>1. newest \in Nat /\ \A r \in Runs : r \in Nat /\ Absent(r).state = "ABSENT"
    BY <1>1, AbsentSound, BoundsAssumption DEF FlowInv, FilesInv, Runs
  <2> QED
    BY <1>1, <2>1 DEF FlowInv, FilesInv, OneOpenRun, OpenStates
<1> QED
  BY <1>1, FlowInvariant, PTL

\* The movies of every run on disk are worked on strictly in order.
THEOREM MoviesInOrder == Spec => []ItemsInOrder
<1>1. ASSUME FlowInv PROVE ItemsInOrder
  <2>1. SUFFICES ASSUME NEW r \in Runs, Batch(disk[r]), disk[r].requested > 0
                 PROVE  LET m == disk[r]
                            current == IF m.rank = 0 THEN m.requested + 1 ELSE m.rank
                        IN  /\ current \in 1..(m.requested + 1)
                            /\ \A k \in 1..m.requested :
                                  /\ k < current => Settled(m.items[k])
                                  /\ k = current => ~Settled(m.items[k])
                                  /\ k > current => m.items[k] = FreshItem
    BY DEF ItemsInOrder
  <2> DEFINE m == disk[r]
  <2>2. Ordered(m) /\ m.rank \in 0..Target /\ m.requested \in 0..Target /\ Target \in Nat
    BY <1>1, BoundsAssumption DEF FlowInv, FilesInv, Sound, Manifest
  <2>3. \A k \in 1..m.requested : k \in Ranks /\ k <= m.requested
    BY <2>2 DEF Ranks
  <2> HIDE DEF m
  <2>4. CASE m.rank = 0
    BY <2>1, <2>2, <2>3, <2>4 DEF Ordered, m
  <2>5. CASE m.rank # 0
    BY <2>1, <2>2, <2>3, <2>5 DEF Ordered, m
  <2> QED
    BY <2>4, <2>5
<1> QED
  BY <1>1, FlowInvariant, PTL

\* No step of anybody writes a finished run or a settled movie again.
THEOREM SettledStays == Spec => SettledIsFinal
<1>1. FlowInv /\ [Next]_vars => [KeepsSettled]_vars
  BY StepKeeps DEF Preserved
<1> QED
  BY <1>1, FlowInvariant, PTL DEF Spec, SettledIsFinal, KeepsSettled

\* No step but an operator's resume or clear changes a run that needs attention.
THEOREM BlockedStays == Spec => OnlyOperatorUnblocks
<1>1. FlowInv /\ [Next]_vars => [KeepsBlocked]_vars
  BY StepKeeps DEF Preserved
<1> QED
  BY <1>1, FlowInvariant, PTL DEF Spec, OnlyOperatorUnblocks, KeepsBlocked
=============================================================================
