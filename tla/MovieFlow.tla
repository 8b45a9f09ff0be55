------------------------------ MODULE MovieFlow ------------------------------
(***************************************************************************)
(* The checkpointed orchestrator of media_scope/movie_flow.py.             *)
(*                                                                         *)
(* An orchestrator process takes a non-blocking file lock, loads the       *)
(* newest run manifest, runs one child process per stage and persists the  *)
(* manifest around every child: each stage of each recommended movie is an *)
(* attempt recorded as RUNNING before its child starts and as COMPLETED,   *)
(* INVALID_OUTPUT or LAUNCH_FAILED after it.  A process may die anywhere,  *)
(* and its child with it or not; the next invocation continues from what   *)
(* the disk holds.                                                         *)
(*                                                                         *)
(* Every save is one atomic replacement of runs/<id>/manifest.json followed*)
(* by one of latest-status.json.  What a process computes between two      *)
(* saves is invisible to everyone else, so an action computes the next     *)
(* manifest and replaces the run manifest in one step; the second          *)
(* replacement is an action of its own (Mirror), and a crash may separate  *)
(* the two.                                                                *)
(***************************************************************************)
EXTENDS Integers, FiniteSets

CONSTANTS
    Procs,        \* orchestrator processes: scheduled tasks and operators' commands
    Nobody,       \* the holder of a free lock, and the parent of an orphaned child
    MaxRuns,      \* bound: how many runs the flow directory ever holds
    Target,       \* BATCH_TARGET_COUNT, 3 in the code
    Orphans,      \* whether a child may outlive a killed orchestrator
    LegacyStart   \* whether the directory already holds a schema-1 run

ASSUME ProcsAssumption == Nobody \notin Procs
ASSUME BoundsAssumption == MaxRuns \in Nat \ {0} /\ Target \in Nat \ {0}
ASSUME SwitchesAssumption == Orphans \in BOOLEAN /\ LegacyStart \in BOOLEAN

Runs  == 1..MaxRuns
Ranks == 1..Target

-----------------------------------------------------------------------------
(* Vocabulary of the manifest *)

SharedStages == {"recommendations", "search"}
ItemStages   == {"probe", "download", "transfer", "history"}
Stages       == SharedStages \cup ItemStages

NextStage == [recommendations |-> "search", search |-> "probe", probe |-> "download",
              download |-> "transfer", transfer |-> "history"]
PrevStage == [search |-> "recommendations", probe |-> "search", download |-> "probe",
              transfer |-> "download", history |-> "transfer"]

\* Mutant: a retryable run does not block a new one.
RetryableIsTerminal == {"COMPLETED", "NO_ACTION_NEEDED", "NO_ACQUISITION_AVAILABLE", "CLEARED",
                        "RETRYABLE_FAILURE"}
TerminalStates == {"COMPLETED", "NO_ACTION_NEEDED", "NO_ACQUISITION_AVAILABLE", "CLEARED"}
States == TerminalStates \cup {"ABSENT", "RUNNING", "RETRYABLE_FAILURE", "ATTENTION_REQUIRED"}

\* Mutant: an interrupted transfer is simply run again.
TransferIsSafe == {"recommendations", "search", "download", "transfer", "history"}
\* Stages that recovery may simply run again after an interruption.
SafeInterruptedStages == {"recommendations", "search", "download", "history"}

\* Stages whose failure may be resumed once an operator corrected it.
ResumableStages == {"download", "transfer"}

\* Stages whose unreadable output is left to an operator.
UnsafeOutputStages == {"probe", "download", "transfer"}

\* What the JSON and the exit code of a stage's child amount to.
Kinds == [recommendations |-> {"created", "not_needed", "failed"},
          search          |-> {"found", "failed"},
          probe           |-> {"healthy", "no_candidate", "offline", "unclean"},
          download        |-> {"ready", "offline", "stalled", "failed"},
          transfer        |-> {"moved", "cleanup_failed", "failed"},
          history         |-> {"recorded", "already_recorded", "failed"}]
AllKinds == UNION {Kinds[s] : s \in Stages}

StageStatus == {"PENDING", "RUNNING", "COMPLETED", "FAILED", "SUCCEEDED", "PARTIAL_SUCCESS",
                "NO_RESULT", "SKIPPED", "INTERRUPTED_RETRYABLE"}
AttemptStatus == {"NONE", "RUNNING", "COMPLETED", "LAUNCH_FAILED", "INVALID_OUTPUT",
                  "INTERRUPTED"}
ItemStatus == {"PENDING", "PROCESSING", "ATTENTION_REQUIRED", "RETRYABLE_FAILURE",
               "ACQUIRED_CLEANUP_REQUIRED", "ACQUIRED", "SKIPPED"}

\* One stage: its status, the status of its newest attempt, and what its
\* latest_artifact says.
StageRecord == [status : StageStatus, attempt : AttemptStatus, artifact : AllKinds \cup {"none"}]

\* post_history_outcome, and the flags of the attention object.
PostHistory    == {"none", "completed", "cleanup_attention"}
AttentionFlags == {"resume_allowed", "clear_continues_batch", "stalled"}

Item == [status : ItemStatus, outcome : PostHistory, acknowledged : BOOLEAN,
         stages : [ItemStages -> StageRecord]]

Results == {"flow_running", "flow_retryable_failure", "flow_attention_required",
            "flow_no_action_needed", "flow_no_acquisition_available", "flow_completed",
            "flow_completed_with_skips", "flow_cleared"}

\* found is the number of movies the search artifact lists, requested the
\* number of items initialised from it; rank 0 stands for no current item.
Manifest == [run : Runs, schema : {1, 2}, state : States, result : Results,
             stage : Stages, rank : 0..Target, found : 0..Target,
             stages : [Stages -> StageRecord], items : [Ranks -> Item],
             requested : 0..Target, acquired : 0..Target, skipped : 0..Target,
             attention : SUBSET AttentionFlags, authorized : BOOLEAN,
             outcome : PostHistory]

Pending   == [status |-> "PENDING", attempt |-> "NONE", artifact |-> "none"]
FreshItem == [status |-> "PENDING", outcome |-> "none", acknowledged |-> FALSE,
              stages |-> [s \in ItemStages |-> Pending]]

NewManifest(r, schema) ==
    [run |-> r, schema |-> schema, state |-> "RUNNING", result |-> "flow_running",
     stage |-> "recommendations", rank |-> 0, found |-> 0,
     stages |-> [s \in Stages |-> Pending], items |-> [k \in Ranks |-> FreshItem],
     requested |-> 0, acquired |-> 0, skipped |-> 0,
     attention |-> {}, authorized |-> FALSE, outcome |-> "none"]

\* A run directory without a manifest, or one not made yet.
Absent(r) == [NewManifest(r, 2) EXCEPT !.state = "ABSENT"]

-----------------------------------------------------------------------------
(* Reading and writing one manifest *)

Batch(m) == m.schema = 2

\* Item stages of a batch keep their record in the current item; in a batch
\* the run-level record of an item stage is only the aggregate over the items.
PerItem(m, s) == Batch(m) /\ s \in ItemStages

RecordOf(m, s) == IF PerItem(m, s) THEN m.items[m.rank].stages[s] ELSE m.stages[s]

WithRecord(m, s, r) ==
    IF PerItem(m, s) THEN [m EXCEPT !.items[m.rank].stages[s] = r]
                     ELSE [m EXCEPT !.stages[s] = r]

WithStatus(m, s, status) == WithRecord(m, s, [RecordOf(m, s) EXCEPT !.status = status])

\* The status of the current item and the aggregate of its stage.
WithItem(m, s, status, aggregate) ==
    IF PerItem(m, s)
    THEN [m EXCEPT !.items[m.rank].status = status, !.stages[s].status = aggregate]
    ELSE m

Count(m, status) == Cardinality({k \in 1..m.requested : m.items[k].status = status})

RefreshSummary(m) == [m EXCEPT !.acquired = Count(m, "ACQUIRED"),
                               !.skipped  = Count(m, "SKIPPED")]

Aggregate(m, s) ==
    LET found == {m.items[k].stages[s].status : k \in 1..m.requested}
    IN  CASE found \cap {"FAILED", "INTERRUPTED_RETRYABLE"} # {} -> "FAILED"
          [] found = {"SUCCEEDED"} -> "SUCCEEDED"
          [] /\ found \cap {"FAILED", "INTERRUPTED_RETRYABLE"} = {}
             /\ found \cap {"SUCCEEDED", "PARTIAL_SUCCESS"} # {}
             /\ found # {"SUCCEEDED"} -> "PARTIAL_SUCCESS"
          [] found # {} /\ found \subseteq {"NO_RESULT", "SKIPPED"} -> "NO_RESULT"
          [] OTHER -> m.stages[s].status

RefreshAggregates(m) ==
    [m EXCEPT !.stages = [s \in Stages |->
        IF s \in ItemStages THEN [m.stages[s] EXCEPT !.status = Aggregate(m, s)]
                            ELSE m.stages[s]]]

-----------------------------------------------------------------------------
(* How a run moves on, stops or ends *)

\* Open another stage: no failure is outstanding any more.
Proceed(m, s) == [m EXCEPT !.state = "RUNNING", !.result = "flow_running",
                           !.stage = s, !.attention = {}]

\* Mutant: the permission to resume a stalled torrent is kept.
AdvanceKeepsPermission(m, s, status) ==
    LET done == WithStatus(m, s, status)
        item == IF PerItem(m, s) THEN [done EXCEPT !.items[m.rank].status = "PROCESSING"]
                                 ELSE done
    IN  Proceed(item, NextStage[s])

Advance(m, s, status) ==
    LET done == WithStatus(m, s, status)
        item == IF PerItem(m, s) THEN [done EXCEPT !.items[m.rank].status = "PROCESSING"]
                                 ELSE done
    IN  [Proceed(item, NextStage[s]) EXCEPT !.authorized = s # "download" /\ @]

\* A retryable failure: the next scheduled run executes the stage again.
Retry(m, s) ==
    [WithItem(WithStatus(m, s, "FAILED"), s, "RETRYABLE_FAILURE", "FAILED")
        EXCEPT !.state = "RETRYABLE_FAILURE", !.result = "flow_retryable_failure", !.stage = s]

\* A failure only an operator can clear up.
Attend(m, s, flags) ==
    [WithItem(WithStatus(m, s, "FAILED"), s, "ATTENTION_REQUIRED", "FAILED")
        EXCEPT !.state = "ATTENTION_REQUIRED", !.result = "flow_attention_required",
               !.stage = s,
               !.attention = flags \cup
                   (IF s \in ResumableStages THEN {"resume_allowed"} ELSE {})]

\* The movie is recorded, its seedbox cleanup failed: attention goes back to
\* the transfer stage, and only a batch can continue after the operator's clear.
AttendCleanup(m) ==
    [WithItem(WithStatus(m, "transfer", "PARTIAL_SUCCESS"),
              "transfer", "ACQUIRED_CLEANUP_REQUIRED", "PARTIAL_SUCCESS")
        EXCEPT !.state = "ATTENTION_REQUIRED", !.result = "flow_attention_required",
               !.stage = "transfer",
               !.attention = IF Batch(m) THEN {"clear_continues_batch"} ELSE {}]

Finish(m, state, result) ==
    [m EXCEPT !.stages[m.stage].status =
                  IF state = "NO_ACQUISITION_AVAILABLE" THEN "NO_RESULT" ELSE "SUCCEEDED",
              !.state = state, !.result = result, !.attention = {}]

\* Mutant: the aggregates keep what the last item left in them.
FinishBatchUnrefreshed(m) ==
    LET n == RefreshSummary(m)
    IN  [n EXCEPT !.state = IF n.acquired = 0 THEN "NO_ACQUISITION_AVAILABLE" ELSE "COMPLETED",
                  !.result = IF n.acquired = 0 THEN "flow_no_acquisition_available"
                             ELSE "flow_completed_with_skips",
                  !.stage = "history", !.rank = 0, !.attention = {}]

FinishBatch(m) ==
    LET n == RefreshSummary(m)
        all == n.acquired = Target /\ n.skipped = 0 /\ n.requested >= Target
    IN  RefreshAggregates(
            [n EXCEPT !.state = IF n.acquired = 0 THEN "NO_ACQUISITION_AVAILABLE" ELSE "COMPLETED",
                      !.result = CASE n.acquired = 0 -> "flow_no_acquisition_available"
                                   [] n.acquired # 0 /\ all -> "flow_completed"
                                   [] OTHER -> "flow_completed_with_skips",
                      !.stage = "history", !.rank = 0, !.attention = {}])

\* Mutant: one item too many.
AdvancePastLastItem(m) ==
    IF m.rank \in 1..m.requested
    THEN RefreshSummary([Proceed(m, "probe") EXCEPT !.rank = m.rank + 1])
    ELSE FinishBatch(m)

\* Mutant: the counts are brought up to date only when the batch ends.
AdvanceWithOldSummary(m) ==
    IF m.rank \in 1..(m.requested - 1)
    THEN [Proceed(m, "probe") EXCEPT !.rank = m.rank + 1]
    ELSE FinishBatch(m)

AdvanceToNextItem(m) ==
    IF m.rank \in 1..(m.requested - 1)
    THEN RefreshSummary([Proceed(m, "probe") EXCEPT !.rank = m.rank + 1])
    ELSE FinishBatch(m)

InitializeItems(m) ==
    LET n == RefreshSummary([WithStatus(m, "search", "SUCCEEDED") EXCEPT
                                !.requested = m.found, !.items = [k \in Ranks |-> FreshItem]])
    IN  IF m.found = 0 THEN FinishBatch(n) ELSE [Proceed(n, "probe") EXCEPT !.rank = 1]

\* Mutant: the skipped item keeps its status.
SkipItemSilently(m) ==
    [m EXCEPT !.items[m.rank].stages = [s \in ItemStages |->
                  [m.items[m.rank].stages[s] EXCEPT
                      !.status = IF s = "probe" THEN "NO_RESULT" ELSE "SKIPPED"]]]

SkipItem(m) ==
    [m EXCEPT !.items[m.rank].status = "SKIPPED",
              !.items[m.rank].stages = [s \in ItemStages |->
                  [m.items[m.rank].stages[s] EXCEPT
                      !.status = IF s = "probe" THEN "NO_RESULT" ELSE "SKIPPED"]]]

SetOutcome(m, outcome) == IF Batch(m) THEN [m EXCEPT !.items[m.rank].outcome = outcome]
                                      ELSE [m EXCEPT !.outcome = outcome]

AcquireItem(m) == [m EXCEPT !.items[m.rank].status = "ACQUIRED",
                            !.items[m.rank].outcome = "none"]

Recorded(m) ==
    IF Batch(m)
    THEN LET n == RefreshAggregates(WithStatus(m, "history", "SUCCEEDED"))
         IN  IF m.items[m.rank].outcome = "cleanup_attention" THEN AttendCleanup(n)
             ELSE AdvanceToNextItem(AcquireItem(n))
    ELSE IF m.outcome = "cleanup_attention"
         THEN AttendCleanup(WithStatus(m, "history", "SUCCEEDED"))
         ELSE Finish(m, "COMPLETED", "flow_completed")

-----------------------------------------------------------------------------
(* Attempts: what is saved before and after a child, and what it leads to *)

StartAttempt(m) ==
    LET s == m.stage
        begun == WithRecord(m, s, [RecordOf(m, s) EXCEPT !.status = "RUNNING",
                                                         !.attempt = "RUNNING"])
    IN  [WithItem(begun, s, "PROCESSING", "RUNNING") EXCEPT
            !.state = "RUNNING", !.result = "flow_running"]

\* The child printed one JSON object: it becomes the stage's latest artifact.
\* A search artifact also says how many movies there are.
CompleteAttempt(m, kind, found) ==
    [WithRecord(m, m.stage, [status |-> "COMPLETED", attempt |-> "COMPLETED",
                             artifact |-> kind])
        EXCEPT !.found = IF kind = "found" THEN found ELSE @]

FailAttempt(m, attempt) ==
    WithRecord(m, m.stage, [RecordOf(m, m.stage) EXCEPT !.status = "FAILED",
                                                        !.attempt = attempt])

InterruptAttempt(m) ==
    LET s == m.stage
        n == WithRecord(m, s, [RecordOf(m, s) EXCEPT !.attempt = "INTERRUPTED"])
        again == WithStatus(n, s, "INTERRUPTED_RETRYABLE")
    IN  IF s \in SafeInterruptedStages
        THEN IF PerItem(m, s) THEN [again EXCEPT !.items[m.rank].status = "PROCESSING"]
                              ELSE again
        ELSE Attend(n, s, {})

EvaluateArtifact(m, s, kind) ==
    CASE kind \in {"created", "healthy", "ready"} -> Advance(m, s, "SUCCEEDED")
      [] kind = "not_needed" -> Finish(m, "NO_ACTION_NEEDED", "flow_no_action_needed")
      [] kind = "found" -> IF Batch(m) THEN InitializeItems(m) ELSE Advance(m, s, "SUCCEEDED")
      [] kind = "no_candidate" ->
             IF Batch(m) THEN AdvanceToNextItem(SkipItem(m))
             ELSE Finish(m, "NO_ACQUISITION_AVAILABLE", "flow_no_acquisition_available")
      [] kind = "moved" -> Advance(SetOutcome(m, "completed"), s, "SUCCEEDED")
      [] kind = "cleanup_failed" ->
             Advance(SetOutcome(m, "cleanup_attention"), s, "PARTIAL_SUCCESS")
      [] kind \in {"recorded", "already_recorded"} -> Recorded(m)
      [] kind = "offline" -> Retry(m, s)
      [] kind = "stalled" -> Attend(m, s, {"stalled"})
      [] kind = "unclean" -> Attend(m, s, {})
      [] OTHER -> IF s \in {"download", "transfer"} THEN Attend(m, s, {}) ELSE Retry(m, s)

\* Mutant: a history stage without a result does not hold the movie up.
EvaluateHistoryLeniently(m) ==
    LET r == RecordOf(m, m.stage)
    IN  CASE r.attempt = "COMPLETED" -> EvaluateArtifact(m, m.stage, r.artifact)
          [] r.attempt # "COMPLETED" /\ m.stage = "history" -> Recorded(m)
          [] r.attempt = "INVALID_OUTPUT" /\ m.stage \in UnsafeOutputStages ->
                 Attend(m, m.stage, {})
          [] OTHER -> Retry(m, m.stage)

\* Mutant: a transfer whose output is unreadable skips the item.
EvaluateTransferAsSkip(m) ==
    LET r == RecordOf(m, m.stage)
    IN  CASE r.attempt = "COMPLETED" -> EvaluateArtifact(m, m.stage, r.artifact)
          [] r.attempt = "INVALID_OUTPUT" /\ m.stage = "transfer" ->
                 AdvanceToNextItem(SkipItem(m))
          [] OTHER -> Retry(m, m.stage)

EvaluateStage(m) ==
    LET r == RecordOf(m, m.stage)
    IN  CASE r.attempt = "COMPLETED" -> EvaluateArtifact(m, m.stage, r.artifact)
          [] r.attempt = "INVALID_OUTPUT" /\ m.stage \in UnsafeOutputStages ->
                 Attend(m, m.stage, {})
          [] OTHER -> Retry(m, m.stage)

-----------------------------------------------------------------------------
(* What an operator's command makes of the newest manifest *)

ResumeManifest(m) ==
    [m EXCEPT !.state = "RUNNING", !.result = "flow_running", !.attention = {},
              !.authorized = @ \/ "stalled" \in m.attention]

\* A recorded movie whose cleanup is acknowledged: the batch goes on.
AcknowledgeCleanup(m) ==
    AdvanceToNextItem([AcquireItem(m) EXCEPT !.items[m.rank].acknowledged = TRUE,
                                             !.attention = {}, !.state = "RUNNING",
                                             !.result = "flow_running"])

\* Mutant: the acknowledged item stays the current one.
ClearStaysOnItem(m) ==
    IF Batch(m) /\ "clear_continues_batch" \in m.attention
    THEN RefreshSummary([AcquireItem(m) EXCEPT !.attention = {}, !.state = "RUNNING"])
    ELSE [m EXCEPT !.state = "CLEARED", !.result = "flow_cleared"]

ClearManifest(m) ==
    IF Batch(m) /\ "clear_continues_batch" \in m.attention THEN AcknowledgeCleanup(m)
    ELSE [m EXCEPT !.state = "CLEARED", !.result = "flow_cleared"]

-----------------------------------------------------------------------------
(* The state: what the disk holds, the processes, and the outside world *)

VARIABLES
    disk,     \* runs/<id>/manifest.json of every run
    newest,   \* the run whose manifest was replaced last (greatest mtime), 0: none
    latest,   \* latest-status.json: the manifest it was copied from, run 1 Absent: none
    lock,     \* who holds .movie-flow.lock
    pc,       \* where each orchestrator process is
    after,    \* where it goes once latest-status.json is replaced
    mem,      \* the manifest it works on
    kid,      \* the child of each process; kid[Nobody] lost its parent
    copies,   \* <<run, rank>> of every movie wholly copied to the movies directory
    rows,     \* how many history rows each <<run, rank>> has in the sheet
    resumed   \* history variable: <<run, rank, stage>> an operator resumed in the newest run

files    == <<disk, newest, latest>>
world    == <<copies, rows>>
control  == <<pc, after, mem>>
vars     == <<disk, newest, latest, lock, pc, after, mem, kid, copies, rows, resumed>>

Slots  == Procs \cup {Nobody}
Movies == Runs \X (0..Target)

\* Child phases: before any effect; transfer: payload copied; history: the
\* sheet was read and lists the movie or not; history: the row was appended.
Phases == {"started", "copied", "listed", "unlisted", "appended"}

\* input is what the artifact on the child's standard input says.
Child == [stage : Stages \cup {"none"}, run : Runs, rank : 0..Target, phase : Phases,
          resume_stalled : BOOLEAN, input : AllKinds \cup {"none"}]

NoChild == [stage |-> "none", run |-> 1, rank |-> 0, phase |-> "started",
            resume_stalled |-> FALSE, input |-> "none"]

Alive(c) == c.stage # "none"
MovieOf(c) == <<c.run, c.rank>>

PcValues == {"off", "recover", "exec", "spawn", "wait", "judge", "mirror", "exit"}

Init ==
    /\ disk = [r \in Runs |-> IF LegacyStart /\ r = 1 THEN NewManifest(1, 1) ELSE Absent(r)]
    /\ newest = IF LegacyStart THEN 1 ELSE 0
    /\ latest = disk[1]
    /\ lock = Nobody
    /\ pc = [p \in Procs |-> "off"]
    /\ after = [p \in Procs |-> "off"]
    /\ mem = [p \in Procs |-> Absent(1)]
    /\ kid = [c \in Slots |-> NoChild]
    /\ copies = {}
    /\ rows = [movie \in Movies |-> 0]
    /\ resumed = {}

-----------------------------------------------------------------------------
(* The steps every operation is made of *)

\* Mutant: nobody looks whether the lock is free.
TakeLockAnyway(p) == pc[p] = "off" /\ lock' = p

\* The lock is advisory and non-blocking: a process that does not get it
\* answers flow_already_running and changes nothing.
TakeLock(p) == pc[p] = "off" /\ lock = Nobody /\ lock' = p

\* _write_manifest, up to the replacement of the run's own manifest.
Save(p, m, goto) ==
    /\ mem' = [mem EXCEPT ![p] = m]
    /\ disk' = [disk EXCEPT ![m.run] = m]
    /\ newest' = m.run
    /\ pc' = [pc EXCEPT ![p] = "mirror"]
    /\ after' = [after EXCEPT ![p] = goto]
    /\ UNCHANGED latest

Goto(p, place) ==
    /\ pc' = [pc EXCEPT ![p] = place]
    /\ UNCHANGED <<files, after, mem>>

\* Mutant: a retryable failure is retried at once.
NextPlaceRetrying(m) == IF m.state \in {"RUNNING", "RETRYABLE_FAILURE"} THEN "exec" ELSE "exit"

\* An evaluation that leaves the run RUNNING loops to the next stage; any
\* other returns from the command.
NextPlace(m) == IF m.state = "RUNNING" THEN "exec" ELSE "exit"

-----------------------------------------------------------------------------
(* Commands *)

RunNew(p) ==
    /\ TakeLock(p)
    /\ newest < MaxRuns
    /\ newest # 0 => disk[newest].state \in TerminalStates
    /\ Save(p, NewManifest(newest + 1, 2), "exec")
    /\ resumed' = {}
    /\ UNCHANGED <<kid, world>>

\* Mutant: the scheduled run does not stop at a blocked flow.
RunContinueBlocked(p) ==
    /\ TakeLock(p)
    /\ newest # 0
    /\ disk[newest].state \in {"RUNNING", "RETRYABLE_FAILURE", "ATTENTION_REQUIRED"}
    /\ mem' = [mem EXCEPT ![p] = disk[newest]]
    /\ pc' = [pc EXCEPT ![p] = "recover"]
    /\ UNCHANGED <<files, after, kid, world, resumed>>

RunContinue(p) ==
    /\ TakeLock(p)
    /\ newest # 0
    /\ disk[newest].state \in {"RUNNING", "RETRYABLE_FAILURE"}
    /\ mem' = [mem EXCEPT ![p] = disk[newest]]
    /\ pc' = [pc EXCEPT ![p] = "recover"]
    /\ UNCHANGED <<files, after, kid, world, resumed>>

\* run on a blocked flow, or a resume or clear the loaded manifest refuses:
\* the command answers and returns the lock.
Refuse(p) ==
    /\ TakeLock(p)
    /\ Goto(p, "exit")
    /\ UNCHANGED <<kid, world, resumed>>

Resume(p) ==
    /\ TakeLock(p)
    /\ newest # 0
    /\ disk[newest].state = "ATTENTION_REQUIRED"
    /\ "resume_allowed" \in disk[newest].attention
    /\ Save(p, ResumeManifest(disk[newest]), "exec")
    /\ resumed' = resumed \cup {<<newest, disk[newest].rank, disk[newest].stage>>}
    /\ UNCHANGED <<kid, world>>

Clear(p) ==
    /\ TakeLock(p)
    /\ newest # 0
    /\ disk[newest].state \in {"ATTENTION_REQUIRED", "RETRYABLE_FAILURE"}
    /\ LET m == ClearManifest(disk[newest]) IN Save(p, m, NextPlace(m))
    /\ UNCHANGED <<kid, world, resumed>>

-----------------------------------------------------------------------------
(* Recovery and the stage loop *)

\* Mutant: a run that stopped between two stages is taken for one at its end.
RecoverEnds(p) ==
    /\ pc[p] = "recover"
    /\ LET m == mem[p]
           attempt == RecordOf(m, m.stage).attempt
       IN  \/ /\ m.state = "RUNNING"
              /\ attempt \in {"COMPLETED", "LAUNCH_FAILED", "INVALID_OUTPUT"}
              /\ Goto(p, "judge")
           \/ /\ m.state = "RUNNING"
              /\ attempt = "RUNNING"
              /\ LET n == InterruptAttempt(m) IN Save(p, n, NextPlace(n))
           \/ /\ m.state # "RUNNING"
              /\ Goto(p, "exec")
           \/ /\ m.state = "RUNNING" /\ attempt \in {"NONE", "INTERRUPTED"}
              /\ Goto(p, "exit")
    /\ UNCHANGED <<lock, kid, world, resumed>>

\* A run found RUNNING was left by a process that died: an attempt with a
\* result is evaluated again, one without is marked interrupted, and a run
\* that stopped between two stages simply goes on.
Recover(p) ==
    /\ pc[p] = "recover"
    /\ LET m == mem[p]
           attempt == RecordOf(m, m.stage).attempt
       IN  \/ /\ m.state = "RUNNING"
              /\ attempt \in {"COMPLETED", "LAUNCH_FAILED", "INVALID_OUTPUT"}
              /\ Goto(p, "judge")
           \/ /\ m.state = "RUNNING"
              /\ attempt = "RUNNING"
              /\ LET n == InterruptAttempt(m) IN Save(p, n, NextPlace(n))
           \/ /\ m.state # "RUNNING" \/ attempt \in {"NONE", "INTERRUPTED"}
              /\ Goto(p, "exec")
    /\ UNCHANGED <<lock, kid, world, resumed>>

Execute(p) ==
    /\ pc[p] = "exec"
    /\ Save(p, StartAttempt(mem[p]), "spawn")
    /\ UNCHANGED <<lock, kid, world, resumed>>

\* Mutant: the artifact is looked up in the run's record of the stage.
InputOfRun(m, s) ==
    IF s = "recommendations" THEN "none" ELSE m.stages[PrevStage[s]].artifact

\* What the child reads: the latest artifact of the stage before, from the
\* run's record for a shared stage and from the current item's otherwise.
InputOf(m, s) ==
    IF s = "recommendations" THEN "none" ELSE RecordOf(m, PrevStage[s]).artifact

Spawn(p) ==
    /\ pc[p] = "spawn"
    /\ LET m == mem[p]
           s == m.stage
       IN  kid' = [kid EXCEPT ![p] =
               [stage |-> s, run |-> m.run, rank |-> m.rank, phase |-> "started",
                resume_stalled |-> s = "download" /\ m.authorized,
                input |-> InputOf(m, s)]]
    /\ Goto(p, "wait")
    /\ UNCHANGED <<lock, world, resumed>>

LaunchFails(p) ==
    /\ pc[p] = "spawn"
    /\ Save(p, FailAttempt(mem[p], "LAUNCH_FAILED"), "judge")
    /\ UNCHANGED <<lock, kid, world, resumed>>

\* The child exits and has printed one JSON object.  A search may list no
\* movie at all: there was no recommendation to search for.
ChildAnswers(p) ==
    /\ pc[p] = "wait"
    /\ \E kind \in Kinds[kid[p].stage], found \in 0..Target :
          /\ kind \in {"moved", "cleanup_failed"} <=> kid[p].phase = "copied"
          /\ kind = "recorded" => kid[p].phase = "appended"
          /\ kind = "already_recorded" <=> kid[p].phase = "listed"
          /\ Save(p, CompleteAttempt(mem[p], kind, found), "judge")
    /\ kid' = [kid EXCEPT ![p] = NoChild]
    /\ UNCHANGED <<lock, world, resumed>>

\* The child exits, or dies, and what it printed is not one JSON object.
ChildBreaks(p) ==
    /\ pc[p] = "wait"
    /\ Save(p, FailAttempt(mem[p], "INVALID_OUTPUT"), "judge")
    /\ kid' = [kid EXCEPT ![p] = NoChild]
    /\ UNCHANGED <<lock, world, resumed>>

Judge(p) ==
    /\ pc[p] = "judge"
    /\ LET m == EvaluateStage(mem[p]) IN Save(p, m, NextPlace(m))
    /\ UNCHANGED <<lock, kid, world, resumed>>

\* The second half of _write_manifest.
Mirror(p) ==
    /\ pc[p] = "mirror"
    /\ latest' = mem[p]
    /\ pc' = [pc EXCEPT ![p] = after[p]]
    /\ after' = [after EXCEPT ![p] = "off"]
    /\ UNCHANGED <<disk, newest, lock, mem, kid, world, resumed>>

Exit(p) ==
    /\ pc[p] = "exit"
    /\ pc' = [pc EXCEPT ![p] = "off"]
    /\ mem' = [mem EXCEPT ![p] = Absent(1)]
    /\ lock' = IF lock = p THEN Nobody ELSE lock
    /\ UNCHANGED <<files, after, kid, world, resumed>>

-----------------------------------------------------------------------------
(* What children do to the outside world, orphaned or not *)

\* movie_transfer copies a payload whose destination does not exist yet.
CopyPayload(c) ==
    /\ kid[c].stage = "transfer" /\ kid[c].phase = "started"
    /\ MovieOf(kid[c]) \notin copies
    /\ copies' = copies \cup {MovieOf(kid[c])}
    /\ kid' = [kid EXCEPT ![c].phase = "copied"]
    /\ UNCHANGED <<files, lock, control, rows, resumed>>

\* Mutant: the sheet is read but the movie is not looked up in it.
ReadSheetBlindly(c) ==
    /\ kid[c].stage = "history" /\ kid[c].phase = "started"
    /\ kid' = [kid EXCEPT ![c].phase = "unlisted"]
    /\ UNCHANGED <<files, lock, control, world, resumed>>

\* movie_history reads the sheet ...
ReadSheet(c) ==
    /\ kid[c].stage = "history" /\ kid[c].phase = "started"
    /\ kid' = [kid EXCEPT ![c].phase =
                  IF rows[MovieOf(kid[c])] > 0 THEN "listed" ELSE "unlisted"]
    /\ UNCHANGED <<files, lock, control, world, resumed>>

\* ... and appends the movie if that reading did not list it.
AppendRow(c) ==
    /\ kid[c].stage = "history" /\ kid[c].phase = "unlisted"
    /\ rows' = [rows EXCEPT ![MovieOf(kid[c])] = @ + 1]
    /\ kid' = [kid EXCEPT ![c].phase = "appended"]
    /\ UNCHANGED <<files, lock, control, copies, resumed>>

\* An orphan finishes or dies; nobody reads what it printed.
OrphanEnds ==
    /\ Alive(kid[Nobody])
    /\ kid' = [kid EXCEPT ![Nobody] = NoChild]
    /\ UNCHANGED <<files, lock, control, world, resumed>>

-----------------------------------------------------------------------------
(* Process death, a killed task or an OSError from a save: the operating    *)
(* system frees the lock                                                   *)

Dies(p) ==
    /\ pc[p] # "off"
    /\ pc' = [pc EXCEPT ![p] = "off"]
    /\ after' = [after EXCEPT ![p] = "off"]
    /\ mem' = [mem EXCEPT ![p] = Absent(1)]
    /\ lock' = IF lock = p THEN Nobody ELSE lock
    /\ UNCHANGED <<files, world, resumed>>

Crash(p) ==
    /\ Dies(p)
    /\ kid' = [kid EXCEPT ![p] = NoChild]

\* Bound: one orphan at a time.
CrashLeavingOrphan(p) ==
    /\ Orphans
    /\ Alive(kid[p]) /\ ~Alive(kid[Nobody])
    /\ Dies(p)
    /\ kid' = [kid EXCEPT ![p] = NoChild, ![Nobody] = kid[p]]

-----------------------------------------------------------------------------

Command(p) == RunNew(p) \/ RunContinue(p) \/ Refuse(p) \/ Resume(p) \/ Clear(p)

Effect(c) == CopyPayload(c) \/ ReadSheet(c) \/ AppendRow(c)

Step(p) == \/ Recover(p) \/ Execute(p) \/ Spawn(p) \/ LaunchFails(p)
           \/ ChildAnswers(p) \/ ChildBreaks(p)
           \/ Judge(p) \/ Mirror(p) \/ Exit(p)

Next == \/ \E p \in Procs : Command(p) \/ Step(p) \/ Crash(p) \/ CrashLeavingOrphan(p)
        \/ \E c \in Slots : Effect(c)
        \/ OrphanEnds

Spec == Init /\ [][Next]_vars

\* Every process takes its next step, so every child ends: the download child
\* bounds its own waiting and the others make a bounded number of requests.
\* The scheduled task keeps coming back, and gets the lock now and then.
Fairness == \A p \in Procs : WF_vars(Step(p)) /\ SF_vars(RunContinue(p))

FairSpec == Spec /\ Fairness

-----------------------------------------------------------------------------
(* Properties *)

\* The newest run's manifest; before the first run, run 1 is still ABSENT.
Newest == disk[IF newest = 0 THEN 1 ELSE newest]

\* Every variable holds a value of its kind.
TypeOK ==
    /\ disk \in [Runs -> Manifest]
    /\ \A r \in Runs : disk[r].run = r
    /\ newest \in 0..MaxRuns
    /\ latest \in Manifest
    /\ lock \in Slots
    /\ pc \in [Procs -> PcValues]
    /\ after \in [Procs -> PcValues]
    /\ mem \in [Procs -> Manifest]
    /\ kid \in [Slots -> Child]
    /\ copies \subseteq Movies
    /\ rows \in [Movies -> Nat]
    /\ resumed \subseteq Runs \X (0..Target) \X Stages

Settled(item) == item.status \in {"ACQUIRED", "SKIPPED"}

\* The movies of a batch are worked on strictly in order: everything before
\* the current one is settled, the current one is not, everything after it is
\* untouched, whatever crashes, retries and clears happened on the way.
ItemsInOrder ==
    \A r \in Runs : LET m == disk[r] IN
        Batch(m) /\ m.requested > 0 =>
            LET current == IF m.rank = 0 THEN m.requested + 1 ELSE m.rank IN
            /\ current \in 1..(m.requested + 1)
            /\ \A k \in 1..m.requested :
                  /\ k < current => Settled(m.items[k])
                  /\ k = current => ~Settled(m.items[k])
                  /\ k > current => m.items[k] = FreshItem

\* The movies a run recorded in the sheet, by rank.
RecordedBy(r) == {k \in 0..Target : rows[<<r, k>>] > 0}

\* What a persisted manifest reports is true of its items and of the world:
\* the counts agree with the items, a run that says it acquired everything,
\* something or nothing did so in the sheet and in the movies directory.
ReportsAreTruthful ==
    \A r \in Runs : LET m == disk[r] IN
        /\ m.acquired = Count(m, "ACQUIRED") /\ m.skipped = Count(m, "SKIPPED")
        /\ m.state \in {"NO_ACTION_NEEDED", "NO_ACQUISITION_AVAILABLE"} =>
               \A k \in 0..Target : <<r, k>> \notin copies
        /\ Batch(m) /\ m.result = "flow_completed" => RecordedBy(r) = Ranks
        /\ m.result = "flow_completed_with_skips" =>
               RecordedBy(r) # {} /\ RecordedBy(r) # Ranks

\* When a batch ends by itself, every aggregate stage has a final status that
\* says whether all, some or none of its items got through that stage.
AggregatesSettle ==
    \A r \in Runs : LET m == disk[r] IN
        Batch(m) /\ m.requested > 0 /\ m.state \in {"COMPLETED", "NO_ACQUISITION_AVAILABLE"} =>
            \A s \in ItemStages :
                LET through == {k \in 1..m.requested :
                        m.items[k].stages[s].status \in {"SUCCEEDED", "PARTIAL_SUCCESS"}}
                    clean == {k \in 1..m.requested : m.items[k].stages[s].status = "SUCCEEDED"}
                IN  m.stages[s].status = IF through = {} THEN "NO_RESULT"
                                         ELSE IF clean = 1..m.requested THEN "SUCCEEDED"
                                         ELSE "PARTIAL_SUCCESS"

Handoff == [search |-> {"created"}, probe |-> {"found"}, download |-> {"healthy"},
            transfer |-> {"ready"}, history |-> {"moved", "cleanup_failed"}]

\* A child is only ever handed the successful artifact of the stage before,
\* although latest_artifact is overwritten by failed attempts too.
HandoffVerified ==
    \A c \in Slots : LET child == kid[c] IN
        child.stage \in DOMAIN Handoff => child.input \in Handoff[child.stage]

\* A finished run is never written again, and neither is a settled movie: an
\* acquisition or a skip survives every crash, restart and competing command.
SettledIsFinal ==
    [][\A r \in Runs :
          /\ disk[r].state \in {"COMPLETED", "NO_ACTION_NEEDED",
                                "NO_ACQUISITION_AVAILABLE", "CLEARED"} => disk'[r] = disk[r]
          /\ \A k \in Ranks :
                Settled(disk[r].items[k]) => disk'[r].items[k] = disk[r].items[k]]_vars

\* The flag that lets a stalled torrent be resumed reaches only the download
\* of the very movie whose stall an operator decided about.
StallConsent ==
    /\ \A p \in Procs : kid[p].resume_stalled =>
           <<kid[p].run, kid[p].rank, "download">> \in resumed
    /\ Newest.authorized =>
           Newest.stage = "download" /\ <<newest, Newest.rank, "download">> \in resumed

\* At most the newest run is unfinished: a new one is never begun over a run
\* that still has work, a retry or an operator's decision outstanding.
OneOpenRun ==
    \A r \in Runs :
        /\ r > newest <=> disk[r].state = "ABSENT"
        /\ r < newest => disk[r].state \notin
              {"RUNNING", "RETRYABLE_FAILURE", "ATTENTION_REQUIRED"}

\* A run that needs attention changes only by an operator's resume or clear,
\* never by the scheduled run nor by anything left over from before.
OnlyOperatorUnblocks ==
    [][\A r \in Runs :
          disk[r].state = "ATTENTION_REQUIRED" /\ disk'[r] # disk[r] =>
              \E p \in Procs : Resume(p) \/ Clear(p)]_vars

\* The sheet never lists a movie twice.
OneRowPerMovie == \A movie \in Movies : rows[movie] <= 1

\* Beside an orphan that still probes a movie no other child probes it, and
\* beside one that still transfers it only a transfer its operator asked for.
NoBlindRerun ==
    \A p \in Procs :
        /\ Alive(kid[p]) /\ Alive(kid[Nobody])
        /\ MovieOf(kid[p]) = MovieOf(kid[Nobody])
        /\ kid[p].stage = kid[Nobody].stage
        /\ kid[p].stage \in {"probe", "transfer"}
        => kid[p].stage = "transfer" /\ <<kid[p].run, kid[p].rank, "transfer">> \in resumed

\* A movie that a manifest calls acquired is in the movies directory and in
\* the sheet, and nothing is in the sheet that is not in the directory.
AcquiredIsReal ==
    /\ \A r \in Runs, k \in Ranks :
          disk[r].items[k].status \in {"ACQUIRED", "ACQUIRED_CLEANUP_REQUIRED"} =>
              <<r, k>> \in copies /\ rows[<<r, k>>] > 0
    /\ \A r \in Runs : ~Batch(disk[r]) /\ disk[r].state = "COMPLETED" => rows[<<r, 0>>] > 0
    /\ \A movie \in Movies : rows[movie] > 0 => movie \in copies

\* A movie that was copied and not recorded is never dropped silently: its run
\* is still open, or an operator cleared it.
CopyAccounted ==
    \A movie \in copies : rows[movie] = 0 =>
        disk[movie[1]].state \in {"RUNNING", "RETRYABLE_FAILURE", "ATTENTION_REQUIRED", "CLEARED"}

\* Every command ends and gives the lock back: no failure is retried within
\* one invocation.
EveryCommandEnds == \A p \in Procs : pc[p] # "off" ~> pc[p] = "off"

\* From some time on no process dies.  A death at "exit" is the same step as the
\* command's own Exit and is not counted: commands go on ending for ever.
CrashesCease ==
    <>[][\A p \in Procs : Crash(p) \/ CrashLeavingOrphan(p) => Exit(p)]_vars

\* A run found RUNNING after a death does not stay so: once crashes cease, the
\* scheduled task drives it to its end, to a retryable failure or to attention,
\* however many commands come and go and whoever else takes the lock meanwhile.
InterruptedRunResolves ==
    CrashesCease =>
        (Newest.state = "RUNNING" ~> Newest.state # "RUNNING")

\* The README: "latest-status.json is an atomic copy of the newest status".
StatusCopyIsNewest == lock = Nobody /\ newest # 0 => latest = disk[newest]

-----------------------------------------------------------------------------
(* The promise the flow implements, read off the newest manifest *)

PhaseOf(m) ==
    CASE m.state \in {"RUNNING", "RETRYABLE_FAILURE"} -> "open"
      [] m.state = "ATTENTION_REQUIRED" -> "blocked"
      [] m.state = "ABSENT" -> "idle"
      [] m.state = "CLEARED" -> "cleared"
      [] OTHER -> "ended"

Promise == INSTANCE FlowPromise WITH
    round    <- newest,
    phase    <- PhaseOf(Newest),
    size     <- Newest.requested,
    settled  <- Count(Newest, "ACQUIRED") + Count(Newest, "SKIPPED"),
    acquired <- {k \in 1..Newest.requested : Newest.items[k].status = "ACQUIRED"}

\* Every step of the flow, crashes and races included, is a step of the
\* promise or none.
KeepsPromise == Promise!Spec
=============================================================================
