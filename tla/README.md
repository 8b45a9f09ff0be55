# Verification of media_scope

`media_scope` acquires movies unattended: it asks for recommendations, searches an indexer for
releases, probes the torrents on a remote rTorrent seedbox until one proves healthy, downloads it,
transfers the movie to the local movies directory, removes it from the seedbox and records it in a
Google sheet. Each of these is a command of its own; `media-movie-flow` runs them as child processes,
one after the other, from a checkpoint on disk that a scheduled task picks up every 15 minutes.

Each command is short. What is hard is everything that happens between them: a process
that dies between two writes, a seedbox that goes on while nobody watches, a rerun of what was half
done, an operator's command beside the scheduled one. This directory holds TLA+ models of those parts,
TLC runs that check them on small instances, and TLAPS proofs of what matters most for all instances.

Contents: [inventory](#1-inventory), [modules](#2-modules), [the flow](#3-the-movie-flow),
[the download](#4-the-download), [the transfer](#5-the-transfer),
[searches and probe](#6-searches-and-probe), [runs](#7-runs-and-bounds), [fairness](#8-fairness),
[proofs](#9-proofs), [disagreements found](#10-where-code-and-documentation-disagree),
[what is not modelled](#11-what-is-not-modelled), [plan](#12-plan), [how to run](#13-how-to-run).

## 1. Inventory

Paths are relative to `src/media_scope/` unless they begin with `src/`.

| Component | State it keeps | Operations | What is hard about it |
|---|---|---|---|
| **Movie flow** `movie_flow.py` | per run a manifest (state, current stage and item, attempts, counts, attention), stage artifacts, `latest-status.json` | `run`, `resume`, `clear`, `status`; recovery after a death; the stage loop | deaths between any two saves, children whose result is lost, reruns, operators beside the scheduler |
| **Flow lock** `movie_flow.py` | an OS file lock | take without waiting, release, release by death | who may act on what was read |
| **Scheduled task** `src/scripts/install_movie_flow_task.ps1`, `windowless_launcher.py` | none; the launcher keeps log files | `run` every 15 minutes | it meets every state the flow can be left in |
| **Recommendations** `recommend_cli.py`, `recommendations.py`, `llm_recommendations.py`, `openrouter_client.py` | one text file with the latest recommendations, replaced atomically | count the movies, choose up to three | selection, exclusion of what the sheet already lists |
| **Movie search** `movie_search.py`, `jackett_client.py` | none beyond one command | ask every indexer for every movie, filter, merge, rank, cut, write the report | requests that fail one by one, each after its retries; duplicates; what the limit cuts off |
| **Series search** `search_service.py`, `search_cli.py`, `search_query_builder.py`, `scope_input.py` | none beyond one command | ask every indexer every query, merge, classify, score, rank, resolve | the same, and that evidence of several occurrences is merged before it is judged |
| **Release classification** `release_classifier.py`, **magnet resolution** `magnet_resolver.py` | a cache of references for one command | accept or reject; turn a candidate into an infohash | rules in an order, redirects, loops, references several candidates share |
| **Probe** `probe_service.py`, `probe_directories.py`, `movie_probe.py`, `probe_input.py` | torrents and directories on the seedbox, tagged with its job | resolve and queue candidates; preflight, submit, confirm, watch for metadata, stop and keep the first healthy one, clean up the others | leftovers of an interrupted probe, submissions that may have arrived, torrents it does not own |
| **Download** `download_service.py`, `download_directories.py` | none of its own: the torrent's directory and custom fields, the job directory | locate, prepare, hand off from the probe, redirect, start, monitor, complete | reruns that know only what the seedbox tells, timers racing completion, hooks, hash checks |
| **Transfer** `transfer_service.py` | none of its own: the local copy, the torrent, the remote files | validate, plan without collisions, copy in place, stop and erase the torrent, remove the remote files | a copy that breaks off and collides with its own rerun, cleanup that fails halfway |
| **History sheet** `google_sheets.py`, `history_cli.py`, `movie_history.py` | rows of a sheet | read, look up, append | no condition on the append |
| **rTorrent client** `rtorrent_client.py` | none | one XML-RPC request per method | every one may fail or time out; the answer is old when it arrives |
| **Remote filesystem** `remote_filesystem.py` | a reconnecting SFTP session | one request per method; a read is retried once, a write never | an interrupted write |
| **Scope builder and TMDb client** `scope_builder.py`, `client.py`, `resolver.py`, `cli.py` | none | describe a title | retries with a delay |

How they interact. The flow owns everything local: it starts a stage's child with the previous stage's
artifact as input, waits for it, and reads its JSON and exit code. Children never talk to one another;
they meet in the world they share: the **seedbox** (probe, download, transfer), the **movies directory**
(transfer, and recommendations, which reads it), and the **sheet** (history, recommendations). rTorrent
moves on by itself and calls completion hooks. Nothing on the seedbox is locked: ownership is by
custom fields and directory names.

What makes each of them correct:

- *Flow*: movies settled strictly in order and never reopened; no new run over an unfinished one;
  reports that agree with the items and the world; only successful artifacts handed on; an operator's
  permission used only for what it was given for; a blocked run moved only by an operator; every
  interrupted run taken up and resolved.
- *Download*: whatever is reported ready is whole and in an approved place; the payload is never
  abandoned or fetched twice by a handoff that broke off; torrents of others, and stalled ones, are not
  touched; every invocation ends.
- *Probe*: a torrent it did not add is never stopped or erased; at most one candidate is kept; leftovers are
  reported rather than forgotten.
- *Transfer*: nothing on the seedbox is stopped, erased or removed before every file was copied; a rerun
  overwrites nothing; what cleanup left over is reported.
- *Searches*: a report tells what could not be asked; no failure, duplicate or limit takes away a release that
  is better than what is kept; what is accepted as a series covers it as far as anybody can tell; every
  search ends.
- *History*: one row per movie.

The hazards this code is exposed to are listed in `PROJECT.json` at the line where each bites, with the
properties that cover it.

## 2. Modules

| Module | What it is |
|---|---|
| `MovieFlow.tla` | the flow, its lock, its children and what they do to the world; properties and refinement mapping |
| `FlowPromise.tla` | abstract: what the flow promises its owner |
| `MCMovieFlow.tla` | the symmetry of the processes, for TLC |
| `MovieFlowProofs.tla` | what each operator on a manifest returns, preserves and bounds; the inductive invariant of the flow: control, order, authority |
| `FlowTruthProofs.tla` | what each operator on a manifest does to what it says of the world; the inductive invariant of manifests, children and the world: reports, hand-ons, orphans; that the flow implements `FlowPromise` |
| `TorrentDownload.tla` | the download controller, the torrent and the seedbox around it; properties |
| `DownloadProofs.tla` | the inductive invariant of the download, for one controller |
| `MCTorrentDownload.tla` | the module TLC runs for the download alone |
| `MovieTransfer.tla` | the transfer, composed with the download it takes over from; properties |
| `MovieCustody.tla` | abstract: what the transfer promises of the files it moves |
| `TransferProofs.tla` | the inductive invariant of both together, and that they implement `MovieCustody` |
| `MCMovieTransfer.tla` | the module TLC runs for both |
| `Lists.tla` | what the searches do with lists: keep values, take the first that is there, sort by a key |
| `ListProofs.tla` | that there always is a first and a sorted order, and what keeping returns |
| `Jackett.tla` | a request to Jackett with its retries; what an answer is parsed into; extends `Lists` |
| `MagnetResolver.tla` | how a candidate becomes a magnet; extends `Jackett` |
| `MovieSearch.tla` | the search for recommended movies; extends `Jackett` |
| `ReleaseClassifier.tla` | rules, duplicates and score of releases of a series, as operators |
| `SeriesSearch.tla` | the search for a complete series; extends `ReleaseClassifier`, `MagnetResolver` |
| `TorrentProbe.tla` | a probe job on the seedbox; properties of the probe |
| `MovieProbe.tla` | the hand-off from `MovieSearch` through `MagnetResolver` to `TorrentProbe` |
| `Acquisition.tla` | the composition of both searches and the probe; properties of the searches |
| `AcquisitionProofs.tla` | the inductive invariant of the probe inside the composition |
| `SearchProofs.tla` | the inductive invariants of the searches, the resolver and the hand-off; what a ranking keeps |
| `SeriesProofs.tla` | the classifier's verdicts, what deduplication keeps, the inductive invariant of the series search; the types of the whole acquisition |
| `MCAcquisition.tla` | what the indexers offer, and which queues are probed, for TLC |

Definitions whose comment begins with "Mutant:" are not part of a model. Each is a plausible
bug in the definition that follows it, and is there to show that a property can be violated: put
in place of that definition, TLC reports the property false (`PROJECT.json`, "mutants").

## 3. The movie flow

### State and code

| Variable | In the code |
|---|---|
| `disk[r]` | `runs/<id>/manifest.json` of the r-th run, with its artifacts |
| `newest` | the run `_load_latest` finds, 0 before the first |
| `latest` | `latest-status.json` |
| `lock` | the holder of `FlowLock` |
| `pc`, `after`, `mem` | where a process is, where it goes after the second write, the manifest in its memory |
| `kid` | the child each process waits for; `kid[Nobody]` is a child whose parent was killed |
| `copies` | movies in the movies directory |
| `rows` | rows of the sheet per movie |
| `resumed` | ghost: which stages of which movies an operator resumed |

A manifest is a record with the fields on which the control depends. An artifact is what its JSON amounts to
(`Kinds`): `_evaluate_stage` and `_evaluate_batch_stage` never distinguish more than that. A stage record has the status
of its *newest* attempt, the only one that recovery and evaluation read.

`_write_manifest` replaces the run's manifest and then the status copy. Everything a process computes
between two saves is invisible to the others, so one action computes the next manifest and makes the first
replacement (`Save`), and `Mirror` makes the second; a death may fall between them.

| Action | Code |
|---|---|
| `RunNew`, `RunContinue`, `Resume`, `Clear`, `Refuse` | `run`, `resume`, `clear` up to their first save, with the lock, or turned away |
| `Recover` | `_recover_interrupted`, `_recover_interrupted_batch` |
| `Execute` | `_execute_stage` until the RUNNING attempt is saved |
| `Spawn`, `LaunchFails` | starting the child with its input, or failing to |
| `ChildAnswers`, `ChildBreaks` | the child ends; the attempt is saved COMPLETED or INVALID_OUTPUT |
| `Judge` | `_evaluate_stage`, `_evaluate_batch_stage` and the transition they save |
| `Mirror`, `Exit` | the second replacement; leaving the lock |
| `CopyPayload`, `ReadSheet`, `AppendRow` | what transfer and history children do while they run |
| `Crash`, `CrashLeavingOrphan`, `OrphanEnds` | a process dies, with its child or without it |

Both schemas are covered: a schema-1 run that an older version left behind (`LegacyStart`) runs through the same
operators by `Batch(m)`, as in the code.

### Properties

- `ItemsInOrder`, `SettledIsFinal`, `OneOpenRun`, `OnlyOperatorUnblocks`: order, finality and authority.
- `ReportsAreTruthful`, `AggregatesSettle`: counts, results and aggregate statuses, cached at several places
  and recomputed at some transitions only, agree with the items and the world.
- `HandoffVerified`: `latest_artifact` is overwritten by failing attempts as well; the next
  child still never gets one of those.
- `StallConsent`: `--resume-stalled` reaches only the download an operator decided about.
- `NoBlindRerun`, `AcquiredIsReal`, `CopyAccounted`, `OneRowPerMovie`: the world, with and without orphans.
- `EveryCommandEnds`, `InterruptedRunResolves`: liveness.
- `KeepsPromise`: the flow implements `FlowPromise`. The mapping reads the newest manifest: RUNNING and
  RETRYABLE_FAILURE are an *open* run, ATTENTION_REQUIRED a *blocked* one; a movie is settled when its item
  is ACQUIRED or SKIPPED. Processes, attempts, stages and both writes are stutters.

## 4. The download

### State and code

The controller persists nothing. A rerun finds its way by the seedbox, so the seedbox is the state:

| Variable | In the code |
|---|---|
| `torrent` | what `download_snapshot` and `get_custom` read: mode, hash check, bytes, rate, terminal message, directory, and the fields `media_download_job_id` (`owner`) and `media_download_state` (`mark`) |
| `data` | the place the payload's files are in |
| `jobdir` | whether the job directory exists, and whose it is |
| `probedir` | whether the probe's candidate directory exists |
| `ctl[c]` | a controller: program counter, options, latest snapshot, whether this is a probe handoff, `_probe_handoff_cleanup`, startup cycle, polls since the last progress, the last answer |

Directories are the four kinds the code distinguishes: the torrent's own probe directory, the job
directory, another approved root, and any other. The payload is `Size` pieces.

Every remote command is an action of its own, and reads and waits belong to the command they
confirm: `_wait_for_rtorrent` ends with the state reached or not reached (`AfterStop`, `AfterOpen`, ...
contain both). Between any two actions the torrent may receive a piece, end a hash check, report an
error or be erased, its hook may move a finished payload, the controller may die (`Crash`), and the gateway or SFTP
may fail (`Offline`, `StorageFails`).

| Action | Code in `download_service.py` |
|---|---|
| `Locate`, `PrepareDirectory`, `Handoff` | `run` 101-141, `DownloadDirectoryManager.prepare`, `_owned_probe_handoff_paths` |
| `StopProbe`, `Weigh`, `Stop`, `Close`, `Rename`, `Redirect` | `_prepare_torrent`, in its order |
| `TagOwner`, `TagState` | `tag_download` and the choice of what comes next |
| `Starting`, `CycleStop` ... `CycleResume` | `_start_or_resume` |
| `Watching`, `Poll`, `TimeOut`, `Disappeared` | `_monitor` |
| `Completed`, `Grace`, `Settle`, `Verify`, `PostCompletion`, `CleanupProbe`, `Ready` | `_complete` |
| `Halt`, `Mark`, `HaltFails` | `_stop_and_mark`, whose failures are swallowed |

### Properties

- `HandoffKeepsFiles`: once the payload was renamed into the job directory and the torrent not yet
  redirected, the torrent stays closed, over every death in between. Were it open, rTorrent would miss its
  files and download them again.
- `ReadyIsVerified`: from the verification on, and as long as the torrent carries READY_FOR_TRANSFER, the
  payload is in an approved place, is where rTorrent says, and a stopped torrent is whole.
- `Consent`: no controller changes a torrent of another job, nor one marked STALLED without
  `--resume-stalled`.
- `EveryDownloadEnds`: every invocation ends, if hash checks do not begin over and over (each resets the
  stall timer, as the code and README say).

### Assumptions

- The completion hook is done when the grace period is (README.md:1203 asks for it); with a slower hook
  no check before the READY mark could help.
- The grace period takes one snapshot: its default of 30 s is shorter than the poll interval of 900 s.
- A snapshot, some twenty requests in the code, is one observation.
- One controller at a time. The flow guarantees it unless an orchestrator is killed without its child; two
  at once are not safe, and nothing in the code claims they are (see `PROJECT.json`, hazards).

## 5. The transfer

`MovieTransfer` extends `TorrentDownload`: it begins only from a report that the download made, on the torrent and the
directories the download left, and everything that may happen to the torrent goes on happening.

| Variable | In the code |
|---|---|
| `remote[p]`, `local[p]` | the p-th top-level path of the payload, on the seedbox (whole, broken, gone) and in the movies directory (none, partial, whole) |
| `mover` | the process: program counter, the path it works on, and what its report says: outcome, `torrent_removed`, `remaining_remote_paths` |

| Action | Code in `transfer_service.py` |
|---|---|
| `BeginTransfer`, `ValidateTorrent`, `BuildManifest`, `ManifestFails` | `run`, `_validate_torrent`, `_build_manifest` |
| `MakeDirectory`, `CopyFile`, `CopyFails` | `_transfer`; a file exists from its first byte |
| `StopTorrent`, `CloseTorrent`, `EraseTorrent`, `ConfirmErased` | the first half of `_cleanup` |
| `RemoveTree`, `RemoveDirectory`, `RemoveFails` | the second half; `remove_tree` goes child by child |
| `TransferOffline`, `CleanupOffline`, `TransferCrash` | unanswered requests, deaths |
| `ClearLocal` | an operator removes local files, as README.md asks after a failed copy or a collision |

Properties:

- `KeepsCustody`: the transfer implements `MovieCustody`: over failures, deaths, reruns and removals by operators, no
  file is given up on the seedbox before all of them are kept locally, nor thrown away locally before all are on the
  seedbox. The mapping is the set of whole files on either side.
- `RetryIsSafe`: after a failed copy or a collision the seedbox has everything, so an operator may clear and rerun.
- `CleanupReportIsTrue`: what a report says of the torrent and of what is left is so.
- `EveryTransferEnds`.

## 6. Searches and probe

### Searches

A command asks Jackett for one thing at a time (`request` counts its attempts), so its requests are actions
and everything it computes between them is one action. A release is a record of what matching,
merging and ranking tell apart; a title is what the patterns find in it (`ReleaseClassifier.tla`). The sets
`MovieReleases` and `SeriesReleases` list the fields with the values they may have, and what an indexer may answer is any
sequence of these (`SearchAssumption`, `SeriesAssumption`). `Links` are the addresses a result may give for its
download; those that Jackett itself answers are `References`.

| Variable | In the code |
|---|---|
| `request` | the loop over attempts in `JackettClient._get_xml` and `fetch_acquisition_reference` |
| `search` | `search_recommended_movies` and its `main`: where it is, indexers, raw results, warnings, groups, exit code |
| `series` | `search_complete_series` and its `main` |
| `resolver` | `MagnetResolver`: references left, redirects on the way, cache, outcome |
| `handoff` | `resolve_candidates` of `movie_probe.py`: candidates, queue, skipped ones with their reasons |

| Actions | Code |
|---|---|
| `AskJackett`, `AskForSeries`, `RetryStep` | sending, and sending again |
| `IndexersDiscovered`, `CapabilitiesKnown`, `CapabilitiesFail`, `MovieFound`, `MovieQueryFails`, `SearchAborts`, `RankMovie`, `Report` | `movie_search.py` |
| `SeriesDiscovered`, `SeriesCapabilities`, `SeriesFound`, `SeriesQueryFails`, `SeriesAborts`, `RankSeries`, `ResolveSeries`, `SeriesResolved`, `SeriesReport` | `search_service.py`, `search_cli.py` |
| `NextReference`, `FetchReference`, `BodyArrives`, `RedirectArrives`, `FetchFails` | `magnet_resolver.py` |
| `BeginMovieProbe`, `TakeCandidate`, `QueueCandidate`, `EndHandoff` | `movie_probe.py` |

Properties:

- `SearchIsHonest`: a report is written only when every query was answered or a warning names what was not. A command
  gives up (exit code 4) only when nobody answered or the key was rejected, and loses a report (exit code 5) only when
  there was one to write.
- `ReportKeepsBest`: of what was offered for a movie and is seeded, each release is a source of a result, or
  as many results as the limit allows are at least as good: neither failures nor duplicates nor the cut take it away.
- `AcceptedCovers`: a candidate for a series covers it by what the title of the occurrence that stands for the others tells
  of seasons, and by the categories of all of them.
- `NothingAcceptableLost`: a release that is acceptable alone is not lost in a merge with worse ones.
- `QueueIsDue`, `FetchedOnce`, `EverySearchEnds`.

### Probe

| Variable | In the code |
|---|---|
| `known[h]` | a torrent of rTorrent: has its metadata, stopped, started or active, and by which job it was submitted (0: another user) |
| `inflight` | submissions rTorrent has received and not carried out |
| `pdirs`, `jobdirs` | candidate and job directories |
| `prober` | the process: `record.preexisting` is `look`, and `created`, `directory`, `cleanup_failed` are `created`, `dir`, `dirty` |

The actions follow `_probe_candidate` (`Look` ... `MarkValidated`), `_wait_for_metadata` (`AwaitMetadata`,
`MetadataTimeout`), `_cleanup_owned` and the shorter cleanup of `_run_preflight` (`CleanLook` ... `CleanDirectory`), and `run`
(`NextTorrent`, `EndProbe`). Any request may fail (`ProbeRaises`, `LookAgain`), also after it was carried out
(`SubmitMagnet`, `StopIsLost`, `CleanErase`) or before it is (`Land`). rTorrent and its other users move on
(`TorrentRuns`, `UserAdds`, `UserErases`), a job may die anywhere, and the stage is run again.

- `ForeignUntouched`: a job that saw a torrent before it submitted one never stops or erases it. Excluded are a torrent that
  came after the look, and a look that was not answered; the latter is the run of section 10, 6.
- `OwnAreAccounted`: a job that ends with a report tells of what it leaves in rTorrent: with exit code 0 it is the selected
  candidate or one that `--keep-failed-probes` kept, otherwise exit code 7 tells of it. The exceptions are a submission
  rTorrent did not show it, and a job without a report: it died, or its last request failed and it ends with exit code 4.
  Then `CleanupFailureIsTold` is violated (section 10, 4).
- `SelectedIsHeld`: what a job of exit code 0 selected of its own is stopped, with metadata and directory, as
  `TorrentDownload` expects it. The exceptions are a submission it could not see, and a torrent that
  `--keep-failed-probes` kept from an earlier try of the same job: a queue may list a torrent twice, the second try finds
  it there and takes it for another's, and hands it on as it is, running (`_probe_candidate` stops what it created only;
  README.md:770 promises a stop for the script's own torrents).
- `EveryProbeEnds`.

## 7. Runs and bounds

| Run | Configuration | Checks | States |
|---|---|---|---|
| `flow_batch` | 2 processes, 1 run, 2 movies | `TypeOK ItemsInOrder ReportsAreTruthful AggregatesSettle HandoffVerified StallConsent SettledIsFinal KeepsPromise` | 217 thousand |
| `flow_rounds` | 2 processes, a schema-1 run and a new one, 1 movie | `OneOpenRun OneRowPerMovie OnlyOperatorUnblocks` | 1.75 million |
| `flow_orphans` | 2 processes, 1 run, 1 movie, orphans | `NoBlindRerun AcquiredIsReal CopyAccounted` | 89 thousand |
| `flow_liveness` | 2 processes, 1 run, 1 movie, fair | `EveryCommandEnds InterruptedRunResolves` | 21 thousand |
| `download` | 1 controller and 1 transfer rerun without bound, 2 pieces, 2 stall polls, 2 cycles, 2 paths, fair | `TransferTypeOK HandoffKeepsFiles ReadyIsVerified RetryIsSafe CleanupReportIsTrue Consent EveryDownloadEnds KeepsCustody EveryTransferEnds` | 288 thousand |
| `acquisition` | 2 indexers, 2 movies or a series of 1 or 2 seasons with 2 queries, 2 torrents and a preflight, 2 references, 2 probe jobs, fair | `AcquisitionTypeOK SearchIsHonest QueueIsDue AcceptedCovers NothingAcceptableLost OwnAreAccounted SelectedIsHeld ReportKeepsBest FetchedOnce EverySearchEnds ForeignUntouched EveryProbeEnds` | 353 thousand |
| `flow_status_copy`, `flow_duplicate_row`, `download_restart`, `download_redirect`, `probe_cleanup`, `probe_preexisting` | smallest instance that shows it, the last two on that of `acquisition` | one property each, violated: section 10 | |

Why these bounds are enough:

- *Movies* (`Target`): with two, one is the first, one the last, one has a predecessor and one a
  successor, and the two can end differently; order, counts, aggregates and permissions need no more. The
  code's constant is 3. Every safety property of the flow is proved for every `Target`.
- *Runs* (`MaxRuns`): all code looks at the newest run only; two show a new one beginning over an
  old one. When the directory is full no new run is begun, and the other actions go on.
- *Processes*: the lock lets one in; a second one can be turned away, take over after a death, or hold
  the next lock while an orphan of the first one lives. Processes are interchangeable, so the safety runs use symmetry;
  `flow_liveness` does not.
- *Orphans*: at most one at a time.
- *Invocations, attempts, deaths, retries and operator commands* are not bounded in any run.
- *Pieces* (`Size`): none, some, all. *Polls* (`StallPolls`, 8 in the code): with two there is a poll
  that is neither the first nor the last. *Cycles* (`StartupCycles`): 2, as in the code.

- *Paths* of a payload: with two, one is copied, or removed, and the other is not yet.
- *Searches*: one command in a behaviour, for movies or for a series, since nothing outlives it but its report.
  Two indexers, movies and queries let one fail and the other answer, or be the last. `Attempts` is
  2 (4 in the code), `MaxRedirects` 1 (5), `MaxFailures` 2 (3), `ResultLimit` and `Maximum` 2 (10): each can be
  missed, met and exceeded. What an indexer may answer is chosen (`MCOffers`, `MCSeriesOffers`) so that
  releases are duplicates of one another, lack seeders, exceed a limit, differ in evidence, or need to be resolved; `MCForms`
  adds combinations of what a title can tell of seasons.
- *Probe jobs* (`Jobs`): two, the second one a rerun with the first candidate, which meets what the first left. Only
  the queues in `MCProbeJobs` are probed: one torrent, two, and one listed twice, its failed try kept; other queues would
  repeat these.
  Torrents change only while they are at work (`AtWork`): before and after, nobody looks.

Every run checks for deadlock, since a command can always be given, but the three on the instance of `acquisition`, whose
commands and jobs are used up at some point.

## 8. Fairness

Safety runs assume none. `flow_liveness` assumes

- weak fairness of a process's own steps: `run_process` waits for a child that ends, every stage
  command having its own timeouts, and file operations return;
- strong fairness of `RunContinue`: the scheduled task is repeated every 15 minutes without end
  (`src/scripts/install_movie_flow_task.ps1`, README.md:347), and it may find the lock taken at any one time.

No operator ever has to act, and no crash has to happen or to stay away: `InterruptedRunResolves` only has
the premise that crashes cease (`Crash` and `CrashLeavingOrphan`). Commands may begin and end without end under it, so that a
run which exits and leaves its manifest RUNNING, time and again, is found; that is what its mutant does. `download` assumes weak fairness of a controller's own steps, every request having a
timeout, and that a command to a torrent that is gone is answered by a fault; and a transfer's own steps the same way. `acquisition`
assumes that a search that runs goes on (attempts are bounded and have timeouts, so each request is answered, or given up), that a probe takes its
next step, that its deadlines come (`MetadataTimeout`) and that a command for a torrent or directory that is not as it should be
fails (`ProbeFaults`). Neither pieces, nor metadata, nor the end of a hash check, nor any other failure is fair.

## 9. Proofs

Every theorem is for every value of the constants that meets the assumptions of the modules (`ProcsAssumption`,
`BoundsAssumption`, `SwitchesAssumption`, `PathsAssumption`, `ProbeAssumption`, `HandoffAssumption`, `ProbeJobsAssumption`,
`JackettAssumption`, `SearchAssumption`, `SeriesAssumption`,
...: numbers are positive, sets of processes do not contain `Nobody`, queues are sequences of torrents, indexers and movies are
sequences without repetition, as `_indexer_ids` and `load_recommendations` see to). Other hypotheses
are in the statements, and there are three:

- `~Orphans` in `OneRow`: beside an orphan a second row does appear (section 10, 2).
- `~LegacyStart` in `PromiseKept`: `FlowPromise` begins with nothing promised, and a run of an older version that is
  in the directory from the start is something else. `StepsPromised` says of every step that it is promised, with it or without.
- `OneController` for the download: two controllers of a job undo each other's work (section 4, assumptions).

| Module | Theorem | Statement |
|---|---|---|
| `MovieFlowProofs` | `FlowInvariant` | `Spec => []FlowInv` |
| | `TypeCorrect`, `OneWorker` | `Spec => []TypeOK`; at most one process is inside a command |
| | `OpenRunIsNewest`, `MoviesInOrder` | `Spec => []OneOpenRun`, `Spec => []ItemsInOrder` |
| | `SettledStays`, `BlockedStays` | `Spec => SettledIsFinal`, `Spec => OnlyOperatorUnblocks` |
| `FlowTruthProofs` | `TruthInvariant` | `Spec => [](FlowInv /\ TruthInv)` |
| | `ReportsTrue`, `AggregatesAreSettled` | `Spec => []ReportsAreTruthful`, `Spec => []AggregatesSettle` |
| | `HandoffsVerified`, `StallsResumedByConsent` | `Spec => []HandoffVerified`, `Spec => []StallConsent` |
| | `AcquisitionsAreReal`, `CopiesAccounted` | `Spec => []AcquiredIsReal`, `Spec => []CopyAccounted` |
| | `OneRow`, `NothingRepeatedBlindly` | `~Orphans => (Spec => []OneRowPerMovie)`, `Spec => []NoBlindRerun` |
| | `StepsPromised` | `Spec => [][Promise!Next]_(Promise!promise)` |
| | `PromiseKept` | `~LegacyStart => (Spec => KeepsPromise)` |
| `DownloadProofs` | `DownloadTypes` | `Spec => []TypeOK`, for any number of controllers |
| | `DownloadInvariant`, `HandoffHolds`, `ReadyHolds`, `ConsentHolds` | with one controller: `DownloadInv`, `HandoffKeepsFiles`, `ReadyIsVerified`, `Consent` |
| `TransferProofs` | `TransferInvariant`, `TransferTypes` | `TransferSpec => [](TypeOK /\ CopyInv)`, `TransferSpec => []TransferTypeOK` |
| | `RetryHolds`, `CleanupReportHolds` | `TransferSpec => []RetryIsSafe`, `TransferSpec => []CleanupReportIsTrue` |
| | `CustodyHolds` | `TransferSpec => KeepsCustody`, the refinement |
| | `DownloadStaysSound`, `HandoffHoldsInTransfer`, `ReadyHoldsInTransfer`, `ConsentHoldsInTransfer` | what is proved of the download, while a transfer works on its torrent |
| `AcquisitionProofs` | `ProbeInvariant`, `ProbeTypes` | `AcquisitionSpec => [](ProbeTypeOK /\ ProbeInv /\ HandoffInv)`, `AcquisitionSpec => []ProbeTypeOK` |
| | `OwnAccounted`, `SelectedHeld` | `AcquisitionSpec => []OwnAreAccounted`, `AcquisitionSpec => []SelectedIsHeld` |
| | `ForeignLeftAlone` | `AcquisitionSpec => ForeignUntouched` |
| `SearchProofs` | `ReferencesFetchedOnce` | `AcquisitionSpec => FetchedOnce` |
| | `ReportsAreHonest` | `AcquisitionSpec => []SearchIsHonest` |
| | `QueuesAreDue` | `AcquisitionSpec => []QueueIsDue` |
| | `ReportsKeepTheBest` | `AcquisitionSpec => ReportKeepsBest` |
| `SeriesProofs` | `CandidatesCover` | `AcquisitionSpec => []AcceptedCovers` |
| | `AcceptableAreCarried` | `AcquisitionSpec => []NothingAcceptableLost` |
| | `AcquisitionTypes` | `AcquisitionSpec => []AcquisitionTypeOK` |

### The flow

None of the properties is inductive: that a save keeps the order of the movies depends on the *memory* of
the process that saves being the newest manifest, which depends on the lock, on nobody else being at
work, and on where the process is. So `FlowInv` is the conjunction of

- `FilesInv`: every manifest on disk is `Sound`; runs after the newest are absent; only the newest may be open;
- `ControlInv`: a process at work holds the lock, its memory is the newest manifest, and its place
  agrees with the manifest's state;
- `WorldInv`: types of the sheet, the movies directory and the operator's ghost;
- `ChildInv`: the child waited for is of the current stage.

`Sound(m)` says of one manifest that it is typed, that an artifact fits its stage, that its items are
in order, and that the current stage and item fit together.

The argument has two levels. The first half of `MovieFlowProofs` is about single manifests: for every operator that
computes the next one (`Retry`, `Attend`, `Advance`, `FinishBatch`, `AdvanceToNextItem`, `EvaluateStage`,
...) it shows that it *follows* the given one: it is sound, it belongs to the same run, and it leaves
finished runs and settled movies as they are. The second half is about the system:
`SaveKeeps` shows that a save of a manifest that follows the newest keeps `FlowInv` and rewrites nothing
settled; then there is a lemma per action (`RunNewKeeps`, `RecoverKeeps`, `JudgeKeeps`, `CrashKeeps`,
...), `StepKeeps` puts them together, and the theorems follow.

What manifests *say* is a second layer on the first, `TruthInv`:

- `Manifested`: every manifest is `Honest` (counts, results, aggregates and artifacts agree with its own items) and
  `Witnessed` (what it says was acquired is in the directory and the sheet);
- `KidsTrue`, `KidsPlaced`: the same of every child at work, orphans too: what it was given as input, and what it has
  done so far, is so;
- `WorldTrue`: every copy belongs to a movie that its run took as far as the transfer, and every row to a copy;
- `ConsentTrue`: a permission in the manifest, or with a child, was given by the operator.

`FlowTruthProofs` first shows for each operator on a manifest that it keeps `Honest` and what it does to items, counts and
records, and then has a lemma per action again. Two properties need more. `OneRow` needs `RowsInv`, which is about
the one child there is (`OnlyChild`): what it has seen in the sheet is still so when it appends.
`NothingRepeatedBlindly` needs `OrphanInv`: the run of an orphan has gone on to another movie (the current rank only grows,
`RankGrows`), or an operator resumed its stage, or the stage is *held*: it is still recorded as running, or an operator
has to decide, and nobody executes it.

The refinement `PromiseKept` counts acquired items. `SettledBefore` reads the order of the movies off `Sound`: those
before the current one are settled, those after it are not; with it a step of the flow settles at most the current movie,
and the count grows by one exactly when it is acquired.

### Download and transfer

`DownloadInv` says for each place of the controller what it knows of a torrent that changes while it works:

- `ConsentInv`: past the check of ownership, the torrent is this job's, or not yet anybody's; it is not marked stalled, or the
  controller may resume it;
- `HandoffInv`: while the files are *ahead* of the torrent, the torrent is closed, nobody will open it, and any rerun meets the
  handoff;
- `ReadyInv`: after the verification the payload is whole and in its place, and what may still happen to it (a hook
  that has run, a stop) does not change that.

`CopyInv` adds the transfer: `OneSideWhole` (all files are whole on the seedbox, or all here and the torrent gone), what each place
of the mover knows (`PlaceInv`), and the two properties of its reports. None of these needs one controller. That
the download's own invariant survives the transfer (`DownloadStaysSound`) rests on the mover touching a torrent only after
it was reported ready. `CustodySimulated` maps each step: `CopyFile` is `Copy`, `RemoveTree` is `Release`, `ClearLocal` is
`Discard`, everything else a stutter.

### Probe

`ProbeInv` is the conjunction of

- `JobInv`, `PlaceInv`: a job at work has a torrent, and what `look` and `created` say at each place;
- `ForeignInv`: a torrent that is taken for the job's own is its own, or came after the look, or the look was not answered;
- `AccountInv`: no torrent and no submission is of a job to come; what is of this job is told of, or is the torrent at
  work on a way that ends in its cleanup or its selection;
- `WayInv`, `SelectedInv`: what is already true of a torrent on the way to be selected, and stays true afterwards.

`HandoffInv` is what `ProbeInv` needs to know of what comes before: the queue is a sequence of torrents.
A first attempt did not go through, and showed that the model's properties said too much: a torrent that a
job kept on request (`--keep-failed-probes`) is neither selected nor told of by exit code 7, and when a queue lists it twice
the second try hands it on running. The model remembers such torrents (`kept`), the properties name the
exception (section 6), and the instance that TLC checks has such a queue.

### Searches and hand-off

`FetchInv`: what was fetched is in the resolver's cache, but for the reference at work (`ReferencesFetchedOnce`). It says so of
failures too, and whoever asked.

`SearchInv` and `SeriesInv` say how far a search has come. In the movie search every movie before the current one was put to all
indexers, and the current one to those before the next; put to means there was an answer or there is a warning
(`Covered`), and an indexer that Jackett told of is asked or warned of (`Gathered`). The series search keeps counts
only, so its invariant is arithmetic: unless the report is partial, as many queries are answered as come before the next one,
and as many are due as the indexers asked have queries (`Due`, `AtQuery`).

`HandedOnInv` is about the hand-off: the results before the next one are each queued or skipped, and while one is being resolved the
queue is not full (`Handled`). It needs `OneCommand` (a hand-off follows a movie search, and nobody else asks the
resolver meanwhile), `FetchInv` (the resolver comes to a torrent or a failure, not to "limit") and `SearchInv` (the report's
results are lists, so that their number is one).

The lemmas these rest on are about sequences: `KeptIs` (the values at some places of a sequence, in order), `NthMember` and
`Counting` (the n-th of a set of numbers), `ConfiguredIs`, `FlattenLists` (`FlattenSeq` is recursive: that its recursion has
a value is shown by a least counterexample, as is every induction here), `ListsGrow`, `ResultsList`. Because the prover has
no definition of `SelectSeq`, the models take out values of sequences by their places (`Kept`, `Fetchable`) wherever the
proofs have to know the result.

### What a ranking keeps

`Sorted` and `First` of `Lists` are choices, so that a sorted order exists has to be shown before anything is known of
what is chosen. `BeforeTotal`, `BeforeStrict` and `BeforeChain` say that keys of one length are compared by a total preorder.
`OrderByKey` orders a set whose keys all differ: the place of a member is one more than the number of those before
it. Where keys are equal the set is numbered by any bijection, and the number is put behind the key (`SortedExists`).
`OrderIsComplete` adds that a sorted sequence has every member once.

For `ReportKeepsBest`, `CandidatesAre` says that every listed release is a source of the one candidate of its key, and
`AloneIsNoBetter` that a candidate is never outranked by one of its sources alone (its match, its seeders and its indexers are at
least those of any source). What is cut off by the limit is behind all that is kept (`FirstNIs`, `ResultsAreBest`).

### What is accepted as a series

The classifier is a finite case split, and `Verdicts` and `ClassifyIs` go through it once: a release is accepted exactly when it is
`Acceptable`, and every verdict has a class, a confidence and `exact` of the right type, which the keys of the ranking
need (`ScoreIs`, `RankingKeyIs`, `RankedSeriesIs`).

Merging is where evidence could be lost. `RepresentativeIs` says that the occurrence that stands for the others is accepted when
any of them is, as acceptance is first in its key; `CanonicalIs` what the merge does to it (categories
of all, a hash, a magnet and a size it may have lacked); `StaysAcceptable` that this takes nothing from an acceptable
release as long as no category of another source contradicts it; `JudgedIs` that verdicts looked up by number are those of
the release itself while numbers differ. Together they are `AcceptableIsProvisional`: the canonical result of an
acceptable release is one of the provisional candidates.

The invariant is `SeriesData`. Until the ranking it is `Gathering`: the raw results are releases, and nothing is refused
or a candidate. From then on it is `Carried`: what is left to resolve or was refused are provisional
candidates, a candidate covers the series and has a torrent, and every provisional candidate is left, refused or one of
the candidates under its sources. The last part alone would be `NothingAcceptableLost`, but a step that resolves
a candidate needs to know that it was a provisional one, and that something is left (`LeftToResolve`: the resolver works only for the
head of what is left). `CandidatesCover` and `AcceptableAreCarried` read their properties off `Carried` where the search ends.
TLC checked `SeriesData` on the instance of `acquisition` before it was proved.

`AcquisitionTypeInv` adds to this what types need: `ResolverInv` (the record of the resolver, whose cache is a function on the
references asked for; a reference at work is one of Jackett's), `LinksInv` (what is handed to the resolver has a list
of addresses, in the report and after the hand-off took it), `RequestInv` (no request is tried more often than `Attempts`)
and `PlacesInv`.

### What stays with TLC

Every safety property and every refinement that a passing run checks is proved. Left to TLC alone are

- liveness and everything under fairness (out of the prover's reach): `EveryCommandEnds`, `InterruptedRunResolves`,
  `EveryDownloadEnds`, `EveryTransferEnds`, `EverySearchEnds`, `EveryProbeEnds`;
- the disagreements of section 10, each of which is one behaviour.

## 10. Where code and documentation disagree

Each is a run that TLC ends with the shortest behaviour that shows it; `PROJECT.json`, "findings", quotes both
sides.

1. `flow_status_copy`: `latest-status.json` is "an atomic copy of the newest status". Two replacements are
   two steps; a death in between leaves the copy behind, for good when the newest status needs attention.
2. `flow_duplicate_row`: the history stage is called idempotent. It reads, looks up and appends
   unconditionally; beside an orphan of a killed orchestrator the rerun adds a second row.
3. `download_restart`: an interrupted download is "revalidated and resumed". Interrupted after
   the job directory was made and before the torrent was pointed to it or tagged, every rerun answers
   DOWNLOAD_PATH_COLLISION.
4. `probe_cleanup`: "cleanup failure: exit code 7 requires operator attention". Before it comes to that code a job asks for the
   removal of its empty directory; when this last request fails too, it ends with exit code 4 and an error in the place of the
   report. The failed cleanup is told to nobody, nor are the attempts and a candidate that was selected.
5. `download_redirect`: only an empty probe location is redirected. The bytes are weighed before the stop
   and not after it; what arrives in between is left behind.
6. `probe_preexisting`: preexisting torrents are never stopped or erased. When the request that asks whether a torrent
   exists is not answered, the handler asks again and takes a torrent that is there for its own; it is stopped and
   erased.

One more was read off the code and has no run, since the model has the same two steps in the same order: `--dry-run`
of the download works "without starting, stopping, ..." (README.md:938), but a torrent started in its own probe directory is
stopped (`StopProbe`, `download_service.py:242`) before `dry_run` is looked at (277, 285).

## 11. What is not modelled

- *Flow*: the read-only `status`, messages, `allowed_actions`, attempt numbers, the redundant
  `current_stage` of an item, the `retryable_failure` object. A manifest or artifact that cannot be
  trusted (`FlowManifestError`) changes nothing on disk, like a process that dies; that such a
  run needs an operator to edit files is a listed hazard. File times that disagree with the order of writes.
- *Download*: the parsing of its input, the identity and metadata checks of every snapshot, an empty
  `base_path`, the fields of the report, a destination that some other program created.
- *Transfer*: the fields of the report, the rules for names, sizes compared after a copy. The download is not begun
  again after a transfer.
- *Searches*: a movie search for no recommendation, which writes an empty report without a request; patterns, XML, HTML, bencode and the wording of queries: a title and an answer are what they find.
  Publication dates and peers, which rank results below their seeders and are taken to be the same; `--include-rejected`; the parsing of inputs. That two releases may
  share a number is in the model (`Parsed`); what follows from it is a listed hazard.
- *Probe*: the check of the probe root, the directory manager over RPC (the SFTP one refuses and removes alike),
  `--dry-run`, the fields of attempts, an output file that cannot be written (exit code 8). Any fault that answers
  `torrent_exists` means that the torrent is not there, as in the code. Ownership fields are written and not read by the probe.
- *rTorrent client, remote filesystem*: connections, credentials, message sanitising, the second try of a read.
- *Scope builder and TMDb client, recommendations, entry points*: one request after another, whose answers become one
  document; nothing is kept and nothing interleaves.

## 12. Plan

Done: all modules of section 2, and proofs of every safety property and every refinement that is checked. When the code or
the models grow, next in order are:

1. The hazards of `PROJECT.json` that no property covers: two controllers of one download job (the invariant of the download
   is for one), and numbers that two releases share.
2. The check of the probe root and the preflight's directories, which the probe model takes as given.
3. The recommendations and the scope builder, when they keep state that outlives a request.

## 13. How to run

From this directory:

```
tlc -workers 2 -config FlowBatch.cfg MCMovieFlow.tla
tlc -workers 2 -config DownloadTransfer.cfg MCMovieTransfer.tla
tlc -workers 2 -config Acquisition.cfg MCAcquisition.tla
tlapm MovieFlowProofs.tla
tlapm FlowTruthProofs.tla
tlapm DownloadProofs.tla
tlapm TransferProofs.tla
tlapm AcquisitionProofs.tla
tlapm ListProofs.tla
tlapm SearchProofs.tla
tlapm SeriesProofs.tla
```

Every other configuration `Flow*.cfg` belongs to `MCMovieFlow.tla`, every other
`Download*.cfg` to `MCTorrentDownload.tla`, and `ProbeCleanup.cfg` and `ProbePreexisting.cfg` to `MCAcquisition.tla`.
