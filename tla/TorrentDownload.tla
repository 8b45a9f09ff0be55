-------------------------- MODULE TorrentDownload --------------------------
(***************************************************************************)
(* The download controller of media_scope/download_service.py, which takes *)
(* the torrent a probe selected to a verified payload in a directory of    *)
(* its job.                                                                *)
(*                                                                         *)
(* The controller keeps nothing on a disk of its own: a rerun finds its    *)
(* way by what the seedbox holds, the torrent's directory, its custom      *)
(* fields media_download_job_id (owner) and media_download_state (mark),   *)
(* and the job directory.  Every remote command is one action; the         *)
(* controller may die, or the seedbox become unreachable, between any two  *)
(* of them, and the torrent and its completion hook go on by themselves.   *)
(***************************************************************************)
EXTENDS Integers

CONSTANTS
    Controllers,     \* processes that run media-download-torrent for this job
    Size,            \* the payload, in as many pieces as the model tells apart
    StallPolls,      \* stall timeout / poll interval: 7200 s / 900 s in download_cli.py
    StartupCycles,   \* RTORRENT_STARTUP_CYCLES, 2 in the code
    OverallTimeout   \* whether RTORRENT_DOWNLOAD_TIMEOUT_SECONDS is set

ASSUME SizesAssumption == {Size, StallPolls, StartupCycles} \subseteq Nat \ {0}
ASSUME TimeoutAssumption == OverallTimeout \in BOOLEAN

-----------------------------------------------------------------------------
(* The torrent, as rTorrent reports it *)

\* The probe's candidate directory, the job's own directory, a library root of
\* RTORRENT_ALLOWED_FINAL_ROOTS, and any other place.
Places  == {"probe", "job", "library", "elsewhere"}
Allowed == {"job", "library"}

\* Closed; open but stopped; started but not active; started and active.
Modes == {"closed", "stopped", "paused", "active"}

Marks == {"none", "PENDING", "STARTING", "HASH_CHECKING", "DOWNLOADING", "STALLED", "COMPLETED",
          "POST_PROCESSING_GRACE", "READY_FOR_TRANSFER", "FAILED"}

\* rate: d.down.rate is not zero; bad: a message _reported_error calls terminal.
Torrent == [there : BOOLEAN, mode : Modes, hashing : BOOLEAN, bytes : 0..Size, rate : BOOLEAN,
            bad : BOOLEAN, dir : Places, owner : {"none", "job", "other"}, mark : Marks]

Started(t) == t.mode \in {"paused", "active"}
Active(t)  == t.mode = "active"
Open(t)    == t.mode # "closed"

\* Mutant: a payload that is still being checked counts as complete.
IsCompleteUnchecked(t) == t.bytes = Size /\ ~t.rate /\ ~t.bad

IsComplete(t) == t.bytes = Size /\ ~t.rate /\ ~t.hashing /\ ~t.bad

\* Mutant: an equal number of bytes is progress as well.
ProgressWithoutGrowth(previous, current) ==
    \/ current.bytes >= previous.bytes
    \/ current.hashing /\ ~previous.hashing

UsefulProgress(previous, current) ==
    \/ current.bytes > previous.bytes
    \/ current.hashing /\ ~previous.hashing

\* download_snapshot, and the owner as _locate reads it; the mark is not kept.
Snapshot(t) == [t EXCEPT !.mark = "none"]

\* d.erase forgets the torrent and leaves its files.
Erased(t) == [t EXCEPT !.there = FALSE, !.mode = "closed", !.hashing = FALSE,
                       !.rate = FALSE, !.bad = FALSE]

\* What a command may leave behind: rTorrent acts on it, or has not acted on
\* it when _wait_for_rtorrent gives up.
AfterStop(t)   == {t, [t EXCEPT !.mode = IF Open(t) THEN "stopped" ELSE "closed", !.rate = FALSE]}
AfterClose(t)  == {t, [t EXCEPT !.mode = "closed", !.hashing = FALSE, !.rate = FALSE]}
AfterOpen(t)   == {t, [t EXCEPT !.mode = "stopped"]}
AfterStart(t)  == {t, [t EXCEPT !.mode = "active", !.bad = FALSE],
                      [t EXCEPT !.mode = "paused", !.bad = FALSE],
                      [t EXCEPT !.mode = "paused", !.bad = FALSE, !.hashing = TRUE]}
AfterResume(t) == {t} \cup IF t.mode = "paused" /\ ~t.hashing
                           THEN {[t EXCEPT !.mode = "active"]} ELSE {}

-----------------------------------------------------------------------------
(* The state: the seedbox and the controllers *)

VARIABLES
    torrent,   \* the torrent
    data,      \* the place its files are in, "none" while there are none
    jobdir,    \* who made the job directory: "none", "job" or "other"
    probedir,  \* whether the probe's candidate directory exists
    ctl        \* the controllers

seedbox == <<torrent, data, jobdir, probedir>>
vars    == <<torrent, data, jobdir, probedir, ctl>>

Verdicts == {"none", "ready", "offline", "stalled", "collision", "relocation", "failed", "dry_run"}

Pcs == {"off", "locate", "prepare", "handoff", "probe_stop", "weigh", "stop", "close", "rename",
        "redirect", "tag_owner", "tag_state", "starting", "cycle_stop", "cycle_close",
        "cycle_open", "cycle_start", "cycle_resume", "watching", "poll", "completed", "grace",
        "settle", "verify", "policy", "cleanup", "ready", "halt", "mark"}

\* resume, dry: --resume-stalled and --dry-run;
\* seen: the latest snapshot; handoff: the torrent lies in its probe directory;
\* clean: _probe_handoff_cleanup is set; idle: polls since the last progress;
\* wanted: the mark that _stop_and_mark is to leave.
Controller == [pc : Pcs, resume : BOOLEAN, dry : BOOLEAN, seen : Torrent,
               handoff : BOOLEAN, clean : BOOLEAN, cycle : 0..StartupCycles,
               idle : 0..StallPolls, wanted : Marks, verdict : Verdicts]

NoTorrent == [there |-> FALSE, mode |-> "closed", hashing |-> FALSE, bytes |-> 0, rate |-> FALSE,
              bad |-> FALSE, dir |-> "elsewhere", owner |-> "none", mark |-> "none"]

Off == [pc |-> "off", resume |-> FALSE, dry |-> FALSE, seen |-> NoTorrent,
        handoff |-> FALSE, clean |-> FALSE, cycle |-> 0, idle |-> 0, wanted |-> "none",
        verdict |-> "none"]

\* A probe left the torrent in its candidate directory or found it where its
\* owner keeps it; another job may own it, or the name of the job directory.
Init ==
    /\ torrent \in {t \in [there : {TRUE}, mode : Modes, hashing : {FALSE}, bytes : 0..Size,
                           rate : {FALSE}, bad : {FALSE}, dir : {"probe", "elsewhere"},
                           owner : {"none", "other"}, mark : {"none"}] :
                    t.owner = "other" => t.dir = "elsewhere"}
    /\ data \in {"none", torrent.dir} /\ (torrent.bytes > 0 => data # "none")
    /\ jobdir \in {"none", "other"}
    /\ probedir = (torrent.dir = "probe")
    /\ ctl = [c \in Controllers |-> Off]

-----------------------------------------------------------------------------
(* How a controller moves on *)

At(c, place) == ctl[c].pc = place

Go(c, place) == ctl' = [ctl EXCEPT ![c].pc = place]

See(c, t, place) == ctl' = [ctl EXCEPT ![c].pc = place, ![c].seen = Snapshot(t)]

\* The report is printed and the process exits.
Answer(c, verdict) == ctl' = [ctl EXCEPT ![c] = [Off EXCEPT !.verdict = verdict]]

\* _stop_and_mark, then the report.
StopAndMark(c, mark, verdict) ==
    ctl' = [ctl EXCEPT ![c] = [Off EXCEPT !.pc = "halt", !.dry = ctl[c].dry,
                                          !.resume = ctl[c].resume,
                                          !.wanted = mark, !.verdict = verdict]]

\* The torrent becomes t; without the confirmation the startup has failed.
Confirm(c, t, confirmed, place) ==
    /\ torrent' = t
    /\ IF confirmed THEN Go(c, place) ELSE StopAndMark(c, "FAILED", "failed")
    /\ UNCHANGED <<data, jobdir, probedir>>

SetMark(c, mark, place) ==
    /\ torrent.there
    /\ torrent' = [torrent EXCEPT !.mark = mark]
    /\ Go(c, place)
    /\ UNCHANGED <<data, jobdir, probedir>>

-----------------------------------------------------------------------------
(* run: finding the torrent and giving it its directory *)

Begin(c) ==
    /\ At(c, "off")
    /\ \E resume, dry \in BOOLEAN :
          ctl' = [ctl EXCEPT ![c] = [Off EXCEPT !.pc = "locate", !.resume = resume, !.dry = dry]]
    /\ UNCHANGED seedbox

\* Mutant: the mark of an earlier stall is not looked at.
LocateStalled(c) ==
    /\ At(c, "locate")
    /\ \/ /\ ~torrent.there \/ torrent.owner = "other"
          /\ Answer(c, "failed")
       \/ /\ torrent.there /\ torrent.owner # "other"
          /\ See(c, torrent, "prepare")
    /\ UNCHANGED seedbox

Locate(c) ==
    /\ At(c, "locate")
    /\ \/ /\ ~torrent.there \/ torrent.owner = "other"
          /\ Answer(c, "failed")
       \/ /\ torrent.there /\ torrent.owner # "other"
          /\ torrent.mark = "STALLED" /\ ~ctl[c].resume
          /\ Answer(c, "stalled")
       \/ /\ torrent.there /\ torrent.owner # "other"
          /\ torrent.mark = "STALLED" => ctl[c].resume
          /\ See(c, torrent, "prepare")
    /\ UNCHANGED seedbox

\* DownloadDirectoryManager.prepare: an existing directory must be this job's,
\* which the torrent proves by its owner field or by its directory.
PrepareDirectory(c) ==
    /\ At(c, "prepare")
    /\ LET owned == ctl[c].seen.owner = "job" \/ ctl[c].seen.dir = "job"
       IN  \/ /\ jobdir # "none" /\ ~owned
              /\ Answer(c, "collision")
              /\ UNCHANGED jobdir
           \/ /\ jobdir = "none" \/ owned
              /\ jobdir' = IF jobdir = "none" /\ ~ctl[c].dry THEN "job" ELSE jobdir
              /\ Go(c, "handoff")
    /\ UNCHANGED <<torrent, data, probedir>>

\* A torrent already redirected stays as it is; one in the directory of its own
\* probe is handed off, unless an SFTP failure hides that directory.
Handoff(c) ==
    /\ At(c, "handoff")
    /\ LET seen == ctl[c].seen
       IN  \/ seen.dir = "job" /\ ctl[c].dry /\ Answer(c, "dry_run")
           \/ seen.dir = "job" /\ ~ctl[c].dry /\ Go(c, "tag_owner")
           \/ \E found \in {FALSE, seen.dir = "probe" /\ probedir} :
                 /\ seen.dir # "job"
                 /\ ctl' = [ctl EXCEPT ![c].handoff = found,
                                       ![c].pc = IF found /\ Started(seen) THEN "probe_stop"
                                                 ELSE "weigh"]
    /\ UNCHANGED seedbox

\* _prepare_torrent's first stop comes before it looks at dry_run.
StopProbe(c) ==
    /\ At(c, "probe_stop") /\ torrent.there
    /\ \E t \in AfterStop(torrent) :
          /\ torrent' = t
          /\ IF Started(t) THEN StopAndMark(c, "FAILED", "failed") ELSE See(c, t, "weigh")
    /\ UNCHANGED <<data, jobdir, probedir>>

\* Payload bytes in a place that is not the torrent's own probe directory are
\* neither moved nor abandoned.
Weigh(c) ==
    /\ At(c, "weigh")
    /\ LET seen == ctl[c].seen
           bytes == seen.bytes > 0 \/ data = seen.dir
       IN  \/ /\ ~ctl[c].handoff /\ bytes
              /\ Answer(c, "relocation")
           \/ /\ ctl[c].handoff \/ ~bytes
              /\ ctl[c].dry
              /\ Answer(c, IF Active(seen) THEN "failed" ELSE "dry_run")
           \/ /\ ctl[c].handoff \/ ~bytes
              /\ ~ctl[c].dry
              /\ Go(c, IF Started(seen) THEN "stop" ELSE "close")
    /\ UNCHANGED seedbox

Stop(c) ==
    /\ At(c, "stop") /\ torrent.there
    /\ \E t \in AfterStop(torrent) :
          /\ torrent' = t
          /\ IF Started(t) THEN StopAndMark(c, "FAILED", "failed") ELSE See(c, t, "close")
    /\ UNCHANGED <<data, jobdir, probedir>>

\* Mutant: the torrent stays open while its files move.
LeaveOpen(c) ==
    /\ At(c, "close") /\ torrent.there
    /\ Confirm(c, torrent, TRUE, "rename")

Close(c) ==
    /\ At(c, "close") /\ torrent.there
    /\ \/ /\ ctl[c].handoff /\ Open(torrent)
          /\ \E t \in AfterClose(torrent) : Confirm(c, t, ~Open(t), "rename")
       \/ /\ ~(ctl[c].handoff /\ Open(torrent))
          /\ Confirm(c, torrent, TRUE, "rename")

\* The payload of a handoff moves into the job directory, once.
Rename(c) ==
    /\ At(c, "rename")
    /\ \/ /\ ctl[c].handoff /\ data = ctl[c].seen.dir
          /\ data' = "job"
       \/ /\ ~(ctl[c].handoff /\ data = ctl[c].seen.dir)
          /\ UNCHANGED data
    /\ Go(c, "redirect")
    /\ UNCHANGED <<torrent, jobdir, probedir>>

\* d.directory.set, and the snapshot that confirms it or does not.
Redirect(c) ==
    /\ At(c, "redirect") /\ torrent.there
    /\ \/ /\ torrent' = [torrent EXCEPT !.dir = "job"]
          /\ ctl' = [ctl EXCEPT ![c].pc = "tag_owner", ![c].seen = Snapshot(torrent'),
                                ![c].clean = ctl[c].handoff]
       \/ /\ torrent.dir # "job"
          /\ Answer(c, "failed")
          /\ UNCHANGED torrent
    /\ UNCHANGED <<data, jobdir, probedir>>

\* tag_download sets the owner first and the mark after it.
TagOwner(c) ==
    /\ At(c, "tag_owner") /\ torrent.there
    /\ torrent' = [torrent EXCEPT !.owner = "job"]
    /\ Go(c, "tag_state")
    /\ UNCHANGED <<data, jobdir, probedir>>

TagState(c) ==
    /\ At(c, "tag_state")
    /\ SetMark(c, "PENDING",
               IF IsComplete(ctl[c].seen) THEN "completed"
               ELSE IF ctl[c].seen.hashing \/ Active(ctl[c].seen) THEN "watching" ELSE "starting")

-----------------------------------------------------------------------------
(* _start_or_resume *)

Starting(c) ==
    /\ At(c, "starting") /\ torrent.there
    /\ torrent' = [torrent EXCEPT !.mark = "STARTING"]
    /\ ctl' = [ctl EXCEPT ![c].pc = "cycle_stop", ![c].cycle = 1]
    /\ UNCHANGED <<data, jobdir, probedir>>

CycleStop(c) ==
    /\ At(c, "cycle_stop") /\ torrent.there
    /\ \E t \in IF Started(torrent) THEN AfterStop(torrent) ELSE {torrent} :
          Confirm(c, t, ~Started(t), "cycle_close")

CycleClose(c) ==
    /\ At(c, "cycle_close") /\ torrent.there
    /\ \E t \in IF Open(torrent) THEN AfterClose(torrent) ELSE {torrent} :
          Confirm(c, t, ~Open(t), "cycle_open")

CycleOpen(c) ==
    /\ At(c, "cycle_open") /\ torrent.there
    /\ \E t \in AfterOpen(torrent) : Confirm(c, t, Open(t), "cycle_start")

CycleStart(c) ==
    /\ At(c, "cycle_start") /\ torrent.there
    /\ \E t \in AfterStart(torrent) : Confirm(c, t, Started(t), "cycle_resume")

\* Mutant: one cycle too many.
CycleResumeAgain(c) ==
    /\ At(c, "cycle_resume") /\ torrent.there
    /\ \E t \in AfterResume(torrent) :
          /\ torrent' = t
          /\ \/ Active(t) /\ See(c, t, "watching")
             \/ /\ ~Active(t) /\ ctl[c].cycle <= StartupCycles
                /\ ctl' = [ctl EXCEPT ![c].pc = "cycle_stop", ![c].cycle = @ + 1]
             \/ /\ ~Active(t) /\ ctl[c].cycle > StartupCycles
                /\ StopAndMark(c, "FAILED", "failed")
    /\ UNCHANGED <<data, jobdir, probedir>>

\* Up to five attempts to resume end with an active torrent, with the next
\* cycle, or with what a last snapshot says.
CycleResume(c) ==
    /\ At(c, "cycle_resume") /\ torrent.there
    /\ \E t \in AfterResume(torrent) :
          /\ torrent' = t
          /\ \/ /\ Active(t)
                /\ See(c, t, "watching")
             \/ /\ ~Active(t) /\ ctl[c].cycle < StartupCycles
                /\ ctl' = [ctl EXCEPT ![c].pc = "cycle_stop", ![c].cycle = @ + 1]
             \/ /\ ~Active(t) /\ ctl[c].cycle = StartupCycles
                /\ t.hashing \/ IsComplete(t)
                /\ See(c, t, "watching")
             \/ /\ ~Active(t) /\ ctl[c].cycle = StartupCycles
                /\ ~t.hashing /\ ~IsComplete(t)
                /\ StopAndMark(c, "FAILED", "failed")
    /\ UNCHANGED <<data, jobdir, probedir>>

-----------------------------------------------------------------------------
(* _monitor and _complete *)

Watching(c) ==
    /\ At(c, "watching")
    /\ SetMark(c, IF ctl[c].seen.hashing THEN "HASH_CHECKING" ELSE "DOWNLOADING", "poll")

Disappeared(c) ==
    /\ At(c, "poll") \/ At(c, "settle")
    /\ ~torrent.there
    /\ Answer(c, "failed")
    /\ UNCHANGED seedbox

\* A poll notes a running hash check before it looks at anything else.
NoteHashCheck == torrent' = IF torrent.hashing THEN [torrent EXCEPT !.mark = "HASH_CHECKING"]
                            ELSE torrent

\* One round of the loop.  Completion is looked at before the two timers.
Poll(c) ==
    /\ At(c, "poll") /\ torrent.there
    /\ LET idle == IF UsefulProgress(ctl[c].seen, torrent) THEN 0 ELSE ctl[c].idle
       IN  \/ /\ torrent.bad
              /\ StopAndMark(c, "FAILED", "failed")
              /\ UNCHANGED torrent
           \/ /\ ~torrent.bad /\ IsComplete(torrent)
              /\ See(c, torrent, "completed")
              /\ UNCHANGED torrent
           \/ /\ ~torrent.bad /\ ~IsComplete(torrent) /\ idle = StallPolls
              /\ StopAndMark(c, "STALLED", "stalled")
              /\ NoteHashCheck
           \/ /\ ~torrent.bad /\ ~IsComplete(torrent) /\ idle < StallPolls
              /\ ctl' = [ctl EXCEPT ![c].seen = Snapshot(torrent), ![c].idle = idle + 1]
              /\ NoteHashCheck
    /\ UNCHANGED <<data, jobdir, probedir>>

\* The overall deadline has passed when the poll looks at it.
TimeOut(c) ==
    /\ OverallTimeout
    /\ At(c, "poll") /\ torrent.there
    /\ ~torrent.bad /\ ~IsComplete(torrent)
    /\ NoteHashCheck
    /\ StopAndMark(c, "FAILED", "failed")
    /\ UNCHANGED <<data, jobdir, probedir>>

Completed(c) == At(c, "completed") /\ SetMark(c, "COMPLETED", "grace")

Grace(c) == At(c, "grace") /\ SetMark(c, "POST_PROCESSING_GRACE", "settle")

\* The grace period is shorter than the poll interval: it takes one snapshot.
Settle(c) ==
    /\ At(c, "settle") /\ torrent.there
    /\ See(c, torrent, "verify")
    /\ UNCHANGED seedbox

\* validate_final_path: the payload is where the torrent says, in an allowed root.
Verify(c) ==
    /\ At(c, "verify")
    /\ LET seen == ctl[c].seen
           valid == seen.dir \in Allowed /\ data = seen.dir
       IN  \/ ~IsComplete(seen) /\ Answer(c, "failed")
           \/ IsComplete(seen) /\ ~valid /\ StopAndMark(c, "FAILED", "failed")
           \/ IsComplete(seen) /\ valid /\ Go(c, "policy")
    /\ UNCHANGED seedbox

\* The policy, stop or leave_running, is the operator's setting.
PostCompletion(c) ==
    /\ At(c, "policy") /\ torrent.there
    /\ \/ torrent' \in AfterStop(torrent)
       \/ torrent' \in IF Active(ctl[c].seen) THEN {torrent} ELSE AfterStart(torrent)
    /\ Go(c, "cleanup")
    /\ UNCHANGED <<data, jobdir, probedir>>

\* Best effort: what an SFTP failure leaves becomes a warning.
CleanupProbe(c) ==
    /\ At(c, "cleanup")
    /\ \/ /\ ctl[c].clean
          /\ probedir' = FALSE
          /\ data' = IF data = "probe" THEN "none" ELSE data
       \/ UNCHANGED <<data, probedir>>
    /\ Go(c, "ready")
    /\ UNCHANGED <<torrent, jobdir>>

Ready(c) ==
    /\ At(c, "ready") /\ torrent.there
    /\ torrent' = [torrent EXCEPT !.mark = "READY_FOR_TRANSFER"]
    /\ Answer(c, "ready")
    /\ UNCHANGED <<data, jobdir, probedir>>

-----------------------------------------------------------------------------
(* Failures *)

\* _stop_and_mark stops, marks, and swallows whatever rTorrent answers.
Halt(c) ==
    /\ At(c, "halt") /\ torrent.there
    /\ torrent' \in AfterStop(torrent)
    /\ Go(c, "mark")
    /\ UNCHANGED <<data, jobdir, probedir>>

Mark(c) ==
    /\ At(c, "mark") /\ torrent.there
    /\ torrent' = [torrent EXCEPT !.mark = ctl[c].wanted]
    /\ Answer(c, ctl[c].verdict)
    /\ UNCHANGED <<data, jobdir, probedir>>

HaltFails(c) ==
    /\ At(c, "halt") \/ At(c, "mark")
    /\ Answer(c, ctl[c].verdict)
    /\ UNCHANGED seedbox

\* Any other command meets an unreachable gateway, a fault or a dead SFTP
\* session: exit code 4, and nothing is stopped or marked.
Offline(c) ==
    /\ ctl[c].pc \notin {"off", "halt", "mark"}
    /\ Answer(c, "offline")
    /\ UNCHANGED seedbox

\* The seedbox refuses an operation on a path.
StorageFails(c) ==
    /\ ctl[c].pc \in {"prepare", "weigh", "rename", "verify"}
    /\ Answer(c, "failed")
    /\ UNCHANGED seedbox

Crash(c) ==
    /\ ~At(c, "off")
    /\ ctl' = [ctl EXCEPT ![c] = Off]
    /\ UNCHANGED seedbox

-----------------------------------------------------------------------------
(* The seedbox by itself *)

\* A piece arrives; the last one may start a hash check.
Receive ==
    /\ torrent.there /\ Active(torrent) /\ ~torrent.hashing /\ ~torrent.bad
    /\ torrent.bytes < Size
    /\ data \in {"none", torrent.dir}
    /\ \E check \in {FALSE, torrent.bytes + 1 = Size} :
          torrent' = [torrent EXCEPT !.bytes = @ + 1, !.rate = TRUE, !.hashing = check]
    /\ data' = torrent.dir
    /\ UNCHANGED <<jobdir, probedir, ctl>>

RateDrops ==
    /\ torrent.rate
    /\ torrent' = [torrent EXCEPT !.rate = FALSE]
    /\ UNCHANGED <<data, jobdir, probedir, ctl>>

\* A hash check finds every piece or fewer, none where the files are not; a
\* started torrent is active after it.
EndHash ==
    /\ torrent.there /\ torrent.hashing
    /\ \E bytes \in 0..torrent.bytes :
          /\ bytes > 0 => data = torrent.dir
          /\ torrent' = [torrent EXCEPT !.hashing = FALSE, !.bytes = bytes,
                                        !.mode = IF Started(torrent) THEN "active" ELSE @]
    /\ UNCHANGED <<data, jobdir, probedir, ctl>>

ReportError ==
    /\ torrent.there /\ ~torrent.bad /\ (Started(torrent) \/ torrent.hashing)
    /\ torrent' = [torrent EXCEPT !.bad = TRUE]
    /\ UNCHANGED <<data, jobdir, probedir, ctl>>

\* Its owner erases the torrent.
Erase ==
    /\ torrent.there
    /\ torrent' = Erased(torrent)
    /\ UNCHANGED <<data, jobdir, probedir, ctl>>

\* The event.download.finished hook moves the payload of a finished download
\* and tells rTorrent so.  Assumption: it is done before the grace period is.
Hook ==
    /\ torrent.there /\ torrent.bytes = Size /\ ~torrent.hashing
    /\ torrent.dir = "job" /\ data = "job" /\ torrent.mark # "READY_FOR_TRANSFER"
    /\ \A c \in Controllers : ctl[c].pc \notin {"verify", "policy", "cleanup", "ready"}
    /\ \E place \in {"library", "elsewhere"} :
          /\ torrent' = [torrent EXCEPT !.dir = place]
          /\ data' = place
    /\ UNCHANGED <<jobdir, probedir, ctl>>

-----------------------------------------------------------------------------

Setup(c) == \/ Locate(c) \/ PrepareDirectory(c) \/ Handoff(c) \/ StopProbe(c) \/ Weigh(c)
            \/ Stop(c) \/ Close(c) \/ Rename(c) \/ Redirect(c) \/ TagOwner(c) \/ TagState(c)

Startup(c) == \/ Starting(c) \/ CycleStop(c) \/ CycleClose(c) \/ CycleOpen(c)
              \/ CycleStart(c) \/ CycleResume(c)

Finish(c) == \/ Completed(c) \/ Grace(c) \/ Settle(c) \/ Verify(c) \/ PostCompletion(c)
             \/ CleanupProbe(c) \/ Ready(c)

Work(c) == \/ Setup(c) \/ Startup(c) \/ Watching(c) \/ Disappeared(c) \/ Poll(c)
           \/ Finish(c) \/ Halt(c) \/ Mark(c)

Failure(c) == TimeOut(c) \/ HaltFails(c) \/ Offline(c) \/ StorageFails(c) \/ Crash(c)

Environment == Receive \/ RateDrops \/ EndHash \/ ReportError \/ Erase \/ Hook

Next == \/ \E c \in Controllers : Begin(c) \/ Work(c) \/ Failure(c)
        \/ Environment

Spec == Init /\ [][Next]_vars

\* A controller that runs takes its next step, every request having a timeout,
\* and a command to a torrent that is gone is answered with a fault.  No other
\* failure ever has to happen.
Fairness ==
    \A c \in Controllers :
        /\ WF_vars(Work(c))
        /\ WF_vars(~torrent.there /\ (Offline(c) \/ HaltFails(c)))

FairSpec == Spec /\ Fairness

-----------------------------------------------------------------------------
(* Properties *)

TypeOK ==
    /\ torrent \in Torrent
    /\ data \in Places \cup {"none"}
    /\ jobdir \in {"none", "job", "other"}
    /\ probedir \in BOOLEAN
    /\ ctl \in [Controllers -> Controller]

\* While the files of a handed-off torrent are in the job directory already and
\* the torrent is not redirected yet, it stays closed, whatever dies in between:
\* an open torrent would miss its pieces and fetch them again.
HandoffKeepsFiles ==
    torrent.there /\ Open(torrent) /\ torrent.bytes > 0 /\ data = "job" => torrent.dir = "job"

\* What is reported ready is whole and lies in an approved place, from its
\* verification on and for as long as the torrent carries the mark.
ReadyIsVerified ==
    (\E c \in Controllers : ctl[c].pc \in {"policy", "cleanup", "ready"})
        \/ (torrent.there /\ torrent.mark = "READY_FOR_TRANSFER")
    => /\ data \in Allowed
       /\ torrent.there => data = torrent.dir
       /\ torrent.there /\ ~Started(torrent) => torrent.bytes = Size

ActsOnTorrent(c) == ctl'[c] # ctl[c] /\ torrent' # torrent

\* A controller touches no torrent of another job, and one marked stalled only
\* with its operator's permission.
Consent ==
    [][\A c \in Controllers : ActsOnTorrent(c) =>
          /\ torrent.owner # "other"
          /\ torrent.mark = "STALLED" => ctl[c].resume]_vars

HashChecksCease == <>[][~(torrent'.hashing /\ ~torrent.hashing)]_vars

\* Every invocation ends: by completion, by an error, or by the stall timer.
EveryDownloadEnds ==
    HashChecksCease => \A c \in Controllers : ~At(c, "off") ~> At(c, "off")

\* The README: "a stopped incomplete item is revalidated and resumed", whatever
\* moment the run before was interrupted at.
OwnDirectoryAccepted ==
    \A c \in Controllers : ctl[c].verdict = "collision" => jobdir # "job"

\* The README: data outside the permanent directory stops the command, and only
\* "an empty probe location is redirected".
OnlyEmptyIsRedirected ==
    torrent.there /\ torrent.bytes > 0 /\ torrent.dir = "job" => data # "elsewhere"
=============================================================================
