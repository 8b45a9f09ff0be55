---------------------------- MODULE TorrentProbe ----------------------------
(***************************************************************************)
(* The health probe of media_scope/probe_service.py.  A job tries its      *)
(* candidates in order: it looks whether rTorrent knows the torrent,       *)
(* submits it when not, waits for its metadata, and keeps the first that   *)
(* delivers it, stopped; what it submitted in vain it erases.              *)
(*                                                                         *)
(* rTorrent answers a command or does not, and an unanswered one may have  *)
(* been carried out, or be carried out later.  A job may die anywhere;     *)
(* the next one has a fresh id and meets what is left.                     *)
(***************************************************************************)
EXTENDS Sequences, FiniteSets, Integers

CONSTANTS
    Hashes,       \* the torrents a search may find
    Preflight,    \* the known-good torrent
    Jobs,         \* how many probe jobs are run
    MaxFailures   \* status requests that may fail in a row, 3 in the code

ASSUME ProbeAssumption == Jobs \in Nat /\ MaxFailures \in Nat \ {0}

Torrents == Hashes \cup {Preflight}

\* run: stopped, started but not active, or active;
\* by: the job that submitted it, 0 for the torrents of others.
Entry  == [meta : BOOLEAN, run : {"stopped", "paused", "active"}, by : 0..Jobs]
Absent == [meta |-> FALSE, run |-> "stopped", by |-> -1]

VARIABLES
    known,      \* rTorrent's torrents: an Entry, or Absent
    inflight,   \* submissions not carried out yet, as <<job, hash>>
    pdirs,      \* the candidate directories, as <<job, hash>>
    jobdirs,    \* the jobs whose directory exists
    prober      \* the process

probeVars == <<known, inflight, pdirs, jobdirs, prober>>
remoteVars == <<known, inflight, pdirs, jobdirs>>

There(h) == known[h] # Absent

ProberPcs == {"off", "job", "look", "mkdir", "submit", "confirm", "tag", "activate", "wait", "stop",
              "stopped", "mark", "look_again", "clean_look", "clean_stop", "clean_erase",
              "clean_check", "clean_dir", "next", "end"}

\* What the first look at the target said.
Looks == {"none", "absent", "present", "unanswered"}

\* preflight: it works on the preflight torrent, before queue[1];
\* created, dir: the torrent, the directory are its own;
\* healthy: its metadata was retrieved and it may be kept;
\* dirty: a step of a cleanup failed;
\* exit: the exit code, 9 while there is none.
\* The last three only remember, for the properties: submissions and erasures whose
\* effect the job could not see, candidates that failed and were kept on request, and
\* that the target came after the look at it.
Prober == [pc : ProberPcs, job : 0..Jobs, queue : Seq(Hashes), preflight : BOOLEAN,
           keep : BOOLEAN, look : Looks, created : BOOLEAN, dir : BOOLEAN, healthy : BOOLEAN,
           failures : 0..MaxFailures, dirty : BOOLEAN, exit : 0..9,
           selected : SUBSET Hashes, lost : SUBSET Torrents, kept : SUBSET Hashes,
           arrived : BOOLEAN]

NewJob(job) == [pc |-> "off", job |-> job, queue |-> << >>, preflight |-> FALSE, keep |-> FALSE,
                look |-> "none", created |-> FALSE, dir |-> FALSE, healthy |-> FALSE,
                failures |-> 0, dirty |-> FALSE, exit |-> 9,
                selected |-> {}, lost |-> {}, kept |-> {}, arrived |-> FALSE]

\* The torrent at work.
Target == IF prober.preflight THEN Preflight ELSE Head(prober.queue)

\* The prober as it turns to its next torrent.
Turned(p) == [p EXCEPT !.pc = "look", !.look = "none", !.created = FALSE, !.dir = FALSE,
                       !.healthy = FALSE, !.failures = 0, !.arrived = FALSE]

ProberAt(place) == prober.pc = place

Move(place) == prober' = [prober EXCEPT !.pc = place]

\* The torrents of others are added as the job turns to them (UserAdds).
ProbeInit ==
    /\ known = [h \in Torrents |-> Absent]
    /\ inflight = {} /\ pdirs = {} /\ jobdirs = {}
    /\ prober = NewJob(0)

-----------------------------------------------------------------------------
(* run: the job, its preflight and its candidates *)

\* The preflight may be skipped, or not be configured; keep: --keep-failed-probes.
BeginProbe(queue, preflight, keep) ==
    /\ ProberAt("off") /\ prober.job < Jobs
    /\ prober' = [NewJob(prober.job + 1) EXCEPT !.pc = "job", !.queue = queue,
                                                !.preflight = preflight, !.keep = keep]
    /\ UNCHANGED remoteVars

\* Discovery and prepare_job.
PrepareJob ==
    /\ ProberAt("job")
    /\ jobdirs' = jobdirs \cup {prober.job}
    /\ prober' = Turned(prober)
    /\ UNCHANGED <<known, inflight, pdirs>>

\* The last torrent is done; the job has only its directory and its report left.
Over(p, exit) == [NewJob(p.job) EXCEPT !.pc = "end", !.exit = exit, !.kept = p.kept,
                                       !.dirty = p.dirty, !.lost = p.lost,
                                       !.selected = IF exit = 0 THEN {Target} ELSE {}]

\* cleanup_empty_job, then the exit code.
EndProbe ==
    /\ ProberAt("end")
    /\ LET empty == \A h \in Torrents : <<prober.job, h>> \notin pdirs
       IN  jobdirs' = IF empty THEN jobdirs \ {prober.job} ELSE jobdirs
    /\ prober' = [prober EXCEPT !.pc = "off", !.exit = IF prober.dirty THEN 7 ELSE @]
    /\ UNCHANGED <<known, inflight, pdirs>>

\* After the preflight the candidates, unless it failed; after a candidate the
\* next, unless it is healthy.
NextTorrent ==
    /\ ProberAt("next")
    /\ \/ /\ prober.preflight /\ ~prober.healthy
          /\ prober' = Over(prober, 5)
       \/ /\ prober.preflight /\ prober.healthy
          /\ prober' = [Turned(prober) EXCEPT !.preflight = FALSE]
       \/ /\ ~prober.preflight /\ prober.healthy
          /\ prober' = Over(prober, 0)
       \/ /\ ~prober.preflight /\ ~prober.healthy /\ Len(prober.queue) = 1
          /\ prober' = Over(prober, 6)
       \/ /\ ~prober.preflight /\ ~prober.healthy /\ Len(prober.queue) > 1
          /\ prober' = [Turned(prober) EXCEPT !.queue = Tail(@)]
    /\ UNCHANGED remoteVars

-----------------------------------------------------------------------------
(* _probe_candidate and _run_preflight, up to the metadata *)

\* _finish_failure, and the finally of the preflight: what is its own is cleaned
\* up, except with --keep-failed-probes.
Finish(p) ==
    IF p.created /\ (p.preflight \/ ~p.keep) THEN [p EXCEPT !.pc = "clean_look"]
    ELSE [p EXCEPT !.pc = "next", !.kept = IF p.created THEN @ \cup {Target} ELSE @]

Look ==
    /\ ProberAt("look")
    /\ prober' = IF There(Target) THEN [prober EXCEPT !.pc = "wait", !.look = "present"]
                 ELSE [prober EXCEPT !.pc = "mkdir", !.look = "absent"]
    /\ UNCHANGED remoteVars

\* prepare_candidate refuses a directory that exists.
MakeProbeDirectory ==
    /\ ProberAt("mkdir") /\ <<prober.job, Target>> \notin pdirs
    /\ pdirs' = pdirs \cup {<<prober.job, Target>>}
    /\ prober' = [prober EXCEPT !.pc = "submit", !.dir = TRUE]
    /\ UNCHANGED <<known, inflight, jobdirs>>

Loaded(h, job, run) == [known EXCEPT ![h] = [meta |-> FALSE, run |-> run, by |-> job]]

\* The torrent is loaded at once or later; one that is there already stays.
SubmitMagnet ==
    /\ ProberAt("submit")
    /\ \/ There(Target) /\ UNCHANGED <<known, inflight>>
       \/ /\ ~There(Target)
          /\ \E run \in {"paused", "active"} : known' = Loaded(Target, prober.job, run)
          /\ UNCHANGED inflight
       \/ /\ ~There(Target)
          /\ inflight' = inflight \cup {<<prober.job, Target>>}
          /\ UNCHANGED known
    /\ \/ prober' = [prober EXCEPT !.pc = "confirm", !.created = TRUE]
       \/ Move("look_again")
    /\ UNCHANGED <<pdirs, jobdirs>>

\* Looked for until it is there or ten seconds are over.
ConfirmSubmission ==
    /\ ProberAt("confirm")
    /\ prober' = IF There(Target) THEN [prober EXCEPT !.pc = "tag"] ELSE Finish(prober)
    /\ UNCHANGED remoteVars

\* The ownership fields are not read by the probe.
TagProbe ==
    /\ ProberAt("tag") /\ There(Target)
    /\ Move("activate")
    /\ UNCHANGED remoteVars

ConfirmActivation ==
    /\ ProberAt("activate") /\ There(Target)
    /\ \/ /\ known[Target].meta \/ known[Target].run = "active"
          /\ Move("wait")
       \/ ~known[Target].meta /\ known[Target].run # "active"
          /\ prober' = Finish(prober)
    /\ UNCHANGED remoteVars

\* Mutant: one failure too many is waited for.
AwaitOnePollMore ==
    /\ ProberAt("wait")
    /\ prober' = IF There(Target) /\ prober.failures <= MaxFailures
                 THEN [prober EXCEPT !.failures = @ + 1] ELSE Finish(prober)
    /\ UNCHANGED remoteVars

\* A poll: a status that is not answered counts, an answered one counts no more.
AwaitMetadata ==
    /\ ProberAt("wait")
    /\ \/ /\ ~There(Target)
          /\ prober' = Finish(prober)
       \/ /\ There(Target) /\ prober.failures + 1 < MaxFailures
          /\ prober' = [prober EXCEPT !.failures = @ + 1]
       \/ /\ There(Target) /\ prober.failures + 1 = MaxFailures
          /\ prober' = Finish(prober)
       \/ /\ There(Target) /\ ~known[Target].meta
          /\ prober' = [prober EXCEPT !.failures = 0]
       \/ /\ There(Target) /\ known[Target].meta
          /\ prober' = IF prober.preflight \/ ~prober.created
                       THEN Finish([prober EXCEPT !.healthy = TRUE])
                       ELSE [prober EXCEPT !.pc = "stop"]
    /\ UNCHANGED remoteVars

\* Mutant: the deadline is looked at only after a status that was not answered.
MetadataTimeoutOnFailure ==
    /\ ProberAt("wait") /\ prober.failures > 0
    /\ prober' = Finish(prober)
    /\ UNCHANGED remoteVars

\* The deadline has passed when a poll without metadata, or without an answer,
\* looks at it.
MetadataTimeout ==
    /\ ProberAt("wait")
    /\ prober' = Finish(prober)
    /\ UNCHANGED remoteVars

-----------------------------------------------------------------------------
(* The torrent that is kept *)

\* A torrent that is active may be so for a while after the command.
AfterProbeStop(e) == {[e EXCEPT !.run = "stopped"]} \cup IF e.run = "active" THEN {e} ELSE {}

StopSelected ==
    /\ ProberAt("stop") /\ There(Target)
    /\ \E e \in AfterProbeStop(known[Target]) : known' = [known EXCEPT ![Target] = e]
    /\ Move("stopped")
    /\ UNCHANGED <<inflight, pdirs, jobdirs>>

\* Mutant: the stop is taken for granted.
TrustStop ==
    /\ ProberAt("stopped")
    /\ Move("mark")
    /\ UNCHANGED remoteVars

ConfirmStopped ==
    /\ ProberAt("stopped")
    /\ prober' = IF There(Target) /\ known[Target].run # "active"
                 THEN [prober EXCEPT !.pc = "mark"] ELSE Finish(prober)
    /\ UNCHANGED remoteVars

\* A submission of its own that is still under way; it may load the torrent later.
Unseen == IF <<prober.job, Target>> \in inflight THEN {Target} ELSE {}

\* set_probe_state: the candidate is selected.
MarkValidated ==
    /\ ProberAt("mark") /\ There(Target)
    /\ prober' = [prober EXCEPT !.pc = "next", !.healthy = TRUE, !.lost = @ \cup Unseen]
    /\ UNCHANGED remoteVars

-----------------------------------------------------------------------------
(* Commands that are not answered *)

\* Mutant: whoever the candidate is known to belong to, it is looked for again.
ProbeRaisesAgain ==
    /\ \/ prober.pc \in {"mkdir", "confirm", "tag", "activate", "wait", "stop", "stopped", "mark"}
       \/ ProberAt("look") /\ ~prober.preflight
    /\ prober' = IF ~prober.created THEN [prober EXCEPT !.pc = "look_again"] ELSE Finish(prober)
    /\ UNCHANGED remoteVars

\* A fault, a timeout or a dead SFTP session.  What is known to be its own is
\* cleaned up; a candidate that is not known to be anyone's is looked for again.
ProbeRaises ==
    /\ \/ prober.pc \in {"mkdir", "confirm", "tag", "activate", "wait", "stop", "stopped", "mark"}
       \/ ProberAt("look") /\ ~prober.preflight
    /\ LET looked == IF ProberAt("look") THEN "unanswered" ELSE prober.look
           asks == ~prober.preflight /\ ~prober.created /\ looked # "present"
       IN  prober' = IF asks THEN [prober EXCEPT !.pc = "look_again", !.look = looked]
                     ELSE Finish(prober)
    /\ pdirs' \in {pdirs} \cup IF ProberAt("mkdir") THEN {pdirs \cup {<<prober.job, Target>>}} ELSE {}
    /\ UNCHANGED <<known, inflight, jobdirs>>

\* A command that is not answered may have been carried out.
StopIsLost ==
    /\ ProberAt("stop") /\ There(Target)
    /\ known' = [known EXCEPT ![Target].run = "stopped"]
    /\ prober' = Finish(prober)
    /\ UNCHANGED <<inflight, pdirs, jobdirs>>

\* Mutant: what is there now is not asked for.
LookAgainNever ==
    /\ ProberAt("look_again")
    /\ prober' = Finish(prober)
    /\ UNCHANGED remoteVars

\* What is there now is taken for its own.
LookAgain ==
    /\ ProberAt("look_again")
    /\ \/ prober' = IF There(Target) THEN Finish([prober EXCEPT !.created = TRUE])
                    ELSE Finish([prober EXCEPT !.lost = @ \cup {Target}])
       \/ prober' = Finish([prober EXCEPT !.lost = @ \cup {Target}])
    /\ UNCHANGED remoteVars

\* Requests before the first torrent, and the last one, are answered with exit 4.
ProbeAborts ==
    /\ \/ prober.pc \in {"job", "end"}
       \/ ProberAt("look") /\ prober.preflight
    /\ jobdirs' \in {jobdirs} \cup IF ProberAt("job") THEN {jobdirs \cup {prober.job}} ELSE {}
    /\ prober' = [prober EXCEPT !.pc = "off", !.exit = 4, !.queue = << >>, !.preflight = FALSE]
    /\ UNCHANGED <<known, inflight, pdirs>>

ProbeCrash ==
    /\ ~ProberAt("off")
    /\ prober' = NewJob(prober.job)
    /\ UNCHANGED remoteVars

-----------------------------------------------------------------------------
(* _cleanup_owned, and the shorter cleanup of the preflight *)

\* A candidate's cleanup notes the error and goes on, a preflight's is over.
CleanupFails(place) ==
    prober' = IF prober.preflight THEN [prober EXCEPT !.pc = "next", !.dirty = TRUE]
              ELSE [prober EXCEPT !.pc = place, !.dirty = TRUE]

CleanLook ==
    /\ ProberAt("clean_look")
    /\ \/ There(Target) /\ Move("clean_stop")
       \/ /\ ~There(Target)
          /\ prober' = [prober EXCEPT !.pc = IF prober.preflight THEN "clean_dir" ELSE "clean_check",
                                      !.lost = @ \cup Unseen]
       \/ CleanupFails("clean_dir")
    /\ UNCHANGED remoteVars

CleanStop ==
    /\ ProberAt("clean_stop")
    /\ \/ /\ There(Target)
          /\ \E e \in AfterProbeStop(known[Target]) : known' = [known EXCEPT ![Target] = e]
          /\ (Move("clean_erase") \/ CleanupFails("clean_erase"))
       \/ CleanupFails("clean_erase") /\ UNCHANGED known
    /\ UNCHANGED <<inflight, pdirs, jobdirs>>

\* Only a candidate is looked for after its erase.
CleanErase ==
    /\ ProberAt("clean_erase")
    /\ \/ /\ There(Target)
          /\ known' = [known EXCEPT ![Target] = Absent]
          /\ \/ prober.preflight /\ prober' = [prober EXCEPT !.pc = "clean_dir", !.lost = @ \cup Unseen]
             \/ ~prober.preflight /\ Move("clean_check")
             \/ CleanupFails("clean_dir")
       \/ /\ There(Target)
          /\ prober' = IF prober.preflight
                       THEN [prober EXCEPT !.pc = "clean_dir", !.lost = @ \cup {Target}]
                       ELSE [prober EXCEPT !.pc = "clean_check"]
          /\ UNCHANGED known
       \/ CleanupFails("clean_dir") /\ UNCHANGED known
    /\ UNCHANGED <<inflight, pdirs, jobdirs>>

CleanCheck ==
    /\ ProberAt("clean_check")
    /\ \/ There(Target) /\ CleanupFails("clean_dir")
       \/ /\ ~There(Target)
          /\ prober' = [prober EXCEPT !.pc = "clean_dir", !.lost = @ \cup Unseen]
       \/ CleanupFails("clean_dir")
    /\ UNCHANGED remoteVars

CleanDirectory ==
    /\ ProberAt("clean_dir")
    /\ \E removed \in {prober.dir, FALSE} :
          /\ pdirs' = IF removed THEN pdirs \ {<<prober.job, Target>>} ELSE pdirs
          /\ prober' = [prober EXCEPT !.pc = "next", !.dirty = @ \/ (prober.dir /\ ~removed)]
    /\ UNCHANGED <<known, inflight, jobdirs>>

-----------------------------------------------------------------------------
(* rTorrent and its other users *)

\* What becomes of a torrent is told apart while it is the target: one that is
\* loaded, added or erased before is so when the job turns to it.
AtWork(h) == prober.pc \notin {"off", "job", "end"} /\ h = Target

Arrives == prober' = [prober EXCEPT !.arrived = prober.look # "none"]

\* A submission is carried out; the torrent may be there by then.
Land ==
    \E s \in inflight :
        /\ AtWork(s[2])
        /\ inflight' = inflight \ {s}
        /\ \/ There(s[2]) /\ UNCHANGED <<known, prober>>
           \/ /\ ~There(s[2])
              /\ \E run \in {"paused", "active"} : known' = Loaded(s[2], s[1], run)
              /\ Arrives
        /\ UNCHANGED <<pdirs, jobdirs>>

\* A started torrent becomes active, and an active one gets its metadata.
TorrentRuns ==
    \E h \in Torrents :
        /\ AtWork(h) /\ There(h)
        /\ \/ known[h].run = "paused" /\ known' = [known EXCEPT ![h].run = "active"]
           \/ known[h].run = "active" /\ ~known[h].meta /\ known' = [known EXCEPT ![h].meta = TRUE]
        /\ UNCHANGED <<inflight, pdirs, jobdirs, prober>>

\* A submission that is under way finds it there and comes to nothing.
UserAdds ==
    \E h \in Torrents :
        /\ AtWork(h) /\ ~There(h) /\ ~prober.arrived
        /\ known' = Loaded(h, 0, "active")
        /\ inflight' = {s \in inflight : s[2] # h}
        /\ Arrives
        /\ UNCHANGED <<pdirs, jobdirs>>

\* No one erases a torrent while a submission of it is under way.
UserErases ==
    \E h \in Torrents :
        /\ AtWork(h) /\ There(h) /\ \A s \in inflight : s[2] # h
        /\ known' = [known EXCEPT ![h] = Absent]
        /\ UNCHANGED <<inflight, pdirs, jobdirs, prober>>

-----------------------------------------------------------------------------

ProbeWork == \/ PrepareJob \/ EndProbe \/ NextTorrent \/ Look \/ MakeProbeDirectory \/ SubmitMagnet
             \/ ConfirmSubmission \/ TagProbe \/ ConfirmActivation \/ AwaitMetadata \/ StopSelected
             \/ ConfirmStopped \/ MarkValidated \/ LookAgain \/ CleanLook \/ CleanStop
             \/ CleanErase \/ CleanCheck \/ CleanDirectory

ProbeFailure == ProbeRaises \/ StopIsLost \/ ProbeAborts \/ ProbeCrash

ProbeEnvironment == Land \/ TorrentRuns \/ UserAdds \/ UserErases

ProbeStep == ProbeWork \/ MetadataTimeout \/ ProbeFailure \/ ProbeEnvironment

\* A command to a torrent, or for a directory, that is not as it should be.
ProbeFaults == /\ ProbeRaises
               /\ IF ProberAt("mkdir") THEN <<prober.job, Target>> \in pdirs ELSE ~There(Target)

-----------------------------------------------------------------------------
(* Properties *)

ProbeTypeOK ==
    /\ known \in [Torrents -> Entry \cup {Absent}]
    /\ inflight \subseteq (1..Jobs) \X Torrents
    /\ pdirs \subseteq (1..Jobs) \X Torrents
    /\ jobdirs \subseteq 1..Jobs
    /\ prober \in Prober

\* A step of the job that stops or erases a torrent somebody else submitted.
TouchesForeign(h) == /\ prober'.pc # prober.pc
                     /\ There(h) /\ known'[h] # known[h] /\ known[h].by # prober.job

\* A torrent that was there when the job looked is neither stopped nor erased,
\* whatever fails afterwards: only one whose look was not answered, or one that
\* came after the look, can be mistaken for the job's own.
ForeignUntouched ==
    [][\A h \in Torrents : TouchesForeign(h) => prober.arrived \/ prober.look = "unanswered"]_probeVars

\* The README: "Preexisting torrents and their files are never stopped, retagged,
\* redirected, or erased."
PreexistingUntouched ==
    [][\A h \in Torrents : TouchesForeign(h) => prober.arrived]_probeVars

\* The report of a job tells of all it leaves in rTorrent: of the candidate it selected,
\* of those --keep-failed-probes kept, and by exit code 7 of what a cleanup left.  The
\* exceptions are what rTorrent did not show the job, and a job without a report, which
\* died or ended with exit code 4 (CleanupFailureIsTold).
OwnAreAccounted ==
    ProberAt("off") /\ prober.exit \notin {4, 9} =>
        \A h \in Torrents :
            known[h].by = prober.job \/ <<prober.job, h>> \in inflight =>
                \/ prober.exit = 7
                \/ prober.exit = 0 /\ h \in prober.selected
                \/ h \in prober.lost \cup prober.kept

\* The README: "Cleanup failure: exit code 7 requires operator attention."  The job's
\* last request, cleanup_empty_job, comes between the cleanup that failed and the code.
CleanupFailureIsTold ==
    ProberAt("off") /\ prober.exit # 9 /\ prober.dirty => prober.exit = 7

\* The torrent of its own a successful job hands on has its metadata, is stopped, and
\* its directory is there for the download to find, also when the search listed it
\* twice; unless a submission that was carried out late takes its place, or
\* --keep-failed-probes kept it from an earlier try: then it is taken for another's.
SelectedIsHeld ==
    ProberAt("off") /\ prober.exit = 0 =>
        \A h \in prober.selected \ (prober.lost \cup prober.kept) :
            known[h].by = prober.job =>
                known[h].meta /\ known[h].run = "stopped" /\ <<prober.job, h>> \in pdirs

\* Every job ends.
EveryProbeEnds == ~ProberAt("off") ~> ProberAt("off")
=============================================================================
