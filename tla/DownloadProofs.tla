---------------------------- MODULE DownloadProofs ----------------------------
(***************************************************************************)
(* What the download keeps, for every payload and every timeout.  Its      *)
(* types hold for any number of controllers; the rest for one: the flow    *)
(* starts no second one while it holds its lock, and two would undo each   *)
(* other's work.                                                           *)
(***************************************************************************)
EXTENDS TorrentDownload, TLAPS

OneController == \E c : Controllers = {c}

-----------------------------------------------------------------------------
(* What a controller knows of the torrent at each of its places *)

\* The places before a controller has made or recognised its job's directory,
\* and those of a failure.
Outside == {"off", "locate", "prepare", "halt", "mark"}

\* The places a rerun of a finished download can be at before it tags it anew.
Revisiting == {"off", "locate", "prepare", "handoff", "weigh", "tag_owner", "tag_state"}

\* The controller acts for the owner, and on a stall by the operator's word.
ConsentInv(c) ==
    /\ ctl[c].pc \notin {"off", "locate"} =>
          /\ torrent.owner # "other"
          /\ torrent.mark = "STALLED" => ctl[c].resume
    /\ ctl[c].pc \in {"halt", "mark"} => ctl[c].wanted \in {"FAILED", "STALLED"}

\* The files have moved and the torrent does not know yet.
Ahead == data = "job" /\ torrent.dir # "job"

\* The job directory is this job's as soon as anything is in it, or in the
\* torrent's fields; a run that finds files ahead of their torrent ends there.
HandoffInv(c) ==
    /\ data = "job" \/ torrent.dir = "job" \/ torrent.owner = "job" => jobdir = "job"
    /\ torrent.owner = "job" => torrent.dir # "probe"
    /\ Ahead => /\ torrent.mode = "closed" /\ torrent.owner # "job"
                /\ ctl[c].pc \in {"off", "locate", "prepare", "redirect"}
    /\ ctl[c].pc = "prepare" /\ Ahead => ctl[c].seen.dir # "job" /\ ctl[c].seen.owner # "job"
    /\ ctl[c].pc \in {"prepare", "handoff"} =>
          /\ ctl[c].seen.owner = "job" \/ ctl[c].seen.dir = "job" => jobdir = "job"
          /\ ctl[c].seen.dir = "probe" => torrent.dir = "probe"
          /\ ctl[c].seen.dir = "job" => torrent.dir # "probe"
    /\ ctl[c].pc \notin Outside => ctl[c].dry \/ jobdir = "job"
    /\ ctl[c].pc \notin Outside \cup {"handoff", "probe_stop", "weigh"} => ~ctl[c].dry
    /\ ctl[c].pc \in {"probe_stop", "weigh", "stop", "close", "rename"} /\ ctl[c].handoff =>
          torrent.dir = "probe"
    /\ ctl[c].pc = "rename" /\ ctl[c].handoff => torrent.mode = "closed"
    /\ ctl[c].pc = "tag_owner" => torrent.dir # "probe"

\* Whole, where the torrent says, in an approved place; or running, and so
\* about to be whole again.
Delivered == /\ data \in Allowed /\ data = torrent.dir
             /\ Started(torrent) \/ (torrent.bytes = Size /\ ~torrent.hashing)

ReadyInv(c) ==
    /\ ctl[c].pc \in {"policy", "cleanup", "ready"} =>
          data \in Allowed /\ (torrent.there => Delivered)
    /\ torrent.there /\ ctl[c].pc = "policy" => torrent.bytes = Size /\ ~torrent.hashing
    /\ torrent.there /\ ctl[c].pc = "verify" =>
          /\ torrent.dir = ctl[c].seen.dir
          /\ IsComplete(ctl[c].seen) => torrent.bytes = Size /\ ~torrent.hashing
    /\ torrent.there /\ torrent.mark = "READY_FOR_TRANSFER" =>
          /\ Delivered
          /\ ctl[c].pc \in Revisiting
          /\ ctl[c].pc \in {"prepare", "handoff", "weigh"} => ctl[c].seen.dir = torrent.dir
          /\ ctl[c].pc = "weigh" => ~ctl[c].handoff

ControllerInv(c) ==
    ConsentInv(c) /\ (torrent.there => HandoffInv(c)) /\ ReadyInv(c)

DownloadInv == TypeOK /\ \A c \in Controllers : ControllerInv(c)

-----------------------------------------------------------------------------
(* Types *)

\* What no command to rTorrent changes: d.stop, d.close, d.open, d.start.
Kept(t, u) == /\ u.there = t.there /\ u.bytes = t.bytes /\ u.dir = t.dir
              /\ u.owner = t.owner /\ u.mark = t.mark

\* A snapshot and an erased torrent are torrents.
LEMMA CopyTypes ==
    ASSUME NEW t \in Torrent
    PROVE  /\ Snapshot(t) \in Torrent
           /\ Erased(t) \in Torrent
    BY DEF Torrent, Modes, Marks, Snapshot, Erased

\* What a command leaves behind is the same torrent in another mode; only a
\* start may begin a hash check, and only an open or a start opens it.
LEMMA StopEffect ==
    ASSUME NEW t \in Torrent, NEW u \in AfterStop(t)
    PROVE  /\ u \in Torrent /\ Kept(t, u) /\ u.hashing = t.hashing
           /\ t.mode = "closed" => u.mode = "closed"
           /\ Started(u) => u = t
    <1>1. CASE u = t
        BY <1>1 DEF Kept
    <1>2. CASE u = [t EXCEPT !.mode = IF Open(t) THEN "stopped" ELSE "closed", !.rate = FALSE]
        BY <1>2 DEF Torrent, Modes, Open, Started, Kept
    <1>3. QED
        BY <1>1, <1>2 DEF AfterStop

LEMMA CloseEffect ==
    ASSUME NEW t \in Torrent, NEW u \in AfterClose(t)
    PROVE  /\ u \in Torrent /\ Kept(t, u)
           /\ t.mode = "closed" => u.mode = "closed"
           /\ u = t \/ (u.mode = "closed" /\ ~u.hashing)
    <1>1. CASE u = t
        BY <1>1 DEF Kept
    <1>2. CASE u = [t EXCEPT !.mode = "closed", !.hashing = FALSE, !.rate = FALSE]
        BY <1>2 DEF Torrent, Modes, Kept
    <1>3. QED
        BY <1>1, <1>2 DEF AfterClose

LEMMA OpenEffect ==
    ASSUME NEW t \in Torrent, NEW u \in AfterOpen(t)
    PROVE  u \in Torrent /\ Kept(t, u)
    <1>1. CASE u = t
        BY <1>1 DEF Kept
    <1>2. CASE u = [t EXCEPT !.mode = "stopped"]
        BY <1>2 DEF Torrent, Modes, Kept
    <1>3. QED
        BY <1>1, <1>2 DEF AfterOpen

LEMMA StartEffect ==
    ASSUME NEW t \in Torrent, NEW u \in AfterStart(t)
    PROVE  /\ u \in Torrent /\ Kept(t, u)
           /\ Started(u) \/ u = t
    <1>1. CASE u = t
        BY <1>1 DEF Kept
    <1>2. CASE u = [t EXCEPT !.mode = "active", !.bad = FALSE]
        BY <1>2 DEF Torrent, Modes, Kept, Started
    <1>3. CASE u = [t EXCEPT !.mode = "paused", !.bad = FALSE]
        BY <1>3 DEF Torrent, Modes, Kept, Started
    <1>4. CASE u = [t EXCEPT !.mode = "paused", !.bad = FALSE, !.hashing = TRUE]
        BY <1>4 DEF Torrent, Modes, Kept, Started
    <1>5. QED
        BY <1>1, <1>2, <1>3, <1>4 DEF AfterStart

LEMMA ResumeEffect ==
    ASSUME NEW t \in Torrent, NEW u \in AfterResume(t)
    PROVE  u \in Torrent /\ Kept(t, u)
    <1>1. CASE u = t
        BY <1>1 DEF Kept
    <1>2. CASE u = [t EXCEPT !.mode = "active"]
        BY <1>2 DEF Torrent, Modes, Kept
    <1>3. QED
        BY <1>1, <1>2 DEF AfterResume

LEMMA Sizes == Size \in Nat \ {0} /\ StallPolls \in Nat \ {0} /\ StartupCycles \in Nat \ {0}
    BY SizesAssumption

\* Nothing is known of a process before it runs.
LEMMA OffType == NoTorrent \in Torrent /\ Off \in Controller
    BY Sizes DEF NoTorrent, Off, Torrent, Controller, Modes, Marks, Places, Pcs, Verdicts

\* How a controller moves on, field by field.
LEMMA GoEffect ==
    ASSUME NEW c \in Controllers, ctl \in [Controllers -> Controller], NEW place \in Pcs,
           Go(c, place)
    PROVE  /\ ctl' \in [Controllers -> Controller]
           /\ ctl'[c].pc = place
           /\ ctl'[c].resume = ctl[c].resume /\ ctl'[c].dry = ctl[c].dry
           /\ ctl'[c].seen = ctl[c].seen /\ ctl'[c].handoff = ctl[c].handoff
           /\ ctl'[c].wanted = ctl[c].wanted
    BY DEF Go, Controller

LEMMA SeeEffect ==
    ASSUME NEW c \in Controllers, ctl \in [Controllers -> Controller], NEW place \in Pcs,
           NEW t \in Torrent, See(c, t, place)
    PROVE  /\ ctl' \in [Controllers -> Controller]
           /\ ctl'[c].pc = place
           /\ ctl'[c].resume = ctl[c].resume /\ ctl'[c].dry = ctl[c].dry
           /\ ctl'[c].seen = Snapshot(t) /\ ctl'[c].handoff = ctl[c].handoff
           /\ ctl'[c].wanted = ctl[c].wanted
    <1>1. Snapshot(t) \in Torrent
        BY CopyTypes
    <1>2. QED
        BY ZenonT(40), <1>1 DEF See, Controller

LEMMA AnswerEffect ==
    ASSUME NEW c \in Controllers, ctl \in [Controllers -> Controller], NEW verdict \in Verdicts,
           Answer(c, verdict)
    PROVE  /\ ctl' \in [Controllers -> Controller]
           /\ ctl'[c].pc = "off"
    BY OffType DEF Answer, Controller, Off

LEMMA HaltEffect ==
    ASSUME NEW c \in Controllers, ctl \in [Controllers -> Controller],
           NEW mark \in {"FAILED", "STALLED"}, NEW verdict \in Verdicts,
           StopAndMark(c, mark, verdict)
    PROVE  /\ ctl' \in [Controllers -> Controller]
           /\ ctl'[c].pc = "halt" /\ ctl'[c].resume = ctl[c].resume
           /\ ctl'[c].wanted = mark
    <1> DEFINE k == [Off EXCEPT !.pc = "halt", !.dry = ctl[c].dry, !.resume = ctl[c].resume,
                               !.wanted = mark, !.verdict = verdict]
    <1>1. ctl[c].dry \in BOOLEAN /\ ctl[c].resume \in BOOLEAN
        BY DEF Controller
    <1>2. k \in Controller /\ k.pc = "halt" /\ k.resume = ctl[c].resume /\ k.wanted = mark
        BY ZenonT(40), <1>1, OffType DEF Controller, Pcs, Marks, Off
    <1>3. ctl' = [ctl EXCEPT ![c] = k]
        BY DEF StopAndMark
    <1> HIDE DEF k
    <1>4. QED
        BY <1>2, <1>3

\* rTorrent's answer to a command is confirmed, or the controller halts.
LEMMA ConfirmEffect ==
    ASSUME NEW c \in Controllers, TypeOK, NEW t \in Torrent, NEW confirmed \in BOOLEAN,
           NEW place \in Pcs, Confirm(c, t, confirmed, place)
    PROVE  TypeOK'
    <1>1. CASE confirmed
        BY <1>1, GoEffect DEF Confirm, TypeOK
    <1>2. CASE ~confirmed
        BY <1>2, HaltEffect DEF Confirm, TypeOK, Verdicts
    <1>3. QED
        BY <1>1, <1>2

LEMMA MarkEffect ==
    ASSUME NEW c \in Controllers, TypeOK, NEW mark \in Marks, NEW place \in Pcs,
           SetMark(c, mark, place)
    PROVE  TypeOK'
    <1>1. torrent' \in Torrent
        BY DEF SetMark, TypeOK, Torrent
    <1>2. QED
        BY <1>1, GoEffect DEF SetMark, TypeOK

LEMMA BeginType ==
    ASSUME NEW c \in Controllers, TypeOK, Begin(c)
    PROVE  TypeOK'
    <1>1. PICK resume \in BOOLEAN, dry \in BOOLEAN :
             ctl' = [ctl EXCEPT ![c] = [Off EXCEPT !.pc = "locate", !.resume = resume, !.dry = dry]]
        BY DEF Begin
    <1>2. [Off EXCEPT !.pc = "locate", !.resume = resume, !.dry = dry] \in Controller
        BY OffType DEF Controller, Pcs
    <1>3. QED
        BY <1>1, <1>2 DEF Begin, TypeOK, seedbox

\* A torrent that is not redirected yet, handed off or not.
LEMMA FoundEffect ==
    ASSUME NEW c \in Controllers, TypeOK, Handoff(c), ctl[c].seen.dir # "job"
    PROVE  /\ TypeOK'
           /\ UNCHANGED seedbox
           /\ ctl'[c].pc \in {"probe_stop", "weigh"}
           /\ ctl'[c].handoff => ctl[c].seen.dir = "probe"
           /\ ctl'[c].resume = ctl[c].resume /\ ctl'[c].dry = ctl[c].dry
           /\ ctl'[c].seen = ctl[c].seen
           /\ ctl'[c].pc = "probe_stop" => ctl'[c].handoff
    <1>1. PICK found \in {FALSE, ctl[c].seen.dir = "probe" /\ probedir} :
             ctl' = [ctl EXCEPT ![c].handoff = found,
                                ![c].pc = IF found /\ Started(ctl[c].seen) THEN "probe_stop"
                                          ELSE "weigh"]
        BY DEF Handoff
    <1>2. PICK place \in {"probe_stop", "weigh"} :
             /\ ctl' = [ctl EXCEPT ![c].handoff = found, ![c].pc = place]
             /\ place = "probe_stop" => found
        BY <1>1
    <1>3. /\ found \in BOOLEAN /\ (found => ctl[c].seen.dir = "probe")
          /\ place \in Pcs /\ ctl[c] \in Controller
        BY <1>2 DEF TypeOK, Pcs
    <1> DEFINE k == [ctl[c] EXCEPT !.handoff = found, !.pc = place]
    <1>4. ctl' = [ctl EXCEPT ![c] = k]
        BY <1>2 DEF TypeOK
    <1>5. /\ k \in Controller /\ k.pc = place /\ k.handoff = found
          /\ k.resume = ctl[c].resume /\ k.dry = ctl[c].dry /\ k.seen = ctl[c].seen
        BY <1>3 DEF Controller
    <1> HIDE DEF k
    <1>6. ctl'[c] = k /\ ctl' \in [Controllers -> Controller]
        BY <1>4, <1>5 DEF TypeOK
    <1>7. QED
        BY <1>2, <1>3, <1>5, <1>6 DEF Handoff, TypeOK, seedbox

LEMMA SetupType ==
    ASSUME NEW c \in Controllers, TypeOK, Setup(c)
    PROVE  TypeOK'
    <1> USE DEF TypeOK, seedbox
    <1>1. CASE Locate(c)
        BY <1>1, SeeEffect, AnswerEffect DEF Locate, Pcs, Verdicts
    <1>2. CASE PrepareDirectory(c)
        BY <1>2, GoEffect, AnswerEffect DEF PrepareDirectory, Pcs, Verdicts
    <1>3. CASE Handoff(c)
        <2>1. CASE ctl[c].seen.dir = "job"
            BY <1>3, <2>1, GoEffect, AnswerEffect DEF Handoff, Pcs, Verdicts
        <2>2. CASE ctl[c].seen.dir # "job"
            BY <1>3, <2>2, FoundEffect
        <2>3. QED
            BY <2>1, <2>2
    <1>4. CASE StopProbe(c)
        BY <1>4, StopEffect, SeeEffect, HaltEffect DEF StopProbe, Pcs, Verdicts
    <1>5. CASE Weigh(c)
        BY <1>5, GoEffect, AnswerEffect DEF Weigh, Pcs, Verdicts
    <1>6. CASE Stop(c)
        BY <1>6, StopEffect, SeeEffect, HaltEffect DEF Stop, Pcs, Verdicts
    <1>7. CASE Close(c)
        BY <1>7, CloseEffect, ConfirmEffect DEF Close, Pcs
    <1>8. CASE Rename(c)
        BY <1>8, GoEffect DEF Rename, Pcs, Places
    <1>9. CASE Redirect(c)
        <2>1. torrent' \in Torrent
            BY <1>9 DEF Redirect, Torrent, Places
        <2>2. Snapshot(torrent') \in Torrent
            BY <2>1, CopyTypes
        <2>3. QED
            BY <1>9, <2>1, <2>2, AnswerEffect DEF Redirect, Controller, Pcs, Verdicts
    <1>10. CASE TagOwner(c)
        <2>1. torrent' \in Torrent
            BY <1>10 DEF TagOwner, Torrent
        <2>2. QED
            BY <1>10, <2>1, GoEffect DEF TagOwner, Pcs
    <1>11. CASE TagState(c)
        BY <1>11, MarkEffect DEF TagState, Pcs, Marks
    <1>12. QED
        BY <1>1, <1>2, <1>3, <1>4, <1>5, <1>6, <1>7, <1>8, <1>9, <1>10, <1>11 DEF Setup

\* The startup's counter of cycles.
LEMMA StartingEffect ==
    ASSUME NEW c \in Controllers, ctl \in [Controllers -> Controller],
           NEW n \in 0..StartupCycles,
           ctl' = [ctl EXCEPT ![c].pc = "cycle_stop", ![c].cycle = n]
    PROVE  /\ ctl' \in [Controllers -> Controller]
           /\ ctl'[c].pc = "cycle_stop"
           /\ ctl'[c].resume = ctl[c].resume /\ ctl'[c].dry = ctl[c].dry
    <1> DEFINE k == [ctl[c] EXCEPT !.pc = "cycle_stop", !.cycle = n]
    <1>1. ctl' = [ctl EXCEPT ![c] = k]
        OBVIOUS
    <1>2. ctl[c] \in Controller /\ "cycle_stop" \in Pcs
        BY DEF Pcs
    <1>3. k \in Controller /\ k.pc = "cycle_stop" /\ k.resume = ctl[c].resume /\ k.dry = ctl[c].dry
        BY <1>2 DEF Controller
    <1> HIDE DEF k
    <1>4. QED
        BY <1>1, <1>3

LEMMA StartupType ==
    ASSUME NEW c \in Controllers, TypeOK, Startup(c)
    PROVE  TypeOK'
    <1>1. CASE Starting(c)
        <2>1. torrent' \in Torrent
            BY <1>1 DEF Starting, TypeOK, Torrent, Marks
        <2>2. QED
            <3>1. 1 \in 0..StartupCycles
                BY Sizes
            <3>2. ctl' \in [Controllers -> Controller]
                BY <1>1, <3>1, StartingEffect DEF Starting, TypeOK
            <3>3. QED
                BY <1>1, <2>1, <3>2 DEF Starting, TypeOK
    <1>2. CASE CycleStop(c)
        BY <1>2, StopEffect, ConfirmEffect DEF CycleStop, TypeOK, Pcs
    <1>3. CASE CycleClose(c)
        BY <1>3, CloseEffect, ConfirmEffect DEF CycleClose, TypeOK, Pcs
    <1>4. CASE CycleOpen(c)
        BY <1>4, OpenEffect, ConfirmEffect DEF CycleOpen, TypeOK, Pcs, Open
    <1>5. CASE CycleStart(c)
        <2>1. PICK t \in AfterStart(torrent) : Confirm(c, t, Started(t), "cycle_resume")
            BY <1>5 DEF CycleStart
        <2>2. t \in Torrent
            BY <2>1, StartEffect DEF TypeOK
        <2>3. Started(t) \in BOOLEAN /\ "cycle_resume" \in Pcs
            BY DEF Started, Pcs
        <2>4. QED
            BY <2>1, <2>2, <2>3, ConfirmEffect
    <1>6. CASE CycleResume(c)
        <2>1. PICK t \in AfterResume(torrent) :
                 /\ torrent' = t
                 /\ \/ See(c, t, "watching")
                    \/ /\ ctl[c].cycle < StartupCycles
                       /\ ctl' = [ctl EXCEPT ![c].pc = "cycle_stop", ![c].cycle = @ + 1]
                    \/ StopAndMark(c, "FAILED", "failed")
            BY <1>6 DEF CycleResume
        <2>2. torrent' \in Torrent
            BY <2>1, ResumeEffect DEF TypeOK
        <2>3. ASSUME ctl[c].cycle < StartupCycles,
                     ctl' = [ctl EXCEPT ![c].pc = "cycle_stop", ![c].cycle = @ + 1]
              PROVE  ctl' \in [Controllers -> Controller]
            <3>1. ctl[c].cycle + 1 \in 0..StartupCycles
                BY <2>3, Sizes DEF TypeOK, Controller
            <3>2. ctl' = [ctl EXCEPT ![c].pc = "cycle_stop", ![c].cycle = ctl[c].cycle + 1]
                BY <2>3 DEF TypeOK
            <3>3. QED
                BY <3>1, <3>2, StartingEffect DEF TypeOK
        <2>4. ctl' \in [Controllers -> Controller]
            BY <2>1, <2>2, <2>3, SeeEffect, HaltEffect DEF TypeOK, Pcs, Verdicts
        <2>5. QED
            BY <1>6, <2>2, <2>4 DEF CycleResume, TypeOK
    <1>7. QED
        BY <1>1, <1>2, <1>3, <1>4, <1>5, <1>6 DEF Startup

\* A poll that notes a hash check changes the mark and nothing else.
LEMMA NoteEffect ==
    ASSUME torrent \in Torrent, NoteHashCheck
    PROVE  /\ torrent' \in Torrent
           /\ torrent'.there = torrent.there /\ torrent'.bytes = torrent.bytes
           /\ torrent'.dir = torrent.dir /\ torrent'.owner = torrent.owner
           /\ torrent'.mode = torrent.mode /\ torrent'.hashing = torrent.hashing
           /\ torrent'.mark \in {torrent.mark, "HASH_CHECKING"}
    BY DEF NoteHashCheck, Torrent, Marks

LEMMA PollType ==
    ASSUME NEW c \in Controllers, TypeOK, Poll(c)
    PROVE  TypeOK'
    <1> DEFINE idle == IF UsefulProgress(ctl[c].seen, torrent) THEN 0 ELSE ctl[c].idle
    <1>1. idle \in 0..StallPolls
        BY Sizes DEF TypeOK, Controller
    <1>2. \/ StopAndMark(c, "FAILED", "failed") /\ UNCHANGED torrent
          \/ See(c, torrent, "completed") /\ UNCHANGED torrent
          \/ StopAndMark(c, "STALLED", "stalled") /\ NoteHashCheck
          \/ /\ idle < StallPolls
             /\ ctl' = [ctl EXCEPT ![c].seen = Snapshot(torrent), ![c].idle = idle + 1]
             /\ NoteHashCheck
        BY DEF Poll
    <1> HIDE DEF idle
    <1>3. torrent' \in Torrent
        BY <1>2, NoteEffect DEF TypeOK
    <1>4. ASSUME idle < StallPolls,
                 ctl' = [ctl EXCEPT ![c].seen = Snapshot(torrent), ![c].idle = idle + 1]
          PROVE  ctl' \in [Controllers -> Controller]
        <2>1. Snapshot(torrent) \in Torrent /\ idle + 1 \in 0..StallPolls
            BY <1>1, <1>4, CopyTypes, Sizes DEF TypeOK
        <2>2. ctl[c] \in Controller
            BY DEF TypeOK
        <2>3. [ctl[c] EXCEPT !.seen = Snapshot(torrent), !.idle = idle + 1] \in Controller
            BY <2>1, <2>2 DEF Controller
        <2>4. QED
            BY <1>4, <2>3 DEF TypeOK
    <1>5. ctl' \in [Controllers -> Controller]
        BY <1>2, <1>4, SeeEffect, HaltEffect DEF TypeOK, Pcs, Verdicts
    <1>6. QED
        BY <1>3, <1>5 DEF Poll, TypeOK

LEMMA FinishType ==
    ASSUME NEW c \in Controllers, TypeOK, Finish(c)
    PROVE  TypeOK'
    <1>1. CASE Completed(c) \/ Grace(c)
        BY <1>1, MarkEffect DEF Completed, Grace, Pcs, Marks
    <1>2. CASE Settle(c)
        BY <1>2, SeeEffect DEF Settle, TypeOK, seedbox, Pcs
    <1>3. CASE Verify(c)
        BY <1>3, GoEffect, AnswerEffect, HaltEffect DEF Verify, TypeOK, seedbox, Pcs, Verdicts
    <1>4. CASE PostCompletion(c)
        <2>1. torrent' \in Torrent
            BY <1>4, StopEffect, StartEffect DEF PostCompletion, TypeOK
        <2>2. QED
            BY <1>4, <2>1, GoEffect DEF PostCompletion, TypeOK, Pcs
    <1>5. CASE CleanupProbe(c)
        BY <1>5, GoEffect DEF CleanupProbe, TypeOK, Pcs, Places
    <1>6. CASE Ready(c)
        <2>1. torrent' \in Torrent
            BY <1>6 DEF Ready, TypeOK, Torrent, Marks
        <2>2. QED
            BY <1>6, <2>1, AnswerEffect DEF Ready, TypeOK, Verdicts
    <1>7. QED
        BY <1>1, <1>2, <1>3, <1>4, <1>5, <1>6 DEF Finish

LEMMA WorkType ==
    ASSUME NEW c \in Controllers, TypeOK, Work(c)
    PROVE  TypeOK'
    <1>1. CASE Watching(c)
        BY <1>1, MarkEffect DEF Watching, Pcs, Marks
    <1>2. CASE Disappeared(c)
        BY <1>2, AnswerEffect DEF Disappeared, TypeOK, seedbox, Verdicts
    <1>3. CASE Halt(c)
        BY <1>3, StopEffect, GoEffect DEF Halt, TypeOK, Pcs
    <1>4. CASE Mark(c)
        <2>1. ctl[c].wanted \in Marks /\ ctl[c].verdict \in Verdicts
            BY DEF TypeOK, Controller
        <2>2. torrent' \in Torrent
            BY <1>4, <2>1 DEF Mark, TypeOK, Torrent
        <2>3. QED
            BY <1>4, <2>1, <2>2, AnswerEffect DEF Mark, TypeOK
    <1>5. QED
        BY <1>1, <1>2, <1>3, <1>4, SetupType, StartupType, PollType, FinishType DEF Work

LEMMA FailureType ==
    ASSUME NEW c \in Controllers, TypeOK, Failure(c)
    PROVE  TypeOK'
    <1>1. CASE TimeOut(c)
        BY <1>1, NoteEffect, HaltEffect DEF TimeOut, TypeOK, Verdicts
    <1>2. CASE HaltFails(c)
        <2>1. ctl[c].verdict \in Verdicts
            BY DEF TypeOK, Controller
        <2>2. QED
            BY <1>2, <2>1, AnswerEffect DEF HaltFails, TypeOK, seedbox
    <1>3. CASE Offline(c) \/ StorageFails(c)
        BY <1>3, AnswerEffect DEF Offline, StorageFails, TypeOK, seedbox, Verdicts
    <1>4. CASE Crash(c)
        BY <1>4, OffType DEF Crash, TypeOK, seedbox
    <1>5. QED
        BY <1>1, <1>2, <1>3, <1>4 DEF Failure

\* What the seedbox does by itself, field by field: files arrive where the
\* torrent points, and its directory changes with them, when they have moved.
LEMMA EnvironmentEffect ==
    ASSUME TypeOK, Environment
    PROVE  /\ TypeOK'
           /\ UNCHANGED <<jobdir, probedir, ctl>>
           /\ torrent'.there => torrent.there
           /\ torrent'.owner = torrent.owner /\ torrent'.mark = torrent.mark
           /\ torrent.mode = "closed" => torrent'.mode = "closed"
           /\ Started(torrent) /\ torrent'.there => Started(torrent')
    <1>1. CASE Receive
        <2>1. torrent' \in Torrent
            <3>1. torrent.bytes + 1 \in 0..Size
                BY <1>1, Sizes DEF Receive, TypeOK, Torrent
            <3>2. QED
                BY <1>1, <3>1 DEF Receive, TypeOK, Torrent
        <2>2. QED
            BY <1>1, <2>1 DEF Receive, TypeOK, Torrent, Started
    <1>2. CASE RateDrops \/ ReportError
        BY <1>2 DEF RateDrops, ReportError, TypeOK, Torrent, Started
    <1>3. CASE EndHash
        <2>1. PICK bytes \in 0..torrent.bytes :
                 torrent' = [torrent EXCEPT !.hashing = FALSE, !.bytes = bytes,
                                            !.mode = IF Started(torrent) THEN "active" ELSE @]
            BY <1>3 DEF EndHash
        <2>2. bytes \in 0..Size
            BY Sizes DEF TypeOK, Torrent
        <2>3. QED
            BY <1>3, <2>1, <2>2 DEF EndHash, TypeOK, Torrent, Modes, Started
    <1>4. CASE Erase
        BY <1>4, CopyTypes DEF Erase, TypeOK, Torrent, Erased
    <1>5. CASE Hook
        <2>1. PICK place \in {"library", "elsewhere"} :
                 torrent' = [torrent EXCEPT !.dir = place] /\ data' = place
            BY <1>5 DEF Hook
        <2>2. QED
            BY <1>5, <2>1 DEF Hook, TypeOK, Torrent, Places, Started
    <1>6. QED
        BY <1>1, <1>2, <1>3, <1>4, <1>5 DEF Environment

LEMMA InitType == Init => TypeOK
    <1> SUFFICES ASSUME Init PROVE TypeOK
        OBVIOUS
    <1>1. torrent \in Torrent
        BY DEF Init, Torrent, Places, Marks
    <1>2. data \in Places \cup {"none"}
        BY <1>1 DEF Init, Torrent
    <1>3. ctl \in [Controllers -> Controller]
        BY OffType DEF Init
    <1>4. QED
        BY <1>1, <1>2, <1>3 DEF Init, TypeOK

\* The step of any controller, or of the seedbox, keeps the types.
LEMMA StepType == TypeOK /\ [Next]_vars => TypeOK'
    <1> SUFFICES ASSUME TypeOK, [Next]_vars PROVE TypeOK'
        OBVIOUS
    <1>1. CASE UNCHANGED vars
        BY <1>1 DEF vars, TypeOK
    <1>2. ASSUME NEW c \in Controllers, Begin(c) \/ Work(c) \/ Failure(c)
          PROVE  TypeOK'
        BY <1>2, BeginType, WorkType, FailureType
    <1>3. CASE Environment
        BY <1>3, EnvironmentEffect
    <1>4. QED
        BY <1>1, <1>2, <1>3 DEF Next

-----------------------------------------------------------------------------
(* What a controller never does *)

\* It never brings back a torrent that is gone, makes up bytes, or gives the
\* torrent to anybody but its job.
LEMMA ControllerLeaves ==
    ASSUME NEW c \in Controllers, TypeOK, Begin(c) \/ Work(c) \/ Failure(c)
    PROVE  /\ torrent'.there = torrent.there /\ torrent'.bytes = torrent.bytes
           /\ torrent'.owner \in {torrent.owner, "job"}
    <1> DEFINE Goal == /\ torrent'.there = torrent.there /\ torrent'.bytes = torrent.bytes
                       /\ torrent'.owner \in {torrent.owner, "job"}
    <1>1. CASE \/ Begin(c) \/ Locate(c) \/ PrepareDirectory(c) \/ Handoff(c) \/ Weigh(c) \/ Rename(c)
               \/ Disappeared(c) \/ Settle(c) \/ Verify(c) \/ CleanupProbe(c)
               \/ HaltFails(c) \/ Offline(c) \/ StorageFails(c) \/ Crash(c)
        <2>1. UNCHANGED torrent
            BY <1>1 DEF Begin, Locate, PrepareDirectory, Handoff, Weigh, Rename, Disappeared, Settle,
                        Verify, CleanupProbe, HaltFails, Offline, StorageFails, Crash, seedbox
        <2>2. QED
            BY <2>1
    <1>2. CASE StopProbe(c) \/ Stop(c) \/ Halt(c)
        BY <1>2, StopEffect DEF StopProbe, Stop, Halt, TypeOK, Kept
    <1>3. CASE Close(c)
        BY ZenonT(40), <1>3, CloseEffect DEF Close, Confirm, TypeOK, Kept
    <1>4. CASE \/ Redirect(c) \/ TagOwner(c) \/ TagState(c) \/ Starting(c) \/ Watching(c)
               \/ Completed(c) \/ Grace(c) \/ Ready(c) \/ Mark(c)
        BY <1>4 DEF Redirect, TagOwner, TagState, Starting, Watching, Completed, Grace, Ready, Mark,
                    SetMark, TypeOK, Torrent
    <1>5. CASE Poll(c) \/ TimeOut(c)
        BY <1>5, NoteEffect DEF Poll, TimeOut, TypeOK
    <1>6. CASE CycleStop(c) \/ CycleClose(c) \/ CycleOpen(c) \/ CycleStart(c) \/ CycleResume(c)
        <2>1. \/ torrent' = torrent
              \/ torrent' \in AfterStop(torrent) \/ torrent' \in AfterClose(torrent)
              \/ torrent' \in AfterOpen(torrent) \/ torrent' \in AfterStart(torrent)
              \/ torrent' \in AfterResume(torrent)
            BY <1>6 DEF CycleStop, CycleClose, CycleOpen, CycleStart, CycleResume, Confirm
        <2>2. QED
            BY <2>1, StopEffect, CloseEffect, OpenEffect, StartEffect, ResumeEffect DEF TypeOK, Kept
    <1>7. CASE PostCompletion(c)
        <2>1. \/ torrent' = torrent
              \/ torrent' \in AfterStop(torrent) \/ torrent' \in AfterStart(torrent)
            BY <1>7 DEF PostCompletion
        <2>2. QED
            BY <2>1, StopEffect, StartEffect DEF TypeOK, Kept
    <1>8. QED
        BY <1>1, <1>2, <1>3, <1>4, <1>5, <1>6, <1>7 DEF Work, Setup, Startup, Finish, Failure

-----------------------------------------------------------------------------
(* One controller keeps what it knows *)

\* A snapshot keeps all but the mark.
LEMMA SnapshotEffect ==
    ASSUME NEW t \in Torrent
    PROVE  /\ Snapshot(t).dir = t.dir /\ Snapshot(t).owner = t.owner
           /\ Snapshot(t).bytes = t.bytes /\ Snapshot(t).hashing = t.hashing
           /\ Snapshot(t).mode = t.mode
           /\ IsComplete(Snapshot(t)) <=> IsComplete(t)
    BY DEF Snapshot, Torrent, IsComplete

\* A controller that is off, or begins, knows nothing.
LEMMA RestKeeps ==
    ASSUME NEW c \in Controllers, ControllerInv(c), UNCHANGED <<torrent, data, jobdir>>,
           ctl'[c].pc \in {"off", "locate"}
    PROVE  ControllerInv(c)'
    <1>1. ConsentInv(c)'
        BY DEF ConsentInv
    <1>2. ASSUME torrent.there PROVE HandoffInv(c)'
        BY <1>2 DEF ControllerInv, HandoffInv, Ahead, Outside
    <1>3. ReadyInv(c)'
        BY DEF ControllerInv, ReadyInv, Delivered, Revisiting, Started
    <1>4. QED
        BY <1>1, <1>2, <1>3 DEF ControllerInv

LEMMA AnswerKeeps ==
    ASSUME NEW c \in Controllers, TypeOK, ControllerInv(c), NEW verdict \in Verdicts,
           Answer(c, verdict), UNCHANGED <<torrent, data, jobdir>>
    PROVE  ControllerInv(c)'
    BY AnswerEffect, RestKeeps DEF TypeOK

\* What a step that leaves the payload and its directory alone leaves alone.
SamePayload ==
    /\ UNCHANGED <<data, jobdir>>
    /\ torrent'.there = torrent.there /\ torrent'.bytes = torrent.bytes
    /\ torrent'.dir = torrent.dir /\ torrent'.owner = torrent.owner

LEMMA KeptPayload ==
    ASSUME Kept(torrent, torrent'), UNCHANGED <<data, jobdir>>
    PROVE  SamePayload /\ torrent'.mark = torrent.mark
    BY DEF Kept, SamePayload

\* The places of the startup and of the watch, and the marks left there.
Busy == {"starting", "cycle_stop", "cycle_close", "cycle_open", "cycle_start", "cycle_resume",
         "watching", "poll", "completed", "grace", "settle"}

BusyMarks == {"STARTING", "HASH_CHECKING", "DOWNLOADING", "COMPLETED", "POST_PROCESSING_GRACE"}

LEMMA BusyKeeps ==
    ASSUME NEW c \in Controllers, ControllerInv(c), ctl[c].pc \in Busy, SamePayload,
           torrent'.mark \in {torrent.mark} \cup BusyMarks,
           ctl'[c].pc \in Busy, ctl'[c].resume = ctl[c].resume, ctl'[c].dry = ctl[c].dry
    PROVE  ControllerInv(c)'
    <1>1. ConsentInv(c)'
        BY DEF ControllerInv, ConsentInv, Busy, BusyMarks, SamePayload
    <1>2. ASSUME torrent.there PROVE HandoffInv(c)'
        BY <1>2 DEF ControllerInv, HandoffInv, Ahead, Outside, Busy, SamePayload
    <1>3. ReadyInv(c)'
        BY DEF ControllerInv, ReadyInv, Revisiting, Busy, BusyMarks, SamePayload
    <1>4. QED
        BY <1>1, <1>2, <1>3 DEF ControllerInv, SamePayload

\* Where a controller can come to halt from.
Halting == {"probe_stop", "stop", "close", "verify"} \cup Busy

LEMMA HaltKeeps ==
    ASSUME NEW c \in Controllers, TypeOK, ControllerInv(c), ctl[c].pc \in Halting, SamePayload,
           torrent'.mark \in {torrent.mark} \cup BusyMarks,
           NEW mark \in {"FAILED", "STALLED"}, NEW verdict \in Verdicts,
           StopAndMark(c, mark, verdict)
    PROVE  ControllerInv(c)'
    <1>0. /\ ctl'[c].pc = "halt" /\ ctl'[c].resume = ctl[c].resume
          /\ ctl'[c].wanted = mark
        BY HaltEffect DEF TypeOK
    <1>1. ConsentInv(c)'
        BY <1>0 DEF ControllerInv, ConsentInv, Halting, Busy, BusyMarks, SamePayload
    <1>2. ASSUME torrent.there PROVE HandoffInv(c)'
        BY <1>0, <1>2 DEF ControllerInv, HandoffInv, Ahead, Outside, Halting, Busy, SamePayload
    <1>3. ReadyInv(c)'
        BY <1>0 DEF ControllerInv, ReadyInv, Revisiting, Halting, Busy, BusyMarks, SamePayload
    <1>4. QED
        BY <1>1, <1>2, <1>3 DEF ControllerInv, SamePayload

LEMMA BeginKeeps ==
    ASSUME NEW c \in Controllers, TypeOK, ControllerInv(c), Begin(c)
    PROVE  ControllerInv(c)'
    <1>1. PICK resume \in BOOLEAN, dry \in BOOLEAN :
             ctl' = [ctl EXCEPT ![c] = [Off EXCEPT !.pc = "locate", !.resume = resume, !.dry = dry]]
        BY DEF Begin
    <1>2. [Off EXCEPT !.pc = "locate", !.resume = resume, !.dry = dry].pc = "locate"
        BY DEF Off
    <1>3. ctl'[c].pc = "locate"
        BY <1>1, <1>2 DEF TypeOK
    <1>4. QED
        BY <1>3, RestKeeps DEF Begin, seedbox

\* Where a step leads a controller, when it says nothing of the torrent.
LEMMA LocateKeeps ==
    ASSUME NEW c \in Controllers, TypeOK, ControllerInv(c), Locate(c)
    PROVE  ControllerInv(c)'
    <1>1. UNCHANGED <<torrent, data, jobdir>>
        BY DEF Locate, seedbox
    <1>2. CASE Answer(c, "failed") \/ Answer(c, "stalled")
        BY <1>1, <1>2, AnswerKeeps DEF Verdicts
    <1>3. CASE /\ torrent.there /\ torrent.owner # "other"
               /\ torrent.mark = "STALLED" => ctl[c].resume
               /\ See(c, torrent, "prepare")
        <2>1. /\ ctl'[c].pc = "prepare" /\ ctl'[c].resume = ctl[c].resume
              /\ ctl'[c].seen.dir = torrent.dir /\ ctl'[c].seen.owner = torrent.owner
            BY <1>3, SeeEffect, SnapshotEffect DEF TypeOK, Pcs
        <2>2. ConsentInv(c)'
            BY <1>1, <1>3, <2>1 DEF ConsentInv
        <2>3. HandoffInv(c)'
            BY <1>1, <1>3, <2>1 DEF Locate, At, ControllerInv, HandoffInv, Ahead, Outside
        <2>4. ReadyInv(c)'
            BY <1>1, <1>3, <2>1 DEF Locate, At, ControllerInv, ReadyInv, Revisiting, Delivered, Started
        <2>5. QED
            BY <2>2, <2>3, <2>4 DEF ControllerInv
    <1>4. QED
        BY <1>2, <1>3 DEF Locate

LEMMA PrepareKeeps ==
    ASSUME NEW c \in Controllers, TypeOK, ControllerInv(c), PrepareDirectory(c)
    PROVE  ControllerInv(c)'
    <1> DEFINE owned == ctl[c].seen.owner = "job" \/ ctl[c].seen.dir = "job"
    <1>1. UNCHANGED <<torrent, data>> /\ ctl[c].pc = "prepare"
        BY DEF PrepareDirectory, At
    <1>2. CASE Answer(c, "collision") /\ UNCHANGED jobdir
        BY <1>1, <1>2, AnswerKeeps DEF Verdicts
    <1>3. CASE /\ jobdir = "none" \/ owned
               /\ jobdir' = IF jobdir = "none" /\ ~ctl[c].dry THEN "job" ELSE jobdir
               /\ Go(c, "handoff")
        <2>1. /\ ctl'[c].pc = "handoff" /\ ctl'[c].resume = ctl[c].resume
              /\ ctl'[c].dry = ctl[c].dry /\ ctl'[c].seen = ctl[c].seen
            BY <1>3, GoEffect DEF TypeOK, Pcs
        <2>2. ConsentInv(c)'
            BY <1>1, <2>1 DEF ControllerInv, ConsentInv
        <2>3. ASSUME torrent.there PROVE HandoffInv(c)'
            <3>1. jobdir' = "job" \/ (jobdir = "none" /\ jobdir' = "none" /\ ctl[c].dry)
                BY <1>1, <1>3, <2>3 DEF ControllerInv, HandoffInv
            <3>2. ~Ahead
                BY <1>1, <1>3, <2>3 DEF ControllerInv, HandoffInv, Ahead
            <3>3. QED
                BY <1>1, <2>1, <2>3, <3>1, <3>2 DEF ControllerInv, HandoffInv, Ahead, Outside
        <2>4. ReadyInv(c)'
            BY <1>1, <2>1 DEF ControllerInv, ReadyInv, Revisiting, Delivered, Started
        <2>5. QED
            BY <1>1, <2>2, <2>3, <2>4 DEF ControllerInv
    <1>4. QED
        BY <1>2, <1>3 DEF PrepareDirectory

LEMMA HandoffKeeps ==
    ASSUME NEW c \in Controllers, TypeOK, ControllerInv(c), Handoff(c)
    PROVE  ControllerInv(c)'
    <1>1. UNCHANGED <<torrent, data, jobdir>> /\ ctl[c].pc = "handoff"
        BY DEF Handoff, At, seedbox
    <1>2. CASE ctl[c].seen.dir = "job" /\ ctl[c].dry /\ Answer(c, "dry_run")
        BY <1>1, <1>2, AnswerKeeps DEF Verdicts
    <1>3. CASE ctl[c].seen.dir = "job" /\ ~ctl[c].dry /\ Go(c, "tag_owner")
        <2>1. /\ ctl'[c].pc = "tag_owner" /\ ctl'[c].resume = ctl[c].resume
              /\ ctl'[c].dry = ctl[c].dry
            BY <1>3, GoEffect DEF TypeOK, Pcs
        <2>2. ConsentInv(c)'
            BY <1>1, <2>1 DEF ControllerInv, ConsentInv
        <2>3. ASSUME torrent.there PROVE HandoffInv(c)'
            BY <1>1, <1>3, <2>1, <2>3 DEF ControllerInv, HandoffInv, Ahead, Outside
        <2>4. ReadyInv(c)'
            BY <1>1, <2>1 DEF ControllerInv, ReadyInv, Revisiting, Delivered, Started
        <2>5. QED
            BY <1>1, <2>2, <2>3, <2>4 DEF ControllerInv
    <1>4. CASE ctl[c].seen.dir # "job"
        <2>1. /\ ctl'[c].pc \in {"probe_stop", "weigh"}
              /\ ctl'[c].handoff => ctl[c].seen.dir = "probe"
              /\ ctl'[c].resume = ctl[c].resume /\ ctl'[c].dry = ctl[c].dry
              /\ ctl'[c].seen = ctl[c].seen
              /\ ctl'[c].pc = "probe_stop" => ctl'[c].handoff
            BY <1>4, FoundEffect
        <2>2. ConsentInv(c)'
            BY <1>1, <2>1 DEF ControllerInv, ConsentInv
        <2>3. ASSUME torrent.there PROVE HandoffInv(c)'
            BY <1>1, <2>1, <2>3 DEF ControllerInv, HandoffInv, Ahead, Outside
        <2>4. ReadyInv(c)'
            BY <1>1, <2>1 DEF ControllerInv, ReadyInv, Revisiting, Delivered, Started, Allowed
        <2>5. QED
            BY <1>1, <2>2, <2>3, <2>4 DEF ControllerInv
    <1>5. QED
        BY <1>2, <1>3, <1>4 DEF Handoff

\* The stop before the directory is weighed, and the one after it.
LEMMA StopKeeps ==
    ASSUME NEW c \in Controllers, TypeOK, ControllerInv(c), StopProbe(c) \/ Stop(c)
    PROVE  ControllerInv(c)'
    <1>1. PICK t \in AfterStop(torrent), next \in {"weigh", "close"} :
             /\ torrent' = t
             /\ IF Started(t) THEN StopAndMark(c, "FAILED", "failed") ELSE See(c, t, next)
             /\ \/ ctl[c].pc = "probe_stop" /\ next = "weigh"
                \/ ctl[c].pc = "stop" /\ next = "close"
        <2>1. CASE StopProbe(c)
            BY <2>1, Zenon DEF StopProbe, At
        <2>2. CASE Stop(c)
            BY <2>2, Zenon DEF Stop, At
        <2>3. QED
            BY <2>1, <2>2
    <1>2. UNCHANGED <<data, jobdir>>
        BY DEF StopProbe, Stop
    <1>3. t \in Torrent /\ SamePayload /\ torrent'.mark = torrent.mark
        BY <1>1, <1>2, StopEffect, KeptPayload DEF TypeOK
    <1>4. CASE Started(t)
        BY <1>1, <1>3, <1>4, HaltKeeps DEF Halting, Verdicts
    <1>5. CASE ~Started(t)
        <2>1. /\ ctl'[c].pc = next /\ ctl'[c].resume = ctl[c].resume /\ ctl'[c].dry = ctl[c].dry
              /\ ctl'[c].handoff = ctl[c].handoff
            BY <1>1, <1>3, <1>5, SeeEffect DEF TypeOK, Pcs
        <2>2. ConsentInv(c)'
            BY <1>1, <1>3, <2>1 DEF ControllerInv, ConsentInv, SamePayload
        <2>3. ASSUME torrent.there PROVE HandoffInv(c)'
            BY <1>1, <1>3, <2>1, <2>3 DEF ControllerInv, HandoffInv, Ahead, Outside, SamePayload
        <2>4. ReadyInv(c)'
            BY <1>1, <1>3, <2>1 DEF ControllerInv, ReadyInv, Revisiting, SamePayload
        <2>5. QED
            BY <1>3, <2>2, <2>3, <2>4 DEF ControllerInv, SamePayload
    <1>6. QED
        BY <1>4, <1>5

LEMMA WeighKeeps ==
    ASSUME NEW c \in Controllers, TypeOK, ControllerInv(c), Weigh(c)
    PROVE  ControllerInv(c)'
    <1>1. UNCHANGED <<torrent, data, jobdir>> /\ ctl[c].pc = "weigh"
        BY DEF Weigh, At, seedbox
    <1>2. CASE Answer(c, "relocation") \/ Answer(c, "failed") \/ Answer(c, "dry_run")
        BY <1>1, <1>2, AnswerKeeps DEF Verdicts
    <1>3. CASE /\ ctl[c].handoff \/ ~(ctl[c].seen.bytes > 0 \/ data = ctl[c].seen.dir)
               /\ ~ctl[c].dry
               /\ Go(c, IF Started(ctl[c].seen) THEN "stop" ELSE "close")
        <2>1. /\ ctl'[c].pc \in {"stop", "close"} /\ ctl'[c].resume = ctl[c].resume
              /\ ctl'[c].dry = ctl[c].dry /\ ctl'[c].handoff = ctl[c].handoff
            BY <1>3, GoEffect DEF TypeOK, Pcs
        <2>2. ConsentInv(c)'
            BY <1>1, <2>1 DEF ControllerInv, ConsentInv
        <2>3. ASSUME torrent.there PROVE HandoffInv(c)'
            BY <1>1, <1>3, <2>1, <2>3 DEF ControllerInv, HandoffInv, Ahead, Outside
        <2>4. ReadyInv(c)'
            BY <1>1, <1>3, <2>1 DEF ControllerInv, ReadyInv, Revisiting, Delivered, Started
        <2>5. QED
            BY <1>1, <2>2, <2>3, <2>4 DEF ControllerInv
    <1>4. QED
        BY <1>2, <1>3 DEF Weigh

\* The files of a handoff move only while rTorrent has the torrent closed.
LEMMA CloseKeeps ==
    ASSUME NEW c \in Controllers, TypeOK, ControllerInv(c), Close(c)
    PROVE  ControllerInv(c)'
    <1>1. PICK t \in AfterClose(torrent) :
             /\ torrent' = t
             /\ \/ Go(c, "rename") /\ (ctl[c].handoff => t.mode = "closed")
                \/ StopAndMark(c, "FAILED", "failed")
        BY DEF Close, Confirm, Open, AfterClose
    <1>2. UNCHANGED <<data, jobdir>> /\ ctl[c].pc = "close"
        BY DEF Close, Confirm, At
    <1>3. t \in Torrent /\ SamePayload /\ torrent'.mark = torrent.mark
        BY <1>1, <1>2, CloseEffect, KeptPayload DEF TypeOK
    <1>4. CASE StopAndMark(c, "FAILED", "failed")
        BY <1>2, <1>3, <1>4, HaltKeeps DEF Halting, Verdicts
    <1>5. CASE Go(c, "rename") /\ (ctl[c].handoff => t.mode = "closed")
        <2>1. /\ ctl'[c].pc = "rename" /\ ctl'[c].resume = ctl[c].resume
              /\ ctl'[c].dry = ctl[c].dry /\ ctl'[c].handoff = ctl[c].handoff
            BY <1>5, GoEffect DEF TypeOK, Pcs
        <2>2. ConsentInv(c)'
            BY <1>2, <1>3, <2>1 DEF ControllerInv, ConsentInv, SamePayload
        <2>3. ASSUME torrent.there PROVE HandoffInv(c)'
            BY <1>1, <1>2, <1>3, <1>5, <2>1, <2>3 DEF ControllerInv, HandoffInv, Ahead, Outside, SamePayload
        <2>4. ReadyInv(c)'
            BY <1>2, <1>3, <2>1 DEF ControllerInv, ReadyInv, Revisiting, SamePayload
        <2>5. QED
            BY <1>3, <2>2, <2>3, <2>4 DEF ControllerInv, SamePayload
    <1>6. QED
        BY <1>1, <1>4, <1>5

LEMMA RenameKeeps ==
    ASSUME NEW c \in Controllers, TypeOK, ControllerInv(c), Rename(c)
    PROVE  ControllerInv(c)'
    <1>1. /\ UNCHANGED <<torrent, jobdir>> /\ ctl[c].pc = "rename"
          /\ ctl'[c].pc = "redirect" /\ ctl'[c].resume = ctl[c].resume
          /\ ctl'[c].dry = ctl[c].dry
        BY GoEffect DEF Rename, At, TypeOK, Pcs
    <1>2. data' = data \/ (ctl[c].handoff /\ data' = "job")
        BY DEF Rename
    <1>3. ConsentInv(c)'
        BY <1>1 DEF ControllerInv, ConsentInv
    <1>4. ASSUME torrent.there PROVE HandoffInv(c)'
        BY <1>1, <1>2, <1>4 DEF ControllerInv, HandoffInv, Ahead, Outside
    <1>5. ReadyInv(c)'
        BY <1>1 DEF ControllerInv, ReadyInv, Revisiting
    <1>6. QED
        BY <1>1, <1>3, <1>4, <1>5 DEF ControllerInv

LEMMA RedirectKeeps ==
    ASSUME NEW c \in Controllers, TypeOK, ControllerInv(c), Redirect(c)
    PROVE  ControllerInv(c)'
    <1>1. UNCHANGED <<data, jobdir>> /\ ctl[c].pc = "redirect"
        BY DEF Redirect, At
    <1>2. CASE Answer(c, "failed") /\ UNCHANGED torrent
        BY <1>1, <1>2, AnswerKeeps DEF Verdicts
    <1>3. CASE /\ torrent' = [torrent EXCEPT !.dir = "job"]
               /\ ctl' = [ctl EXCEPT ![c].pc = "tag_owner", ![c].seen = Snapshot(torrent'),
                                     ![c].clean = ctl[c].handoff]
        <2>1. /\ torrent'.there = torrent.there /\ torrent'.dir = "job"
              /\ torrent'.owner = torrent.owner /\ torrent'.mark = torrent.mark
            BY <1>3 DEF TypeOK, Torrent
        <2>2. /\ ctl'[c].pc = "tag_owner" /\ ctl'[c].resume = ctl[c].resume
              /\ ctl'[c].dry = ctl[c].dry
            BY <1>3 DEF TypeOK, Controller
        <2>3. ConsentInv(c)'
            BY <1>1, <2>1, <2>2 DEF ControllerInv, ConsentInv
        <2>4. ASSUME torrent.there PROVE HandoffInv(c)'
            BY <1>1, <2>1, <2>2, <2>4 DEF ControllerInv, HandoffInv, Ahead, Outside
        <2>5. ReadyInv(c)'
            BY <1>1, <2>1, <2>2 DEF ControllerInv, ReadyInv, Revisiting
        <2>6. QED
            BY <2>1, <2>3, <2>4, <2>5 DEF ControllerInv
    <1>4. QED
        BY <1>2, <1>3 DEF Redirect

LEMMA TagOwnerKeeps ==
    ASSUME NEW c \in Controllers, TypeOK, ControllerInv(c), TagOwner(c)
    PROVE  ControllerInv(c)'
    <1>1. /\ UNCHANGED <<data, jobdir>> /\ ctl[c].pc = "tag_owner"
          /\ ctl'[c].pc = "tag_state" /\ ctl'[c].resume = ctl[c].resume
          /\ ctl'[c].dry = ctl[c].dry
        BY GoEffect DEF TagOwner, At, TypeOK, Pcs
    <1>2. /\ torrent'.there = torrent.there /\ torrent'.dir = torrent.dir
          /\ torrent'.owner = "job" /\ torrent'.mark = torrent.mark
          /\ torrent'.mode = torrent.mode /\ torrent'.hashing = torrent.hashing
          /\ torrent'.bytes = torrent.bytes
        BY DEF TagOwner, TypeOK, Torrent
    <1>3. ConsentInv(c)'
        BY <1>1, <1>2 DEF ControllerInv, ConsentInv
    <1>4. ASSUME torrent.there PROVE HandoffInv(c)'
        BY <1>1, <1>2, <1>4 DEF ControllerInv, HandoffInv, Ahead, Outside
    <1>5. ReadyInv(c)'
        BY <1>1, <1>2 DEF ControllerInv, ReadyInv, Revisiting, Delivered, Started
    <1>6. QED
        BY <1>2, <1>3, <1>4, <1>5 DEF ControllerInv

LEMMA SetMarkEffect ==
    ASSUME NEW c \in Controllers, TypeOK, NEW mark \in Marks, NEW place \in Pcs,
           SetMark(c, mark, place)
    PROVE  /\ SamePayload /\ torrent'.mark = mark
           /\ ctl'[c].pc = place /\ ctl'[c].resume = ctl[c].resume /\ ctl'[c].dry = ctl[c].dry
    <1>1. SamePayload /\ torrent'.mark = mark
        BY DEF SetMark, SamePayload, TypeOK, Torrent
    <1>2. QED
        BY <1>1, GoEffect DEF SetMark, TypeOK

\* A revisited download that was ready is not, from here on.
LEMMA TagStateKeeps ==
    ASSUME NEW c \in Controllers, TypeOK, ControllerInv(c), TagState(c)
    PROVE  ControllerInv(c)'
    <1>1. PICK place \in {"completed", "watching", "starting"} : SetMark(c, "PENDING", place)
        BY DEF TagState
    <1>2. "PENDING" \in Marks /\ place \in Pcs /\ ctl[c].pc = "tag_state"
        BY DEF Marks, Pcs, TagState, At
    <1>3. /\ SamePayload /\ torrent'.mark = "PENDING"
          /\ ctl'[c].pc = place /\ ctl'[c].resume = ctl[c].resume /\ ctl'[c].dry = ctl[c].dry
        BY <1>1, <1>2, SetMarkEffect
    <1>4. ConsentInv(c)'
        BY <1>2, <1>3 DEF ControllerInv, ConsentInv, SamePayload
    <1>5. ASSUME torrent.there PROVE HandoffInv(c)'
        BY <1>2, <1>3, <1>5 DEF ControllerInv, HandoffInv, Ahead, Outside, SamePayload
    <1>6. ReadyInv(c)'
        BY <1>2, <1>3 DEF ControllerInv, ReadyInv, SamePayload
    <1>7. QED
        BY <1>3, <1>4, <1>5, <1>6 DEF ControllerInv, SamePayload

\* A step of the startup that rTorrent confirms or does not.
LEMMA ConfirmKeeps ==
    ASSUME NEW c \in Controllers, TypeOK, ControllerInv(c), ctl[c].pc \in Busy,
           NEW t \in Torrent, Kept(torrent, t), NEW confirmed \in BOOLEAN,
           NEW place \in Busy, Confirm(c, t, confirmed, place)
    PROVE  ControllerInv(c)'
    <1>1. SamePayload /\ torrent'.mark = torrent.mark
        BY KeptPayload DEF Confirm
    <1>2. CASE confirmed
        BY <1>1, <1>2, GoEffect, BusyKeeps DEF Confirm, TypeOK, Busy, Pcs
    <1>3. CASE ~confirmed
        BY <1>1, <1>3, HaltKeeps DEF Confirm, Halting, Verdicts
    <1>4. QED
        BY <1>2, <1>3

LEMMA StartupKeeps ==
    ASSUME NEW c \in Controllers, TypeOK, ControllerInv(c), Startup(c)
    PROVE  ControllerInv(c)'
    <1>1. CASE Starting(c)
        <2>1. SamePayload /\ torrent'.mark = "STARTING"
            BY <1>1 DEF Starting, SamePayload, TypeOK, Torrent
        <2>2. 1 \in 0..StartupCycles
            BY Sizes
        <2>3. /\ ctl'[c].pc = "cycle_stop" /\ ctl'[c].resume = ctl[c].resume
              /\ ctl'[c].dry = ctl[c].dry
            BY <1>1, <2>2, StartingEffect DEF Starting, TypeOK
        <2>4. QED
            BY <1>1, <2>1, <2>3, BusyKeeps DEF Starting, At, Busy, BusyMarks
    <1>2. CASE CycleStop(c)
        <2>1. PICK t \in AfterStop(torrent) : Confirm(c, t, ~Started(t), "cycle_close")
            BY <1>2 DEF CycleStop, AfterStop
        <2>2. QED
            BY <1>2, <2>1, StopEffect, ConfirmKeeps DEF CycleStop, At, TypeOK, Busy
    <1>3. CASE CycleClose(c)
        <2>1. PICK t \in AfterClose(torrent) : Confirm(c, t, ~Open(t), "cycle_open")
            BY <1>3 DEF CycleClose, AfterClose
        <2>2. QED
            BY <1>3, <2>1, CloseEffect, ConfirmKeeps DEF CycleClose, At, TypeOK, Busy
    <1>4. CASE CycleOpen(c)
        <2>1. PICK t \in AfterOpen(torrent) : Confirm(c, t, Open(t), "cycle_start")
            BY <1>4 DEF CycleOpen
        <2>2. Open(t) \in BOOLEAN
            BY DEF Open
        <2>3. QED
            BY <1>4, <2>1, <2>2, OpenEffect, ConfirmKeeps DEF CycleOpen, At, TypeOK, Busy
    <1>5. CASE CycleStart(c)
        <2>1. PICK t \in AfterStart(torrent) : Confirm(c, t, Started(t), "cycle_resume")
            BY <1>5 DEF CycleStart
        <2>2. Started(t) \in BOOLEAN
            BY DEF Started
        <2>3. QED
            BY <1>5, <2>1, <2>2, StartEffect, ConfirmKeeps DEF CycleStart, At, TypeOK, Busy
    <1>6. CASE CycleResume(c)
        <2>1. PICK t \in AfterResume(torrent) :
                 /\ torrent' = t
                 /\ \/ See(c, t, "watching")
                    \/ /\ ctl[c].cycle < StartupCycles
                       /\ ctl' = [ctl EXCEPT ![c].pc = "cycle_stop", ![c].cycle = @ + 1]
                    \/ StopAndMark(c, "FAILED", "failed")
            BY <1>6 DEF CycleResume
        <2>2. t \in Torrent /\ SamePayload /\ torrent'.mark = torrent.mark /\ ctl[c].pc \in Busy
            BY <1>6, <2>1, ResumeEffect, KeptPayload DEF CycleResume, At, TypeOK, Busy
        <2>3. CASE See(c, t, "watching")
            BY <2>2, <2>3, SeeEffect, BusyKeeps DEF TypeOK, Busy, Pcs
        <2>4. CASE /\ ctl[c].cycle < StartupCycles
                   /\ ctl' = [ctl EXCEPT ![c].pc = "cycle_stop", ![c].cycle = @ + 1]
            <3>1. ctl[c].cycle + 1 \in 0..StartupCycles
                BY <2>4, Sizes DEF TypeOK, Controller
            <3>2. ctl' = [ctl EXCEPT ![c].pc = "cycle_stop", ![c].cycle = ctl[c].cycle + 1]
                BY <2>4 DEF TypeOK
            <3>3. /\ ctl'[c].pc = "cycle_stop" /\ ctl'[c].resume = ctl[c].resume
                  /\ ctl'[c].dry = ctl[c].dry
                BY <3>1, <3>2, StartingEffect DEF TypeOK
            <3>4. QED
                BY <2>2, <3>3, BusyKeeps DEF Busy
        <2>5. CASE StopAndMark(c, "FAILED", "failed")
            BY <2>2, <2>5, HaltKeeps DEF Halting, Verdicts
        <2>6. QED
            BY <2>1, <2>3, <2>4, <2>5
    <1>7. QED
        BY <1>1, <1>2, <1>3, <1>4, <1>5, <1>6 DEF Startup

LEMMA PollKeeps ==
    ASSUME NEW c \in Controllers, TypeOK, ControllerInv(c), Poll(c)
    PROVE  ControllerInv(c)'
    <1> DEFINE idle == IF UsefulProgress(ctl[c].seen, torrent) THEN 0 ELSE ctl[c].idle
    <1>1. \/ StopAndMark(c, "FAILED", "failed") /\ UNCHANGED torrent
          \/ See(c, torrent, "completed") /\ UNCHANGED torrent
          \/ StopAndMark(c, "STALLED", "stalled") /\ NoteHashCheck
          \/ /\ ctl' = [ctl EXCEPT ![c].seen = Snapshot(torrent), ![c].idle = idle + 1]
             /\ NoteHashCheck
        BY DEF Poll
    <1> HIDE DEF idle
    <1>2. SamePayload /\ torrent'.mark \in {torrent.mark} \cup BusyMarks
        BY <1>1, NoteEffect DEF Poll, TypeOK, SamePayload, BusyMarks
    <1>3. ctl[c].pc = "poll"
        BY DEF Poll, At
    <1>4. CASE See(c, torrent, "completed")
        BY <1>2, <1>3, <1>4, SeeEffect, BusyKeeps DEF TypeOK, Busy, Pcs
    <1>5. CASE StopAndMark(c, "FAILED", "failed") \/ StopAndMark(c, "STALLED", "stalled")
        BY <1>2, <1>3, <1>5, HaltKeeps DEF Halting, Busy, Verdicts
    <1>6. CASE ctl' = [ctl EXCEPT ![c].seen = Snapshot(torrent), ![c].idle = idle + 1]
        <2>1. /\ ctl'[c].pc = "poll" /\ ctl'[c].resume = ctl[c].resume
              /\ ctl'[c].dry = ctl[c].dry
            BY <1>3, <1>6 DEF TypeOK, Controller
        <2>2. QED
            BY <1>2, <1>3, <2>1, BusyKeeps DEF Busy
    <1>7. QED
        BY <1>1, <1>4, <1>5, <1>6

\* From the snapshot after the grace period on, what was seen is so.
LEMMA SettleKeeps ==
    ASSUME NEW c \in Controllers, TypeOK, ControllerInv(c), Settle(c)
    PROVE  ControllerInv(c)'
    <1>1. /\ UNCHANGED <<torrent, data, jobdir>> /\ ctl[c].pc = "settle"
          /\ ctl'[c].pc = "verify" /\ ctl'[c].resume = ctl[c].resume /\ ctl'[c].dry = ctl[c].dry
          /\ ctl'[c].seen = Snapshot(torrent)
        BY SeeEffect DEF Settle, At, TypeOK, Pcs, seedbox
    <1>2. /\ ctl'[c].seen.dir = torrent.dir
          /\ IsComplete(ctl'[c].seen) => torrent.bytes = Size /\ ~torrent.hashing
        BY <1>1, SnapshotEffect DEF TypeOK, IsComplete
    <1>3. ConsentInv(c)'
        BY <1>1 DEF ControllerInv, ConsentInv
    <1>4. ASSUME torrent.there PROVE HandoffInv(c)'
        BY <1>1, <1>4 DEF ControllerInv, HandoffInv, Ahead, Outside
    <1>5. ReadyInv(c)'
        BY <1>1, <1>2 DEF ControllerInv, ReadyInv, Revisiting
    <1>6. QED
        BY <1>1, <1>3, <1>4, <1>5 DEF ControllerInv

LEMMA VerifyKeeps ==
    ASSUME NEW c \in Controllers, TypeOK, ControllerInv(c), Verify(c)
    PROVE  ControllerInv(c)'
    <1>1. UNCHANGED <<torrent, data, jobdir>> /\ ctl[c].pc = "verify"
        BY DEF Verify, At, seedbox
    <1>2. CASE Answer(c, "failed")
        BY <1>1, <1>2, AnswerKeeps DEF Verdicts
    <1>3. CASE StopAndMark(c, "FAILED", "failed")
        BY <1>1, <1>3, HaltKeeps DEF Halting, Verdicts, SamePayload
    <1>4. CASE /\ IsComplete(ctl[c].seen) /\ ctl[c].seen.dir \in Allowed /\ data = ctl[c].seen.dir
               /\ Go(c, "policy")
        <2>1. /\ ctl'[c].pc = "policy" /\ ctl'[c].resume = ctl[c].resume
              /\ ctl'[c].dry = ctl[c].dry
            BY <1>4, GoEffect DEF TypeOK, Pcs
        <2>2. ConsentInv(c)'
            BY <1>1, <2>1 DEF ControllerInv, ConsentInv
        <2>3. ASSUME torrent.there PROVE HandoffInv(c)'
            BY <1>1, <2>1, <2>3 DEF ControllerInv, HandoffInv, Ahead, Outside
        <2>4. ReadyInv(c)'
            BY <1>1, <1>4, <2>1 DEF ControllerInv, ReadyInv, Revisiting, Delivered, Started
        <2>5. QED
            BY <1>1, <2>2, <2>3, <2>4 DEF ControllerInv
    <1>5. QED
        BY <1>2, <1>3, <1>4 DEF Verify

\* A start may begin another hash check, of a torrent that runs then.
LEMMA PostCompletionKeeps ==
    ASSUME NEW c \in Controllers, TypeOK, ControllerInv(c), PostCompletion(c)
    PROVE  ControllerInv(c)'
    <1>1. /\ UNCHANGED <<data, jobdir>> /\ ctl[c].pc = "policy"
          /\ ctl'[c].pc = "cleanup" /\ ctl'[c].resume = ctl[c].resume /\ ctl'[c].dry = ctl[c].dry
        BY GoEffect DEF PostCompletion, At, TypeOK, Pcs
    <1>2. torrent' \in AfterStop(torrent) \/ torrent' = torrent \/ torrent' \in AfterStart(torrent)
        BY DEF PostCompletion
    <1>3. /\ Kept(torrent, torrent')
          /\ torrent'.hashing = torrent.hashing \/ Started(torrent')
        BY <1>2, StopEffect, StartEffect DEF TypeOK, Kept
    <1>4. SamePayload /\ torrent'.mark = torrent.mark
        BY <1>1, <1>3, KeptPayload
    <1>5. ConsentInv(c)'
        BY <1>1, <1>4 DEF ControllerInv, ConsentInv, SamePayload
    <1>6. ASSUME torrent.there PROVE HandoffInv(c)'
        BY <1>1, <1>4, <1>6 DEF ControllerInv, HandoffInv, Ahead, Outside, SamePayload
    <1>7. ReadyInv(c)'
        BY <1>1, <1>3, <1>4 DEF ControllerInv, ReadyInv, Revisiting, Delivered, SamePayload
    <1>8. QED
        BY <1>4, <1>5, <1>6, <1>7 DEF ControllerInv, SamePayload

LEMMA CleanupProbeKeeps ==
    ASSUME NEW c \in Controllers, TypeOK, ControllerInv(c), CleanupProbe(c)
    PROVE  ControllerInv(c)'
    <1>1. /\ UNCHANGED <<torrent, jobdir>> /\ ctl[c].pc = "cleanup"
          /\ ctl'[c].pc = "ready" /\ ctl'[c].resume = ctl[c].resume /\ ctl'[c].dry = ctl[c].dry
        BY GoEffect DEF CleanupProbe, At, TypeOK, Pcs
    <1>2. data' = data
        BY <1>1 DEF CleanupProbe, ControllerInv, ReadyInv, Allowed
    <1>3. ConsentInv(c)'
        BY <1>1 DEF ControllerInv, ConsentInv
    <1>4. ASSUME torrent.there PROVE HandoffInv(c)'
        BY <1>1, <1>2, <1>4 DEF ControllerInv, HandoffInv, Ahead, Outside
    <1>5. ReadyInv(c)'
        BY <1>1, <1>2 DEF ControllerInv, ReadyInv, Revisiting, Delivered, Started
    <1>6. QED
        BY <1>1, <1>3, <1>4, <1>5 DEF ControllerInv

LEMMA ReadyKeeps ==
    ASSUME NEW c \in Controllers, TypeOK, ControllerInv(c), Ready(c)
    PROVE  ControllerInv(c)'
    <1>1. /\ UNCHANGED <<data, jobdir>> /\ ctl[c].pc = "ready" /\ ctl'[c].pc = "off"
        BY AnswerEffect DEF Ready, At, TypeOK, Verdicts
    <1>2. /\ torrent'.there = torrent.there /\ torrent'.bytes = torrent.bytes
          /\ torrent'.dir = torrent.dir /\ torrent'.owner = torrent.owner
          /\ torrent'.mode = torrent.mode /\ torrent'.hashing = torrent.hashing
        BY DEF Ready, TypeOK, Torrent
    <1>3. ConsentInv(c)'
        BY <1>1 DEF ConsentInv
    <1>4. ASSUME torrent.there PROVE HandoffInv(c)'
        BY <1>1, <1>2, <1>4 DEF ControllerInv, HandoffInv, Ahead, Outside
    <1>5. ReadyInv(c)'
        BY <1>1, <1>2 DEF ControllerInv, ReadyInv, Revisiting, Delivered, Started
    <1>6. QED
        BY <1>2, <1>3, <1>4, <1>5 DEF ControllerInv

LEMMA FinishKeeps ==
    ASSUME NEW c \in Controllers, TypeOK, ControllerInv(c), Finish(c)
    PROVE  ControllerInv(c)'
    <1>1. CASE Completed(c) \/ Grace(c)
        <2>1. PICK mark \in {"COMPLETED", "POST_PROCESSING_GRACE"}, place \in {"grace", "settle"} :
                 SetMark(c, mark, place)
            BY <1>1 DEF Completed, Grace
        <2>2. ctl[c].pc \in Busy
            BY <1>1 DEF Completed, Grace, At, Busy
        <2>3. mark \in Marks /\ mark \in BusyMarks /\ place \in Pcs /\ place \in Busy
            BY DEF Marks, BusyMarks, Pcs, Busy
        <2>4. /\ SamePayload /\ torrent'.mark = mark
              /\ ctl'[c].pc = place /\ ctl'[c].resume = ctl[c].resume /\ ctl'[c].dry = ctl[c].dry
            BY <2>1, <2>3, SetMarkEffect
        <2>5. QED
            BY <2>2, <2>3, <2>4, BusyKeeps
    <1>2. QED
        BY <1>1, SettleKeeps, VerifyKeeps, PostCompletionKeeps, CleanupProbeKeeps, ReadyKeeps
        DEF Finish

\* Stopping and marking what failed.
LEMMA MarkKeeps ==
    ASSUME NEW c \in Controllers, TypeOK, ControllerInv(c), Halt(c) \/ Mark(c)
    PROVE  ControllerInv(c)'
    <1>1. CASE Halt(c)
        <2>1. /\ ctl[c].pc = "halt" /\ ctl'[c].pc = "mark"
              /\ ctl'[c].resume = ctl[c].resume /\ ctl'[c].wanted = ctl[c].wanted
            BY <1>1, GoEffect DEF Halt, At, TypeOK, Pcs
        <2>2. SamePayload /\ torrent'.mark = torrent.mark
            BY <1>1, StopEffect, KeptPayload DEF Halt, TypeOK
        <2>3. ConsentInv(c)'
            BY <2>1, <2>2 DEF ControllerInv, ConsentInv, SamePayload
        <2>4. ASSUME torrent.there PROVE HandoffInv(c)'
            BY <2>1, <2>2, <2>4 DEF ControllerInv, HandoffInv, Ahead, Outside, SamePayload
        <2>5. ReadyInv(c)'
            BY <2>1, <2>2 DEF ControllerInv, ReadyInv, Revisiting, SamePayload
        <2>6. QED
            BY <2>2, <2>3, <2>4, <2>5 DEF ControllerInv, SamePayload
    <1>2. CASE Mark(c)
        <2>1. /\ ctl[c].pc = "mark" /\ ctl'[c].pc = "off" /\ UNCHANGED <<data, jobdir>>
            <3>1. ctl[c].verdict \in Verdicts
                BY DEF TypeOK, Controller
            <3>2. QED
                BY <1>2, <3>1, AnswerEffect DEF Mark, At, TypeOK
        <2>2. /\ torrent'.there = torrent.there /\ torrent'.dir = torrent.dir
              /\ torrent'.owner = torrent.owner /\ torrent'.mode = torrent.mode
              /\ torrent'.mark = ctl[c].wanted
            BY <1>2 DEF Mark, TypeOK, Torrent
        <2>3. torrent'.mark # "READY_FOR_TRANSFER"
            BY <2>1, <2>2 DEF ControllerInv, ConsentInv
        <2>4. ConsentInv(c)'
            BY <2>1 DEF ConsentInv
        <2>5. ASSUME torrent.there PROVE HandoffInv(c)'
            BY <2>1, <2>2, <2>5 DEF ControllerInv, HandoffInv, Ahead, Outside
        <2>6. ReadyInv(c)'
            BY <2>1, <2>3 DEF ReadyInv
        <2>7. QED
            BY <2>2, <2>4, <2>5, <2>6 DEF ControllerInv
    <1>3. QED
        BY <1>1, <1>2

LEMMA WorkKeeps ==
    ASSUME NEW c \in Controllers, TypeOK, ControllerInv(c), Work(c)
    PROVE  ControllerInv(c)'
    <1>1. CASE Watching(c)
        <2>1. PICK mark \in {"HASH_CHECKING", "DOWNLOADING"} : SetMark(c, mark, "poll")
            BY <1>1 DEF Watching
        <2>2. ctl[c].pc \in Busy
            BY <1>1 DEF Watching, At, Busy
        <2>3. mark \in Marks /\ mark \in BusyMarks /\ "poll" \in Pcs /\ "poll" \in Busy
            BY DEF Marks, BusyMarks, Pcs, Busy
        <2>4. /\ SamePayload /\ torrent'.mark = mark
              /\ ctl'[c].pc = "poll" /\ ctl'[c].resume = ctl[c].resume /\ ctl'[c].dry = ctl[c].dry
            BY <2>1, <2>3, SetMarkEffect
        <2>5. QED
            BY <2>2, <2>3, <2>4, BusyKeeps
    <1>2. CASE Disappeared(c)
        BY <1>2, AnswerKeeps DEF Disappeared, seedbox, Verdicts
    <1>3. CASE Setup(c)
        BY <1>3, LocateKeeps, PrepareKeeps, HandoffKeeps, StopKeeps, WeighKeeps, CloseKeeps,
           RenameKeeps, RedirectKeeps, TagOwnerKeeps, TagStateKeeps DEF Setup
    <1>4. QED
        BY <1>1, <1>2, <1>3, StartupKeeps, PollKeeps, FinishKeeps, MarkKeeps DEF Work

LEMMA FailureKeeps ==
    ASSUME NEW c \in Controllers, TypeOK, ControllerInv(c), Failure(c)
    PROVE  ControllerInv(c)'
    <1>1. CASE TimeOut(c)
        <2>1. SamePayload /\ torrent'.mark \in {torrent.mark} \cup BusyMarks
            BY <1>1, NoteEffect DEF TimeOut, TypeOK, SamePayload, BusyMarks
        <2>2. QED
            BY <1>1, <2>1, HaltKeeps DEF TimeOut, At, Halting, Busy, Verdicts
    <1>2. CASE HaltFails(c)
        <2>1. ctl[c].verdict \in Verdicts
            BY DEF TypeOK, Controller
        <2>2. QED
            BY <1>2, <2>1, AnswerKeeps DEF HaltFails, seedbox
    <1>3. CASE Offline(c) \/ StorageFails(c)
        BY <1>3, AnswerKeeps DEF Offline, StorageFails, seedbox, Verdicts
    <1>4. CASE Crash(c)
        <2>1. ctl'[c].pc = "off"
            BY <1>4 DEF Crash, TypeOK, Off
        <2>2. QED
            BY <1>4, <2>1, RestKeeps DEF Crash, seedbox
    <1>5. QED
        BY <1>1, <1>2, <1>3, <1>4 DEF Failure

\* A step of the seedbox that leaves the directory, the files and the mode's
\* being closed as they are.
LEMMA QuietKeeps ==
    ASSUME NEW c \in Controllers, TypeOK, ControllerInv(c), UNCHANGED <<data, jobdir, ctl>>,
           torrent'.there => torrent.there,
           torrent'.dir = torrent.dir, torrent'.owner = torrent.owner, torrent'.mark = torrent.mark,
           torrent.mode = "closed" => torrent'.mode = "closed",
           torrent'.there /\ Started(torrent) => Started(torrent'),
           torrent'.there => (torrent'.bytes = torrent.bytes /\ torrent'.hashing = torrent.hashing)
                             \/ ~(torrent.bytes = Size /\ ~torrent.hashing)
    PROVE  ControllerInv(c)'
    <1>1. ConsentInv(c)'
        BY DEF ControllerInv, ConsentInv
    <1>2. ASSUME torrent'.there PROVE HandoffInv(c)'
        BY <1>2 DEF ControllerInv, HandoffInv, Ahead, Outside
    <1>3. ReadyInv(c)'
        BY DEF ControllerInv, ReadyInv, Revisiting, Delivered, Started
    <1>4. QED
        BY <1>1, <1>2, <1>3 DEF ControllerInv

\* Files arrive where the torrent points, and never at one that is closed.
LEMMA ReceiveKeeps ==
    ASSUME NEW c \in Controllers, TypeOK, ControllerInv(c), Receive
    PROVE  ControllerInv(c)'
    <1>1. /\ torrent.there /\ torrent.mode = "active" /\ torrent.bytes # Size
          /\ data' = torrent.dir /\ UNCHANGED <<jobdir, ctl>>
          /\ torrent'.there /\ torrent'.dir = torrent.dir /\ torrent'.owner = torrent.owner
          /\ torrent'.mark = torrent.mark /\ torrent'.mode = "active"
        BY Sizes DEF Receive, Active, TypeOK, Torrent
    <1>2. ConsentInv(c)'
        BY <1>1 DEF ControllerInv, ConsentInv
    <1>3. HandoffInv(c)'
        BY <1>1 DEF ControllerInv, HandoffInv, Ahead, Outside
    <1>4. ReadyInv(c)'
        BY <1>1 DEF ControllerInv, ReadyInv, Revisiting, Delivered, Started
    <1>5. QED
        BY <1>2, <1>3, <1>4 DEF ControllerInv

\* The hook moves only what is in the job directory, with its torrent, and
\* nothing that is verified or marked ready.
LEMMA HookKeeps ==
    ASSUME NEW c \in Controllers, TypeOK, ControllerInv(c), Hook
    PROVE  ControllerInv(c)'
    <1>1. PICK place \in {"library", "elsewhere"} :
             torrent' = [torrent EXCEPT !.dir = place] /\ data' = place
        BY DEF Hook
    <1>2. /\ torrent.there /\ torrent.dir = "job" /\ torrent.mark # "READY_FOR_TRANSFER"
          /\ ctl[c].pc \notin {"verify", "policy", "cleanup", "ready"} /\ UNCHANGED <<jobdir, ctl>>
        BY DEF Hook
    <1>3. /\ torrent'.there /\ torrent'.dir = place /\ torrent'.owner = torrent.owner
          /\ torrent'.mark = torrent.mark
        BY <1>1, <1>2 DEF TypeOK, Torrent
    <1>4. ConsentInv(c)'
        BY <1>2, <1>3 DEF ControllerInv, ConsentInv
    <1>5. HandoffInv(c)'
        BY <1>1, <1>2, <1>3 DEF ControllerInv, HandoffInv, Ahead, Outside
    <1>6. ReadyInv(c)'
        BY <1>2, <1>3 DEF ControllerInv, ReadyInv
    <1>7. QED
        BY <1>4, <1>5, <1>6 DEF ControllerInv

LEMMA EnvironmentKeeps ==
    ASSUME NEW c \in Controllers, TypeOK, ControllerInv(c), Environment
    PROVE  ControllerInv(c)'
    <1>1. CASE RateDrops \/ ReportError
        BY <1>1, QuietKeeps DEF RateDrops, ReportError, TypeOK, Torrent, Started
    <1>2. CASE EndHash
        <2>1. PICK bytes \in 0..torrent.bytes :
                 torrent' = [torrent EXCEPT !.hashing = FALSE, !.bytes = bytes,
                                            !.mode = IF Started(torrent) THEN "active" ELSE @]
            BY <1>2 DEF EndHash
        <2>2. /\ torrent.hashing /\ UNCHANGED <<data, jobdir, ctl>>
              /\ torrent'.there = torrent.there /\ torrent'.dir = torrent.dir
              /\ torrent'.owner = torrent.owner /\ torrent'.mark = torrent.mark
              /\ torrent'.mode = IF Started(torrent) THEN "active" ELSE torrent.mode
            BY <1>2, <2>1 DEF EndHash, TypeOK, Torrent
        <2>3. QED
            BY <2>2, QuietKeeps DEF Started
    <1>3. CASE Erase
        <2>1. /\ UNCHANGED <<data, jobdir, ctl>> /\ ~torrent'.there /\ torrent'.mode = "closed"
              /\ torrent'.dir = torrent.dir /\ torrent'.owner = torrent.owner
              /\ torrent'.mark = torrent.mark
            BY <1>3 DEF Erase, Erased, TypeOK, Torrent
        <2>2. QED
            BY <2>1, QuietKeeps
    <1>4. QED
        BY <1>1, <1>2, <1>3, ReceiveKeeps, HookKeeps DEF Environment

-----------------------------------------------------------------------------
(* The theorems *)

LEMMA InitKeeps ==
    ASSUME Init
    PROVE  DownloadInv
    <1>1. TypeOK
        BY InitType
    <1>2. ASSUME NEW c \in Controllers PROVE ControllerInv(c)
        <2>1. ctl[c].pc = "off"
            BY DEF Init, Off
        <2>2. /\ torrent.dir \in {"probe", "elsewhere"} /\ torrent.owner \in {"none", "other"}
              /\ torrent.mark = "none" /\ data # "job"
            BY DEF Init
        <2>3. QED
            BY <2>1, <2>2 DEF ControllerInv, ConsentInv, HandoffInv, ReadyInv, Ahead, Outside
    <1>3. QED
        BY <1>1, <1>2 DEF DownloadInv

\* The step of the one controller, or of the seedbox.
LEMMA DownloadStepKeeps ==
    ASSUME OneController, DownloadInv,
           (\E c \in Controllers : Begin(c) \/ Work(c) \/ Failure(c)) \/ Environment
    PROVE  DownloadInv'
    <1>1. TypeOK'
        BY StepType DEF DownloadInv, Next
    <1>2. ASSUME NEW c \in Controllers PROVE ControllerInv(c)'
        <2>1. CASE Environment
            BY <2>1, EnvironmentKeeps DEF DownloadInv
        <2>2. ASSUME NEW d \in Controllers, Begin(d) \/ Work(d) \/ Failure(d)
              PROVE  ControllerInv(c)'
            <3>1. c = d
                BY DEF OneController
            <3>2. QED
                BY <2>2, <3>1, BeginKeeps, WorkKeeps, FailureKeeps DEF DownloadInv
        <2>3. QED
            BY <2>1, <2>2
    <1>3. QED
        BY <1>1, <1>2 DEF DownloadInv

LEMMA StutterKeeps ==
    ASSUME DownloadInv, UNCHANGED <<torrent, data, jobdir, probedir, ctl>>
    PROVE  DownloadInv'
    BY DEF DownloadInv, TypeOK, ControllerInv, ConsentInv, HandoffInv, ReadyInv, Ahead, Delivered,
           Started

\* Every variable keeps its type, whatever controllers run, die and overlap.
THEOREM DownloadTypes == Spec => []TypeOK
    <1>1. Init => TypeOK
        BY InitType
    <1>2. TypeOK /\ [Next]_vars => TypeOK'
        BY StepType
    <1>3. QED
        BY <1>1, <1>2, PTL DEF Spec

\* What one controller knows of the torrent at each of its places is so, over
\* deaths, reruns and what the seedbox and the hook do meanwhile.
THEOREM DownloadInvariant ==
    ASSUME OneController
    PROVE  Spec => []DownloadInv
    <1>1. Init => DownloadInv
        BY InitKeeps
    <1>2. DownloadInv /\ [Next]_vars => DownloadInv'
        BY DownloadStepKeeps, StutterKeeps DEF Next, vars
    <1>3. QED
        BY <1>1, <1>2, PTL DEF Spec

LEMMA InvHandoff ==
    ASSUME OneController, DownloadInv
    PROVE  HandoffKeepsFiles
    BY DEF OneController, DownloadInv, ControllerInv, HandoffInv, Ahead, HandoffKeepsFiles, Open

LEMMA InvReady ==
    ASSUME OneController, DownloadInv
    PROVE  ReadyIsVerified
    <1>1. PICK c : Controllers = {c}
        BY DEF OneController
    <1>2. CASE ctl[c].pc \in {"policy", "cleanup", "ready"}
        BY <1>1, <1>2 DEF DownloadInv, ControllerInv, ReadyInv, Delivered, ReadyIsVerified
    <1>3. CASE torrent.there /\ torrent.mark = "READY_FOR_TRANSFER"
        BY <1>1, <1>3 DEF DownloadInv, ControllerInv, ReadyInv, Delivered, ReadyIsVerified
    <1>4. QED
        BY <1>1, <1>2, <1>3 DEF ReadyIsVerified

\* Before it has located the torrent a controller commands nothing.
LEMMA NothingCommanded ==
    ASSUME NEW c \in Controllers, Begin(c) \/ Work(c) \/ Failure(c),
           ctl[c].pc \in {"off", "locate"}
    PROVE  UNCHANGED torrent
    <1>1. CASE Begin(c)
        BY <1>1 DEF Begin, seedbox
    <1>2. CASE Setup(c)
        BY <1>2 DEF Setup, Locate, PrepareDirectory, Handoff, StopProbe, Weigh, Stop, Close, Rename,
                    Redirect, TagOwner, TagState, At, seedbox
    <1>3. CASE Startup(c)
        BY <1>3 DEF Startup, Starting, CycleStop, CycleClose, CycleOpen, CycleStart, CycleResume, At
    <1>4. CASE Finish(c)
        BY <1>4 DEF Finish, Completed, Grace, Settle, Verify, PostCompletion, CleanupProbe, Ready, At
    <1>5. CASE Watching(c) \/ Disappeared(c) \/ Poll(c) \/ Halt(c) \/ Mark(c)
        BY <1>5 DEF Watching, Disappeared, Poll, Halt, Mark, At
    <1>6. CASE Failure(c)
        BY <1>6 DEF Failure, TimeOut, HaltFails, Offline, StorageFails, Crash, At, seedbox
    <1>7. QED
        BY <1>1, <1>2, <1>3, <1>4, <1>5, <1>6 DEF Work

\* What Consent asks of one step.
ConsentNow == \A c \in Controllers : ActsOnTorrent(c) =>
                  /\ torrent.owner # "other"
                  /\ torrent.mark = "STALLED" => ctl[c].resume

LEMMA StepConsents ==
    ASSUME OneController, DownloadInv,
           \/ \E c \in Controllers : Begin(c) \/ Work(c) \/ Failure(c)
           \/ Environment
           \/ UNCHANGED ctl
    PROVE  ConsentNow
    <1>1. CASE UNCHANGED ctl
        BY <1>1 DEF ConsentNow, ActsOnTorrent
    <1>2. CASE Environment
        BY <1>1, <1>2, EnvironmentEffect DEF DownloadInv
    <1>3. ASSUME NEW c \in Controllers, Begin(c) \/ Work(c) \/ Failure(c)
          PROVE  ConsentNow
        <2>1. \A d \in Controllers : d = c
            BY DEF OneController
        <2>2. CASE ctl[c].pc \in {"off", "locate"}
            BY <1>3, <2>1, <2>2, NothingCommanded DEF ConsentNow, ActsOnTorrent
        <2>3. CASE ctl[c].pc \notin {"off", "locate"}
            BY <2>1, <2>3 DEF ConsentNow, DownloadInv, ControllerInv, ConsentInv
        <2>4. QED
            BY <2>2, <2>3
    <1>4. QED
        BY <1>1, <1>2, <1>3

\* Files that have moved ahead of their torrent never meet an open one.
THEOREM HandoffHolds ==
    ASSUME OneController
    PROVE  Spec => []HandoffKeepsFiles
    <1>1. DownloadInv => HandoffKeepsFiles
        BY InvHandoff
    <1>2. QED
        BY <1>1, DownloadInvariant, PTL

\* What a report or a mark calls ready is whole, and where the torrent says.
THEOREM ReadyHolds ==
    ASSUME OneController
    PROVE  Spec => []ReadyIsVerified
    <1>1. DownloadInv => ReadyIsVerified
        BY InvReady
    <1>2. QED
        BY <1>1, DownloadInvariant, PTL

\* No command reaches another job's torrent, or a stalled one unasked.
THEOREM ConsentHolds ==
    ASSUME OneController
    PROVE  Spec => Consent
    <1>1. DownloadInv /\ [Next]_vars => [ConsentNow]_vars
        BY StepConsents DEF Next
    <1>2. QED
        BY <1>1, DownloadInvariant, PTL DEF Spec, Consent, ConsentNow

=============================================================================
