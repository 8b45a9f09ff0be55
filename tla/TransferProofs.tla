---------------------------- MODULE TransferProofs ----------------------------
(***************************************************************************)
(* What the transfer keeps, for every payload, and that it implements      *)
(* MovieCustody.  Nothing here depends on the number of controllers but    *)
(* what DownloadProofs says of one: a transfer begins when all are off,    *)
(* and none begins after it.                                               *)
(***************************************************************************)
EXTENDS MovieTransfer, DownloadProofs

-----------------------------------------------------------------------------
(* The inductive invariant *)

AllRemote == \A p \in Sources : remote[p] = "whole"
AllLocal  == \A p \in Sources : local[p] = "whole"

\* The torrent has been validated and is not known to be erased.
Validated == {"manifest", "mkdir", "copy", "stop", "close", "erase", "confirm"}

\* The copy is done.
Copied == {"stop", "close", "erase", "confirm", "remove", "rmdir"}

\* No path is touched before the torrent is gone, which never comes back, and
\* before everything is here, which is never cleared again.
OneSideWhole == AllRemote \/ (~torrent.there /\ AllLocal)

\* What the mover knows at each of its places; the torrent it validated stays
\* complete, because nothing but the mover commands it.
PlaceInv ==
    /\ mover.pc # "off" => mover.outcome = "none" /\ \A c \in Controllers : At(c, "off")
    /\ mover.pc \in Validated =>
          /\ AllRemote
          /\ torrent.there => torrent.bytes = Size /\ ~torrent.hashing
                              /\ torrent.mark = "READY_FOR_TRANSFER"
    /\ mover.pc = "mkdir" => \A p \in Sources : local[p] # "whole"
    /\ mover.pc = "copy" => \A p \in Sources : p < mover.at => local[p] = "whole"
    /\ mover.pc \in Copied => AllLocal
    /\ mover.pc \in {"remove", "rmdir"} => ~torrent.there
    /\ mover.pc = "remove" => \A p \in Sources : p < mover.at => remote[p] = "gone"
    /\ mover.pc = "rmdir" => \A p \in Sources : remote[p] = "gone"
    /\ mover.pc \in {"mkdir", "copy", "remove"} => mover.at \in Sources

CopyTyped ==
    /\ remote \in [Sources -> {"whole", "broken", "gone"}]
    /\ local \in [Sources -> {"none", "partial", "whole"}]
    /\ mover \in Mover

CopyInv == CopyTyped /\ OneSideWhole /\ PlaceInv /\ RetryIsSafe /\ CleanupReportIsTrue

-----------------------------------------------------------------------------
(* How the mover moves on, field by field *)

LEMMA PathsType == Paths \in Nat /\ Paths >= 1 /\ 1 \in Sources /\ 1 \in 1..(Paths + 1)
    BY PathsAssumption DEF Sources

LEMMA IdleType == Idle \in Mover
    BY PathsType DEF Idle, Mover, MoverPcs, Outcomes, Sources

LEMMA EnterEffect ==
    ASSUME mover \in Mover, NEW place \in MoverPcs, Enter(place)
    PROVE  /\ mover' \in Mover /\ mover'.pc = place /\ mover'.at = 1
           /\ mover'.outcome = mover.outcome
    <1> DEFINE next == [mover EXCEPT !.pc = place, !.at = 1]
    <1>1. next \in Mover /\ next.pc = place /\ next.at = 1 /\ next.outcome = mover.outcome
        BY PathsType DEF Mover
    <1>2. QED
        BY <1>1 DEF Enter

LEMMA OnwardEffect ==
    ASSUME mover \in Mover, mover.at \in Sources, NEW place \in MoverPcs, Onward(place)
    PROVE  /\ mover' \in Mover /\ mover'.outcome = mover.outcome
           /\ \/ mover.at = Paths /\ mover'.pc = place /\ mover'.at = 1
              \/ mover.at # Paths /\ mover'.pc = mover.pc /\ mover'.at = mover.at + 1
                 /\ mover'.at \in Sources
    <1>1. CASE mover.at = Paths
        <2>1. Enter(place)
            BY <1>1 DEF Onward, Enter
        <2>2. QED
            BY <1>1, <2>1, EnterEffect
    <1>2. CASE mover.at # Paths
        <2>1. mover.at + 1 \in Sources /\ mover.at + 1 \in 1..(Paths + 1)
            BY <1>2, PathsType DEF Sources
        <2>2. QED
            BY <1>2, <2>1 DEF Onward, Mover
    <1>3. QED
        BY <1>1, <1>2

LEMMA ReportEffect ==
    ASSUME NEW outcome \in Outcomes, Report(outcome)
    PROVE  mover' \in Mover /\ mover'.pc = "off" /\ mover'.outcome = outcome
    <1>1. mover' = [Idle EXCEPT !.outcome = outcome]
        BY DEF Report
    <1>2. QED
        BY <1>1, IdleType DEF Mover, Idle

LEMMA CleanupErrorEffect ==
    ASSUME NEW removed \in {"no", "unknown", "yes"}, NEW left \in SUBSET Sources,
           CleanupError(removed, left)
    PROVE  /\ mover' \in Mover /\ mover'.pc = "off" /\ mover'.outcome = "cleanup_failed"
           /\ mover'.removed = removed /\ mover'.left = left
    <1>1. mover' = [Idle EXCEPT !.outcome = "cleanup_failed", !.removed = removed, !.left = left]
        BY DEF CleanupError
    <1>2. QED
        BY <1>1, IdleType DEF Mover, Outcomes, Idle

-----------------------------------------------------------------------------
(* Every step of the mover keeps it *)

\* A run that ends before its cleanup says it failed only while nothing has
\* been touched on the seedbox.
LEMMA ReportKeeps ==
    ASSUME CopyInv, UNCHANGED local, UnchangedSeedbox, NEW outcome \in Outcomes, Report(outcome),
           outcome \notin {"cleanup_failed", "completed"},
           outcome \in {"copy_failed", "collision"} => AllRemote
    PROVE  CopyInv'
    <1>1. mover' \in Mover /\ mover'.pc = "off" /\ mover'.outcome = outcome
        BY ReportEffect
    <1>2. QED
        BY <1>1 DEF CopyInv, CopyTyped, OneSideWhole, PlaceInv, RetryIsSafe, CleanupReportIsTrue,
                    AllRemote, AllLocal, Validated, Copied, UnchangedSeedbox

\* A cleanup that ends early reports no more than is so.
LEMMA CleanupErrorKeeps ==
    ASSUME CopyInv, AllLocal, UNCHANGED <<local, remote>>, torrent'.there => torrent.there,
           NEW removed \in {"no", "unknown", "yes"}, NEW left \in SUBSET Sources,
           CleanupError(removed, left), removed = "yes" => ~torrent.there, Remaining \subseteq left
    PROVE  CopyInv'
    <1>1. /\ mover' \in Mover /\ mover'.pc = "off" /\ mover'.outcome = "cleanup_failed"
          /\ mover'.removed = removed /\ mover'.left = left
        BY CleanupErrorEffect
    <1>2. CopyTyped' /\ OneSideWhole' /\ PlaceInv' /\ RetryIsSafe'
        BY <1>1 DEF CopyInv, CopyTyped, OneSideWhole, PlaceInv, RetryIsSafe,
                    AllRemote, AllLocal, Validated, Copied
    <1>3. CleanupReportIsTrue'
        BY <1>1 DEF CleanupReportIsTrue, AllLocal, Remaining
    <1>4. QED
        BY <1>2, <1>3 DEF CopyInv

LEMMA BeginTransferKeeps ==
    ASSUME CopyInv, BeginTransfer
    PROVE  CopyInv'
    <1>1. mover' \in Mover /\ mover'.pc = "validate" /\ mover'.outcome = "none"
        BY IdleType DEF BeginTransfer, Mover, MoverPcs, Idle
    <1>2. QED
        BY <1>1 DEF BeginTransfer, CopyInv, CopyTyped, OneSideWhole, PlaceInv, RetryIsSafe,
                    CleanupReportIsTrue, AllRemote, AllLocal, Validated, Copied, UnchangedSeedbox, At

LEMMA ValidateKeeps ==
    ASSUME CopyInv, ValidateTorrent
    PROVE  CopyInv'
    <1>1. CASE Report("rejected")
        BY <1>1, ReportKeeps DEF ValidateTorrent, Outcomes
    <1>2. CASE IsTransferable /\ Enter("manifest")
        <2>1. mover' \in Mover /\ mover'.pc = "manifest" /\ mover'.outcome = mover.outcome
            BY <1>2, EnterEffect DEF CopyInv, CopyTyped, MoverPcs
        <2>2. mover.pc = "validate"
            BY DEF ValidateTorrent
        <2>3. AllRemote
            BY <1>2 DEF CopyInv, OneSideWhole, IsTransferable
        <2>4. QED
            BY <1>2, <2>1, <2>2, <2>3
            DEF ValidateTorrent, CopyInv, CopyTyped, OneSideWhole, PlaceInv, RetryIsSafe,
                CleanupReportIsTrue, AllRemote, AllLocal, Validated, Copied, UnchangedSeedbox, At,
                IsTransferable, IsComplete
    <1>3. QED
        BY <1>1, <1>2 DEF ValidateTorrent

LEMMA ManifestKeeps ==
    ASSUME CopyInv, BuildManifest \/ ManifestFails
    PROVE  CopyInv'
    <1>0. /\ mover.pc = "manifest" /\ UNCHANGED local /\ UnchangedSeedbox /\ AllRemote
        BY DEF BuildManifest, ManifestFails, CopyInv, PlaceInv, Validated
    <1>1. CASE Report("rejected") \/ Report("collision")
        BY <1>0, <1>1, ReportKeeps DEF Outcomes
    <1>2. CASE (\A p \in Sources : remote[p] # "gone" /\ local[p] = "none") /\ Enter("mkdir")
        <2>1. /\ mover' \in Mover /\ mover'.pc = "mkdir" /\ mover'.at = 1
              /\ mover'.outcome = mover.outcome
            BY <1>2, EnterEffect DEF CopyInv, CopyTyped, MoverPcs
        <2>2. QED
            BY <1>0, <1>2, <2>1, PathsType
            DEF CopyInv, CopyTyped, OneSideWhole, PlaceInv, RetryIsSafe,
                CleanupReportIsTrue, AllRemote, AllLocal, Validated, Copied, UnchangedSeedbox, At
    <1>3. QED
        BY <1>1, <1>2 DEF BuildManifest, ManifestFails

LEMMA MakeDirectoryKeeps ==
    ASSUME CopyInv, MakeDirectory
    PROVE  CopyInv'
    <1>0. /\ mover.pc = "mkdir" /\ UnchangedSeedbox /\ AllRemote /\ mover.at \in Sources
        BY DEF MakeDirectory, CopyInv, PlaceInv, Validated
    <1>1. /\ mover' \in Mover /\ mover'.outcome = mover.outcome /\ mover'.at \in Sources
          /\ mover'.pc = "mkdir" \/ (mover'.pc = "copy" /\ mover'.at = 1)
        BY <1>0, OnwardEffect, PathsType DEF MakeDirectory, CopyInv, CopyTyped, MoverPcs
    <1>2. /\ local' \in [Sources -> {"none", "partial", "whole"}]
          /\ \A p \in Sources : local'[p] # "whole"
        BY <1>0 DEF MakeDirectory, CopyInv, CopyTyped, PlaceInv
    <1>3. \A p \in Sources : ~(p < 1)
        BY DEF Sources
    <1>4. QED
        BY <1>0, <1>1, <1>2, <1>3
        DEF CopyInv, CopyTyped, OneSideWhole, PlaceInv, RetryIsSafe,
            CleanupReportIsTrue, AllRemote, AllLocal, Validated, Copied, UnchangedSeedbox, At

LEMMA CopyFileKeeps ==
    ASSUME CopyInv, CopyFile
    PROVE  CopyInv'
    <1>0. /\ mover.pc = "copy" /\ UnchangedSeedbox /\ AllRemote /\ mover.at \in Sources
          /\ \A p \in Sources : p < mover.at => local[p] = "whole"
        BY DEF CopyFile, CopyInv, PlaceInv, Validated
    <1>1. CASE /\ local[mover.at] = "none"
               /\ local' = [local EXCEPT ![mover.at] = "partial"]
               /\ UNCHANGED mover
        <2>1. /\ local' \in [Sources -> {"none", "partial", "whole"}]
              /\ \A p \in Sources : p < mover.at => local'[p] = "whole"
            BY <1>0, <1>1 DEF CopyInv, CopyTyped, Sources
        <2>2. QED
            BY <1>0, <1>1, <2>1
            DEF CopyInv, CopyTyped, OneSideWhole, PlaceInv, RetryIsSafe,
                CleanupReportIsTrue, AllRemote, AllLocal, Validated, Copied, UnchangedSeedbox, At
    <1>2. CASE /\ local' = [local EXCEPT ![mover.at] = IF remote[mover.at] = "whole" THEN "whole" ELSE @]
               /\ Onward("stop")
        <2>1. local' = [local EXCEPT ![mover.at] = "whole"]
            BY <1>0, <1>2 DEF AllRemote
        <2>2. /\ local' \in [Sources -> {"none", "partial", "whole"}]
              /\ \A p \in Sources : p <= mover.at => local'[p] = "whole"
            BY <1>0, <2>1 DEF CopyInv, CopyTyped, Sources
        <2>3. /\ mover' \in Mover /\ mover'.outcome = mover.outcome
              /\ \/ mover'.pc = "stop" /\ mover.at = Paths
                 \/ mover'.pc = "copy" /\ mover'.at = mover.at + 1 /\ mover'.at \in Sources
            BY <1>0, <1>2, OnwardEffect DEF CopyInv, CopyTyped, MoverPcs
        <2>4. mover'.pc = "stop" => AllLocal'
            BY <2>2, <2>3 DEF AllLocal, Sources
        <2>5. mover'.pc = "copy" => \A p \in Sources : p < mover'.at => local'[p] = "whole"
            BY <1>0, <2>2, <2>3, PathsType DEF Sources
        <2>6. QED
            BY <1>0, <2>2, <2>3, <2>4, <2>5
            DEF CopyInv, CopyTyped, OneSideWhole, PlaceInv, RetryIsSafe,
                CleanupReportIsTrue, AllRemote, Validated, Copied, UnchangedSeedbox, At
    <1>3. QED
        BY <1>1, <1>2 DEF CopyFile

LEMMA CopyFailsKeeps ==
    ASSUME CopyInv, CopyFails
    PROVE  CopyInv'
    <1>1. AllRemote
        BY DEF CopyFails, CopyInv, PlaceInv, Validated
    <1>2. QED
        BY <1>1, ReportKeeps DEF CopyFails, Outcomes

\* A command to the torrent leaves what was validated as it was.
LEMMA CommandKeeps ==
    ASSUME CopyInv, NEW place \in {"stop", "close", "erase"}, NEW next \in {"close", "erase", "confirm"},
           NEW after, Command(place, next, after),
           \A t \in after : /\ t.there => torrent.there
                            /\ t.there => t.bytes = torrent.bytes /\ t.mark = torrent.mark
                            /\ t.hashing => torrent.hashing
    PROVE  CopyInv'
    <1>0. /\ mover.pc = place /\ UNCHANGED <<data, jobdir, probedir, ctl, remote, local>>
          /\ AllRemote /\ AllLocal
        BY DEF Command, CopyInv, PlaceInv, Validated, Copied
    <1>1. CASE torrent.there /\ torrent' \in after /\ Enter(next)
        <2>1. mover' \in Mover /\ mover'.pc = next /\ mover'.outcome = mover.outcome
            BY <1>1, EnterEffect DEF CopyInv, CopyTyped, MoverPcs
        <2>2. QED
            BY <1>0, <1>1, <2>1
            DEF CopyInv, CopyTyped, OneSideWhole, PlaceInv, RetryIsSafe, CleanupReportIsTrue,
                AllRemote, AllLocal, Validated, Copied, At
    <1>2. CASE CleanupError("unknown", Sources) /\ UNCHANGED torrent
        BY <1>0, <1>2, CleanupErrorKeeps DEF Remaining
    <1>3. QED
        BY <1>1, <1>2 DEF Command

LEMMA TorrentCommandsKeep ==
    ASSUME TypeOK, CopyInv, StopTorrent \/ CloseTorrent \/ EraseTorrent
    PROVE  CopyInv'
    <1>1. CASE StopTorrent
        BY <1>1, StopEffect, CommandKeeps DEF StopTorrent, TypeOK, Kept
    <1>2. CASE CloseTorrent
        BY <1>2, CloseEffect, CommandKeeps DEF CloseTorrent, TypeOK, Kept
    <1>3. CASE EraseTorrent
        <2>1. ~Erased(torrent).there /\ ~Erased(torrent).hashing
            BY DEF TypeOK, Erased, Torrent
        <2>2. QED
            BY <1>3, <2>1, CommandKeeps DEF EraseTorrent
    <1>4. QED
        BY <1>1, <1>2, <1>3

LEMMA ConfirmErasedKeeps ==
    ASSUME CopyInv, ConfirmErased
    PROVE  CopyInv'
    <1>0. mover.pc = "confirm" /\ UNCHANGED local /\ UnchangedSeedbox /\ AllRemote /\ AllLocal
        BY DEF ConfirmErased, CopyInv, PlaceInv, Validated, Copied
    <1>1. CASE ~torrent.there /\ Enter("remove")
        <2>1. /\ mover' \in Mover /\ mover'.pc = "remove" /\ mover'.at = 1
              /\ mover'.outcome = mover.outcome
            BY <1>1, EnterEffect DEF CopyInv, CopyTyped, MoverPcs
        <2>2. \A p \in Sources : ~(p < 1)
            BY DEF Sources
        <2>3. QED
            BY <1>0, <1>1, <2>1, <2>2, PathsType
            DEF CopyInv, CopyTyped, OneSideWhole, PlaceInv, RetryIsSafe, CleanupReportIsTrue,
                AllRemote, AllLocal, Validated, Copied, UnchangedSeedbox, At
    <1>2. CASE CleanupError("no", Sources)
        BY <1>0, <1>2, CleanupErrorKeeps DEF Remaining, UnchangedSeedbox
    <1>3. QED
        BY <1>1, <1>2 DEF ConfirmErased

LEMMA RemoveTreeKeeps ==
    ASSUME CopyInv, RemoveTree
    PROVE  CopyInv'
    <1>0. /\ mover.pc = "remove" /\ UNCHANGED <<torrent, jobdir, probedir, ctl, local>>
          /\ AllLocal /\ ~torrent.there /\ mover.at \in Sources
          /\ \A p \in Sources : p < mover.at => remote[p] = "gone"
        BY DEF RemoveTree, CopyInv, PlaceInv, Copied
    <1>1. CASE /\ remote[mover.at] = "whole"
               /\ remote' = [remote EXCEPT ![mover.at] = "broken"]
               /\ UNCHANGED mover
        <2>1. /\ remote' \in [Sources -> {"whole", "broken", "gone"}]
              /\ \A p \in Sources : p < mover.at => remote'[p] = "gone"
            BY <1>0, <1>1 DEF CopyInv, CopyTyped, Sources
        <2>2. QED
            BY <1>0, <1>1, <2>1
            DEF CopyInv, CopyTyped, OneSideWhole, PlaceInv, RetryIsSafe, CleanupReportIsTrue,
                AllLocal, Validated, Copied, At
    <1>2. CASE remote' = [remote EXCEPT ![mover.at] = "gone"] /\ Onward("rmdir")
        <2>1. /\ remote' \in [Sources -> {"whole", "broken", "gone"}]
              /\ \A p \in Sources : p <= mover.at => remote'[p] = "gone"
            BY <1>0, <1>2 DEF CopyInv, CopyTyped, Sources
        <2>2. /\ mover' \in Mover /\ mover'.outcome = mover.outcome
              /\ \/ mover'.pc = "rmdir" /\ mover.at = Paths
                 \/ mover'.pc = "remove" /\ mover'.at = mover.at + 1 /\ mover'.at \in Sources
            BY <1>0, <1>2, OnwardEffect DEF CopyInv, CopyTyped, MoverPcs
        <2>3. mover'.pc = "rmdir" => \A p \in Sources : remote'[p] = "gone"
            BY <2>1, <2>2 DEF Sources
        <2>4. mover'.pc = "remove" => \A p \in Sources : p < mover'.at => remote'[p] = "gone"
            BY <1>0, <2>1, <2>2, PathsType DEF Sources
        <2>5. QED
            BY <1>0, <2>1, <2>2, <2>3, <2>4
            DEF CopyInv, CopyTyped, OneSideWhole, PlaceInv, RetryIsSafe, CleanupReportIsTrue,
                AllLocal, Validated, Copied, At
    <1>3. QED
        BY <1>1, <1>2 DEF RemoveTree

LEMMA RemoveDirectoryKeeps ==
    ASSUME CopyInv, RemoveDirectory
    PROVE  CopyInv'
    <1>0. /\ mover.pc = "rmdir" /\ UNCHANGED <<torrent, ctl, remote, local>>
          /\ AllLocal /\ ~torrent.there /\ \A p \in Sources : remote[p] = "gone"
        BY DEF RemoveDirectory, CopyInv, PlaceInv, Copied
    <1>1. mover' = [Idle EXCEPT !.outcome = "completed", !.removed = "yes"]
        BY DEF RemoveDirectory
    <1>2. mover' \in Mover /\ mover'.pc = "off" /\ mover'.outcome = "completed"
        BY <1>1, IdleType DEF Mover, Outcomes, Idle
    <1>3. Remaining' = {}
        BY <1>0 DEF Remaining
    <1>4. QED
        BY <1>0, <1>2, <1>3
        DEF CopyInv, CopyTyped, OneSideWhole, PlaceInv, RetryIsSafe, CleanupReportIsTrue,
            AllRemote, AllLocal, Validated, Copied

LEMMA RemoveFailsKeeps ==
    ASSUME CopyInv, RemoveFails
    PROVE  CopyInv'
    <1>0. /\ AllLocal /\ ~torrent.there /\ UNCHANGED local /\ UnchangedSeedbox
        BY DEF RemoveFails, CopyInv, PlaceInv, Copied
    <1>1. PICK unseen \in SUBSET Sources : CleanupError("yes", Remaining \cup unseen)
        BY DEF RemoveFails
    <1>2. Remaining \cup unseen \in SUBSET Sources
        BY DEF Remaining
    <1>3. QED
        BY <1>0, <1>1, <1>2, CleanupErrorKeeps DEF UnchangedSeedbox

LEMMA CleanupOfflineKeeps ==
    ASSUME TypeOK, CopyInv, CleanupOffline
    PROVE  CopyInv'
    <1>1. AllLocal /\ UNCHANGED <<local, remote>> /\ CleanupError("unknown", Sources)
        BY DEF CleanupOffline, CopyInv, PlaceInv, Copied
    <1>2. torrent'.there => torrent.there
        BY DEF CleanupOffline, Erased, TypeOK, Torrent
    <1>3. QED
        BY <1>1, <1>2, CleanupErrorKeeps DEF Remaining

LEMMA TransferCrashKeeps ==
    ASSUME CopyInv, TransferCrash
    PROVE  CopyInv'
    <1>1. mover' \in Mover /\ mover'.pc = "off" /\ mover'.outcome = "none"
        BY IdleType DEF TransferCrash, Idle
    <1>2. QED
        BY <1>1 DEF TransferCrash, CopyInv, CopyTyped, OneSideWhole, PlaceInv, RetryIsSafe,
                    CleanupReportIsTrue, AllRemote, AllLocal, Validated, Copied, UnchangedSeedbox

\* The operator clears only what every source can replace.
LEMMA ClearLocalKeeps ==
    ASSUME CopyInv, ClearLocal
    PROVE  CopyInv'
    <1>1. AllRemote /\ local' \in [Sources -> {"none", "partial", "whole"}]
        BY DEF ClearLocal, CopyInv, RetryIsSafe, AllRemote
    <1>2. QED
        BY <1>1 DEF ClearLocal, CopyInv, CopyTyped, OneSideWhole, PlaceInv, RetryIsSafe,
                    CleanupReportIsTrue, AllRemote, Validated, Copied, UnchangedSeedbox

-----------------------------------------------------------------------------
(* The download beside it *)

\* A step of a controller that is off is the beginning of a run.
LEMMA OffBegins ==
    ASSUME NEW c \in Controllers, At(c, "off"), Work(c) \/ Failure(c)
    PROVE  FALSE
    <1>1. ~Setup(c)
        BY DEF Setup, Locate, PrepareDirectory, Handoff, StopProbe, Weigh, Stop, Close, Rename,
               Redirect, TagOwner, TagState, At
    <1>2. ~Startup(c)
        BY DEF Startup, Starting, CycleStop, CycleClose, CycleOpen, CycleStart, CycleResume, At
    <1>3. ~Finish(c)
        BY DEF Finish, Completed, Grace, Settle, Verify, PostCompletion, CleanupProbe, Ready, At
    <1>4. ~(Watching(c) \/ Disappeared(c) \/ Poll(c) \/ Halt(c) \/ Mark(c))
        BY DEF Watching, Disappeared, Poll, Halt, Mark, At
    <1>5. ~Failure(c)
        BY DEF Failure, TimeOut, HaltFails, Offline, StorageFails, Crash, At
    <1>6. QED
        BY <1>1, <1>2, <1>3, <1>4, <1>5 DEF Work

\* What was validated stays complete while no controller runs.
LEMMA EnvironmentSpares ==
    ASSUME TypeOK, Environment, torrent'.there, torrent.bytes = Size, ~torrent.hashing,
           torrent.mark = "READY_FOR_TRANSFER"
    PROVE  torrent'.bytes = Size /\ ~torrent'.hashing
    <1>1. ~Receive
        BY Sizes DEF Receive
    <1>2. ~EndHash /\ ~Hook
        BY DEF EndHash, Hook
    <1>3. ~Erase
        BY DEF Erase, Erased, TypeOK, Torrent
    <1>4. CASE RateDrops \/ ReportError
        BY <1>4 DEF RateDrops, ReportError, TypeOK, Torrent
    <1>5. QED
        BY <1>1, <1>2, <1>3, <1>4 DEF Environment

LEMMA DownloadKeepsCopy ==
    ASSUME TypeOK, CopyInv, DownloadStep
    PROVE  CopyInv'
    <1>0. UNCHANGED <<remote, local, mover>>
        BY DEF DownloadStep, transferVars
    <1>1. torrent'.there => torrent.there
        BY ControllerLeaves, EnvironmentEffect DEF DownloadStep
    <1>2. CopyTyped' /\ OneSideWhole' /\ RetryIsSafe' /\ CleanupReportIsTrue'
        BY <1>0, <1>1 DEF CopyInv, CopyTyped, OneSideWhole, RetryIsSafe, CleanupReportIsTrue,
                          AllRemote, AllLocal, Remaining
    <1>3. CASE mover.pc = "off"
        BY <1>0, <1>2, <1>3 DEF CopyInv, PlaceInv, Validated, Copied
    <1>4. CASE mover.pc # "off"
        <2>1. Environment
            <3>1. \A c \in Controllers : At(c, "off")
                BY <1>4 DEF CopyInv, PlaceInv
            <3>2. ~NotBegun
                BY <1>4 DEF NotBegun, Idle
            <3>3. QED
                BY <3>1, <3>2, OffBegins DEF DownloadStep
        <2>2. UNCHANGED ctl /\ torrent'.mark = torrent.mark
            BY <2>1, EnvironmentEffect
        <2>3. PlaceInv'
            BY <1>0, <1>1, <2>1, <2>2, EnvironmentSpares
            DEF CopyInv, PlaceInv, AllRemote, AllLocal, Validated, Copied, At
        <2>4. QED
            BY <1>2, <2>3 DEF CopyInv
    <1>5. QED
        BY <1>3, <1>4

LEMMA InitCopy == TransferInit => TypeOK /\ CopyInv
    <1> SUFFICES ASSUME TransferInit PROVE TypeOK /\ CopyInv
        OBVIOUS
    <1>1. TypeOK
        BY InitType DEF TransferInit
    <1>2. mover \in Mover /\ mover.pc = "off" /\ mover.outcome = "none"
        BY IdleType DEF TransferInit, Idle
    <1>3. QED
        BY <1>1, <1>2 DEF TransferInit, CopyInv, CopyTyped, OneSideWhole, PlaceInv, RetryIsSafe,
                          CleanupReportIsTrue, AllRemote, Validated, Copied

LEMMA CopyStutters ==
    ASSUME CopyInv, UNCHANGED <<torrent, ctl, remote, local, mover>>
    PROVE  CopyInv'
    BY DEF CopyInv, CopyTyped, OneSideWhole, PlaceInv, RetryIsSafe, CleanupReportIsTrue,
           AllRemote, AllLocal, Validated, Copied, Remaining, At

\* What the mover does to the torrent and its directory.
LEMMA MoverEffect ==
    ASSUME TypeOK, CopyInv, BeginTransfer \/ TransferWork \/ TransferFailure \/ ClearLocal
    PROVE  /\ UNCHANGED ctl
           /\ torrent' \in Torrent
           /\ torrent'.owner = torrent.owner /\ torrent'.mark = torrent.mark
           /\ torrent'.dir = torrent.dir
           /\ torrent'.there => torrent.there /\ torrent'.bytes = torrent.bytes
                                /\ (torrent'.hashing => torrent.hashing)
           /\ torrent.mode = "closed" => torrent'.mode = "closed"
           /\ data' = data \/ (data' = "none" /\ ~torrent.there)
           /\ jobdir' = jobdir \/ (jobdir' = "none" /\ ~torrent.there)
           /\ UNCHANGED probedir
           /\ torrent' = torrent \/ mover.pc \in Validated
           /\ UNCHANGED data \/ mover.pc # "off"
    <1>0. mover.pc \in {"stop", "close", "erase", "confirm"} => mover.pc \in Validated
        BY DEF Validated
    <1>1. CASE StopTorrent \/ CloseTorrent \/ EraseTorrent
        <2>1. UNCHANGED <<data, jobdir, probedir, ctl>> /\ mover.pc \in Validated
            BY <1>0, <1>1 DEF StopTorrent, CloseTorrent, EraseTorrent, Command
        <2>2. \/ torrent' = torrent \/ torrent' \in AfterStop(torrent)
              \/ torrent' \in AfterClose(torrent) \/ torrent' = Erased(torrent)
            BY <1>1 DEF StopTorrent, CloseTorrent, EraseTorrent, Command
        <2>3. CASE torrent' = torrent
            BY <2>1, <2>3 DEF TypeOK
        <2>4. CASE torrent' \in AfterStop(torrent) \/ torrent' \in AfterClose(torrent)
            BY <2>1, <2>4, StopEffect, CloseEffect DEF TypeOK, Kept
        <2>5. CASE torrent' = Erased(torrent)
            BY <2>1, <2>5, CopyTypes DEF TypeOK, Erased, Torrent
        <2>6. QED
            BY <2>2, <2>3, <2>4, <2>5
    <1>2. CASE CleanupOffline
        <2>1. torrent' = torrent \/ torrent' = Erased(torrent)
            BY <1>2 DEF CleanupOffline
        <2>2. QED
            BY ZenonT(40), <1>0, <1>2, <2>1, CopyTypes DEF CleanupOffline, TypeOK, Erased, Torrent
    <1>3. CASE RemoveTree \/ RemoveDirectory
        <2>1. ~torrent.there /\ UNCHANGED <<torrent, probedir, ctl>>
            BY <1>3 DEF RemoveTree, RemoveDirectory, CopyInv, PlaceInv
        <2>2. QED
            BY <1>3, <2>1 DEF RemoveTree, RemoveDirectory, TypeOK
    <1>4. CASE \/ BeginTransfer \/ ValidateTorrent \/ BuildManifest \/ MakeDirectory \/ CopyFile
               \/ ConfirmErased \/ ManifestFails \/ CopyFails \/ RemoveFails \/ TransferOffline
               \/ TransferCrash \/ ClearLocal
        <2>1. UnchangedSeedbox
            BY <1>4 DEF BeginTransfer, ValidateTorrent, BuildManifest, MakeDirectory, CopyFile,
                        ConfirmErased, ManifestFails, CopyFails, RemoveFails, TransferOffline,
                        TransferCrash, ClearLocal
        <2>2. QED
            BY <2>1 DEF UnchangedSeedbox, TypeOK
    <1>5. QED
        BY <1>1, <1>2, <1>3, <1>4 DEF TransferWork, TransferFailure

LEMMA OfflineKeeps ==
    ASSUME CopyInv, TransferOffline
    PROVE  CopyInv'
    BY ReportKeeps DEF TransferOffline, Outcomes

LEMMA TransferStepType ==
    ASSUME TypeOK, CopyInv, [TransferNext]_allVars
    PROVE  TypeOK'
    <1>1. CASE DownloadStep
        BY <1>1, StepType DEF DownloadStep, Next
    <1>2. CASE BeginTransfer \/ TransferWork \/ TransferFailure \/ ClearLocal
        BY <1>2, MoverEffect DEF TypeOK
    <1>3. CASE UNCHANGED allVars
        BY <1>3 DEF allVars, TypeOK
    <1>4. QED
        BY <1>1, <1>2, <1>3 DEF TransferNext

LEMMA TransferStepCopy ==
    ASSUME TypeOK, CopyInv, [TransferNext]_allVars
    PROVE  CopyInv'
    <1>1. CASE TransferWork
        BY <1>1, ValidateKeeps, ManifestKeeps, MakeDirectoryKeeps, CopyFileKeeps,
           TorrentCommandsKeep, ConfirmErasedKeeps, RemoveTreeKeeps, RemoveDirectoryKeeps
        DEF TransferWork
    <1>2. CASE TransferFailure
        BY <1>2, ManifestKeeps, CopyFailsKeeps, RemoveFailsKeeps, OfflineKeeps, CleanupOfflineKeeps,
           TransferCrashKeeps DEF TransferFailure
    <1>3. CASE UNCHANGED allVars
        BY <1>3, CopyStutters DEF allVars
    <1>4. QED
        BY <1>1, <1>2, <1>3, DownloadKeepsCopy, BeginTransferKeeps, ClearLocalKeeps DEF TransferNext

-----------------------------------------------------------------------------
(* The theorems *)

\* What the mover knows at each of its places is so, for any payload, over
\* failed copies, deaths, lost answers and reruns.
THEOREM TransferInvariant == TransferSpec => [](TypeOK /\ CopyInv)
    <1>1. TransferInit => TypeOK /\ CopyInv
        BY InitCopy
    <1>2. TypeOK /\ CopyInv /\ [TransferNext]_allVars => (TypeOK /\ CopyInv)'
        BY TransferStepType, TransferStepCopy
    <1>3. QED
        BY <1>1, <1>2, PTL DEF TransferSpec

\* Every variable of the download and of the transfer keeps its type.
THEOREM TransferTypes == TransferSpec => []TransferTypeOK
    <1>1. TypeOK /\ CopyInv => TransferTypeOK
        BY DEF CopyInv, CopyTyped, TransferTypeOK
    <1>2. QED
        BY <1>1, TransferInvariant, PTL

\* A transfer that says it failed before its cleanup has touched nothing on the
\* seedbox, and no run before it has.
THEOREM RetryHolds == TransferSpec => []RetryIsSafe
    <1>1. TypeOK /\ CopyInv => RetryIsSafe
        BY DEF CopyInv
    <1>2. QED
        BY <1>1, TransferInvariant, PTL

\* A report of the cleanup claims no more than is so.
THEOREM CleanupReportHolds == TransferSpec => []CleanupReportIsTrue
    <1>1. TypeOK /\ CopyInv => CleanupReportIsTrue
        BY DEF CopyInv
    <1>2. QED
        BY <1>1, TransferInvariant, PTL

-----------------------------------------------------------------------------
(* The abstract specification *)

\* What a step of the transfer is to MovieCustody.
CustodyStep == Custody!Copy \/ Custody!Discard \/ Custody!Release

LEMMA CopyFileIsCopy ==
    ASSUME CopyInv, CopyFile
    PROVE  CustodyStep \/ UNCHANGED <<Whole(remote), Whole(local)>>
    <1>0. mover.at \in Sources /\ remote[mover.at] = "whole" /\ UNCHANGED remote
        BY DEF CopyFile, CopyInv, PlaceInv, Validated, AllRemote, UnchangedSeedbox
    <1>1. CASE local[mover.at] = "none" /\ local' = [local EXCEPT ![mover.at] = "partial"]
        <2>1. Whole(local)' = Whole(local)
            BY <1>0, <1>1 DEF Whole, CopyInv, CopyTyped
        <2>2. QED
            BY <1>0, <2>1 DEF Whole
    <1>2. CASE local' = [local EXCEPT ![mover.at] = "whole"]
        <2>1. Whole(local)' = Whole(local) \cup {mover.at}
            BY <1>0, <1>2 DEF Whole, CopyInv, CopyTyped
        <2>2. mover.at \in Whole(remote) /\ UNCHANGED Whole(remote)
            BY <1>0 DEF Whole
        <2>3. QED
            BY <2>1, <2>2 DEF CustodyStep, Custody!Copy
    <1>3. QED
        BY <1>0, <1>1, <1>2 DEF CopyFile

LEMMA RemoveTreeIsRelease ==
    ASSUME CopyInv, RemoveTree
    PROVE  CustodyStep \/ UNCHANGED <<Whole(remote), Whole(local)>>
    <1>0. mover.at \in Sources /\ UNCHANGED local /\ Whole(local) = Sources
        BY DEF RemoveTree, CopyInv, PlaceInv, Copied, AllLocal, Whole
    <1>1. CASE remote[mover.at] = "whole" /\ remote' = [remote EXCEPT ![mover.at] = "broken"]
        <2>1. Whole(remote)' = Whole(remote) \ {mover.at} /\ mover.at \in Whole(remote)
            BY <1>0, <1>1 DEF Whole, CopyInv, CopyTyped
        <2>2. UNCHANGED Whole(local)
            BY <1>0 DEF Whole
        <2>3. QED
            BY <1>0, <2>1, <2>2 DEF CustodyStep, Custody!Release
    <1>2. CASE remote[mover.at] = "broken" /\ remote' = [remote EXCEPT ![mover.at] = "gone"]
        <2>1. Whole(remote)' = Whole(remote)
            BY <1>0, <1>2 DEF Whole, CopyInv, CopyTyped
        <2>2. QED
            BY <1>0, <2>1 DEF Whole
    <1>3. QED
        BY <1>1, <1>2 DEF RemoveTree

LEMMA ClearLocalIsDiscard ==
    ASSUME CopyInv, ClearLocal
    PROVE  CustodyStep
    <1>1. Whole(remote) = Sources /\ UNCHANGED remote
        BY DEF ClearLocal, CopyInv, RetryIsSafe, Whole, UnchangedSeedbox
    <1>2. Whole(local)' = {}
        BY DEF ClearLocal, Whole
    <1>3. UNCHANGED Whole(remote)
        BY <1>1 DEF Whole
    <1>4. QED
        BY <1>1, <1>2, <1>3 DEF CustodyStep, Custody!Discard

LEMMA MakeDirectoryStutters ==
    ASSUME CopyInv, MakeDirectory
    PROVE  UNCHANGED <<Whole(remote), Whole(local)>>
    <1>1. mover.at \in Sources /\ UNCHANGED remote /\ \A p \in Sources : local[p] # "whole"
        BY DEF MakeDirectory, CopyInv, PlaceInv, UnchangedSeedbox
    <1>2. \A p \in Sources : local'[p] # "whole"
        BY <1>1 DEF MakeDirectory, CopyInv, CopyTyped
    <1>3. QED
        BY <1>1, <1>2 DEF Whole

LEMMA CustodySimulated ==
    ASSUME CopyInv, [TransferNext]_allVars
    PROVE  [CustodyStep]_<<Whole(remote), Whole(local)>>
    <1>1. CASE UNCHANGED <<remote, local>>
        BY <1>1 DEF Whole
    <1>2. CASE \/ DownloadStep \/ BeginTransfer \/ ValidateTorrent \/ BuildManifest \/ StopTorrent
               \/ CloseTorrent \/ EraseTorrent \/ ConfirmErased \/ RemoveDirectory
               \/ TransferFailure \/ UNCHANGED allVars
        <2>1. UNCHANGED <<remote, local>>
            BY <1>2 DEF DownloadStep, transferVars, BeginTransfer, ValidateTorrent, BuildManifest,
                        StopTorrent, CloseTorrent, EraseTorrent, Command, ConfirmErased,
                        RemoveDirectory, TransferFailure, ManifestFails, CopyFails, RemoveFails,
                        TransferOffline, CleanupOffline, TransferCrash, UnchangedSeedbox, allVars
        <2>2. QED
            BY <1>1, <2>1
    <1>3. CASE MakeDirectory
        BY <1>3, MakeDirectoryStutters
    <1>4. CASE CopyFile \/ RemoveTree \/ ClearLocal
        BY <1>4, CopyFileIsCopy, RemoveTreeIsRelease, ClearLocalIsDiscard
    <1>5. QED
        BY <1>2, <1>3, <1>4 DEF TransferNext, TransferWork

\* The transfer implements MovieCustody: no file is given up on the seedbox
\* before all are here, and none thrown away here before all are there.
THEOREM CustodyHolds == TransferSpec => KeepsCustody
    <1>1. TransferInit => Custody!Init
        BY DEF TransferInit, Custody!Init, Whole
    <1>2. TypeOK /\ CopyInv /\ [TransferNext]_allVars
              => [CustodyStep]_<<Whole(remote), Whole(local)>>
        BY CustodySimulated
    <1>3. QED
        BY <1>1, <1>2, TransferInvariant, PTL
        DEF TransferSpec, KeepsCustody, Custody!Spec, CustodyStep

-----------------------------------------------------------------------------
(* The download's own promises, while a transfer takes it over *)

LEMMA MoverKeepsDownload ==
    ASSUME DownloadInv, CopyInv, BeginTransfer \/ TransferWork \/ TransferFailure \/ ClearLocal
    PROVE  DownloadInv'
    <1>1. TypeOK
        BY DEF DownloadInv
    <1>2. TypeOK'
        BY <1>1, TransferStepType DEF TransferNext
    <1>3. ASSUME NEW c \in Controllers PROVE ControllerInv(c)'
        <2>1. /\ UNCHANGED ctl /\ torrent'.owner = torrent.owner /\ torrent'.mark = torrent.mark
              /\ torrent'.dir = torrent.dir
              /\ torrent.mode = "closed" => torrent'.mode = "closed"
              /\ torrent'.there => /\ torrent.there /\ torrent'.bytes = torrent.bytes
                                   /\ torrent'.hashing => torrent.hashing
                                   /\ UNCHANGED <<data, jobdir>>
              /\ torrent' = torrent \/ mover.pc \in Validated
              /\ UNCHANGED data \/ mover.pc # "off"
            BY <1>1, MoverEffect
        <2>2. mover.pc # "off" => ctl[c].pc = "off"
            BY DEF CopyInv, PlaceInv, At
        <2>3. ConsentInv(c)'
            BY <1>3, <2>1 DEF DownloadInv, ControllerInv, ConsentInv
        <2>4. ASSUME torrent'.there PROVE HandoffInv(c)'
            BY <1>3, <2>1, <2>4 DEF DownloadInv, ControllerInv, HandoffInv, Ahead, Outside
        <2>5. ReadyInv(c)'
            <3>1. CASE torrent' = torrent
                BY <1>3, <2>1, <2>2, <3>1
                DEF DownloadInv, ControllerInv, ReadyInv, Delivered, Started, Revisiting
            <3>2. CASE mover.pc \in Validated
                <4>1. ctl[c].pc = "off"
                    BY <2>2, <3>2 DEF Validated
                <4>2. torrent'.there => torrent'.bytes = Size /\ ~torrent'.hashing
                    BY <2>1, <3>2 DEF CopyInv, PlaceInv
                <4>3. QED
                    BY <1>3, <2>1, <4>1, <4>2
                    DEF DownloadInv, ControllerInv, ReadyInv, Delivered, Revisiting
            <3>3. QED
                BY <2>1, <3>1, <3>2
        <2>6. QED
            BY <2>3, <2>4, <2>5 DEF ControllerInv
    <1>4. QED
        BY <1>2, <1>3 DEF DownloadInv

\* With one controller, which the flow's lock sees to, what it knows stays so
\* while the transfer works on its torrent.
THEOREM DownloadStaysSound ==
    ASSUME OneController
    PROVE  TransferSpec => [](DownloadInv /\ CopyInv)
    <1>1. TransferInit => DownloadInv /\ CopyInv
        BY InitCopy, InitKeeps DEF TransferInit
    <1>2. DownloadInv /\ CopyInv /\ [TransferNext]_allVars => (DownloadInv /\ CopyInv)'
        <2> SUFFICES ASSUME DownloadInv, CopyInv, [TransferNext]_allVars
                     PROVE  DownloadInv' /\ CopyInv'
            OBVIOUS
        <2>1. CopyInv'
            BY TransferStepCopy DEF DownloadInv
        <2>2. CASE DownloadStep
            BY <2>1, <2>2, DownloadStepKeeps DEF DownloadStep
        <2>3. CASE UNCHANGED allVars
            BY <2>1, <2>3, StutterKeeps DEF allVars
        <2>4. QED
            BY <2>1, <2>2, <2>3, MoverKeepsDownload DEF TransferNext
    <1>3. QED
        BY <1>1, <1>2, PTL DEF TransferSpec

\* Files that have moved ahead of their torrent never meet an open one.
THEOREM HandoffHoldsInTransfer ==
    ASSUME OneController
    PROVE  TransferSpec => []HandoffKeepsFiles
    <1>1. DownloadInv => HandoffKeepsFiles
        BY InvHandoff
    <1>2. QED
        BY <1>1, DownloadStaysSound, PTL

\* What is reported or marked ready is whole and where the torrent says, until
\* the transfer has removed the torrent.
THEOREM ReadyHoldsInTransfer ==
    ASSUME OneController
    PROVE  TransferSpec => []ReadyIsVerified
    <1>1. DownloadInv => ReadyIsVerified
        BY InvReady
    <1>2. QED
        BY <1>1, DownloadStaysSound, PTL

\* No command of the download reaches another job's torrent, or a stalled one
\* unasked.
THEOREM ConsentHoldsInTransfer ==
    ASSUME OneController
    PROVE  TransferSpec => Consent
    <1>1. DownloadInv /\ CopyInv /\ [TransferNext]_allVars => [ConsentNow]_vars
        <2> SUFFICES ASSUME DownloadInv, CopyInv, [TransferNext]_allVars
                     PROVE  ConsentNow
            OBVIOUS
        <2>1. CASE DownloadStep
            BY <2>1, StepConsents DEF DownloadStep
        <2>2. CASE BeginTransfer \/ TransferWork \/ TransferFailure \/ ClearLocal
            BY <2>2, MoverEffect, StepConsents DEF DownloadInv
        <2>3. CASE UNCHANGED allVars
            BY <2>3, StepConsents DEF allVars
        <2>4. QED
            BY <2>1, <2>2, <2>3 DEF TransferNext
    <1>2. QED
        BY <1>1, DownloadStaysSound, PTL DEF TransferSpec, Consent, ConsentNow

=============================================================================
