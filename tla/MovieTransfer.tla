--------------------------- MODULE MovieTransfer ---------------------------
(***************************************************************************)
(* The transfer of media_scope/transfer_service.py, composed with the      *)
(* download whose READY_FOR_TRANSFER torrent it takes over: it copies the  *)
(* payload over SFTP into the movies directory and, when all of it is      *)
(* there, erases the torrent and removes the remote files.                 *)
(*                                                                         *)
(* The copy writes in place and keeps no journal.  It may break off, die   *)
(* or be answered nothing at any command, be run again, and its operator   *)
(* may remove what a failed run left.                                      *)
(***************************************************************************)
EXTENDS TorrentDownload

CONSTANT Paths     \* how many top-level paths the payload has

ASSUME PathsAssumption == Paths \in Nat \ {0}

Sources == 1..Paths

VARIABLES
    remote,     \* the top-level paths on the seedbox
    local,      \* their destinations in the movies directory
    mover       \* the process that runs media-transfer-movie

transferVars == <<remote, local, mover>>
allVars      == <<torrent, data, jobdir, probedir, ctl, remote, local, mover>>

MoverPcs == {"off", "validate", "manifest", "mkdir", "copy", "stop", "close", "erase", "confirm",
             "remove", "rmdir"}

Outcomes == {"none", "rejected", "offline", "collision", "copy_failed", "cleanup_failed",
             "completed"}

\* at: the source it works on;
\* removed, left: torrent_removed and remaining_remote_paths of its report.
Mover == [pc : MoverPcs, at : 1..(Paths + 1), outcome : Outcomes,
          removed : {"no", "unknown", "yes"}, left : SUBSET Sources]

Idle == [pc |-> "off", at |-> 1, outcome |-> "none", removed |-> "no", left |-> {}]

TransferInit ==
    /\ Init
    /\ remote = [p \in Sources |-> "whole"]
    /\ local = [p \in Sources |-> "none"]
    /\ mover = Idle

Enter(place) == mover' = [mover EXCEPT !.pc = place, !.at = 1]

\* Mutant: the loop over the sources starts over.
OnwardAround(place) == mover' = [mover EXCEPT !.at = 1 + (@ % Paths)]

\* A loop over the sources: the next one, or what comes after the last.
Onward(place) == mover' = IF mover.at = Paths THEN [mover EXCEPT !.pc = place, !.at = 1]
                          ELSE [mover EXCEPT !.at = @ + 1]

Report(outcome) == mover' = [Idle EXCEPT !.outcome = outcome]

CleanupError(removed, left) ==
    mover' = [Idle EXCEPT !.outcome = "cleanup_failed", !.removed = removed, !.left = left]

UnchangedSeedbox == UNCHANGED <<torrent, data, jobdir, probedir, ctl, remote>>

-----------------------------------------------------------------------------
(* run: validation and the manifest *)

\* The stage is given the report of a download that ended ready.
BeginTransfer ==
    /\ mover.pc = "off"
    /\ \A c \in Controllers : At(c, "off")
    /\ \E c \in Controllers : ctl[c].verdict = "ready"
    /\ mover' = [Idle EXCEPT !.pc = "validate"]
    /\ UNCHANGED local /\ UnchangedSeedbox

IsTransferable == /\ torrent.there /\ torrent.owner = "job"
                  /\ torrent.mark = "READY_FOR_TRANSFER" /\ IsComplete(torrent)

ValidateTorrent ==
    /\ mover.pc = "validate"
    /\ \/ IsTransferable /\ Enter("manifest")
       \/ ~IsTransferable /\ Report("rejected")
    /\ UNCHANGED local /\ UnchangedSeedbox

\* No destination may exist, whoever made it.
BuildManifest ==
    /\ mover.pc = "manifest"
    /\ \/ /\ \E p \in Sources : remote[p] = "gone"
          /\ Report("rejected")
       \/ /\ \A p \in Sources : remote[p] # "gone"
          /\ \E p \in Sources : local[p] # "none"
          /\ Report("collision")
       \/ /\ \A p \in Sources : remote[p] # "gone" /\ local[p] = "none"
          /\ Enter("mkdir")
    /\ UNCHANGED local /\ UnchangedSeedbox

\* An unsafe path or a root the seedbox refuses to resolve.
ManifestFails ==
    /\ mover.pc = "manifest"
    /\ Report("rejected")
    /\ UNCHANGED local /\ UnchangedSeedbox

-----------------------------------------------------------------------------
(* _transfer *)

\* A source is a directory, or a file and has none to make.
MakeDirectory ==
    /\ mover.pc = "mkdir"
    /\ local' \in {local, [local EXCEPT ![mover.at] = "partial"]}
    /\ Onward("copy")
    /\ UnchangedSeedbox

\* A destination exists from its first byte and is whole with its last.
CopyFile ==
    /\ mover.pc = "copy"
    /\ \/ /\ local[mover.at] = "none"
          /\ local' = [local EXCEPT ![mover.at] = "partial"]
          /\ UNCHANGED mover
       \/ /\ local[mover.at] # "none"
          /\ local' = [local EXCEPT ![mover.at] = IF remote[mover.at] = "whole" THEN "whole" ELSE @]
          /\ Onward("stop")
    /\ UnchangedSeedbox

\* Mutant: a copy that breaks off is followed by the cleanup as well.
CopyFailsOn ==
    /\ mover.pc \in {"mkdir", "copy"}
    /\ Enter("stop")
    /\ UNCHANGED local /\ UnchangedSeedbox

\* No file is tried twice.
CopyFails ==
    /\ mover.pc \in {"mkdir", "copy"}
    /\ Report("copy_failed")
    /\ UNCHANGED local /\ UnchangedSeedbox

-----------------------------------------------------------------------------
(* _cleanup: the torrent, then the files *)

\* A command to a torrent that is gone is answered with a fault.
Command(place, next, after) ==
    /\ mover.pc = place
    /\ \/ /\ torrent.there
          /\ torrent' \in after
          /\ Enter(next)
       \/ /\ ~torrent.there
          /\ CleanupError("unknown", Sources)
          /\ UNCHANGED torrent
    /\ UNCHANGED <<data, jobdir, probedir, ctl, remote, local>>

StopTorrent  == Command("stop", "close", AfterStop(torrent))
CloseTorrent == Command("close", "erase", AfterClose(torrent))
EraseTorrent == Command("erase", "confirm", {torrent, Erased(torrent)})

\* Mutant: the erase is taken for granted.
ConfirmErasedBlindly ==
    /\ mover.pc = "confirm"
    /\ Enter("remove")
    /\ UNCHANGED local /\ UnchangedSeedbox

ConfirmErased ==
    /\ mover.pc = "confirm"
    /\ \/ ~torrent.there /\ Enter("remove")
       \/ torrent.there /\ CleanupError("no", Sources)
    /\ UNCHANGED local /\ UnchangedSeedbox

\* A tree goes child by child, its root last; a root that is not there fails.
RemoveTree ==
    /\ mover.pc = "remove"
    /\ LET p == mover.at
       IN  \/ /\ remote[p] = "whole"
              /\ remote' = [remote EXCEPT ![p] = "broken"]
              /\ UNCHANGED mover
           \/ /\ remote[p] = "broken"
              /\ remote' = [remote EXCEPT ![p] = "gone"]
              /\ Onward("rmdir")
    /\ data' = IF \A p \in Sources : remote'[p] = "gone" THEN "none" ELSE data
    /\ UNCHANGED <<torrent, jobdir, probedir, ctl, local>>

\* The job directory goes too when it is empty: other files may lie in it.
RemoveDirectory ==
    /\ mover.pc = "rmdir"
    /\ jobdir' \in {"none", jobdir}
    /\ mover' = [Idle EXCEPT !.outcome = "completed", !.removed = "yes"]
    /\ UNCHANGED <<torrent, data, probedir, ctl, remote, local>>

Remaining == {p \in Sources : remote[p] # "gone"}

\* Mutant: a source is remaining when nothing of it was removed.
RemoveFailsShort ==
    /\ mover.pc \in {"remove", "rmdir"}
    /\ CleanupError("yes", {p \in Sources : remote[p] = "whole"})
    /\ UNCHANGED local /\ UnchangedSeedbox

\* A source that cannot be looked at is counted as remaining.
RemoveFails ==
    /\ mover.pc \in {"remove", "rmdir"}
    /\ \E unseen \in SUBSET Sources : CleanupError("yes", Remaining \cup unseen)
    /\ UNCHANGED local /\ UnchangedSeedbox

-----------------------------------------------------------------------------
(* Failures and the operator *)

\* The gateway or the SFTP session is lost before the copy: exit code 4.
TransferOffline ==
    /\ mover.pc \in {"validate", "manifest"}
    /\ Report("offline")
    /\ UNCHANGED local /\ UnchangedSeedbox

\* An unanswered command may have been carried out.
CleanupOffline ==
    /\ mover.pc \in {"stop", "close", "erase", "confirm"}
    /\ torrent' \in {torrent} \cup IF mover.pc = "erase" /\ torrent.there THEN {Erased(torrent)} ELSE {}
    /\ CleanupError("unknown", Sources)
    /\ UNCHANGED <<data, jobdir, probedir, ctl, remote, local>>

TransferCrash ==
    /\ mover.pc # "off"
    /\ mover' = Idle
    /\ UNCHANGED local /\ UnchangedSeedbox

\* "Partial local files may remain and must be removed manually before retrying."
ClearLocal ==
    /\ mover.pc = "off" /\ mover.outcome \in {"copy_failed", "collision"}
    /\ local' = [p \in Sources |-> "none"]
    /\ UNCHANGED mover /\ UnchangedSeedbox

-----------------------------------------------------------------------------

TransferWork == \/ ValidateTorrent \/ BuildManifest \/ MakeDirectory \/ CopyFile \/ StopTorrent
                \/ CloseTorrent \/ EraseTorrent \/ ConfirmErased \/ RemoveTree \/ RemoveDirectory

TransferFailure == \/ ManifestFails \/ CopyFails \/ RemoveFails \/ TransferOffline
                   \/ CleanupOffline \/ TransferCrash

NotBegun == mover = Idle /\ \A p \in Sources : local[p] = "none"

\* The flow downloads a movie before it transfers it, and not again afterwards.
DownloadStep == /\ \/ \E c \in Controllers : (NotBegun /\ Begin(c)) \/ Work(c) \/ Failure(c)
                   \/ Environment
                /\ UNCHANGED transferVars

TransferNext == DownloadStep \/ BeginTransfer \/ TransferWork \/ TransferFailure \/ ClearLocal

\* The download's fairness, and a transfer that runs takes its next step: every
\* request has a timeout.
TransferFairness ==
    /\ \A c \in Controllers :
          /\ WF_allVars(Work(c) /\ UNCHANGED transferVars)
          /\ WF_allVars(~torrent.there /\ (Offline(c) \/ HaltFails(c)) /\ UNCHANGED transferVars)
    /\ WF_allVars(TransferWork)

TransferSpec == TransferInit /\ [][TransferNext]_allVars /\ TransferFairness

-----------------------------------------------------------------------------
(* Properties *)

TransferTypeOK ==
    /\ TypeOK
    /\ remote \in [Sources -> {"whole", "broken", "gone"}]
    /\ local \in [Sources -> {"none", "partial", "whole"}]
    /\ mover \in Mover

\* A transfer that said it failed, or met what another left, has touched nothing
\* on the seedbox, and no run before it has: its operator may remove the local
\* files and run it again.
RetryIsSafe ==
    mover.outcome \in {"copy_failed", "collision"} => \A p \in Sources : remote[p] = "whole"

\* A report of a transfer whose cleanup failed, or succeeded, does not claim
\* more than is so: everything is here, the torrent is gone when it says so, and
\* every path not listed as remaining is gone.
CleanupReportIsTrue ==
    mover.outcome \in {"cleanup_failed", "completed"} =>
        /\ \A p \in Sources : local[p] = "whole"
        /\ mover.removed = "yes" => ~torrent.there
        /\ Remaining \subseteq mover.left

Whole(files) == {p \in Sources : files[p] = "whole"}

Custody == INSTANCE MovieCustody
    WITH Files <- Sources, seedbox <- Whole(remote), kept <- Whole(local)

\* Over failed copies, deaths, reruns and what operators remove, no file is given
\* up on one side before all are on the other.
KeepsCustody == Custody!Spec

\* Every transfer ends, whatever has become of the torrent.
EveryTransferEnds == mover.pc # "off" ~> mover.pc = "off"
=============================================================================
