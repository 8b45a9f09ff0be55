------------------------- MODULE AcquisitionProofs -------------------------
(***************************************************************************)
(* The probe, for any torrents, any number of jobs and any queues they are *)
(* given by the hand-offs of Acquisition: over lost answers, deaths and    *)
(* reruns, and whatever rTorrent and its other users do meanwhile, a job   *)
(* leaves the torrents of others alone, accounts for its own, and hands on *)
(* a torrent that is held.                                                 *)
(***************************************************************************)
EXTENDS Acquisition, SequenceTheorems, TLAPS

-----------------------------------------------------------------------------
(* The inductive invariant *)

Working == prober.pc \notin {"off", "job", "end"}

\* Where the torrent at work is the job's own, and where it may yet be kept.
Holding == {"confirm", "tag", "activate", "stop", "stopped", "mark",
            "clean_look", "clean_stop", "clean_erase", "clean_check", "clean_dir"}
Keeping == {"stop", "stopped", "mark"}

\* A job that runs has a number and, until it is over, a torrent to work on.
JobInv ==
    /\ ~ProberAt("off") => prober.job > 0
    /\ Working \/ ProberAt("job") => prober.queue # << >>

\* What the place of the job tells of what it found and did.
PlaceInv ==
    Working =>
        /\ prober.look = "none" <=> ProberAt("look")
        /\ ProberAt("look") => ~prober.created
        /\ prober.pc \in {"mkdir", "submit"} => prober.look = "absent"
        /\ ProberAt("look_again") => prober.look # "present"
        /\ prober.pc \in Holding => prober.created
        /\ prober.pc \in Keeping => ~prober.preflight

\* A torrent that is taken for the job's own, or that it has not seen, is its own,
\* or came after the look, or the look was not answered.
ForeignInv ==
    Working /\ There(Target) /\ (prober.created \/ prober.look = "absent") =>
        known[Target].by = prober.job \/ prober.arrived \/ prober.look = "unanswered"

Own(h) == known[h].by = prober.job \/ <<prober.job, h>> \in inflight

Told(h) == h \in prober.lost \cup prober.kept \/ prober.dirty

\* The torrent at work is still to be cleaned up, or to be selected.
Pending == \/ ProberAt("look_again")
           \/ /\ prober.created /\ ~ProberAt("clean_dir")
              /\ ProberAt("next") => prober.healthy /\ ~prober.preflight

\* No torrent is of a job to come; what is of this one is told of, but for the
\* torrent at work.
AccountInv ==
    /\ \A h \in Torrents : known[h].by <= prober.job
    /\ \A s \in inflight : s[1] <= prober.job
    /\ ProberAt("job") => \A h \in Torrents : ~Own(h)
    /\ Working => \A h \in Torrents : Own(h) => Told(h) \/ (h = Target /\ Pending)
    /\ ProberAt("end") \/ (ProberAt("off") /\ prober.exit # 9) =>
          \A h \in Torrents : Own(h) => Told(h) \/ h \in prober.selected

Held(h) == known[h].by = prober.job =>
               known[h].meta /\ known[h].run = "stopped" /\ <<prober.job, h>> \in pdirs

\* On its way to be selected, a torrent of the job's own has its directory, its
\* metadata and, in the end, is stopped; it does not go and come back by itself.
WayInv ==
    Working =>
        /\ prober.pc \in Keeping \cup {"submit", "confirm", "tag", "activate"}
              \/ (ProberAt("wait") /\ prober.created) => <<prober.job, Target>> \in pdirs
        /\ prober.pc \in Keeping =>
              /\ known[Target].by = prober.job => known[Target].meta
              /\ ~There(Target) => <<prober.job, Target>> \notin inflight
        /\ ProberAt("stopped") /\ known[Target].by = prober.job => known[Target].run # "paused"
        /\ ProberAt("mark") /\ known[Target].by = prober.job => known[Target].run = "stopped"
        /\ ProberAt("next") /\ prober.healthy /\ ~prober.preflight /\ prober.created =>
              \/ Told(Target)
              \/ Held(Target) /\ <<prober.job, Target>> \notin inflight

\* What a job has selected it holds, or it has told of it; only a job that succeeded
\* has selected anything, and one that ends with a report and a code other than 7
\* cleaned up what it had to.
SelectedInv ==
    /\ ProberAt("end") => prober.exit \in {0, 5, 6}
    /\ ProberAt("off") => prober.exit \in {0, 4, 5, 6, 7, 9}
    /\ prober.pc \in {"end", "off"} /\ prober.exit = 0 =>
          \A h \in prober.selected : Told(h) \/ Held(h)
    /\ prober.pc \in {"end", "off"} /\ prober.exit \in {5, 6} => prober.selected = {}
    /\ ProberAt("off") /\ prober.exit \in {0, 5, 6} => ~prober.dirty

ProbeInv == JobInv /\ PlaceInv /\ ForeignInv /\ AccountInv /\ WayInv /\ SelectedInv

\* The torrents a hand-off has queued, and the results they are of.
Queue == Seq([hash : Hashes, of : Nat])

\* The hand-off is a record, and a rerun has a torrent to begin with.
HandoffInv ==
    /\ handoff = [pc |-> handoff.pc, candidates |-> handoff.candidates, next |-> handoff.next,
                  queue |-> handoff.queue, skipped |-> handoff.skipped]
    /\ HandoffAt("resolve") \/ HandoffAt("queued") => handoff.next \in Nat /\ handoff.queue \in Queue
    /\ HandoffAt("probing") => handoff.queue[1].hash \in Hashes

-----------------------------------------------------------------------------
(* What becomes of the job, field by field *)

LEMMA NewJobIs ==
    ASSUME NEW job \in 0..Jobs
    PROVE  /\ NewJob(job) \in Prober
           /\ NewJob(job).pc = "off" /\ NewJob(job).job = job /\ NewJob(job).queue = << >>
           /\ NewJob(job).preflight = FALSE /\ NewJob(job).keep = FALSE
           /\ NewJob(job).look = "none" /\ NewJob(job).created = FALSE
           /\ NewJob(job).dir = FALSE /\ NewJob(job).healthy = FALSE
           /\ NewJob(job).failures = 0 /\ NewJob(job).dirty = FALSE /\ NewJob(job).exit = 9
           /\ NewJob(job).selected = {} /\ NewJob(job).lost = {} /\ NewJob(job).kept = {}
           /\ NewJob(job).arrived = FALSE
    <1>1. << >> \in Seq(Hashes) /\ 0 \in 0..MaxFailures /\ 9 \in 0..9
        BY ProbeAssumption
    <1>2. "off" \in ProberPcs /\ "none" \in Looks
        BY DEF ProberPcs, Looks
    <1>3. NewJob(job) \in Prober
        BY <1>1, <1>2 DEF NewJob, Prober
    <1>4. QED
        BY <1>3 DEF NewJob

LEMMA TurnedIs ==
    ASSUME NEW p \in Prober
    PROVE  /\ Turned(p) \in Prober
           /\ Turned(p).pc = "look" /\ Turned(p).job = p.job /\ Turned(p).queue = p.queue
           /\ Turned(p).preflight = p.preflight /\ Turned(p).keep = p.keep
           /\ Turned(p).look = "none" /\ Turned(p).created = FALSE /\ Turned(p).dir = FALSE
           /\ Turned(p).healthy = FALSE /\ Turned(p).failures = 0
           /\ Turned(p).dirty = p.dirty /\ Turned(p).exit = p.exit
           /\ Turned(p).selected = p.selected /\ Turned(p).lost = p.lost
           /\ Turned(p).kept = p.kept /\ Turned(p).arrived = FALSE
    <1> DEFINE f == Turned(p)
    <1>1. 0 \in 0..MaxFailures /\ "look" \in ProberPcs /\ "none" \in Looks
        BY ProbeAssumption DEF ProberPcs, Looks
    <1>2. f = [p EXCEPT !.pc = "look", !.look = "none", !.created = FALSE, !.dir = FALSE,
                        !.healthy = FALSE, !.failures = 0, !.arrived = FALSE]
        BY DEF Turned
    <1> HIDE DEF f
    <1>3. f \in Prober
        BY <1>1, <1>2 DEF Prober
    <1>4. QED
        BY <1>2, <1>3 DEF Prober, f

LEMMA FinishIs ==
    ASSUME NEW p \in Prober, p.created /\ ~p.preflight => Target \in Hashes
    PROVE  /\ Finish(p) \in Prober
           /\ Finish(p).pc = (IF p.created /\ (p.preflight \/ ~p.keep) THEN "clean_look" ELSE "next")
           /\ Finish(p).job = p.job /\ Finish(p).queue = p.queue
           /\ Finish(p).preflight = p.preflight /\ Finish(p).keep = p.keep
           /\ Finish(p).look = p.look /\ Finish(p).created = p.created
           /\ Finish(p).dir = p.dir /\ Finish(p).healthy = p.healthy
           /\ Finish(p).failures = p.failures /\ Finish(p).dirty = p.dirty
           /\ Finish(p).exit = p.exit /\ Finish(p).selected = p.selected
           /\ Finish(p).lost = p.lost
           /\ Finish(p).kept = (IF p.created /\ ~p.preflight /\ p.keep THEN p.kept \cup {Target} ELSE p.kept)
           /\ Finish(p).arrived = p.arrived
    <1> DEFINE cleans == p.created /\ (p.preflight \/ ~p.keep)
               f == Finish(p)
    <1>0. p.created \in BOOLEAN /\ p.preflight \in BOOLEAN /\ p.keep \in BOOLEAN
        BY DEF Prober
    <1>1. CASE cleans
        <2>1. f = [p EXCEPT !.pc = "clean_look"]
            BY <1>1 DEF Finish
        <2> HIDE DEF f
        <2>2. QED
            BY <1>1, <2>1 DEF Prober, ProberPcs, f
    <1>2. CASE ~cleans
        <2>1. f = [p EXCEPT !.pc = "next", !.kept = IF p.created THEN @ \cup {Target} ELSE @]
            BY <1>2 DEF Finish
        <2> HIDE DEF f
        <2>2. p.created => ~p.preflight /\ p.keep
            BY <1>0, <1>2
        <2>3. f \in Prober
            BY <2>1, <2>2 DEF Prober, ProberPcs
        <2>4. f.kept = (IF p.created /\ ~p.preflight /\ p.keep THEN p.kept \cup {Target} ELSE p.kept)
            BY <1>0, <2>1, <2>2 DEF Prober
        <2>5. QED
            BY <1>2, <2>1, <2>3, <2>4 DEF Prober, f
    <1>3. QED
        BY <1>1, <1>2

LEMMA OverIs ==
    ASSUME NEW p \in Prober, NEW exit \in 0..9, exit = 0 => Target \in Hashes
    PROVE  /\ Over(p, exit) \in Prober
           /\ Over(p, exit).pc = "end" /\ Over(p, exit).job = p.job
           /\ Over(p, exit).queue = << >> /\ Over(p, exit).preflight = FALSE
           /\ Over(p, exit).keep = FALSE /\ Over(p, exit).look = "none"
           /\ Over(p, exit).created = FALSE /\ Over(p, exit).dir = FALSE
           /\ Over(p, exit).healthy = FALSE /\ Over(p, exit).failures = 0
           /\ Over(p, exit).dirty = p.dirty /\ Over(p, exit).exit = exit
           /\ Over(p, exit).selected = (IF exit = 0 THEN {Target} ELSE {})
           /\ Over(p, exit).lost = p.lost /\ Over(p, exit).kept = p.kept
           /\ Over(p, exit).arrived = FALSE
    <1>1. p.job \in 0..Jobs
        BY DEF Prober
    <1> DEFINE new == NewJob(p.job)
               f == Over(p, exit)
    <1>2. f = [new EXCEPT !.pc = "end", !.exit = exit, !.kept = p.kept, !.dirty = p.dirty,
                          !.lost = p.lost, !.selected = IF exit = 0 THEN {Target} ELSE {}]
        BY DEF Over
    <1>3. new \in Prober /\ new.job = p.job /\ new.queue = << >> /\ new.preflight = FALSE
          /\ new.keep = FALSE /\ new.look = "none" /\ new.created = FALSE /\ new.dir = FALSE
          /\ new.healthy = FALSE /\ new.failures = 0 /\ new.arrived = FALSE
        BY <1>1, NewJobIs
    <1> HIDE DEF new, f
    <1> DEFINE chosen == IF exit = 0 THEN {Target} ELSE {}
    <1>4. chosen \in SUBSET Hashes /\ p.kept \in SUBSET Hashes /\ p.dirty \in BOOLEAN
          /\ p.lost \in SUBSET Torrents /\ "end" \in ProberPcs
        BY DEF Prober, ProberPcs
    <1>5. f = [new EXCEPT !.pc = "end", !.exit = exit, !.kept = p.kept, !.dirty = p.dirty,
                          !.lost = p.lost, !.selected = chosen]
        BY <1>2
    <1> HIDE DEF chosen
    <1>6. f \in Prober
        BY ZenonT(40), <1>3, <1>4, <1>5 DEF Prober
    <1> USE DEF chosen
    <1>7. QED
        BY <1>3, <1>5, <1>6 DEF Prober, f

-----------------------------------------------------------------------------
(* Types *)

LEMMA TargetIsTorrent ==
    ASSUME ProbeTypeOK, JobInv, Working
    PROVE  Target \in Torrents /\ (~prober.preflight => Target \in Hashes)
    <1>1. prober.queue \in Seq(Hashes) /\ prober.queue # << >>
        BY DEF ProbeTypeOK, Prober, JobInv
    <1>2. Head(prober.queue) \in Hashes
        BY <1>1
    <1>3. QED
        BY <1>2 DEF Target, Torrents

\* A job that goes on with the queue it has, or is over.
LEMMA JobGoesOn ==
    ASSUME ProbeTypeOK, JobInv, prober' \in Prober, prober'.job = prober.job, ~ProberAt("off"),
           prober'.queue = prober.queue \/ prober'.pc \in {"off", "end"},
           Working \/ ProberAt("job") \/ prober'.pc \in {"off", "end"}
    PROVE  JobInv'
    BY DEF JobInv, Working, ProberAt

\* Nothing but the job itself changes.
LEMMA RemoteType ==
    ASSUME ProbeTypeOK, JobInv, UNCHANGED remoteVars, prober' \in Prober
    PROVE  ProbeTypeOK'
    BY DEF ProbeTypeOK, remoteVars

LEMMA MoveType ==
    ASSUME ProbeTypeOK, NEW place \in ProberPcs, Move(place)
    PROVE  /\ prober' \in Prober /\ prober'.pc = place /\ prober'.job = prober.job
           /\ prober'.queue = prober.queue
    BY DEF ProbeTypeOK, Prober, Move

LEMMA FailType ==
    ASSUME ProbeTypeOK, NEW place \in ProberPcs, CleanupFails(place)
    PROVE  /\ prober' \in Prober /\ prober'.pc \in {place, "next"} /\ prober'.job = prober.job
           /\ prober'.queue = prober.queue
    BY ZenonT(40) DEF ProbeTypeOK, Prober, CleanupFails, ProberPcs

LEMMA LoadedType ==
    ASSUME ProbeTypeOK, NEW h \in Torrents, NEW job \in 0..Jobs, NEW run \in {"paused", "active"}
    PROVE  Loaded(h, job, run) \in [Torrents -> Entry \cup {Absent}]
    <1>1. [meta |-> FALSE, run |-> run, by |-> job] \in Entry
        BY DEF Entry
    <1>2. QED
        BY <1>1 DEF Loaded, ProbeTypeOK

\* The rest of a queue of more than one.
LEMMA TailLeft ==
    ASSUME NEW S, NEW q \in Seq(S), Len(q) > 1
    PROVE  Tail(q) \in Seq(S) /\ Tail(q) # << >>
    <1>1. Tail(q) \in Seq(S) /\ Len(Tail(q)) = Len(q) - 1
        BY q # << >>, HeadTailProperties
    <1>2. ASSUME NEW r \in Seq(S), Len(r) = Len(q) - 1 PROVE r # << >>
        BY <1>2
    <1>3. QED
        BY <1>1, <1>2

\* An own step of the job keeps the types.
LEMMA WorkType ==
    ASSUME ProbeTypeOK, JobInv, ProbeWork \/ MetadataTimeout
    PROVE  ProbeTypeOK' /\ JobInv'
    <1> USE ProbeAssumption
    <1>0. Working => Target \in Torrents /\ (~prober.preflight => Target \in Hashes)
        BY TargetIsTorrent
    <1>1. prober \in Prober /\ prober.job \in 0..Jobs /\ (~ProberAt("off") => prober.job \in 1..Jobs)
        BY DEF ProbeTypeOK, Prober, JobInv
    <1>2. Working => /\ Finish(prober) \in Prober /\ Finish(prober).job = prober.job
                     /\ Finish(prober).queue = prober.queue
                     /\ Finish(prober).pc \in {"clean_look", "next"}
        BY <1>0, <1>1, FinishIs
    <1>3. CASE PrepareJob
        <2>1. prober' \in Prober /\ prober'.job = prober.job /\ prober'.queue = prober.queue
            BY <1>3, <1>1, TurnedIs DEF PrepareJob
        <2>2. JobInv'
            BY <1>3, <2>1, JobGoesOn DEF PrepareJob, ProberAt
        <2>3. QED
            BY <1>3, <1>1, <2>1, <2>2 DEF PrepareJob, ProbeTypeOK, ProberAt
    <1>4. CASE EndProbe
        <2> DEFINE code == IF prober.dirty THEN 7 ELSE prober.exit
        <2>0. code \in 0..9 /\ prober' = [prober EXCEPT !.pc = "off", !.exit = code]
            BY <1>4, <1>1 DEF EndProbe, Prober
        <2> HIDE DEF code
        <2>1. prober' \in Prober /\ prober'.job = prober.job /\ prober'.pc = "off"
            BY <1>1, <2>0 DEF Prober, ProberPcs
        <2>2. JobInv'
            BY <1>4, <2>1, JobGoesOn DEF EndProbe, ProberAt
        <2>3. QED
            BY <1>4, <1>1, <2>1, <2>2 DEF EndProbe, ProbeTypeOK, ProberAt
    <1>5. CASE NextTorrent
        <2>1. Working /\ ProberAt("next")
            BY <1>5 DEF NextTorrent, Working, ProberAt
        <2> DEFINE t == Turned(prober)
        <2>2. /\ t \in Prober /\ t.pc = "look" /\ t.job = prober.job /\ t.queue = prober.queue
            BY <1>1, TurnedIs
        <2> HIDE DEF t
        <2>3. CASE \/ prober' = Over(prober, 5) \/ prober' = Over(prober, 6)
                   \/ (~prober.preflight /\ prober' = Over(prober, 0))
            <3>1. prober' \in Prober /\ prober'.job = prober.job /\ prober'.pc = "end"
                <4>1. /\ Over(prober, 5) \in Prober /\ Over(prober, 5).job = prober.job
                      /\ Over(prober, 5).pc = "end"
                    BY <1>1, 5 \in 0..9, 5 # 0, OverIs
                <4>2. /\ Over(prober, 6) \in Prober /\ Over(prober, 6).job = prober.job
                      /\ Over(prober, 6).pc = "end"
                    BY <1>1, 6 \in 0..9, 6 # 0, OverIs
                <4>3. ~prober.preflight => /\ Over(prober, 0) \in Prober
                                           /\ Over(prober, 0).job = prober.job
                                           /\ Over(prober, 0).pc = "end"
                    BY <1>0, <1>1, <2>1, 0 \in 0..9, OverIs
                <4>4. QED
                    BY <2>3, <4>1, <4>2, <4>3
            <3>2. QED
                BY <1>5, <2>1, <3>1, JobGoesOn, RemoteType DEF NextTorrent, ProberAt
        <2>4. CASE prober' = [t EXCEPT !.preflight = FALSE]
            <3>1. /\ prober' \in Prober /\ prober'.job = prober.job /\ prober'.pc = "look"
                  /\ prober'.queue = prober.queue
                BY <2>2, <2>4 DEF Prober
            <3>2. QED
                BY <1>5, <2>1, <3>1, JobGoesOn, RemoteType DEF NextTorrent, ProberAt
        <2>5. CASE Len(prober.queue) > 1 /\ prober' = [t EXCEPT !.queue = Tail(@)]
            <3>1. Tail(prober.queue) \in Seq(Hashes) /\ Tail(prober.queue) # << >>
                BY <1>1, <2>5, TailLeft DEF Prober
            <3>2. /\ prober' \in Prober /\ prober'.job = prober.job /\ prober'.pc = "look"
                  /\ prober'.queue = Tail(prober.queue)
                BY <2>2, <2>5, <3>1 DEF Prober
            <3>3. JobInv'
                BY <1>1, <2>1, <3>1, <3>2 DEF JobInv, ProberAt
            <3>4. QED
                BY <1>5, <3>2, <3>3, RemoteType DEF NextTorrent
        <2>6. QED
            BY <1>5, <2>3, <2>4, <2>5 DEF NextTorrent, t
    <1>6. CASE Look
        <2>1. prober' \in Prober /\ prober'.job = prober.job /\ prober'.queue = prober.queue
            BY ZenonT(40), <1>6, <1>1 DEF Look, Prober, ProberPcs, Looks
        <2>2. QED
            BY <1>6, <2>1, JobGoesOn, RemoteType DEF Look, ProberAt, Working
    <1>7. CASE MakeProbeDirectory
        <2>1. prober' \in Prober /\ prober'.job = prober.job /\ prober'.queue = prober.queue
            BY <1>7, <1>1 DEF MakeProbeDirectory, Prober, ProberPcs
        <2>2. JobInv'
            BY <1>7, <2>1, JobGoesOn DEF MakeProbeDirectory, ProberAt, Working
        <2>3. QED
            BY <1>0, <1>7, <1>1, <2>1, <2>2
            DEF MakeProbeDirectory, ProbeTypeOK, ProberAt, Working
    <1>8. CASE SubmitMagnet
        <2>1. prober' \in Prober /\ prober'.job = prober.job /\ prober'.queue = prober.queue
            <3>1. CASE Move("look_again")
                BY <3>1, MoveType DEF ProberPcs
            <3>2. CASE prober' = [prober EXCEPT !.pc = "confirm", !.created = TRUE]
                BY <1>1, <3>2 DEF Prober, ProberPcs
            <3>3. QED
                BY <1>8, <3>1, <3>2 DEF SubmitMagnet
        <2>2. JobInv'
            BY <1>8, <2>1, JobGoesOn DEF SubmitMagnet, ProberAt, Working
        <2>3. Target \in Torrents /\ prober.job \in 1..Jobs
            BY <1>0, <1>8, <1>1 DEF SubmitMagnet, ProberAt, Working
        <2>4. known' \in [Torrents -> Entry \cup {Absent}]
            <3>1. CASE UNCHANGED known
                BY <3>1 DEF ProbeTypeOK
            <3>2. CASE \E run \in {"paused", "active"} : known' = Loaded(Target, prober.job, run)
                BY <2>3, <3>2, LoadedType
            <3>3. QED
                BY <1>8, <3>1, <3>2 DEF SubmitMagnet
        <2>5. inflight' \subseteq (1..Jobs) \X Torrents
            BY <1>8, <2>3 DEF SubmitMagnet, ProbeTypeOK
        <2>6. QED
            BY <1>8, <2>1, <2>2, <2>4, <2>5 DEF SubmitMagnet, ProbeTypeOK
    <1>9. CASE ConfirmSubmission
        <2>1. prober' \in Prober /\ prober'.job = prober.job /\ prober'.queue = prober.queue
            BY <1>9, <1>1, <1>2 DEF ConfirmSubmission, Working, ProberAt, Prober, ProberPcs
        <2>2. QED
            BY <1>9, <2>1, JobGoesOn, RemoteType DEF ConfirmSubmission, ProberAt, Working
    <1>10. CASE TagProbe
        BY <1>10, MoveType, JobGoesOn, RemoteType DEF TagProbe, ProberAt, Working, ProberPcs
    <1>11. CASE ConfirmActivation
        <2>1. prober' \in Prober /\ prober'.job = prober.job /\ prober'.queue = prober.queue
            BY <1>11, <1>2, MoveType DEF ConfirmActivation, Working, ProberAt, ProberPcs
        <2>2. QED
            BY <1>11, <2>1, JobGoesOn, RemoteType DEF ConfirmActivation, ProberAt, Working
    <1>12. CASE AwaitMetadata
        <2> DEFINE p == [prober EXCEPT !.healthy = TRUE]
        <2>0. Working
            BY <1>12 DEF AwaitMetadata, Working, ProberAt
        <2>1. p \in Prober /\ p.job = prober.job /\ p.queue = prober.queue
              /\ p.created = prober.created /\ p.preflight = prober.preflight
            BY <1>1 DEF Prober
        <2> HIDE DEF p
        <2>2. Finish(p) \in Prober /\ Finish(p).job = prober.job /\ Finish(p).queue = prober.queue
            BY <1>0, <2>0, <2>1, FinishIs
        <2>3. prober' \in Prober /\ prober'.job = prober.job /\ prober'.queue = prober.queue
            <3>1. CASE prober' = Finish(p) \/ prober' = Finish(prober)
                BY <1>2, <2>0, <2>2, <3>1
            <3>2. CASE prober' = [prober EXCEPT !.pc = "stop"]
                BY <1>1, <3>2 DEF Prober, ProberPcs
            <3>3. CASE prober' = [prober EXCEPT !.failures = 0]
                BY SMTT(30), <1>1, <3>3 DEF Prober
            <3>4. CASE prober.failures + 1 < MaxFailures /\ prober' = [prober EXCEPT !.failures = @ + 1]
                <4>1. prober.failures + 1 \in 0..MaxFailures
                    BY <1>1, <3>4 DEF Prober
                <4>2. QED
                    BY <1>1, <3>4, <4>1 DEF Prober
            <3>5. QED
                BY <1>12, <3>1, <3>2, <3>3, <3>4 DEF AwaitMetadata, p
        <2>4. QED
            BY <1>12, <2>0, <2>3, JobGoesOn, RemoteType DEF AwaitMetadata, ProberAt
    <1>13. CASE StopSelected
        <2>1. Target \in Torrents /\ Working /\ ~ProberAt("off")
            BY <1>0, <1>13 DEF StopSelected, ProberAt, Working
        <2>2. known[Target] \in Entry
            BY <1>13, <2>1 DEF StopSelected, There, ProbeTypeOK
        <2>3. known' \in [Torrents -> Entry \cup {Absent}]
            BY <1>13, <2>1, <2>2 DEF StopSelected, AfterProbeStop, ProbeTypeOK, Entry
        <2>4. JobInv' /\ prober' \in Prober
            BY <1>13, <2>1, MoveType, JobGoesOn DEF StopSelected, ProberPcs
        <2>5. QED
            BY <1>13, <2>3, <2>4 DEF StopSelected, ProbeTypeOK
    <1>14. CASE ConfirmStopped
        <2>1. prober' \in Prober /\ prober'.job = prober.job /\ prober'.queue = prober.queue
            BY <1>14, <1>1, <1>2 DEF ConfirmStopped, Working, ProberAt, Prober, ProberPcs
        <2>2. QED
            BY <1>14, <2>1, JobGoesOn, RemoteType DEF ConfirmStopped, ProberAt, Working
    <1>15. CASE MarkValidated
        <2>1. prober' \in Prober /\ prober'.job = prober.job /\ prober'.queue = prober.queue
            BY <1>0, <1>15, <1>1 DEF MarkValidated, Working, ProberAt, Prober, ProberPcs, Unseen
        <2>2. QED
            BY <1>15, <2>1, JobGoesOn, RemoteType DEF MarkValidated, ProberAt, Working
    <1>16. CASE LookAgain
        <2> DEFINE p == [prober EXCEPT !.created = TRUE]
                   q == [prober EXCEPT !.lost = @ \cup {Target}]
        <2>0. Working /\ Target \in Torrents /\ (~prober.preflight => Target \in Hashes)
            BY <1>0, <1>16 DEF LookAgain, Working, ProberAt
        <2>1. /\ p \in Prober /\ p.job = prober.job /\ p.queue = prober.queue
              /\ p.preflight = prober.preflight
            BY <1>1 DEF Prober
        <2>2. /\ q \in Prober /\ q.job = prober.job /\ q.queue = prober.queue
              /\ q.preflight = prober.preflight
            BY <1>1, <2>0 DEF Prober
        <2>3. prober' = Finish(p) \/ prober' = Finish(q)
            BY <1>16 DEF LookAgain
        <2> HIDE DEF p, q
        <2>4. prober' \in Prober /\ prober'.job = prober.job /\ prober'.queue = prober.queue
            BY ZenonT(40), <2>0, <2>1, <2>2, <2>3, FinishIs
        <2>5. QED
            BY <1>16, <2>0, <2>4, JobGoesOn, RemoteType DEF LookAgain, ProberAt
    <1>17. CASE CleanLook
        <2>1. Working /\ Target \in Torrents
            BY <1>0, <1>17 DEF CleanLook, ProberAt, Working
        <2>2. prober' \in Prober /\ prober'.job = prober.job /\ prober'.queue = prober.queue
            <3>1. CASE Move("clean_stop") \/ CleanupFails("clean_dir")
                BY <3>1, MoveType, FailType DEF ProberPcs
            <3>2. CASE prober' = [prober EXCEPT !.pc = IF prober.preflight THEN "clean_dir" ELSE "clean_check",
                                                !.lost = @ \cup Unseen]
                BY ZenonT(40), <1>1, <2>1, <3>2 DEF Prober, ProberPcs, Unseen
            <3>3. QED
                BY <1>17, <3>1, <3>2 DEF CleanLook
        <2>3. QED
            BY <1>17, <2>1, <2>2, JobGoesOn, RemoteType DEF CleanLook, ProberAt
    <1>18. CASE CleanStop
        <2>1. Working /\ Target \in Torrents /\ ~ProberAt("off")
            BY <1>0, <1>18 DEF CleanStop, ProberAt, Working
        <2>2. prober' \in Prober /\ prober'.job = prober.job /\ prober'.queue = prober.queue
            BY <1>18, MoveType, FailType DEF CleanStop, ProberPcs
        <2>3. known' \in [Torrents -> Entry \cup {Absent}]
            <3>1. CASE UNCHANGED known
                BY <3>1 DEF ProbeTypeOK
            <3>2. CASE There(Target) /\ \E e \in AfterProbeStop(known[Target]) : known' = [known EXCEPT ![Target] = e]
                BY <2>1, <3>2 DEF There, AfterProbeStop, ProbeTypeOK, Entry
            <3>3. QED
                BY <1>18, <3>1, <3>2 DEF CleanStop
        <2>4. QED
            BY <1>18, <2>1, <2>2, <2>3, JobGoesOn DEF CleanStop, ProbeTypeOK
    <1>19. CASE CleanErase
        <2>1. Working /\ Target \in Torrents /\ ~ProberAt("off")
            BY <1>0, <1>19 DEF CleanErase, ProberAt, Working
        <2>2. prober' \in Prober /\ prober'.job = prober.job /\ prober'.queue = prober.queue
            <3>1. CASE Move("clean_check") \/ CleanupFails("clean_dir") \/ prober' = [prober EXCEPT !.pc = "clean_check"]
                BY <3>1, MoveType, FailType DEF ProberPcs, Move
            <3>2. CASE prober' = [prober EXCEPT !.pc = "clean_dir", !.lost = @ \cup Unseen]
                BY <1>1, <2>1, <3>2 DEF Prober, ProberPcs, Unseen
            <3>3. CASE prober' = [prober EXCEPT !.pc = "clean_dir", !.lost = @ \cup {Target}]
                BY <1>1, <2>1, <3>3 DEF Prober, ProberPcs
            <3>4. QED
                BY <1>19, <3>1, <3>2, <3>3 DEF CleanErase
        <2>3. known' \in [Torrents -> Entry \cup {Absent}]
            BY <1>19, <2>1 DEF CleanErase, ProbeTypeOK
        <2>4. QED
            BY <1>19, <2>1, <2>2, <2>3, JobGoesOn DEF CleanErase, ProbeTypeOK
    <1>20. CASE CleanCheck
        <2>1. Working /\ Target \in Torrents
            BY <1>0, <1>20 DEF CleanCheck, ProberAt, Working
        <2>2. prober' \in Prober /\ prober'.job = prober.job /\ prober'.queue = prober.queue
            <3>1. CASE CleanupFails("clean_dir")
                BY <3>1, FailType DEF ProberPcs
            <3>2. CASE prober' = [prober EXCEPT !.pc = "clean_dir", !.lost = @ \cup Unseen]
                BY <1>1, <2>1, <3>2 DEF Prober, ProberPcs, Unseen
            <3>3. QED
                BY <1>20, <3>1, <3>2 DEF CleanCheck
        <2>3. QED
            BY <1>20, <2>1, <2>2, JobGoesOn, RemoteType DEF CleanCheck, ProberAt
    <1>21. CASE CleanDirectory
        <2>1. PICK removed \in {prober.dir, FALSE} :
                 /\ pdirs' = IF removed THEN pdirs \ {<<prober.job, Target>>} ELSE pdirs
                 /\ prober' = [prober EXCEPT !.pc = "next", !.dirty = @ \/ (prober.dir /\ ~removed)]
            BY <1>21 DEF CleanDirectory
        <2>2. prober' \in Prober /\ prober'.job = prober.job /\ prober'.queue = prober.queue
            BY ZenonT(40), <1>1, <2>1 DEF Prober, ProberPcs
        <2>3. Working /\ ~ProberAt("off") /\ pdirs' \subseteq pdirs
            BY <1>21, <2>1 DEF CleanDirectory, ProberAt, Working
        <2>4. QED
            BY <1>21, <2>2, <2>3, JobGoesOn DEF CleanDirectory, ProbeTypeOK
    <1>22. CASE MetadataTimeout
        <2>1. prober' \in Prober /\ prober'.job = prober.job /\ prober'.queue = prober.queue
            BY <1>22, <1>2 DEF MetadataTimeout, Working, ProberAt
        <2>2. QED
            BY <1>22, <2>1, JobGoesOn, RemoteType DEF MetadataTimeout, ProberAt, Working
    <1>23. QED
        BY <1>3, <1>4, <1>5, <1>6, <1>7, <1>8, <1>9, <1>10, <1>11, <1>12, <1>13, <1>14, <1>15, <1>16,
           <1>17, <1>18, <1>19, <1>20, <1>21, <1>22
        DEF ProbeWork

LEMMA StepType ==
    ASSUME ProbeTypeOK, JobInv, ProbeStep
    PROVE  ProbeTypeOK' /\ JobInv'
    <1> USE ProbeAssumption
    <1>0. Working => Target \in Torrents /\ (~prober.preflight => Target \in Hashes)
        BY TargetIsTorrent
    <1>1. prober \in Prober /\ prober.job \in 0..Jobs /\ (~ProberAt("off") => prober.job \in 1..Jobs)
        BY DEF ProbeTypeOK, Prober, JobInv
    <1>2. Working => /\ Finish(prober) \in Prober /\ Finish(prober).job = prober.job
                     /\ Finish(prober).queue = prober.queue
        BY <1>0, <1>1, FinishIs
    <1>3. CASE ProbeWork \/ MetadataTimeout
        BY <1>3, WorkType
    <1>4. CASE ProbeRaises
        <2>1. Working /\ Target \in Torrents /\ ~ProberAt("off") /\ prober.job \in 1..Jobs
            BY <1>0, <1>4, <1>1 DEF ProbeRaises, Working, ProberAt
        <2> DEFINE looked == IF ProberAt("look") THEN "unanswered" ELSE prober.look
        <2>2. looked \in Looks
            BY <1>1 DEF Prober, Looks
        <2>3. \/ prober' = [prober EXCEPT !.pc = "look_again", !.look = looked]
              \/ prober' = Finish(prober)
            BY <1>4 DEF ProbeRaises
        <2> HIDE DEF looked
        <2>4. prober' \in Prober /\ prober'.job = prober.job /\ prober'.queue = prober.queue
            BY ZenonT(40), <1>1, <1>2, <2>1, <2>2, <2>3 DEF Prober, ProberPcs
        <2>5. pdirs' \subseteq (1..Jobs) \X Torrents
            BY <1>4, <2>1 DEF ProbeRaises, ProbeTypeOK
        <2>6. QED
            BY <1>4, <2>1, <2>4, <2>5, JobGoesOn DEF ProbeRaises, ProbeTypeOK
    <1>5. CASE StopIsLost
        <2>1. Working /\ Target \in Torrents /\ ~ProberAt("off")
            BY <1>0, <1>5 DEF StopIsLost, Working, ProberAt
        <2>2. known' \in [Torrents -> Entry \cup {Absent}]
            BY <1>5, <2>1 DEF StopIsLost, ProbeTypeOK, There, Entry
        <2>3. QED
            BY <1>5, <1>2, <2>1, <2>2, JobGoesOn DEF StopIsLost, ProbeTypeOK
    <1>6. CASE ProbeAborts
        <2>1. prober' = [prober EXCEPT !.pc = "off", !.exit = 4, !.queue = << >>, !.preflight = FALSE]
            BY <1>6 DEF ProbeAborts
        <2>2. << >> \in Seq(Hashes) /\ 4 \in 0..9 /\ "off" \in ProberPcs
            BY DEF ProberPcs
        <2>3. prober' \in Prober /\ prober'.job = prober.job /\ prober'.pc = "off"
            BY <1>1, <2>1, <2>2 DEF Prober
        <2>4. ~ProberAt("off")
            BY <1>6 DEF ProbeAborts, ProberAt
        <2>5. QED
            BY <1>6, <1>1, <2>3, <2>4, JobGoesOn DEF ProbeAborts, ProbeTypeOK
    <1>7. CASE ProbeCrash
        <2>1. prober' \in Prober /\ prober'.job = prober.job /\ prober'.pc = "off"
            BY <1>7, <1>1, NewJobIs DEF ProbeCrash
        <2>2. QED
            BY <1>7, <2>1, JobGoesOn, RemoteType DEF ProbeCrash
    <1>8. CASE Land
        <2>1. PICK s \in inflight :
                 /\ AtWork(s[2]) /\ inflight' = inflight \ {s}
                 /\ \/ There(s[2]) /\ UNCHANGED <<known, prober>>
                    \/ /\ ~There(s[2])
                       /\ \E run \in {"paused", "active"} : known' = Loaded(s[2], s[1], run)
                       /\ Arrives
                 /\ UNCHANGED <<pdirs, jobdirs>>
            BY <1>8 DEF Land
        <2>2. s[1] \in 0..Jobs /\ s[2] \in Torrents
            BY <2>1 DEF ProbeTypeOK
        <2>3. known' \in [Torrents -> Entry \cup {Absent}]
            BY <2>1, <2>2, LoadedType DEF ProbeTypeOK
        <2>4. /\ prober' \in Prober /\ prober'.job = prober.job /\ prober'.queue = prober.queue
              /\ prober'.pc = prober.pc
            BY ZenonT(40), <1>1, <2>1 DEF Arrives, Prober
        <2>5. QED
            BY <2>1, <2>3, <2>4 DEF ProbeTypeOK, JobInv, Working, ProberAt
    <1>9. CASE TorrentRuns
        <2>1. PICK h \in Torrents :
                 /\ There(h)
                 /\ \/ known' = [known EXCEPT ![h].run = "active"]
                    \/ known' = [known EXCEPT ![h].meta = TRUE]
            BY <1>9 DEF TorrentRuns
        <2>2. known[h] \in Entry
            BY <2>1 DEF There, ProbeTypeOK
        <2>3. known' \in [Torrents -> Entry \cup {Absent}]
            <3>1. [known[h] EXCEPT !.run = "active"] \in Entry /\ [known[h] EXCEPT !.meta = TRUE] \in Entry
                BY <2>2 DEF Entry
            <3>2. \/ known' = [known EXCEPT ![h] = [known[h] EXCEPT !.run = "active"]]
                  \/ known' = [known EXCEPT ![h] = [known[h] EXCEPT !.meta = TRUE]]
                BY <2>1 DEF ProbeTypeOK
            <3>3. QED
                BY <3>1, <3>2 DEF ProbeTypeOK
        <2>4. QED
            BY <1>9, <2>3 DEF TorrentRuns, ProbeTypeOK, JobInv, Working, ProberAt
    <1>10. CASE UserAdds
        <2>1. PICK h \in Torrents : known' = Loaded(h, 0, "active") /\ Arrives
            BY <1>10 DEF UserAdds
        <2>2. known' \in [Torrents -> Entry \cup {Absent}]
            BY <2>1, LoadedType
        <2>3. /\ prober' \in Prober /\ prober'.job = prober.job /\ prober'.queue = prober.queue
              /\ prober'.pc = prober.pc
            BY <1>1, <2>1 DEF Arrives, Prober
        <2>4. inflight' \subseteq inflight /\ UNCHANGED <<pdirs, jobdirs>>
            BY <1>10 DEF UserAdds
        <2>5. QED
            BY <2>2, <2>3, <2>4 DEF ProbeTypeOK, JobInv, Working, ProberAt
    <1>11. CASE UserErases
        BY <1>11 DEF UserErases, ProbeTypeOK, JobInv, Working, ProberAt
    <1>12. QED
        BY <1>3, <1>4, <1>5, <1>6, <1>7, <1>8, <1>9, <1>10, <1>11
        DEF ProbeStep, ProbeFailure, ProbeEnvironment

\* So does a job that begins.
LEMMA BeginType ==
    ASSUME ProbeTypeOK, JobInv, NEW queue \in Seq(Hashes) \ {<< >>}, NEW preflight \in BOOLEAN,
           NEW keep \in BOOLEAN, BeginProbe(queue, preflight, keep)
    PROVE  /\ ProbeTypeOK' /\ JobInv'
           /\ prober'.pc = "job" /\ prober'.job = prober.job + 1 /\ prober'.exit = 9
    <1> DEFINE new == NewJob(prober.job + 1)
    <1>1. prober.job + 1 \in 0..Jobs /\ prober.job + 1 > 0
        BY ProbeAssumption DEF BeginProbe, ProbeTypeOK, Prober
    <1>2. new \in Prober /\ new.job = prober.job + 1 /\ new.exit = 9
        BY <1>1, NewJobIs
    <1>3. prober' = [new EXCEPT !.pc = "job", !.queue = queue, !.preflight = preflight, !.keep = keep]
        BY DEF BeginProbe
    <1> HIDE DEF new
    <1>4. /\ prober' \in Prober /\ prober'.pc = "job" /\ prober'.job = prober.job + 1
          /\ prober'.queue = queue /\ prober'.exit = 9
        BY <1>2, <1>3 DEF Prober, ProberPcs
    <1>5. QED
        BY <1>1, <1>4, RemoteType DEF BeginProbe, JobInv, ProberAt

-----------------------------------------------------------------------------
(* Steps of the job on its torrent *)

\* The torrent at work stays the same.
Steady == /\ prober'.job = prober.job /\ prober'.queue = prober.queue
          /\ prober'.preflight = prober.preflight

LEMMA SameTarget ==
    ASSUME Steady PROVE Target' = Target
    BY DEF Steady, Target

\* At most the torrent at work has changed, and it is whose it was, or gone.
Touched ==
    \A h \in Torrents :
        known'[h] # known[h] =>
            h = Target /\ (known'[h] = Absent \/ (There(h) /\ known'[h].by = known[h].by))

\* A step of the job on its torrent.
LEMMA TouchKeeps ==
    ASSUME ProbeTypeOK, ProbeInv, Working, Working', JobInv', PlaceInv', WayInv', Steady,
           Touched, UNCHANGED inflight,
           prober.lost \subseteq prober'.lost, prober.kept \subseteq prober'.kept,
           prober.dirty => prober'.dirty, prober'.arrived = prober.arrived,
           prober.look = "unanswered" => prober'.look = "unanswered",
           There(Target) /\ (prober'.created \/ prober'.look = "absent") =>
               prober.created \/ prober.look = "absent" \/ prober'.look = "unanswered",
           Own(Target)' /\ Pending => Told(Target)' \/ Pending'
    PROVE  ProbeInv'
    <1>1. Target' = Target /\ prober'.job = prober.job
        BY SameTarget DEF Steady
    <1>2. Target \in Torrents /\ prober.job \in Nat /\ prober.job > 0 /\ Absent.by = -1
        BY TargetIsTorrent, ProbeAssumption DEF ProbeInv, JobInv, Working, ProberAt, ProbeTypeOK, Prober, Absent
    <1>3. ForeignInv'
        BY <1>2, <1>1 DEF ProbeInv, ForeignInv, There, Touched
    <1>4. AccountInv'
        <2>1. \A h \in Torrents : Own(h)' => Own(h)
            BY <1>2, <1>1 DEF Own, Touched
        <2>2. \A h \in Torrents : known'[h].by <= prober'.job
            BY <1>2, <1>1 DEF ProbeInv, AccountInv, Touched
        <2>3. \A h \in Torrents : Told(h) => Told(h)'
            BY DEF Told
        <2>4. \A h \in Torrents : Own(h)' => Told(h)' \/ (h = Target' /\ Pending')
            BY <1>1, <2>1, <2>3 DEF ProbeInv, AccountInv
        <2>5. QED
            BY <1>1, <2>2, <2>4 DEF ProbeInv, AccountInv, Working, ProberAt
    <1>5. SelectedInv'
        BY DEF SelectedInv, Working, ProberAt
    <1>6. QED
        BY <1>3, <1>4, <1>5 DEF ProbeInv

\* The job learns something, and rTorrent does not change.
LEMMA QuietKeeps ==
    ASSUME ProbeTypeOK, ProbeInv, Working, Working', JobInv', PlaceInv', WayInv', Steady,
           UNCHANGED <<known, inflight>>,
           prober.lost \subseteq prober'.lost, prober.kept \subseteq prober'.kept,
           prober.dirty => prober'.dirty, prober'.arrived = prober.arrived,
           prober.look = "unanswered" => prober'.look = "unanswered",
           There(Target) /\ (prober'.created \/ prober'.look = "absent") =>
               prober.created \/ prober.look = "absent" \/ prober'.look = "unanswered",
           Own(Target) /\ Pending => Told(Target)' \/ Pending'
    PROVE  ProbeInv'
    <1>1. Touched
        BY DEF Touched
    <1>2. Own(Target)' => Own(Target)
        BY SameTarget DEF Own, Steady
    <1>3. QED
        BY <1>1, <1>2, TouchKeeps

\* The job is done with its torrent: it is cleaned up, or kept, or not its own.
LEMMA FinishKeeps ==
    ASSUME ProbeTypeOK, ProbeInv, Working, ~ProberAt("look"), ~ProberAt("look_again"), JobInv',
           Touched, UNCHANGED inflight, prober' = Finish(prober)
    PROVE  ProbeInv'
    <1>1. prober.created /\ ~prober.preflight => Target \in Hashes
        BY TargetIsTorrent DEF ProbeInv
    <1>2. prober \in Prober
        BY DEF ProbeTypeOK
    <1>3. /\ prober'.pc = (IF prober.created /\ (prober.preflight \/ ~prober.keep) THEN "clean_look" ELSE "next")
          /\ prober'.look = prober.look /\ prober'.created = prober.created
          /\ prober'.lost = prober.lost /\ prober'.dirty = prober.dirty
          /\ prober'.arrived = prober.arrived /\ prober'.preflight = prober.preflight
          /\ prober'.kept = (IF prober.created /\ ~prober.preflight /\ prober.keep
                             THEN prober.kept \cup {Target} ELSE prober.kept)
          /\ Steady
        BY <1>1, <1>2, FinishIs DEF Steady
    <1>4. Target' = Target
        BY <1>3, SameTarget
    <1>5. Working'
        BY <1>3 DEF Working
    <1>6. prober.created \in BOOLEAN /\ prober.preflight \in BOOLEAN /\ prober.keep \in BOOLEAN
        BY <1>2 DEF Prober
    <1>7. PlaceInv'
        BY <1>3, <1>6 DEF ProbeInv, PlaceInv, ProberAt, Holding, Keeping
    <1>8. prober'.pc = "next" => (prober.created => Target \in prober'.kept)
        BY <1>3, <1>6
    <1>9. WayInv'
        BY <1>3, <1>4, <1>8 DEF WayInv, ProberAt, Keeping, Told
    <1>10. Own(Target)' /\ Pending => Told(Target)' \/ Pending'
        BY <1>3, <1>4, <1>8 DEF Pending, Told, ProberAt
    <1>11. QED
        BY <1>3, <1>5, <1>7, <1>9, <1>10, TouchKeeps

LEMMA Untouched ==
    UNCHANGED known => Touched
    BY DEF Touched

\* A step that finishes, or moves on.
LEMMA OnKeeps ==
    ASSUME ProbeTypeOK, ProbeInv, JobInv', NEW place \in {"tag", "activate", "wait", "mark"},
           UNCHANGED remoteVars, prober' = [prober EXCEPT !.pc = place],
           place = "tag" => ProberAt("confirm"), place = "activate" => ProberAt("tag"),
           place = "wait" => ProberAt("activate"),
           place = "mark" => ProberAt("stopped") /\ There(Target) /\ known[Target].run # "active"
    PROVE  ProbeInv'
    <1>1. prober \in Prober
        BY DEF ProbeTypeOK
    <1>2. /\ prober'.pc = place /\ Steady /\ prober'.look = prober.look
          /\ prober'.created = prober.created /\ prober'.lost = prober.lost
          /\ prober'.kept = prober.kept /\ prober'.dirty = prober.dirty
          /\ prober'.arrived = prober.arrived
        BY <1>1 DEF Prober, Steady
    <1>3. Target' = Target
        BY <1>2, SameTarget
    <1>4. Working /\ Working' /\ prober.pc \in Holding
        BY <1>2 DEF Working, ProberAt, Holding
    <1>5. PlaceInv'
        BY <1>2, <1>4 DEF ProbeInv, PlaceInv, ProberAt, Holding, Keeping, Steady
    <1>6. Target \in Torrents
        BY <1>4, TargetIsTorrent DEF ProbeInv
    <1>7. known[Target] # Absent => known[Target].run \in {"stopped", "paused", "active"}
        BY <1>6 DEF ProbeTypeOK, Entry
    <1>8. WayInv'
        BY <1>2, <1>3, <1>4, <1>7 DEF ProbeInv, WayInv, ProberAt, Keeping, There, Steady, remoteVars
    <1>9. Own(Target) /\ Pending => Told(Target)' \/ Pending'
        BY <1>2, <1>4 DEF Pending, ProberAt, ProbeInv, PlaceInv
    <1>10. QED
        BY <1>2, <1>4, <1>5, <1>8, <1>9, QuietKeeps DEF remoteVars

LEMMA LookKeeps ==
    ASSUME ProbeTypeOK, ProbeInv, JobInv', Look
    PROVE  ProbeInv'
    <1>1. prober \in Prober /\ Working /\ prober.created \in BOOLEAN
        BY DEF ProbeTypeOK, Look, Working, ProberAt, Prober
    <1>2. /\ Steady /\ prober'.created = prober.created /\ prober'.lost = prober.lost
          /\ prober'.kept = prober.kept /\ prober'.dirty = prober.dirty
          /\ prober'.arrived = prober.arrived
        BY <1>1 DEF Prober, Look, Steady
    <1>3. IF There(Target) THEN prober'.pc = "wait" /\ prober'.look = "present"
          ELSE prober'.pc = "mkdir" /\ prober'.look = "absent"
        BY <1>1 DEF Prober, Look
    <1>4. ~prober.created /\ prober.look = "none"
        BY <1>1 DEF ProbeInv, PlaceInv, Look
    <1>5. PlaceInv' /\ WayInv' /\ Working'
        BY <1>2, <1>3, <1>4 DEF PlaceInv, WayInv, ProberAt, Working, Holding, Keeping
    <1>6. ~Pending
        BY <1>4 DEF Pending, Look, ProberAt
    <1>7. QED
        BY <1>1, <1>2, <1>3, <1>4, <1>5, <1>6, QuietKeeps DEF Look, remoteVars

LEMMA MakeDirectoryKeeps ==
    ASSUME ProbeTypeOK, ProbeInv, JobInv', MakeProbeDirectory
    PROVE  ProbeInv'
    <1>1. prober \in Prober /\ Working
        BY DEF ProbeTypeOK, MakeProbeDirectory, Working, ProberAt
    <1>2. /\ Steady /\ prober'.pc = "submit" /\ prober'.look = prober.look
          /\ prober'.created = prober.created
          /\ prober'.lost = prober.lost /\ prober'.kept = prober.kept
          /\ prober'.dirty = prober.dirty /\ prober'.arrived = prober.arrived
        BY <1>1 DEF Prober, MakeProbeDirectory, Steady
    <1>3. Target' = Target
        BY <1>2, SameTarget
    <1>4. PlaceInv' /\ Working'
        BY <1>1, <1>2 DEF ProbeInv, PlaceInv, ProberAt, Working, Holding, Keeping, MakeProbeDirectory
    <1>5. WayInv'
        BY <1>2, <1>3 DEF WayInv, ProberAt, Keeping, MakeProbeDirectory, Steady
    <1>6. Own(Target) /\ Pending => Told(Target)' \/ Pending'
        BY <1>2 DEF Pending, MakeProbeDirectory, ProberAt
    <1>7. QED
        BY <1>1, <1>2, <1>4, <1>5, <1>6, QuietKeeps DEF MakeProbeDirectory

LEMMA AwaitKeeps ==
    ASSUME ProbeTypeOK, ProbeInv, JobInv', AwaitMetadata
    PROVE  ProbeInv'
    <1>1. prober \in Prober /\ Working /\ ProberAt("wait")
        BY DEF ProbeTypeOK, AwaitMetadata, Working, ProberAt
    <1>2. prober.created \in BOOLEAN /\ prober.preflight \in BOOLEAN
        BY <1>1 DEF Prober
    <1>3. CASE prober' = Finish(prober)
        BY <1>1, <1>3, FinishKeeps, Untouched DEF AwaitMetadata, remoteVars, ProberAt
    <1>4. CASE \E n \in Int : prober' = [prober EXCEPT !.failures = n]
        <2>1. /\ Steady /\ prober'.pc = prober.pc /\ prober'.look = prober.look
              /\ prober'.created = prober.created /\ prober'.lost = prober.lost
              /\ prober'.kept = prober.kept /\ prober'.dirty = prober.dirty
              /\ prober'.arrived = prober.arrived
            BY <1>1, <1>4 DEF Prober, Steady
        <2>2. Target' = Target /\ UNCHANGED remoteVars
            BY <2>1, SameTarget DEF AwaitMetadata
        <2>3. PlaceInv' /\ Working'
            BY <1>1, <2>1 DEF ProbeInv, PlaceInv, ProberAt, Working, Holding, Keeping, Steady
        <2>4. WayInv'
            BY <1>1, <2>1, <2>2 DEF ProbeInv, WayInv, ProberAt, Keeping, Steady, remoteVars
        <2>5. Own(Target) /\ Pending => Told(Target)' \/ Pending'
            BY <1>1, <2>1 DEF Pending, ProberAt
        <2>6. QED
            BY <1>1, <2>1, <2>2, <2>3, <2>4, <2>5, QuietKeeps DEF remoteVars
    <1>5. CASE There(Target) /\ known[Target].meta /\ ~prober.preflight /\ prober.created
               /\ prober' = [prober EXCEPT !.pc = "stop"]
        <2>1. /\ Steady /\ prober'.pc = "stop" /\ prober'.look = prober.look
              /\ prober'.created = prober.created /\ prober'.lost = prober.lost
              /\ prober'.kept = prober.kept /\ prober'.dirty = prober.dirty
              /\ prober'.arrived = prober.arrived
            BY <1>1, <1>5 DEF Prober, Steady
        <2>2. Target' = Target /\ UNCHANGED remoteVars
            BY <2>1, SameTarget DEF AwaitMetadata
        <2>3. PlaceInv' /\ Working'
            BY <1>1, <1>5, <2>1 DEF ProbeInv, PlaceInv, ProberAt, Working, Holding, Keeping, Steady
        <2>4. WayInv'
            BY <1>1, <1>5, <2>1, <2>2 DEF ProbeInv, WayInv, ProberAt, Keeping, Steady, remoteVars, There
        <2>5. Own(Target) /\ Pending => Told(Target)' \/ Pending'
            BY <1>1, <1>5, <2>1 DEF Pending, ProberAt
        <2>6. QED
            BY <1>1, <2>1, <2>2, <2>3, <2>4, <2>5, QuietKeeps DEF remoteVars
    <1>6. CASE (prober.preflight \/ ~prober.created) /\ prober' = Finish([prober EXCEPT !.healthy = TRUE])
        <2> DEFINE p == [prober EXCEPT !.healthy = TRUE]
        <2>1. /\ p \in Prober /\ p.job = prober.job /\ p.queue = prober.queue
              /\ p.preflight = prober.preflight /\ p.keep = prober.keep /\ p.look = prober.look
              /\ p.created = prober.created /\ p.lost = prober.lost /\ p.kept = prober.kept
              /\ p.dirty = prober.dirty /\ p.arrived = prober.arrived
            BY <1>1 DEF Prober
        <2>2. prober' = Finish(p)
            BY <1>6
        <2> HIDE DEF p
        <2>3. p.created /\ ~p.preflight => Target \in Hashes
            BY <1>6, <2>1
        <2>4. /\ prober'.pc = (IF prober.created THEN "clean_look" ELSE "next")
              /\ prober'.look = prober.look /\ prober'.created = prober.created
              /\ prober'.lost = prober.lost /\ prober'.dirty = prober.dirty
              /\ prober'.arrived = prober.arrived /\ prober.kept \subseteq prober'.kept
              /\ Steady
            <3>1. prober.created => prober.preflight
                BY <1>2, <1>6
            <3>2. /\ Finish(p).pc = (IF p.created /\ (p.preflight \/ ~p.keep) THEN "clean_look" ELSE "next")
                  /\ Finish(p).kept = (IF p.created /\ ~p.preflight /\ p.keep THEN p.kept \cup {Target} ELSE p.kept)
                BY <2>1, <2>3, FinishIs
            <3>3. prober.kept \subseteq prober'.kept
                BY <2>1, <2>2, <3>2
            <3>4. prober'.pc = (IF prober.created THEN "clean_look" ELSE "next")
                BY <1>2, <2>1, <2>2, <3>1, <3>2
            <3>5. QED
                BY <2>1, <2>2, <2>3, <3>3, <3>4, FinishIs DEF Steady
        <2>5. PlaceInv' /\ Working'
            BY <1>1, <1>2, <2>4 DEF ProbeInv, PlaceInv, ProberAt, Working, Holding, Keeping, Steady
        <2>6. WayInv'
            BY <1>2, <2>4 DEF WayInv, ProberAt, Keeping
        <2>7. Own(Target) /\ Pending => Told(Target)' \/ Pending'
            BY <1>1, <2>4 DEF Pending, ProberAt
        <2>8. QED
            BY <1>1, <2>4, <2>5, <2>6, <2>7, QuietKeeps DEF AwaitMetadata, remoteVars
    <1>7. QED
        <2>1. prober.failures + 1 \in Int /\ 0 \in Int
            BY <1>1 DEF Prober
        <2>2. QED
            BY <1>2, <1>3, <1>4, <1>5, <1>6, <2>1 DEF AwaitMetadata

LEMMA MarkKeeps ==
    ASSUME ProbeTypeOK, ProbeInv, JobInv', MarkValidated
    PROVE  ProbeInv'
    <1>1. prober \in Prober /\ Working /\ ProberAt("mark") /\ There(Target)
        BY DEF ProbeTypeOK, MarkValidated, Working, ProberAt
    <1>2. /\ Steady /\ prober'.pc = "next" /\ prober'.look = prober.look
          /\ prober'.created = prober.created /\ prober'.lost = prober.lost \cup Unseen
          /\ prober'.kept = prober.kept /\ prober'.dirty = prober.dirty
          /\ prober'.arrived = prober.arrived /\ prober'.healthy = TRUE
        BY <1>1 DEF Prober, MarkValidated, Steady
    <1>3. Target' = Target /\ UNCHANGED remoteVars
        BY <1>2, SameTarget DEF MarkValidated
    <1>4. prober.created /\ ~prober.preflight
        BY <1>1 DEF ProbeInv, PlaceInv, ProberAt, Holding, Keeping
    <1>5. PlaceInv' /\ Working'
        BY <1>1, <1>2 DEF ProbeInv, PlaceInv, ProberAt, Working, Holding, Keeping
    <1>6. <<prober.job, Target>> \in inflight => Target \in prober'.lost
        BY <1>2 DEF Unseen
    <1>7. Held(Target)
        BY <1>1 DEF ProbeInv, WayInv, Held, ProberAt, Keeping
    <1>8. WayInv'
        BY <1>2, <1>3, <1>6, <1>7 DEF WayInv, ProberAt, Keeping, Told, Held, Steady, remoteVars
    <1>9. Pending'
        BY <1>2, <1>4 DEF Pending, ProberAt, Steady
    <1>10. QED
        BY <1>1, <1>2, <1>3, <1>5, <1>8, <1>9, QuietKeeps DEF remoteVars

LEMMA LookAgainKeeps ==
    ASSUME ProbeTypeOK, ProbeInv, JobInv', LookAgain
    PROVE  ProbeInv'
    <1>1. prober \in Prober /\ Working /\ ProberAt("look_again")
        BY DEF ProbeTypeOK, LookAgain, Working, ProberAt
    <1>2. prober.look \in {"absent", "unanswered"} /\ Target \in Torrents
          /\ (~prober.preflight => Target \in Hashes) /\ UNCHANGED remoteVars
        BY <1>1, TargetIsTorrent DEF ProbeInv, PlaceInv, Prober, Looks, ProberAt, LookAgain
    <1>3. prober.created \in BOOLEAN /\ prober.preflight \in BOOLEAN /\ prober.keep \in BOOLEAN
        BY <1>1 DEF Prober
    <1>4. CASE prober' = Finish([prober EXCEPT !.created = TRUE])
        <2> DEFINE p == [prober EXCEPT !.created = TRUE]
        <2>1. /\ p \in Prober /\ p.job = prober.job /\ p.queue = prober.queue
              /\ p.preflight = prober.preflight /\ p.keep = prober.keep /\ p.look = prober.look
              /\ p.created = TRUE /\ p.lost = prober.lost /\ p.kept = prober.kept
              /\ p.dirty = prober.dirty /\ p.arrived = prober.arrived
            BY <1>1 DEF Prober
        <2>2. prober' = Finish(p)
            BY <1>4
        <2> HIDE DEF p
        <2>3. /\ prober'.pc = (IF p.created /\ (p.preflight \/ ~p.keep) THEN "clean_look" ELSE "next")
              /\ prober'.kept = (IF p.created /\ ~p.preflight /\ p.keep THEN p.kept \cup {Target} ELSE p.kept)
              /\ prober'.look = prober.look /\ prober'.created = TRUE
              /\ prober'.lost = prober.lost /\ prober'.dirty = prober.dirty
              /\ prober'.arrived = prober.arrived /\ Steady
            BY <1>2, <2>1, <2>2, FinishIs DEF Steady
        <2>4. Target' = Target
            BY <2>3, SameTarget
        <2>5. prober'.pc \in {"clean_look", "next"} /\ prober.kept \subseteq prober'.kept
              /\ (prober'.pc = "next" => Target \in prober'.kept)
            BY <1>3, <2>1, <2>3
        <2>6. PlaceInv' /\ Working'
            BY <1>1, <2>3, <2>5 DEF ProbeInv, PlaceInv, ProberAt, Working, Holding, Keeping
        <2>7. WayInv'
            BY <2>4, <2>5 DEF WayInv, ProberAt, Keeping, Told
        <2>8. Told(Target)' \/ Pending'
            BY <2>3, <2>4, <2>5 DEF Pending, Told, ProberAt
        <2>9. QED
            BY <1>1, <1>2, <2>3, <2>5, <2>6, <2>7, <2>8, QuietKeeps DEF remoteVars
    <1>5. CASE prober' = Finish([prober EXCEPT !.lost = @ \cup {Target}])
        <2> DEFINE p == [prober EXCEPT !.lost = @ \cup {Target}]
        <2>1. /\ p \in Prober /\ p.job = prober.job /\ p.queue = prober.queue
              /\ p.preflight = prober.preflight /\ p.keep = prober.keep /\ p.look = prober.look
              /\ p.created = prober.created /\ p.lost = prober.lost \cup {Target}
              /\ p.kept = prober.kept /\ p.dirty = prober.dirty /\ p.arrived = prober.arrived
            BY <1>1, <1>2 DEF Prober
        <2>2. prober' = Finish(p)
            BY <1>5
        <2> HIDE DEF p
        <2>3. /\ prober'.pc = (IF p.created /\ (p.preflight \/ ~p.keep) THEN "clean_look" ELSE "next")
              /\ prober'.kept = (IF p.created /\ ~p.preflight /\ p.keep THEN p.kept \cup {Target} ELSE p.kept)
              /\ prober'.look = prober.look /\ prober'.created = prober.created
              /\ prober'.lost = prober.lost \cup {Target} /\ prober'.dirty = prober.dirty
              /\ prober'.arrived = prober.arrived /\ Steady
            BY <1>2, <2>1, <2>2, FinishIs DEF Steady
        <2>4. Target' = Target
            BY <2>3, SameTarget
        <2>5. prober'.pc \in {"clean_look", "next"} /\ prober.kept \subseteq prober'.kept
              /\ (prober'.pc = "clean_look" => prober.created)
            BY <1>3, <2>1, <2>3
        <2>6. PlaceInv' /\ Working'
            BY <1>1, <2>3, <2>5 DEF ProbeInv, PlaceInv, ProberAt, Working, Holding, Keeping
        <2>7. Told(Target)'
            BY <2>3, <2>4 DEF Told
        <2>8. WayInv'
            BY <2>4, <2>5, <2>7 DEF WayInv, ProberAt, Keeping
        <2>9. QED
            BY <1>1, <1>2, <2>3, <2>5, <2>6, <2>7, <2>8, QuietKeeps DEF remoteVars
    <1>6. QED
        BY <1>4, <1>5 DEF LookAgain

\* A step of the cleanup: only when it is over has the job to tell of the torrent.
LEMMA CleaningKeeps ==
    ASSUME ProbeTypeOK, ProbeInv, JobInv', Touched, UNCHANGED inflight, Steady,
           prober.pc \in {"clean_look", "clean_stop", "clean_erase", "clean_check", "clean_dir"},
           prober'.pc \in {"clean_stop", "clean_erase", "clean_check", "clean_dir", "next"},
           prober.lost \subseteq prober'.lost, prober'.kept = prober.kept,
           prober.dirty => prober'.dirty, prober'.arrived = prober.arrived,
           prober'.look = prober.look, prober'.created = prober.created,
           prober'.pc \in {"clean_dir", "next"} /\ Own(Target)' => Told(Target)'
    PROVE  ProbeInv'
    <1>1. Target' = Target
        BY SameTarget
    <1>2. Working /\ Working' /\ prober.created
        BY DEF Working, ProbeInv, PlaceInv, Holding
    <1>3. PlaceInv'
        BY <1>2 DEF ProbeInv, PlaceInv, ProberAt, Holding, Keeping
    <1>4. Own(Target)' => Told(Target)' \/ Pending'
        BY <1>2 DEF Pending, ProberAt
    <1>5. prober'.pc = "next" => Told(Target)' \/ (Held(Target)' /\ <<prober'.job, Target'>> \notin inflight')
        BY DEF Held, Own
    <1>6. WayInv'
        BY <1>5 DEF WayInv, ProberAt, Keeping
    <1>7. QED
        BY <1>2, <1>3, <1>4, <1>6, TouchKeeps

\* A cleanup step that fails, or moves on.
LEMMA CleanupFailed ==
    ASSUME ProbeTypeOK, CleanupFails("clean_dir") \/ CleanupFails("clean_erase")
    PROVE  /\ Steady /\ prober'.pc \in {"clean_dir", "clean_erase", "next"}
           /\ prober'.dirty = TRUE /\ prober'.lost = prober.lost /\ prober'.kept = prober.kept
           /\ prober'.arrived = prober.arrived /\ prober'.look = prober.look
           /\ prober'.created = prober.created
    <1>1. prober \in Prober
        BY DEF ProbeTypeOK
    <1>2. PICK place \in {"clean_dir", "clean_erase", "next"} :
             prober' = [prober EXCEPT !.pc = place, !.dirty = TRUE]
        BY DEF CleanupFails
    <1>3. QED
        BY <1>1, <1>2 DEF Prober, Steady

LEMMA CleanupMoved ==
    ASSUME ProbeTypeOK, NEW place \in {"clean_stop", "clean_erase", "clean_check", "clean_dir"},
           NEW more \in SUBSET Torrents, prober' = [prober EXCEPT !.pc = place, !.lost = @ \cup more]
    PROVE  /\ Steady /\ prober'.pc = place /\ prober'.dirty = prober.dirty
           /\ prober'.lost = prober.lost \cup more /\ prober'.kept = prober.kept
           /\ prober'.arrived = prober.arrived /\ prober'.look = prober.look
           /\ prober'.created = prober.created
    BY DEF ProbeTypeOK, Prober, Steady

LEMMA CleanupPlaced ==
    ASSUME ProbeTypeOK, NEW place \in {"clean_stop", "clean_erase", "clean_check"}, Move(place)
    PROVE  /\ Steady /\ prober'.pc = place /\ prober'.dirty = prober.dirty
           /\ prober'.lost = prober.lost /\ prober'.kept = prober.kept
           /\ prober'.arrived = prober.arrived /\ prober'.look = prober.look
           /\ prober'.created = prober.created
    BY DEF ProbeTypeOK, Prober, Steady, Move

\* A torrent that is not there is the job's own only while it is not carried out.
LEMMA GoneIsUnseen ==
    ASSUME ProbeTypeOK, Working, JobInv, known'[Target] = Absent, UNCHANGED inflight, Steady,
           Own(Target)', Unseen \subseteq prober'.lost
    PROVE  Told(Target)'
    <1>1. Target' = Target /\ prober'.job = prober.job
        BY SameTarget DEF Steady
    <1>2. Absent.by # prober.job
        BY ProbeAssumption DEF Absent, ProbeTypeOK, Prober
    <1>3. <<prober.job, Target>> \in inflight
        BY <1>1, <1>2 DEF Own
    <1>4. QED
        BY <1>1, <1>3 DEF Unseen, Told

\* What a stop makes of the torrent at work.
LEMMA StopTouches ==
    ASSUME ProbeTypeOK, JobInv, Working, There(Target),
           \E e \in AfterProbeStop(known[Target]) : known' = [known EXCEPT ![Target] = e]
    PROVE  /\ Touched /\ known'[Target].by = known[Target].by
           /\ known'[Target].meta = known[Target].meta
           /\ known'[Target] # Absent /\ known'[Target].run # "paused"
    <1>1. Target \in Torrents
        BY TargetIsTorrent
    <1>2. known[Target] \in Entry
        BY <1>1 DEF There, ProbeTypeOK
    <1>3. PICK e \in AfterProbeStop(known[Target]) : known' = [known EXCEPT ![Target] = e]
        OBVIOUS
    <1>4. e.by = known[Target].by /\ e.meta = known[Target].meta /\ e.run # "paused" /\ e \in Entry
        BY <1>2 DEF AfterProbeStop, Entry
    <1>5. known'[Target] = e /\ \A h \in Torrents : h # Target => known'[h] = known[h]
        BY <1>1, <1>3 DEF ProbeTypeOK
    <1>6. e # Absent
        BY <1>4 DEF Entry, Absent
    <1>7. QED
        BY <1>4, <1>5, <1>6 DEF Touched

LEMMA CleanKeeps ==
    ASSUME ProbeTypeOK, ProbeInv, JobInv',
           CleanLook \/ CleanStop \/ CleanErase \/ CleanCheck \/ CleanDirectory
    PROVE  ProbeInv'
    <1>0. /\ prober.pc \in {"clean_look", "clean_stop", "clean_erase", "clean_check", "clean_dir"}
          /\ Working /\ JobInv /\ Target \in Torrents /\ UNCHANGED inflight
        BY TargetIsTorrent
        DEF CleanLook, CleanStop, CleanErase, CleanCheck, CleanDirectory, ProberAt, Working,
            ProbeInv, remoteVars
    <1>1. Unseen \in SUBSET Torrents /\ {Target} \in SUBSET Torrents
        BY <1>0 DEF Unseen
    <1>2. ASSUME Touched, CleanupFails("clean_dir") \/ CleanupFails("clean_erase")
          PROVE  ProbeInv'
        <2>1. Told(Target)'
            BY <1>2, CleanupFailed DEF Told
        <2>2. QED
            BY <1>0, <1>2, <2>1, CleanupFailed, CleaningKeeps
    <1>3. ASSUME Touched, NEW place \in {"clean_stop", "clean_erase", "clean_check"}, Move(place)
          PROVE  ProbeInv'
        BY <1>0, <1>3, CleanupPlaced, CleaningKeeps
    <1>4. ASSUME Touched, NEW place \in {"clean_check", "clean_dir"}, known'[Target] = Absent,
                 prober' = [prober EXCEPT !.pc = place, !.lost = @ \cup Unseen]
          PROVE  ProbeInv'
        <2>1. /\ Steady /\ prober'.pc = place /\ prober'.dirty = prober.dirty
              /\ prober'.lost = prober.lost \cup Unseen /\ prober'.kept = prober.kept
              /\ prober'.arrived = prober.arrived /\ prober'.look = prober.look
              /\ prober'.created = prober.created
            BY <1>4, <1>1, CleanupMoved
        <2>2. Own(Target)' => Told(Target)'
            BY <1>0, <1>4, <2>1, GoneIsUnseen
        <2>3. QED
            BY <1>0, <1>4, <2>1, <2>2, CleaningKeeps
    <1>5. CASE CleanLook
        <2>1. Touched
            BY <1>5, Untouched DEF CleanLook, remoteVars
        <2>2. CASE /\ ~There(Target)
                   /\ prober' = [prober EXCEPT !.pc = IF prober.preflight THEN "clean_dir" ELSE "clean_check",
                                               !.lost = @ \cup Unseen]
            BY <1>5, <1>4, <2>1, <2>2 DEF CleanLook, There, remoteVars
        <2>3. QED
            BY <1>5, <1>2, <1>3, <2>1, <2>2 DEF CleanLook
    <1>6. CASE CleanStop
        <2>1. Touched
            BY <1>0, <1>6, StopTouches, Untouched DEF CleanStop
        <2>2. QED
            BY <1>6, <1>2, <1>3, <2>1 DEF CleanStop
    <1>7. CASE CleanErase
        <2>1. known' = known \/ known' = [known EXCEPT ![Target] = Absent]
            BY <1>7 DEF CleanErase
        <2>2. Touched /\ (known' = [known EXCEPT ![Target] = Absent] => known'[Target] = Absent)
            BY <1>0, <2>1 DEF Touched, ProbeTypeOK
        <2>3. CASE prober' = [prober EXCEPT !.pc = "clean_dir", !.lost = @ \cup {Target}]
            <3>1. /\ Steady /\ prober'.pc = "clean_dir" /\ prober'.dirty = prober.dirty
                  /\ prober'.lost = prober.lost \cup {Target} /\ prober'.kept = prober.kept
                  /\ prober'.arrived = prober.arrived /\ prober'.look = prober.look
                  /\ prober'.created = prober.created
                BY <1>1, <2>3, CleanupMoved
            <3>2. Told(Target)'
                BY <3>1, SameTarget DEF Told
            <3>3. QED
                BY <1>0, <2>2, <3>1, <3>2, CleaningKeeps
        <2>4. CASE /\ known' = [known EXCEPT ![Target] = Absent]
                   /\ prober' = [prober EXCEPT !.pc = "clean_dir", !.lost = @ \cup Unseen]
            BY <1>4, <2>2, <2>4
        <2>5. QED
            BY <1>7, <1>2, <1>3, <2>2, <2>3, <2>4 DEF CleanErase, Move
    <1>8. CASE CleanCheck
        <2>1. Touched
            BY <1>8, Untouched DEF CleanCheck, remoteVars
        <2>2. QED
            BY <1>8, <1>2, <1>4, <2>1 DEF CleanCheck, There, remoteVars
    <1>9. CASE CleanDirectory
        <2>1. PICK removed \in {prober.dir, FALSE} :
                 prober' = [prober EXCEPT !.pc = "next", !.dirty = @ \/ (prober.dir /\ ~removed)]
            BY <1>9 DEF CleanDirectory
        <2>2. /\ Steady /\ prober'.pc = "next" /\ (prober.dirty => prober'.dirty)
              /\ prober'.lost = prober.lost /\ prober'.kept = prober.kept
              /\ prober'.arrived = prober.arrived /\ prober'.look = prober.look
              /\ prober'.created = prober.created
            BY <2>1 DEF ProbeTypeOK, Prober, Steady
        <2>3. Touched /\ Target' = Target
            BY <1>9, <2>2, SameTarget, Untouched DEF CleanDirectory
        <2>4. Own(Target)' => Own(Target)
            BY <1>9, <2>2, <2>3 DEF CleanDirectory, Own, Steady
        <2>5. Own(Target) => Told(Target)
            BY <1>0, <1>9 DEF ProbeInv, AccountInv, CleanDirectory, Pending, ProberAt
        <2>6. Own(Target)' => Told(Target)'
            BY <2>2, <2>3, <2>4, <2>5 DEF Told
        <2>7. QED
            BY <1>0, <2>2, <2>3, <2>6, CleaningKeeps
    <1>10. QED
        BY <1>5, <1>6, <1>7, <1>8, <1>9

\* The steps that confirm what was asked of rTorrent, and the deadline.
LEMMA ConfirmKeeps ==
    ASSUME ProbeTypeOK, ProbeInv, JobInv',
           ConfirmSubmission \/ TagProbe \/ ConfirmActivation \/ ConfirmStopped \/ MetadataTimeout
    PROVE  ProbeInv'
    <1>0. /\ Working /\ ~ProberAt("look") /\ ~ProberAt("look_again")
          /\ UNCHANGED remoteVars /\ UNCHANGED inflight /\ Touched
        BY Untouched
        DEF ConfirmSubmission, TagProbe, ConfirmActivation, ConfirmStopped, MetadataTimeout,
            ProberAt, Working, remoteVars
    <1>1. CASE prober' = Finish(prober)
        BY <1>0, <1>1, FinishKeeps
    <1>2. CASE ConfirmSubmission /\ prober' # Finish(prober)
        BY <1>0, <1>2, OnKeeps DEF ConfirmSubmission
    <1>3. CASE TagProbe
        BY <1>0, <1>3, OnKeeps DEF TagProbe, Move
    <1>4. CASE ConfirmActivation /\ prober' # Finish(prober)
        BY <1>0, <1>4, OnKeeps DEF ConfirmActivation, Move
    <1>5. CASE ConfirmStopped /\ prober' # Finish(prober)
        BY <1>0, <1>5, OnKeeps DEF ConfirmStopped
    <1>6. QED
        BY <1>1, <1>2, <1>3, <1>4, <1>5 DEF MetadataTimeout

LEMMA StopKeeps ==
    ASSUME ProbeTypeOK, ProbeInv, JobInv', StopSelected
    PROVE  ProbeInv'
    <1>1. prober \in Prober /\ Working /\ ProberAt("stop") /\ There(Target) /\ JobInv
        BY DEF ProbeTypeOK, StopSelected, Working, ProberAt, ProbeInv
    <1>2. /\ Steady /\ prober'.pc = "stopped" /\ prober'.look = prober.look
          /\ prober'.created = prober.created /\ prober'.lost = prober.lost
          /\ prober'.kept = prober.kept /\ prober'.dirty = prober.dirty
          /\ prober'.arrived = prober.arrived
        BY <1>1 DEF Prober, StopSelected, Move, Steady
    <1>3. Target' = Target
        BY <1>2, SameTarget
    <1>4. /\ Touched /\ known'[Target].by = known[Target].by
          /\ known'[Target].meta = known[Target].meta
          /\ known'[Target] # Absent /\ known'[Target].run # "paused"
        BY <1>1, StopTouches DEF StopSelected
    <1>5. prober.created /\ ~prober.preflight
        BY <1>1 DEF ProbeInv, PlaceInv, ProberAt, Holding, Keeping
    <1>6. PlaceInv' /\ Working'
        BY <1>1, <1>2, <1>5 DEF ProbeInv, PlaceInv, ProberAt, Working, Holding, Keeping, Steady
    <1>7. WayInv'
        BY <1>1, <1>2, <1>3, <1>4
        DEF ProbeInv, WayInv, ProberAt, Keeping, There, Steady, StopSelected
    <1>8. Pending'
        BY <1>2, <1>5 DEF Pending, ProberAt
    <1>9. QED
        BY <1>1, <1>2, <1>4, <1>5, <1>6, <1>7, <1>8, TouchKeeps DEF StopSelected

LEMMA StopLostKeeps ==
    ASSUME ProbeTypeOK, ProbeInv, JobInv', StopIsLost
    PROVE  ProbeInv'
    <1>1. Working /\ ~ProberAt("look") /\ ~ProberAt("look_again") /\ There(Target)
        BY DEF StopIsLost, Working, ProberAt
    <1>2. Target \in Torrents
        BY <1>1, TargetIsTorrent DEF ProbeInv
    <1>3. known[Target] \in Entry /\ known' = [known EXCEPT ![Target].run = "stopped"]
        BY <1>1, <1>2 DEF There, ProbeTypeOK, StopIsLost
    <1>4. known'[Target].by = known[Target].by /\ \A h \in Torrents : h # Target => known'[h] = known[h]
        BY <1>2, <1>3 DEF ProbeTypeOK, Entry
    <1>5. Touched
        BY <1>1, <1>4 DEF Touched
    <1>6. QED
        BY <1>1, <1>5, FinishKeeps DEF StopIsLost

LEMMA RaisesKeeps ==
    ASSUME ProbeTypeOK, ProbeInv, JobInv', ProbeRaises
    PROVE  ProbeInv'
    <1>0. prober \in Prober /\ Working /\ UNCHANGED <<known, inflight>> /\ ~ProberAt("look_again")
        BY DEF ProbeTypeOK, ProbeRaises, Working, ProberAt
    <1> DEFINE looked == IF ProberAt("look") THEN "unanswered" ELSE prober.look
               asks == ~prober.preflight /\ ~prober.created /\ looked # "present"
    <1>1. \/ asks /\ prober' = [prober EXCEPT !.pc = "look_again", !.look = looked]
          \/ ~asks /\ prober' = Finish(prober)
        BY DEF ProbeRaises
    <1>2. CASE asks /\ prober' = [prober EXCEPT !.pc = "look_again", !.look = looked]
        <2>1. ~prober.created /\ looked \notin {"present", "none"}
            BY <1>0, <1>2 DEF ProbeInv, PlaceInv
        <2> HIDE DEF looked
        <2>2. /\ Steady /\ prober'.pc = "look_again" /\ prober'.look = looked
              /\ prober'.created = prober.created /\ prober'.lost = prober.lost
              /\ prober'.kept = prober.kept /\ prober'.dirty = prober.dirty
              /\ prober'.arrived = prober.arrived
            BY <1>0, <1>2 DEF Prober, Steady
        <2>3. PlaceInv' /\ Working'
            BY <2>1, <2>2 DEF PlaceInv, ProberAt, Working, Holding, Keeping
        <2>4. WayInv'
            BY <2>2 DEF WayInv, ProberAt, Keeping
        <2>5. Pending'
            BY <2>2 DEF Pending, ProberAt
        <2>6. prober'.look = "unanswered" \/ prober'.look = prober.look
            BY <2>2 DEF looked
        <2>7. QED
            BY <1>0, <2>1, <2>2, <2>3, <2>4, <2>5, <2>6, QuietKeeps
    <1>3. CASE ~asks /\ prober' = Finish(prober)
        <2>1. ~ProberAt("look")
            BY <1>0, <1>3 DEF ProbeRaises, ProbeInv, PlaceInv, ProberAt
        <2>2. QED
            BY <1>0, <1>3, <2>1, FinishKeeps, Untouched
    <1>4. QED
        BY <1>1, <1>2, <1>3

LEMMA SubmitKeeps ==
    ASSUME ProbeTypeOK, ProbeInv, JobInv', SubmitMagnet
    PROVE  ProbeInv'
    <1>1. prober \in Prober /\ Working /\ ProberAt("submit") /\ Target \in Torrents
        BY TargetIsTorrent DEF ProbeTypeOK, SubmitMagnet, Working, ProberAt, ProbeInv
    <1>2. /\ Steady /\ prober'.look = "absent"
          /\ \/ prober'.pc = "confirm" /\ prober'.created = TRUE
             \/ prober'.pc = "look_again" /\ prober'.created = prober.created
          /\ prober'.lost = prober.lost /\ prober'.kept = prober.kept
          /\ prober'.dirty = prober.dirty /\ prober'.arrived = prober.arrived
        BY ZenonT(40), <1>1 DEF Prober, SubmitMagnet, Move, Steady, ProbeInv, PlaceInv, ProberAt
    <1>3. Target' = Target /\ prober'.job = prober.job /\ UNCHANGED <<pdirs, jobdirs>>
        BY <1>2, SameTarget DEF SubmitMagnet, Steady
    <1>4. prober.look = "absent" /\ <<prober.job, Target>> \in pdirs
        BY <1>1 DEF ProbeInv, PlaceInv, WayInv, ProberAt
    <1>5. PlaceInv' /\ Working'
        BY <1>2 DEF PlaceInv, ProberAt, Working, Holding, Keeping
    <1>6. WayInv'
        BY <1>2, <1>3, <1>4 DEF WayInv, ProberAt, Keeping
    <1>7. Pending'
        BY <1>2 DEF Pending, ProberAt
    <1>8. /\ \A h \in Torrents : h # Target => known'[h] = known[h]
          /\ known'[Target] = known[Target] \/ known'[Target].by = prober.job
        BY <1>1 DEF SubmitMagnet, Loaded, ProbeTypeOK
    <1>9. inflight' = inflight \/ inflight' = inflight \cup {<<prober.job, Target>>}
        BY DEF SubmitMagnet
    <1>10. prober.job \in Nat
        BY <1>1, ProbeAssumption DEF Prober
    <1>11. ForeignInv'
        BY <1>1, <1>2, <1>3, <1>4, <1>8 DEF ProbeInv, ForeignInv, There
    <1>12. AccountInv'
        <2>1. \A h \in Torrents : known'[h].by <= prober'.job
            BY <1>3, <1>8, <1>10 DEF ProbeInv, AccountInv
        <2>2. \A s \in inflight' : s[1] <= prober'.job
            BY <1>3, <1>9, <1>10 DEF ProbeInv, AccountInv
        <2>3. \A h \in Torrents : Own(h)' => Own(h) \/ h = Target
            BY <1>3, <1>8, <1>9 DEF Own
        <2>4. \A h \in Torrents : Told(h) => Told(h)'
            BY <1>2 DEF Told
        <2>5. \A h \in Torrents : Own(h)' => Told(h)' \/ (h = Target' /\ Pending')
            BY <1>1, <1>3, <1>7, <2>3, <2>4 DEF ProbeInv, AccountInv
        <2>6. QED
            BY <1>5, <2>1, <2>2, <2>5 DEF AccountInv, Working, ProberAt
    <1>13. SelectedInv'
        BY <1>5 DEF SelectedInv, Working, ProberAt
    <1>14. QED
        BY <1>5, <1>6, <1>11, <1>12, <1>13 DEF ProbeInv

-----------------------------------------------------------------------------
(* From torrent to torrent, and from job to job *)

\* A job turns to its next torrent when it has told of what is its own.
LEMMA TurnKeeps ==
    ASSUME ProbeTypeOK, ProbeInv, JobInv', UNCHANGED <<known, inflight>>,
           prober'.pc = "look", prober'.look = "none", prober'.created = FALSE,
           prober'.job = prober.job, prober'.lost = prober.lost, prober'.kept = prober.kept,
           prober'.dirty = prober.dirty, \A h \in Torrents : Own(h) => Told(h)
    PROVE  ProbeInv'
    <1>1. Working' /\ ProberAt("look")'
        BY DEF Working, ProberAt
    <1>2. PlaceInv' /\ ForeignInv' /\ WayInv'
        BY <1>1 DEF PlaceInv, ForeignInv, WayInv, ProberAt, Holding, Keeping
    <1>3. AccountInv'
        BY <1>1 DEF ProbeInv, AccountInv, Own, Told, ProberAt
    <1>4. SelectedInv'
        BY DEF SelectedInv, ProberAt
    <1>5. QED
        BY <1>2, <1>3, <1>4 DEF ProbeInv

\* A job that is over, or ended.
LEMMA EndKeeps ==
    ASSUME ProbeTypeOK, ProbeInv, JobInv', UNCHANGED <<known, inflight, pdirs>>,
           prober'.pc \in {"end", "off"}, prober'.job = prober.job,
           prober'.exit # 9 =>
               /\ prober'.lost = prober.lost /\ prober'.kept = prober.kept
               /\ prober'.dirty = prober.dirty
               /\ \A h \in Torrents : Own(h) => Told(h) \/ h \in prober'.selected,
           prober'.pc = "end" => prober'.exit \in {0, 5, 6},
           prober'.exit \in {0, 4, 5, 6, 7, 9},
           prober'.exit = 0 => \A h \in prober'.selected : Told(h) \/ Held(h),
           prober'.exit \in {5, 6} => prober'.selected = {},
           prober'.pc = "off" /\ prober'.exit \in {0, 5, 6} => ~prober.dirty
    PROVE  ProbeInv'
    <1>1. ~Working'
        BY DEF Working
    <1>2. PlaceInv' /\ ForeignInv' /\ WayInv'
        BY <1>1 DEF PlaceInv, ForeignInv, WayInv
    <1>3. AccountInv'
        BY <1>1 DEF ProbeInv, AccountInv, Own, Told, ProberAt
    <1>4. SelectedInv'
        BY DEF SelectedInv, ProberAt, Told, Held
    <1>5. QED
        BY <1>2, <1>3, <1>4 DEF ProbeInv

LEMMA PrepareKeeps ==
    ASSUME ProbeTypeOK, ProbeInv, JobInv', PrepareJob
    PROVE  ProbeInv'
    <1>1. prober \in Prober /\ prober' = Turned(prober) /\ UNCHANGED <<known, inflight>>
        BY DEF ProbeTypeOK, PrepareJob
    <1>2. \A h \in Torrents : Own(h) => Told(h)
        BY DEF ProbeInv, AccountInv, PrepareJob
    <1>3. QED
        BY <1>1, <1>2, TurnedIs, TurnKeeps

LEMMA NextJobKeeps ==
    ASSUME ProbeTypeOK, ProbeInv, JobInv', NextTorrent
    PROVE  ProbeInv'
    <1>1. prober \in Prober /\ Working /\ ProberAt("next") /\ UNCHANGED <<known, inflight, pdirs>>
        BY DEF ProbeTypeOK, NextTorrent, Working, ProberAt, remoteVars
    <1>2. \A h \in Torrents : Own(h) => Told(h) \/ (h = Target /\ Pending)
        BY <1>1 DEF ProbeInv, AccountInv
    <1>3. Pending => prober.healthy /\ ~prober.preflight /\ prober.created
        BY <1>1 DEF Pending, ProberAt
    <1> DEFINE t == Turned(prober)
    <1>4. /\ t \in Prober /\ t.pc = "look" /\ t.look = "none" /\ t.created = FALSE
          /\ t.job = prober.job /\ t.lost = prober.lost /\ t.kept = prober.kept
          /\ t.dirty = prober.dirty
        BY <1>1, TurnedIs
    <1> HIDE DEF t
    <1>5. CASE /\ prober.preflight \/ ~prober.healthy
               /\ prober' = Over(prober, 5) \/ prober' = Over(prober, 6)
        <2>1. PICK exit \in {5, 6} : prober' = Over(prober, exit)
            BY <1>5
        <2>2. exit \in 0..9 /\ exit # 0
            OBVIOUS
        <2>3. /\ prober'.pc = "end" /\ prober'.job = prober.job /\ prober'.exit = exit
              /\ prober'.lost = prober.lost /\ prober'.kept = prober.kept
              /\ prober'.dirty = prober.dirty /\ prober'.selected = {}
            BY ZenonT(40), <1>1, <2>1, <2>2, OverIs
        <2>4. \A h \in Torrents : Own(h) => Told(h)
            BY <1>2, <1>3, <1>5
        <2>5. QED
            BY <1>1, <2>3, <2>4, EndKeeps
    <1>6. CASE ~prober.preflight /\ prober.healthy /\ prober' = Over(prober, 0)
        <2>1. Target \in Hashes /\ Target \in Torrents
            BY <1>1, <1>6, TargetIsTorrent DEF ProbeInv
        <2>2. /\ prober'.pc = "end" /\ prober'.job = prober.job /\ prober'.exit = 0
              /\ prober'.lost = prober.lost /\ prober'.kept = prober.kept
              /\ prober'.dirty = prober.dirty /\ prober'.selected = {Target}
            BY <1>1, <1>6, <2>1, 0 \in 0..9, OverIs
        <2>3. \A h \in Torrents : Own(h) => Told(h) \/ h \in prober'.selected
            BY <1>2, <2>2
        <2>4. Told(Target) \/ Held(Target)
            <3>1. CASE prober.created
                BY <1>1, <1>6, <3>1 DEF ProbeInv, WayInv
            <3>2. CASE ~prober.created
                BY <1>2, <1>3, <2>1, <3>2 DEF Own, Held
            <3>3. QED
                BY <3>1, <3>2
        <2>5. QED
            BY <1>1, <2>2, <2>3, <2>4, EndKeeps
    <1>7. CASE prober.preflight /\ prober' = [t EXCEPT !.preflight = FALSE]
        <2>1. /\ prober'.pc = "look" /\ prober'.look = "none" /\ prober'.created = FALSE
              /\ prober'.job = prober.job /\ prober'.lost = prober.lost
              /\ prober'.kept = prober.kept /\ prober'.dirty = prober.dirty
            BY <1>4, <1>7 DEF Prober
        <2>2. QED
            BY <1>1, <1>2, <1>3, <1>7, <2>1, TurnKeeps
    <1>8. CASE ~prober.healthy /\ prober' = [t EXCEPT !.queue = Tail(@)]
        <2>1. /\ prober'.pc = "look" /\ prober'.look = "none" /\ prober'.created = FALSE
              /\ prober'.job = prober.job /\ prober'.lost = prober.lost
              /\ prober'.kept = prober.kept /\ prober'.dirty = prober.dirty
            BY <1>4, <1>8 DEF Prober
        <2>2. QED
            BY <1>1, <1>2, <1>3, <1>8, <2>1, TurnKeeps
    <1>9. QED
        BY <1>5, <1>6, <1>7, <1>8 DEF NextTorrent, t

LEMMA EndProbeKeeps ==
    ASSUME ProbeTypeOK, ProbeInv, JobInv', EndProbe
    PROVE  ProbeInv'
    <1>1. prober \in Prober /\ ProberAt("end") /\ UNCHANGED <<known, inflight, pdirs>>
        BY DEF ProbeTypeOK, EndProbe
    <1> DEFINE code == IF prober.dirty THEN 7 ELSE prober.exit
    <1>2. prober' = [prober EXCEPT !.pc = "off", !.exit = code]
        BY <1>1 DEF EndProbe, Prober
    <1>3. /\ prober.exit \in {0, 5, 6} /\ code \in {0, 5, 6, 7}
          /\ code \in {0, 5, 6} => ~prober.dirty /\ code = prober.exit
        BY <1>1 DEF ProbeInv, SelectedInv
    <1> HIDE DEF code
    <1>4. /\ prober'.pc = "off" /\ prober'.job = prober.job /\ prober'.lost = prober.lost
          /\ prober'.kept = prober.kept /\ prober'.dirty = prober.dirty
          /\ prober'.selected = prober.selected /\ prober'.exit = code
        BY <1>1, <1>2 DEF Prober
    <1>5. \A h \in Torrents : Own(h) => Told(h) \/ h \in prober'.selected
        BY <1>1, <1>4 DEF ProbeInv, AccountInv
    <1>6. /\ prober'.exit = 0 => \A h \in prober'.selected : Told(h) \/ Held(h)
          /\ prober'.exit \in {5, 6} => prober'.selected = {}
        BY <1>1, <1>3, <1>4 DEF ProbeInv, SelectedInv, ProberAt
    <1>7. QED
        BY <1>1, <1>3, <1>4, <1>5, <1>6, EndKeeps

LEMMA AbortKeeps ==
    ASSUME ProbeTypeOK, ProbeInv, JobInv', ProbeAborts
    PROVE  ProbeInv'
    <1>1. prober \in Prober /\ UNCHANGED <<known, inflight, pdirs>>
        BY DEF ProbeTypeOK, ProbeAborts
    <1>2. prober' = [prober EXCEPT !.pc = "off", !.exit = 4, !.queue = << >>, !.preflight = FALSE]
        BY DEF ProbeAborts
    <1>3. /\ prober'.pc = "off" /\ prober'.job = prober.job /\ prober'.lost = prober.lost
          /\ prober'.kept = prober.kept /\ prober'.dirty = prober.dirty
          /\ prober'.selected = prober.selected /\ prober'.exit = 4
        BY <1>1, <1>2 DEF Prober
    <1>4. \A h \in Torrents : Own(h) => Told(h) \/ h \in prober.selected
        <2>1. CASE ProberAt("job") \/ ProberAt("end")
            BY <2>1 DEF ProbeInv, AccountInv
        <2>2. CASE ProberAt("look")
            BY <2>2 DEF ProbeInv, AccountInv, PlaceInv, Working, Pending, ProberAt
        <2>3. QED
            BY <2>1, <2>2 DEF ProbeAborts, ProberAt
    <1>5. QED
        BY <1>1, <1>3, <1>4, EndKeeps

LEMMA CrashKeeps ==
    ASSUME ProbeTypeOK, ProbeInv, JobInv', ProbeCrash
    PROVE  ProbeInv'
    <1>1. prober.job \in 0..Jobs /\ UNCHANGED <<known, inflight, pdirs>> /\ prober' = NewJob(prober.job)
        BY DEF ProbeTypeOK, Prober, ProbeCrash, remoteVars
    <1>2. prober'.pc = "off" /\ prober'.job = prober.job /\ prober'.exit = 9
        BY <1>1, NewJobIs
    <1>3. QED
        BY <1>1, <1>2, EndKeeps

\* A job that begins finds nothing of its own.
LEMMA BeginKeeps ==
    ASSUME ProbeTypeOK, ProbeInv, NEW queue \in Seq(Hashes) \ {<< >>}, NEW preflight \in BOOLEAN,
           NEW keep \in BOOLEAN, BeginProbe(queue, preflight, keep)
    PROVE  ProbeInv'
    <1>1. /\ JobInv' /\ prober'.pc = "job" /\ prober'.job = prober.job + 1 /\ prober'.exit = 9
          /\ UNCHANGED <<known, inflight, pdirs>>
        BY BeginType DEF ProbeInv, BeginProbe, remoteVars
    <1>2. ~Working'
        BY <1>1 DEF Working
    <1>3. PlaceInv' /\ ForeignInv' /\ WayInv' /\ SelectedInv'
        BY <1>1, <1>2 DEF PlaceInv, ForeignInv, WayInv, SelectedInv, ProberAt
    <1>4. prober.job \in Nat /\ \A h \in Torrents : known[h].by \in Int
        BY ProbeAssumption DEF ProbeTypeOK, Prober, Entry, Absent
    <1>5. \A s \in inflight : s[1] \in Int
        BY ProbeAssumption DEF ProbeTypeOK
    <1>6. /\ \A h \in Torrents : known'[h].by <= prober.job
          /\ \A s \in inflight' : s[1] <= prober.job
        BY <1>1 DEF ProbeInv, AccountInv
    <1>7. \A h \in Torrents : ~Own(h)'
        BY <1>1, <1>4, <1>5, <1>6 DEF Own
    <1>8. AccountInv'
        BY <1>1, <1>2, <1>4, <1>5, <1>6, <1>7 DEF AccountInv, ProberAt
    <1>9. QED
        BY <1>1, <1>3, <1>8 DEF ProbeInv

-----------------------------------------------------------------------------
(* rTorrent and its other users *)

\* All of the job stays as it is, but that a torrent may have come after its look.
Idle ==
    /\ prober'.pc = prober.pc /\ prober'.look = prober.look /\ prober'.created = prober.created
    /\ prober'.healthy = prober.healthy /\ prober'.lost = prober.lost
    /\ prober'.kept = prober.kept /\ prober'.dirty = prober.dirty /\ Steady

LEMMA ArrivesIdle ==
    ASSUME ProbeTypeOK, Arrives
    PROVE  Idle /\ prober'.arrived = (prober.look # "none")
    BY DEF ProbeTypeOK, Prober, Arrives, Idle, Steady

LEMMA StaysIdle ==
    UNCHANGED prober => Idle
    BY DEF Idle, Steady

\* While the job works, only the torrent it works on changes: it runs on, it goes
\* while no submission of it is under way, or one comes that was not there.
LEMMA OthersKeep ==
    ASSUME ProbeTypeOK, ProbeInv, JobInv', Working, Idle, UNCHANGED pdirs,
           inflight' \subseteq inflight,
           \A h \in Torrents : h # Target => known'[h] = known[h],
           known'[Target].by <= prober.job,
           There(Target)' =>
               \/ /\ There(Target) /\ known'[Target].by = known[Target].by
                  /\ prober'.arrived = prober.arrived
                  /\ known[Target].meta => known'[Target].meta
                  /\ known'[Target].run = known[Target].run
                        \/ (known[Target].run = "paused" /\ known'[Target].run = "active")
               \/ /\ ~There(Target) /\ prober'.arrived = (prober.look # "none")
                  /\ known'[Target].by = prober.job => <<prober.job, Target>> \in inflight,
           ~There(Target)' => ~There(Target) \/ <<prober.job, Target>> \notin inflight
    PROVE  ProbeInv'
    <1>1. Target' = Target /\ prober'.job = prober.job /\ Working'
        BY SameTarget DEF Idle, Steady, Working
    <1>2. Target \in Torrents /\ prober.job \in Nat \ {0}
        BY TargetIsTorrent, ProbeAssumption
        DEF ProbeInv, JobInv, Working, ProberAt, ProbeTypeOK, Prober
    <1>3. ~There(Target)' => known'[Target].by # prober.job
        BY <1>1, <1>2 DEF There, Absent
    <1>4. Own(Target)' => Own(Target)
        BY <1>1, <1>3 DEF Own
    <1>5. PlaceInv'
        BY <1>1 DEF ProbeInv, PlaceInv, Idle, Steady, ProberAt
    <1>6. ForeignInv'
        <2>1. prober.created \/ prober.look = "absent" => prober.look # "none"
            BY DEF ProbeInv, PlaceInv
        <2>2. QED
            BY <1>1, <2>1 DEF ProbeInv, ForeignInv, Idle
    <1>7. AccountInv'
        <2>1. \A h \in Torrents : known'[h].by <= prober'.job
            BY <1>1 DEF ProbeInv, AccountInv
        <2>2. \A s \in inflight' : s[1] <= prober'.job
            BY <1>1 DEF ProbeInv, AccountInv
        <2>3. \A h \in Torrents : Own(h)' => Own(h)
            BY <1>1, <1>4 DEF Own
        <2>4. \A h \in Torrents : Told(h)' = Told(h)
            BY DEF Told, Idle
        <2>5. Pending' = Pending
            BY DEF Pending, ProberAt, Idle, Steady
        <2>6. \A h \in Torrents : Own(h)' => Told(h)' \/ (h = Target' /\ Pending')
            BY <1>1, <2>3, <2>4, <2>5 DEF ProbeInv, AccountInv
        <2>7. QED
            BY <1>1, <2>1, <2>2, <2>6 DEF AccountInv, Working, ProberAt
    <1>8. WayInv'
        <2>1. prober.pc \in Keeping \cup {"submit", "confirm", "tag", "activate"}
                 \/ (ProberAt("wait") /\ prober.created) => <<prober'.job, Target'>> \in pdirs'
            BY <1>1 DEF ProbeInv, WayInv
        <2>2. prober.pc \in Keeping =>
                 /\ known'[Target].by = prober.job => known'[Target].meta
                 /\ ~There(Target)' => <<prober.job, Target>> \notin inflight'
            BY <1>3 DEF ProbeInv, WayInv
        <2>3. ProberAt("stopped") /\ known'[Target].by = prober.job => known'[Target].run # "paused"
            BY <1>3 DEF ProbeInv, WayInv, ProberAt, Keeping
        <2>4. ProberAt("mark") /\ known'[Target].by = prober.job => known'[Target].run = "stopped"
            BY <1>3 DEF ProbeInv, WayInv, ProberAt, Keeping
        <2>5. ProberAt("next") /\ prober.healthy /\ ~prober.preflight /\ prober.created =>
                 \/ Told(Target)
                 \/ /\ known'[Target].by = prober.job =>
                          /\ known'[Target].meta /\ known'[Target].run = "stopped"
                          /\ <<prober.job, Target>> \in pdirs
                    /\ <<prober.job, Target>> \notin inflight'
            BY <1>3 DEF ProbeInv, WayInv, Held
        <2>6. QED
            BY <1>1, <2>1, <2>2, <2>3, <2>4, <2>5
            DEF WayInv, Idle, Steady, ProberAt, Told, Held
    <1>9. SelectedInv'
        BY <1>1 DEF SelectedInv, Working, ProberAt
    <1>10. QED
        BY <1>5, <1>6, <1>7, <1>8, <1>9 DEF ProbeInv

LEMMA OtherTypes ==
    ASSUME ProbeTypeOK, JobInv, Working
    PROVE  /\ Target \in Torrents /\ prober.job \in Nat \ {0}
           /\ known[Target] \in Entry \cup {Absent}
           /\ There(Target) => known[Target] \in Entry
    BY TargetIsTorrent, ProbeAssumption
    DEF JobInv, Working, ProberAt, ProbeTypeOK, Prober, There

\* What is loaded is there, and whose it is.
LEMMA LoadedIs ==
    ASSUME ProbeTypeOK, NEW h \in Torrents, NEW job \in 0..Jobs, NEW run \in {"paused", "active"},
           known' = Loaded(h, job, run)
    PROVE  /\ known'[h].by = job /\ \A g \in Torrents : g # h => known'[g] = known[g]
           /\ known'[h] # Absent
    BY DEF Loaded, ProbeTypeOK, Absent

LEMMA LandKeeps ==
    ASSUME ProbeTypeOK, ProbeInv, JobInv', Land
    PROVE  ProbeInv'
    <1>1. PICK s \in inflight :
             /\ AtWork(s[2]) /\ inflight' = inflight \ {s}
             /\ \/ There(s[2]) /\ UNCHANGED <<known, prober>>
                \/ /\ ~There(s[2])
                   /\ \E run \in {"paused", "active"} : known' = Loaded(s[2], s[1], run)
                   /\ Arrives
             /\ UNCHANGED <<pdirs, jobdirs>>
        BY DEF Land
    <1>2. Working /\ s[2] = Target
        BY <1>1 DEF AtWork, Working
    <1>3. /\ s[1] \in 1..Jobs /\ s[1] <= prober.job /\ s = <<s[1], Target>>
        BY <1>2 DEF ProbeTypeOK, ProbeInv, AccountInv
    <1>4. Target \in Torrents /\ prober.job \in Nat \ {0} /\ Idle /\ known[Target].by <= prober.job
        BY <1>1, <1>2, OtherTypes, ArrivesIdle, StaysIdle DEF ProbeInv, AccountInv
    <1>5. CASE There(s[2]) /\ UNCHANGED <<known, prober>>
        <2>1. Target' = Target /\ known' = known /\ prober'.arrived = prober.arrived
            BY <1>4, <1>5, SameTarget DEF Idle
        <2>2. There(Target) /\ There(Target)'
            BY <1>2, <1>5, <2>1 DEF There
        <2>3. QED
            BY <1>1, <1>2, <1>4, <2>1, <2>2, OthersKeep
    <1>6. CASE ~There(s[2]) /\ Arrives /\ \E run \in {"paused", "active"} : known' = Loaded(s[2], s[1], run)
        <2>1. /\ known'[Target].by = s[1] /\ known'[Target] # Absent
              /\ \A g \in Torrents : g # Target => known'[g] = known[g]
            BY <1>2, <1>3, <1>4, <1>6, LoadedIs
        <2>2. prober'.arrived = (prober.look # "none")
            BY <1>6, ArrivesIdle
        <2>3. Target' = Target
            BY <1>4, SameTarget DEF Idle
        <2>4. There(Target)'
            BY <2>1, <2>3 DEF There
        <2>5. known'[Target].by = prober.job => <<prober.job, Target>> \in inflight
            BY <1>3, <2>1
        <2>6. QED
            BY <1>1, <1>2, <1>3, <1>4, <1>6, <2>1, <2>2, <2>4, <2>5, OthersKeep
    <1>7. QED
        BY <1>1, <1>5, <1>6

LEMMA RunsKeeps ==
    ASSUME ProbeTypeOK, ProbeInv, JobInv', TorrentRuns
    PROVE  ProbeInv'
    <1>1. PICK h \in Torrents :
             /\ AtWork(h) /\ There(h)
             /\ \/ known[h].run = "paused" /\ known' = [known EXCEPT ![h].run = "active"]
                \/ known[h].run = "active" /\ ~known[h].meta /\ known' = [known EXCEPT ![h].meta = TRUE]
             /\ UNCHANGED <<inflight, pdirs, jobdirs, prober>>
        BY DEF TorrentRuns
    <1>2. Working /\ h = Target
        BY <1>1 DEF AtWork, Working
    <1>3. Target \in Torrents /\ known[Target] \in Entry /\ Idle /\ Target' = Target
        BY <1>1, <1>2, OtherTypes, StaysIdle, SameTarget DEF ProbeInv, Idle
    <1>4. /\ \A g \in Torrents : g # Target => known'[g] = known[g]
          /\ known'[Target].by = known[Target].by
          /\ known[Target].meta => known'[Target].meta
          /\ known'[Target].run = known[Target].run
                \/ (known[Target].run = "paused" /\ known'[Target].run = "active")
        BY <1>1, <1>2, <1>3 DEF ProbeTypeOK, Entry
    <1>5. known'[Target].by <= prober.job /\ known'[Target] # Absent
        BY <1>3, <1>4 DEF ProbeInv, AccountInv, Entry, Absent
    <1>6. There(Target)'
        BY <1>3, <1>5 DEF There
    <1>7. QED
        BY <1>1, <1>2, <1>3, <1>4, <1>5, <1>6, OthersKeep

LEMMA AddsKeeps ==
    ASSUME ProbeTypeOK, ProbeInv, JobInv', UserAdds
    PROVE  ProbeInv'
    <1>1. PICK h \in Torrents :
             /\ AtWork(h) /\ ~There(h) /\ known' = Loaded(h, 0, "active")
             /\ inflight' = {s \in inflight : s[2] # h}
             /\ Arrives /\ UNCHANGED <<pdirs, jobdirs>>
        BY DEF UserAdds
    <1>2. Working /\ h = Target
        BY <1>1 DEF AtWork, Working
    <1>3. Target \in Torrents /\ prober.job \in Nat \ {0} /\ Idle
          /\ prober'.arrived = (prober.look # "none")
        BY <1>1, <1>2, OtherTypes, ArrivesIdle DEF ProbeInv
    <1>4. /\ known'[Target].by = 0 /\ known'[Target] # Absent
          /\ \A g \in Torrents : g # Target => known'[g] = known[g]
        <2>1. 0 \in 0..Jobs /\ "active" \in {"paused", "active"}
            BY ProbeAssumption
        <2>2. QED
            BY <1>1, <1>2, <1>3, <2>1, LoadedIs
    <1>5. There(Target)'
        BY <1>3, <1>4, SameTarget DEF There, Idle
    <1>6. QED
        BY <1>1, <1>2, <1>3, <1>4, <1>5, OthersKeep

LEMMA ErasesKeeps ==
    ASSUME ProbeTypeOK, ProbeInv, JobInv', UserErases
    PROVE  ProbeInv'
    <1>1. PICK h \in Torrents :
             /\ AtWork(h) /\ There(h) /\ \A s \in inflight : s[2] # h
             /\ known' = [known EXCEPT ![h] = Absent]
             /\ UNCHANGED <<inflight, pdirs, jobdirs, prober>>
        BY DEF UserErases
    <1>2. Working /\ h = Target
        BY <1>1 DEF AtWork, Working
    <1>3. Target \in Torrents /\ prober.job \in Nat \ {0} /\ Idle /\ Target' = Target
        BY <1>1, <1>2, OtherTypes, StaysIdle, SameTarget DEF ProbeInv, Idle
    <1>4. /\ known'[Target] = Absent /\ \A g \in Torrents : g # Target => known'[g] = known[g]
        BY <1>1, <1>2, <1>3 DEF ProbeTypeOK
    <1>5. <<prober.job, Target>> \notin inflight /\ ~There(Target)' /\ known'[Target].by <= prober.job
        BY <1>1, <1>2, <1>3, <1>4 DEF There, Absent
    <1>6. QED
        BY <1>1, <1>2, <1>3, <1>4, <1>5, OthersKeep

-----------------------------------------------------------------------------
(* Every step keeps the invariant *)

LEMMA CommandWorkKeeps ==
    ASSUME ProbeTypeOK, ProbeInv, JobInv', ProbeWork \/ MetadataTimeout
    PROVE  ProbeInv'
    <1>1. CASE PrepareJob
        BY <1>1, PrepareKeeps
    <1>2. CASE EndProbe
        BY <1>2, EndProbeKeeps
    <1>3. CASE NextTorrent
        BY <1>3, NextJobKeeps
    <1>4. CASE Look
        BY <1>4, LookKeeps
    <1>5. CASE MakeProbeDirectory
        BY <1>5, MakeDirectoryKeeps
    <1>6. CASE SubmitMagnet
        BY <1>6, SubmitKeeps
    <1>7. CASE ConfirmSubmission \/ TagProbe \/ ConfirmActivation \/ ConfirmStopped \/ MetadataTimeout
        BY <1>7, ConfirmKeeps
    <1>8. CASE AwaitMetadata
        BY <1>8, AwaitKeeps
    <1>9. CASE StopSelected
        BY <1>9, StopKeeps
    <1>10. CASE MarkValidated
        BY <1>10, MarkKeeps
    <1>11. CASE LookAgain
        BY <1>11, LookAgainKeeps
    <1>12. CASE CleanLook \/ CleanStop \/ CleanErase \/ CleanCheck \/ CleanDirectory
        BY <1>12, CleanKeeps
    <1>13. QED
        BY <1>1, <1>2, <1>3, <1>4, <1>5, <1>6, <1>7, <1>8, <1>9, <1>10, <1>11, <1>12 DEF ProbeWork

LEMMA StepKeeps ==
    ASSUME ProbeTypeOK, ProbeInv, ProbeStep
    PROVE  ProbeTypeOK' /\ ProbeInv'
    <1>0. ProbeTypeOK' /\ JobInv'
        BY StepType DEF ProbeInv
    <1>1. CASE ProbeWork \/ MetadataTimeout
        BY <1>0, <1>1, CommandWorkKeeps
    <1>2. CASE ProbeRaises
        BY <1>0, <1>2, RaisesKeeps
    <1>3. CASE StopIsLost
        BY <1>0, <1>3, StopLostKeeps
    <1>4. CASE ProbeAborts
        BY <1>0, <1>4, AbortKeeps
    <1>5. CASE ProbeCrash
        BY <1>0, <1>5, CrashKeeps
    <1>6. CASE Land
        BY <1>0, <1>6, LandKeeps
    <1>7. CASE TorrentRuns
        BY <1>0, <1>7, RunsKeeps
    <1>8. CASE UserAdds
        BY <1>0, <1>8, AddsKeeps
    <1>9. CASE UserErases
        BY <1>0, <1>9, ErasesKeeps
    <1>10. QED
        BY <1>0, <1>1, <1>2, <1>3, <1>4, <1>5, <1>6, <1>7, <1>8, <1>9
        DEF ProbeStep, ProbeFailure, ProbeEnvironment

\* Nothing of the probe changes.
LEMMA ProbeRests ==
    ASSUME ProbeTypeOK, ProbeInv, UNCHANGED probeVars
    PROVE  ProbeTypeOK' /\ ProbeInv'
    <1>1. ProbeTypeOK'
        BY DEF probeVars, ProbeTypeOK
    <1>2. /\ prober' = prober /\ known' = known /\ inflight' = inflight /\ pdirs' = pdirs
          /\ Target' = Target /\ Working' = Working
        BY DEF probeVars, Target, Working, ProberAt
    <1>3. JobInv' /\ PlaceInv'
        BY <1>2 DEF ProbeInv, JobInv, PlaceInv, ProberAt
    <1>4. ForeignInv'
        BY <1>2 DEF ProbeInv, ForeignInv, There
    <1>5. AccountInv'
        BY <1>2 DEF ProbeInv, AccountInv, ProberAt, Own, Told, Pending
    <1>6. WayInv' /\ SelectedInv'
        BY <1>2 DEF ProbeInv, WayInv, SelectedInv, ProberAt, There, Told, Held
    <1>7. QED
        BY <1>1, <1>3, <1>4, <1>5, <1>6 DEF ProbeInv

\* A job that begins, with the type and the invariant.
LEMMA JobBegins ==
    ASSUME ProbeTypeOK, ProbeInv, NEW queue \in Seq(Hashes) \ {<< >>}, NEW preflight \in BOOLEAN,
           NEW keep \in BOOLEAN, BeginProbe(queue, preflight, keep)
    PROVE  ProbeTypeOK' /\ ProbeInv'
    BY BeginType, BeginKeeps DEF ProbeInv

\* The hashes of a queue that a job may be given.
LEMMA HashedIs ==
    ASSUME NEW job \in ProbeJobs, NEW queue, job.queue = Hashed(queue)
    PROVE  /\ job.queue \in Seq(Hashes) \ {<< >>} /\ job.preflight \in BOOLEAN /\ job.keep \in BOOLEAN
           /\ queue[1].hash \in Hashes /\ 1 \in DOMAIN job.queue
    <1>1. job.queue \in Seq(Hashes) \ {<< >>} /\ job.preflight \in BOOLEAN /\ job.keep \in BOOLEAN
        BY ProbeJobsAssumption
    <1>2. ASSUME NEW q \in Seq(Hashes), q # << >>
          PROVE  q[1] \in Hashes /\ 1 \in DOMAIN q
        BY <1>2
    <1>3. job.queue[1] \in Hashes /\ 1 \in DOMAIN job.queue
        BY <1>1, <1>2
    <1>4. 1 \in DOMAIN Hashed(queue) => Hashed(queue)[1] = queue[1].hash
        BY DEF Hashed
    <1>5. QED
        BY <1>1, <1>3, <1>4

LEMMA HandoffKeeps ==
    ASSUME HandoffInv, HandoffStep
    PROVE  HandoffInv'
    <1> DEFINE h == handoff
    <1>0. h = [pc |-> h.pc, candidates |-> h.candidates, next |-> h.next, queue |-> h.queue,
               skipped |-> h.skipped]
        BY DEF HandoffInv
    <1>1. h.pc = "resolve" => h.next \in Nat /\ h.next + 1 \in Nat /\ h.queue \in Queue
        BY DEF HandoffInv, HandoffAt
    <1>2. ASSUME NEW hash \in Hashes, h.pc = "resolve"
          PROVE  Append(h.queue, [hash |-> hash, of |-> h.next]) \in Queue
        <2>1. [hash |-> hash, of |-> h.next] \in [hash : Hashes, of : Nat]
            BY <1>1, <1>2
        <2>2. ASSUME NEW S, NEW e \in S, NEW q \in Seq(S) PROVE Append(q, e) \in Seq(S)
            OBVIOUS
        <2>3. QED
            BY <1>1, <1>2, <2>1, <2>2 DEF Queue
    <1>3. CASE BeginMovieProbe
        <2>1. PICK c : handoff' = [NewHandoff EXCEPT !.pc = "resolve", !.candidates = c]
            BY <1>3 DEF BeginMovieProbe
        <2>2. << >> \in Queue /\ 1 \in Nat
            BY DEF Queue
        <2>3. QED
            BY <2>1, <2>2 DEF HandoffInv, NewHandoff, HandoffAt
    <1>4. CASE UNCHANGED handoff
        BY <1>4 DEF HandoffInv, HandoffAt
    <1>5. CASE TakeCandidate \/ QueueCandidate
        <2>1. /\ h.pc = "resolve"
              /\ \/ UNCHANGED handoff
                 \/ \E why : handoff' = Skipped(why)
                 \/ \E hash \in Hashes : handoff' = [h EXCEPT !.next = @ + 1,
                                                   !.queue = Append(@, [hash |-> hash, of |-> h.next])]
            BY <1>5, HandoffAssumption DEF TakeCandidate, QueueCandidate, Queued, HandoffAt
        <2>2. CASE \E why : handoff' = Skipped(why)
            <3>1. PICK skipped : handoff' = [h EXCEPT !.next = h.next + 1, !.skipped = skipped]
                BY <2>2 DEF Skipped
            <3>2. QED
                BY <1>0, <1>1, <2>1, <3>1 DEF HandoffInv, HandoffAt
        <2>3. CASE \E hash \in Hashes :
                      handoff' = [h EXCEPT !.next = @ + 1,
                                           !.queue = Append(@, [hash |-> hash, of |-> h.next])]
            <3>1. PICK hash \in Hashes :
                     handoff' = [h EXCEPT !.next = h.next + 1,
                                          !.queue = Append(h.queue, [hash |-> hash, of |-> h.next])]
                BY <2>3
            <3>2. QED
                BY <1>0, <1>1, <1>2, <2>1, <3>1 DEF HandoffInv, HandoffAt
        <2>4. QED
            BY <1>4, <2>1, <2>2, <2>3
    <1>6. CASE EndHandoff
        <2>1. PICK place \in {"end", "queued"} : handoff' = [h EXCEPT !.pc = place]
            BY <1>6 DEF EndHandoff
        <2>2. QED
            BY <1>0, <1>6, <2>1 DEF HandoffInv, HandoffAt, EndHandoff
    <1>7. QED
        BY <1>3, <1>4, <1>5, <1>6 DEF HandoffStep, HandoffSteps

LEMMA AcquisitionKeeps ==
    ASSUME ProbeTypeOK, ProbeInv, HandoffInv, [AcquisitionNext]_acquisitionVars
    PROVE  ProbeTypeOK' /\ ProbeInv' /\ HandoffInv'
    <1>1. UNCHANGED handoff => HandoffInv'
        BY DEF HandoffInv, HandoffAt
    <1>2. CASE SearchStep \/ SeriesStep \/ RetryStep
        BY <1>2, <1>1, ProbeRests DEF SearchStep, SeriesStep, RetryStep, probeVars
    <1>3. CASE HandoffStep
        <2>1. UNCHANGED probeVars
            BY <1>3 DEF HandoffStep
        <2>2. QED
            BY <1>3, <2>1, HandoffKeeps, ProbeRests
    <1>4. CASE ProbeBegins
        <2>1. PICK job \in ProbeJobs : /\ job.queue = Hashed(handoff.queue)
                                       /\ BeginProbe(job.queue, job.preflight, job.keep)
            BY <1>4 DEF ProbeBegins
        <2>2. /\ job.queue \in Seq(Hashes) \ {<< >>} /\ job.preflight \in BOOLEAN /\ job.keep \in BOOLEAN
              /\ handoff.queue[1].hash \in Hashes /\ 1 \in DOMAIN job.queue
            BY <2>1, HashedIs
        <2>3. 1 \in DOMAIN handoff.queue
            BY <1>4, <2>1, <2>2 DEF ProbeBegins, HandoffInv, HandoffAt, Queue, Hashed
        <2>4. HandoffInv'
            BY <1>4, <2>2, <2>3 DEF ProbeBegins, NewHandoff, HandoffInv, HandoffAt
        <2>5. QED
            BY <2>1, <2>2, <2>4, JobBegins
    <1>5. CASE SeriesProbeBegins
        <2> DEFINE all == [k \in DOMAIN series.candidates |->
                              [hash |-> series.candidates[k].release.hash, of |-> 0]]
                   queue == FirstN(all, Maximum)
        <2>1. PICK job \in ProbeJobs : /\ job.queue = Hashed(queue)
                                       /\ BeginProbe(job.queue, job.preflight, job.keep)
            BY <1>5 DEF SeriesProbeBegins
        <2>2. handoff' = [NewHandoff EXCEPT !.pc = "probing", !.queue = queue]
            BY <1>5 DEF SeriesProbeBegins
        <2> HIDE DEF queue
        <2>3. /\ job.queue \in Seq(Hashes) \ {<< >>} /\ job.preflight \in BOOLEAN /\ job.keep \in BOOLEAN
              /\ queue[1].hash \in Hashes
            BY <2>1, HashedIs
        <2>4. HandoffInv'
            BY <2>2, <2>3 DEF NewHandoff, HandoffInv, HandoffAt
        <2>5. QED
            BY <2>1, <2>3, <2>4, JobBegins
    <1>6. CASE ProbeRunsAgain
        <2>1. handoff.queue[1].hash \in Hashes
            BY <1>6 DEF ProbeRunsAgain, HandoffInv
        <2>2. <<handoff.queue[1].hash>> \in Seq(Hashes) \ {<< >>}
            BY <2>1
        <2>3. BeginProbe(<<handoff.queue[1].hash>>, FALSE, FALSE) /\ UNCHANGED handoff
            BY <1>6 DEF ProbeRunsAgain, frontVars
        <2>4. QED
            BY <1>1, <2>2, <2>3, JobBegins
    <1>7. CASE ProbeMoves
        BY <1>7, <1>1, StepKeeps DEF ProbeMoves, frontVars
    <1>8. CASE UNCHANGED acquisitionVars
        BY <1>8, <1>1, ProbeRests DEF acquisitionVars, probeVars
    <1>9. QED
        BY <1>2, <1>3, <1>4, <1>5, <1>6, <1>7, <1>8 DEF AcquisitionNext

\* A step that stops or erases a torrent is one on the torrent at work, which the
\* job takes for its own.
LEMMA OnlyItsOwn ==
    ASSUME ProbeTypeOK, ProbeInv, ProbeStep, NEW h \in Torrents, TouchesForeign(h)
    PROVE  prober.arrived \/ prober.look = "unanswered"
    <1>0. prober'.pc # prober.pc /\ There(h) /\ known'[h] # known[h] /\ known[h].by # prober.job
        BY DEF TouchesForeign
    <1>1. CASE UNCHANGED known
        BY <1>0, <1>1
    <1>2. CASE Land \/ TorrentRuns \/ UserAdds \/ UserErases
        <2>1. UNCHANGED prober \/ Arrives
            BY <1>2 DEF Land, TorrentRuns, UserAdds, UserErases
        <2>2. QED
            BY <1>0, <2>1, ArrivesIdle DEF Idle
    <1>3. CASE SubmitMagnet
        <2>1. known' = known \/ (~There(Target) /\ \A g \in Torrents : g # Target => known'[g] = known[g])
            BY <1>3 DEF SubmitMagnet, Loaded, ProbeTypeOK
        <2>2. QED
            BY <1>0, <2>1
    <1>4. CASE StopSelected \/ StopIsLost \/ CleanStop \/ CleanErase
        <2>1. Working /\ prober.pc \in Holding
            BY <1>4 DEF StopSelected, StopIsLost, CleanStop, CleanErase, ProberAt, Working, Holding
        <2>2. \A g \in Torrents : g # Target => known'[g] = known[g]
            BY <1>4 DEF StopSelected, StopIsLost, CleanStop, CleanErase, ProbeTypeOK
        <2>3. h = Target /\ prober.created
            BY <1>0, <2>1, <2>2 DEF ProbeInv, PlaceInv
        <2>4. QED
            BY <1>0, <2>1, <2>3 DEF ProbeInv, ForeignInv
    <1>5. CASE ProbeRaises \/ ProbeAborts \/ ProbeCrash \/ MetadataTimeout
        BY <1>1, <1>5 DEF ProbeRaises, ProbeAborts, ProbeCrash, MetadataTimeout, remoteVars
    <1>6. CASE PrepareJob \/ EndProbe \/ NextTorrent \/ Look \/ MakeProbeDirectory
        BY <1>1, <1>6 DEF PrepareJob, EndProbe, NextTorrent, Look, MakeProbeDirectory, remoteVars
    <1>7. CASE \/ ConfirmSubmission \/ TagProbe \/ ConfirmActivation \/ AwaitMetadata
               \/ ConfirmStopped \/ MarkValidated \/ LookAgain
        BY <1>1, <1>7
        DEF ConfirmSubmission, TagProbe, ConfirmActivation, AwaitMetadata, ConfirmStopped,
            MarkValidated, LookAgain, remoteVars
    <1>8. CASE CleanLook \/ CleanCheck \/ CleanDirectory
        BY <1>1, <1>8 DEF CleanLook, CleanCheck, CleanDirectory, remoteVars
    <1>9. QED
        BY <1>2, <1>3, <1>4, <1>5, <1>6, <1>7, <1>8
        DEF ProbeStep, ProbeWork, ProbeFailure, ProbeEnvironment

-----------------------------------------------------------------------------
(* The theorems *)

\* The inductive invariant: what the place of the job tells of the torrent it works
\* on, whose the torrents are, and what the job has told of them.
THEOREM ProbeInvariant == AcquisitionSpec => [](ProbeTypeOK /\ ProbeInv /\ HandoffInv)
    <1>1. AcquisitionInit => ProbeTypeOK /\ ProbeInv /\ HandoffInv
        <2> SUFFICES ASSUME AcquisitionInit PROVE ProbeTypeOK /\ ProbeInv /\ HandoffInv
            OBVIOUS
        <2>1. /\ prober \in Prober /\ prober.pc = "off" /\ prober.job = 0 /\ prober.exit = 9
              /\ known = [h \in Torrents |-> Absent] /\ inflight = {} /\ pdirs = {} /\ jobdirs = {}
            <3>1. 0 \in 0..Jobs
                BY ProbeAssumption
            <3>2. /\ NewJob(0) \in Prober /\ NewJob(0).pc = "off" /\ NewJob(0).job = 0
                  /\ NewJob(0).exit = 9
                BY <3>1, NewJobIs
            <3>3. QED
                BY <3>2 DEF AcquisitionInit, ProbeInit
        <2>2. ProbeTypeOK
            BY <2>1 DEF ProbeTypeOK
        <2>3. ProbeInv
            BY <2>1 DEF ProbeInv, JobInv, PlaceInv, ForeignInv, AccountInv, WayInv, SelectedInv,
                        Working, ProberAt, Absent
        <2>4. HandoffInv
            BY DEF AcquisitionInit, HandoffInv, NewHandoff, HandoffAt
        <2>5. QED
            BY <2>2, <2>3, <2>4
    <1>2. ProbeTypeOK /\ ProbeInv /\ HandoffInv /\ [AcquisitionNext]_acquisitionVars
              => (ProbeTypeOK /\ ProbeInv /\ HandoffInv)'
        BY AcquisitionKeeps
    <1>3. QED
        BY <1>1, <1>2, PTL DEF AcquisitionSpec

\* The types: a torrent is of the others or of a job there was, submissions that are
\* under way and directories are of jobs, and the job's queue is of torrents a search
\* may find.
THEOREM ProbeTypes == AcquisitionSpec => []ProbeTypeOK
    BY ProbeInvariant, PTL

\* The report of a job tells of all it leaves in rTorrent that rTorrent showed it: what
\* it selected, what it kept on request, and by exit code 7 of what a cleanup left.
THEOREM OwnAccounted == AcquisitionSpec => []OwnAreAccounted
    <1>1. ProbeTypeOK /\ ProbeInv => OwnAreAccounted
        <2> SUFFICES ASSUME ProbeTypeOK, ProbeInv, ProberAt("off"), prober.exit \notin {4, 7, 9},
                            NEW h \in Torrents, Own(h)
                     PROVE  \/ prober.exit = 0 /\ h \in prober.selected
                            \/ h \in prober.lost \cup prober.kept
            BY DEF OwnAreAccounted, Own
        <2>1. prober.exit \in {0, 5, 6}
            BY DEF ProbeInv, SelectedInv
        <2>2. ~prober.dirty /\ (prober.exit \in {5, 6} => prober.selected = {})
            BY <2>1 DEF ProbeInv, SelectedInv, ProberAt
        <2>3. Told(h) \/ h \in prober.selected
            BY <2>1 DEF ProbeInv, AccountInv
        <2>4. QED
            BY <2>1, <2>2, <2>3 DEF Told
    <1>2. QED
        BY <1>1, ProbeInvariant, PTL

\* The torrent of its own that a job hands on with exit code 0 is complete, stopped
\* and in its directory.
THEOREM SelectedHeld == AcquisitionSpec => []SelectedIsHeld
    <1>1. ProbeInv => SelectedIsHeld
        BY DEF ProbeInv, SelectedInv, SelectedIsHeld, Told, Held, ProberAt
    <1>2. QED
        BY <1>1, ProbeInvariant, PTL

\* Whatever fails, a torrent that was there when the job looked is neither stopped
\* nor erased by it.
THEOREM ForeignLeftAlone == AcquisitionSpec => ForeignUntouched
    <1> DEFINE Spared == \A h \in Torrents :
                            TouchesForeign(h) => prober.arrived \/ prober.look = "unanswered"
    <1>1. ProbeTypeOK /\ ProbeInv /\ [AcquisitionNext]_acquisitionVars => [Spared]_probeVars
        <2> SUFFICES ASSUME ProbeTypeOK, ProbeInv, [AcquisitionNext]_acquisitionVars
                     PROVE  Spared \/ UNCHANGED probeVars
            OBVIOUS
        <2>1. CASE ProbeMoves
            BY <2>1, OnlyItsOwn DEF ProbeMoves
        <2>2. CASE ProbeBegins \/ SeriesProbeBegins \/ ProbeRunsAgain
            <3>1. UNCHANGED known
                BY <2>2 DEF ProbeBegins, SeriesProbeBegins, ProbeRunsAgain, BeginProbe, remoteVars
            <3>2. QED
                BY <3>1 DEF TouchesForeign
        <2>3. CASE SearchStep \/ SeriesStep \/ HandoffStep \/ RetryStep \/ UNCHANGED acquisitionVars
            BY <2>3 DEF SearchStep, SeriesStep, HandoffStep, RetryStep, acquisitionVars, probeVars
        <2>4. QED
            BY <2>1, <2>2, <2>3 DEF AcquisitionNext
    <1>2. QED
        BY <1>1, ProbeInvariant, PTL DEF AcquisitionSpec, ForeignUntouched
=============================================================================
