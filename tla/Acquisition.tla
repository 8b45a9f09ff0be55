---------------------------- MODULE Acquisition ----------------------------
(***************************************************************************)
(* From a title to a torrent that is alive.  Recommended movies go through *)
(* the movie search, a hand-off that resolves its results, and the probe   *)
(* that tries them; a series through its search and the same probe.        *)
(* Each stage is a command of its own; what it hands on is all the next    *)
(* one knows.                                                              *)
(***************************************************************************)
EXTENDS MovieProbe, SeriesSearch

CONSTANT ProbeJobs    \* the queues that are probed, as [queue, preflight, keep] (a bound)

ASSUME ProbeJobsAssumption ==
    ProbeJobs \subseteq [queue : Seq(Hashes) \ {<< >>}, preflight : BOOLEAN, keep : BOOLEAN]

frontVars == <<request, search, series, resolver, handoff>>
acquisitionVars == <<request, search, series, resolver, handoff, known, inflight, pdirs, jobdirs, prober>>

AcquisitionInit ==
    /\ request = 0
    /\ search = NewSearch
    /\ series = NewSeries
    /\ resolver = NewResolver
    /\ handoff = NewHandoff
    /\ ProbeInit

\* A request is tried again, whoever made it.
RetryStep == Retry /\ UNCHANGED <<search, series, resolver, handoff, probeVars>>

\* A movie search or a series search; either ends before its report is read.
SearchStep == SeriesAt("off") /\ SearchMovies /\ UNCHANGED <<series, resolver, handoff, probeVars>>

SeriesStep == /\ SearchAt("off")
              /\ \/ SearchSeries /\ UNCHANGED resolver
                 \/ SeriesAt("resolve") /\ ResolveReference /\ UNCHANGED series
                 \/ ResolveSeries \/ SeriesResolved \/ SeriesReport
              /\ UNCHANGED <<search, handoff, probeVars>>

HandoffStep == \/ BeginMovieProbe /\ UNCHANGED <<series, probeVars>>
               \/ HandoffSteps /\ UNCHANGED <<search, series, probeVars>>
               \/ HandoffAt("resolve") /\ ResolveReference /\ UNCHANGED <<search, series, handoff, probeVars>>

Hashed(queue) == [k \in 1..Len(queue) |-> queue[k].hash]

\* The job is given the queue; what the search and the hand-off held is gone.
ProbeBegins ==
    /\ HandoffAt("queued")
    /\ \E job \in ProbeJobs : /\ job.queue = Hashed(handoff.queue)
                              /\ BeginProbe(job.queue, job.preflight, job.keep)
    /\ handoff' = [NewHandoff EXCEPT !.pc = "probing",
                                     !.queue = [k \in DOMAIN handoff.queue |->
                                                   [hash |-> handoff.queue[k].hash, of |-> 0]]]
    /\ resolver' = NewResolver
    /\ UNCHANGED <<search, series>> /\ NoRequest

\* parse_probe_input: the candidates of a series by rank, up to the limit.
SeriesProbeBegins ==
    /\ SeriesAt("end") /\ series.candidates # << >>
    /\ LET all == [k \in DOMAIN series.candidates |->
                      [hash |-> series.candidates[k].release.hash, of |-> 0]]
           queue == FirstN(all, Maximum)
       IN  /\ \E job \in ProbeJobs : /\ job.queue = Hashed(queue)
                                     /\ BeginProbe(job.queue, job.preflight, job.keep)
           /\ handoff' = [NewHandoff EXCEPT !.pc = "probing", !.queue = queue]
    /\ series' = NewSeries /\ search' = [NewSearch EXCEPT !.pc = "over"]
    /\ resolver' = NewResolver /\ NoRequest

\* The stage is run again, for the first recommendation, when its job ended or died.
ProbeRunsAgain ==
    /\ HandoffAt("probing")
    /\ BeginProbe(<<handoff.queue[1].hash>>, FALSE, FALSE)
    /\ UNCHANGED frontVars

ProbeWorks    == ProbeWork /\ UNCHANGED frontVars
ProbeTimesOut == MetadataTimeout /\ UNCHANGED frontVars
ProbeFaulted  == ProbeFaults /\ UNCHANGED frontVars
ProbeMoves    == ProbeStep /\ UNCHANGED frontVars

AcquisitionNext == SearchStep \/ SeriesStep \/ HandoffStep \/ RetryStep \/ ProbeBegins \/ SeriesProbeBegins \/ ProbeRunsAgain \/ ProbeMoves

\* A command that was started goes on; a job's deadline comes, and a command of
\* its that cannot succeed fails.
AcquisitionFairness ==
    /\ WF_acquisitionVars(SearchStep \/ SeriesStep \/ HandoffStep \/ RetryStep)
    /\ WF_acquisitionVars(ProbeWorks)
    /\ WF_acquisitionVars(ProbeTimesOut)
    /\ WF_acquisitionVars(ProbeFaulted)

AcquisitionSpec == AcquisitionInit /\ [][AcquisitionNext]_acquisitionVars /\ AcquisitionFairness

-----------------------------------------------------------------------------
(* Properties *)

AcquisitionTypeOK ==
    /\ request \in 0..Attempts
    /\ search.pc \in {"off", "discover", "capabilities", "query", "rank", "report", "end", "over"}
    /\ search.exit \in {0, 4, 5, 9} /\ Len(search.groups) <= Len(Movies)
    /\ series.pc \in {"off", "discover", "capabilities", "query", "rank", "resolve", "end"}
    /\ series.exit \in {0, 4, 5, 9} /\ Len(series.raw) = series.next
    /\ resolver \in Resolver
    /\ handoff.pc \in {"off", "resolve", "queued", "probing", "end"}
    /\ ProbeTypeOK

\* A report is written only when a query was answered, and every query that was not
\* put to an indexer there is, or not answered, has its warning; a command gives up
\* (exit code 4) only when nobody answered a query, or the key was rejected, and
\* loses a report (exit code 5) only when there was one.
SearchIsHonest ==
    /\ SearchAt("end") /\ search.exit = 0 =>
          /\ search.heard # {}
          /\ \A i \in search.told, m \in Range(Movies) :
                <<i, m>> \in search.heard \/ {i, <<i, m>>} \cap search.warned # {}
    /\ SearchAt("end") /\ search.exit = 4 => search.heard = {} \/ search.rejected
    /\ SearchAt("end") /\ search.exit = 5 => search.heard # {}
    /\ SeriesAt("end") /\ series.exit = 0 => series.answered = series.due \/ series.partial
    /\ SeriesAt("end") /\ series.exit = 4 => series.answered = 0 \/ series.rejected
    /\ SeriesAt("end") /\ series.exit \in {0, 5} => series.answered # 0

\* Of the releases that were offered for a movie and that somebody seeds, each is a
\* source of a result, unless ResultLimit others are as good: the indexers that
\* failed, the duplicates and the limit take none away.
ReportKeepsBest ==
    [][SearchAt("rank") /\ ~(search'.groups = search.groups) =>
          LET results == Last(search'.groups)
          IN  \A r \in search.offered :
                 Listed(r) /\ r.seeders > 0 =>
                     \/ \E n \in 1..Len(results) : r \in Range(results[n].sources)
                     \/ /\ Len(results) = ResultLimit
                        /\ \A n \in 1..Len(results) :
                              ~Outranks(Candidate(<<r>>), results[n])]_acquisitionVars

\* The queue is what the results were worth: no torrent twice, each the one its
\* result listed, in their order; a result is left out for a reason, and for the
\* limit only when the queue is full.
QueueIsDue ==
    handoff.pc \in {"queued", "end"} =>
        LET of == {q.of : q \in Range(handoff.queue)}
            skipped == {s.of : s \in Range(handoff.skipped)}
        IN  /\ IsInjective(Hashed(handoff.queue)) /\ Len(handoff.queue) <= Maximum
            /\ \A j, k \in 1..Len(handoff.queue) : j < k => handoff.queue[j].of < handoff.queue[k].of
            /\ \A q \in Range(handoff.queue) : handoff.candidates[q.of].hash \in {None, q.hash}
            /\ of \cup skipped = 1..Len(handoff.candidates) /\ of \cap skipped = {}
            /\ (\E s \in Range(handoff.skipped) : s.why = "limit") => Len(handoff.queue) = Maximum

\* A download reference is fetched once, whatever came of it and however many
\* results list it.
FetchedOnce ==
    [][ResolverAt("reference") /\ resolver'.pc = "fetch" => resolver'.at \notin resolver.fetched]_acquisitionVars

\* A series candidate holds the whole series as far as its listings tell: no season
\* is missing from the title of the occurrence that stands for the others, which names
\* no single episode and, without seasons, promises all of them; no occurrence is
\* listed as anime, sports or another medium; and it has a torrent.
AcceptedCovers ==
    SeriesAt("end") =>
        \A c \in Range(series.candidates) :
            LET r == c.release
            IN  /\ r.hash \in Infohashes
                /\ \A s \in Range(c.sources) : s.categories \cap {"anime", "other"} = {}
                /\ r.match = "leads" /\ ~r.fansub /\ r.episodes = 0
                /\ \/ series.expected \subseteq UNION r.seasons
                   \/ r.seasons = {} /\ (r.strong \/ r.all \in {0, Cardinality(series.expected)})

\* A release that is acceptable on its own is a source of a candidate, or of one
\* that came to no magnet: no worse duplicate stands in its way, unless one of them
\* is listed as something else, or shares its number with another release.
NothingAcceptableLost ==
    SeriesAt("end") /\ series.exit = 0 =>
        \A k \in DOMAIN series.raw :
            LET r == series.raw[k]
                same == {s \in Range(series.raw) : SeriesKey(s) = SeriesKey(r)}
            IN  /\ Accepted(r, series.expected)
                /\ \A s \in same : s.categories \cap {"anime", "other"} = {}
                /\ IsInjective([j \in DOMAIN series.raw |-> series.raw[j].sequence])
                => \E c \in Range(series.candidates) \cup Range(series.refused) : r \in Range(c.sources)

SearchesOrResolves == \/ search.pc \notin {"off", "end", "over"}
                      \/ series.pc \notin {"off", "end"}
                      \/ HandoffAt("resolve")

\* A search ends, and so does a hand-off, whatever Jackett answers.
EverySearchEnds == SearchesOrResolves ~> ~SearchesOrResolves
=============================================================================
