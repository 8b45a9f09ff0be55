----------------------------- MODULE MovieProbe -----------------------------
(***************************************************************************)
(* media_scope/movie_probe.py: the results of a movie search become the    *)
(* torrents a probe job tries, at most Maximum and none of them twice.     *)
(***************************************************************************)
EXTENDS MovieSearch, MagnetResolver, TorrentProbe

CONSTANT Maximum    \* RTORRENT_PROBE_MAX_CANDIDATES

ASSUME HandoffAssumption == Maximum \in Nat \ {0} /\ Infohashes = Hashes

VARIABLE handoff

\* candidates: the results in probe order; next: the one that is taken up next;
\* queue: the resolved ones, as [hash, of]; skipped: the reasons, as [of, why].
NewHandoff == [pc |-> "off", candidates |-> << >>, next |-> 1, queue |-> << >>, skipped |-> << >>]

HandoffAt(place) == handoff.pc = place

\* parse_movie_search: all movies in their order, or the one --recommendation-rank asks for.
BeginMovieProbe ==
    /\ HandoffAt("off") /\ SearchAt("end") /\ search.exit = 0
    /\ \E rank \in 0..Len(search.groups) :
          handoff' = [NewHandoff EXCEPT !.pc = "resolve",
                                        !.candidates = IF rank = 0 THEN FlattenSeq(search.groups)
                                                       ELSE search.groups[rank]]
    /\ search' = [NewSearch EXCEPT !.pc = "over"]
    /\ UNCHANGED resolver /\ NoRequest

Taken == handoff.candidates[handoff.next]

\* The reason a candidate is skipped for.
Skipped(why) == [handoff EXCEPT !.next = @ + 1, !.skipped = Append(@, [of |-> handoff.next, why |-> why])]

\* Mutant: a candidate that could not be resolved counts as an attempt.
LimitReachedByAttempts == handoff.next > Maximum

LimitReached == Len(handoff.queue) >= Maximum

TakeCandidate ==
    /\ HandoffAt("resolve") /\ ResolverAt("idle") /\ handoff.next <= Len(handoff.candidates)
    /\ \/ /\ LimitReached
          /\ handoff' = Skipped("limit") /\ UNCHANGED resolver
       \/ /\ ~LimitReached
          /\ ResolveCandidate(<<Taken.magnet>>, <<Taken.hash>>, Taken.urls)
          /\ UNCHANGED handoff
    /\ NoRequest

\* A torrent other than the listed one, or one that is queued, is skipped.
Queued(hash) ==
    IF Taken.hash \notin {None, hash} THEN Skipped("mismatch")
    ELSE IF \E q \in Range(handoff.queue) : q.hash = hash THEN Skipped("duplicate")
    ELSE [handoff EXCEPT !.next = @ + 1, !.queue = Append(@, [hash |-> hash, of |-> handoff.next])]

QueueCandidate ==
    /\ HandoffAt("resolve") /\ ResolverAt("done")
    /\ handoff' = IF resolver.outcome \in Infohashes THEN Queued(resolver.outcome)
                  ELSE Skipped(resolver.outcome)
    /\ resolver' = [resolver EXCEPT !.pc = "idle", !.outcome = None, !.left = << >>]
    /\ NoRequest

\* Exit code 3 without a torrent to try.
EndHandoff ==
    /\ HandoffAt("resolve") /\ ResolverAt("idle") /\ handoff.next > Len(handoff.candidates)
    /\ handoff' = [handoff EXCEPT !.pc = IF handoff.queue = << >> THEN "end" ELSE "queued"]
    /\ UNCHANGED resolver /\ NoRequest

HandoffSteps == TakeCandidate \/ QueueCandidate \/ EndHandoff
=============================================================================
