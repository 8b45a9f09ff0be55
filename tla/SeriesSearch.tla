---------------------------- MODULE SeriesSearch ----------------------------
(***************************************************************************)
(* media_scope/search_service.py: the search for a complete series.  Every *)
(* query goes to every indexer; then the releases are merged, classified   *)
(* and ranked, and those that are accepted must come to a magnet.          *)
(***************************************************************************)
EXTENDS ReleaseClassifier, MagnetResolver

CONSTANTS
    Queries,       \* the queries for a series, in their order
    Scopes,        \* the sets of seasons a series may have
    SeriesOffers,  \* for an <<indexer, query>> the answers it may give
    MinSeeders     \* --min-seeders

ASSUME SeriesAssumption ==
    /\ Queries \in Seq(Range(Queries)) \ {<< >>} /\ MinSeeders \in Nat
    /\ \A i \in Range(Indexers), q \in Range(Queries) : SeriesOffers[<<i, q>>] \subseteq Seq(SeriesReleases)

VARIABLE series

\* asked, query: the numbers of the indexer and the query that come next; next: how
\* many releases there are; partial: an indexer or a query failed; left: the
\* provisional candidates still to resolve, refused: those that came to no magnet,
\* candidates: those that did; due, answered: how many queries the indexers there
\* are call for, and how many were answered; rejected only remembers that the key was.
NewSeries == [pc |-> "off", expected |-> {}, explicit |-> FALSE, indexers |-> << >>, asked |-> 1,
              query |-> 1, raw |-> << >>, next |-> 0, partial |-> FALSE,
              left |-> << >>, refused |-> << >>, candidates |-> << >>, exit |-> 9,
              due |-> 0, answered |-> 0, rejected |-> FALSE]

SeriesAt(place) == series.pc = place

BeginSeries ==
    /\ SeriesAt("off")
    /\ \E expected \in Scopes, explicit \in BOOLEAN :
          series' = [NewSeries EXCEPT !.expected = expected, !.explicit = explicit,
                                      !.pc = IF explicit THEN "capabilities" ELSE "discover"]
    /\ NoRequest

AskForSeries == series.pc \in {"discover", "capabilities", "query"} /\ Send /\ UNCHANGED series

SeriesEnds(s, exit) == [NewSeries EXCEPT !.pc = "end", !.exit = exit, !.answered = s.answered,
                                         !.rejected = s.rejected]

\* The indexers that have a search mode are asked, if there are any.
SeriesChosen(s) == IF s.indexers = << >> THEN SeriesEnds(s, 4)
                   ELSE [s EXCEPT !.pc = "query", !.asked = 1]

SeriesDiscovered ==
    /\ SeriesAt("discover") /\ Answered
    /\ \E told \in (SUBSET Range(Indexers)) \ {{}} : \E able \in SUBSET told :
          series' = SeriesChosen([series EXCEPT !.partial = told # able,
                                      !.due = Cardinality(told) * Len(Queries),
                                      !.indexers = Configured(able)])

SeriesCapabilities ==
    LET told == [series EXCEPT !.due = @ + Len(Queries)]
        After(s) == IF s.asked = Len(Indexers) THEN SeriesChosen(s) ELSE [s EXCEPT !.asked = @ + 1]
    IN  /\ SeriesAt("capabilities")
        /\ \/ /\ Answered
              /\ series' = After([told EXCEPT !.indexers = Append(@, Indexers[series.asked])])
           \/ /\ Answered \/ NotAnswered
              /\ series' = After([told EXCEPT !.partial = TRUE])

SeriesQuery == <<series.indexers[series.asked], Queries[series.query]>>

\* _ranking_key: score, confidence, exact coverage, seeders, then the number.
RankingKey(c, E) == <<-Score(c.release, E, MinSeeders), -Classify(c.release, E).confidence,
                      IF Classify(c.release, E).exact THEN 0 ELSE 1, -c.release.seeders,
                      c.release.sequence>>

RankedSeries(results, E) == Sorted(results, LAMBDA c : RankingKey(c, E))

\* What is accepted before it is known whether there is a magnet.
Provisional(raw, E) == {c \in Deduplicated(raw, E) : Accepted(c.release, E)}

\* After a query the next one, then the next indexer, until all were asked.
SeriesQueried(s) ==
    IF s.query < Len(Queries) THEN [s EXCEPT !.query = @ + 1]
    ELSE IF s.asked < Len(s.indexers) THEN [s EXCEPT !.query = 1, !.asked = @ + 1]
    ELSE IF s.answered = 0 THEN SeriesEnds(s, 4)
    ELSE [s EXCEPT !.pc = "rank"]

SeriesFound ==
    /\ SeriesAt("query") /\ Answered
    /\ \E items \in SeriesOffers[SeriesQuery] :
          LET found == Parsed(items, series.next)
          IN  series' = SeriesQueried([series EXCEPT !.raw = @ \o found, !.next = @ + Len(found),
                                                     !.answered = @ + 1])

SeriesQueryFails ==
    /\ SeriesAt("query") /\ NotAnswered
    /\ series' = SeriesQueried([series EXCEPT !.partial = TRUE])

SeriesAborts ==
    /\ series.pc \in {"discover", "capabilities", "query"}
    /\ \/ Refused /\ series' = SeriesEnds([series EXCEPT !.rejected = TRUE], 4)
       \/ SeriesAt("discover") /\ NotAnswered /\ series' = SeriesEnds(series, 4)

\* What is accepted goes to the resolver.
RankSeries ==
    /\ SeriesAt("rank")
    /\ \E accepted \in {Provisional(series.raw, series.expected)} :
          series' = [series EXCEPT !.pc = "resolve", !.left = RankedSeries(accepted, series.expected)]
    /\ NoRequest

\* The occurrences of a result, one for each number.
Occurrences(c) ==
    LET all == <<c.release>> \o c.sources
        first == {k \in DOMAIN all : \A j \in 1..(k - 1) : all[j].sequence # all[k].sequence}
    IN  Kept(all, first)

ResolveSeries ==
    /\ SeriesAt("resolve") /\ ResolverAt("idle") /\ series.left # << >>
    /\ LET all == Occurrences(Head(series.left))
       IN  ResolveCandidate([k \in DOMAIN all |-> all[k].magnet], [k \in DOMAIN all |-> all[k].hash],
                            Present([k \in DOMAIN all |-> all[k].url], None))
    /\ UNCHANGED series /\ NoRequest

SeriesResolved ==
    /\ SeriesAt("resolve") /\ ResolverAt("done")
    /\ LET c == Head(series.left)
           found == [c EXCEPT !.release.hash = resolver.outcome, !.release.magnet = resolver.outcome]
       IN  series' = IF resolver.outcome \in Infohashes
                     THEN [series EXCEPT !.left = Tail(@), !.candidates = Append(@, found)]
                     ELSE [series EXCEPT !.left = Tail(@), !.refused = Append(@, c)]
    /\ resolver' = [resolver EXCEPT !.pc = "idle", !.outcome = None, !.left = << >>]
    /\ NoRequest

\* The magnets count for the final ranks; the report may not be written.
SeriesReport ==
    /\ SeriesAt("resolve") /\ ResolverAt("idle") /\ series.left = << >>
    /\ \/ series' = [series EXCEPT !.pc = "end", !.exit = 0,
                                   !.candidates = RankedSeries(Range(@), series.expected)]
       \/ series' = SeriesEnds(series, 5)
    /\ UNCHANGED resolver /\ NoRequest

SearchSeries == \/ BeginSeries \/ AskForSeries \/ SeriesDiscovered \/ SeriesCapabilities
                \/ SeriesFound \/ SeriesQueryFails \/ SeriesAborts \/ RankSeries
=============================================================================
