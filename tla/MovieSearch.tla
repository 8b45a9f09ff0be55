---------------------------- MODULE MovieSearch ----------------------------
(***************************************************************************)
(* media_scope/movie_search.py: every recommended movie is asked of every  *)
(* indexer that lists movies, one after the other.  What the indexers      *)
(* answered for a movie is filtered, merged and ranked before the next.    *)
(***************************************************************************)
EXTENDS Jackett, SequencesExt

CONSTANTS
    Movies,        \* the recommended movies, in their order
    Offers,        \* for an <<indexer, movie>> the answers it may give
    ResultLimit    \* results kept per movie, 10 in the code

\* What the code reads of an RSS item: where the movie's title is in its own, and the
\* fields it may leave out; -1 where it tells of no seeders.
MovieReleases ==
    [titled : BOOLEAN, sequence : Nat, indexer : Range(Indexers), match : {"starts", "contains", "other"},
     hash : Infohashes \cup {None}, magnet : Infohashes \cup {None, Broken}, url : Links \cup {None},
     size : Nat \cup {None}, seeders : Nat \cup {-1}]

ASSUME SearchAssumption ==
    /\ ResultLimit \in Nat \ {0}
    /\ Movies \in Seq(Range(Movies)) \ {<< >>} /\ IsInjective(Movies)
    /\ \A i \in Range(Indexers), m \in Range(Movies) : Offers[<<i, m>>] \subseteq Seq(MovieReleases)

VARIABLE search

\* asked: the number of the indexer that is asked next, indexers: those that list
\* movies, in their order; raw: what they answered for the movie; warned: the
\* warnings, an indexer for its capabilities and <<indexer, movie>> for a query;
\* succeeded: the indexers that answered; groups: the results of the movies so far.
\* The last four only remember, for the properties: the indexers Jackett told of, the
\* queries that were answered, the releases offered for this movie, and that the key
\* was rejected.
NewSearch == [pc |-> "off", explicit |-> FALSE, asked |-> 1, indexers |-> << >>, movie |-> 1,
              raw |-> << >>, warned |-> {}, succeeded |-> {}, groups |-> << >>, exit |-> 9,
              told |-> {}, heard |-> {}, offered |-> {}, rejected |-> FALSE]

SearchAt(place) == search.pc = place

\* JACKETT_INDEXERS names the indexers, or they are discovered.
BeginSearch ==
    /\ SearchAt("off")
    /\ \E explicit \in BOOLEAN :
          search' = [NewSearch EXCEPT !.explicit = explicit, !.pc = IF explicit THEN "capabilities"
                                                                    ELSE "discover"]
    /\ NoRequest

AskJackett == search.pc \in {"discover", "capabilities", "query"} /\ Send /\ UNCHANGED search

SearchEnds(s, exit) == [NewSearch EXCEPT !.pc = "end", !.exit = exit, !.heard = s.heard,
                                         !.told = s.told, !.warned = s.warned, !.rejected = s.rejected]

\* The indexers are known; there has to be one that lists movies.
Chosen(s) == IF s.indexers = << >> THEN SearchEnds(s, 4) ELSE [s EXCEPT !.pc = "query", !.asked = 1]

\* The indexers that are discovered, and which of them list movies.
IndexersDiscovered ==
    /\ SearchAt("discover") /\ Answered
    /\ \E told \in (SUBSET Range(Indexers)) \ {{}} : \E movies \in SUBSET told :
          search' = Chosen([search EXCEPT !.told = told, !.warned = told \ movies,
                                          !.indexers = Configured(movies)])

\* After an indexer's capabilities the next one's, or the queries.
Asked(s) == IF s.asked = Len(Indexers) THEN Chosen(s) ELSE [s EXCEPT !.asked = @ + 1]

CapabilitiesKnown ==
    LET indexer == Indexers[search.asked]
        told == [search EXCEPT !.told = @ \cup {indexer}]
    IN  /\ SearchAt("capabilities") /\ Answered
        /\ \/ search' = Asked([told EXCEPT !.indexers = Append(@, indexer)])
           \/ search' = Asked([told EXCEPT !.warned = @ \cup {indexer}])

CapabilitiesFail ==
    LET indexer == Indexers[search.asked]
    IN  /\ SearchAt("capabilities") /\ NotAnswered
        /\ search' = Asked([search EXCEPT !.told = @ \cup {indexer}, !.warned = @ \cup {indexer}])

\* The movie and the indexer of the query.
Query == <<search.indexers[search.asked], Movies[search.movie]>>

\* After an indexer the next one, or the ranking of what they answered.
Queried(s) == IF s.asked = Len(s.indexers) THEN [s EXCEPT !.pc = "rank"]
              ELSE [s EXCEPT !.asked = @ + 1]

MovieFound ==
    /\ SearchAt("query") /\ Answered
    /\ \E items \in Offers[Query] :
          LET found == Parsed(items, Len(search.raw))
          IN  search' = Queried([search EXCEPT !.raw = @ \o found, !.succeeded = @ \cup {Query[1]},
                                               !.heard = @ \cup {Query},
                                               !.offered = @ \cup Range(found)])

\* Mutant: what failed once is not asked for the rest of the movie.
MovieQueryFailsForAll ==
    /\ SearchAt("query") /\ NotAnswered
    /\ search' = [search EXCEPT !.warned = @ \cup {Query}, !.pc = "rank"]

\* An indexer that fails does not keep the others from being asked.
MovieQueryFails ==
    /\ SearchAt("query") /\ NotAnswered
    /\ search' = Queried([search EXCEPT !.warned = @ \cup {Query}])

\* Discovery that fails, and a rejected key at any request, end the command.
SearchAborts ==
    /\ search.pc \in {"discover", "capabilities", "query"}
    /\ \/ Refused /\ search' = SearchEnds([search EXCEPT !.rejected = TRUE], 4)
       \/ SearchAt("discover") /\ NotAnswered /\ search' = SearchEnds(search, 4)

-----------------------------------------------------------------------------
(* _rank_movie_results: releases are merged into candidates, the best kept *)

\* The title is in the release's with the year, and there is something to load.
Listed(release) == release.match # "other"
                   /\ (release.hash # None \/ release.magnet # None \/ release.url # None)

\* Releases of one torrent, or of one title and size where the torrent is not known.
DedupKey(release) == CASE release.hash # None -> <<"btih", release.hash>>
                       [] release.hash = None /\ release.size # None ->
                              <<"title-size", release.match, release.size>>
                       [] OTHER -> <<"occurrence", release.indexer, release.sequence>>

MaxOf(S) == CHOOSE n \in S : \A m \in S : m <= n

\* _Candidate and _candidate_dict, for the sources in the order they came.  A
\* missing number of seeders is -1.
Candidate(sources) ==
    LET Field(Of(_)) == [k \in 1..Len(sources) |-> Of(sources[k])]
    IN  [starts  |-> \E r \in Range(sources) : r.match = "starts",
         seeders |-> MaxOf({r.seeders : r \in Range(sources)}),
         spread  |-> Cardinality({r.indexer : r \in Range(sources)}),
         hash    |-> FirstOf(Field(LAMBDA r : r.hash), None),
         magnet  |-> FirstOf(Field(LAMBDA r : r.magnet), None),
         urls    |-> Present(Field(LAMBDA r : r.url), None),
         sources |-> sources]

\* _ranking_key: the title leads, the seeders, the indexers; the peers and the dates
\* are taken to be the same.
MovieKey(c) == <<IF c.starts THEN 0 ELSE 1, -c.seeders, -c.spread>>

Outranks(a, b) == Before(MovieKey(a), MovieKey(b))

FirstN(s, n) == SubSeq(s, 1, IF Len(s) < n THEN Len(s) ELSE n)

\* The releases that are listed, in the order they came, one candidate for each key.
Candidates(found) ==
    LET listed == {k \in DOMAIN found : Listed(found[k])}
        Group(key) == Kept(found, {k \in listed : DedupKey(found[k]) = key})
    IN  {Candidate(sources) : sources \in {Group(DedupKey(found[k])) : k \in listed}}

Ranked(candidates) == Sorted(candidates, MovieKey)

Seeded(c) == c.seeders > 0

\* Mutant: the limit is applied before those without seeders are left out.
MovieResultsCutEarly(found) ==
    LET best == FirstN(Ranked(Candidates(found)), ResultLimit)
    IN  Kept(best, {n \in DOMAIN best : Seeded(best[n])})

MovieResults(found) == FirstN(Ranked({c \in Candidates(found) : Seeded(c)}), ResultLimit)

RankMovie ==
    /\ SearchAt("rank")
    /\ LET ranked == [search EXCEPT !.groups = Append(@, MovieResults(search.raw)),
                                    !.raw = << >>, !.offered = {}, !.asked = 1]
       IN  search' = IF search.movie = Len(Movies) THEN [ranked EXCEPT !.pc = "report"]
                     ELSE [ranked EXCEPT !.pc = "query", !.movie = @ + 1]
    /\ NoRequest

\* The report is only for a search that got an answer; it is kept in a file first.
Report ==
    /\ SearchAt("report")
    /\ \/ search.succeeded = {} /\ search' = SearchEnds(search, 4)
       \/ search.succeeded # {} /\ search' = SearchEnds(search, 5)
       \/ search.succeeded # {} /\ search' = [SearchEnds(search, 0) EXCEPT !.groups = search.groups]
    /\ NoRequest

SearchMovies == \/ BeginSearch \/ AskJackett \/ IndexersDiscovered \/ CapabilitiesKnown
                \/ CapabilitiesFail \/ MovieFound \/ MovieQueryFails \/ SearchAborts
                \/ RankMovie \/ Report
=============================================================================
