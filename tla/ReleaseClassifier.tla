------------------------- MODULE ReleaseClassifier -------------------------
(***************************************************************************)
(* media_scope/release_classifier.py: whether a release is the whole of a  *)
(* series, as far as its title and its categories tell.  A title is what   *)
(* the patterns find in it:                                                *)
(*                                                                         *)
(*   match      the show's title "leads", is "inside", or neither          *)
(*   fansub     it begins with the tag of an anime group                   *)
(*   episodes   how many single episodes it names                          *)
(*   seasons    the sets of seasons its patterns name, range: one a range  *)
(*   strong     "complete series", bare: "complete" alone                  *)
(*   all        "all seasons": 0, "all N seasons": N, neither: -1          *)
(*   year       the first year of the show                                 *)
(*                                                                         *)
(* and its categories are television, anime and others.                    *)
(***************************************************************************)
EXTENDS Jackett, SequencesExt

\* A size of 0 and -1 seeders are not given; a season has at most three digits.
SeriesReleases ==
    [titled : BOOLEAN, sequence : Nat, indexer : Range(Indexers), hash : Infohashes \cup {None},
     magnet : Infohashes \cup {None, Broken}, url : Links \cup {None}, size : Nat, seeders : Nat \cup {-1},
     match : {"leads", "inside", "other"}, fansub : BOOLEAN, episodes : Nat, year : BOOLEAN,
     categories : SUBSET {"tv", "anime", "other"}, seasons : SUBSET ((SUBSET (0..999)) \ {{}}),
     range : BOOLEAN, strong : BOOLEAN, bare : BOOLEAN, all : Nat \cup {-1}]

\* In all that follows, E is the expected seasons, those of the series.
SeriesUsable(r) == r.hash # None \/ r.magnet # None \/ r.url # None

Detected(r) == UNION r.seasons

\* Two patterns disagree, or the number of all seasons is another.
CountConflict(r, E) == r.all > 0 /\ r.all # Cardinality(E)
Conflicting(r, E)   == Cardinality(r.seasons) > 1 \/ CountConflict(r, E)

ExactCoverage(r, E) == Detected(r) = E
Promises(r)         == r.strong \/ r.all >= 0

\* Mutant: a range that goes beyond one end makes up for the other.
MissingByNumber(r, E) == Cardinality(Detected(r)) < Cardinality(E)

\* A season of the series that the title leaves out.
MissingSeasons(r, E) == E \ Detected(r) # {}

Verdict(class, accepted, exact, confidence) ==
    [class |-> class, accepted |-> accepted, exact |-> exact, confidence |-> confidence]

Rejected(class, confidence) == Verdict(class, FALSE, FALSE, confidence)

\* What the seasons of a title, as far as it names some, say of the series.
BySeasons(r, E) ==
    LET single == Cardinality(Detected(r)) = 1
        missing == MissingSeasons(r, E)
        exact == ExactCoverage(r, E)
        whole == exact /\ ~Conflicting(r, E)
        usable == SeriesUsable(r)
    IN  CASE single -> Verdict("SINGLE_SEASON_PACK", exact /\ usable, exact, IF exact /\ usable THEN 3 ELSE 2)
          [] ~single /\ missing ->
                 Rejected(IF Promises(r) THEN "COMPLETE_SERIES_CANDIDATE" ELSE "MULTI_SEASON_PACK", 3)
          [] ~single /\ ~missing /\ whole -> Verdict("COMPLETE_SERIES", usable, TRUE, 3)
          [] ~single /\ ~missing /\ ~whole ->
                 Verdict("COMPLETE_SERIES_CANDIDATE", usable /\ ~Conflicting(r, E), exact, 2)

\* And what its phrases say, where it names none.
ByPhrases(r, E) ==
    CASE Promises(r) /\ CountConflict(r, E) -> Rejected("COMPLETE_SERIES_CANDIDATE", 3)
      [] Promises(r) /\ ~CountConflict(r, E) ->
             Verdict("COMPLETE_SERIES", SeriesUsable(r), FALSE, IF r.strong THEN 3 ELSE 2)
      [] ~Promises(r) /\ r.bare -> Rejected("COMPLETE_SERIES_CANDIDATE", 1)
      [] ~Promises(r) /\ ~r.bare -> Rejected("UNKNOWN", 1)

\* classify_release: what is listed as something else, or names another title or
\* episodes, is turned down first.
Anime(r) == "anime" \in r.categories \/ r.fansub

Classify(r, E) ==
    CASE Anime(r) -> Rejected("ANIME", 3)
      [] ~Anime(r) /\ r.match = "inside" -> Rejected("UNKNOWN", 2)
      [] ~Anime(r) /\ (r.match = "other" \/ (r.match = "leads" /\ "other" \in r.categories)) ->
             Rejected("MOVIE_OR_UNRELATED", 3)
      [] OTHER -> IF r.episodes > 0
                  THEN Rejected(IF r.episodes = 1 THEN "SINGLE_EPISODE" ELSE "MULTI_EPISODE_PARTIAL", 3)
                  ELSE IF Detected(r) # {} THEN BySeasons(r, E) ELSE ByPhrases(r, E)

Accepted(r, E) == Classify(r, E).accepted

-----------------------------------------------------------------------------
(* search_service.py: duplicates, and the order of what is accepted *)

\* _CLASS_PRIORITY, the best first.
ClassOrder == << "COMPLETE_SERIES", "SINGLE_SEASON_PACK", "COMPLETE_SERIES_CANDIDATE",
                 "MULTI_SEASON_PACK", "SINGLE_EPISODE", "MULTI_EPISODE_PARTIAL", "ANIME",
                 "MOVIE_OR_UNRELATED", "UNKNOWN" >>

Place(class) == CHOOSE k \in DOMAIN ClassOrder : ClassOrder[k] = class

SeriesKey(r) == CASE r.hash # None -> <<"infohash", r.hash>>
                  [] r.hash = None /\ r.url # None -> <<"guid", r.indexer, r.url>>
                  [] r.hash = None /\ r.url = None /\ r.size > 0 ->
                         <<"composite", r.match, r.seasons, r.strong, r.size>>
                  [] OTHER -> <<"occurrence", r.sequence>>

\* A release is judged by its number, and of two with one number the last counts.
Judged(raw, r, E) ==
    LET same == {k \in DOMAIN raw : raw[k].sequence = r.sequence}
    IN  Classify(raw[CHOOSE k \in same : \A j \in same : j <= k], E)

\* Mutant: the first occurrence stands for the others.
RepresentativeKeyEarliest(raw, r, E) == <<r.sequence, 0, 0, 0>>

\* The better verdict, exact coverage, the earlier number.
RepresentativeKey(raw, r, E) ==
    <<IF Judged(raw, r, E).accepted THEN 0 ELSE 1, Place(Judged(raw, r, E).class),
      IF Judged(raw, r, E).exact THEN 0 ELSE 1, r.sequence>>

MergedCategories(sources) == UNION {r.categories : r \in Range(sources)}

\* The releases at some places of raw by number, and the one that stands for them.
Sources(raw, places) ==
    [n \in 1..Cardinality(places) |-> raw[Sorted(places, LAMBDA k : <<raw[k].sequence, k>>)[n]]]

Representative(raw, places, E) ==
    raw[First(places, LAMBDA k : RepresentativeKey(raw, raw[k], E) \o <<k>>)]

\* One canonical result: the occurrence that stands for the others, with what the
\* others add to it.
Canonical(best, sources) ==
    LET Merged(Of(_), none) == FirstOf(<<Of(best)>> \o [n \in DOMAIN sources |-> Of(sources[n])], none)
    IN  [release |-> [best EXCEPT !.categories = MergedCategories(sources),
                                  !.hash = Merged(LAMBDA r : r.hash, None),
                                  !.magnet = Merged(LAMBDA r : r.magnet, None),
                                  !.size = Merged(LAMBDA r : r.size, 0),
                                  !.seeders = CHOOSE n \in {r.seeders : r \in Range(sources)} :
                                                 \A r \in Range(sources) : r.seeders <= n],
         sources |-> sources]

\* deduplicate_and_classify: one result for every key.
Deduplicated(raw, E) ==
    LET groups == {{k \in DOMAIN raw : SeriesKey(raw[k]) = key} : key \in {SeriesKey(r) : r \in Range(raw)}}
        merged == {[best |-> Representative(raw, places, E), sources |-> Sources(raw, places)] : places \in groups}
    IN  {Canonical(m.best, m.sources) : m \in merged}

\* How often n can be halved until it is 1, and how often d is doubled to reach n.
Log2(n) == Cardinality({k \in 1..n : 2^k <= n})
Doublings(d, n) == Cardinality({k \in 0..n : d * 2^k < n})

Least(a, b) == IF a < b THEN a ELSE b
Most(a, b)  == IF a < b THEN b ELSE a

\* rank_results; a missing number of seeders is -1.
Score(r, E, minSeeders) ==
    LET If(condition, points) == IF condition THEN points ELSE 0
        extra == Cardinality(Detected(r) \ E)
        points == 25 + If(ExactCoverage(r, E), 30) + If(r.range, 15) + If(r.strong, 15) + If(r.all >= 0, 12)
                  + If(r.year, 5) + If("tv" \in r.categories, 5) + If(r.hash # None, 4)
                  + If(r.magnet # None, 3) + (IF r.size > 0 THEN 3 ELSE -3)
                  + (IF r.seeders = -1 THEN -2
                     ELSE Least(8, Log2(r.seeders + 1))
                          - If(r.seeders < minSeeders,
                               Least(10, Most(1, Doublings(Most(r.seeders, 1), minSeeders)))))
                  - If(r.bare /\ ~r.strong, 10) - If(r.categories = {}, 3)
                  - If(extra > 0, Least(15, 5 + 2 * (extra - 1))) - If(Conflicting(r, E), 15)
    IN  Most(0, Least(100, points))
=============================================================================
