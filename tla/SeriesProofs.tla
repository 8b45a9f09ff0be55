---------------------------- MODULE SeriesProofs ----------------------------
(***************************************************************************)
(* The search for a series, for any indexers, queries, answers and         *)
(* seasons: what is accepted covers the series, and what is acceptable is  *)
(* carried to the report.  At the end, the types of the whole acquisition. *)
(***************************************************************************)
EXTENDS SearchProofs, AcquisitionProofs

-----------------------------------------------------------------------------
(* What a release is found to be *)

Classes == {"COMPLETE_SERIES", "SINGLE_SEASON_PACK", "COMPLETE_SERIES_CANDIDATE", "MULTI_SEASON_PACK",
            "SINGLE_EPISODE", "MULTI_EPISODE_PARTIAL", "ANIME", "MOVIE_OR_UNRELATED", "UNKNOWN"}

LEMMA PlaceIs == \A class \in Classes : Place(class) \in 1..9
    <1>1. DOMAIN ClassOrder = 1..9
        BY DEF ClassOrder
    <1>2. ASSUME NEW class \in Classes
          PROVE  \E k \in DOMAIN ClassOrder : ClassOrder[k] = class
        <2>1. /\ ClassOrder[1] = "COMPLETE_SERIES" /\ ClassOrder[2] = "SINGLE_SEASON_PACK"
              /\ ClassOrder[3] = "COMPLETE_SERIES_CANDIDATE" /\ ClassOrder[4] = "MULTI_SEASON_PACK"
              /\ ClassOrder[5] = "SINGLE_EPISODE" /\ ClassOrder[6] = "MULTI_EPISODE_PARTIAL"
              /\ ClassOrder[7] = "ANIME" /\ ClassOrder[8] = "MOVIE_OR_UNRELATED" /\ ClassOrder[9] = "UNKNOWN"
            BY DEF ClassOrder
        <2> HIDE DEF ClassOrder
        <2>2. QED
            BY <1>1, <2>1 DEF Classes
    <1> HIDE DEF ClassOrder
    <1>3. QED
        BY <1>1, <1>2 DEF Place

\* What is acceptable by its seasons, by its phrases, and in all.
SeasonsSuffice(r, E) ==
    /\ SeriesUsable(r)
    /\ IF Cardinality(Detected(r)) = 1 THEN ExactCoverage(r, E)
       ELSE ~MissingSeasons(r, E) /\ ~Conflicting(r, E)

PhrasesSuffice(r, E) == SeriesUsable(r) /\ Promises(r) /\ ~CountConflict(r, E)

Acceptable(r, E) ==
    /\ ~Anime(r) /\ r.match # "inside" /\ r.match # "other"
    /\ ~(r.match = "leads" /\ "other" \in r.categories)
    /\ ~(r.episodes > 0)
    /\ IF Detected(r) # {} THEN SeasonsSuffice(r, E) ELSE PhrasesSuffice(r, E)

\* A verdict that says so.
Sound(v, accepted) ==
    v.class \in Classes /\ v.confidence \in Int /\ (v.accepted = TRUE <=> accepted)

LEMMA Verdicts ==
    /\ \A class \in Classes, accepted \in BOOLEAN, exact, confidence \in Int :
          Sound(Verdict(class, accepted, exact, confidence), accepted)
    /\ \A class \in Classes, confidence \in Int : Sound(Rejected(class, confidence), FALSE)
    BY DEF Sound, Verdict, Rejected

LEMMA SeasonsVerdict ==
    ASSUME NEW r, NEW E
    PROVE  Sound(BySeasons(r, E), SeasonsSuffice(r, E))
    <1> DEFINE single == Cardinality(Detected(r)) = 1
               missing == MissingSeasons(r, E)
               exact == ExactCoverage(r, E)
               conflicting == Conflicting(r, E)
               usable == SeriesUsable(r)
               whole == exact /\ ~conflicting
               class == IF Promises(r) THEN "COMPLETE_SERIES_CANDIDATE" ELSE "MULTI_SEASON_PACK"
               confidence == IF exact /\ usable THEN 3 ELSE 2
    <1>1. BySeasons(r, E) =
              CASE single -> Verdict("SINGLE_SEASON_PACK", exact /\ usable, exact, confidence)
                [] ~single /\ missing -> Rejected(class, 3)
                [] ~single /\ ~missing /\ whole -> Verdict("COMPLETE_SERIES", usable, TRUE, 3)
                [] ~single /\ ~missing /\ ~whole ->
                       Verdict("COMPLETE_SERIES_CANDIDATE", usable /\ ~conflicting, exact, 2)
        BY DEF BySeasons
    <1>2. SeasonsSuffice(r, E) <=> usable /\ IF single THEN exact ELSE ~missing /\ ~conflicting
        BY DEF SeasonsSuffice
    <1>3. /\ single \in BOOLEAN /\ missing \in BOOLEAN /\ exact \in BOOLEAN /\ conflicting \in BOOLEAN
          /\ usable \in BOOLEAN /\ class \in Classes /\ confidence \in Int
        BY DEF MissingSeasons, ExactCoverage, Conflicting, SeriesUsable, Classes
    <1>4. exact => ~missing
        BY DEF MissingSeasons, ExactCoverage
    <1> HIDE DEF single, missing, exact, conflicting, usable, class, confidence
    <1>5. CASE single
        <2>1. BySeasons(r, E) = Verdict("SINGLE_SEASON_PACK", exact /\ usable, exact, confidence)
            BY <1>1, <1>5
        <2>2. Sound(BySeasons(r, E), exact /\ usable)
            BY <1>3, <2>1 DEF Sound, Verdict, Classes
        <2>3. QED
            BY <1>2, <1>5, <2>2 DEF Sound
    <1>6. CASE ~single /\ missing
        <2>1. BySeasons(r, E) = Rejected(class, 3)
            BY <1>1, <1>6
        <2>2. QED
            BY <1>2, <1>3, <1>6, <2>1, Verdicts DEF Sound
    <1>7. CASE ~single /\ ~missing /\ whole
        <2>1. BySeasons(r, E) = Verdict("COMPLETE_SERIES", usable, TRUE, 3)
            BY <1>1, <1>7
        <2>2. Sound(BySeasons(r, E), usable)
            BY <1>3, <2>1 DEF Sound, Verdict, Classes
        <2>3. QED
            BY <1>2, <1>7, <2>2 DEF Sound
    <1>8. CASE ~single /\ ~missing /\ ~whole
        <2> DEFINE accepted == usable /\ ~conflicting
        <2>1. BySeasons(r, E) = Verdict("COMPLETE_SERIES_CANDIDATE", accepted, exact, 2)
            BY <1>1, <1>8
        <2>2. accepted \in BOOLEAN
            BY <1>3
        <2> HIDE DEF accepted
        <2>3. Sound(BySeasons(r, E), accepted)
            BY <1>3, <2>1, <2>2 DEF Sound, Verdict, Classes
        <2>4. QED
            BY <1>2, <1>8, <2>3 DEF Sound, accepted
    <1>9. QED
        BY <1>5, <1>6, <1>7, <1>8

LEMMA PhrasesVerdict ==
    ASSUME NEW r, NEW E
    PROVE  Sound(ByPhrases(r, E), PhrasesSuffice(r, E))
    <1> DEFINE promises == Promises(r)
               conflict == CountConflict(r, E)
               usable == SeriesUsable(r)
               bare == r.bare = TRUE
               confidence == IF r.strong THEN 3 ELSE 2
    <1>1. ByPhrases(r, E) =
              CASE promises /\ conflict -> Rejected("COMPLETE_SERIES_CANDIDATE", 3)
                [] promises /\ ~conflict -> Verdict("COMPLETE_SERIES", usable, FALSE, confidence)
                [] ~promises /\ r.bare -> Rejected("COMPLETE_SERIES_CANDIDATE", 1)
                [] ~promises /\ ~r.bare -> Rejected("UNKNOWN", 1)
        BY DEF ByPhrases
    <1>2. /\ promises \in BOOLEAN /\ conflict \in BOOLEAN /\ usable \in BOOLEAN /\ confidence \in Int
        BY DEF Promises, CountConflict, SeriesUsable
    <1>3. PhrasesSuffice(r, E) <=> usable /\ promises /\ ~conflict
        BY DEF PhrasesSuffice
    <1> HIDE DEF promises, conflict, usable, confidence
    <1>4. CASE promises /\ conflict
        <2>1. ByPhrases(r, E) = Rejected("COMPLETE_SERIES_CANDIDATE", 3)
            BY <1>1, <1>4
        <2>2. QED
            BY <1>3, <1>4, <2>1, Verdicts DEF Sound, Classes
    <1>5. CASE promises /\ ~conflict
        <2>1. ByPhrases(r, E) = Verdict("COMPLETE_SERIES", usable, FALSE, confidence)
            BY <1>1, <1>5
        <2>2. Sound(ByPhrases(r, E), usable)
            BY <1>2, <2>1 DEF Sound, Verdict, Classes
        <2>3. QED
            BY <1>3, <1>5, <2>2 DEF Sound
    <1>6. CASE ~promises
        <2>1. ByPhrases(r, E) \in {Rejected("COMPLETE_SERIES_CANDIDATE", 1), Rejected("UNKNOWN", 1)}
            BY <1>1, <1>6
        <2>2. QED
            BY <1>3, <1>6, <2>1, Verdicts DEF Sound, Classes
    <1>7. QED
        BY <1>2, <1>4, <1>5, <1>6

LEMMA ClassifyIs ==
    ASSUME NEW r, NEW E
    PROVE  Sound(Classify(r, E), Acceptable(r, E))
    <1> DEFINE anime == Anime(r)
               inside == r.match = "inside"
               unrelated == r.match = "other" \/ (r.match = "leads" /\ "other" \in r.categories)
               episodes == r.episodes > 0
               many == IF r.episodes = 1 THEN "SINGLE_EPISODE" ELSE "MULTI_EPISODE_PARTIAL"
               seasons == Detected(r) # {}
               rest == IF episodes THEN Rejected(many, 3)
                       ELSE IF seasons THEN BySeasons(r, E) ELSE ByPhrases(r, E)
    <1>1. Classify(r, E) = CASE anime -> Rejected("ANIME", 3)
                             [] ~anime /\ inside -> Rejected("UNKNOWN", 2)
                             [] ~anime /\ unrelated -> Rejected("MOVIE_OR_UNRELATED", 3)
                             [] OTHER -> rest
        BY DEF Classify
    <1>2. ~(inside /\ unrelated)
        OBVIOUS
    <1>3. Acceptable(r, E) <=> /\ ~anime /\ ~inside /\ ~unrelated /\ ~episodes
                               /\ IF seasons THEN SeasonsSuffice(r, E) ELSE PhrasesSuffice(r, E)
        BY DEF Acceptable
    <1>4. many \in Classes /\ {"ANIME", "UNKNOWN", "MOVIE_OR_UNRELATED"} \subseteq Classes
        BY DEF Classes
    <1>5. /\ anime \in BOOLEAN /\ inside \in BOOLEAN /\ unrelated \in BOOLEAN /\ episodes \in BOOLEAN
          /\ seasons \in BOOLEAN
        BY DEF Anime
    <1> HIDE DEF anime, inside, unrelated, episodes, many, seasons
    <1>6. CASE anime
        <2>1. Classify(r, E) = Rejected("ANIME", 3)
            BY <1>1, <1>6
        <2>2. QED
            BY <1>3, <1>4, <1>6, <2>1, Verdicts DEF Sound
    <1>7. CASE ~anime /\ inside
        <2>1. Classify(r, E) = Rejected("UNKNOWN", 2)
            BY <1>1, <1>2, <1>7
        <2>2. QED
            BY <1>3, <1>4, <1>7, <2>1, Verdicts DEF Sound
    <1>8. CASE ~anime /\ unrelated
        <2>1. Classify(r, E) = Rejected("MOVIE_OR_UNRELATED", 3)
            BY <1>1, <1>2, <1>8
        <2>2. QED
            BY <1>3, <1>4, <1>8, <2>1, Verdicts DEF Sound
    <1>9. CASE ~anime /\ ~inside /\ ~unrelated
        <2>1. Classify(r, E) = rest
            BY <1>1, <1>9
        <2>2. CASE episodes
            BY <1>3, <1>4, <2>1, <2>2, Verdicts DEF Sound
        <2>3. CASE ~episodes /\ seasons
            BY <1>3, <1>9, <2>1, <2>3, SeasonsVerdict DEF Sound
        <2>4. CASE ~episodes /\ ~seasons
            BY <1>3, <1>9, <2>1, <2>4, PhrasesVerdict DEF Sound
        <2>5. QED
            BY <1>5, <2>2, <2>3, <2>4
    <1>10. QED
        BY <1>5, <1>6, <1>7, <1>8, <1>9

LEMMA AcceptedIs ==
    ASSUME NEW r \in SeriesReleases, NEW E
    PROVE  /\ Accepted(r, E) <=> Acceptable(r, E)
           /\ Accepted(r, E) =>
                 /\ r.categories \cap {"anime", "other"} = {} /\ r.match = "leads" /\ ~r.fansub /\ r.episodes = 0
                 /\ \/ E \subseteq UNION r.seasons
                    \/ r.seasons = {} /\ (r.strong \/ r.all \in {0, Cardinality(E)})
    <1>1. Accepted(r, E) <=> Acceptable(r, E)
        BY ClassifyIs DEF Sound, Accepted
    <1> SUFFICES ASSUME Acceptable(r, E)
                 PROVE  /\ r.categories \cap {"anime", "other"} = {} /\ r.match = "leads" /\ ~r.fansub
                        /\ r.episodes = 0
                        /\ \/ E \subseteq UNION r.seasons
                           \/ r.seasons = {} /\ (r.strong \/ r.all \in {0, Cardinality(E)})
        BY <1>1
    <1>2. /\ r.match \in {"leads", "inside", "other"} /\ r.episodes \in Nat /\ r.all \in Nat \cup {-1}
          /\ r.seasons \in SUBSET ((SUBSET (0..999)) \ {{}})
        BY DEF SeriesReleases
    <1>3. /\ r.match \in {"leads", "inside", "other"} /\ r.episodes \in Nat /\ r.all \in Nat \cup {-1}
          /\ \A s \in r.seasons : s # {}
        <2>1. ASSUME NEW s \in r.seasons PROVE s # {}
            <3>1. s \in (SUBSET (0..999)) \ {{}}
                BY <1>2
            <3>2. QED
                BY ONLY <3>1
        <2>2. QED
            BY <1>2, <2>1
    <1>4. r.categories \cap {"anime", "other"} = {} /\ r.match = "leads" /\ ~r.fansub /\ r.episodes = 0
        BY <1>3 DEF Acceptable, Anime
    <1>5. CASE Detected(r) # {}
        <2>1. SeasonsSuffice(r, E)
            BY <1>5 DEF Acceptable
        <2>2. ExactCoverage(r, E) \/ ~MissingSeasons(r, E)
            BY <2>1 DEF SeasonsSuffice
        <2>3. E \subseteq UNION r.seasons
            BY <2>2 DEF ExactCoverage, MissingSeasons, Detected
        <2>4. QED
            BY <1>4, <2>3
    <1>6. CASE Detected(r) = {}
        <2>1. r.seasons = {}
            BY <1>3, <1>6 DEF Detected
        <2>2. r.strong \/ r.all \in {0, Cardinality(E)}
            BY <1>3, <1>6 DEF Acceptable, PhrasesSuffice, Promises, CountConflict
        <2>3. QED
            BY ONLY <1>4, <2>1, <2>2
    <1>7. QED
        BY <1>5, <1>6

\* What agrees with an acceptable release in all that counts is acceptable too.
LEMMA StaysAcceptable ==
    ASSUME NEW r \in SeriesReleases, NEW q \in SeriesReleases, NEW E, Accepted(r, E), SeriesUsable(q),
           q.categories \cap {"anime", "other"} = {}, q.match = r.match, q.fansub = r.fansub,
           q.episodes = r.episodes, q.seasons = r.seasons, q.strong = r.strong, q.all = r.all
    PROVE  Accepted(q, E)
    <1>1. Acceptable(r, E)
        BY AcceptedIs
    <1>2. /\ Detected(q) = Detected(r) /\ (MissingSeasons(q, E) <=> MissingSeasons(r, E))
          /\ (ExactCoverage(q, E) <=> ExactCoverage(r, E)) /\ (CountConflict(q, E) <=> CountConflict(r, E))
          /\ (Conflicting(q, E) <=> Conflicting(r, E)) /\ (Promises(q) <=> Promises(r))
        BY DEF Detected, MissingSeasons, ExactCoverage, CountConflict, Conflicting, Promises
    <1>3. Acceptable(q, E)
        BY <1>1, <1>2 DEF Acceptable, Anime, SeasonsSuffice, PhrasesSuffice
    <1>4. QED
        BY <1>3, AcceptedIs

-----------------------------------------------------------------------------
(* What results are ordered by *)

\* What a title names is finite.
LEMMA DetectedIs ==
    ASSUME NEW r \in SeriesReleases
    PROVE  Detected(r) \subseteq 0..999 /\ IsFiniteSet(Detected(r))
    <1>1. r.seasons \in SUBSET ((SUBSET (0..999)) \ {{}})
        BY DEF SeriesReleases
    <1>2. \A s \in r.seasons : s \subseteq 0..999
        BY <1>1
    <1>3. Detected(r) \subseteq 0..999
        BY <1>2 DEF Detected
    <1>4. IsFiniteSet(0..999)
        <2>1. PICK n \in Nat : n = 999
            OBVIOUS
        <2>2. IsFiniteSet(0..n)
            BY ONLY n \in Nat, FS_Interval
        <2>3. QED
            BY ONLY <2>1, <2>2
    <1>5. QED
        BY <1>3, <1>4, FS_Subset

LEMMA CountsAre ==
    ASSUME NEW n \in Nat
    PROVE  Log2(n) \in Nat /\ \A d \in Nat : Doublings(d, n) \in Nat
    <1>1. {k \in 1..n : 2^k <= n} \in SUBSET (1..n)
        OBVIOUS
    <1>2. Log2(n) \in Nat
        BY ZenonT(40), <1>1, Counting DEF Log2
    <1>3. IsFiniteSet(0..n)
        BY FS_Interval
    <1>4. ASSUME NEW d \in Nat PROVE Doublings(d, n) \in Nat
        <2>1. {k \in 0..n : d * 2^k < n} \in SUBSET (0..n)
            OBVIOUS
        <2>2. QED
            BY <1>3, <2>1, FS_Subset, FS_CardinalityType DEF Doublings
    <1>5. QED
        BY <1>2, <1>4

LEMMA ScoreIs ==
    ASSUME NEW r \in SeriesReleases, NEW E
    PROVE  Score(r, E, MinSeeders) \in Int
    <1> DEFINE If(condition, points) == IF condition THEN points ELSE 0
               extra == Cardinality(Detected(r) \ E)
               seeded == IF r.seeders = -1 THEN -2
                         ELSE Least(8, Log2(r.seeders + 1))
                              - If(r.seeders < MinSeeders,
                                   Least(10, Most(1, Doublings(Most(r.seeders, 1), MinSeeders))))
               beyond == Least(15, 5 + 2 * (extra - 1))
    <1>1. r.size \in Nat /\ r.seeders \in Nat \cup {-1} /\ MinSeeders \in Nat
        BY SeriesAssumption DEF SeriesReleases
    <1>2. \A a, b \in Int : Least(a, b) \in Int /\ Most(a, b) \in Int
        BY DEF Least, Most
    <1>3. \A condition : \A points \in Int : If(condition, points) \in Int
        OBVIOUS
    <1>4. extra \in Nat
        BY DetectedIs, FS_Subset, FS_CardinalityType
    <1>5. beyond \in Int
        <2>1. 5 + 2 * (extra - 1) \in Int
            BY <1>4
        <2>2. QED
            BY <1>2, <2>1
    <1>6. seeded \in Int
        <2>1. CASE r.seeders = -1
            BY <2>1
        <2>2. CASE r.seeders # -1
            <3>1. r.seeders \in Nat /\ r.seeders + 1 \in Nat /\ Most(r.seeders, 1) \in Nat
                BY <1>1, <2>2 DEF Most
            <3> DEFINE log == Log2(r.seeders + 1)
                       short == Doublings(Most(r.seeders, 1), MinSeeders)
            <3>2. log \in Int /\ short \in Int
                <4>1. /\ \A n \in Nat : Log2(n) \in Nat
                      /\ \A d, n \in Nat : Doublings(d, n) \in Nat
                    BY CountsAre
                <4>2. log \in Nat /\ short \in Nat
                    BY <1>1, <3>1, <4>1
                <4>3. QED
                    BY <4>2
            <3> HIDE DEF log, short
            <3>3. Least(8, log) \in Int /\ Most(1, short) \in Int
                BY <1>2, <3>2, 8 \in Int, 1 \in Int
            <3> DEFINE least == Least(10, Most(1, short))
            <3>4. least \in Int
                BY <1>2, <3>3, 10 \in Int
            <3> HIDE DEF If, least
            <3>5. If(r.seeders < MinSeeders, least) \in Int
                BY <1>3, <3>4
            <3>6. Least(8, log) - If(r.seeders < MinSeeders, least) \in Int
                BY <3>3, <3>5
            <3>7. QED
                BY <2>2, <3>6 DEF least, log, short
        <2>3. QED
            BY <2>1, <2>2
    <1> DEFINE one == If(ExactCoverage(r, E), 30)
               two == If(r.range, 15)
               three == If(r.strong, 15)
               four == If(r.all >= 0, 12)
               five == If(r.year, 5)
               six == If("tv" \in r.categories, 5)
               seven == If(r.hash # None, 4)
               eight == If(r.magnet # None, 3)
               nine == IF r.size > 0 THEN 3 ELSE -3
               ten == If(r.bare /\ ~r.strong, 10)
               eleven == If(r.categories = {}, 3)
               twelve == If(extra > 0, beyond)
               more == If(Conflicting(r, E), 15)
               points == 25 + one + two + three + four + five + six + seven + eight + nine + seeded
                         - ten - eleven - twelve - more
    <1>7. Score(r, E, MinSeeders) = Most(0, Least(100, points))
        BY DEF Score
    <1>8. /\ one \in Int /\ two \in Int /\ three \in Int /\ four \in Int /\ five \in Int /\ six \in Int
          /\ seven \in Int /\ eight \in Int /\ nine \in Int /\ ten \in Int /\ eleven \in Int
          /\ twelve \in Int /\ more \in Int
        <2> HIDE DEF If, beyond, extra
        <2>1. QED
            BY <1>3, <1>5
    <1> HIDE DEF one, two, three, four, five, six, seven, eight, nine, ten, eleven, twelve, more, seeded
    <1>9. points \in Int
        BY <1>6, <1>8
    <1> HIDE DEF points
    <1>10. QED
        BY <1>2, <1>7, <1>9

LEMMA RankingKeyIs ==
    ASSUME NEW c, c.release \in SeriesReleases, NEW E
    PROVE  RankingKey(c, E) \in [1..5 -> Int]
    <1> DEFINE score == Score(c.release, E, MinSeeders)
               confidence == Classify(c.release, E).confidence
               exact == IF Classify(c.release, E).exact THEN 0 ELSE 1
               seeders == c.release.seeders
               number == c.release.sequence
    <1>1. score \in Int /\ confidence \in Int /\ exact \in Int
        <2>1. score \in Int
            BY ScoreIs
        <2>2. confidence \in Int
            BY ClassifyIs DEF Sound
        <2>3. exact \in Int
            OBVIOUS
        <2>4. QED
            BY <2>1, <2>2, <2>3
    <1>2. seeders \in Int /\ number \in Int
        BY DEF SeriesReleases
    <1>3. RankingKey(c, E) = <<-score, -confidence, exact, -seeders, number>>
        BY DEF RankingKey
    <1> HIDE DEF score, confidence, exact, seeders, number
    <1>4. -score \in Int /\ -confidence \in Int /\ -seeders \in Int
        BY <1>1, <1>2
    <1>5. ASSUME NEW i \in Int, NEW j \in Int, NEW k \in Int, NEW m \in Int, NEW n \in Int
          PROVE  <<i, j, k, m, n>> \in [1..5 -> Int]
        OBVIOUS
    <1>6. QED
        BY SMTT(30), <1>1, <1>2, <1>3, <1>4, <1>5

\* Results are ranked, and none is left out.
LEMMA RankedSeriesIs ==
    ASSUME NEW S, IsFiniteSet(S), \A c \in S : c.release \in SeriesReleases, NEW E
    PROVE  RankedSeries(S, E) \in Seq(S) /\ Range(RankedSeries(S, E)) = S
    <1> DEFINE key == [c \in S |-> RankingKey(c, E)]
               t == RankedSeries(S, E)
    <1>1. \A c \in S : RankingKey(c, E) \in [1..5 -> Int]
        BY RankingKeyIs
    <1>2. key \in [S -> [1..5 -> Int]] /\ \A c \in S : key[c] = RankingKey(c, E)
        BY <1>1
    <1> HIDE DEF key
    <1>3. \E u \in [1..Cardinality(S) -> S] :
              /\ IsInjective(u)
              /\ \A m, n \in DOMAIN u : m < n => ~Before(key[u[n]], key[u[m]])
        BY <1>2, 5 \in Nat, SortedExists
    <1>4. \E u \in [1..Cardinality(S) -> S] :
              /\ IsInjective(u)
              /\ \A m, n \in DOMAIN u : m < n => ~Before(RankingKey(u[n], E), RankingKey(u[m], E))
        BY <1>2, <1>3
    <1>5. t \in [1..Cardinality(S) -> S] /\ IsInjective(t)
        BY <1>4 DEF RankedSeries, Sorted
    <1> HIDE DEF t
    <1>6. t \in Seq(S) /\ Range(t) = S
        BY <1>5, OrderIsComplete
    <1>7. QED
        BY <1>6 DEF t

-----------------------------------------------------------------------------
(* What becomes of duplicates *)

LEMMA AtPlaces ==
    ASSUME NEW V, NEW s \in Seq(V), NEW places \in SUBSET (1..Len(s))
    PROVE  IsFiniteSet(places) /\ Len(s) \in Nat /\ \A k \in places : k \in Int /\ s[k] \in V
    <1>1. Len(s) \in Nat /\ \A k \in 1..Len(s) : k \in Int /\ s[k] \in V
        OBVIOUS
    <1>2. IsFiniteSet(places)
        BY <1>1, Counting
    <1>3. QED
        BY <1>1, <1>2

\* The sources of a result are the releases at its places, all of them.
LEMMA SourcesAre ==
    ASSUME NEW raw \in Seq(SeriesReleases), NEW places \in SUBSET (1..Len(raw))
    PROVE  /\ Sources(raw, places) \in Seq(SeriesReleases)
           /\ \A k \in places : raw[k] \in Range(Sources(raw, places))
           /\ \A r \in Range(Sources(raw, places)) : \E k \in places : r = raw[k]
    <1> DEFINE key == [k \in places |-> <<raw[k].sequence, k>>]
               t == Sorted(places, LAMBDA k : <<raw[k].sequence, k>>)
               all == Sources(raw, places)
    <1>1. IsFiniteSet(places) /\ Len(raw) \in Nat /\ \A k \in places : k \in Int /\ raw[k] \in SeriesReleases
        BY AtPlaces
    <1>2. \A k \in places : raw[k].sequence \in Int
        BY <1>1 DEF SeriesReleases
    <1>3. ASSUME NEW i \in Int, NEW j \in Int PROVE <<i, j>> \in [1..2 -> Int]
        OBVIOUS
    <1>4. key \in [places -> [1..2 -> Int]] /\ \A k \in places : key[k] = <<raw[k].sequence, k>>
        BY <1>1, <1>2, <1>3
    <1> HIDE DEF key
    <1>5. \E u \in [1..Cardinality(places) -> places] :
              /\ IsInjective(u)
              /\ \A m, n \in DOMAIN u : m < n => ~Before(key[u[n]], key[u[m]])
        BY <1>1, <1>4, 2 \in Nat, SortedExists
    <1>6. \E u \in [1..Cardinality(places) -> places] :
              /\ IsInjective(u)
              /\ \A m, n \in DOMAIN u :
                    m < n => ~Before(<<raw[u[n]].sequence, u[n]>>, <<raw[u[m]].sequence, u[m]>>)
        BY <1>4, <1>5
    <1>7. t \in [1..Cardinality(places) -> places] /\ IsInjective(t)
        BY <1>6 DEF Sorted
    <1>8. all = [n \in 1..Cardinality(places) |-> raw[t[n]]]
        BY DEF Sources
    <1> HIDE DEF t, all
    <1>9. /\ Cardinality(places) \in Nat /\ \A k \in places : \E n \in 1..Cardinality(places) : t[n] = k
          /\ \A n \in 1..Cardinality(places) : t[n] \in places
        BY <1>1, <1>7, OrderIsComplete
    <1>10. all \in [1..Cardinality(places) -> SeriesReleases]
        BY <1>1, <1>8, <1>9
    <1>11. all \in Seq(SeriesReleases) /\ DOMAIN all = 1..Cardinality(places)
        <2>1. \A n \in Nat : \A f \in [1..n -> SeriesReleases] : f \in Seq(SeriesReleases) /\ DOMAIN f = 1..n
            OBVIOUS
        <2>2. QED
            BY <1>9, <1>10, <2>1
    <1>12. \A n \in 1..Cardinality(places) : all[n] = raw[t[n]]
        BY <1>8
    <1>13. \A k \in places : raw[k] \in Range(all)
        BY SMTT(30), <1>9, <1>11, <1>12 DEF Range
    <1>14. ASSUME NEW r \in Range(all) PROVE \E k \in places : r = raw[k]
        <2>1. PICK n \in 1..Cardinality(places) : all[n] = r
            BY <1>11 DEF Range
        <2>2. t[n] \in places /\ r = raw[t[n]]
            BY <1>9, <1>12, <2>1
        <2>3. QED
            BY <2>2
    <1>15. QED
        BY <1>11, <1>13, <1>14 DEF all

LEMMA RepresentativeKeyIs ==
    ASSUME NEW raw, NEW r \in SeriesReleases, NEW E, NEW k \in Int
    PROVE  LET key == RepresentativeKey(raw, r, E) \o <<k>>
           IN  /\ key \in [1..5 -> Int]
               /\ key[1] = IF Judged(raw, r, E).accepted THEN 0 ELSE 1
    <1> DEFINE accepted == IF Judged(raw, r, E).accepted THEN 0 ELSE 1
               class == Place(Judged(raw, r, E).class)
               exact == IF Judged(raw, r, E).exact THEN 0 ELSE 1
               number == r.sequence
    <1>1. accepted \in Int /\ exact \in Int
        OBVIOUS
    <1>2. class \in Int
        <2>1. Judged(raw, r, E).class \in Classes
            BY ClassifyIs DEF Judged, Sound
        <2>2. \A n \in 1..9 : n \in Int
            OBVIOUS
        <2>3. QED
            BY <2>1, <2>2, PlaceIs
    <1>3. number \in Int
        BY DEF SeriesReleases
    <1>4. RepresentativeKey(raw, r, E) = <<accepted, class, exact, number>>
        BY DEF RepresentativeKey
    <1> HIDE DEF accepted, class, exact, number
    <1>5. ASSUME NEW a \in Int, NEW b \in Int, NEW c \in Int, NEW d \in Int
          PROVE  /\ <<a, b, c, d>> \o <<k>> \in [1..5 -> Int]
                 /\ (<<a, b, c, d>> \o <<k>>)[1] = a
        <2>1. <<a, b, c, d>> \in Seq(Int) /\ Len(<<a, b, c, d>>) = 4 /\ <<a, b, c, d>>[1] = a
            OBVIOUS
        <2>2. \A q \in Seq(Int) : Len(q) = 4 => q \o <<k>> \in [1..5 -> Int] /\ (q \o <<k>>)[1] = q[1]
            <3> TAKE q \in Seq(Int)
            <3> HAVE Len(q) = 4
            <3>1. <<k>> \in Seq(Int) /\ Len(<<k>>) = 1 /\ 1 \in 1..Len(q) /\ Len(q) + 1 = 5
                OBVIOUS
            <3>2. \A s, u \in Seq(Int) : /\ s \o u \in Seq(Int) /\ Len(s \o u) = Len(s) + Len(u)
                                         /\ \A i \in 1..Len(s) : (s \o u)[i] = s[i]
                OBVIOUS
            <3>3. q \o <<k>> \in Seq(Int) /\ Len(q \o <<k>>) = 5 /\ (q \o <<k>>)[1] = q[1]
                BY <3>1, <3>2
            <3>4. \A u \in Seq(Int) : u \in [1..Len(u) -> Int]
                OBVIOUS
            <3>5. QED
                BY <3>3, <3>4
        <2>3. QED
            BY <2>1, <2>2
    <1>6. /\ RepresentativeKey(raw, r, E) \o <<k>> \in [1..5 -> Int]
          /\ (RepresentativeKey(raw, r, E) \o <<k>>)[1] = accepted
        BY SMTT(30), <1>1, <1>2, <1>3, <1>4, <1>5
    <1>7. accepted = IF Judged(raw, r, E).accepted THEN 0 ELSE 1
        BY DEF accepted
    <1>8. QED
        BY <1>6, <1>7

\* One of the releases stands for the others, and none comes before it.
LEMMA RepresentativeIs ==
    ASSUME NEW raw \in Seq(SeriesReleases), NEW places \in SUBSET (1..Len(raw)), places # {}, NEW E
    PROVE  \E b \in places :
              /\ Representative(raw, places, E) = raw[b]
              /\ \A k \in places : ~Before(RepresentativeKey(raw, raw[k], E) \o <<k>>,
                                           RepresentativeKey(raw, raw[b], E) \o <<b>>)
    <1> DEFINE Key(k) == RepresentativeKey(raw, raw[k], E) \o <<k>>
               key == [k \in places |-> Key(k)]
               keyed == {<<Key(k), k>> : k \in places}
               p == CHOOSE p \in keyed : \A q \in keyed : ~Before(q[1], p[1])
    <1>1. IsFiniteSet(places) /\ Len(raw) \in Nat /\ \A k \in places : k \in Int /\ raw[k] \in SeriesReleases
        BY AtPlaces
    <1>2. \A k \in places : Key(k) \in [1..5 -> Int]
        BY <1>1, RepresentativeKeyIs
    <1>3. Representative(raw, places, E) = raw[p[2]]
        BY DEF Representative, First
    <1> HIDE DEF Key
    <1>4. key \in [places -> [1..5 -> Int]] /\ \A k \in places : key[k] = Key(k)
        BY <1>2
    <1> HIDE DEF key
    <1>5. PICK least \in places : \A k \in places : ~Before(key[k], key[least])
        BY <1>1, <1>4, 5 \in Nat, FirstExists
    <1>6. \A q \in keyed : \E k \in places : q = <<Key(k), k>> /\ q[1] = Key(k) /\ q[2] = k
        OBVIOUS
    <1>7. <<Key(least), least>> \in keyed /\ <<Key(least), least>>[1] = Key(least)
        OBVIOUS
    <1> HIDE DEF keyed
    <1>8. \A q \in keyed : ~Before(q[1], <<Key(least), least>>[1])
        BY <1>4, <1>5, <1>6, <1>7
    <1>9. p \in keyed /\ \A q \in keyed : ~Before(q[1], p[1])
        BY <1>7, <1>8
    <1> HIDE DEF p
    <1>10. PICK b \in places : p[1] = Key(b) /\ p[2] = b
        BY <1>6, <1>9
    <1>11. \A k \in places : ~Before(Key(k), Key(b))
        <2> TAKE k \in places
        <2>1. <<Key(k), k>> \in keyed /\ <<Key(k), k>>[1] = Key(k)
            BY DEF keyed
        <2>2. QED
            BY <1>9, <1>10, <2>1
    <1>12. QED
        BY <1>3, <1>10, <1>11 DEF Key

\* The first value that is there, of a value and those of a list.
LEMMA MergedIs ==
    ASSUME NEW V, NEW none, NEW v \in V, NEW n \in Nat, NEW f, f \in [1..n -> V]
    PROVE  /\ FirstOf(<<v>> \o f, none) \in V \cup {none}
           /\ v # none => FirstOf(<<v>> \o f, none) = v
    <1> DEFINE all == <<v>> \o f
    <1>1. <<v>> \in Seq(V) /\ Len(<<v>>) = 1 /\ <<v>>[1] = v /\ 1 \in 1..1
        OBVIOUS
    <1>2. f \in Seq(V) /\ Len(f) \in Nat
        OBVIOUS
    <1>3. \A s, u \in Seq(V) : /\ s \o u \in Seq(V) /\ Len(s \o u) = Len(s) + Len(u)
                               /\ DOMAIN (s \o u) = 1..Len(s \o u)
                               /\ \A i \in 1..Len(s) : (s \o u)[i] = s[i]
        OBVIOUS
    <1>4. all \in Seq(V) /\ Len(all) = 1 + Len(f) /\ DOMAIN all = 1..Len(all) /\ all[1] = v
        BY <1>1, <1>2, <1>3
    <1>5. 1 \in DOMAIN all
        BY <1>2, <1>4
    <1> HIDE DEF all
    <1>6. \A s \in Seq(V) : /\ FirstOf(s, none) \in V \cup {none}
                            /\ 1 \in DOMAIN s /\ s[1] # none => FirstOf(s, none) = s[1]
        BY FirstOfIs
    <1>7. QED
        BY <1>4, <1>5, <1>6 DEF all

Amended(r, categories, hash, magnet, size, seeders) ==
    [r EXCEPT !.categories = categories, !.hash = hash, !.magnet = magnet, !.size = size, !.seeders = seeders]

LEMMA AmendedIs ==
    ASSUME NEW r \in SeriesReleases, NEW categories, categories \in SUBSET {"tv", "anime", "other"},
           NEW hash \in Infohashes \cup {None}, NEW magnet \in Infohashes \cup {None, Broken},
           NEW size \in Nat, NEW seeders \in Nat \cup {-1}, NEW q,
           q = Amended(r, categories, hash, magnet, size, seeders)
    PROVE  /\ q \in SeriesReleases /\ q.categories = categories /\ q.hash = hash /\ q.magnet = magnet
           /\ q.url = r.url /\ q.match = r.match /\ q.fansub = r.fansub /\ q.episodes = r.episodes
           /\ q.seasons = r.seasons /\ q.strong = r.strong /\ q.all = r.all
    <1>1. q \in SeriesReleases
        <2> DEFINE Sets == SUBSET {"tv", "anime", "other"}
                   Named == SUBSET ((SUBSET (0..999)) \ {{}})
                   Given(S) == [titled : BOOLEAN, sequence : Nat, indexer : Range(Indexers),
                             hash : Infohashes \cup {None}, magnet : Infohashes \cup {None, Broken},
                             url : Links \cup {None}, size : Nat, seeders : Nat \cup {-1},
                             match : {"leads", "inside", "other"}, fansub : BOOLEAN, episodes : Nat,
                             year : BOOLEAN, categories : S, seasons : Named, range : BOOLEAN,
                             strong : BOOLEAN, bare : BOOLEAN, all : Nat \cup {-1}]
        <2>1. SeriesReleases = Given(Sets)
            BY DEF SeriesReleases
        <2>2. categories \in Sets
            OBVIOUS
        <2> HIDE DEF Sets, Named
        <2>3. r \in Given(Sets)
            BY <2>1
        <2>4. q \in Given(Sets)
            BY <2>2, <2>3 DEF Amended
        <2>5. QED
            BY <2>1, <2>4
    <1>2. q.categories = categories /\ q.hash = hash /\ q.magnet = magnet /\ q.url = r.url
        BY DEF SeriesReleases, Amended
    <1>3. q.match = r.match /\ q.fansub = r.fansub /\ q.episodes = r.episodes
        BY DEF SeriesReleases, Amended
    <1>4. q.seasons = r.seasons /\ q.strong = r.strong /\ q.all = r.all
        BY DEF SeriesReleases, Amended
    <1>5. QED
        BY <1>1, <1>2, <1>3, <1>4

LEMMA CanonicalIs ==
    ASSUME NEW best \in SeriesReleases, NEW sources \in Seq(SeriesReleases), sources # << >>
    PROVE  LET q == Canonical(best, sources).release
           IN  /\ Canonical(best, sources) = [release |-> q, sources |-> sources]
               /\ q \in SeriesReleases /\ q.categories = MergedCategories(sources)
               /\ q.url = best.url /\ q.match = best.match /\ q.fansub = best.fansub
               /\ q.episodes = best.episodes /\ q.seasons = best.seasons /\ q.strong = best.strong
               /\ q.all = best.all
               /\ best.hash # None => q.hash = best.hash
               /\ best.magnet # None => q.magnet = best.magnet
    <1> DEFINE hashes == [n \in DOMAIN sources |-> sources[n].hash]
               magnets == [n \in DOMAIN sources |-> sources[n].magnet]
               sizes == [n \in DOMAIN sources |-> sources[n].size]
               hash == FirstOf(<<best.hash>> \o hashes, None)
               magnet == FirstOf(<<best.magnet>> \o magnets, None)
               size == FirstOf(<<best.size>> \o sizes, 0)
               all == {r.seeders : r \in Range(sources)}
               seeders == CHOOSE n \in all : \A r \in Range(sources) : r.seeders <= n
               categories == MergedCategories(sources)
               q == [best EXCEPT !.categories = categories, !.hash = hash, !.magnet = magnet,
                                 !.size = size, !.seeders = seeders]
    <1>1. Canonical(best, sources) = [release |-> q, sources |-> sources]
        BY DEF Canonical
    <1>2. Len(sources) \in Nat /\ DOMAIN sources = 1..Len(sources) /\ 1 \in 1..Len(sources)
        BY Filled
    <1>3. \A n \in 1..Len(sources) : sources[n] \in SeriesReleases
        OBVIOUS
    <1>4. IsFiniteSet(Range(sources)) /\ Range(sources) \subseteq SeriesReleases /\ Range(sources) # {}
        <2>1. Range(sources) # {}
            BY <1>2 DEF Range
        <2>2. QED
            BY <2>1, RangeIsFinite
    <1>5. hash \in Infohashes \cup {None} /\ (best.hash # None => hash = best.hash)
        <2> DEFINE V == Infohashes \cup {None}
        <2>1. hashes \in [1..Len(sources) -> V] /\ best.hash \in V
            BY <1>2, <1>3 DEF SeriesReleases
        <2> HIDE DEF hashes
        <2>2. /\ FirstOf(<<best.hash>> \o hashes, None) \in V \cup {None}
              /\ best.hash # None => FirstOf(<<best.hash>> \o hashes, None) = best.hash
            <3> HIDE DEF V
            <3>1. QED
                BY ONLY <1>2, <2>1, MergedIs
        <2>3. QED
            BY <2>2
    <1>6. magnet \in Infohashes \cup {None, Broken} /\ (best.magnet # None => magnet = best.magnet)
        <2> DEFINE V == Infohashes \cup {None, Broken}
        <2>1. magnets \in [1..Len(sources) -> V] /\ best.magnet \in V
            BY <1>2, <1>3 DEF SeriesReleases
        <2> HIDE DEF magnets
        <2>2. /\ FirstOf(<<best.magnet>> \o magnets, None) \in V \cup {None}
              /\ best.magnet # None => FirstOf(<<best.magnet>> \o magnets, None) = best.magnet
            <3> HIDE DEF V
            <3>1. QED
                BY ONLY <1>2, <2>1, MergedIs
        <2>3. QED
            BY <2>2
    <1>7. size \in Nat
        <2>1. sizes \in [1..Len(sources) -> Nat] /\ best.size \in Nat
            BY <1>2, <1>3 DEF SeriesReleases
        <2> HIDE DEF sizes
        <2>2. FirstOf(<<best.size>> \o sizes, 0) \in Nat \cup {0}
            BY <1>2, <2>1, MergedIs
        <2>3. QED
            BY <2>2
    <1>8. seeders \in Nat \cup {-1}
        <2> DEFINE f == [r \in Range(sources) |-> r.seeders]
        <2>1. \A r \in Range(sources) : r.seeders \in Nat \cup {-1} /\ r.seeders \in Int
            BY SMTT(30), <1>4 DEF SeriesReleases
        <2>2. {f[r] : r \in Range(sources)} = all
            OBVIOUS
        <2>3. DOMAIN f = Range(sources) /\ f = [r \in Range(sources) |-> f[r]]
            OBVIOUS
        <2> HIDE DEF f
        <2>4. IsFiniteSet(all)
            BY <1>4, <2>2, <2>3, FiniteImage
        <2>5. all # {} /\ all \subseteq Int /\ all \subseteq Nat \cup {-1}
            BY <1>4, <2>1
        <2>6. PICK n \in all : \A m \in all : m <= n
            BY <2>4, <2>5, GreatestExists
        <2>7. \A r \in Range(sources) : r.seeders <= n
            BY <2>6
        <2>8. seeders \in all
            BY <2>7
        <2>9. QED
            BY <2>5, <2>8
    <1>9. categories \in SUBSET {"tv", "anime", "other"}
        <2>1. \A r \in Range(sources) : r.categories \in SUBSET {"tv", "anime", "other"}
            BY SMTT(30), <1>4 DEF SeriesReleases
        <2>2. QED
            BY <2>1 DEF MergedCategories
    <1>10. Canonical(best, sources).release = q
        BY <1>1
    <1> HIDE DEF hash, magnet, size, seeders, categories
    <1>11. q = Amended(best, categories, hash, magnet, size, seeders)
        BY DEF Amended
    <1>12. categories = MergedCategories(sources)
        BY DEF categories
    <1> HIDE DEF q
    <1>13. PICK x \in SUBSET {"tv", "anime", "other"}, h \in Infohashes \cup {None},
               g \in Infohashes \cup {None, Broken}, n \in Nat, m \in Nat \cup {-1} :
               /\ x = MergedCategories(sources) /\ (best.hash # None => h = best.hash)
               /\ (best.magnet # None => g = best.magnet) /\ q = Amended(best, x, h, g, n, m)
        BY <1>5, <1>6, <1>7, <1>8, <1>9, <1>11, <1>12
    <1>14. /\ q \in SeriesReleases /\ q.categories = x /\ q.hash = h /\ q.magnet = g
           /\ q.url = best.url /\ q.match = best.match /\ q.fansub = best.fansub /\ q.episodes = best.episodes
           /\ q.seasons = best.seasons /\ q.strong = best.strong /\ q.all = best.all
        BY <1>13, AmendedIs
    <1>15. QED
        BY <1>1, <1>14, <1>10, <1>13

\* The places of the releases of one key, and what becomes of them.
SamePlaces(raw, k) == {j \in DOMAIN raw : SeriesKey(raw[j]) = SeriesKey(raw[k])}

Result(raw, k, E) == Canonical(Representative(raw, SamePlaces(raw, k), E), Sources(raw, SamePlaces(raw, k)))

LEMMA DeduplicatedIs ==
    ASSUME NEW raw \in Seq(SeriesReleases), NEW E
    PROVE  /\ Deduplicated(raw, E) = {Result(raw, k, E) : k \in 1..Len(raw)}
           /\ IsFiniteSet(Deduplicated(raw, E))
    <1> DEFINE groups == {{k \in DOMAIN raw : SeriesKey(raw[k]) = key} : key \in {SeriesKey(r) : r \in Range(raw)}}
               Merged(places) == [best |-> Representative(raw, places, E), sources |-> Sources(raw, places)]
               merged == {Merged(places) : places \in groups}
               f == [k \in 1..Len(raw) |-> Result(raw, k, E)]
    <1>1. Len(raw) \in Nat /\ DOMAIN raw = 1..Len(raw)
        OBVIOUS
    <1>2. groups = {SamePlaces(raw, k) : k \in 1..Len(raw)}
        <2>1. \A k \in 1..Len(raw) : SeriesKey(raw[k]) \in {SeriesKey(r) : r \in Range(raw)}
            BY <1>1 DEF Range
        <2>2. ASSUME NEW key \in {SeriesKey(r) : r \in Range(raw)}
              PROVE  \E k \in 1..Len(raw) : key = SeriesKey(raw[k])
            BY <1>1 DEF Range
        <2>3. \A k : SamePlaces(raw, k) = {j \in DOMAIN raw : SeriesKey(raw[j]) = SeriesKey(raw[k])}
            BY DEF SamePlaces
        <2>4. ASSUME NEW k \in 1..Len(raw) PROVE SamePlaces(raw, k) \in groups
            BY <2>1, <2>3
        <2>5. ASSUME NEW places \in groups PROVE \E k \in 1..Len(raw) : places = SamePlaces(raw, k)
            <3>1. PICK key \in {SeriesKey(r) : r \in Range(raw)} :
                     places = {k \in DOMAIN raw : SeriesKey(raw[k]) = key}
                OBVIOUS
            <3>2. PICK k \in 1..Len(raw) : key = SeriesKey(raw[k])
                BY <2>2
            <3>3. QED
                BY <2>3, <3>1, <3>2
        <2> HIDE DEF groups
        <2>6. QED
            BY <2>4, <2>5
    <1>3. Deduplicated(raw, E) = {Canonical(m.best, m.sources) : m \in merged}
        BY DEF Deduplicated
    <1> HIDE DEF groups
    <1>4. \A places : /\ Merged(places).best = Representative(raw, places, E)
                      /\ Merged(places).sources = Sources(raw, places)
        OBVIOUS
    <1> HIDE DEF Merged
    <1>5. Deduplicated(raw, E) = {Canonical(Representative(raw, places, E), Sources(raw, places)) : places \in groups}
        <2>1. \A m \in merged : \E places \in groups : m = Merged(places)
            OBVIOUS
        <2>2. \A places \in groups : Merged(places) \in merged
            OBVIOUS
        <2> HIDE DEF merged
        <2>3. QED
            BY <1>3, <1>4, <2>1, <2>2
    <1>6. Deduplicated(raw, E) = {Result(raw, k, E) : k \in 1..Len(raw)}
        BY <1>2, <1>5 DEF Result
    <1>7. {f[k] : k \in 1..Len(raw)} = {Result(raw, k, E) : k \in 1..Len(raw)}
        OBVIOUS
    <1>8. DOMAIN f = 1..Len(raw) /\ f = [k \in 1..Len(raw) |-> f[k]]
        OBVIOUS
    <1> HIDE DEF f
    <1>9. IsFiniteSet(1..Len(raw))
        BY <1>1, FS_Interval
    <1>10. IsFiniteSet({f[k] : k \in 1..Len(raw)})
        BY <1>8, <1>9, FiniteImage
    <1>11. QED
        BY <1>6, <1>7, <1>10

LEMMA ResultIs ==
    ASSUME NEW raw \in Seq(SeriesReleases), NEW k \in 1..Len(raw), NEW E
    PROVE  LET d == Result(raw, k, E)
           IN  /\ d = [release |-> d.release, sources |-> d.sources]
               /\ d.release \in SeriesReleases /\ d.sources \in Seq(SeriesReleases)
               /\ d.release.categories = MergedCategories(d.sources)
               /\ raw[k] \in Range(d.sources)
               /\ \A r \in Range(d.sources) : r \in Range(raw) /\ SeriesKey(r) = SeriesKey(raw[k])
               /\ \E b \in SamePlaces(raw, k) :
                     /\ d = Canonical(raw[b], d.sources) /\ d.sources # << >>
                     /\ \A j \in SamePlaces(raw, k) : ~Before(RepresentativeKey(raw, raw[j], E) \o <<j>>,
                                                              RepresentativeKey(raw, raw[b], E) \o <<b>>)
    <1> DEFINE places == SamePlaces(raw, k)
               sources == Sources(raw, places)
    <1>1. DOMAIN raw = 1..Len(raw)
        OBVIOUS
    <1>2. places \in SUBSET (1..Len(raw)) /\ k \in places /\ \A j \in places : SeriesKey(raw[j]) = SeriesKey(raw[k])
        BY <1>1 DEF SamePlaces
    <1> HIDE DEF places
    <1>3. PICK b \in places :
              /\ Representative(raw, places, E) = raw[b]
              /\ \A j \in places : ~Before(RepresentativeKey(raw, raw[j], E) \o <<j>>,
                                           RepresentativeKey(raw, raw[b], E) \o <<b>>)
        BY <1>2, RepresentativeIs
    <1>4. /\ sources \in Seq(SeriesReleases) /\ raw[k] \in Range(sources)
          /\ \A r \in Range(sources) : \E j \in places : r = raw[j]
        BY <1>2, SourcesAre
    <1>5. \A r \in Range(sources) : r \in Range(raw) /\ SeriesKey(r) = SeriesKey(raw[k])
        BY <1>1, <1>2, <1>4 DEF Range
    <1>6. sources # << >>
        BY <1>4, Nothing
    <1>7. raw[b] \in SeriesReleases
        BY <1>2, <1>3, AtPlaces
    <1>8. Result(raw, k, E) = Canonical(raw[b], sources)
        BY <1>3 DEF Result, places
    <1> HIDE DEF sources
    <1>9. LET q == Canonical(raw[b], sources).release
          IN  /\ Canonical(raw[b], sources) = [release |-> q, sources |-> sources]
              /\ q \in SeriesReleases /\ q.categories = MergedCategories(sources)
        BY <1>4, <1>6, <1>7, CanonicalIs
    <1>10. Result(raw, k, E).sources = sources /\ Result(raw, k, E) = [release |-> Result(raw, k, E).release, sources |-> sources]
        BY <1>8, <1>9
    <1>11. QED
        BY <1>3, <1>4, <1>5, <1>6, <1>8, <1>9, <1>10 DEF places

-----------------------------------------------------------------------------
(* What is accepted *)

\* A result that covers the series, as AcceptedCovers says of a candidate.
Covers(c, E) ==
    /\ c = [release |-> c.release, sources |-> c.sources]
    /\ c.release \in SeriesReleases /\ c.sources \in Seq(SeriesReleases)
    /\ \A s \in Range(c.sources) : s.categories \cap {"anime", "other"} = {}
    /\ c.release.match = "leads" /\ ~c.release.fansub /\ c.release.episodes = 0
    /\ \/ E \subseteq UNION c.release.seasons
       \/ c.release.seasons = {} /\ (c.release.strong \/ c.release.all \in {0, Cardinality(E)})

LEMMA ProvisionalIs ==
    ASSUME NEW raw \in Seq(SeriesReleases), NEW E
    PROVE  IsFiniteSet(Provisional(raw, E)) /\ \A c \in Provisional(raw, E) : Covers(c, E)
    <1>1. IsFiniteSet(Provisional(raw, E))
        <2>1. Provisional(raw, E) \in SUBSET Deduplicated(raw, E)
            BY DEF Provisional
        <2>2. QED
            BY <2>1, DeduplicatedIs, FS_Subset
    <1>2. ASSUME NEW c \in Provisional(raw, E)
          PROVE  Covers(c, E)
        <2>1. c \in Deduplicated(raw, E) /\ Accepted(c.release, E)
            BY DEF Provisional
        <2>2. PICK k \in 1..Len(raw) : c = Result(raw, k, E)
            BY <2>1, DeduplicatedIs
        <2>3. /\ c = [release |-> c.release, sources |-> c.sources]
              /\ c.release \in SeriesReleases /\ c.sources \in Seq(SeriesReleases)
              /\ c.release.categories = MergedCategories(c.sources)
            BY <2>2, ResultIs
        <2>4. /\ c.release.categories \cap {"anime", "other"} = {}
              /\ c.release.match = "leads" /\ ~c.release.fansub /\ c.release.episodes = 0
              /\ \/ E \subseteq UNION c.release.seasons
                 \/ c.release.seasons = {} /\ (c.release.strong \/ c.release.all \in {0, Cardinality(E)})
            BY <2>1, <2>3, AcceptedIs
        <2>5. \A s \in Range(c.sources) : s.categories \cap {"anime", "other"} = {}
            BY <2>3, <2>4 DEF MergedCategories
        <2>6. QED
            BY <2>3, <2>4, <2>5 DEF Covers
    <1>3. QED
        BY <1>1, <1>2

\* And so it does when its magnet is found.
Magnetized(c, h) == [c EXCEPT !.release.hash = h, !.release.magnet = h]

LEMMA MagnetizedIs ==
    ASSUME NEW c, NEW E, Covers(c, E), NEW h \in Infohashes
    PROVE  /\ Covers(Magnetized(c, h), E) /\ Magnetized(c, h).sources = c.sources
           /\ Magnetized(c, h).release.hash = h
    <1> DEFINE r == c.release
               q == [r EXCEPT !.hash = h, !.magnet = h]
    <1>1. c = [release |-> r, sources |-> c.sources] /\ r \in SeriesReleases
        BY DEF Covers
    <1> HIDE DEF r
    <1>2. q \in SeriesReleases
        <2> DEFINE Sets == SUBSET {"tv", "anime", "other"}
                   Named == SUBSET ((SUBSET (0..999)) \ {{}})
                   Given == [titled : BOOLEAN, sequence : Nat, indexer : Range(Indexers),
                             hash : Infohashes \cup {None}, magnet : Infohashes \cup {None, Broken},
                             url : Links \cup {None}, size : Nat, seeders : Nat \cup {-1},
                             match : {"leads", "inside", "other"}, fansub : BOOLEAN, episodes : Nat,
                             year : BOOLEAN, categories : Sets, seasons : Named, range : BOOLEAN,
                             strong : BOOLEAN, bare : BOOLEAN, all : Nat \cup {-1}]
        <2>1. SeriesReleases = Given
            BY DEF SeriesReleases
        <2> HIDE DEF Sets, Named
        <2>2. r \in Given
            BY <1>1, <2>1
        <2>3. q \in Given
            BY <2>2
        <2>4. QED
            BY <2>1, <2>3
    <1>3. q.hash = h /\ q.match = r.match /\ q.fansub = r.fansub /\ q.episodes = r.episodes
        BY <1>1 DEF SeriesReleases
    <1>4. q.seasons = r.seasons /\ q.strong = r.strong /\ q.all = r.all
        BY <1>1 DEF SeriesReleases
    <1>5. Magnetized(c, h) = [c EXCEPT !.release = [[c.release EXCEPT !.hash = h] EXCEPT !.magnet = h]]
        BY <1>1 DEF Magnetized
    <1>6. q = [[r EXCEPT !.hash = h] EXCEPT !.magnet = h]
        OBVIOUS
    <1> HIDE DEF q
    <1>7. Magnetized(c, h) = [release |-> q, sources |-> c.sources]
        BY <1>1, <1>5, <1>6 DEF r
    <1>8. Magnetized(c, h).release = q /\ Magnetized(c, h).sources = c.sources
        BY <1>7
    <1>9. QED
        BY <1>1, <1>2, <1>3, <1>4, <1>7, <1>8 DEF Covers, r

\* Where no two releases share a number each is judged by itself.
LEMMA JudgedIs ==
    ASSUME NEW raw \in Seq(SeriesReleases), IsInjective([j \in DOMAIN raw |-> raw[j].sequence]),
           NEW k \in 1..Len(raw), NEW E
    PROVE  Judged(raw, raw[k], E) = Classify(raw[k], E)
    <1> DEFINE same == {j \in DOMAIN raw : raw[j].sequence = raw[k].sequence}
    <1>1. DOMAIN raw = 1..Len(raw)
        OBVIOUS
    <1>2. \A i, j \in DOMAIN raw : raw[i].sequence = raw[j].sequence => i = j
        BY DEF IsInjective
    <1>3. same = {k}
        BY <1>1, <1>2
    <1>4. (CHOOSE i \in same : \A j \in same : j <= i) = k
        BY <1>3
    <1>5. QED
        BY <1>4 DEF Judged

\* What is acceptable is a source of a result that is accepted: of its duplicates one
\* that is acceptable too stands for it.
LEMMA AcceptableIsProvisional ==
    ASSUME NEW raw \in Seq(SeriesReleases), IsInjective([j \in DOMAIN raw |-> raw[j].sequence]),
           NEW k \in 1..Len(raw), NEW E, Accepted(raw[k], E),
           \A s \in Range(raw) :
              SeriesKey(s) = SeriesKey(raw[k]) => s.categories \cap {"anime", "other"} = {}
    PROVE  \E c \in Provisional(raw, E) : raw[k] \in Range(c.sources)
    <1> DEFINE d == Result(raw, k, E)
               q == d.release
               Key(j) == RepresentativeKey(raw, raw[j], E) \o <<j>>
    <1>1. /\ q \in SeriesReleases /\ d.sources \in Seq(SeriesReleases) /\ raw[k] \in Range(d.sources)
          /\ q.categories = MergedCategories(d.sources)
          /\ \A r \in Range(d.sources) : r \in Range(raw) /\ SeriesKey(r) = SeriesKey(raw[k])
        BY ResultIs
    <1>2. PICK b \in SamePlaces(raw, k) :
              /\ d = Canonical(raw[b], d.sources) /\ d.sources # << >>
              /\ \A j \in SamePlaces(raw, k) : ~Before(Key(j), Key(b))
        BY ResultIs
    <1>3. b \in 1..Len(raw) /\ k \in SamePlaces(raw, k) /\ \A j \in 1..Len(raw) : j \in Int /\ raw[j] \in SeriesReleases
        BY DEF SamePlaces
    <1>4. Accepted(raw[b], E)
        <2>1. \A j \in 1..Len(raw) : Judged(raw, raw[j], E) = Classify(raw[j], E)
            BY JudgedIs
        <2>2. \A j \in 1..Len(raw) : /\ Key(j) \in [1..5 -> Int]
                                     /\ Key(j)[1] = IF Judged(raw, raw[j], E).accepted THEN 0 ELSE 1
            <3> TAKE j \in 1..Len(raw)
            <3>1. /\ RepresentativeKey(raw, raw[j], E) \o <<j>> \in [1..5 -> Int]
                  /\ (RepresentativeKey(raw, raw[j], E) \o <<j>>)[1] = IF Judged(raw, raw[j], E).accepted THEN 0 ELSE 1
                <4>1. raw[j] \in SeriesReleases /\ j \in Int
                    BY <1>3
                <4>2. QED
                    BY ONLY <4>1, RepresentativeKeyIs
            <3>2. QED
                BY <3>1
        <2> HIDE DEF Key
        <2>3. Key(k)[1] = 0 /\ (~Accepted(raw[b], E) => Key(b)[1] = 1) /\ DOMAIN Key(k) = 1..5
            BY <1>3, <2>1, <2>2 DEF Accepted
        <2>4. ~Before(Key(k), Key(b))
            BY <1>2, <1>3
        <2>5. 1 \in 1..5 /\ 1..(1 - 1) = {}
            OBVIOUS
        <2>6. Key(k)[1] < Key(b)[1] => Before(Key(k), Key(b))
            BY <2>3, <2>5 DEF Before
        <2>7. QED
            BY <2>3, <2>4, <2>6
    <1>5. /\ q.url = raw[b].url /\ q.match = raw[b].match /\ q.fansub = raw[b].fansub
          /\ q.episodes = raw[b].episodes /\ q.seasons = raw[b].seasons /\ q.strong = raw[b].strong
          /\ q.all = raw[b].all
          /\ raw[b].hash # None => q.hash = raw[b].hash
          /\ raw[b].magnet # None => q.magnet = raw[b].magnet
        <2>1. LET p == Canonical(raw[b], d.sources).release
              IN  /\ p.url = raw[b].url /\ p.match = raw[b].match /\ p.fansub = raw[b].fansub
                  /\ p.episodes = raw[b].episodes /\ p.seasons = raw[b].seasons /\ p.strong = raw[b].strong
                  /\ p.all = raw[b].all
                  /\ raw[b].hash # None => p.hash = raw[b].hash
                  /\ raw[b].magnet # None => p.magnet = raw[b].magnet
            BY SMTT(30), <1>1, <1>2, <1>3, CanonicalIs
        <2>2. QED
            BY <1>2, <2>1
    <1>6. SeriesUsable(q)
        <2>1. SeriesUsable(raw[b])
            BY <1>3, <1>4, AcceptedIs DEF Acceptable, SeasonsSuffice, PhrasesSuffice
        <2>2. QED
            BY <1>5, <2>1 DEF SeriesUsable
    <1>7. q.categories \cap {"anime", "other"} = {}
        BY <1>1 DEF MergedCategories
    <1> HIDE DEF q
    <1>8. Accepted(q, E)
        BY <1>1, <1>3, <1>4, <1>5, <1>6, <1>7, StaysAcceptable
    <1>9. d \in Deduplicated(raw, E)
        BY DeduplicatedIs
    <1>10. QED
        BY <1>1, <1>8, <1>9 DEF Provisional, q

-----------------------------------------------------------------------------
(* What the search carries to its report *)

\* Until the releases are ranked they are only gathered.
Gathering(s) ==
    /\ SeriesShape(s) /\ s.raw \in Seq(SeriesReleases) /\ s.next = Len(s.raw)
    /\ s.exit = 9 /\ s.refused = << >> /\ s.candidates = << >>

\* Then each provisional result is left to resolve, came to no magnet, or came to one.
Carried(s) ==
    /\ SeriesShape(s) /\ s.raw \in Seq(SeriesReleases) /\ s.next = Len(s.raw)
    /\ Listing(s.left) /\ Listing(s.refused) /\ Listing(s.candidates)
    /\ Range(s.left) \cup Range(s.refused) \subseteq Provisional(s.raw, s.expected)
    /\ \A c \in Range(s.candidates) : Covers(c, s.expected) /\ c.release.hash \in Infohashes
    /\ \A d \in Provisional(s.raw, s.expected) :
          \/ d \in Range(s.left) \cup Range(s.refused)
          \/ \E c \in Range(s.candidates) : c.sources = d.sources

SeriesData(s) ==
    /\ s.pc \notin {"resolve", "end"} => Gathering(s)
    /\ s.pc = "resolve" => Carried(s) /\ s.exit = 9
    /\ s.pc = "end" /\ s.exit = 0 => Carried(s) /\ s.left = << >>
    /\ s.pc = "end" /\ s.exit # 0 => s.exit \in {4, 5} /\ s.candidates = << >> /\ s.next = Len(s.raw)

LEMMA NewGathers ==
    /\ Gathering(NewSeries) /\ NewSeries.pc = "off"
    /\ NewSeries.raw = << >> /\ NewSeries.next = 0 /\ NewSeries.candidates = << >>
    <1>1. << >> \in Seq(SeriesReleases) /\ Len(<< >>) = 0
        OBVIOUS
    <1>2. QED
        BY <1>1 DEF Gathering, SeriesShape, NewSeries

\* A state that gathered nothing else.
LEMMA StaysGathered ==
    ASSUME NEW s, Gathering(s), NEW t, SeriesShape(t), t.raw = s.raw, t.next = s.next, t.exit = s.exit,
           t.refused = s.refused, t.candidates = s.candidates
    PROVE  Gathering(t)
    BY DEF Gathering

LEMMA SeriesEndsData ==
    ASSUME NEW s, NEW exit \in {4, 5}
    PROVE  SeriesData(SeriesEnds(s, exit))
    <1> DEFINE t == SeriesEnds(s, exit)
    <1>1. t = [NewSeries EXCEPT !.pc = "end", !.exit = exit, !.answered = s.answered,
                                !.rejected = s.rejected]
        BY DEF SeriesEnds
    <1> HIDE DEF t
    <1>2. /\ t.pc = "end" /\ t.exit = exit /\ t.candidates = << >> /\ t.next = 0 /\ t.raw = << >>
        BY <1>1, NewGathers DEF Gathering, SeriesShape
    <1>3. Len(<< >>) = 0
        OBVIOUS
    <1>4. SeriesData(t)
        BY <1>2, <1>3 DEF SeriesData
    <1>5. QED
        BY <1>4 DEF t

LEMMA SeriesChosenData ==
    ASSUME NEW s, Gathering(s)
    PROVE  SeriesData(SeriesChosen(s))
    <1>1. CASE s.indexers = << >>
        BY <1>1, SeriesEndsData DEF SeriesChosen
    <1>2. CASE s.indexers # << >>
        <2> DEFINE t == SeriesChosen(s)
        <2>1. t = [s EXCEPT !.pc = "query", !.asked = 1]
            BY <1>2 DEF SeriesChosen
        <2> HIDE DEF t
        <2>2. /\ SeriesShape(t) /\ t.pc = "query" /\ t.raw = s.raw /\ t.next = s.next /\ t.exit = s.exit
              /\ t.refused = s.refused /\ t.candidates = s.candidates
            BY <2>1 DEF Gathering, SeriesShape
        <2>3. Gathering(t)
            BY <2>2, StaysGathered
        <2>4. SeriesData(t)
            BY <2>2, <2>3 DEF SeriesData
        <2>5. QED
            BY <2>4 DEF t
    <1>3. QED
        BY <1>1, <1>2

LEMMA BeginSeriesData == BeginSeries => SeriesData(series')
    <1>1. ASSUME NEW expected \in Scopes, NEW explicit \in BOOLEAN,
                 series' = [NewSeries EXCEPT !.expected = expected, !.explicit = explicit,
                                             !.pc = IF explicit THEN "capabilities" ELSE "discover"]
          PROVE  SeriesData(series')
        <2>1. /\ SeriesShape(series') /\ series'.pc \in {"capabilities", "discover"}
              /\ series'.raw = NewSeries.raw /\ series'.next = NewSeries.next /\ series'.exit = NewSeries.exit
              /\ series'.refused = NewSeries.refused /\ series'.candidates = NewSeries.candidates
            BY <1>1, NewGathers DEF Gathering, SeriesShape
        <2>2. Gathering(series')
            BY <2>1, NewGathers, StaysGathered
        <2>3. QED
            BY <2>1, <2>2 DEF SeriesData
    <1>2. QED
        BY <1>1 DEF BeginSeries

LEMMA SeriesDiscoveredData == SeriesData(series) /\ SeriesDiscovered => SeriesData(series')
    <1> SUFFICES ASSUME SeriesData(series), SeriesDiscovered
                 PROVE  SeriesData(series')
        OBVIOUS
    <1>1. PICK told \in (SUBSET Range(Indexers)) \ {{}} : \E able \in SUBSET told :
             series' = SeriesChosen([series EXCEPT !.partial = told # able,
                                         !.due = Cardinality(told) * Len(Queries),
                                         !.indexers = Configured(able)])
        BY DEF SeriesDiscovered
    <1>2. PICK able \in SUBSET told :
             series' = SeriesChosen([series EXCEPT !.partial = told # able,
                                         !.due = Cardinality(told) * Len(Queries),
                                         !.indexers = Configured(able)])
        BY <1>1
    <1>3. Gathering(series)
        BY DEF SeriesDiscovered, SeriesAt, SeriesData
    <1> DEFINE due == Cardinality(told) * Len(Queries)
               partial == told # able
               indexers == Configured(able)
               s == [series EXCEPT !.partial = partial, !.due = due, !.indexers = indexers]
    <1>4. series' = SeriesChosen(s)
        BY <1>2
    <1> HIDE DEF partial, due, indexers
    <1>5. s = [series EXCEPT !.partial = partial, !.due = due, !.indexers = indexers]
        OBVIOUS
    <1> HIDE DEF s
    <1>6. /\ SeriesShape(s) /\ s.raw = series.raw /\ s.next = series.next /\ s.exit = series.exit
          /\ s.refused = series.refused /\ s.candidates = series.candidates
        BY <1>3, <1>5 DEF Gathering, SeriesShape
    <1>7. QED
        BY <1>3, <1>4, <1>6, StaysGathered, SeriesChosenData

LEMMA SeriesCapabilitiesData == SeriesData(series) /\ SeriesCapabilities => SeriesData(series')
    <1> DEFINE After(s) == IF s.asked = Len(Indexers) THEN SeriesChosen(s) ELSE [s EXCEPT !.asked = @ + 1]
               told == [series EXCEPT !.due = @ + Len(Queries)]
    <1>1. SUFFICES ASSUME SeriesData(series), SeriesCapabilities
                   PROVE  SeriesData(series')
        OBVIOUS
    <1>2. series.pc = "capabilities" /\ Gathering(series)
        BY <1>1 DEF SeriesCapabilities, SeriesAt, SeriesData
    <1>3. \/ series' = After([told EXCEPT !.indexers = Append(@, Indexers[series.asked])])
          \/ series' = After([told EXCEPT !.partial = TRUE])
        BY <1>1 DEF SeriesCapabilities
    <1>4. ASSUME NEW s, Gathering(s), s.pc = "capabilities"
          PROVE  SeriesData(After(s))
        <2>1. CASE s.asked = Len(Indexers)
            BY <1>4, <2>1, SeriesChosenData
        <2>2. CASE s.asked # Len(Indexers)
            <3> DEFINE t == After(s)
            <3>1. t = [s EXCEPT !.asked = s.asked + 1]
                BY <2>2
            <3> HIDE DEF t
            <3>2. /\ SeriesShape(t) /\ t.pc = "capabilities" /\ t.raw = s.raw /\ t.next = s.next
                  /\ t.exit = s.exit /\ t.refused = s.refused /\ t.candidates = s.candidates
                BY <1>4, <3>1 DEF Gathering, SeriesShape
            <3>3. Gathering(t)
                BY <1>4, <3>2, StaysGathered
            <3>4. SeriesData(t)
                BY <3>2, <3>3 DEF SeriesData
            <3>5. QED
                BY <3>4 DEF t
        <2>3. QED
            BY <2>1, <2>2
    <1> HIDE DEF After
    <1>5. PICK s : /\ series' = After(s)
                   /\ \E due, partial, indexers :
                         s = [series EXCEPT !.due = due, !.partial = partial, !.indexers = indexers]
        <2> DEFINE due == series.due + Len(Queries)
                   longer == Append(series.indexers, Indexers[series.asked])
        <2>1. told = [series EXCEPT !.due = due] /\ SeriesShape(series)
            BY <1>2 DEF Gathering, SeriesShape
        <2>2. /\ [told EXCEPT !.indexers = Append(@, Indexers[series.asked])] =
                     [series EXCEPT !.due = due, !.partial = series.partial, !.indexers = longer]
              /\ [told EXCEPT !.partial = TRUE] =
                     [series EXCEPT !.due = due, !.partial = TRUE, !.indexers = series.indexers]
            <3> HIDE DEF due, told
            <3>1. told.indexers = series.indexers
                BY <2>1 DEF SeriesShape
            <3>2. [told EXCEPT !.indexers = Append(@, Indexers[series.asked])] = [told EXCEPT !.indexers = longer]
                BY <2>1, <3>1 DEF SeriesShape
            <3> HIDE DEF longer
            <3>3. QED
                BY <2>1, <3>2 DEF SeriesShape
        <2> HIDE DEF due, longer, told
        <2>3. QED
            BY <1>3, <2>2
    <1>6. PICK due, partial, indexers :
             s = [series EXCEPT !.due = due, !.partial = partial, !.indexers = indexers]
        BY <1>5
    <1>7. /\ SeriesShape(s) /\ s.pc = "capabilities" /\ s.raw = series.raw /\ s.next = series.next
          /\ s.exit = series.exit /\ s.refused = series.refused /\ s.candidates = series.candidates
        BY <1>2, <1>6 DEF Gathering, SeriesShape
    <1>8. QED
        BY <1>2, <1>4, <1>5, <1>7, StaysGathered

\* After a query.
LEMMA SeriesQueriedData ==
    ASSUME NEW s, Gathering(s), s.pc = "query"
    PROVE  SeriesData(SeriesQueried(s))
    <1> DEFINE t == SeriesQueried(s)
    <1>1. CASE t = SeriesEnds(s, 4)
        BY <1>1, SeriesEndsData
    <1>2. ASSUME NEW query, NEW asked, NEW place \in {"query", "rank"},
                 t = [s EXCEPT !.query = query, !.asked = asked, !.pc = place]
          PROVE  SeriesData(t)
        <2> HIDE DEF t
        <2>1. /\ SeriesShape(t) /\ t.pc = place /\ t.raw = s.raw /\ t.next = s.next /\ t.exit = s.exit
              /\ t.refused = s.refused /\ t.candidates = s.candidates
            BY <1>2 DEF Gathering, SeriesShape
        <2>2. Gathering(t)
            BY <2>1, StaysGathered
        <2>3. QED
            BY <2>1, <2>2 DEF SeriesData
    <1>3. s = [s EXCEPT !.query = s.query, !.asked = s.asked, !.pc = "query"] /\ SeriesShape(s)
        BY DEF Gathering, SeriesShape
    <1>4. CASE s.query < Len(Queries)
        <2>1. t = [s EXCEPT !.query = s.query + 1]
            BY <1>4 DEF SeriesQueried
        <2>2. t = [s EXCEPT !.query = s.query + 1, !.asked = s.asked, !.pc = "query"]
            BY <1>3, <2>1 DEF SeriesShape
        <2>3. QED
            BY <1>2, <2>2
    <1>5. CASE ~(s.query < Len(Queries)) /\ s.asked < Len(s.indexers)
        <2>1. t = [s EXCEPT !.query = 1, !.asked = s.asked + 1]
            BY <1>5 DEF SeriesQueried
        <2>2. t = [s EXCEPT !.query = 1, !.asked = s.asked + 1, !.pc = "query"]
            BY <1>3, <2>1 DEF SeriesShape
        <2>3. QED
            BY <1>2, <2>2
    <1>6. CASE ~(s.query < Len(Queries)) /\ ~(s.asked < Len(s.indexers)) /\ s.answered # 0
        <2>1. t = [s EXCEPT !.pc = "rank"]
            BY <1>6 DEF SeriesQueried
        <2>2. t = [s EXCEPT !.query = s.query, !.asked = s.asked, !.pc = "rank"]
            BY <1>3, <2>1 DEF SeriesShape
        <2>3. QED
            BY <1>2, <2>2
    <1>7. QED
        BY <1>1, <1>4, <1>5, <1>6 DEF SeriesQueried

\* The releases of an answer are numbered and appended.
LEMMA NumberedIs ==
    ASSUME NEW r \in SeriesReleases, NEW n \in Nat, NEW h \in Infohashes \cup {None}
    PROVE  Numbered(r, n, h) \in SeriesReleases
    <1> DEFINE Sets == SUBSET {"tv", "anime", "other"}
               Named == SUBSET ((SUBSET (0..999)) \ {{}})
               Given == [titled : BOOLEAN, sequence : Nat, indexer : Range(Indexers),
                         hash : Infohashes \cup {None}, magnet : Infohashes \cup {None, Broken},
                         url : Links \cup {None}, size : Nat, seeders : Nat \cup {-1},
                         match : {"leads", "inside", "other"}, fansub : BOOLEAN, episodes : Nat,
                         year : BOOLEAN, categories : Sets, seasons : Named, range : BOOLEAN,
                         strong : BOOLEAN, bare : BOOLEAN, all : Nat \cup {-1}]
    <1>1. SeriesReleases = Given
        BY DEF SeriesReleases
    <1> HIDE DEF Sets, Named
    <1>2. r \in Given
        BY <1>1
    <1>3. Numbered(r, n, h) \in Given
        BY <1>2 DEF Numbered
    <1>4. QED
        BY <1>1, <1>3

LEMMA SeriesFoundData == SeriesInv(series) /\ SeriesData(series) /\ SeriesFound => SeriesData(series')
    <1> SUFFICES ASSUME SeriesInv(series), SeriesData(series), SeriesFound
                 PROVE  SeriesData(series')
        OBVIOUS
    <1>1. PICK items \in SeriesOffers[SeriesQuery] :
             series' = SeriesQueried([series EXCEPT !.raw = @ \o Parsed(items, series.next),
                                                    !.next = @ + Len(Parsed(items, series.next)),
                                                    !.answered = @ + 1])
        BY DEF SeriesFound
    <1>2. series.pc = "query" /\ AtQuery(series) /\ Gathering(series)
        BY DEF SeriesFound, SeriesAt, SeriesInv, SeriesData
    <1>3. items \in Seq(SeriesReleases)
        <2>1. series.indexers[series.asked] \in Range(Indexers)
            BY <1>2 DEF AtQuery
        <2>2. Queries[series.query] \in Range(Queries)
            <3>1. Queries \in Seq(Range(Queries)) /\ series.query \in 1..Len(Queries)
                BY <1>2, SeriesAssumption DEF AtQuery
            <3>2. QED
                BY <3>1
        <2>3. QED
            BY <2>1, <2>2, SeriesAssumption DEF SeriesQuery
    <1>4. series.next \in Nat /\ series.raw \in Seq(SeriesReleases) /\ series.next = Len(series.raw)
        BY <1>2 DEF Gathering
    <1>5. \A r \in SeriesReleases : r.hash \in Infohashes \cup {None}
        BY DEF SeriesReleases
    <1>6. Parsed(items, series.next) \in Seq(SeriesReleases)
        BY <1>3, <1>4, <1>5, NumberedIs, ParsedLists
    <1> DEFINE found == Parsed(items, series.next)
               raw == series.raw \o found
               next == series.next + Len(found)
               s == [series EXCEPT !.raw = raw, !.next = next, !.answered = series.answered + 1]
    <1>7. raw \in Seq(SeriesReleases) /\ next = Len(raw)
        BY <1>4, <1>6
    <1>8. series' = SeriesQueried(s)
        BY <1>1, <1>2 DEF Gathering, SeriesShape
    <1>9. s = [series EXCEPT !.raw = raw, !.next = next, !.answered = series.answered + 1]
        OBVIOUS
    <1> HIDE DEF raw, next, s
    <1>10. /\ SeriesShape(s) /\ s.pc = "query" /\ s.raw = raw /\ s.next = next /\ s.exit = 9
           /\ s.refused = << >> /\ s.candidates = << >>
        BY <1>2, <1>9 DEF Gathering, SeriesShape
    <1>11. Gathering(s)
        BY <1>7, <1>10 DEF Gathering
    <1>12. QED
        BY <1>8, <1>10, <1>11, SeriesQueriedData

LEMMA SeriesQueryFailsData == SeriesData(series) /\ SeriesQueryFails => SeriesData(series')
    <1> SUFFICES ASSUME SeriesData(series), SeriesQueryFails
                 PROVE  SeriesData(series')
        OBVIOUS
    <1>1. series.pc = "query" /\ Gathering(series)
        BY DEF SeriesQueryFails, SeriesAt, SeriesData
    <1> DEFINE s == [series EXCEPT !.partial = TRUE]
    <1>2. series' = SeriesQueried(s) /\ s = [series EXCEPT !.partial = TRUE]
        BY DEF SeriesQueryFails
    <1> HIDE DEF s
    <1>3. /\ SeriesShape(s) /\ s.pc = "query" /\ s.raw = series.raw /\ s.next = series.next
          /\ s.exit = series.exit /\ s.refused = series.refused /\ s.candidates = series.candidates
        BY <1>1, <1>2 DEF Gathering, SeriesShape
    <1>4. QED
        BY <1>1, <1>2, <1>3, StaysGathered, SeriesQueriedData

\* What is accepted is all left to resolve.
LEMMA RankSeriesData == SeriesData(series) /\ RankSeries => SeriesData(series')
    <1> SUFFICES ASSUME SeriesData(series), RankSeries
                 PROVE  SeriesData(series')
        OBVIOUS
    <1> DEFINE P == Provisional(series.raw, series.expected)
               left == RankedSeries(P, series.expected)
    <1>1. series' = [series EXCEPT !.pc = "resolve", !.left = left]
        BY DEF RankSeries
    <1>2. series.pc = "rank" /\ Gathering(series)
        BY DEF RankSeries, SeriesAt, SeriesData
    <1>3. series.raw \in Seq(SeriesReleases)
        BY <1>2 DEF Gathering
    <1>4. IsFiniteSet(P) /\ \A c \in P : c.release \in SeriesReleases
        BY <1>3, ProvisionalIs DEF Covers
    <1>5. left \in Seq(P) /\ Range(left) = P
        BY <1>4, RankedSeriesIs
    <1> HIDE DEF left
    <1>6. Listing(left)
        BY <1>5, SequenceLists
    <1>7. /\ SeriesShape(series') /\ series'.pc = "resolve" /\ series'.left = left
          /\ series'.raw = series.raw /\ series'.next = series.next /\ series'.expected = series.expected
          /\ series'.refused = << >> /\ series'.candidates = << >> /\ series'.exit = 9
        BY <1>1, <1>2 DEF Gathering, SeriesShape
    <1>8. Range(<< >>) = {} /\ Listing(<< >>)
        BY Nothing
    <1>9. Carried(series')
        BY <1>2, <1>5, <1>6, <1>7, <1>8 DEF Carried, Gathering
    <1>10. QED
        BY <1>7, <1>9 DEF SeriesData

\* The first of a list, and the others.
LEMMA HeadAndTail ==
    ASSUME NEW q, Listing(q), q # << >>
    PROVE  Listing(Tail(q)) /\ Range(q) = {Head(q)} \cup Range(Tail(q))
    <1> DEFINE V == Range(q)
               t == Tail(q)
    <1>1. q \in Seq(V) /\ Len(q) \in Nat /\ DOMAIN q = 1..Len(q)
        BY DEF Listing
    <1>2. Len(q) \in Nat \ {0}
        BY <1>1, EmptySeq
    <1>3. \A k \in 1..Len(q) : q[k] \in V
        BY <1>1 DEF Range
    <1>4. /\ t \in Seq(V) /\ Len(t) = Len(q) - 1 /\ Head(q) = q[1]
          /\ \A k \in 1..(Len(q) - 1) : t[k] = q[k + 1]
        <2> HIDE DEF V
        <2>1. QED
            BY <1>1, <1>2
    <1> HIDE DEF t
    <1>5. DOMAIN t = 1..(Len(q) - 1)
        BY <1>2, <1>4
    <1>6. V \subseteq {Head(q)} \cup Range(t)
        <2>1. ASSUME NEW k \in 1..Len(q) PROVE q[k] \in {Head(q)} \cup Range(t)
            <3>1. CASE k = 1
                BY <1>4, <3>1
            <3>2. CASE k # 1
                <4>1. k - 1 \in 1..(Len(q) - 1) /\ (k - 1) + 1 = k
                    BY <1>2, <3>2
                <4>2. t[k - 1] = q[k]
                    BY <1>4, <4>1
                <4>3. QED
                    BY <1>5, <4>1, <4>2 DEF Range
            <3>3. QED
                BY <3>1, <3>2
        <2>2. QED
            BY <1>1, <2>1 DEF Range
    <1>7. Range(t) \subseteq V
        BY <1>4, SequenceLists
    <1>8. Head(q) \in V
        BY <1>2, <1>3, <1>4
    <1>9. Listing(t)
        BY <1>4, SequenceLists
    <1>10. QED
        BY <1>6, <1>7, <1>8, <1>9 DEF t

\* A result is a candidate when its magnet is found, and refused when there is none.
LEMMA SeriesResolvedData ==
    ASSUME SeriesData(series), SeriesResolved, series.left # << >>
    PROVE  SeriesData(series')
    <1> DEFINE c == Head(series.left)
               h == resolver.outcome
               rest == Tail(series.left)
               P == Provisional(series.raw, series.expected)
               found == [c EXCEPT !.release.hash = h, !.release.magnet = h]
               longer == Append(series.candidates, found)
               worse == Append(series.refused, c)
    <1>1. series.pc = "resolve" /\ Carried(series) /\ series.exit = 9
        BY DEF SeriesResolved, SeriesAt, SeriesData
    <1>2. Listing(rest) /\ Range(series.left) = {c} \cup Range(rest)
        BY <1>1, HeadAndTail DEF Carried
    <1>3. c \in P
        BY <1>1, <1>2 DEF Carried
    <1>4. Covers(c, series.expected)
        BY <1>1, <1>3, ProvisionalIs DEF Carried
    <1>5. series' = IF h \in Infohashes
                    THEN [series EXCEPT !.left = rest, !.candidates = longer]
                    ELSE [series EXCEPT !.left = rest, !.refused = worse]
        BY <1>1 DEF SeriesResolved, Carried, SeriesShape
    <1>6. found = Magnetized(c, h)
        BY DEF Magnetized
    <1> HIDE DEF found, c, h, rest
    <1>7. CASE h \in Infohashes
        <2>1. Covers(found, series.expected) /\ found.sources = c.sources /\ found.release.hash = h
            BY <1>4, <1>6, <1>7, MagnetizedIs
        <2>2. Listing(longer) /\ Range(longer) = Range(series.candidates) \cup {found}
            BY <1>1, AppendLists DEF Carried
        <2> HIDE DEF longer
        <2>3. /\ SeriesShape(series') /\ series'.pc = "resolve" /\ series'.exit = 9
              /\ series'.raw = series.raw /\ series'.next = series.next
              /\ series'.expected = series.expected
              /\ series'.left = rest /\ series'.refused = series.refused /\ series'.candidates = longer
            BY <1>1, <1>5, <1>7 DEF Carried, SeriesShape
        <2>4. \A d \in P : \/ d \in Range(rest) \cup Range(series.refused)
                           \/ \E x \in Range(longer) : x.sources = d.sources
            BY <1>1, <1>2, <2>1, <2>2 DEF Carried
        <2>5. \A x \in Range(longer) : Covers(x, series.expected) /\ x.release.hash \in Infohashes
            BY <1>1, <1>7, <2>1, <2>2 DEF Carried
        <2>6. Range(rest) \cup Range(series.refused) \subseteq P
            BY <1>1, <1>2 DEF Carried
        <2> HIDE DEF P
        <2>7. Carried(series')
            BY <1>1, <1>2, <2>2, <2>3, <2>4, <2>5, <2>6 DEF Carried, P
        <2>8. QED
            BY <2>3, <2>7 DEF SeriesData
    <1>8. CASE h \notin Infohashes
        <2>1. Listing(worse) /\ Range(worse) = Range(series.refused) \cup {c}
            BY <1>1, AppendLists DEF Carried
        <2> HIDE DEF worse
        <2>2. /\ SeriesShape(series') /\ series'.pc = "resolve" /\ series'.exit = 9
              /\ series'.raw = series.raw /\ series'.next = series.next
              /\ series'.expected = series.expected
              /\ series'.left = rest /\ series'.refused = worse
              /\ series'.candidates = series.candidates
            BY <1>1, <1>5, <1>8 DEF Carried, SeriesShape
        <2>3. Range(rest) \cup Range(worse) = Range(series.left) \cup Range(series.refused)
            BY <1>2, <2>1
        <2>4. Carried(series')
            BY <1>1, <1>2, <2>1, <2>2, <2>3 DEF Carried
        <2>5. QED
            BY <2>2, <2>4 DEF SeriesData
    <1>9. QED
        BY <1>7, <1>8

\* The report ranks the candidates again, and leaves none out.
LEMMA SeriesReportData == SeriesData(series) /\ SeriesReport => SeriesData(series')
    <1> SUFFICES ASSUME SeriesData(series), SeriesReport
                 PROVE  SeriesData(series')
        OBVIOUS
    <1> DEFINE S == Range(series.candidates)
               ranked == RankedSeries(S, series.expected)
    <1>1. series.pc = "resolve" /\ Carried(series) /\ series.left = << >>
        BY DEF SeriesReport, SeriesAt, SeriesData
    <1>2. CASE series' = SeriesEnds(series, 5)
        BY <1>2, SeriesEndsData
    <1>3. CASE series' = [series EXCEPT !.pc = "end", !.exit = 0, !.candidates = ranked]
        <2>1. IsFiniteSet(S)
            BY <1>1, RangeIsFinite DEF Carried, Listing
        <2>2. \A c \in S : c.release \in SeriesReleases
            BY <1>1 DEF Carried, Covers
        <2>3. ranked \in Seq(S) /\ Range(ranked) = S
            BY <2>1, <2>2, RankedSeriesIs
        <2> HIDE DEF ranked
        <2>4. Listing(ranked)
            BY <2>3, SequenceLists
        <2>5. /\ SeriesShape(series') /\ series'.pc = "end" /\ series'.exit = 0
              /\ series'.raw = series.raw /\ series'.next = series.next
              /\ series'.expected = series.expected /\ series'.left = << >>
              /\ series'.refused = series.refused /\ series'.candidates = ranked
            BY <1>1, <1>3 DEF Carried, SeriesShape
        <2>6. Carried(series')
            BY <1>1, <2>3, <2>4, <2>5 DEF Carried
        <2>7. QED
            BY <2>5, <2>6 DEF SeriesData
    <1>4. series' = SeriesEnds(series, 5) \/ series' = [series EXCEPT !.pc = "end", !.exit = 0, !.candidates = ranked]
        BY <1>1 DEF SeriesReport, Carried, SeriesShape
    <1>5. QED
        BY <1>2, <1>3, <1>4

-----------------------------------------------------------------------------
(* Every step of the acquisition *)

\* While the resolver is at work for a series there is a result left it works for.
LeftToResolve == SeriesAt("resolve") /\ ~ResolverAt("idle") => series.left # << >>

SeriesReportInv == QueueInv /\ SeriesData(series) /\ LeftToResolve

LEMMA SeriesReportInitially == AcquisitionInit => SeriesReportInv
    <1>1. AcquisitionInit => series = NewSeries
        BY DEF AcquisitionInit
    <1>2. SeriesData(NewSeries)
        BY NewGathers DEF SeriesData
    <1>3. AcquisitionInit => LeftToResolve
        BY <1>1, NewGathers DEF LeftToResolve, SeriesAt
    <1>4. QED
        BY <1>1, <1>2, <1>3, QueueInitially DEF SeriesReportInv

LEMMA SeriesStepData ==
    ASSUME SeriesReportInv, SeriesStep
    PROVE  SeriesData(series') /\ LeftToResolve'
    <1>0. /\ SeriesInv(series) /\ SeriesData(series) /\ SeriesShape(series) /\ SearchAt("off")
          /\ OneCommand /\ FetchInv
        BY DEF SeriesReportInv, QueueInv, HonestInv, SeriesInv, SeriesStep
    <1>1. ~SeriesAt("resolve") => ResolverAt("idle")
        BY <1>0 DEF OneCommand, SearchAt
    <1>2. CASE SearchSeries /\ UNCHANGED resolver
        <2>1. ~SeriesAt("resolve")
            BY <1>2 DEF SearchSeries, BeginSeries, AskForSeries, SeriesDiscovered, SeriesCapabilities,
                        SeriesFound, SeriesQueryFails, SeriesAborts, RankSeries, SeriesAt
        <2>2. LeftToResolve'
            BY <1>1, <1>2, <2>1 DEF LeftToResolve, ResolverAt
        <2>3. CASE AskForSeries
            BY <1>0, <2>2, <2>3 DEF AskForSeries
        <2>4. CASE SeriesAborts
            BY <2>2, <2>4, SeriesEndsData DEF SeriesAborts
        <2>5. QED
            BY <1>0, <1>2, <2>2, <2>3, <2>4, BeginSeriesData, SeriesDiscoveredData,
               SeriesCapabilitiesData, SeriesFoundData, SeriesQueryFailsData, RankSeriesData DEF SearchSeries
    <1>3. CASE SeriesAt("resolve") /\ ResolveReference /\ UNCHANGED series
        <2>1. ~ResolverAt("idle")
            BY <1>0, <1>3, ResolverKeeps DEF ResolverAt
        <2>2. QED
            BY <1>0, <1>3, <2>1 DEF LeftToResolve, SeriesAt, SeriesReportInv
    <1>4. CASE ResolveSeries
        BY <1>0, <1>4 DEF ResolveSeries, LeftToResolve, SeriesAt
    <1>5. CASE SeriesResolved
        <2>1. series.left # << >>
            BY <1>5 DEF SeriesResolved, SeriesAt, ResolverAt, SeriesReportInv, LeftToResolve
        <2>2. resolver'.pc = "idle"
            BY <1>0, <1>5, TakenUpKeeps DEF SeriesResolved
        <2>3. QED
            BY <1>0, <1>5, <2>1, <2>2, SeriesResolvedData DEF LeftToResolve, ResolverAt
    <1>6. CASE SeriesReport
        BY <1>0, <1>6, SeriesReportData DEF SeriesReport, LeftToResolve, ResolverAt
    <1>7. QED
        BY <1>2, <1>3, <1>4, <1>5, <1>6 DEF SeriesStep

LEMMA SeriesReportStep == SeriesReportInv /\ [AcquisitionNext]_acquisitionVars => SeriesReportInv'
    <1> SUFFICES ASSUME SeriesReportInv, [AcquisitionNext]_acquisitionVars
                 PROVE  SeriesReportInv'
        OBVIOUS
    <1>0. QueueInv'
        BY QueueStep DEF SeriesReportInv
    <1>1. CASE SeriesStep
        BY <1>0, <1>1, SeriesStepData DEF SeriesReportInv
    <1>2. CASE UNCHANGED <<series, resolver>>
        BY <1>0, <1>2 DEF SeriesReportInv, LeftToResolve, SeriesAt, ResolverAt
    <1>3. CASE UNCHANGED series /\ ~SearchAt("off")
        <2>1. SeriesAt("off")
            BY <1>3 DEF SeriesReportInv, QueueInv, OneCommand
        <2>2. LeftToResolve'
            BY <1>3, <2>1 DEF LeftToResolve, SeriesAt
        <2>3. QED
            BY <1>0, <1>3, <2>2 DEF SeriesReportInv
    <1>4. CASE SeriesProbeBegins
        <2>1. series' = NewSeries
            BY <1>4 DEF SeriesProbeBegins
        <2>2. SeriesData(series') /\ LeftToResolve'
            BY <2>1, NewGathers DEF SeriesData, LeftToResolve, SeriesAt
        <2>3. QED
            BY <1>0, <2>2 DEF SeriesReportInv
    <1>5. CASE HandoffStep \/ ProbeBegins
        <2>1. UNCHANGED series
            BY <1>5 DEF HandoffStep, ProbeBegins
        <2>2. ~SearchAt("off")
            BY <1>5, HandoffPlaces DEF SeriesReportInv, QueueInv, HandedOnInv, OneCommand, HandoffStep,
                ProbeBegins, BeginMovieProbe, HandoffAt, SearchAt
        <2>3. QED
            BY <1>3, <2>1, <2>2
    <1>6. QED
        BY <1>1, <1>2, <1>4, <1>5
        DEF AcquisitionNext, SearchStep, RetryStep, ProbeRunsAgain, ProbeMoves, frontVars, acquisitionVars

\* A series candidate holds the whole series as far as the title that stands for its
\* occurrences and the categories of all of them tell, and has a torrent:
\* classify_release accepts nothing else, what deduplicating adds to the occurrence that
\* stands for the others takes nothing away, and only what came to a magnet is kept.
THEOREM CandidatesCover == AcquisitionSpec => []AcceptedCovers
    <1>1. SeriesReportInv => AcceptedCovers
        <2> SUFFICES ASSUME SeriesReportInv, SeriesAt("end"), NEW c \in Range(series.candidates)
                     PROVE  /\ c.release.hash \in Infohashes
                            /\ \A s \in Range(c.sources) : s.categories \cap {"anime", "other"} = {}
                            /\ c.release.match = "leads" /\ ~c.release.fansub /\ c.release.episodes = 0
                            /\ \/ series.expected \subseteq UNION c.release.seasons
                               \/ /\ c.release.seasons = {}
                                  /\ c.release.strong \/ c.release.all \in {0, Cardinality(series.expected)}
            BY DEF AcceptedCovers
        <2>1. series.candidates # << >>
            BY Nothing
        <2>2. Carried(series)
            BY <2>1 DEF SeriesReportInv, SeriesData, SeriesAt
        <2>3. QED
            BY <2>2 DEF Carried, Covers
    <1>2. QED
        BY <1>1, SeriesReportInitially, SeriesReportStep, PTL DEF AcquisitionSpec

\* A release that is acceptable on its own is a source of a candidate, or of one that came
\* to no magnet: the occurrence that stands for the others is the best of them
\* (_representative_key), so no worse duplicate stands in its way, unless one of them is
\* listed as something else, or shares its number with another release.
THEOREM AcceptableAreCarried == AcquisitionSpec => []NothingAcceptableLost
    <1>1. SeriesReportInv => NothingAcceptableLost
        <2> SUFFICES ASSUME SeriesReportInv, SeriesAt("end"), series.exit = 0, NEW k \in DOMAIN series.raw,
                            Accepted(series.raw[k], series.expected),
                            \A s \in {s \in Range(series.raw) : SeriesKey(s) = SeriesKey(series.raw[k])} :
                               s.categories \cap {"anime", "other"} = {},
                            IsInjective([j \in DOMAIN series.raw |-> series.raw[j].sequence])
                     PROVE  \E c \in Range(series.candidates) \cup Range(series.refused) :
                               series.raw[k] \in Range(c.sources)
            BY DEF NothingAcceptableLost
        <2>1. Carried(series) /\ series.left = << >> /\ Range(series.left) = {}
            BY Nothing DEF SeriesReportInv, SeriesData, SeriesAt
        <2>2. series.raw \in Seq(SeriesReleases)
            BY <2>1 DEF Carried
        <2>3. k \in 1..Len(series.raw)
            BY <2>2
        <2>4. \A s \in Range(series.raw) :
                 SeriesKey(s) = SeriesKey(series.raw[k]) => s.categories \cap {"anime", "other"} = {}
            OBVIOUS
        <2>5. \E d \in Provisional(series.raw, series.expected) : series.raw[k] \in Range(d.sources)
            BY <2>2, <2>3, <2>4, AcceptableIsProvisional
        <2>6. QED
            BY <2>1, <2>5 DEF Carried
    <1>2. QED
        BY <1>1, SeriesReportInitially, SeriesReportStep, PTL DEF AcquisitionSpec

-----------------------------------------------------------------------------
(* The types of the resolver *)

\* A reference that is being fetched is the first of those that are left.
ResolverInv ==
    /\ resolver \in Resolver
    /\ ResolverAt("fetch") => resolver.at \in References /\ resolver.left # << >>

Caches == UNION {[names -> Outcomes] : names \in SUBSET References}

LEMMA ResolverIs ==
    /\ Resolver = [pc : {"idle", "reference", "fetch", "done"}, left : Seq(References),
                   at : References \cup {None}, visited : SUBSET References, private : BOOLEAN,
                   cache : Caches, outcome : Outcomes \cup {None}, fetched : SUBSET References]
    /\ Infohashes \subseteq Outcomes /\ "failed" \in Outcomes /\ "private" \in Outcomes
    BY DEF Resolver, Caches, Outcomes, Failures

LEMMA NewResolverIs ==
    /\ NewResolver \in Resolver /\ NewResolver.pc = "idle"
    <1>1. << >> \in [{} -> Outcomes] /\ << >> \in Seq(References) /\ {} \in SUBSET References
        OBVIOUS
    <1>2. << >> \in Caches
        BY <1>1 DEF Caches
    <1> HIDE DEF Caches
    <1>3. QED
        BY <1>1, <1>2, ResolverIs DEF NewResolver

LEMMA NewResolverTypes ==
    ASSUME resolver' = NewResolver
    PROVE  ResolverInv'
    BY NewResolverIs DEF ResolverInv, ResolverAt

\* What a reference came to, beside what others did.
LEMMA RememberedIs ==
    ASSUME ResolverInv, ResolverAt("fetch"), NEW outcome \in Outcomes
    PROVE  Settled(outcome) \in Resolver /\ Settled(outcome).pc = "reference"
    <1> DEFINE r == Head(resolver.left)
               c == Remembered(outcome)
               cache == resolver.cache
    <1>1. resolver.left \in Seq(References) /\ resolver.left # << >> /\ cache \in Caches
        BY ResolverIs DEF ResolverInv
    <1>2. r \in References
        BY <1>1
    <1>3. PICK names \in SUBSET References : cache \in [names -> Outcomes]
        BY <1>1 DEF Caches
    <1>4. c = [k \in DOMAIN cache \cup {r} |-> IF k = r THEN outcome ELSE cache[k]]
        BY DEF Remembered
    <1> HIDE DEF cache, r, c
    <1>5. c \in [names \cup {r} -> Outcomes] /\ names \cup {r} \in SUBSET References
        BY <1>2, <1>3, <1>4
    <1>6. c \in Caches
        BY <1>5 DEF Caches
    <1> HIDE DEF Caches
    <1>7. Settled(outcome) = [resolver EXCEPT !.cache = c, !.at = None, !.visited = {}, !.pc = "reference"]
        BY DEF Settled, c
    <1>8. QED
        BY <1>6, <1>7, ResolverIs DEF ResolverInv

LEMMA SettledTypes ==
    ASSUME ResolverInv, ResolverAt("fetch"), NEW outcome \in Outcomes, resolver' = Settled(outcome)
    PROVE  ResolverInv'
    BY RememberedIs DEF ResolverInv, ResolverAt

LEMMA NextTypes ==
    ASSUME ResolverInv, NextReference
    PROVE  ResolverInv'
    <1> USE ResolverIs
    <1> HIDE DEF Caches
    <1>0. resolver \in Resolver /\ resolver.pc = "reference" /\ resolver.left \in Seq(References)
          /\ resolver.private \in BOOLEAN /\ resolver.cache \in Caches
        BY DEF ResolverInv, NextReference, ResolverAt
    <1>1. CASE resolver.left = << >>
        <2> DEFINE outcome == IF resolver.private THEN "private" ELSE "failed"
        <2>1. resolver' = [resolver EXCEPT !.pc = "done", !.outcome = outcome] /\ outcome \in Outcomes
            BY <1>1 DEF NextReference
        <2> HIDE DEF outcome
        <2>2. QED
            BY <1>0, <2>1 DEF ResolverInv, ResolverAt
    <1>2. CASE resolver.left # << >>
        <2> DEFINE r == Head(resolver.left)
                   remembered == resolver.cache[r]
                   rest == Tail(resolver.left)
                   private == resolver.private \/ remembered = "private"
        <2>1. r \in References /\ rest \in Seq(References) /\ private \in BOOLEAN
            BY <1>0, <1>2
        <2>2. CASE r \notin DOMAIN resolver.cache
            <3>1. resolver' = [resolver EXCEPT !.pc = "fetch", !.at = r, !.visited = {},
                                               !.fetched = resolver.fetched \cup {r}]
                BY <1>0, <1>2, <2>2 DEF NextReference
            <3> HIDE DEF r
            <3>2. QED
                BY <1>0, <1>2, <2>1, <3>1 DEF ResolverInv, ResolverAt
        <2>3. CASE r \in DOMAIN resolver.cache /\ remembered \in Infohashes
            <3>1. resolver' = [resolver EXCEPT !.pc = "done", !.outcome = remembered]
                BY <1>2, <2>3 DEF NextReference
            <3> HIDE DEF remembered
            <3>2. QED
                BY <1>0, <2>3, <3>1 DEF ResolverInv, ResolverAt
        <2>4. CASE r \in DOMAIN resolver.cache /\ remembered \notin Infohashes
            <3>1. resolver' = [resolver EXCEPT !.left = rest, !.private = private]
                BY <1>0, <1>2, <2>4 DEF NextReference
            <3> HIDE DEF rest, private
            <3>2. QED
                BY <1>0, <2>1, <3>1 DEF ResolverInv, ResolverAt
        <2>5. QED
            BY <2>2, <2>3, <2>4
    <1>3. QED
        BY <1>1, <1>2

LEMMA FetchTypes ==
    ASSUME ResolverInv, FetchReference \/ BodyArrives \/ RedirectArrives \/ FetchFails
    PROVE  ResolverInv'
    <1> USE ResolverIs
    <1> HIDE DEF Caches
    <1>0. ResolverAt("fetch")
        BY DEF FetchReference, BodyArrives, RedirectArrives, FetchFails
    <1>1. CASE \E outcome \in Outcomes : resolver' = Settled(outcome)
        BY <1>0, <1>1, SettledTypes
    <1>2. CASE FetchReference
        BY <1>0, <1>1, <1>2 DEF FetchReference, ResolverInv, ResolverAt
    <1>3. CASE BodyArrives
        BY <1>1, <1>3, BodyOutcome DEF BodyArrives
    <1>4. CASE RedirectArrives
        <2>1. CASE \E to \in References : resolver' = [resolver EXCEPT !.at = to]
            BY <1>0, <2>1 DEF ResolverInv, ResolverAt
        <2>2. QED
            BY <1>1, <1>4, <2>1 DEF RedirectArrives
    <1>5. CASE FetchFails
        BY <1>1, <1>5 DEF FetchFails
    <1>6. QED
        BY <1>2, <1>3, <1>4, <1>5

\* What is listed names a torrent, and what is left are download references.
LEMMA ResolveTypes ==
    ASSUME ResolverInv, NEW magnets, NEW infohashes, NEW references,
           Listing(magnets), Listing(infohashes), Listing(references),
           ResolveCandidate(magnets, infohashes, references)
    PROVE  ResolverInv'
    <1> USE ResolverIs
    <1> HIDE DEF Caches
    <1> DEFINE listed == magnets \o infohashes
               hash == listed[Min(Usable(listed))]
               chosen == Kept(references, Fetchable(references))
    <1>1. Listing(listed)
        BY JoinLists
    <1>2. resolver \in Resolver
        BY DEF ResolverInv
    <1> HIDE DEF listed
    <1>3. CASE Usable(listed) # {}
        <2>1. Usable(listed) \subseteq Nat /\ \A k \in Usable(listed) : listed[k] \in Infohashes
            BY <1>1 DEF Usable, Listing
        <2>2. \E k \in Usable(listed) : \A l \in Usable(listed) : k <= l
            BY <1>3, <2>1, LeastNumber
        <2>3. hash \in Infohashes
            BY <2>1, <2>2 DEF Min
        <2>4. resolver' = [resolver EXCEPT !.pc = "done", !.outcome = hash]
            BY <1>3 DEF ResolveCandidate, listed
        <2> HIDE DEF hash
        <2>5. QED
            BY <1>2, <2>3, <2>4 DEF ResolverInv, ResolverAt
    <1>4. CASE Usable(listed) = {}
        <2> DEFINE V == Range(references)
                   places == Fetchable(references)
        <2>1. references \in Seq(V) /\ places \in SUBSET (1..Len(references))
            BY DEF Listing, Fetchable
        <2>2. /\ chosen \in Seq(V)
              /\ \A n \in 1..Len(chosen) : \E k \in places : chosen[n] = references[k]
            BY <2>1, KeptIs
        <2> HIDE DEF chosen
        <2>3. \A n \in 1..Len(chosen) : chosen[n] \in References
            BY <2>2 DEF Fetchable
        <2>4. chosen \in Seq(References)
            <3>1. Len(chosen) \in Nat /\ chosen = [n \in 1..Len(chosen) |-> chosen[n]]
                BY <2>2
            <3>2. chosen \in [1..Len(chosen) -> References]
                BY <2>3, <3>1
            <3>3. QED
                BY <3>1, <3>2
        <2>5. resolver' = [resolver EXCEPT !.pc = "reference", !.private = FALSE, !.left = chosen]
            BY <1>4 DEF ResolveCandidate, listed, chosen
        <2>6. QED
            BY <1>2, <2>4, <2>5 DEF ResolverInv, ResolverAt
    <1>5. QED
        BY <1>3, <1>4

LEMMA TakenUpTypes ==
    ASSUME ResolverInv, resolver' = [resolver EXCEPT !.pc = "idle", !.outcome = None, !.left = << >>]
    PROVE  ResolverInv'
    <1> USE ResolverIs
    <1> HIDE DEF Caches
    <1>1. << >> \in Seq(References) /\ resolver \in Resolver
        BY DEF ResolverInv
    <1>2. QED
        BY <1>1 DEF ResolverInv, ResolverAt

-----------------------------------------------------------------------------
(* The addresses of a result *)

Linked(c) == Listing(c.urls)

AllLinked(groups) == \A k \in DOMAIN groups : \A c \in Range(groups[k]) : Linked(c)

\* A field of each of some releases.
LEMMA FieldLists ==
    ASSUME NEW none, NEW values, Listing(values)
    PROVE  Listing(Present(values, none))
    BY PresentIs, SequenceLists DEF Listing

LEMMA CandidateLinked ==
    ASSUME NEW sources \in Seq(MovieReleases)
    PROVE  Linked(Candidate(sources))
    <1> DEFINE urls == [k \in 1..Len(sources) |-> sources[k].url]
    <1>1. Len(sources) \in Nat
        OBVIOUS
    <1>2. Candidate(sources).urls = Present(urls, None)
        BY DEF Candidate
    <1>3. urls = [k \in 1..Len(sources) |-> urls[k]]
        OBVIOUS
    <1> HIDE DEF urls
    <1>4. Listing(urls)
        BY <1>1, <1>3, FunctionLists
    <1>5. QED
        BY <1>2, <1>4, FieldLists DEF Linked

LEMMA ResultsLinked ==
    ASSUME NEW found \in Seq(MovieReleases)
    PROVE  \A c \in Range(MovieResults(found)) : Linked(c)
    <1> DEFINE S == SeededOf(found)
               t == Ranked(S)
               results == MovieResults(found)
    <1>1. t \in Seq(S) /\ ResultLimit \in Nat
        BY SeededAre, SearchAssumption
    <1>2. results = FirstN(t, ResultLimit) /\ Listing(results)
        BY ResultsList DEF MovieResults, SeededOf
    <1> HIDE DEF t, S, results
    <1>3. \A k \in 1..Len(results) : k \in 1..Len(t) /\ results[k] = t[k]
        BY <1>1, <1>2, FirstNIs
    <1>4. \A k \in 1..Len(t) : t[k] \in S
        BY <1>1
    <1>5. DOMAIN results = 1..Len(results)
        BY <1>2 DEF Listing
    <1>6. Range(results) \subseteq Candidates(found)
        BY <1>3, <1>4, <1>5 DEF Range, S, SeededOf
    <1>7. \A c \in Candidates(found) : Linked(c)
        BY CandidatesAre, CandidateLinked
    <1>8. QED
        BY <1>6, <1>7 DEF results

\* What a step of the movie search does to the results.
LEMMA Grown ==
    ASSUME SearchInv(search), SearchMovies
    PROVE  \/ search'.groups = search.groups
           \/ search'.groups = << >>
           \/ SearchAt("rank") /\ search'.groups = Append(search.groups, MovieResults(search.raw))
    <1>0. SearchShape(search)
        BY DEF SearchInv
    <1>1. ASSUME NEW exit
          PROVE  \A s : SearchShape(SearchEnds(s, exit)) /\ SearchEnds(s, exit).groups = << >>
        <2> TAKE s
        <2> DEFINE t == SearchEnds(s, exit)
        <2>1. t = [NewSearch EXCEPT !.pc = "end", !.exit = exit, !.heard = s.heard,
                                    !.told = s.told, !.warned = s.warned, !.rejected = s.rejected]
            BY DEF SearchEnds
        <2>2. SearchShape(NewSearch) /\ NewSearch.groups = << >>
            BY DEF SearchShape, NewSearch
        <2> HIDE DEF t
        <2>3. SearchShape(t) /\ t.groups = << >>
            BY <2>1, <2>2 DEF SearchShape
        <2>4. QED
            BY <2>3 DEF t
    <1>2. ASSUME NEW s, SearchShape(s)
          PROVE  /\ Chosen(s).groups \in {s.groups, << >>} /\ Queried(s).groups = s.groups
                 /\ Asked(s).groups \in {s.groups, << >>}
        <2>1. \A t : t = SearchEnds(s, 4) => t.groups = << >>
            BY <1>1
        <2>2. Chosen(s).groups \in {s.groups, << >>}
            BY <1>2, <2>1 DEF Chosen, SearchShape
        <2>3. Queried(s).groups = s.groups
            BY <1>2 DEF Queried, SearchShape
        <2>4. Asked(s).groups \in {s.groups, << >>}
            BY <1>2, <2>2 DEF Asked, SearchShape
        <2>5. QED
            BY <2>2, <2>3, <2>4
    <1>3. CASE BeginSearch
        BY <1>3 DEF BeginSearch, NewSearch
    <1>4. CASE AskJackett
        BY <1>4 DEF AskJackett
    <1>5. CASE IndexersDiscovered
        <2>1. PICK told, warned, indexers :
                 search' = Chosen([search EXCEPT !.told = told, !.warned = warned, !.indexers = indexers])
            BY <1>5 DEF IndexersDiscovered
        <2> DEFINE s == [search EXCEPT !.told = told, !.warned = warned, !.indexers = indexers]
        <2>2. search' = Chosen(s) /\ s = [search EXCEPT !.told = told, !.warned = warned, !.indexers = indexers]
            BY <2>1
        <2> HIDE DEF s
        <2>3. SearchShape(s) /\ s.groups = search.groups
            BY <1>0, <2>2 DEF SearchShape
        <2>4. QED
            BY <1>2, <2>2, <2>3
    <1>6. CASE CapabilitiesKnown \/ CapabilitiesFail
        <2> DEFINE indexer == Indexers[search.asked]
                   told == [search EXCEPT !.told = @ \cup {indexer}]
                   more == [told EXCEPT !.indexers = Append(@, indexer)]
                   warned == [told EXCEPT !.warned = @ \cup {indexer}]
                   asked == search.told \cup {indexer}
                   missed == search.warned \cup {indexer}
                   failed == [search EXCEPT !.told = asked, !.warned = missed]
        <2>1. search' = Asked(more) \/ search' = Asked(warned) \/ search' = Asked(failed)
            BY <1>0, <1>6 DEF CapabilitiesKnown, CapabilitiesFail, SearchShape
        <2> HIDE DEF indexer, asked, missed
        <2>2. SearchShape(told) /\ told.groups = search.groups
            BY <1>0 DEF SearchShape
        <2>3. failed = [search EXCEPT !.told = asked, !.warned = missed]
            OBVIOUS
        <2> HIDE DEF failed
        <2>4. SearchShape(failed) /\ failed.groups = search.groups
            BY <1>0, <2>3 DEF SearchShape
        <2> HIDE DEF told
        <2>5. SearchShape(more) /\ more.groups = told.groups
            BY SMTT(30), <2>2 DEF SearchShape
        <2>6. SearchShape(warned) /\ warned.groups = told.groups
            BY <2>2 DEF SearchShape
        <2> HIDE DEF more, warned
        <2>7. QED
            BY <1>2, <2>1, <2>2, <2>4, <2>5, <2>6
    <1>7. CASE MovieFound
        <2>1. PICK raw, succeeded, heard, offered :
                 search' = Queried([search EXCEPT !.raw = raw, !.succeeded = succeeded, !.heard = heard,
                                                  !.offered = offered])
            <3>1. PICK items \in Offers[Query] :
                     search' = Queried([search EXCEPT !.raw = @ \o Parsed(items, Len(search.raw)),
                                                      !.succeeded = @ \cup {Query[1]},
                                                      !.heard = @ \cup {Query},
                                                      !.offered = @ \cup Range(Parsed(items, Len(search.raw)))])
                BY <1>7 DEF MovieFound
            <3> DEFINE found == Parsed(items, Len(search.raw))
                       raw == search.raw \o found
                       succeeded == search.succeeded \cup {Query[1]}
                       heard == search.heard \cup {Query}
                       offered == search.offered \cup Range(found)
            <3>2. search' = Queried([search EXCEPT !.raw = raw, !.succeeded = succeeded, !.heard = heard,
                                                   !.offered = offered])
                BY <1>0, <3>1 DEF SearchShape
            <3> HIDE DEF raw, succeeded, heard, offered
            <3>3. QED
                BY <3>2
        <2> DEFINE s == [search EXCEPT !.raw = raw, !.succeeded = succeeded, !.heard = heard, !.offered = offered]
        <2>2. search' = Queried(s) /\ s = [search EXCEPT !.raw = raw, !.succeeded = succeeded,
                                                         !.heard = heard, !.offered = offered]
            BY <2>1
        <2> HIDE DEF s
        <2>3. SearchShape(s) /\ s.groups = search.groups
            BY <1>0, <2>2 DEF SearchShape
        <2>4. QED
            BY <1>2, <2>3, <2>2
    <1>8. CASE MovieQueryFails
        <2> DEFINE s == [search EXCEPT !.warned = @ \cup {Query}]
        <2>1. search' = Queried(s)
            BY <1>8 DEF MovieQueryFails
        <2>2. s = [search EXCEPT !.warned = search.warned \cup {Query}]
            BY <1>0 DEF SearchShape
        <2> HIDE DEF s
        <2>3. SearchShape(s) /\ s.groups = search.groups
            BY <1>0, <2>2 DEF SearchShape
        <2>4. QED
            BY <1>2, <2>1, <2>3
    <1>9. CASE SearchAborts
        BY <1>1, <1>9 DEF SearchAborts
    <1>10. CASE RankMovie
        <2> DEFINE groups == Append(search.groups, MovieResults(search.raw))
        <2>1. \/ search' = [[search EXCEPT !.groups = groups, !.raw = << >>, !.offered = {}, !.asked = 1]
                                EXCEPT !.pc = "report"]
              \/ search' = [[search EXCEPT !.groups = groups, !.raw = << >>, !.offered = {}, !.asked = 1]
                                EXCEPT !.pc = "query", !.movie = @ + 1]
            BY <1>0, <1>10 DEF RankMovie, SearchShape
        <2>2. search'.groups = groups
            <3> HIDE DEF groups
            <3>1. QED
                BY <1>0, <2>1 DEF SearchShape
        <2>3. QED
            BY <1>10, <2>2 DEF RankMovie
    <1>11. CASE Report
        <2>1. CASE search' = SearchEnds(search, 4) \/ search' = SearchEnds(search, 5)
            BY <1>1, <2>1
        <2>2. CASE search' = [SearchEnds(search, 0) EXCEPT !.groups = search.groups]
            BY <1>1, <2>2 DEF SearchShape
        <2>3. QED
            BY <1>11, <2>1, <2>2 DEF Report
    <1>12. QED
        BY <1>3, <1>4, <1>5, <1>6, <1>7, <1>8, <1>9, <1>10, <1>11 DEF SearchMovies

LEMMA AllLinkedGrows ==
    ASSUME NEW groups, Lists(groups), AllLinked(groups), NEW results, \A c \in Range(results) : Linked(c)
    PROVE  AllLinked(Append(groups, results))
    <1> DEFINE all == Append(groups, results)
    <1>1. \A V : \A q \in Seq(V) : \A x : /\ Len(q) \in Nat /\ DOMAIN q = 1..Len(q)
                                        /\ DOMAIN Append(q, x) = 1..(Len(q) + 1)
                                        /\ \A k \in 1..Len(q) : Append(q, x)[k] = q[k]
                                        /\ Append(q, x)[Len(q) + 1] = x
        OBVIOUS
    <1>2. /\ Len(groups) \in Nat /\ DOMAIN groups = 1..Len(groups) /\ DOMAIN all = 1..(Len(groups) + 1)
          /\ \A k \in 1..Len(groups) : all[k] = groups[k]
          /\ all[Len(groups) + 1] = results
        BY <1>1 DEF Lists
    <1> HIDE DEF all
    <1>3. \A k \in 1..(Len(groups) + 1) : k \in 1..Len(groups) \/ k = Len(groups) + 1
        BY <1>2
    <1>4. AllLinked(all)
        BY <1>2, <1>3 DEF AllLinked
    <1>5. QED
        BY <1>4 DEF all

\* A hand-off goes through results that are linked.
LinksInv ==
    /\ AllLinked(search.groups)
    /\ HandoffAt("resolve") =>
          Listing(handoff.candidates) /\ \A c \in Range(handoff.candidates) : Linked(c)

LEMMA BeginLinks ==
    ASSUME SearchInv(search), LinksInv, BeginMovieProbe
    PROVE  LinksInv'
    <1>1. Lists(search.groups) /\ AllLinked(search.groups)
        BY DEF BeginMovieProbe, SearchAt, SearchInv, LinksInv
    <1>2. PICK rank \in 0..Len(search.groups) :
             handoff' = [NewHandoff EXCEPT !.pc = "resolve",
                                           !.candidates = IF rank = 0 THEN FlattenSeq(search.groups)
                                                          ELSE search.groups[rank]]
        BY DEF BeginMovieProbe
    <1> DEFINE candidates == IF rank = 0 THEN FlattenSeq(search.groups) ELSE search.groups[rank]
               V == UNION {Range(search.groups[k]) : k \in DOMAIN search.groups}
    <1>3. search.groups \in Seq(Seq(V))
        BY <1>1 DEF Lists
    <1>4. \A c \in V : Linked(c)
        BY <1>1 DEF AllLinked
    <1> HIDE DEF V
    <1>5. Len(search.groups) \in Nat /\ \A k \in 1..Len(search.groups) : search.groups[k] \in Seq(V)
        BY <1>3
    <1>6. candidates \in Seq(V)
        <2>1. CASE rank = 0
            BY <1>3, <2>1, FlattenLists
        <2>2. CASE rank # 0
            <3>1. rank \in 1..Len(search.groups)
                BY <1>5, <2>2
            <3>2. QED
                BY <1>5, <2>2, <3>1
        <2>3. QED
            BY <2>1, <2>2
    <1>7. handoff' = [NewHandoff EXCEPT !.pc = "resolve", !.candidates = candidates]
        BY <1>2
    <1> HIDE DEF candidates
    <1>8. Listing(candidates) /\ \A c \in Range(candidates) : Linked(c)
        BY <1>4, <1>6, SequenceLists
    <1>9. handoff'.candidates = candidates
        BY <1>7 DEF NewHandoff
    <1>10. search'.groups = << >> /\ DOMAIN << >> = {}
        BY DEF BeginMovieProbe, NewSearch
    <1>11. QED
        BY <1>8, <1>9, <1>10 DEF LinksInv, AllLinked

\* The parts of a hand-off leave its results alone.
LEMMA SameCandidates ==
    ASSUME HandoffShape(handoff), HandoffSteps
    PROVE  handoff'.candidates = handoff.candidates
    <1>1. ASSUME NEW why, handoff' = Skipped(why)
          PROVE  handoff'.candidates = handoff.candidates
        BY <1>1 DEF Skipped, HandoffShape
    <1>2. ASSUME NEW hash, handoff' = Queued(hash)
          PROVE  handoff'.candidates = handoff.candidates
        <2> DEFINE x == [hash |-> hash, of |-> handoff.next]
        <2>1. CASE handoff' = [handoff EXCEPT !.next = @ + 1, !.queue = Append(@, x)]
            <3> HIDE DEF x
            <3>1. QED
                BY <2>1 DEF HandoffShape
        <2>2. QED
            BY <1>1, <1>2, <2>1 DEF Queued
    <1>3. CASE EndHandoff
        <2>1. PICK place \in {"end", "queued"} : handoff' = [handoff EXCEPT !.pc = place]
            BY <1>3 DEF EndHandoff
        <2>2. QED
            BY <2>1 DEF HandoffShape
    <1>4. QED
        BY <1>1, <1>2, <1>3 DEF HandoffSteps, TakeCandidate, QueueCandidate

LEMMA LinksStep ==
    ASSUME QueueInv, LinksInv, [AcquisitionNext]_acquisitionVars
    PROVE  LinksInv'
    <1>0. SearchInv(search) /\ HandoffShape(handoff)
        BY DEF QueueInv, HonestInv, HandedOnInv
    <1>1. DOMAIN << >> = {}
        OBVIOUS
    <1>2. CASE UNCHANGED <<search, handoff>>
        BY <1>2 DEF LinksInv, HandoffAt
    <1>3. CASE SearchStep
        <2>1. CASE SearchAt("rank") /\ search'.groups = Append(search.groups, MovieResults(search.raw))
            <3>1. Gathered(search)
                BY <1>0, <2>1 DEF SearchInv, SearchAt
            <3>2. AllLinked(search'.groups)
                BY <2>1, <3>1, ResultsLinked, AllLinkedGrows DEF Gathered, LinksInv
            <3>3. QED
                BY <1>3, <3>2 DEF SearchStep, LinksInv, HandoffAt
        <2>2. QED
            BY <1>0, <1>3, <1>1, <2>1, Grown DEF SearchStep, LinksInv, HandoffAt, AllLinked
    <1>4. CASE HandoffStep
        <2>1. CASE BeginMovieProbe
            BY <1>0, <2>1, BeginLinks
        <2>2. CASE HandoffSteps /\ UNCHANGED <<search, series, probeVars>>
            BY <1>0, <2>2, HandoffPlaces, SameCandidates DEF LinksInv, HandoffAt
        <2>3. QED
            BY <1>2, <1>4, <2>1, <2>2 DEF HandoffStep
    <1>5. CASE ProbeBegins
        BY <1>5 DEF ProbeBegins, NewHandoff, LinksInv, HandoffAt
    <1>6. CASE SeriesProbeBegins
        <2>1. search'.groups = << >>
            BY <1>6 DEF SeriesProbeBegins, NewSearch
        <2>2. handoff'.pc = "probing"
            BY <1>6 DEF SeriesProbeBegins, NewHandoff
        <2>3. QED
            BY <1>1, <2>1, <2>2 DEF LinksInv, HandoffAt, AllLinked
    <1>7. QED
        BY <1>2, <1>3, <1>4, <1>5, <1>6
        DEF AcquisitionNext, SeriesStep, RetryStep, ProbeRunsAgain, ProbeMoves, frontVars, acquisitionVars

\* The occurrences of a result that is left to resolve.
LEMMA OccurrencesAre ==
    ASSUME NEW c, c.release \in SeriesReleases, c.sources \in Seq(SeriesReleases)
    PROVE  Occurrences(c) \in Seq(SeriesReleases)
    <1> DEFINE all == <<c.release>> \o c.sources
               first == {k \in DOMAIN all : \A j \in 1..(k - 1) : all[j].sequence # all[k].sequence}
    <1>1. all \in Seq(SeriesReleases)
        OBVIOUS
    <1>2. Occurrences(c) = Kept(all, first)
        BY DEF Occurrences
    <1>3. first \in SUBSET DOMAIN all
        OBVIOUS
    <1> HIDE DEF first, all
    <1>4. first \in SUBSET (1..Len(all))
        BY <1>1, <1>3
    <1>5. QED
        BY <1>1, <1>2, <1>4, KeptIs

LEMMA ResolverTypeStep ==
    ASSUME SeriesReportInv, LinksInv, ResolverInv, [AcquisitionNext]_acquisitionVars
    PROVE  ResolverInv'
    <1>1. CASE UNCHANGED resolver
        BY <1>1 DEF ResolverInv, ResolverAt
    <1>2. CASE resolver' = NewResolver
        BY <1>2, NewResolverTypes
    <1>3. CASE ResolveReference
        BY <1>3, NextTypes, FetchTypes DEF ResolveReference
    <1>4. CASE ResolveSeries
        <2> DEFINE c == Head(series.left)
                   all == Occurrences(c)
                   magnets == [k \in DOMAIN all |-> all[k].magnet]
                   hashes == [k \in DOMAIN all |-> all[k].hash]
                   urls == [k \in DOMAIN all |-> all[k].url]
        <2>1. series.pc = "resolve" /\ series.left # << >> /\ Carried(series)
            BY <1>4 DEF ResolveSeries, SeriesAt, SeriesReportInv, SeriesData
        <2>2. c \in Provisional(series.raw, series.expected)
            BY <2>1, HeadAndTail DEF Carried
        <2>3. Covers(c, series.expected)
            BY <2>1, <2>2, ProvisionalIs DEF Carried
        <2> HIDE DEF c
        <2>4. all \in Seq(SeriesReleases)
            BY <2>3, OccurrencesAre DEF Covers
        <2> HIDE DEF all
        <2>5. Len(all) \in Nat /\ DOMAIN all = 1..Len(all)
            BY <2>4
        <2>6. /\ magnets = [k \in 1..Len(all) |-> magnets[k]] /\ hashes = [k \in 1..Len(all) |-> hashes[k]]
              /\ urls = [k \in 1..Len(all) |-> urls[k]]
            BY <2>5
        <2>7. ResolveCandidate(magnets, hashes, Present(urls, None))
            BY <1>4 DEF ResolveSeries, all, c
        <2> HIDE DEF magnets, hashes, urls
        <2>8. Listing(magnets) /\ Listing(hashes) /\ Listing(Present(urls, None))
            BY <2>5, <2>6, FunctionLists, FieldLists
        <2>9. QED
            BY <2>7, <2>8, ResolveTypes
    <1>5. CASE TakeCandidate
        <2>1. CASE ResolveCandidate(<<Taken.magnet>>, <<Taken.hash>>, Taken.urls)
            <3>1. HandoffAt("resolve") /\ handoff.next <= Len(handoff.candidates)
                BY <1>5 DEF TakeCandidate
            <3>2. Handled(handoff)
                BY <3>1 DEF SeriesReportInv, QueueInv, HandedOnInv, HandoffAt
            <3>3. Listing(handoff.candidates) /\ handoff.next \in 1..Len(handoff.candidates)
                BY <3>1, <3>2 DEF LinksInv, Handled
            <3>4. Taken \in Range(handoff.candidates)
                BY <3>3 DEF Taken, Listing
            <3>5. Linked(Taken)
                BY <3>1, <3>4 DEF LinksInv
            <3>6. \A x : Listing(<<x>>)
                <4>1. \A x : <<x>> \in Seq({x})
                    OBVIOUS
                <4>2. QED
                    BY <4>1, SequenceLists
            <3>7. QED
                BY <2>1, <3>5, <3>6, ResolveTypes DEF Linked
        <2>2. QED
            BY <1>1, <1>5, <2>1 DEF TakeCandidate
    <1>6. CASE SeriesResolved \/ QueueCandidate
        BY <1>6, TakenUpTypes DEF SeriesResolved, QueueCandidate
    <1>7. CASE SeriesStep
        BY <1>1, <1>3, <1>4, <1>6, <1>7 DEF SeriesStep, SeriesReport
    <1>8. CASE HandoffStep
        BY <1>1, <1>3, <1>5, <1>6, <1>8 DEF HandoffStep, HandoffSteps, BeginMovieProbe, EndHandoff
    <1>9. QED
        BY <1>1, <1>2, <1>7, <1>8 DEF AcquisitionNext, SearchStep, RetryStep, ProbeBegins, SeriesProbeBegins,
            ProbeRunsAgain, ProbeMoves, frontVars, acquisitionVars

-----------------------------------------------------------------------------
(* All types *)

RequestInv == request \in 0..Attempts

\* A request is tried again as often as it may be, whoever made it.
LEMMA RequestStep ==
    ASSUME RequestInv, [AcquisitionNext]_acquisitionVars
    PROVE  RequestInv'
    <1>0. Attempts \in Nat \ {0}
        BY JackettAssumption
    <1>1. CASE NoRequest \/ UNCHANGED request
        BY <1>1 DEF NoRequest, RequestInv
    <1>2. CASE Send \/ Retry \/ Refused \/ NotAnswered \/ Answered
        BY <1>0, <1>2 DEF Send, Retry, Refused, NotAnswered, Answered, RequestInv
    <1>3. CASE SearchStep
        <2>1. NoRequest \/ Send \/ Refused \/ NotAnswered \/ Answered
            BY <1>3 DEF SearchStep, SearchMovies, BeginSearch, AskJackett, IndexersDiscovered, CapabilitiesKnown,
                CapabilitiesFail, MovieFound, MovieQueryFails, SearchAborts, RankMovie, Report
        <2>2. QED
            BY <1>1, <1>2, <2>1
    <1>4. ResolveReference => NoRequest \/ UNCHANGED request \/ Send \/ Refused \/ NotAnswered \/ Answered
        BY DEF ResolveReference, NextReference, FetchReference, BodyArrives, RedirectArrives, FetchFails
    <1>5. CASE SeriesStep
        <2>1. SearchSeries => NoRequest \/ Send \/ Refused \/ NotAnswered \/ Answered
            BY DEF SearchSeries, BeginSeries, AskForSeries, SeriesDiscovered, SeriesCapabilities, SeriesFound,
                SeriesQueryFails, SeriesAborts, RankSeries
        <2>2. ResolveSeries \/ SeriesResolved \/ SeriesReport => NoRequest
            BY DEF ResolveSeries, SeriesResolved, SeriesReport
        <2>3. QED
            BY <1>1, <1>2, <1>4, <1>5, <2>1, <2>2 DEF SeriesStep
    <1>6. CASE HandoffStep
        <2>1. BeginMovieProbe \/ HandoffSteps => NoRequest
            BY DEF BeginMovieProbe, HandoffSteps, TakeCandidate, QueueCandidate, EndHandoff
        <2>2. QED
            BY <1>1, <1>2, <1>4, <1>6, <2>1 DEF HandoffStep
    <1>7. QED
        BY <1>1, <1>2, <1>3, <1>5, <1>6 DEF AcquisitionNext, RetryStep, ProbeBegins, SeriesProbeBegins,
            ProbeRunsAgain, ProbeMoves, frontVars, acquisitionVars

PlacesInv == handoff.pc \in {"off", "resolve", "queued", "probing", "end"}

LEMMA PlacesStep ==
    ASSUME QueueInv, PlacesInv, [AcquisitionNext]_acquisitionVars
    PROVE  PlacesInv'
    <1>1. CASE UNCHANGED handoff
        BY <1>1 DEF PlacesInv
    <1>2. CASE BeginMovieProbe
        <2>1. PICK candidates : handoff' = [NewHandoff EXCEPT !.pc = "resolve", !.candidates = candidates]
            BY <1>2 DEF BeginMovieProbe
        <2>2. QED
            BY <2>1 DEF NewHandoff, PlacesInv
    <1>3. CASE HandoffSteps
        BY <1>3, HandoffPlaces DEF QueueInv, HandedOnInv, PlacesInv
    <1>4. CASE ProbeBegins \/ SeriesProbeBegins
        BY <1>4 DEF ProbeBegins, SeriesProbeBegins, NewHandoff, PlacesInv
    <1>5. QED
        BY <1>1, <1>2, <1>3, <1>4 DEF AcquisitionNext, SearchStep, SeriesStep, HandoffStep, RetryStep,
            ProbeRunsAgain, ProbeMoves, frontVars, acquisitionVars

AcquisitionTypeInv ==
    /\ SeriesReportInv /\ LinksInv /\ ResolverInv /\ RequestInv /\ PlacesInv

LEMMA AcquisitionTypeInitially == AcquisitionInit => AcquisitionTypeInv
    <1> SUFFICES ASSUME AcquisitionInit
                 PROVE  AcquisitionTypeInv
        OBVIOUS
    <1>1. SeriesReportInv
        BY SeriesReportInitially
    <1>2. NewSearch.groups = << >> /\ NewHandoff.pc = "off" /\ DOMAIN << >> = {}
        BY DEF NewSearch, NewHandoff
    <1>3. LinksInv /\ PlacesInv
        BY <1>2 DEF AcquisitionInit, LinksInv, AllLinked, HandoffAt, PlacesInv
    <1>4. ResolverInv
        BY NewResolverIs DEF AcquisitionInit, ResolverInv, ResolverAt
    <1>5. RequestInv
        BY JackettAssumption DEF AcquisitionInit, RequestInv
    <1>6. QED
        BY <1>1, <1>3, <1>4, <1>5 DEF AcquisitionTypeInv

LEMMA AcquisitionTypeStep == AcquisitionTypeInv /\ [AcquisitionNext]_acquisitionVars => AcquisitionTypeInv'
    BY SeriesReportStep, LinksStep, ResolverTypeStep, RequestStep, PlacesStep
    DEF AcquisitionTypeInv, SeriesReportInv

\* What the movie search holds, and what the series search does.
LEMMA SearchTypes ==
    ASSUME SearchInv(search)
    PROVE  /\ search.pc \in {"off", "discover", "capabilities", "query", "rank", "report", "end", "over"}
           /\ search.exit \in {0, 4, 5, 9} /\ Len(search.groups) <= Len(Movies)
    <1>0. Len(Movies) \in Nat /\ Len(<< >>) = 0
        BY Lengths
    <1>1. search.pc \in {"off", "discover", "capabilities", "query", "rank", "report", "end", "over"}
        BY DEF SearchInv
    <1>2. CASE search.pc \in {"discover", "capabilities", "query", "rank", "report"}
        <2>1. Gathered(search)
            BY <1>2 DEF SearchInv
        <2>2. /\ search.exit = 9 /\ search.movie \in 1..Len(Movies)
              /\ Len(search.groups) \in {search.movie, search.movie - 1}
            BY <2>1 DEF Gathered
        <2>3. Len(search.groups) <= Len(Movies)
            BY <1>0, <2>2
        <2>4. QED
            BY <1>1, <2>2, <2>3
    <1>3. CASE search.pc \in {"off", "over"} \/ (search.pc = "end" /\ search.exit # 0)
        BY <1>0, <1>1, <1>3 DEF SearchInv
    <1>4. CASE search.pc = "end" /\ search.exit = 0
        BY <1>1, <1>4 DEF SearchInv
    <1>5. QED
        BY <1>1, <1>2, <1>3, <1>4

LEMMA SeriesTypes ==
    ASSUME SeriesInv(series), SeriesData(series)
    PROVE  /\ series.pc \in {"off", "discover", "capabilities", "query", "rank", "resolve", "end"}
           /\ series.exit \in {0, 4, 5, 9} /\ Len(series.raw) = series.next
    <1>1. series.pc \in {"off", "discover", "capabilities", "query", "rank", "resolve", "end"}
        BY DEF SeriesInv
    <1>2. QED
        BY <1>1 DEF SeriesData, Gathering, Carried

\* Every part of the acquisition keeps its types: the searches, the resolver with its
\* cache, the hand-off, and the probe with the torrents it loads; no request is tried
\* more often than Attempts, and there are no more groups of results than movies.
THEOREM AcquisitionTypes == AcquisitionSpec => []AcquisitionTypeOK
    <1>1. AcquisitionTypeInv /\ ProbeTypeOK => AcquisitionTypeOK
        BY SearchTypes, SeriesTypes DEF AcquisitionTypeInv, SeriesReportInv, QueueInv, HonestInv, LinksInv,
            ResolverInv, RequestInv, PlacesInv, AcquisitionTypeOK
    <1>2. AcquisitionSpec => []AcquisitionTypeInv
        BY AcquisitionTypeInitially, AcquisitionTypeStep, PTL DEF AcquisitionSpec
    <1>3. QED
        BY <1>1, <1>2, ProbeTypes, PTL
=============================================================================
