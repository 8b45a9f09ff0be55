--------------------------- MODULE MCAcquisition ---------------------------
EXTENDS Acquisition

CONSTANTS h1, h2, i1, i2, m1, m2, u1, u2, q1, q2

Release(indexer, match, hash, magnet, url, size, seeders) ==
    [titled |-> TRUE, sequence |-> 0, indexer |-> indexer, match |-> match, hash |-> hash,
     magnet |-> magnet, url |-> url, size |-> size, seeders |-> seeders]

\* Seeded and not, listed by hash, by magnet and by reference, the same one twice.
MCOffers ==
    LET first  == Release(i1, "starts", h1, None, None, 1, 1)
        dead   == Release(i1, "starts", None, h2, u2, 2, 0)
        again  == Release(i2, "contains", h1, h2, u1, 1, 2)
        linked == Release(i2, "starts", None, Broken, u1, 2, 2)
        other  == Release(i2, "contains", None, None, u1, None, 1)
        wrong  == Release(i1, "other", h2, None, None, 1, 3)
    IN  [q \in Range(Indexers) \X Range(Movies) |->
            CASE q = <<i1, m1>> -> {<<dead>>, <<dead, first>>}
              [] q = <<i2, m1>> -> {<<again>>, <<linked, other>>}
              [] q = <<i1, m2>> -> {<<wrong>>}
              [] q = <<i2, m2>> -> {<<linked>>, <<again>>}]

\* What titles and categories can tell of a series of one or two seasons, on a
\* release that is listed by its hash.
MCForms ==
    [titled : {TRUE}, sequence : {0}, indexer : {i1}, hash : {h1}, magnet : {None}, url : {None},
     size : {0}, seeders : {3}, match : {"leads"}, fansub : {FALSE}, episodes : {0},
     categories : {{"tv"}}, year : {FALSE},
     seasons : {{}, {{1}}, {{1, 2}}, {{2, 3}}, {{1, 2, 3}}, {{1}, {1, 2}}},
     range : {FALSE}, strong : BOOLEAN, bare : {TRUE}, all : {-1, 0, 2}]

Whole == [titled |-> TRUE, sequence |-> 0, indexer |-> i2, hash |-> h1, magnet |-> None, url |-> None,
          size |-> 1, seeders |-> 1, match |-> "leads", fansub |-> FALSE, episodes |-> 0,
          categories |-> {"tv"}, year |-> TRUE, seasons |-> {{1, 2}}, range |-> TRUE, strong |-> FALSE,
          bare |-> FALSE, all |-> -1]

\* Beside them what is turned down at once, duplicates with less or other evidence,
\* and what is listed by magnets and references.
MCSeriesOffers ==
    LET single == [Whole EXCEPT !.seasons = {{1}}, !.range = FALSE, !.episodes = 1]
        linked == [Whole EXCEPT !.hash = None, !.magnet = Broken, !.url = u1, !.seeders = 0]
        second == [Whole EXCEPT !.hash = None, !.magnet = h2, !.seasons = {}, !.all = 0, !.seeders = -1]
        untitled == [Whole EXCEPT !.titled = FALSE]
        refused == {[Whole EXCEPT !.categories = {"anime"}], [Whole EXCEPT !.fansub = TRUE], [Whole EXCEPT !.categories = {}],
                    [Whole EXCEPT !.match = "inside"], [Whole EXCEPT !.match = "other"],
                    [Whole EXCEPT !.categories = {"tv", "other"}], [single EXCEPT !.episodes = 2]}
    IN  [q \in Range(Indexers) \X Range(Queries) |->
            CASE q = <<i1, q1>> -> {<<single>>, <<untitled, single>>}
              [] q = <<i1, q2>> -> {<<Whole>>, <<linked>>}
              [] q = <<i2, q1>> -> {<<second, linked>>}
              [] q = <<i2, q2>> -> {<<f>> : f \in MCForms \cup refused}]

MCProbeJobs == {[queue |-> <<h1>>, preflight |-> TRUE, keep |-> FALSE],
                [queue |-> <<h1, h1>>, preflight |-> FALSE, keep |-> TRUE],
                [queue |-> <<h1, h1>>, preflight |-> FALSE, keep |-> FALSE],
                [queue |-> <<h1, h2>>, preflight |-> FALSE, keep |-> FALSE]}

MCIndexers == <<i1, i2>>
MCQueries == <<q1, q2>>
MCMovies == <<m1, m2>>
=============================================================================
