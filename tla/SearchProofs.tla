---------------------------- MODULE SearchProofs ----------------------------
(***************************************************************************)
(* The searches and the hand-off, for any indexers, movies, queries and    *)
(* answers: a report that is written tells what could not be asked, no     *)
(* reference is fetched twice, and the queue is what the results were      *)
(* worth.                                                                  *)
(***************************************************************************)
EXTENDS Acquisition, ListProofs

-----------------------------------------------------------------------------
(* The resolver *)

\* What was fetched is in the cache, but for the reference at work; and the cache
\* holds what references came to.
FetchInv ==
    /\ resolver = [pc |-> resolver.pc, left |-> resolver.left, at |-> resolver.at,
                   visited |-> resolver.visited, private |-> resolver.private,
                   cache |-> resolver.cache, outcome |-> resolver.outcome, fetched |-> resolver.fetched]
    /\ \A r \in resolver.fetched : \/ r \in DOMAIN resolver.cache
                                   \/ ResolverAt("fetch") /\ r = Head(resolver.left)
    /\ \A r \in DOMAIN resolver.cache : resolver.cache[r] \in Outcomes

\* A step after which the cache is the same, and no reference is at work.
LEMMA RestsKeeps ==
    ASSUME FetchInv, ~ResolverAt("fetch"),
           NEW place, place # "fetch", NEW left, NEW private, NEW outcome,
           resolver' = [resolver EXCEPT !.pc = place, !.left = left, !.private = private, !.outcome = outcome]
    PROVE  FetchInv'
    BY DEF FetchInv, ResolverAt

LEMMA NewKeeps ==
    ASSUME resolver' = NewResolver
    PROVE  FetchInv'
    <1>1. DOMAIN << >> = {}
        OBVIOUS
    <1>2. QED
        BY <1>1 DEF FetchInv, ResolverAt, NewResolver

LEMMA NewKeepsNow ==
    ASSUME resolver = NewResolver
    PROVE  FetchInv
    <1>1. DOMAIN << >> = {}
        OBVIOUS
    <1>2. QED
        BY <1>1 DEF FetchInv, ResolverAt, NewResolver

LEMMA SettledKeeps ==
    ASSUME FetchInv, ResolverAt("fetch"), NEW outcome \in Outcomes, resolver' = Settled(outcome)
    PROVE  FetchInv' /\ resolver'.pc = "reference"
    <1> DEFINE c == Remembered(outcome)
               head == Head(resolver.left)
    <1>1. /\ DOMAIN c = {head} \cup DOMAIN resolver.cache
          /\ \A r \in DOMAIN c : c[r] = IF r = head THEN outcome ELSE resolver.cache[r]
        BY DEF Remembered
    <1> HIDE DEF c
    <1>2. resolver' = [resolver EXCEPT !.cache = c, !.at = None, !.visited = {}, !.pc = "reference"]
        BY DEF Settled, c
    <1>3. /\ resolver'.cache = c /\ resolver'.fetched = resolver.fetched /\ resolver'.pc = "reference"
          /\ resolver' = [pc |-> resolver'.pc, left |-> resolver'.left, at |-> resolver'.at,
                   visited |-> resolver'.visited, private |-> resolver'.private,
                   cache |-> resolver'.cache, outcome |-> resolver'.outcome, fetched |-> resolver'.fetched]
        BY <1>2 DEF FetchInv
    <1>4. \A r \in DOMAIN c : c[r] \in Outcomes
        BY <1>1 DEF FetchInv
    <1>5. \A r \in resolver.fetched : r \in DOMAIN c
        BY <1>1 DEF FetchInv
    <1>6. QED
        BY <1>3, <1>4, <1>5 DEF FetchInv, ResolverAt

\* A reference is fetched only if it is not in the cache.
LEMMA NextKeeps ==
    ASSUME FetchInv, NextReference
    PROVE  /\ FetchInv'
           /\ resolver'.pc = "fetch" => resolver'.at \notin resolver.fetched
           /\ resolver'.pc \in {"done", "reference", "fetch"}
           /\ resolver'.pc = "done" => resolver'.outcome \in Outcomes
    <1>0. ResolverAt("reference") /\ ~ResolverAt("fetch")
        BY DEF NextReference, ResolverAt
    <1>1. CASE resolver.left = << >>
        <2>1. resolver' = [resolver EXCEPT !.pc = "done",
                                           !.outcome = IF resolver.private THEN "private" ELSE "failed"]
            BY <1>1 DEF NextReference
        <2>2. QED
            BY <1>0, <2>1 DEF FetchInv, ResolverAt, Outcomes, Failures
    <1>2. CASE resolver.left # << >>
        <2> DEFINE r == Head(resolver.left)
                   remembered == resolver.cache[r]
        <2>1. CASE r \notin DOMAIN resolver.cache
            <3>1. resolver' = [resolver EXCEPT !.pc = "fetch", !.at = r, !.visited = {},
                                               !.fetched = resolver.fetched \cup {r}]
                BY <1>2, <2>1 DEF NextReference
            <3> HIDE DEF r
            <3>2. /\ resolver'.fetched = resolver.fetched \cup {r} /\ resolver'.cache = resolver.cache
                  /\ resolver'.pc = "fetch" /\ resolver'.at = r /\ resolver'.left = resolver.left
                  /\ resolver' = [pc |-> resolver'.pc, left |-> resolver'.left, at |-> resolver'.at,
                           visited |-> resolver'.visited, private |-> resolver'.private,
                           cache |-> resolver'.cache, outcome |-> resolver'.outcome,
                           fetched |-> resolver'.fetched]
                BY <3>1 DEF FetchInv
            <3>3. r \notin resolver.fetched
                BY <1>0, <2>1 DEF FetchInv
            <3>4. QED
                BY <1>0, <3>2, <3>3 DEF FetchInv, ResolverAt, r
        <2>2. CASE r \in DOMAIN resolver.cache /\ remembered \in Infohashes
            <3>1. resolver' = [resolver EXCEPT !.pc = "done", !.outcome = remembered]
                BY <1>2, <2>2 DEF NextReference
            <3>2. QED
                BY <1>0, <2>2, <3>1 DEF FetchInv, ResolverAt, Outcomes
        <2>3. CASE r \in DOMAIN resolver.cache /\ remembered \notin Infohashes
            <3>1. PICK left, private : resolver' = [resolver EXCEPT !.left = left, !.private = private]
                BY <1>2, <2>3 DEF NextReference
            <3>2. QED
                BY <1>0, <3>1 DEF FetchInv, ResolverAt
        <2>4. QED
            BY <2>1, <2>2, <2>3
    <1>3. QED
        BY <1>1, <1>2

LEMMA BodyOutcome ==
    ASSUME NEW body \in Bodies
    PROVE  FromBody(body) \in Outcomes
    BY DEF Bodies, FromBody, Outcomes, Failures

\* What happens while a reference is at work.
LEMMA WorkKeeps ==
    ASSUME FetchInv, FetchReference \/ BodyArrives \/ RedirectArrives \/ FetchFails
    PROVE  FetchInv' /\ resolver'.pc \in {"reference", "fetch"} /\ ResolverAt("fetch")
    <1>0. ResolverAt("fetch")
        BY DEF FetchReference, BodyArrives, RedirectArrives, FetchFails
    <1>1. CASE \E outcome \in Outcomes : resolver' = Settled(outcome)
        BY <1>0, <1>1, SettledKeeps
    <1>2. CASE \E at, visited : resolver' = [resolver EXCEPT !.at = at, !.visited = visited]
        <2>1. PICK at, visited : resolver' = [resolver EXCEPT !.at = at, !.visited = visited]
            BY <1>2
        <2>2. QED
            BY <1>0, <2>1 DEF FetchInv, ResolverAt
    <1>3. "failed" \in Outcomes /\ Infohashes \subseteq Outcomes
        BY DEF Outcomes, Failures
    <1>4. CASE FetchReference
        <2>1. CASE resolver' = Settled("failed")
            BY <1>1, <1>3, <2>1
        <2>2. CASE resolver' = [resolver EXCEPT !.visited = @ \cup {resolver.at}]
            <3>1. resolver' = [resolver EXCEPT !.at = resolver.at, !.visited = resolver.visited \cup {resolver.at}]
                BY <2>2 DEF FetchInv
            <3>2. QED
                BY <1>2, <3>1
        <2>3. QED
            BY <1>4, <2>1, <2>2 DEF FetchReference
    <1>5. CASE BodyArrives
        BY <1>1, <1>5, BodyOutcome DEF BodyArrives
    <1>6. CASE RedirectArrives
        <2>1. CASE \E outcome \in Infohashes \cup {"failed"} : resolver' = Settled(outcome)
            BY <1>1, <1>3, <2>1
        <2>2. CASE \E to \in References : resolver' = [resolver EXCEPT !.at = to]
            <3>1. PICK to : resolver' = [resolver EXCEPT !.at = to]
                BY <2>2
            <3>2. resolver' = [resolver EXCEPT !.at = to, !.visited = resolver.visited]
                BY <3>1 DEF FetchInv
            <3>3. QED
                BY <1>2, <3>2
        <2>3. CASE resolver' = Settled("failed")
            BY <1>1, <1>3, <2>3
        <2>4. QED
            BY <1>6, <2>1, <2>2, <2>3 DEF RedirectArrives
    <1>7. CASE FetchFails
        BY <1>1, <1>3, <1>7 DEF FetchFails
    <1>8. QED
        BY <1>4, <1>5, <1>6, <1>7

\* A step of the resolver.
LEMMA ResolverKeeps ==
    ASSUME FetchInv, ResolveReference
    PROVE  /\ FetchInv'
           /\ ResolverAt("reference") /\ resolver'.pc = "fetch" => resolver'.at \notin resolver.fetched
           /\ resolver.pc \in {"reference", "fetch"} /\ resolver'.pc \in {"done", "reference", "fetch"}
           /\ resolver'.pc = "done" => resolver'.outcome \in Outcomes
    <1>1. CASE NextReference
        BY <1>1, NextKeeps DEF NextReference, ResolverAt
    <1>2. CASE ~NextReference
        <2>1. FetchReference \/ BodyArrives \/ RedirectArrives \/ FetchFails
            BY <1>2 DEF ResolveReference
        <2>2. QED
            BY <2>1, WorkKeeps DEF ResolverAt
    <1>3. QED
        BY <1>1, <1>2

LEMMA ResolveKeeps ==
    ASSUME FetchInv, NEW magnets, NEW infohashes, NEW references,
           ResolveCandidate(magnets, infohashes, references)
    PROVE  FetchInv' /\ resolver'.pc \in {"done", "reference"} /\ ResolverAt("idle")
    <1>1. \E place \in {"done", "reference"} : \E left, private, outcome :
             resolver' = [resolver EXCEPT !.pc = place, !.left = left, !.private = private, !.outcome = outcome]
        <2>1. resolver = [resolver EXCEPT !.left = resolver.left, !.private = resolver.private,
                                          !.outcome = resolver.outcome]
            BY DEF FetchInv
        <2> DEFINE listed == magnets \o infohashes
                   some == Usable(listed) # {}
                   hash == listed[Min(Usable(listed))]
                   chosen == Kept(references, Fetchable(references))
        <2>2. resolver' = IF some THEN [resolver EXCEPT !.pc = "done", !.outcome = hash]
                          ELSE [resolver EXCEPT !.pc = "reference", !.private = FALSE, !.left = chosen]
            BY DEF ResolveCandidate
        <2> HIDE DEF some, hash, chosen
        <2>3. CASE some
            <3>1. resolver' = [resolver EXCEPT !.pc = "done", !.left = resolver.left,
                                               !.private = resolver.private, !.outcome = hash]
                BY <2>2, <2>3 DEF FetchInv
            <3>2. QED
                BY <3>1
        <2>4. CASE ~some
            <3>1. resolver' = [resolver EXCEPT !.pc = "reference", !.left = chosen,
                                               !.private = FALSE, !.outcome = resolver.outcome]
                BY <2>2, <2>4 DEF FetchInv
            <3>2. QED
                BY <3>1
        <2>5. QED
            BY <2>3, <2>4
    <1>2. ResolverAt("idle") /\ ~ResolverAt("fetch")
        BY DEF ResolveCandidate, ResolverAt
    <1>3. FetchInv'
        BY <1>1, <1>2, RestsKeeps
    <1>4. QED
        BY <1>1, <1>2, <1>3 DEF FetchInv

-----------------------------------------------------------------------------
(* Sequences of whatever they hold *)

Listing(s) == s \in Seq(Range(s))

\* A function on the numbers from 1 is a sequence.
LEMMA FunctionLists ==
    ASSUME NEW n \in Nat, NEW f, f = [k \in 1..n |-> f[k]]
    PROVE  Listing(f) /\ Len(f) = n
    <1>1. DOMAIN f = 1..n /\ \A k \in 1..n : f[k] \in Range(f)
        BY DEF Range
    <1>2. f \in [1..n -> Range(f)]
        BY <1>1
    <1>3. QED
        BY <1>2 DEF Listing

LEMMA SequenceLists ==
    ASSUME NEW V, NEW s \in Seq(V)
    PROVE  Listing(s) /\ Range(s) \subseteq V
    <1>1. Len(s) \in Nat /\ s = [k \in 1..Len(s) |-> s[k]] /\ DOMAIN s = 1..Len(s)
        OBVIOUS
    <1>2. \A k \in DOMAIN s : s[k] \in V
        OBVIOUS
    <1>3. QED
        BY <1>1, <1>2, FunctionLists DEF Range

LEMMA WiderSequence ==
    ASSUME NEW V, NEW W, V \subseteq W, NEW s \in Seq(V)
    PROVE  s \in Seq(W)
    <1>1. Len(s) \in Nat /\ s = [k \in 1..Len(s) |-> s[k]] /\ \A k \in 1..Len(s) : s[k] \in V
        OBVIOUS
    <1>2. s \in [1..Len(s) -> W]
        BY <1>1
    <1>3. QED
        BY <1>1, <1>2

LEMMA JoinLists ==
    ASSUME NEW s, NEW t, Listing(s), Listing(t)
    PROVE  Listing(s \o t)
    <1>1. s \in Seq(Range(s) \cup Range(t)) /\ t \in Seq(Range(s) \cup Range(t))
        BY WiderSequence DEF Listing
    <1>2. s \o t \in Seq(Range(s) \cup Range(t))
        BY <1>1
    <1>3. QED
        BY <1>2, SequenceLists

LEMMA FirstLists ==
    ASSUME NEW s, Listing(s), NEW n \in Nat
    PROVE  Listing(FirstN(s, n)) /\ Len(FirstN(s, n)) <= n
    <1>1. ASSUME NEW V, NEW q \in Seq(V), NEW m \in 0..Len(q)
          PROVE  SubSeq(q, 1, m) \in Seq(V) /\ Len(SubSeq(q, 1, m)) = m
        OBVIOUS
    <1>2. Len(s) \in Nat
        BY DEF Listing
    <1>3. (IF Len(s) < n THEN Len(s) ELSE n) \in 0..Len(s)
        BY <1>2
    <1>4. FirstN(s, n) \in Seq(Range(s)) /\ Len(FirstN(s, n)) = IF Len(s) < n THEN Len(s) ELSE n
        BY <1>1, <1>3 DEF FirstN, Listing
    <1>5. QED
        BY <1>2, <1>4, SequenceLists

\* The lists a list holds.
Lists(g) == g \in Seq(Seq(UNION {Range(g[k]) : k \in DOMAIN g}))

LEMMA ListsAre ==
    ASSUME NEW V, NEW g \in Seq(Seq(V))
    PROVE  Lists(g)
    <1> DEFINE W == UNION {Range(g[k]) : k \in DOMAIN g}
    <1>1. /\ Len(g) \in Nat /\ DOMAIN g = 1..Len(g) /\ g = [k \in 1..Len(g) |-> g[k]]
          /\ \A k \in 1..Len(g) : g[k] \in Seq(V)
        OBVIOUS
    <1>2. ASSUME NEW k \in 1..Len(g)
          PROVE  g[k] \in Seq(W)
        <2>1. Listing(g[k])
            BY <1>1, SequenceLists
        <2>2. Range(g[k]) \subseteq W
            BY <1>1
        <2> HIDE DEF W
        <2>3. QED
            BY <2>1, <2>2, WiderSequence DEF Listing
    <1> HIDE DEF W
    <1>3. g \in [1..Len(g) -> Seq(W)]
        BY <1>1, <1>2
    <1>4. ASSUME NEW n \in Nat, NEW S, NEW h \in [1..n -> S]
          PROVE  h \in Seq(S)
        OBVIOUS
    <1>5. g \in Seq(Seq(W))
        BY <1>1, <1>3, <1>4
    <1>6. QED
        BY <1>5 DEF Lists, W

LEMMA ListsGrow ==
    ASSUME NEW g, Lists(g), NEW s, Listing(s)
    PROVE  Lists(Append(g, s)) /\ Len(Append(g, s)) = Len(g) + 1
    <1> DEFINE V == UNION {Range(g[k]) : k \in DOMAIN g}
               W == V \cup Range(s)
    <1>1. g \in Seq(Seq(V)) /\ s \in Seq(Range(s))
        BY DEF Lists, Listing
    <1> HIDE DEF V
    <1>2. \A q \in Seq(V) : q \in Seq(W)
        BY WiderSequence
    <1>3. s \in Seq(W)
        BY <1>1, WiderSequence
    <1> HIDE DEF W
    <1>4. g \in Seq(Seq(W))
        BY <1>1, <1>2, WiderSequence
    <1>5. Append(g, s) \in Seq(Seq(W)) /\ Len(Append(g, s)) = Len(g) + 1
        BY <1>3, <1>4
    <1>6. QED
        BY <1>5, ListsAre

\* The lists of a list, one after the other: the recursion has a value, and it is one.
LEMMA FlattenLists ==
    ASSUME NEW V, NEW g \in Seq(Seq(V))
    PROVE  FlattenSeq(g) \in Seq(V)
    <1>1. CASE Len(g) = 0
        <2>1. g = << >>
            BY <1>1, EmptySeq
        <2>2. g \in Seq(V)
            BY <2>1
        <2>3. QED
            BY <1>1, <2>2 DEF FlattenSeq
    <1>2. CASE Len(g) # 0
        <2> DEFINE n == Len(g)
                   Step(f, i) == IF i = 1 THEN g[i] ELSE f[i - 1] \o g[i]
                   Upto(m) == {f \in [1..m -> Seq(V)] : \A i \in 1..m : f[i] = Step(f, i)}
                   Bad == {m \in 1..n : Upto(m) = {}}
        <2>1. n \in Nat \ {0} /\ \A i \in 1..n : g[i] \in Seq(V)
            BY <1>2
        <2> HIDE DEF n
        <2>2. ASSUME NEW m \in 1..n, m # 1, NEW f \in Upto(m - 1)
              PROVE  Upto(m) # {}
            <3> DEFINE h == [i \in 1..m |-> IF i = m THEN f[m - 1] \o g[m] ELSE f[i]]
            <3>1. m \in Nat /\ m - 1 \in 1..(m - 1) /\ \A i \in 1..m : i = m \/ i \in 1..(m - 1)
                BY <2>1, <2>2
            <3>2. /\ f \in [1..(m - 1) -> Seq(V)]
                  /\ \A i \in 1..(m - 1) : f[i] = Step(f, i)
                BY <2>2
            <3>3. ASSUME NEW p \in Seq(V), NEW q \in Seq(V) PROVE p \o q \in Seq(V)
                OBVIOUS
            <3>4. f[m - 1] \o g[m] \in Seq(V)
                <4>1. f[m - 1] \in Seq(V) /\ g[m] \in Seq(V)
                    BY <2>1, <3>1, <3>2
                <4>2. QED
                    BY <4>1, <3>3
            <3>5. h \in [1..m -> Seq(V)]
                BY <3>1, <3>2, <3>4
            <3>6. ASSUME NEW i \in 1..m
                  PROVE  h[i] = Step(h, i)
                <4>1. CASE i = m
                    <5>1. h[i] = f[m - 1] \o g[m] /\ h[m - 1] = f[m - 1]
                        <6>1. m - 1 \in 1..m /\ m - 1 # m /\ m \in 1..m
                            BY <2>2, <3>1
                        <6>2. QED
                            BY <4>1, <6>1
                    <5>2. QED
                        BY <2>2, <4>1, <5>1
                <4>2. CASE i # m
                    <5>1. i \in 1..(m - 1) /\ h[i] = f[i]
                        BY <3>1, <4>2
                    <5>2. CASE i = 1
                        BY <3>2, <5>1, <5>2
                    <5>3. CASE i # 1
                        <6>1. i - 1 \in 1..m /\ i - 1 # m
                            BY <3>1, <5>1, <5>3
                        <6>2. h[i - 1] = f[i - 1]
                            BY <6>1
                        <6>3. QED
                            BY <3>2, <5>1, <5>3, <6>2
                    <5>4. QED
                        BY <5>2, <5>3
                <4>3. QED
                    BY <4>1, <4>2
            <3> HIDE DEF h
            <3>7. h \in Upto(m)
                BY <3>5, <3>6
            <3>8. QED
                BY <3>7
        <2>3. Upto(1) # {}
            <3> DEFINE h == [i \in 1..1 |-> g[1]]
            <3>1. h \in [1..1 -> Seq(V)] /\ \A i \in 1..1 : h[i] = Step(h, i)
                BY <2>1
            <3> HIDE DEF h
            <3>2. QED
                BY <3>1
        <2> HIDE DEF Upto
        <2>4. Bad = {}
            <3>1. SUFFICES ASSUME Bad # {} PROVE FALSE
                OBVIOUS
            <3>2. Bad \subseteq Nat
                BY <2>1
            <3>3. PICK m \in Bad : \A k \in Bad : m <= k
                BY <3>1, <3>2, LeastNumber
            <3>4. m \in 1..n /\ m # 1 /\ Upto(m) = {}
                BY <2>3
            <3>5. m - 1 \in 1..n /\ ~(m <= m - 1)
                BY <2>1, <3>4
            <3>6. m - 1 \notin Bad
                BY <3>3, <3>5
            <3>7. QED
                BY <2>2, <3>4, <3>5, <3>6
        <2>5. PICK f : f \in Upto(n)
            <3>1. n \in 1..n /\ n \notin Bad
                BY SMTT(30), <2>1, <2>4
            <3>2. Upto(n) # {}
                BY <3>1
            <3>3. QED
                BY <3>2
        <2>6. f \in [1..n -> Seq(V)] /\ f = [i \in 1..n |-> Step(f, i)]
            BY <2>5 DEF Upto
        <2> DEFINE flat == CHOOSE e : e = [i \in 1..n |-> Step(e, i)]
        <2>7. flat = [i \in 1..n |-> Step(flat, i)]
            <3> HIDE DEF Step
            <3>1. \E e : e = [i \in 1..n |-> Step(e, i)]
                BY <2>6
            <3>2. QED
                BY <3>1
        <2>8. FlattenSeq(g) = flat[n]
            BY <1>2 DEF FlattenSeq, n
        <2> HIDE DEF flat
        <2>9. flat[n] = f[n]
            <3> DEFINE Off == {i \in 1..n : flat[i] # f[i]}
            <3>1. SUFFICES ASSUME Off # {} PROVE FALSE
                BY <2>1
            <3>2. Off \subseteq Nat
                BY <2>1
            <3>3. PICK i \in Off : \A k \in Off : i <= k
                BY <3>1, <3>2, LeastNumber
            <3>4. i \in 1..n /\ flat[i] # f[i] /\ flat[i] = Step(flat, i) /\ f[i] = Step(f, i)
                BY <2>6, <2>7
            <3>5. i # 1
                BY <3>4
            <3>6. i - 1 \in 1..n /\ ~(i <= i - 1)
                BY <2>1, <3>4, <3>5
            <3>7. flat[i - 1] = f[i - 1]
                BY <3>3, <3>6
            <3>8. QED
                BY <3>4, <3>5, <3>7
        <2>10. QED
            BY <2>1, <2>6, <2>8, <2>9
    <1>3. QED
        BY <1>1, <1>2

\* What two lists hold together.
LEMMA JoinedRange ==
    ASSUME NEW V, NEW s \in Seq(V), NEW t \in Seq(V)
    PROVE  s \o t \in Seq(V) /\ Range(s \o t) = Range(s) \cup Range(t)
    <1> DEFINE u == s \o t
    <1>1. /\ u \in Seq(V) /\ Len(s) \in Nat /\ Len(t) \in Nat /\ Len(u) = Len(s) + Len(t)
          /\ \A k \in 1..Len(s) : u[k] = s[k]
          /\ \A k \in (Len(s) + 1)..(Len(s) + Len(t)) : u[k] = t[k - Len(s)]
        OBVIOUS
    <1>2. DOMAIN s = 1..Len(s) /\ DOMAIN t = 1..Len(t) /\ DOMAIN u = 1..Len(u)
        BY <1>1
    <1> HIDE DEF u
    <1>3. ASSUME NEW k \in 1..Len(u) PROVE u[k] \in Range(s) \cup Range(t)
        <2>1. CASE k \in 1..Len(s)
            BY <1>1, <1>2, <2>1 DEF Range
        <2>2. CASE k \notin 1..Len(s)
            <3>1. k \in (Len(s) + 1)..(Len(s) + Len(t)) /\ k - Len(s) \in 1..Len(t)
                BY <1>1, <2>2
            <3>2. QED
                BY <1>1, <1>2, <3>1 DEF Range
        <2>3. QED
            BY <2>1, <2>2
    <1>4. ASSUME NEW k \in 1..Len(s) PROVE s[k] \in Range(u)
        <2>1. k \in 1..Len(u)
            BY <1>1
        <2>2. QED
            BY <1>1, <1>2, <2>1 DEF Range
    <1>5. ASSUME NEW k \in 1..Len(t) PROVE t[k] \in Range(u)
        <2>1. /\ Len(s) + k \in (Len(s) + 1)..(Len(s) + Len(t)) /\ Len(s) + k \in 1..Len(u)
              /\ (Len(s) + k) - Len(s) = k
            BY <1>1
        <2>2. u[Len(s) + k] = t[k]
            BY <1>1, <2>1
        <2>3. QED
            BY <1>2, <2>1, <2>2 DEF Range
    <1>6. Range(u) = Range(s) \cup Range(t)
        BY <1>2, <1>3, <1>4, <1>5 DEF Range
    <1>7. QED
        BY <1>1, <1>6 DEF u

\* What is parsed is a list of what the items are.
Numbered(r, n, hash) == [r EXCEPT !.sequence = n, !.hash = hash]

LEMMA ParsedLists ==
    ASSUME NEW V, NEW items \in Seq(V), NEW start \in Nat,
           \A r \in V : r.hash \in Infohashes \cup {None},
           \A r \in V, n \in Nat, h \in Infohashes \cup {None} :
               Numbered(r, n, h) \in V
    PROVE  Parsed(items, start) \in Seq(V)
    <1>1. \A n \in Nat : \A f \in [1..n -> V] : f \in Seq(V) /\ Len(f) = n
        OBVIOUS
    <1>2. Len(items) \in Nat /\ \A k \in 1..Len(items) : items[k] \in V /\ start + k \in Nat
        OBVIOUS
    <1> DEFINE Release(k) == [items[k] EXCEPT !.sequence = start + k,
                                              !.hash = IF @ # None THEN @
                                                       ELSE IF items[k].magnet \in Infohashes
                                                            THEN items[k].magnet
                                                       ELSE None]
               all == [k \in 1..Len(items) |-> Release(k)]
               places == {k \in 1..Len(items) : items[k].titled}
    <1>3. Parsed(items, start) = Kept(all, places)
        BY DEF Parsed
    <1>4. ASSUME NEW k \in 1..Len(items)
          PROVE  Release(k) \in V
        <2> DEFINE h == IF items[k].hash # None THEN items[k].hash
                        ELSE IF items[k].magnet \in Infohashes THEN items[k].magnet ELSE None
        <2>1. items[k] \in V /\ start + k \in Nat /\ items[k].hash \in Infohashes \cup {None}
            BY <1>2
        <2>2. h \in Infohashes \cup {None}
            BY <2>1
        <2>3. Release(k) = Numbered(items[k], start + k, h)
            BY DEF Numbered
        <2> HIDE DEF h, Release
        <2>4. QED
            BY <2>1, <2>2, <2>3
    <1> HIDE DEF Release
    <1>5. all \in [1..Len(items) -> V]
        BY <1>4
    <1>6. places \in SUBSET (1..Len(items))
        OBVIOUS
    <1>7. all \in Seq(V) /\ Len(all) = Len(items) /\ places \in SUBSET (1..Len(items))
        BY <1>2, <1>5, <1>6, <1>1
    <1> HIDE DEF all, places
    <1>8. \A q \in Seq(V) : \A P \in SUBSET (1..Len(q)) : Kept(q, P) \in Seq(V)
        BY KeptIs
    <1>9. Kept(all, places) \in Seq(V)
        BY <1>7, <1>8
    <1>10. QED
        BY <1>3, <1>9

LEMMA ParsedMovies ==
    ASSUME NEW items \in Seq(MovieReleases), NEW raw \in Seq(MovieReleases)
    PROVE  Parsed(items, Len(raw)) \in Seq(MovieReleases)
    <1>1. /\ \A r \in MovieReleases : r.hash \in Infohashes \cup {None}
          /\ \A r \in MovieReleases, n \in Nat, h \in Infohashes \cup {None} :
                Numbered(r, n, h) \in MovieReleases
        BY DEF MovieReleases, Numbered
    <1>2. Len(raw) \in Nat
        OBVIOUS
    <1>3. QED
        BY <1>1, <1>2, ParsedLists

\* Nor does the empty list hold anything.
LEMMA Nothing ==
    /\ Listing(<< >>) /\ Lists(<< >>) /\ << >> \in Seq(Range(Indexers))
    /\ << >> \in Seq(MovieReleases) /\ Range(<< >>) = {} /\ Len(<< >>) = 0
    <1>0. << >> \in Seq(MovieReleases) /\ Range(<< >>) = {} /\ Len(<< >>) = 0
        BY DEF Range
    <1>1. << >> \in Seq({}) /\ << >> \in Seq(Seq({})) /\ << >> \in Seq(Range(Indexers))
        OBVIOUS
    <1>2. Listing(<< >>)
        BY <1>1, SequenceLists
    <1>3. Lists(<< >>)
        BY <1>1, ListsAre
    <1>4. QED
        BY <1>0, <1>1, <1>2, <1>3

-----------------------------------------------------------------------------
(* The results of a movie *)

\* What a candidate is ranked by are three numbers.
LEMMA CandidateIs ==
    ASSUME NEW sources \in Seq(MovieReleases), sources # << >>
    PROVE  LET c == Candidate(sources)
           IN  /\ c.sources = sources /\ c.seeders \in Int /\ c.spread \in Nat
               /\ \A r \in Range(sources) : /\ r.seeders <= c.seeders /\ c.spread >= 1
                                            /\ r.match = "starts" => c.starts = TRUE
               /\ MovieKey(c) \in [1..3 -> Int]
    <1> DEFINE c == Candidate(sources)
               seeders == {r.seeders : r \in Range(sources)}
               indexers == {r.indexer : r \in Range(sources)}
    <1>1. IsFiniteSet(Range(sources)) /\ Range(sources) \subseteq MovieReleases
        BY RangeIsFinite
    <1>2. Range(sources) # {}
        <2>1. 1 \in 1..Len(sources) /\ DOMAIN sources = 1..Len(sources)
            BY Filled
        <2>2. QED
            BY <2>1 DEF Range
    <1>3. \A r \in Range(sources) : r.seeders \in Int
        BY <1>1 DEF MovieReleases
    <1>4. IsFiniteSet(seeders)
        <2> DEFINE f == [r \in Range(sources) |-> r.seeders]
        <2>1. {f[r] : r \in Range(sources)} = seeders
            OBVIOUS
        <2>2. DOMAIN f = Range(sources) /\ f = [r \in Range(sources) |-> f[r]]
            OBVIOUS
        <2> HIDE DEF f, seeders
        <2>3. QED
            BY <1>1, <2>1, <2>2, FiniteImage
    <1>5. IsFiniteSet(indexers) /\ Cardinality(indexers) \in Nat
        <2> DEFINE f == [r \in Range(sources) |-> r.indexer]
        <2>1. {f[r] : r \in Range(sources)} = indexers
            OBVIOUS
        <2>2. DOMAIN f = Range(sources) /\ f = [r \in Range(sources) |-> f[r]]
            OBVIOUS
        <2> HIDE DEF f, indexers
        <2>3. QED
            BY SMTT(30), <1>1, <2>1, <2>2, FiniteImage
    <1>6. seeders \subseteq Int /\ seeders # {} /\ indexers # {}
        BY <1>2, <1>3
    <1>7. c.seeders = MaxOf(seeders) /\ c.spread = Cardinality(indexers) /\ c.sources = sources
          /\ c.starts = \E r \in Range(sources) : r.match = "starts"
        BY DEF Candidate
    <1> HIDE DEF seeders, indexers
    <1>8. MaxOf(seeders) \in seeders /\ \A n \in seeders : n <= MaxOf(seeders)
        BY <1>4, <1>6, GreatestExists DEF MaxOf
    <1>9. Cardinality(indexers) # 0
        BY <1>5, <1>6, FS_EmptySet
    <1>10. c.seeders \in Int /\ c.spread \in Nat /\ c.spread >= 1
        BY <1>5, <1>6, <1>7, <1>8, <1>9
    <1>11. \A r \in Range(sources) : r.seeders <= c.seeders
        BY <1>7, <1>8 DEF seeders
    <1>12. \A r \in Range(sources) : r.match = "starts" => c.starts = TRUE
        BY <1>7
    <1> HIDE DEF c
    <1>13. MovieKey(c) \in [1..3 -> Int]
        <2>1. (IF c.starts THEN 0 ELSE 1) \in Int /\ -c.seeders \in Int /\ -c.spread \in Int
            BY <1>10
        <2>2. ASSUME NEW i \in Int, NEW j \in Int, NEW k \in Int PROVE <<i, j, k>> \in [1..3 -> Int]
            OBVIOUS
        <2>3. QED
            BY <2>1, <2>2 DEF MovieKey
    <1>14. QED
        BY <1>7, <1>10, <1>11, <1>12, <1>13 DEF c
\* The candidates are made of the releases that are listed, and of all of them.
LEMMA CandidatesAre ==
    ASSUME NEW found \in Seq(MovieReleases)
    PROVE  /\ IsFiniteSet(Candidates(found))
           /\ \A c \in Candidates(found) :
                 \E sources \in Seq(MovieReleases) : sources # << >> /\ c = Candidate(sources)
           /\ \A k \in DOMAIN found :
                 Listed(found[k]) => \E c \in Candidates(found) : found[k] \in Range(c.sources)
    <1> DEFINE listed == {k \in DOMAIN found : Listed(found[k])}
               Same(k) == {j \in listed : DedupKey(found[j]) = DedupKey(found[k])}
               Group(k) == Kept(found, Same(k))
               f == [k \in listed |-> Candidate(Group(k))]
    <1>1. Candidates(found) = {f[k] : k \in listed}
        BY DEF Candidates
    <1>2. Len(found) \in Nat /\ DOMAIN found = 1..Len(found)
        OBVIOUS
    <1>3. listed \in SUBSET (1..Len(found)) /\ IsFiniteSet(listed)
        BY <1>2, Counting
    <1>4. \A k \in listed : Same(k) \in SUBSET (1..Len(found)) /\ k \in Same(k)
        BY <1>3
    <1> HIDE DEF Same, listed
    <1>5. ASSUME NEW k \in listed
          PROVE  /\ Group(k) \in Seq(MovieReleases) /\ Group(k) # << >>
                 /\ found[k] \in Range(Group(k))
        <2>1. /\ Group(k) \in Seq(MovieReleases)
              /\ \E n \in 1..Len(Group(k)) : Group(k)[n] = found[k]
            BY <1>4, KeptIs
        <2> HIDE DEF Group
        <2>2. DOMAIN Group(k) = 1..Len(Group(k))
            BY <2>1
        <2>3. found[k] \in Range(Group(k))
            BY <2>1, <2>2 DEF Range
        <2>4. Group(k) # << >>
            BY <2>3, Nothing
        <2>5. QED
            BY <2>1, <2>3, <2>4
    <1> HIDE DEF Group
    <1>6. \A k \in listed : f[k] = Candidate(Group(k))
        OBVIOUS
    <1>7. DOMAIN f = listed /\ f = [k \in listed |-> f[k]]
        OBVIOUS
    <1> HIDE DEF f
    <1>8. IsFiniteSet(Candidates(found))
        BY <1>1, <1>3, <1>7, FiniteImage
    <1>9. \A c \in Candidates(found) :
              \E sources \in Seq(MovieReleases) : sources # << >> /\ c = Candidate(sources)
        BY <1>1, <1>5, <1>6
    <1>10. ASSUME NEW k \in DOMAIN found, Listed(found[k])
           PROVE  \E c \in Candidates(found) : found[k] \in Range(c.sources)
        <2>1. k \in listed
            BY <1>10 DEF listed
        <2>2. f[k] \in Candidates(found) /\ f[k] = Candidate(Group(k))
            BY <1>1, <1>6, <2>1
        <2>3. f[k].sources = Group(k)
            BY <1>5, <2>1, <2>2, CandidateIs
        <2>4. QED
            BY <1>5, <2>1, <2>2, <2>3
    <1>11. QED
        BY <1>8, <1>9, <1>10

\* The candidates that somebody seeds, and their order.
SeededOf(found) == {c \in Candidates(found) : Seeded(c)}

LEMMA SeededAre ==
    ASSUME NEW found \in Seq(MovieReleases)
    PROVE  LET S == SeededOf(found)
               t == Ranked(S)
           IN  /\ IsFiniteSet(S) /\ \A c \in S : MovieKey(c) \in [1..3 -> Int]
               /\ t \in Seq(S) /\ Range(t) = S /\ \A c \in S : \E n \in 1..Len(t) : t[n] = c
               /\ \A m, n \in 1..Len(t) : m < n => ~Outranks(t[n], t[m])
    <1> DEFINE S == SeededOf(found)
               key == [c \in S |-> MovieKey(c)]
               t == Ranked(S)
    <1>1. S \in SUBSET Candidates(found)
        BY DEF SeededOf
    <1>2. IsFiniteSet(S)
        BY <1>1, CandidatesAre, FS_Subset
    <1>3. \A c \in S : MovieKey(c) \in [1..3 -> Int]
        BY <1>1, CandidatesAre, CandidateIs
    <1> HIDE DEF S
    <1>4. key \in [S -> [1..3 -> Int]] /\ \A c \in S : key[c] = MovieKey(c)
        BY <1>3
    <1> HIDE DEF key
    <1>5. \E u \in [1..Cardinality(S) -> S] :
              /\ IsInjective(u)
              /\ \A m, n \in DOMAIN u : m < n => ~Before(key[u[n]], key[u[m]])
        BY <1>2, <1>4, 3 \in Nat, SortedExists
    <1>6. \E u \in [1..Cardinality(S) -> S] :
              /\ IsInjective(u)
              /\ \A m, n \in DOMAIN u : m < n => ~Before(MovieKey(u[n]), MovieKey(u[m]))
        BY <1>4, <1>5
    <1>7. /\ t \in [1..Cardinality(S) -> S] /\ IsInjective(t)
          /\ \A m, n \in DOMAIN t : m < n => ~Before(MovieKey(t[n]), MovieKey(t[m]))
        BY <1>6 DEF Ranked, Sorted
    <1> HIDE DEF t
    <1>8. /\ t \in Seq(S) /\ Range(t) = S /\ \A c \in S : \E n \in 1..Len(t) : t[n] = c
          /\ Len(t) = Cardinality(S)
        BY <1>2, <1>7, OrderIsComplete
    <1>9. \A m, n \in 1..Len(t) : m < n => ~Outranks(t[n], t[m])
        BY <1>7, <1>8 DEF Outranks
    <1>10. QED
        BY <1>2, <1>3, <1>8, <1>9 DEF S, t

\* The results of a movie are a list, no longer than the limit.
LEMMA ResultsList ==
    ASSUME NEW found \in Seq(MovieReleases)
    PROVE  Listing(MovieResults(found)) /\ Len(MovieResults(found)) <= ResultLimit
    <1>1. Ranked(SeededOf(found)) \in Seq(SeededOf(found))
        BY SeededAre
    <1>2. Listing(Ranked(SeededOf(found)))
        BY <1>1, SequenceLists
    <1>3. ResultLimit \in Nat
        BY SearchAssumption
    <1>4. MovieResults(found) = FirstN(Ranked(SeededOf(found)), ResultLimit)
        BY DEF MovieResults, SeededOf
    <1>5. QED
        BY <1>2, <1>3, <1>4, FirstLists

\* The first of a sequence are those at its first places.
LEMMA FirstNIs ==
    ASSUME NEW V, NEW t \in Seq(V), NEW n \in Nat
    PROVE  /\ Len(FirstN(t, n)) = IF Len(t) < n THEN Len(t) ELSE n
           /\ \A k \in 1..Len(FirstN(t, n)) : k \in 1..Len(t) /\ FirstN(t, n)[k] = t[k]
    <1>1. ASSUME NEW m \in 0..Len(t)
          PROVE  Len(SubSeq(t, 1, m)) = m /\ \A k \in 1..m : SubSeq(t, 1, m)[k] = t[k]
        OBVIOUS
    <1>2. Len(t) \in Nat
        OBVIOUS
    <1>3. (IF Len(t) < n THEN Len(t) ELSE n) \in 0..Len(t)
        BY <1>2
    <1>4. QED
        BY <1>1, <1>2, <1>3 DEF FirstN

\* A release on its own is no better than what it is a source of.
LEMMA AloneIsNoBetter ==
    ASSUME NEW sources \in Seq(MovieReleases), NEW r \in Range(sources)
    PROVE  /\ MovieKey(Candidate(<<r>>)) \in [1..3 -> Int] /\ MovieKey(Candidate(sources)) \in [1..3 -> Int]
           /\ ~Outranks(Candidate(<<r>>), Candidate(sources))
    <1> DEFINE a == Candidate(<<r>>)
               c == Candidate(sources)
    <1>1. sources # << >> /\ r \in MovieReleases
        BY RangeIsFinite, Nothing
    <1>2. <<r>> \in Seq(MovieReleases) /\ <<r>> # << >> /\ Range(<<r>>) = {r}
        BY <1>1 DEF Range
    <1>3. MovieKey(a) \in [1..3 -> Int] /\ MovieKey(c) \in [1..3 -> Int]
        BY <1>1, <1>2, CandidateIs
    <1>4. /\ c.seeders \in Int /\ r.seeders <= c.seeders /\ c.spread \in Nat /\ c.spread >= 1
          /\ r.match = "starts" => c.starts = TRUE
        BY <1>1, CandidateIs
    <1>5. a.seeders = r.seeders /\ a.spread = 1 /\ a.starts = (r.match = "starts")
        <2>1. {q.seeders : q \in Range(<<r>>)} = {r.seeders} /\ {q.indexer : q \in Range(<<r>>)} = {r.indexer}
            BY <1>2
        <2>2. /\ a.seeders = MaxOf({q.seeders : q \in Range(<<r>>)})
              /\ a.spread = Cardinality({q.indexer : q \in Range(<<r>>)})
              /\ a.starts = \E q \in Range(<<r>>) : q.match = "starts"
            BY DEF Candidate
        <2>3. r.seeders \in Int
            BY <1>1 DEF MovieReleases
        <2>4. MaxOf({r.seeders}) = r.seeders
            BY <2>3 DEF MaxOf
        <2>5. Cardinality({r.indexer}) = 1
            BY FS_Singleton
        <2>6. a.starts = (r.match = "starts")
            BY <1>2, <2>2
        <2>7. QED
            BY <2>1, <2>2, <2>4, <2>5, <2>6
    <1> HIDE DEF a, c
    <1>6. r.seeders \in Int
        BY <1>1 DEF MovieReleases
    <1>7. /\ MovieKey(a)[1] \in Int /\ MovieKey(c)[1] \in Int /\ MovieKey(c)[1] <= MovieKey(a)[1]
          /\ MovieKey(a)[2] \in Int /\ MovieKey(c)[2] \in Int /\ MovieKey(c)[2] <= MovieKey(a)[2]
          /\ MovieKey(a)[3] \in Int /\ MovieKey(c)[3] \in Int /\ MovieKey(c)[3] <= MovieKey(a)[3]
        <2>1. \A x, y, z : <<x, y, z>>[1] = x /\ <<x, y, z>>[2] = y /\ <<x, y, z>>[3] = z
            OBVIOUS
        <2>2. /\ MovieKey(a)[1] = (IF a.starts THEN 0 ELSE 1) /\ MovieKey(c)[1] = (IF c.starts THEN 0 ELSE 1)
              /\ MovieKey(a)[2] = -a.seeders /\ MovieKey(c)[2] = -c.seeders
              /\ MovieKey(a)[3] = -a.spread /\ MovieKey(c)[3] = -c.spread
            BY <2>1 DEF MovieKey
        <2>3. a.starts => c.starts
            BY <1>4, <1>5
        <2>4. (IF a.starts THEN 0 ELSE 1) \in Int /\ (IF c.starts THEN 0 ELSE 1) \in Int
              /\ (IF c.starts THEN 0 ELSE 1) <= (IF a.starts THEN 0 ELSE 1)
            BY <2>3
        <2>5. /\ -a.seeders \in Int /\ -c.seeders \in Int /\ -c.seeders <= -a.seeders
              /\ -a.spread \in Int /\ -c.spread \in Int /\ -c.spread <= -a.spread
            BY <1>4, <1>5, <1>6
        <2> HIDE DEF MovieKey
        <2>6. QED
            BY <2>2, <2>4, <2>5
    <1>8. DOMAIN MovieKey(a) = 1..3 /\ \A n \in 1..3 : n = 1 \/ n = 2 \/ n = 3
        BY <1>3
    <1>9. \A n \in DOMAIN MovieKey(a) : ~(MovieKey(a)[n] < MovieKey(c)[n])
        BY <1>7, <1>8
    <1>10. ~Outranks(a, c)
        BY <1>9 DEF Outranks, Before
    <1>11. QED
        BY <1>3, <1>10 DEF a, c

\* What somebody seeds is a source of a result, or the results are as good.
LEMMA ResultsAreBest ==
    ASSUME NEW found \in Seq(MovieReleases), NEW r \in Range(found), Listed(r), r.seeders > 0
    PROVE  LET results == MovieResults(found)
           IN  \/ \E n \in 1..Len(results) : r \in Range(results[n].sources)
               \/ /\ Len(results) = ResultLimit
                  /\ \A n \in 1..Len(results) : ~Outranks(Candidate(<<r>>), results[n])
    <1> DEFINE S == SeededOf(found)
               t == Ranked(S)
               results == MovieResults(found)
    <1>1. PICK k \in DOMAIN found : found[k] = r
        BY DEF Range
    <1>2. PICK c \in Candidates(found) : r \in Range(c.sources)
        BY <1>1, CandidatesAre
    <1>3. PICK sources \in Seq(MovieReleases) : sources # << >> /\ c = Candidate(sources)
        BY CandidatesAre
    <1>4. c.sources = sources /\ c.seeders \in Int /\ r.seeders <= c.seeders
        BY <1>2, <1>3, CandidateIs
    <1>5. r.seeders \in Int
        <2>1. r \in MovieReleases
            BY RangeIsFinite
        <2>2. QED
            BY <2>1 DEF MovieReleases
    <1>6. c \in S
        BY <1>4, <1>5 DEF SeededOf, Seeded
    <1>7. /\ \A d \in S : MovieKey(d) \in [1..3 -> Int]
          /\ t \in Seq(S) /\ \E n \in 1..Len(t) : t[n] = c
          /\ \A m, n \in 1..Len(t) : m < n => ~Outranks(t[n], t[m])
        BY <1>6, SeededAre
    <1>8. PICK j \in 1..Len(t) : t[j] = c
        BY <1>7
    <1>9. ResultLimit \in Nat
        BY SearchAssumption
    <1>10. results = FirstN(t, ResultLimit)
        BY DEF MovieResults, SeededOf
    <1> HIDE DEF t, results, S
    <1>11. /\ Len(results) = IF Len(t) < ResultLimit THEN Len(t) ELSE ResultLimit
           /\ \A n \in 1..Len(results) : n \in 1..Len(t) /\ results[n] = t[n]
        BY <1>7, <1>9, <1>10, FirstNIs
    <1>12. Len(t) \in Nat
        BY <1>7
    <1>13. CASE j \in 1..Len(results)
        BY <1>2, <1>8, <1>11, <1>13 DEF results
    <1>14. CASE j \notin 1..Len(results)
        <2>1. Len(results) = ResultLimit /\ \A n \in 1..Len(results) : n < j
            BY <1>9, <1>11, <1>12, <1>14
        <2>2. ASSUME NEW n \in 1..Len(results)
              PROVE  ~Outranks(Candidate(<<r>>), results[n])
            <3>1. n \in 1..Len(t) /\ results[n] = t[n] /\ n < j
                BY <1>11, <2>1
            <3>2. ~Outranks(t[j], t[n])
                BY <1>7, <3>1
            <3>3. t[n] \in S
                BY <1>7, <3>1
            <3>4. ~Outranks(c, t[n]) /\ t[n] \in S
                BY <1>8, <3>2, <3>3
            <3> DEFINE a == MovieKey(Candidate(<<r>>))
                       b == MovieKey(c)
                       d == MovieKey(t[n])
            <3>5. /\ a \in [1..3 -> Int] /\ b \in [1..3 -> Int] /\ d \in [1..3 -> Int]
                  /\ ~Before(a, b) /\ ~Before(b, d)
                BY <1>2, <1>3, <1>4, <1>7, <3>4, AloneIsNoBetter DEF Outranks
            <3> HIDE DEF a, b, d
            <3>6. a = b \/ Before(b, a)
                BY <3>5, 3 \in Nat, BeforeTotal
            <3>7. ~Before(a, d)
                BY <3>5, <3>6, 3 \in Nat, BeforeChain
            <3>8. QED
                BY <3>1, <3>7 DEF Outranks, a, d
        <2>3. QED
            BY <2>1, <2>2 DEF results
    <1>15. QED
        BY <1>13, <1>14

-----------------------------------------------------------------------------
(* No reference is fetched twice *)

\* What came to an end is taken up by whoever asked the resolver.
LEMMA TakenUpKeeps ==
    ASSUME FetchInv, ResolverAt("done"),
           resolver' = [resolver EXCEPT !.pc = "idle", !.outcome = None, !.left = << >>]
    PROVE  FetchInv' /\ resolver'.pc = "idle"
    <1>1. /\ resolver'.cache = resolver.cache /\ resolver'.fetched = resolver.fetched
          /\ resolver'.pc = "idle"
          /\ resolver' = [pc |-> resolver'.pc, left |-> resolver'.left, at |-> resolver'.at,
                   visited |-> resolver'.visited, private |-> resolver'.private,
                   cache |-> resolver'.cache, outcome |-> resolver'.outcome, fetched |-> resolver'.fetched]
        BY DEF FetchInv
    <1>2. ~ResolverAt("fetch")
        BY DEF ResolverAt
    <1>3. QED
        BY <1>1, <1>2 DEF FetchInv, ResolverAt

\* What a step does to the resolver.
LEMMA ResolverSteps ==
    ASSUME FetchInv, AcquisitionNext
    PROVE  \/ UNCHANGED resolver
           \/ resolver' = NewResolver
           \/ ResolveReference
           \/ ResolverAt("idle") /\ FetchInv' /\ resolver'.pc \in {"done", "reference"}
           \/ ResolverAt("done") /\ FetchInv' /\ resolver'.pc = "idle"
    <1>1. CASE SearchStep \/ RetryStep \/ ProbeRunsAgain \/ ProbeMoves
        BY <1>1 DEF SearchStep, RetryStep, ProbeRunsAgain, ProbeMoves, frontVars
    <1>2. CASE SeriesStep
        <2>1. CASE ResolveSeries
            <3>1. PICK magnets, infohashes, references : ResolveCandidate(magnets, infohashes, references)
                BY <2>1 DEF ResolveSeries
            <3>2. QED
                BY <3>1, ResolveKeeps
        <2>2. CASE SeriesResolved
            BY <2>2, TakenUpKeeps DEF SeriesResolved
        <2>3. QED
            BY <1>2, <2>1, <2>2 DEF SeriesStep, SeriesReport
    <1>3. CASE HandoffStep
        <2>1. CASE TakeCandidate
            <3>1. \/ UNCHANGED resolver
                  \/ ResolveCandidate(<<Taken.magnet>>, <<Taken.hash>>, Taken.urls)
                BY <2>1 DEF TakeCandidate
            <3>2. QED
                BY <3>1, ResolveKeeps
        <2>2. CASE QueueCandidate
            BY <2>2, TakenUpKeeps DEF QueueCandidate
        <2>3. QED
            BY <1>3, <2>1, <2>2 DEF HandoffStep, HandoffSteps, BeginMovieProbe, EndHandoff
    <1>4. CASE ProbeBegins \/ SeriesProbeBegins
        BY <1>4 DEF ProbeBegins, SeriesProbeBegins
    <1>5. QED
        BY <1>1, <1>2, <1>3, <1>4 DEF AcquisitionNext

FetchesNew == ResolverAt("reference") /\ resolver'.pc = "fetch" => resolver'.at \notin resolver.fetched

LEMMA FetchStep ==
    ASSUME FetchInv, [AcquisitionNext]_acquisitionVars
    PROVE  FetchInv' /\ FetchesNew
    <1>1. CASE UNCHANGED resolver
        BY <1>1 DEF FetchInv, FetchesNew, ResolverAt
    <1>2. CASE resolver' = NewResolver
        BY <1>2, NewKeeps DEF FetchesNew, NewResolver
    <1>3. CASE ResolveReference
        BY <1>3, ResolverKeeps DEF FetchesNew
    <1>4. QED
        BY <1>1, <1>2, <1>3, ResolverSteps DEF FetchesNew, ResolverAt, acquisitionVars

\* A download reference is fetched once in a command, whatever came of it and however
\* many results list it: MagnetResolver.resolve looks into its cache first, and every
\* outcome gets there.
THEOREM ReferencesFetchedOnce == AcquisitionSpec => FetchedOnce
    <1>1. AcquisitionInit => FetchInv
        BY NewKeepsNow DEF AcquisitionInit
    <1>2. FetchInv /\ [AcquisitionNext]_acquisitionVars => FetchInv'
        BY FetchStep
    <1>3. FetchInv /\ [AcquisitionNext]_acquisitionVars => [FetchesNew]_acquisitionVars
        BY FetchStep
    <1>4. FetchedOnce <=> [][FetchesNew]_acquisitionVars
        BY DEF FetchedOnce, FetchesNew
    <1>5. QED
        BY <1>1, <1>2, <1>3, <1>4, PTL DEF AcquisitionSpec

-----------------------------------------------------------------------------
(* The movie search *)

SearchShape(s) ==
    s = [pc |-> s.pc, explicit |-> s.explicit, asked |-> s.asked, indexers |-> s.indexers,
         movie |-> s.movie, raw |-> s.raw, warned |-> s.warned, succeeded |-> s.succeeded,
         groups |-> s.groups, exit |-> s.exit, told |-> s.told, heard |-> s.heard, offered |-> s.offered,
         rejected |-> s.rejected]

\* The movie was put to the j-th indexer, and there was an answer or a warning.
Covered(s, j, k) == <<s.indexers[j], Movies[k]>> \in s.heard \cup s.warned

CoveredByAll(s, k) == \A j \in 1..Len(s.indexers) : Covered(s, j, k)

\* Of the indexers Jackett told of each is asked or warned of; who succeeded was heard.
Gathered(s) ==
    /\ SearchShape(s)
    /\ s.indexers \in Seq(Range(Indexers)) /\ s.raw \in Seq(MovieReleases) /\ s.offered = Range(s.raw)
    /\ Lists(s.groups) /\ Len(s.groups) = IF s.pc = "report" THEN s.movie ELSE s.movie - 1
    /\ s.movie \in 1..Len(Movies) /\ s.exit = 9
    /\ \A i \in s.told : i \in Range(s.indexers) \cup s.warned
    /\ s.succeeded # {} <=> s.heard # {}

\* A report: every query was heard or warned of.
Honestly(s) ==
    /\ s.heard # {}
    /\ \A i \in s.told, m \in Range(Movies) : <<i, m>> \in s.heard \/ {i, <<i, m>>} \cap s.warned # {}

\* How far the search has come: movie by movie, and indexer by indexer.
SearchInv(s) ==
    /\ SearchShape(s)
    /\ s.pc \in {"off", "discover", "capabilities", "query", "rank", "report", "end", "over"}
    /\ s.pc \in {"discover", "capabilities", "query", "rank", "report"} => Gathered(s)
    /\ s.pc \in {"discover", "capabilities"} => s.movie = 1 /\ s.heard = {}
    /\ s.pc = "capabilities" => s.asked \in 1..Len(Indexers)
    /\ s.pc \in {"query", "rank", "report"} => \A k \in 1..(s.movie - 1) : CoveredByAll(s, k)
    /\ s.pc \in {"query", "rank"} => s.asked \in 1..Len(s.indexers)
    /\ s.pc = "query" => \A j \in 1..(s.asked - 1) : Covered(s, j, s.movie)
    /\ s.pc \in {"rank", "report"} => CoveredByAll(s, s.movie)
    /\ s.pc = "report" => s.movie = Len(Movies)
    /\ s.pc \in {"off", "over"} => s.exit = 9 /\ s.groups = << >>
    /\ s.pc = "end" => s.exit \in {0, 4, 5} /\ (s.exit # 0 => s.groups = << >>)
    /\ s.pc = "end" /\ s.exit = 0 => Honestly(s) /\ Lists(s.groups) /\ Len(s.groups) <= Len(Movies)
    /\ s.pc = "end" /\ s.exit = 4 => s.heard = {} \/ s.rejected = TRUE
    /\ s.pc = "end" /\ s.exit = 5 => s.heard # {}

LEMMA Lengths ==
    /\ Indexers \in Seq(Range(Indexers)) /\ Len(Indexers) \in Nat /\ 1 \in 1..Len(Indexers)
    /\ Movies \in Seq(Range(Movies)) /\ Len(Movies) \in Nat /\ 1 \in 1..Len(Movies)
    BY Filled, JackettAssumption, SearchAssumption

\* A command that ends without a report.
LEMMA EndsKeeps ==
    ASSUME NEW s, NEW exit,
           \/ exit = 4 /\ (s.heard = {} \/ s.rejected = TRUE)
           \/ exit = 5 /\ s.heard # {}
    PROVE  SearchInv(SearchEnds(s, exit))
    <1> DEFINE t == SearchEnds(s, exit)
    <1>1. t = [NewSearch EXCEPT !.pc = "end", !.exit = exit, !.heard = s.heard,
                                !.told = s.told, !.warned = s.warned, !.rejected = s.rejected]
        BY DEF SearchEnds
    <1> HIDE DEF t
    <1>2. SearchShape(NewSearch) /\ NewSearch.groups = << >>
        BY DEF SearchShape, NewSearch
    <1>3. /\ SearchShape(t) /\ t.pc = "end" /\ t.exit = exit /\ t.groups = << >>
          /\ t.heard = s.heard /\ t.rejected = s.rejected
        BY <1>1, <1>2 DEF SearchShape
    <1>4. SearchInv(t)
        BY <1>3 DEF SearchInv
    <1>5. QED
        BY <1>4 DEF t

\* The indexers are known, and the first query comes next.
LEMMA ChosenKeeps ==
    ASSUME NEW s, Gathered(s), s.movie = 1, s.heard = {}, s.pc # "report"
    PROVE  SearchInv(Chosen(s))
    <1>1. CASE s.indexers = << >>
        BY <1>1, EndsKeeps DEF Chosen
    <1>2. CASE s.indexers # << >>
        <2> DEFINE t == Chosen(s)
        <2>1. t = [s EXCEPT !.pc = "query", !.asked = 1]
            BY <1>2 DEF Chosen
        <2>2. /\ SearchShape(t) /\ t.pc = "query" /\ t.asked = 1 /\ t.indexers = s.indexers /\ t.movie = 1
              /\ t.raw = s.raw /\ t.groups = s.groups /\ t.told = s.told /\ t.warned = s.warned
              /\ t.succeeded = s.succeeded /\ t.heard = s.heard /\ t.offered = s.offered /\ t.exit = s.exit
            BY <2>1 DEF Gathered, SearchShape
        <2>3. Len(t.indexers) \in Nat /\ 1 \in 1..Len(t.indexers)
            BY <1>2, <2>2, Filled DEF Gathered
        <2>4. 1..(1 - 1) = {}
            OBVIOUS
        <2> HIDE DEF t
        <2>5. Gathered(t)
            BY <2>2 DEF Gathered
        <2>6. SearchInv(t)
            BY <2>2, <2>3, <2>4, <2>5 DEF SearchInv
        <2>7. QED
            BY <2>6 DEF t
    <1>3. QED
        BY <1>1, <1>2

\* After the capabilities of an indexer come the next one's, or the queries.
LEMMA AskedKeeps ==
    ASSUME NEW s, Gathered(s), s.movie = 1, s.heard = {}, s.pc = "capabilities",
           s.asked \in 1..Len(Indexers)
    PROVE  SearchInv(Asked(s))
    <1>1. CASE s.asked = Len(Indexers)
        BY <1>1, ChosenKeeps DEF Asked
    <1>2. CASE s.asked # Len(Indexers)
        <2> DEFINE t == Asked(s)
        <2>1. t = [s EXCEPT !.asked = s.asked + 1]
            BY <1>2 DEF Asked
        <2>2. /\ SearchShape(t) /\ t.pc = "capabilities" /\ t.asked = s.asked + 1
              /\ t.indexers = s.indexers /\ t.movie = 1
              /\ t.raw = s.raw /\ t.groups = s.groups /\ t.told = s.told /\ t.warned = s.warned
              /\ t.succeeded = s.succeeded /\ t.heard = s.heard /\ t.offered = s.offered /\ t.exit = s.exit
            BY <2>1 DEF Gathered, SearchShape
        <2>3. t.asked \in 1..Len(Indexers)
            BY <1>2, <2>2, Lengths
        <2> HIDE DEF t
        <2>4. Gathered(t)
            BY <2>2 DEF Gathered
        <2>5. SearchInv(t)
            BY <2>2, <2>3, <2>4 DEF SearchInv
        <2>6. QED
            BY <2>5 DEF t
    <1>3. QED
        BY <1>1, <1>2

\* After the query of an indexer comes the next one's, or the ranking.
LEMMA QueriedKeeps ==
    ASSUME NEW s, Gathered(s), s.pc = "query", s.asked \in 1..Len(s.indexers),
           \A k \in 1..(s.movie - 1) : CoveredByAll(s, k),
           \A j \in 1..s.asked : Covered(s, j, s.movie)
    PROVE  SearchInv(Queried(s))
    <1>0. Len(s.indexers) \in Nat
        BY DEF Gathered
    <1> DEFINE t == Queried(s)
    <1>1. CASE s.asked = Len(s.indexers)
        <2>1. t = [s EXCEPT !.pc = "rank"]
            BY <1>1 DEF Queried
        <2>2. /\ SearchShape(t) /\ t.pc = "rank" /\ t.asked = s.asked
              /\ t.indexers = s.indexers /\ t.movie = s.movie
              /\ t.raw = s.raw /\ t.groups = s.groups /\ t.told = s.told /\ t.warned = s.warned
              /\ t.succeeded = s.succeeded /\ t.heard = s.heard /\ t.offered = s.offered /\ t.exit = s.exit
            BY <2>1 DEF Gathered, SearchShape
        <2> HIDE DEF t
        <2>3. Gathered(t)
            BY <2>2 DEF Gathered
        <2>4. /\ \A k \in 1..(t.movie - 1) : CoveredByAll(t, k)
              /\ CoveredByAll(t, t.movie)
            BY <1>1, <2>2 DEF CoveredByAll, Covered
        <2>5. QED
            BY <2>2, <2>3, <2>4 DEF SearchInv, t
    <1>2. CASE s.asked # Len(s.indexers)
        <2>1. t = [s EXCEPT !.asked = s.asked + 1]
            BY <1>2 DEF Queried
        <2>2. /\ SearchShape(t) /\ t.pc = "query" /\ t.asked = s.asked + 1
              /\ t.indexers = s.indexers /\ t.movie = s.movie
              /\ t.raw = s.raw /\ t.groups = s.groups /\ t.told = s.told /\ t.warned = s.warned
              /\ t.succeeded = s.succeeded /\ t.heard = s.heard /\ t.offered = s.offered /\ t.exit = s.exit
            BY <2>1 DEF Gathered, SearchShape
        <2>3. t.asked \in 1..Len(t.indexers) /\ 1..(t.asked - 1) = 1..s.asked
            BY <1>0, <1>2, <2>2
        <2> HIDE DEF t
        <2>4. Gathered(t)
            BY <2>2 DEF Gathered
        <2>5. /\ \A k \in 1..(t.movie - 1) : CoveredByAll(t, k)
              /\ \A j \in 1..(t.asked - 1) : Covered(t, j, t.movie)
            BY <2>2, <2>3 DEF CoveredByAll, Covered
        <2>6. QED
            BY <2>2, <2>3, <2>4, <2>5 DEF SearchInv, t
    <1>3. QED
        BY <1>1, <1>2

\* Where nothing was forgotten, what was covered is.
LEMMA StaysCovered ==
    ASSUME NEW s, NEW t, t.indexers = s.indexers, s.heard \subseteq t.heard, s.warned \subseteq t.warned
    PROVE  /\ \A j, k : Covered(s, j, k) => Covered(t, j, k)
           /\ \A k : CoveredByAll(s, k) => CoveredByAll(t, k)
    <1>1. \A j, k : Covered(s, j, k) => Covered(t, j, k)
        BY DEF Covered
    <1>2. QED
        BY <1>1 DEF CoveredByAll

\* Of the configured indexers those in a set are a sequence, and of no others.
LEMMA ConfiguredIs ==
    ASSUME NEW S \in SUBSET Range(Indexers)
    PROVE  /\ Configured(S) \in Seq(Range(Indexers)) /\ Range(Configured(S)) = S
           /\ Len(Configured(S)) = Cardinality(S)
    <1> DEFINE P == {k \in 1..Len(Indexers) : Indexers[k] \in S}
    <1>1. P \in SUBSET (1..Len(Indexers)) /\ Configured(S) = Kept(Indexers, P)
        BY DEF Configured
    <1>2. DOMAIN Indexers = 1..Len(Indexers)
        BY Lengths
    <1>3. \A i \in S : \E k \in P : Indexers[k] = i
        BY <1>2 DEF Range
    <1>4. \A k \in P : Indexers[k] \in S
        OBVIOUS
    <1> HIDE DEF P
    <1>5. /\ Kept(Indexers, P) \in Seq(Range(Indexers))
          /\ Len(Kept(Indexers, P)) = Cardinality(P)
          /\ Range(Kept(Indexers, P)) = {Indexers[k] : k \in P}
        <2> DEFINE t == Kept(Indexers, P)
        <2>1. /\ t \in Seq(Range(Indexers)) /\ Len(t) = Cardinality(P)
              /\ \A k \in P : \E n \in 1..Len(t) : t[n] = Indexers[k]
              /\ \A n \in 1..Len(t) : \E k \in P : t[n] = Indexers[k]
            BY <1>1, Lengths, KeptIs
        <2> HIDE DEF t
        <2>2. DOMAIN t = 1..Len(t)
            BY <2>1
        <2>3. Range(t) = {t[n] : n \in 1..Len(t)}
            BY <2>2 DEF Range
        <2>4. {t[n] : n \in 1..Len(t)} = {Indexers[k] : k \in P}
            BY <2>1
        <2>5. QED
            BY <2>1, <2>3, <2>4 DEF t
    <1>6. {Indexers[k] : k \in P} = S
        BY <1>3, <1>4
    <1>7. Cardinality(P) = Cardinality(S)
        <2> DEFINE f == [k \in P |-> Indexers[k]]
        <2>1. f \in Bijection(P, S)
            <3>1. f \in Surjection(P, S)
                BY <1>3, <1>4 DEF Surjection
            <3>2. f \in Injection(P, S)
                BY <1>1, <1>2, <1>4, JackettAssumption DEF Injection, IsInjective
            <3>3. QED
                BY <3>1, <3>2 DEF Bijection
        <2>2. IsFiniteSet(P)
            BY <1>1, Lengths, Counting
        <2>3. QED
            BY <2>1, <2>2, FS_Bijection DEF ExistsBijection
    <1>8. QED
        BY <1>1, <1>5, <1>6, <1>7

LEMMA BeginSearchKeeps == SearchInv(search) /\ BeginSearch => SearchInv(search')
    <1>1. ASSUME NEW explicit \in BOOLEAN,
                 search' = [NewSearch EXCEPT !.explicit = explicit, !.pc = IF explicit THEN "capabilities"
                                                                           ELSE "discover"]
          PROVE  SearchInv(search')
        <2>1. SearchShape(NewSearch)
            BY DEF SearchShape, NewSearch
        <2>2. /\ SearchShape(search') /\ search'.pc \in {"capabilities", "discover"} /\ search'.asked = 1
              /\ search'.indexers = << >> /\ search'.movie = 1 /\ search'.raw = << >>
              /\ search'.groups = << >> /\ search'.told = {} /\ search'.succeeded = {} /\ search'.heard = {}
              /\ search'.offered = {} /\ search'.exit = 9
            BY <1>1, <2>1 DEF SearchShape, NewSearch
        <2>3. Gathered(search')
            BY <2>2, Nothing, Lengths DEF Gathered
        <2>4. QED
            BY <2>2, <2>3, Lengths DEF SearchInv
    <1>2. QED
        BY <1>1 DEF BeginSearch

LEMMA IndexersDiscoveredKeeps == SearchInv(search) /\ IndexersDiscovered => SearchInv(search')
    <1> SUFFICES ASSUME SearchInv(search), IndexersDiscovered
                 PROVE  SearchInv(search')
        OBVIOUS
    <1>0. PICK told \in (SUBSET Range(Indexers)) \ {{}} : \E movies \in SUBSET told :
             search' = Chosen([search EXCEPT !.told = told, !.warned = told \ movies,
                                             !.indexers = Configured(movies)])
        BY DEF IndexersDiscovered
    <1>1. PICK movies \in SUBSET told :
             search' = Chosen([search EXCEPT !.told = told, !.warned = told \ movies,
                                             !.indexers = Configured(movies)])
        BY <1>0
    <1>2. search.pc = "discover" /\ Gathered(search) /\ search.movie = 1 /\ search.heard = {}
        BY DEF IndexersDiscovered, SearchAt, SearchInv
    <1> DEFINE s == [search EXCEPT !.told = told, !.warned = told \ movies,
                                   !.indexers = Configured(movies)]
    <1> HIDE DEF s
    <1>3. s = [search EXCEPT !.told = told, !.warned = told \ movies, !.indexers = Configured(movies)]
        BY DEF s
    <1>4. /\ SearchShape(s) /\ s.pc = "discover"
          /\ s.told = told /\ s.warned = told \ movies /\ s.indexers = Configured(movies)
          /\ s.raw = search.raw /\ s.groups = search.groups /\ s.movie = 1
          /\ s.succeeded = search.succeeded /\ s.heard = search.heard /\ s.offered = search.offered /\ s.exit = search.exit
        BY <1>2, <1>3 DEF Gathered, SearchShape
    <1>5. movies \in SUBSET Range(Indexers)
        OBVIOUS
    <1>6. Configured(movies) \in Seq(Range(Indexers)) /\ Range(Configured(movies)) = movies
        BY <1>5, ConfiguredIs
    <1>7. Gathered(s)
        BY <1>2, <1>4, <1>6 DEF Gathered
    <1>8. QED
        BY <1>1, <1>2, <1>4, <1>7, ChosenKeeps DEF s

\* One indexer more, at the end.
LEMMA OneMore ==
    ASSUME NEW V, NEW q \in Seq(V), NEW v \in V
    PROVE  Append(q, v) \in Seq(V) /\ Range(Append(q, v)) = Range(q) \cup {v}
    <1> DEFINE t == Append(q, v)
    <1>1. /\ t \in Seq(V) /\ Len(q) \in Nat /\ Len(t) = Len(q) + 1
          /\ \A k \in 1..Len(q) : t[k] = q[k]
          /\ t[Len(q) + 1] = v
        OBVIOUS
    <1> HIDE DEF t
    <1>2. DOMAIN t = 1..(Len(q) + 1) /\ DOMAIN q = 1..Len(q)
        BY <1>1
    <1>3. Range(t) = Range(q) \cup {v}
        BY <1>1, <1>2 DEF Range
    <1>4. QED
        BY <1>1, <1>3 DEF t

LEMMA CapabilitiesKeep ==
    ASSUME SearchInv(search), CapabilitiesKnown \/ CapabilitiesFail
    PROVE  SearchInv(search')
    <1> DEFINE indexer == Indexers[search.asked]
    <1>1. /\ search.pc = "capabilities" /\ Gathered(search) /\ search.asked \in 1..Len(Indexers)
          /\ search.movie = 1 /\ search.heard = {}
        BY DEF CapabilitiesKnown, CapabilitiesFail, SearchAt, SearchInv
    <1>2. indexer \in Range(Indexers)
        <2>1. DOMAIN Indexers = 1..Len(Indexers)
            BY Lengths
        <2>2. QED
            BY <1>1, <2>1 DEF Range
    <1> HIDE DEF indexer
    <1>3. \/ search' = Asked([[search EXCEPT !.told = @ \cup {indexer}] EXCEPT
                                 !.indexers = Append(@, indexer)])
          \/ search' = Asked([[search EXCEPT !.told = @ \cup {indexer}] EXCEPT
                                 !.warned = @ \cup {indexer}])
          \/ search' = Asked([search EXCEPT !.told = @ \cup {indexer}, !.warned = @ \cup {indexer}])
        BY DEF CapabilitiesKnown, CapabilitiesFail, indexer
    <1>4. ASSUME NEW s, SearchShape(s), s.pc = "capabilities", s.told = search.told \cup {indexer},
                 s.raw = search.raw, s.groups = search.groups, s.movie = 1, s.asked = search.asked,
                 s.succeeded = search.succeeded, s.heard = search.heard, s.offered = search.offered, s.exit = search.exit,
                 \/ s.indexers = Append(search.indexers, indexer) /\ s.warned = search.warned
                 \/ s.indexers = search.indexers /\ s.warned = search.warned \cup {indexer}
          PROVE  SearchInv(Asked(s))
        <2>0. /\ search.indexers \in Seq(Range(Indexers))
              /\ \A i \in search.told : i \in Range(search.indexers) \cup search.warned
            BY <1>1 DEF Gathered
        <2>1. /\ Append(search.indexers, indexer) \in Seq(Range(Indexers))
              /\ Range(Append(search.indexers, indexer)) = Range(search.indexers) \cup {indexer}
            BY <1>2, <2>0, OneMore
        <2>2. /\ s.indexers \in Seq(Range(Indexers))
              /\ \A i \in s.told : i \in Range(s.indexers) \cup s.warned
            BY <1>4, <2>0, <2>1
        <2>3. Gathered(s)
            BY <1>1, <1>4, <2>2 DEF Gathered
        <2>4. QED
            BY <1>1, <1>4, <2>3, AskedKeeps
    <1>5. SearchShape(search)
        BY <1>1 DEF Gathered
    <1>6. ASSUME NEW s, s = [[search EXCEPT !.told = @ \cup {indexer}] EXCEPT !.indexers = Append(@, indexer)],
                 search' = Asked(s)
          PROVE  SearchInv(search')
        <2>1. s = [[search EXCEPT !.told = search.told \cup {indexer}] EXCEPT !.indexers = Append(search.indexers, indexer)]
            BY <1>5, <1>6 DEF SearchShape
        <2>2. /\ SearchShape(s) /\ s.told = search.told \cup {indexer}
              /\ s.warned = search.warned /\ s.indexers = Append(search.indexers, indexer)
              /\ s.pc = search.pc /\ s.asked = search.asked /\ s.raw = search.raw
              /\ s.groups = search.groups /\ s.movie = search.movie
              /\ s.succeeded = search.succeeded /\ s.heard = search.heard /\ s.offered = search.offered /\ s.exit = search.exit
            BY <1>5, <2>1 DEF SearchShape
        <2>3. QED
            BY <1>1, <1>4, <1>6, <2>2
    <1>7. ASSUME NEW s, s = [[search EXCEPT !.told = @ \cup {indexer}] EXCEPT !.warned = @ \cup {indexer}],
                 search' = Asked(s)
          PROVE  SearchInv(search')
        <2>1. s = [[search EXCEPT !.told = search.told \cup {indexer}] EXCEPT !.warned = search.warned \cup {indexer}]
            BY <1>5, <1>7 DEF SearchShape
        <2>2. /\ SearchShape(s) /\ s.told = search.told \cup {indexer}
              /\ s.warned = search.warned \cup {indexer} /\ s.indexers = search.indexers
              /\ s.pc = search.pc /\ s.asked = search.asked /\ s.raw = search.raw
              /\ s.groups = search.groups /\ s.movie = search.movie
              /\ s.succeeded = search.succeeded /\ s.heard = search.heard /\ s.offered = search.offered /\ s.exit = search.exit
            BY <1>5, <2>1 DEF SearchShape
        <2>3. QED
            BY <1>1, <1>4, <1>7, <2>2
    <1>8. ASSUME NEW s, s = [search EXCEPT !.told = @ \cup {indexer}, !.warned = @ \cup {indexer}],
                 search' = Asked(s)
          PROVE  SearchInv(search')
        <2>1. s = [search EXCEPT !.told = search.told \cup {indexer}, !.warned = search.warned \cup {indexer}]
            BY <1>5, <1>8 DEF SearchShape
        <2>2. /\ SearchShape(s) /\ s.told = search.told \cup {indexer}
              /\ s.warned = search.warned \cup {indexer} /\ s.indexers = search.indexers
              /\ s.pc = search.pc /\ s.asked = search.asked /\ s.raw = search.raw
              /\ s.groups = search.groups /\ s.movie = search.movie
              /\ s.succeeded = search.succeeded /\ s.heard = search.heard /\ s.offered = search.offered /\ s.exit = search.exit
            BY <1>5, <2>1 DEF SearchShape
        <2>3. QED
            BY <1>1, <1>4, <1>8, <2>2
    <1>9. QED
        BY <1>3, <1>6, <1>7, <1>8

\* What a query leaves: an answer or a warning, and all that was there before.
LEMMA QueryKeeps ==
    ASSUME SearchInv(search), SearchAt("query"), NEW s, SearchShape(s), s.pc = "query",
           s.asked = search.asked, s.indexers = search.indexers, s.movie = search.movie,
           s.groups = search.groups, s.told = search.told, s.exit = search.exit,
           s.raw \in Seq(MovieReleases), s.offered = Range(s.raw),
           search.heard \subseteq s.heard, search.warned \subseteq s.warned,
           s.succeeded # {} <=> s.heard # {},
           Query \in s.heard \cup s.warned
    PROVE  SearchInv(Queried(s))
    <1>1. /\ Gathered(search) /\ search.asked \in 1..Len(search.indexers)
          /\ \A k \in 1..(search.movie - 1) : CoveredByAll(search, k)
          /\ \A j \in 1..(search.asked - 1) : Covered(search, j, search.movie)
        BY DEF SearchAt, SearchInv
    <1>2. Gathered(s)
        BY <1>1 DEF Gathered, SearchAt
    <1>3. /\ \A j, k : Covered(search, j, k) => Covered(s, j, k)
          /\ \A k : CoveredByAll(search, k) => CoveredByAll(s, k)
        BY StaysCovered
    <1>4. Covered(s, search.asked, search.movie)
        BY DEF Covered, Query
    <1>5. \A j \in 1..s.asked : j = search.asked \/ j \in 1..(search.asked - 1)
        <2>1. Len(search.indexers) \in Nat
            BY <1>1 DEF Gathered
        <2>2. QED
            BY <1>1, <2>1
    <1>6. \A j \in 1..s.asked : Covered(s, j, s.movie)
        BY <1>1, <1>3, <1>4, <1>5
    <1>7. QED
        BY <1>1, <1>2, <1>3, <1>6, QueriedKeeps

LEMMA MovieFoundKeeps == SearchInv(search) /\ MovieFound => SearchInv(search')
    <1> SUFFICES ASSUME SearchInv(search), MovieFound
                 PROVE  SearchInv(search')
        OBVIOUS
    <1>1. SearchAt("query") /\ search.pc = "query"
        BY DEF MovieFound, SearchAt
    <1>2. Gathered(search) /\ SearchShape(search) /\ search.asked \in 1..Len(search.indexers)
        BY <1>1 DEF SearchInv
    <1>3. PICK items \in Offers[Query] :
             search' = Queried([search EXCEPT !.raw = @ \o Parsed(items, Len(search.raw)),
                                              !.succeeded = @ \cup {Query[1]},
                                              !.heard = @ \cup {Query},
                                              !.offered = @ \cup Range(Parsed(items, Len(search.raw)))])
        BY DEF MovieFound
    <1>4. items \in Seq(MovieReleases)
        <2>1. search.indexers[search.asked] \in Range(Indexers)
            <3>1. ASSUME NEW V, NEW q \in Seq(V), NEW k \in 1..Len(q)
                  PROVE  q[k] \in V
                OBVIOUS
            <3>2. QED
                BY <1>2, <3>1 DEF Gathered
        <2>2. Movies[search.movie] \in Range(Movies)
            <3>1. DOMAIN Movies = 1..Len(Movies)
                BY Lengths
            <3>2. QED
                BY <1>2, <3>1 DEF Gathered, Range
        <2>3. QED
            BY <2>1, <2>2, SearchAssumption DEF Query
    <1> DEFINE found == Parsed(items, Len(search.raw))
               s == [search EXCEPT !.raw = @ \o found, !.succeeded = @ \cup {Query[1]},
                                   !.heard = @ \cup {Query}, !.offered = @ \cup Range(found)]
    <1>5. found \in Seq(MovieReleases)
        BY <1>2, <1>4, ParsedMovies DEF Gathered
    <1>6. search' = Queried(s)
        BY <1>3
    <1> HIDE DEF found
    <1>7. s = [search EXCEPT !.raw = search.raw \o found, !.succeeded = search.succeeded \cup {Query[1]},
                             !.heard = search.heard \cup {Query}, !.offered = search.offered \cup Range(found)]
        BY <1>2 DEF SearchShape
    <1> HIDE DEF s
    <1>8. /\ SearchShape(s) /\ s.pc = search.pc /\ s.asked = search.asked /\ s.indexers = search.indexers
          /\ s.movie = search.movie /\ s.groups = search.groups /\ s.told = search.told
          /\ s.raw = search.raw \o found /\ s.heard = search.heard \cup {Query} /\ s.warned = search.warned
          /\ s.offered = search.offered \cup Range(found) /\ s.exit = search.exit
          /\ s.succeeded = search.succeeded \cup {Query[1]}
        BY <1>2, <1>7 DEF SearchShape
    <1>9. s.raw \in Seq(MovieReleases) /\ s.offered = Range(s.raw)
        BY <1>2, <1>5, <1>8, JoinedRange DEF Gathered
    <1>10. Query \in s.heard /\ s.succeeded # {}
        BY <1>8
    <1>11. QED
        BY <1>1, <1>6, <1>8, <1>9, <1>10, QueryKeeps

LEMMA MovieQueryFailsKeeps == SearchInv(search) /\ MovieQueryFails => SearchInv(search')
    <1> SUFFICES ASSUME SearchInv(search), MovieQueryFails
                 PROVE  SearchInv(search')
        OBVIOUS
    <1>1. SearchAt("query") /\ search.pc = "query"
        BY DEF MovieQueryFails, SearchAt
    <1>2. /\ Gathered(search) /\ SearchShape(search)
          /\ search.raw \in Seq(MovieReleases) /\ search.offered = Range(search.raw)
          /\ search.succeeded # {} <=> search.heard # {}
        BY <1>1 DEF SearchInv, Gathered
    <1> DEFINE s == [search EXCEPT !.warned = @ \cup {Query}]
    <1>3. search' = Queried(s)
        BY DEF MovieQueryFails
    <1>4. s = [search EXCEPT !.warned = search.warned \cup {Query}]
        BY <1>2 DEF SearchShape
    <1> HIDE DEF s
    <1>5. /\ SearchShape(s) /\ s.pc = search.pc /\ s.asked = search.asked /\ s.indexers = search.indexers
          /\ s.movie = search.movie /\ s.groups = search.groups /\ s.told = search.told
          /\ s.raw = search.raw /\ s.heard = search.heard /\ s.succeeded = search.succeeded
          /\ s.offered = search.offered /\ s.exit = search.exit
          /\ s.warned = search.warned \cup {Query}
        BY <1>2, <1>4 DEF SearchShape
    <1>6. Query \in s.warned
        BY <1>5
    <1>7. QED
        BY <1>1, <1>2, <1>3, <1>5, <1>6, QueryKeeps

\* After the last movie comes the report, after another the next one's queries.
LEMMA RankMovieKeeps == SearchInv(search) /\ RankMovie => SearchInv(search')
    <1> SUFFICES ASSUME SearchInv(search), RankMovie
                 PROVE  SearchInv(search')
        OBVIOUS
    <1>1. /\ search.pc = "rank" /\ Gathered(search) /\ search.asked \in 1..Len(search.indexers)
          /\ \A k \in 1..(search.movie - 1) : CoveredByAll(search, k)
          /\ CoveredByAll(search, search.movie)
        BY DEF RankMovie, SearchAt, SearchInv
    <1> DEFINE groups == Append(search.groups, MovieResults(search.raw))
    <1>2. Lists(groups) /\ Len(groups) = search.movie
        BY <1>1, ResultsList, ListsGrow DEF Gathered
    <1>3. SearchShape(search) /\ search.movie \in 1..Len(Movies) /\ Len(Movies) \in Nat
        BY <1>1, Lengths DEF Gathered
    <1>4. CASE search.movie = Len(Movies)
        <2>1. search' = [[search EXCEPT !.groups = Append(@, MovieResults(search.raw)),
                                        !.raw = << >>, !.offered = {}, !.asked = 1] EXCEPT !.pc = "report"]
            BY <1>4 DEF RankMovie
        <2>2. search' = [search EXCEPT !.groups = groups, !.raw = << >>, !.offered = {}, !.asked = 1,
                                       !.pc = "report"]
            BY <1>3, <2>1 DEF SearchShape
        <2> HIDE DEF groups
        <2>3. /\ SearchShape(search') /\ search'.pc = "report" /\ search'.groups = groups
              /\ search'.raw = << >> /\ search'.movie = search.movie /\ search'.indexers = search.indexers
              /\ search'.told = search.told /\ search'.warned = search.warned
              /\ search'.heard = search.heard /\ search'.succeeded = search.succeeded
              /\ search'.offered = {} /\ search'.exit = search.exit
            BY <1>3, <2>2 DEF SearchShape
        <2>4. Gathered(search')
            BY <1>1, <1>2, <2>3, Nothing DEF Gathered
        <2>5. \A k : CoveredByAll(search, k) => CoveredByAll(search', k)
            BY <2>3, StaysCovered
        <2>6. QED
            BY <1>1, <1>4, <2>3, <2>4, <2>5 DEF SearchInv
    <1>5. CASE search.movie # Len(Movies)
        <2>1. search' = [[search EXCEPT !.groups = Append(@, MovieResults(search.raw)),
                                        !.raw = << >>, !.offered = {}, !.asked = 1]
                            EXCEPT !.pc = "query", !.movie = @ + 1]
            BY <1>5 DEF RankMovie
        <2>2. search' = [search EXCEPT !.groups = groups, !.raw = << >>, !.offered = {}, !.asked = 1,
                                       !.pc = "query", !.movie = search.movie + 1]
            BY <1>3, <2>1 DEF SearchShape
        <2> HIDE DEF groups
        <2>3. /\ SearchShape(search') /\ search'.pc = "query" /\ search'.groups = groups
              /\ search'.raw = << >> /\ search'.movie = search.movie + 1 /\ search'.asked = 1
              /\ search'.indexers = search.indexers
              /\ search'.told = search.told /\ search'.warned = search.warned
              /\ search'.heard = search.heard /\ search'.succeeded = search.succeeded
              /\ search'.offered = {} /\ search'.exit = search.exit
            BY <1>3, <2>2 DEF SearchShape
        <2>4. search'.movie \in 1..Len(Movies)
            BY <1>3, <1>5, <2>3
        <2>5. Gathered(search')
            BY <1>1, <1>2, <2>3, <2>4, Nothing DEF Gathered
        <2>6. \A k : CoveredByAll(search, k) => CoveredByAll(search', k)
            BY <2>3, StaysCovered
        <2>7. \A k \in 1..(search'.movie - 1) : k = search.movie \/ k \in 1..(search.movie - 1)
            BY <1>3, <2>3
        <2>8. \A k \in 1..(search'.movie - 1) : CoveredByAll(search', k)
            BY <1>1, <2>6, <2>7
        <2>9. search'.asked \in 1..Len(search'.indexers) /\ 1..(search'.asked - 1) = {}
            <3>1. Len(search.indexers) \in Nat
                BY <1>1 DEF Gathered
            <3>2. QED
                BY <1>1, <2>3, <3>1
        <2>10. QED
            BY <2>3, <2>5, <2>8, <2>9 DEF SearchInv
    <1>6. QED
        BY <1>4, <1>5

\* The report is for a search that was answered, and covers what there was.
LEMMA ReportKeeps == SearchInv(search) /\ Report => SearchInv(search')
    <1> SUFFICES ASSUME SearchInv(search), Report
                 PROVE  SearchInv(search')
        OBVIOUS
    <1>1. /\ search.pc = "report" /\ Gathered(search) /\ search.movie = Len(Movies)
          /\ \A k \in 1..(search.movie - 1) : CoveredByAll(search, k)
          /\ CoveredByAll(search, search.movie)
        BY DEF Report, SearchAt, SearchInv
    <1>2. CASE \/ search.succeeded = {} /\ search' = SearchEnds(search, 4)
               \/ search.succeeded # {} /\ search' = SearchEnds(search, 5)
        BY <1>1, <1>2, EndsKeeps DEF Gathered
    <1>3. CASE search.succeeded # {} /\ search' = [SearchEnds(search, 0) EXCEPT !.groups = search.groups]
        <2> DEFINE t == SearchEnds(search, 0)
        <2>1. t = [NewSearch EXCEPT !.pc = "end", !.exit = 0, !.heard = search.heard,
                                    !.told = search.told, !.warned = search.warned,
                                    !.rejected = search.rejected]
            BY DEF SearchEnds
        <2>2. search' = [t EXCEPT !.groups = search.groups]
            BY <1>3
        <2> HIDE DEF t
        <2>3. SearchShape(NewSearch)
            BY DEF SearchShape, NewSearch
        <2>4. SearchShape(t) /\ t.pc = "end" /\ t.exit = 0 /\ t.heard = search.heard
              /\ t.told = search.told /\ t.warned = search.warned
            BY <2>1, <2>3 DEF SearchShape
        <2>5. /\ SearchShape(search') /\ search'.pc = "end" /\ search'.exit = 0 /\ search'.heard = search.heard
              /\ search'.told = search.told /\ search'.warned = search.warned
              /\ search'.groups = search.groups
            BY <2>2, <2>4 DEF SearchShape
        <2>6. ASSUME NEW i \in search.told, NEW m \in Range(Movies)
              PROVE  <<i, m>> \in search.heard \/ {i, <<i, m>>} \cap search.warned # {}
            <3>1. PICK k \in 1..Len(Movies) : m = Movies[k]
                <4>1. DOMAIN Movies = 1..Len(Movies)
                    BY Lengths
                <4>2. QED
                    BY <4>1 DEF Range
            <3>2. CoveredByAll(search, k)
                BY <1>1, <3>1, Lengths
            <3>3. CASE i \in search.warned
                BY <3>3
            <3>4. CASE i \in Range(search.indexers)
                <4>1. DOMAIN search.indexers = 1..Len(search.indexers)
                    BY <1>1 DEF Gathered
                <4>2. PICK j \in 1..Len(search.indexers) : i = search.indexers[j]
                    BY <3>4, <4>1 DEF Range
                <4>3. <<i, m>> \in search.heard \cup search.warned
                    BY <3>1, <3>2, <4>2 DEF CoveredByAll, Covered
                <4>4. QED
                    BY <4>3
            <3>5. QED
                BY <1>1, <3>3, <3>4 DEF Gathered
        <2>7. search.heard # {} /\ Lists(search.groups) /\ Len(search.groups) <= Len(Movies)
            BY <1>1, <1>3, Lengths DEF Gathered
        <2>8. Honestly(search')
            BY <2>5, <2>6, <2>7 DEF Honestly
        <2>9. QED
            BY <2>5, <2>7, <2>8 DEF SearchInv
    <1>4. QED
        BY <1>2, <1>3 DEF Report

LEMMA SearchMoviesKeeps == SearchInv(search) /\ SearchMovies => SearchInv(search')
    <1>1. SearchInv(search) /\ AskJackett => SearchInv(search')
        BY DEF AskJackett
    <1>2. SearchInv(search) /\ SearchAborts => SearchInv(search')
        <2> SUFFICES ASSUME SearchInv(search), SearchAborts
                     PROVE  SearchInv(search')
            OBVIOUS
        <2>1. SearchShape(search)
            BY DEF SearchInv
        <2>2. [search EXCEPT !.rejected = TRUE].rejected = TRUE
            BY <2>1 DEF SearchShape
        <2>3. CASE search' = SearchEnds([search EXCEPT !.rejected = TRUE], 4)
            BY <2>2, <2>3, EndsKeeps
        <2>4. CASE search.pc = "discover" /\ search' = SearchEnds(search, 4)
            <3>1. search.heard = {}
                BY <2>4 DEF SearchInv
            <3>2. QED
                BY <2>4, <3>1, EndsKeeps
        <2>5. QED
            BY <2>3, <2>4 DEF SearchAborts, SearchAt
    <1>3. QED
        BY <1>1, <1>2, BeginSearchKeeps, IndexersDiscoveredKeeps, CapabilitiesKeep, MovieFoundKeeps,
           MovieQueryFailsKeeps, RankMovieKeeps, ReportKeeps DEF SearchMovies

-----------------------------------------------------------------------------
(* The series search *)

SeriesShape(s) ==
    s = [pc |-> s.pc, expected |-> s.expected, explicit |-> s.explicit, indexers |-> s.indexers,
         asked |-> s.asked, query |-> s.query, raw |-> s.raw, next |-> s.next, partial |-> s.partial,
         left |-> s.left, refused |-> s.refused, candidates |-> s.candidates, exit |-> s.exit,
         due |-> s.due, answered |-> s.answered, rejected |-> s.rejected]

\* As many queries are due as the indexers asked are worth, unless the report is partial.
Due(s) == s.partial = TRUE \/ s.due = Len(s.indexers) * Len(Queries)

\* Before the first query.
Fresh(s) ==
    /\ SeriesShape(s) /\ s.indexers \in Seq(Range(Indexers))
    /\ s.query = 1 /\ s.answered = 0 /\ s.partial \in BOOLEAN

\* The query that is next counts off those that were answered.
AtQuery(s) ==
    /\ SeriesShape(s) /\ s.indexers \in Seq(Range(Indexers)) /\ s.partial \in BOOLEAN
    /\ s.asked \in 1..Len(s.indexers) /\ s.query \in 1..Len(Queries)
    /\ Due(s) /\ (s.partial = TRUE \/ s.answered = (s.asked - 1) * Len(Queries) + s.query - 1)

SeriesInv(s) ==
    /\ SeriesShape(s)
    /\ s.pc \in {"off", "discover", "capabilities", "query", "rank", "resolve", "end"}
    /\ s.pc \in {"discover", "capabilities"} => Fresh(s)
    /\ s.pc = "capabilities" => s.asked \in 1..Len(Indexers) /\ Due(s)
    /\ s.pc = "query" => AtQuery(s)
    /\ s.pc \in {"rank", "resolve"} \/ (s.pc = "end" /\ s.exit = 0) =>
          s.partial \in BOOLEAN /\ (s.partial = TRUE \/ s.answered = s.due) /\ s.answered # 0
    /\ s.pc = "end" => s.exit \in {0, 4, 5}
    /\ s.pc = "end" /\ s.exit = 4 => s.answered = 0 \/ s.rejected = TRUE
    /\ s.pc = "end" /\ s.exit = 5 => s.answered # 0

LEMMA QueriesThere == Len(Queries) \in Nat /\ 1 \in 1..Len(Queries)
    BY Filled, SeriesAssumption

LEMMA SeriesEndsKeeps ==
    ASSUME NEW s, NEW exit,
           \/ exit = 4 /\ (s.answered = 0 \/ s.rejected = TRUE)
           \/ exit = 5 /\ s.answered # 0
    PROVE  SeriesInv(SeriesEnds(s, exit))
    <1> DEFINE t == SeriesEnds(s, exit)
    <1>1. t = [NewSeries EXCEPT !.pc = "end", !.exit = exit, !.answered = s.answered,
                                !.rejected = s.rejected]
        BY DEF SeriesEnds
    <1> HIDE DEF t
    <1>2. SeriesShape(NewSeries)
        BY DEF SeriesShape, NewSeries
    <1>3. /\ SeriesShape(t) /\ t.pc = "end" /\ t.exit = exit
          /\ t.answered = s.answered /\ t.rejected = s.rejected
        BY <1>1, <1>2 DEF SeriesShape
    <1>4. SeriesInv(t)
        BY <1>3 DEF SeriesInv
    <1>5. QED
        BY <1>4 DEF t

LEMMA SeriesChosenKeeps ==
    ASSUME NEW s, Fresh(s), Due(s)
    PROVE  SeriesInv(SeriesChosen(s))
    <1>1. CASE s.indexers = << >>
        BY <1>1, SeriesEndsKeeps DEF SeriesChosen, Fresh
    <1>2. CASE s.indexers # << >>
        <2> DEFINE t == SeriesChosen(s)
        <2>1. t = [s EXCEPT !.pc = "query", !.asked = 1]
            BY <1>2 DEF SeriesChosen
        <2> HIDE DEF t
        <2>2. /\ SeriesShape(t) /\ t.pc = "query" /\ t.asked = 1 /\ t.indexers = s.indexers
              /\ t.query = 1 /\ t.answered = 0 /\ t.partial = s.partial /\ t.due = s.due
            BY <2>1 DEF Fresh, SeriesShape
        <2>3. t.asked \in 1..Len(t.indexers) /\ t.query \in 1..Len(Queries)
            BY <1>2, <2>2, Filled, QueriesThere DEF Fresh
        <2>4. t.answered = (t.asked - 1) * Len(Queries) + t.query - 1
            <3>1. ASSUME NEW n \in Nat PROVE 0 = (1 - 1) * n + 1 - 1
                OBVIOUS
            <3>2. QED
                BY <2>2, <3>1, QueriesThere
        <2>5. AtQuery(t)
            BY <2>2, <2>3, <2>4 DEF AtQuery, Fresh, Due
        <2>6. SeriesInv(t)
            BY <2>2, <2>5 DEF SeriesInv
        <2>7. QED
            BY <2>6 DEF t
    <1>3. QED
        BY <1>1, <1>2

LEMMA BeginSeriesKeeps == SeriesInv(series) /\ BeginSeries => SeriesInv(series')
    <1>1. ASSUME NEW expected \in Scopes, NEW explicit \in BOOLEAN,
                 series' = [NewSeries EXCEPT !.expected = expected, !.explicit = explicit,
                                             !.pc = IF explicit THEN "capabilities" ELSE "discover"]
          PROVE  SeriesInv(series')
        <2>1. SeriesShape(NewSeries)
            BY DEF SeriesShape, NewSeries
        <2>2. /\ NewSeries.asked = 1 /\ NewSeries.indexers = << >> /\ NewSeries.query = 1
              /\ NewSeries.answered = 0 /\ NewSeries.partial = FALSE /\ NewSeries.due = 0
            BY DEF NewSeries
        <2>3. /\ SeriesShape(series') /\ series'.pc \in {"capabilities", "discover"} /\ series'.asked = 1
              /\ series'.indexers = << >> /\ series'.query = 1 /\ series'.answered = 0
              /\ series'.partial = FALSE /\ series'.due = 0
            BY <1>1, <2>1, <2>2 DEF SeriesShape
        <2>4. Fresh(series')
            BY <2>3, Nothing DEF Fresh
        <2>5. Due(series')
            <3>1. ASSUME NEW n \in Nat PROVE Len(<< >>) * n = 0
                OBVIOUS
            <3>2. QED
                BY <2>3, <3>1, QueriesThere DEF Due
        <2>6. QED
            BY <2>3, <2>4, <2>5, Lengths DEF SeriesInv
    <1>2. QED
        BY <1>1 DEF BeginSeries

LEMMA SeriesDiscoveredKeeps == SeriesInv(series) /\ SeriesDiscovered => SeriesInv(series')
    <1> SUFFICES ASSUME SeriesInv(series), SeriesDiscovered
                 PROVE  SeriesInv(series')
        OBVIOUS
    <1>1. PICK told \in (SUBSET Range(Indexers)) \ {{}} : \E able \in SUBSET told :
             series' = SeriesChosen([series EXCEPT !.partial = told # able,
                                         !.due = Cardinality(told) * Len(Queries),
                                         !.indexers = Configured(able)])
        BY DEF SeriesDiscovered
    <1>2. PICK able \in SUBSET told :
             series' = SeriesChosen([series EXCEPT !.partial = told # able,
                                         !.due = Cardinality(told) * Len(Queries),
                                         !.indexers = Configured(able)])
        BY <1>1
    <1>3. Fresh(series)
        BY DEF SeriesDiscovered, SeriesAt, SeriesInv
    <1>4. able \in SUBSET Range(Indexers)
        OBVIOUS
    <1>5. Configured(able) \in Seq(Range(Indexers)) /\ Len(Configured(able)) = Cardinality(able)
        BY <1>4, ConfiguredIs
    <1> DEFINE due == Cardinality(told) * Len(Queries)
               partial == told # able
               s == [series EXCEPT !.partial = partial, !.due = due, !.indexers = Configured(able)]
    <1>6. series' = SeriesChosen(s)
        BY <1>2
    <1>7. partial \in BOOLEAN /\ (partial = TRUE \/ due = Len(Configured(able)) * Len(Queries))
        BY <1>5
    <1> HIDE DEF partial, due
    <1>8. s = [series EXCEPT !.partial = partial, !.due = due, !.indexers = Configured(able)]
        OBVIOUS
    <1> HIDE DEF s
    <1>9. /\ SeriesShape(s) /\ s.partial = partial /\ s.due = due /\ s.indexers = Configured(able)
          /\ s.query = 1 /\ s.answered = 0
        BY <1>3, <1>8 DEF Fresh, SeriesShape
    <1>10. Fresh(s) /\ Due(s)
        BY <1>5, <1>7, <1>9 DEF Fresh, Due
    <1>11. QED
        BY <1>6, <1>10, SeriesChosenKeeps

LEMMA SeriesCapabilitiesKeeps == SeriesInv(series) /\ SeriesCapabilities => SeriesInv(series')
    <1> DEFINE After(s) == IF s.asked = Len(Indexers) THEN SeriesChosen(s) ELSE [s EXCEPT !.asked = @ + 1]
               told == [series EXCEPT !.due = @ + Len(Queries)]
    <1>1. SUFFICES ASSUME SeriesInv(series), SeriesCapabilities
                   PROVE  SeriesInv(series')
        OBVIOUS
    <1>2. /\ series.pc = "capabilities" /\ Fresh(series) /\ Due(series)
          /\ series.asked \in 1..Len(Indexers)
        BY <1>1 DEF SeriesCapabilities, SeriesAt, SeriesInv
    <1>3. \/ series' = After([told EXCEPT !.indexers = Append(@, Indexers[series.asked])])
          \/ series' = After([told EXCEPT !.partial = TRUE])
        BY <1>1 DEF SeriesCapabilities
    <1>4. ASSUME NEW s, Fresh(s), Due(s), s.pc = "capabilities", s.asked \in 1..Len(Indexers)
          PROVE  SeriesInv(After(s))
        <2>1. CASE s.asked = Len(Indexers)
            BY <1>4, <2>1, SeriesChosenKeeps
        <2>2. CASE s.asked # Len(Indexers)
            <3> DEFINE t == After(s)
            <3>1. t = [s EXCEPT !.asked = s.asked + 1]
                BY <2>2
            <3> HIDE DEF t
            <3>2. /\ SeriesShape(t) /\ t.pc = "capabilities" /\ t.asked = s.asked + 1
                  /\ t.indexers = s.indexers /\ t.query = s.query /\ t.answered = s.answered
                  /\ t.partial = s.partial /\ t.due = s.due
                BY <1>4, <3>1 DEF Fresh, SeriesShape
            <3>3. t.asked \in 1..Len(Indexers)
                BY <1>4, <2>2, <3>2, Lengths
            <3>4. Fresh(t) /\ Due(t)
                BY <1>4, <3>2 DEF Fresh, Due
            <3>5. SeriesInv(t)
                BY <3>2, <3>3, <3>4 DEF SeriesInv
            <3>6. QED
                BY <3>5 DEF t
        <2>3. QED
            BY <2>1, <2>2
    <1>5. told = [series EXCEPT !.due = series.due + Len(Queries)]
        BY <1>2 DEF Fresh, SeriesShape
    <1> HIDE DEF told, After
    <1>6. /\ SeriesShape(told) /\ told.pc = "capabilities" /\ told.asked = series.asked
          /\ told.indexers = series.indexers /\ told.query = 1 /\ told.answered = 0
          /\ told.partial = series.partial /\ told.due = series.due + Len(Queries)
        BY <1>2, <1>5 DEF Fresh, SeriesShape
    <1>7. CASE series' = After([told EXCEPT !.indexers = Append(@, Indexers[series.asked])])
        <2> DEFINE i == Indexers[series.asked]
                   longer == Append(series.indexers, i)
                   s == [told EXCEPT !.indexers = longer]
        <2>1. series' = After(s)
            BY <1>6, <1>7
        <2>2. /\ longer \in Seq(Range(Indexers)) /\ Len(longer) = Len(series.indexers) + 1
              /\ Len(series.indexers) \in Nat
            <3>1. i \in Range(Indexers)
                <4>1. DOMAIN Indexers = 1..Len(Indexers)
                    BY Lengths
                <4>2. QED
                    BY <1>2, <4>1 DEF Range
            <3> HIDE DEF i
            <3>2. QED
                BY <1>2, <3>1 DEF Fresh
        <2>3. s = [told EXCEPT !.indexers = longer]
            OBVIOUS
        <2> HIDE DEF s, longer
        <2>4. /\ SeriesShape(s) /\ s.pc = "capabilities" /\ s.asked = told.asked /\ s.indexers = longer
              /\ s.query = 1 /\ s.answered = 0 /\ s.partial = told.partial /\ s.due = told.due
            BY <1>6, <2>3 DEF SeriesShape
        <2>5. ASSUME NEW l \in Nat, NEW n \in Nat PROVE l * n + n = (l + 1) * n
            OBVIOUS
        <2>6. Fresh(s) /\ Due(s)
            BY <1>2, <1>6, <2>2, <2>4, <2>5, QueriesThere DEF Fresh, Due
        <2>7. QED
            BY <1>2, <1>4, <1>6, <2>1, <2>4, <2>6
    <1>8. CASE series' = After([told EXCEPT !.partial = TRUE])
        <2> DEFINE s == [told EXCEPT !.partial = TRUE]
        <2>1. series' = After(s) /\ s = [told EXCEPT !.partial = TRUE]
            BY <1>8
        <2> HIDE DEF s
        <2>2. /\ SeriesShape(s) /\ s.pc = "capabilities" /\ s.asked = told.asked
              /\ s.indexers = told.indexers /\ s.query = 1 /\ s.answered = 0 /\ s.partial = TRUE
            BY <1>6, <2>1 DEF SeriesShape
        <2>3. Fresh(s) /\ Due(s)
            BY <1>2, <1>6, <2>2 DEF Fresh, Due
        <2>4. QED
            BY <1>2, <1>4, <1>6, <2>1, <2>2, <2>3
    <1>9. QED
        BY <1>3, <1>7, <1>8

\* After a query: one more was answered, or the report is partial.
LEMMA SeriesQueriedKeeps ==
    ASSUME NEW s, SeriesShape(s), s.indexers \in Seq(Range(Indexers)), s.partial \in BOOLEAN,
           s.pc = "query", s.asked \in 1..Len(s.indexers), s.query \in 1..Len(Queries), Due(s),
           s.partial = TRUE \/ s.answered = (s.asked - 1) * Len(Queries) + s.query
    PROVE  SeriesInv(SeriesQueried(s))
    <1> DEFINE Q == Len(Queries)
               t == SeriesQueried(s)
    <1>1. Q \in Nat /\ Len(s.indexers) \in Nat
        BY QueriesThere
    <1>2. CASE s.query < Q
        <2>1. t = [s EXCEPT !.query = s.query + 1]
            BY <1>2 DEF SeriesQueried
        <2> HIDE DEF t
        <2>2. /\ SeriesShape(t) /\ t.pc = "query" /\ t.query = s.query + 1 /\ t.asked = s.asked
              /\ t.indexers = s.indexers /\ t.partial = s.partial /\ t.due = s.due
              /\ t.answered = s.answered
            BY <2>1 DEF SeriesShape
        <2>3. ASSUME NEW m \in Nat, NEW q \in 1..Q PROVE m + q = m + (q + 1) - 1
            OBVIOUS
        <2>4. ASSUME NEW a \in Nat, NEW n \in Nat PROVE a * n \in Nat
            OBVIOUS
        <2>5. (s.asked - 1) * Q \in Nat
            BY <1>1, <2>4
        <2>6. t.partial = TRUE \/ t.answered = (t.asked - 1) * Q + t.query - 1
            BY <2>2, <2>3, <2>5
        <2>7. t.query \in 1..Q
            BY <1>1, <1>2, <2>2
        <2>8. AtQuery(t)
            BY <2>2, <2>6, <2>7 DEF AtQuery, Due
        <2>9. QED
            BY <2>2, <2>8 DEF SeriesInv, t
    <1>3. CASE s.query = Q /\ s.asked < Len(s.indexers)
        <2>1. t = [s EXCEPT !.query = 1, !.asked = s.asked + 1]
            BY <1>1, <1>3 DEF SeriesQueried
        <2> HIDE DEF t
        <2>2. /\ SeriesShape(t) /\ t.pc = "query" /\ t.query = 1 /\ t.asked = s.asked + 1
              /\ t.indexers = s.indexers /\ t.partial = s.partial /\ t.due = s.due
              /\ t.answered = s.answered
            BY <2>1 DEF SeriesShape
        <2>3. ASSUME NEW a \in Nat \ {0}, NEW n \in Nat
              PROVE  (a - 1) * n + n = ((a + 1) - 1) * n + 1 - 1
            OBVIOUS
        <2>4. s.asked \in Nat \ {0}
            BY <1>1
        <2>5. t.partial = TRUE \/ t.answered = (t.asked - 1) * Q + t.query - 1
            BY <1>1, <1>3, <2>2, <2>3, <2>4
        <2>6. t.query \in 1..Q /\ t.asked \in 1..Len(t.indexers)
            BY <1>1, <1>3, <2>2, QueriesThere
        <2>7. AtQuery(t)
            BY <2>2, <2>5, <2>6 DEF AtQuery, Due
        <2>8. QED
            BY <2>2, <2>7 DEF SeriesInv, t
    <1>4. CASE s.query = Q /\ s.asked = Len(s.indexers) /\ s.answered = 0
        <2>1. t = SeriesEnds(s, 4)
            BY <1>1, <1>4 DEF SeriesQueried
        <2>2. QED
            BY <1>4, <2>1, SeriesEndsKeeps
    <1>5. CASE s.query = Q /\ s.asked = Len(s.indexers) /\ s.answered # 0
        <2>1. t = [s EXCEPT !.pc = "rank"]
            BY <1>1, <1>5 DEF SeriesQueried
        <2> HIDE DEF t
        <2>2. /\ SeriesShape(t) /\ t.pc = "rank" /\ t.partial = s.partial /\ t.due = s.due
              /\ t.answered = s.answered
            BY <2>1 DEF SeriesShape
        <2>3. ASSUME NEW a \in Nat \ {0}, NEW n \in Nat
              PROVE  (a - 1) * n + n = a * n
            OBVIOUS
        <2>4. s.asked \in Nat \ {0}
            BY <1>1
        <2>5. t.partial = TRUE \/ t.answered = t.due
            BY <1>1, <1>5, <2>2, <2>3, <2>4 DEF Due
        <2>6. QED
            BY <1>5, <2>2, <2>5 DEF SeriesInv, t
    <1>6. s.query < Q \/ s.query = Q
        BY <1>1
    <1>7. s.asked < Len(s.indexers) \/ s.asked = Len(s.indexers)
        BY <1>1
    <1>8. QED
        BY <1>2, <1>3, <1>4, <1>5, <1>6, <1>7

LEMMA SeriesFoundKeeps == SeriesInv(series) /\ SeriesFound => SeriesInv(series')
    <1> SUFFICES ASSUME SeriesInv(series), SeriesFound
                 PROVE  SeriesInv(series')
        OBVIOUS
    <1>1. PICK items \in SeriesOffers[SeriesQuery] :
             series' = SeriesQueried([series EXCEPT !.raw = @ \o Parsed(items, series.next),
                                                    !.next = @ + Len(Parsed(items, series.next)),
                                                    !.answered = @ + 1])
        BY DEF SeriesFound
    <1>2. series.pc = "query" /\ AtQuery(series) /\ SeriesShape(series)
        BY DEF SeriesFound, SeriesAt, SeriesInv, AtQuery
    <1> DEFINE found == Parsed(items, series.next)
               s == [series EXCEPT !.raw = @ \o found, !.next = @ + Len(found), !.answered = @ + 1]
    <1>3. series' = SeriesQueried(s)
        BY <1>1
    <1> HIDE DEF found
    <1>4. s = [series EXCEPT !.raw = series.raw \o found, !.next = series.next + Len(found),
                             !.answered = series.answered + 1]
        BY <1>2 DEF SeriesShape
    <1> HIDE DEF s
    <1>5. /\ SeriesShape(s) /\ s.pc = "query" /\ s.indexers = series.indexers
          /\ s.partial = series.partial /\ s.asked = series.asked /\ s.query = series.query
          /\ s.due = series.due /\ s.answered = series.answered + 1
        BY <1>2, <1>4 DEF SeriesShape
    <1>6. ASSUME NEW a \in Nat \ {0}, NEW n \in Nat, NEW q \in Nat
          PROVE  ((a - 1) * n + q - 1) + 1 = (a - 1) * n + q
        <2>1. (a - 1) * n \in Int
            OBVIOUS
        <2>2. ASSUME NEW m \in Int PROVE (m + q - 1) + 1 = m + q
            OBVIOUS
        <2>3. QED
            BY <2>1, <2>2
    <1>7. Len(series.indexers) \in Nat
        BY <1>2 DEF AtQuery
    <1>8. series.asked \in Nat \ {0} /\ series.query \in Nat
        BY <1>2, <1>7, QueriesThere DEF AtQuery
    <1>9. s.partial = TRUE \/ s.answered = (s.asked - 1) * Len(Queries) + s.query
        BY <1>2, <1>5, <1>6, <1>8, QueriesThere DEF AtQuery
    <1>10. Due(s)
        BY <1>2, <1>5 DEF AtQuery, Due
    <1>11. QED
        BY <1>2, <1>3, <1>5, <1>9, <1>10, SeriesQueriedKeeps DEF AtQuery

LEMMA SeriesQueryFailsKeeps == SeriesInv(series) /\ SeriesQueryFails => SeriesInv(series')
    <1> SUFFICES ASSUME SeriesInv(series), SeriesQueryFails
                 PROVE  SeriesInv(series')
        OBVIOUS
    <1>1. series.pc = "query" /\ AtQuery(series) /\ SeriesShape(series)
        BY DEF SeriesQueryFails, SeriesAt, SeriesInv, AtQuery
    <1> DEFINE s == [series EXCEPT !.partial = TRUE]
    <1>2. series' = SeriesQueried(s) /\ s = [series EXCEPT !.partial = TRUE]
        BY DEF SeriesQueryFails
    <1> HIDE DEF s
    <1>3. /\ SeriesShape(s) /\ s.pc = "query" /\ s.indexers = series.indexers
          /\ s.partial = TRUE /\ s.asked = series.asked /\ s.query = series.query
        BY <1>1, <1>2 DEF SeriesShape
    <1>4. QED
        BY <1>1, <1>2, <1>3, SeriesQueriedKeeps DEF AtQuery, Due

\* What follows the queries changes neither count.
LEMMA SeriesRankKeeps ==
    ASSUME SeriesInv(series), series.pc \in {"rank", "resolve"}, SeriesShape(series'),
           series'.pc \in {"resolve", "end"}, series'.partial = series.partial,
           series'.due = series.due, series'.answered = series.answered,
           series'.pc = "end" => series'.exit = 0
    PROVE  SeriesInv(series')
    BY DEF SeriesInv

LEMMA SeriesSteps ==
    ASSUME SeriesInv(series),
           SearchSeries \/ ResolveSeries \/ SeriesResolved \/ SeriesReport
    PROVE  SeriesInv(series')
    <1>0. SeriesShape(series)
        BY DEF SeriesInv
    <1>1. CASE SearchSeries
        <2>1. CASE AskForSeries
            BY <2>1 DEF AskForSeries
        <2>2. CASE SeriesAborts
            <3>1. [series EXCEPT !.rejected = TRUE].rejected = TRUE
                BY <1>0 DEF SeriesShape
            <3>2. CASE series' = SeriesEnds([series EXCEPT !.rejected = TRUE], 4)
                BY <3>1, <3>2, SeriesEndsKeeps
            <3>3. CASE series.pc = "discover" /\ series' = SeriesEnds(series, 4)
                <4>1. series.answered = 0
                    BY <3>3 DEF SeriesInv, Fresh
                <4>2. QED
                    BY <3>3, <4>1, SeriesEndsKeeps
            <3>4. QED
                BY <2>2, <3>2, <3>3 DEF SeriesAborts, SeriesAt
        <2>3. CASE RankSeries
            <3>1. PICK accepted \in {Provisional(series.raw, series.expected)} :
                     series' = [series EXCEPT !.pc = "resolve",
                                              !.left = RankedSeries(accepted, series.expected)]
                BY <2>3 DEF RankSeries
            <3> DEFINE left == RankedSeries(accepted, series.expected)
            <3>2. series' = [series EXCEPT !.pc = "resolve", !.left = left] /\ series.pc = "rank"
                BY <2>3, <3>1 DEF RankSeries, SeriesAt
            <3> HIDE DEF left
            <3>3. /\ SeriesShape(series') /\ series'.pc = "resolve" /\ series'.partial = series.partial
                  /\ series'.due = series.due /\ series'.answered = series.answered
                BY <1>0, <3>2 DEF SeriesShape
            <3>4. QED
                BY <3>2, <3>3, SeriesRankKeeps
        <2>4. QED
            BY <1>1, <2>1, <2>2, <2>3, BeginSeriesKeeps, SeriesDiscoveredKeeps, SeriesCapabilitiesKeeps,
               SeriesFoundKeeps, SeriesQueryFailsKeeps DEF SearchSeries
    <1>2. CASE ResolveSeries
        BY <1>2 DEF ResolveSeries
    <1>3. CASE SeriesResolved
        <2> DEFINE c == Head(series.left)
                   found == [c EXCEPT !.release.hash = resolver.outcome, !.release.magnet = resolver.outcome]
        <2>1. series.pc = "resolve"
            BY <1>3 DEF SeriesResolved, SeriesAt
        <2>2. \/ series' = [series EXCEPT !.left = Tail(@), !.candidates = Append(@, found)]
              \/ series' = [series EXCEPT !.left = Tail(@), !.refused = Append(@, c)]
            BY <1>3 DEF SeriesResolved
        <2> HIDE DEF c, found
        <2>3. /\ SeriesShape(series') /\ series'.pc = series.pc /\ series'.partial = series.partial
              /\ series'.due = series.due /\ series'.answered = series.answered
            BY <1>0, <2>2 DEF SeriesShape
        <2>4. QED
            BY <2>1, <2>3, SeriesRankKeeps
    <1>4. CASE SeriesReport
        <2> DEFINE ranked == RankedSeries(Range(series.candidates), series.expected)
        <2>1. series.pc = "resolve"
            BY <1>4 DEF SeriesReport, SeriesAt
        <2>2. CASE series' = SeriesEnds(series, 5)
            <3>1. series.answered # 0
                BY <2>1 DEF SeriesInv
            <3>2. QED
                BY <2>2, <3>1, SeriesEndsKeeps
        <2>3. CASE series' = [series EXCEPT !.pc = "end", !.exit = 0, !.candidates = ranked]
            <3> HIDE DEF ranked
            <3>1. /\ SeriesShape(series') /\ series'.pc = "end" /\ series'.exit = 0
                  /\ series'.partial = series.partial
                  /\ series'.due = series.due /\ series'.answered = series.answered
                BY <1>0, <2>3 DEF SeriesShape
            <3>2. QED
                BY <2>1, <3>1, SeriesRankKeeps
        <2>4. series' = SeriesEnds(series, 5) \/ series' = [series EXCEPT !.pc = "end", !.exit = 0, !.candidates = ranked]
            BY <1>0, <1>4 DEF SeriesReport, SeriesShape
        <2>5. QED
            BY <2>2, <2>3, <2>4
    <1>5. QED
        BY <1>1, <1>2, <1>3, <1>4

HonestInv == SearchInv(search) /\ SeriesInv(series)

LEMMA HonestStep == HonestInv /\ [AcquisitionNext]_acquisitionVars => HonestInv'
    <1> SUFFICES ASSUME HonestInv, [AcquisitionNext]_acquisitionVars
                 PROVE  HonestInv'
        OBVIOUS
    <1>0. /\ SearchInv([NewSearch EXCEPT !.pc = "over"])
          /\ SeriesInv(NewSeries)
        <2> DEFINE t == [NewSearch EXCEPT !.pc = "over"]
        <2>1. SearchShape(NewSearch) /\ NewSearch.exit = 9 /\ NewSearch.groups = << >> /\ t = [NewSearch EXCEPT !.pc = "over"]
            BY DEF SearchShape, NewSearch
        <2> HIDE DEF t
        <2>2. SearchShape(t) /\ t.pc = "over" /\ t.exit = 9 /\ t.groups = << >>
            BY <2>1 DEF SearchShape
        <2>3. SearchInv(t)
            BY <2>2 DEF SearchInv
        <2>4. SeriesShape(NewSeries) /\ NewSeries.pc = "off"
            BY DEF SeriesShape, NewSeries
        <2>5. SeriesInv(NewSeries)
            BY <2>4 DEF SeriesInv
        <2>6. QED
            BY <2>3, <2>5 DEF t
    <1>1. CASE SearchStep
        BY <1>1, SearchMoviesKeeps DEF SearchStep, HonestInv
    <1>2. CASE SeriesStep
        BY <1>2, SeriesSteps DEF SeriesStep, HonestInv
    <1>3. CASE HandoffStep
        <2>1. CASE BeginMovieProbe /\ UNCHANGED <<series, probeVars>>
            BY <1>0, <2>1 DEF BeginMovieProbe, HonestInv
        <2>2. CASE HandoffSteps /\ UNCHANGED <<search, series, probeVars>>
            BY <2>2 DEF HonestInv
        <2>3. CASE HandoffAt("resolve") /\ ResolveReference /\ UNCHANGED <<search, series, handoff, probeVars>>
            BY <2>3 DEF HonestInv
        <2>4. QED
            BY <1>3, <2>1, <2>2, <2>3 DEF HandoffStep
    <1>4. CASE SeriesProbeBegins
        BY <1>0, <1>4 DEF SeriesProbeBegins, HonestInv
    <1>5. CASE UNCHANGED <<search, series>>
        BY <1>5 DEF HonestInv
    <1>6. QED
        BY <1>1, <1>2, <1>3, <1>4, <1>5
        DEF AcquisitionNext, RetryStep, ProbeBegins, ProbeRunsAgain, ProbeMoves, frontVars, acquisitionVars

\* A report is written only when every query was put to every indexer there is and
\* answered, or a warning names what was not: the loops of movie_search.py and
\* search_service.py leave no indexer and no query out.  They give up only when
\* nobody answered or the key was rejected, and lose a report only if there was one.
THEOREM ReportsAreHonest == AcquisitionSpec => []SearchIsHonest
    <1>1. AcquisitionInit => HonestInv
        <2>1. SearchShape(NewSearch) /\ NewSearch.pc = "off" /\ NewSearch.exit = 9 /\ NewSearch.groups = << >>
              /\ SeriesShape(NewSeries) /\ NewSeries.pc = "off"
            BY DEF SearchShape, NewSearch, SeriesShape, NewSeries
        <2>2. SearchInv(NewSearch) /\ SeriesInv(NewSeries)
            BY <2>1 DEF SearchInv, SeriesInv
        <2>3. QED
            BY <2>2 DEF AcquisitionInit, HonestInv
    <1>2. HonestInv => SearchIsHonest
        BY DEF HonestInv, SearchInv, SeriesInv, SearchIsHonest, SearchAt, SeriesAt, Honestly
    <1>3. QED
        BY <1>1, <1>2, HonestStep, PTL DEF AcquisitionSpec

-----------------------------------------------------------------------------
(* The hand-off from the movie search *)

HandoffShape(h) ==
    h = [pc |-> h.pc, candidates |-> h.candidates, next |-> h.next, queue |-> h.queue,
         skipped |-> h.skipped]

Places(q) == {x.of : x \in Range(q)}

\* The results before the next one: each queued or skipped, for a reason.
Handled(h) ==
    /\ Len(h.candidates) \in Nat /\ h.next \in 1..(Len(h.candidates) + 1)
    /\ Listing(h.queue) /\ Listing(h.skipped)
    /\ Len(h.queue) <= Maximum
    /\ \A j, k \in 1..Len(h.queue) : h.queue[j].hash = h.queue[k].hash => j = k
    /\ \A j, k \in 1..Len(h.queue) : j < k => h.queue[j].of < h.queue[k].of
    /\ \A q \in Range(h.queue) : h.candidates[q.of].hash \in {None, q.hash}
    /\ Places(h.queue) \cup Places(h.skipped) = 1..(h.next - 1)
    /\ Places(h.queue) \cap Places(h.skipped) = {}
    /\ (\E s \in Range(h.skipped) : s.why = "limit") => Len(h.queue) = Maximum

\* One command at a time: a hand-off comes after a movie search, and only a series
\* search or a hand-off asks the resolver.
OneCommand ==
    /\ ~SearchAt("off") => SeriesAt("off")
    /\ HandoffAt("off") /\ ~SeriesAt("resolve") => ResolverAt("idle")
    /\ ~HandoffAt("off") => SearchAt("over")

HandedOnInv ==
    /\ HandoffShape(handoff)
    /\ handoff.pc \in {"resolve", "queued", "end"} => Handled(handoff)
    /\ handoff.pc \in {"queued", "end"} => handoff.next = Len(handoff.candidates) + 1
    /\ HandoffAt("resolve") /\ ~ResolverAt("idle") =>
          Len(handoff.queue) < Maximum /\ handoff.next <= Len(handoff.candidates)
    /\ HandoffAt("resolve") /\ ResolverAt("done") => resolver.outcome \in Outcomes

LEMMA AppendLists ==
    ASSUME NEW q, Listing(q), NEW v
    PROVE  /\ Listing(Append(q, v)) /\ Range(Append(q, v)) = Range(q) \cup {v}
           /\ Len(q) \in Nat /\ Len(Append(q, v)) = Len(q) + 1
           /\ \A k \in 1..Len(q) : Append(q, v)[k] = q[k]
           /\ Append(q, v)[Len(q) + 1] = v
    <1> DEFINE W == Range(q) \cup {v}
    <1>1. q \in Seq(W) /\ v \in W
        BY WiderSequence DEF Listing
    <1> HIDE DEF W
    <1>2. Append(q, v) \in Seq(W) /\ Range(Append(q, v)) = Range(q) \cup {v}
        BY <1>1, OneMore
    <1>3. Listing(Append(q, v))
        BY <1>2, SequenceLists
    <1>4. /\ Len(q) \in Nat /\ Len(Append(q, v)) = Len(q) + 1
          /\ \A k \in 1..Len(q) : Append(q, v)[k] = q[k]
          /\ Append(q, v)[Len(q) + 1] = v
        BY <1>1
    <1>5. QED
        BY <1>2, <1>3, <1>4

\* One candidate more is handled.
LEMMA OneHandled ==
    /\ \A q, t, x : Range(t) = Range(q) \cup {x} => Places(t) = Places(q) \cup {x.of}
    /\ \A n \in Nat \ {0} : \A A, B :
          A \cup B = 1..(n - 1) /\ A \cap B = {} =>
              (A \cup {n}) \cup B = 1..((n + 1) - 1) /\ (A \cup {n}) \cap B = {}
    <1>1. \A n \in Nat \ {0} : 1..((n + 1) - 1) = 1..(n - 1) \cup {n} /\ n \notin 1..(n - 1)
        OBVIOUS
    <1>2. QED
        BY <1>1 DEF Places

LEMMA SkippedKeeps ==
    ASSUME HandoffShape(handoff), Handled(handoff), handoff.next <= Len(handoff.candidates),
           NEW why, why = "limit" => LimitReached, NEW t, t = Skipped(why)
    PROVE  HandoffShape(t) /\ Handled(t) /\ t.pc = handoff.pc
    <1> DEFINE x == [of |-> handoff.next, why |-> why]
               skipped == Append(handoff.skipped, x)
    <1>1. t = [handoff EXCEPT !.next = handoff.next + 1, !.skipped = skipped]
        BY DEF Skipped, HandoffShape
    <1>2. x.of = handoff.next /\ x.why = why
        OBVIOUS
    <1> HIDE DEF x
    <1>3. Listing(skipped) /\ Range(skipped) = Range(handoff.skipped) \cup {x}
        BY AppendLists DEF Handled
    <1> HIDE DEF skipped
    <1>4. /\ HandoffShape(t) /\ t.pc = handoff.pc /\ t.next = handoff.next + 1
          /\ t.candidates = handoff.candidates /\ t.queue = handoff.queue /\ t.skipped = skipped
        BY <1>1 DEF HandoffShape
    <1>5. handoff.next \in Nat \ {0} /\ Len(handoff.candidates) \in Nat
        BY DEF Handled
    <1>6. t.next \in 1..(Len(t.candidates) + 1)
        BY <1>4, <1>5
    <1>7. /\ Places(t.skipped) \cup Places(t.queue) = 1..(t.next - 1)
          /\ Places(t.skipped) \cap Places(t.queue) = {}
        <2>1. /\ Places(handoff.skipped) \cup Places(handoff.queue) = 1..(handoff.next - 1)
              /\ Places(handoff.skipped) \cap Places(handoff.queue) = {}
            BY DEF Handled
        <2>2. /\ Places(skipped) \cup Places(handoff.queue) = 1..((handoff.next + 1) - 1)
              /\ Places(skipped) \cap Places(handoff.queue) = {}
            <3>1. Places(skipped) = Places(handoff.skipped) \cup {handoff.next}
                BY <1>2, <1>3, OneHandled
            <3>2. QED
                BY <1>5, <2>1, <3>1, OneHandled
        <2>3. QED
            BY <1>4, <2>2
    <1>8. (\E s \in Range(skipped) : s.why = "limit") => Len(handoff.queue) = Maximum
        <2>1. Maximum \in Nat /\ Len(handoff.queue) \in Nat
            BY HandoffAssumption DEF Handled, Listing
        <2>2. LimitReached => Len(handoff.queue) = Maximum
            BY <2>1 DEF LimitReached, Handled
        <2>3. QED
            BY <1>2, <1>3, <2>2 DEF Handled
    <1>9. QED
        BY <1>3, <1>4, <1>6, <1>7, <1>8 DEF Handled

Enqueued(hash) == [handoff EXCEPT !.next = @ + 1,
                                  !.queue = Append(@, [hash |-> hash, of |-> handoff.next])]

LEMMA EnqueuedKeeps ==
    ASSUME HandoffShape(handoff), Handled(handoff), handoff.next <= Len(handoff.candidates),
           Len(handoff.queue) < Maximum, NEW hash, Taken.hash \in {None, hash},
           ~ \E q \in Range(handoff.queue) : q.hash = hash
    PROVE  LET t == Enqueued(hash)
           IN  HandoffShape(t) /\ Handled(t) /\ t.pc = handoff.pc
    <1> DEFINE x == [hash |-> hash, of |-> handoff.next]
               queue == Append(handoff.queue, x)
               n == Len(handoff.queue)
               t == Enqueued(hash)
    <1>1. t = [handoff EXCEPT !.next = handoff.next + 1, !.queue = queue]
        BY DEF HandoffShape, Enqueued
    <1> HIDE DEF t
    <1>2. x.of = handoff.next /\ x.hash = hash
        OBVIOUS
    <1> HIDE DEF x
    <1>3. /\ Listing(queue) /\ Range(queue) = Range(handoff.queue) \cup {x}
          /\ n \in Nat /\ Len(queue) = n + 1
          /\ \A k \in 1..n : queue[k] = handoff.queue[k]
          /\ queue[n + 1] = x
        BY AppendLists DEF Handled
    <1> HIDE DEF queue
    <1>4. /\ HandoffShape(t) /\ t.pc = handoff.pc /\ t.next = handoff.next + 1
          /\ t.candidates = handoff.candidates /\ t.queue = queue /\ t.skipped = handoff.skipped
        BY <1>1 DEF HandoffShape
    <1>5. handoff.next \in Nat \ {0} /\ Len(handoff.candidates) \in Nat
        BY DEF Handled
    <1>6. t.next \in 1..(Len(t.candidates) + 1)
        BY <1>4, <1>5
    <1>7. /\ Places(t.queue) \cup Places(t.skipped) = 1..(t.next - 1)
          /\ Places(t.queue) \cap Places(t.skipped) = {}
        <2>1. /\ Places(handoff.queue) \cup Places(handoff.skipped) = 1..(handoff.next - 1)
              /\ Places(handoff.queue) \cap Places(handoff.skipped) = {}
            BY DEF Handled
        <2>2. /\ Places(queue) \cup Places(handoff.skipped) = 1..((handoff.next + 1) - 1)
              /\ Places(queue) \cap Places(handoff.skipped) = {}
            <3>1. Places(queue) = Places(handoff.queue) \cup {handoff.next}
                BY <1>2, <1>3, OneHandled
            <3>2. QED
                BY <1>5, <2>1, <3>1, OneHandled
        <2>3. QED
            BY <1>4, <2>2
    <1>8. \A k \in 1..(n + 1) : k \in 1..n \/ k = n + 1
        BY <1>3
    <1>9. \A k \in 1..n : handoff.queue[k] \in Range(handoff.queue)
        <2>1. DOMAIN handoff.queue = 1..n
            BY DEF Handled, Listing
        <2>2. QED
            BY <2>1 DEF Range
    <1>10. \A j, k \in 1..Len(queue) : queue[j].hash = queue[k].hash => j = k
        <2>1. \A k \in 1..n : queue[k].hash # hash
            BY <1>3, <1>9
        <2>2. QED
            BY <1>2, <1>3, <1>8, <2>1 DEF Handled
    <1>11. \A j, k \in 1..Len(queue) : j < k => queue[j].of < queue[k].of
        <2>1. \A k \in 1..n : queue[k].of \in 1..(handoff.next - 1)
            BY <1>3, <1>9 DEF Handled, Places
        <2>2. \A k \in 1..n : queue[k].of < handoff.next
            BY <1>5, <2>1
        <2>3. \A j, k \in 1..n : j < k => queue[j].of < queue[k].of
            BY <1>3 DEF Handled
        <2>4. \A j, k \in 1..(n + 1) : j < k => j \in 1..n /\ (k \in 1..n \/ k = n + 1)
            BY <1>3
        <2>5. QED
            BY <1>2, <1>3, <2>2, <2>3, <2>4
    <1>12. \A q \in Range(queue) : handoff.candidates[q.of].hash \in {None, q.hash}
        BY <1>2, <1>3 DEF Handled, Taken
    <1>13. Maximum \in Nat
        BY HandoffAssumption
    <1>14. Len(queue) <= Maximum
        BY <1>3, <1>13
    <1>15. ~ \E s \in Range(handoff.skipped) : s.why = "limit"
        BY <1>3, <1>13 DEF Handled
    <1>16. /\ Len(t.candidates) \in Nat /\ Listing(t.queue) /\ Listing(t.skipped)
           /\ Len(t.queue) <= Maximum
           /\ \A q \in Range(t.queue) : t.candidates[q.of].hash \in {None, q.hash}
           /\ ~ \E s \in Range(t.skipped) : s.why = "limit"
        BY <1>3, <1>4, <1>5, <1>12, <1>14, <1>15 DEF Handled
    <1>17. /\ \A j, k \in 1..Len(t.queue) : t.queue[j].hash = t.queue[k].hash => j = k
           /\ \A j, k \in 1..Len(t.queue) : j < k => t.queue[j].of < t.queue[k].of
        <2>1. t.queue = queue
            BY <1>4
        <2>2. QED
            BY <1>10, <1>11, <2>1
    <1>18. Handled(t)
        BY <1>6, <1>7, <1>16, <1>17 DEF Handled
    <1>19. QED
        BY <1>4, <1>18 DEF t

\* What is listed is used only if it names a torrent.
LEMMA ListedOutcome ==
    ASSUME FetchInv, NEW magnet, NEW hash, NEW references,
           ResolveCandidate(<<magnet>>, <<hash>>, references), resolver'.pc = "done"
    PROVE  resolver'.outcome \in Infohashes
    <1> DEFINE listed == <<magnet>> \o <<hash>>
               places == Usable(listed)
               chosen == Kept(references, Fetchable(references))
    <1>1. resolver' = IF places # {} THEN [resolver EXCEPT !.pc = "done", !.outcome = listed[Min(places)]]
                      ELSE [resolver EXCEPT !.pc = "reference", !.private = FALSE, !.left = chosen]
        BY DEF ResolveCandidate
    <1>2. Len(listed) \in Nat
        OBVIOUS
    <1>3. places \subseteq Nat /\ \A k \in places : listed[k] \in Infohashes
        BY <1>2 DEF Usable
    <1> HIDE DEF places, listed, chosen
    <1>4. CASE places = {}
        <2>1. resolver' = [resolver EXCEPT !.pc = "reference", !.private = FALSE, !.left = chosen]
            BY <1>1, <1>4
        <2>2. resolver'.pc = "reference"
            BY <2>1 DEF FetchInv
        <2>3. QED
            BY <2>2
    <1>5. CASE places # {}
        <2>1. \E k \in places : \A l \in places : k <= l
            BY <1>3, <1>5, LeastNumber
        <2>2. Min(places) \in places
            BY <2>1 DEF Min
        <2>3. resolver' = [resolver EXCEPT !.pc = "done", !.outcome = listed[Min(places)]]
            BY <1>1, <1>5
        <2>4. resolver'.outcome = listed[Min(places)]
            BY <2>3 DEF FetchInv
        <2>5. QED
            BY <1>3, <2>2, <2>4
    <1>6. QED
        BY <1>4, <1>5

\* Of the parts of a hand-off only these three change its state.
LEMMA HandoffPlaces ==
    ASSUME HandoffShape(handoff), HandoffSteps
    PROVE  HandoffAt("resolve") /\ handoff'.pc \in {"resolve", "queued", "end"}
    <1>1. HandoffAt("resolve") /\ handoff.pc = "resolve"
        BY DEF HandoffSteps, TakeCandidate, QueueCandidate, EndHandoff, HandoffAt
    <1>2. ASSUME NEW why, handoff' = Skipped(why)
          PROVE  handoff'.pc = handoff.pc
        BY <1>2 DEF Skipped, HandoffShape
    <1>3. ASSUME NEW hash, handoff' = Queued(hash)
          PROVE  handoff'.pc = handoff.pc
        <2> DEFINE x == [hash |-> hash, of |-> handoff.next]
        <2>1. CASE handoff' = [handoff EXCEPT !.next = @ + 1, !.queue = Append(@, x)]
            <3> HIDE DEF x
            <3>1. QED
                BY <2>1 DEF HandoffShape
        <2>2. QED
            BY <1>2, <1>3, <2>1 DEF Queued
    <1>4. CASE TakeCandidate
        BY <1>1, <1>2, <1>4 DEF TakeCandidate
    <1>5. CASE QueueCandidate
        BY <1>1, <1>2, <1>3, <1>5 DEF QueueCandidate
    <1>6. CASE EndHandoff
        <2>1. PICK place \in {"end", "queued"} : handoff' = [handoff EXCEPT !.pc = place]
            BY <1>6 DEF EndHandoff
        <2>2. QED
            BY <1>1, <2>1 DEF HandoffShape
    <1>7. QED
        BY <1>1, <1>4, <1>5, <1>6 DEF HandoffSteps

LEMMA OneCommandStep ==
    ASSUME OneCommand, FetchInv, HandoffShape(handoff), [AcquisitionNext]_acquisitionVars
    PROVE  OneCommand'
    <1> USE DEF SearchAt, SeriesAt, HandoffAt
    <1>1. CASE UNCHANGED <<search, series, resolver, handoff>>
        BY <1>1 DEF OneCommand, ResolverAt
    <1>2. CASE SearchStep
        <2>1. SearchMovies => search.pc # "over"
            BY DEF SearchMovies, BeginSearch, AskJackett, IndexersDiscovered, CapabilitiesKnown,
                   CapabilitiesFail, MovieFound, MovieQueryFails, SearchAborts, RankMovie, Report
        <2>2. QED
            BY <1>2, <2>1 DEF SearchStep, OneCommand, ResolverAt
    <1>3. CASE SeriesStep
        <2>1. /\ search.pc = "off" /\ handoff.pc = "off" /\ search' = search /\ handoff' = handoff
            BY <1>3 DEF SeriesStep, OneCommand
        <2>2. CASE SearchSeries /\ UNCHANGED resolver
            <3>1. SearchSeries => series.pc # "resolve"
                BY DEF SearchSeries, BeginSeries, AskForSeries, SeriesDiscovered, SeriesCapabilities,
                       SeriesFound, SeriesQueryFails, SeriesAborts, RankSeries
            <3>2. QED
                BY <2>1, <2>2, <3>1 DEF OneCommand, ResolverAt
        <2>3. CASE SeriesAt("resolve") /\ UNCHANGED series
            BY <2>1, <2>3 DEF OneCommand
        <2>4. CASE SeriesResolved
            <3>1. resolver'.pc = "idle"
                BY <2>4, TakenUpKeeps DEF SeriesResolved
            <3>2. QED
                BY <2>1, <3>1 DEF OneCommand, ResolverAt
        <2>5. CASE SeriesReport
            BY <2>1, <2>5 DEF SeriesReport, OneCommand, ResolverAt
        <2>6. QED
            BY <1>3, <2>2, <2>3, <2>4, <2>5 DEF SeriesStep, ResolveSeries
    <1>4. CASE HandoffStep
        <2>1. CASE BeginMovieProbe /\ UNCHANGED <<series, probeVars>>
            <3>1. search.pc = "end" /\ series.pc = "off" /\ series' = series
                BY <2>1 DEF BeginMovieProbe, OneCommand
            <3>2. search'.pc = "over"
                BY <2>1 DEF BeginMovieProbe, NewSearch
            <3>3. handoff'.pc = "resolve"
                <4>1. PICK candidates : handoff' = [NewHandoff EXCEPT !.pc = "resolve", !.candidates = candidates]
                    BY <2>1 DEF BeginMovieProbe
                <4>2. QED
                    BY <4>1 DEF NewHandoff
            <3>4. QED
                BY <3>1, <3>2, <3>3 DEF OneCommand
        <2>2. CASE HandoffSteps /\ UNCHANGED <<search, series, probeVars>>
            BY <2>2, HandoffPlaces DEF OneCommand
        <2>3. CASE HandoffAt("resolve") /\ ResolveReference /\ UNCHANGED <<search, series, handoff, probeVars>>
            BY <2>3 DEF OneCommand
        <2>4. QED
            BY <1>4, <2>1, <2>2, <2>3 DEF HandoffStep
    <1>5. CASE ProbeBegins
        <2>1. handoff.pc = "queued" /\ UNCHANGED <<search, series>>
            BY <1>5 DEF ProbeBegins
        <2>2. handoff'.pc = "probing"
            BY <1>5 DEF ProbeBegins, NewHandoff
        <2>3. QED
            BY <2>1, <2>2 DEF OneCommand
    <1>6. CASE SeriesProbeBegins
        <2>1. series'.pc = "off" /\ search'.pc = "over"
            BY <1>6 DEF SeriesProbeBegins, NewSeries, NewSearch
        <2>2. handoff'.pc = "probing"
            BY <1>6 DEF SeriesProbeBegins, NewHandoff
        <2>3. QED
            BY <2>1, <2>2 DEF OneCommand
    <1>7. QED
        BY <1>1, <1>2, <1>3, <1>4, <1>5, <1>6
        DEF AcquisitionNext, RetryStep, ProbeRunsAgain, ProbeMoves, frontVars, acquisitionVars

\* A hand-off begins with the results of a report, and none of them is handled yet.
LEMMA BeginMovieProbeKeeps ==
    ASSUME SearchInv(search), OneCommand, BeginMovieProbe
    PROVE  HandedOnInv'
    <1>1. search.pc = "end" /\ search.exit = 0 /\ HandoffAt("off") /\ SeriesAt("off") /\ resolver' = resolver
        BY DEF BeginMovieProbe, OneCommand, SearchAt
    <1>2. Lists(search.groups)
        BY <1>1 DEF SearchInv
    <1>3. PICK rank \in 0..Len(search.groups) :
             handoff' = [NewHandoff EXCEPT !.pc = "resolve",
                                           !.candidates = IF rank = 0 THEN FlattenSeq(search.groups)
                                                          ELSE search.groups[rank]]
        BY DEF BeginMovieProbe
    <1> DEFINE candidates == IF rank = 0 THEN FlattenSeq(search.groups) ELSE search.groups[rank]
    <1>4. Len(candidates) \in Nat
        <2> DEFINE V == UNION {Range(search.groups[k]) : k \in DOMAIN search.groups}
        <2>1. search.groups \in Seq(Seq(V))
            BY <1>2 DEF Lists
        <2> HIDE DEF V
        <2>2. Len(search.groups) \in Nat /\ \A k \in 1..Len(search.groups) : search.groups[k] \in Seq(V)
            BY <2>1
        <2>3. candidates \in Seq(V)
            <3>1. CASE rank = 0
                BY <2>1, <3>1, FlattenLists
            <3>2. CASE rank # 0
                <4>1. rank \in 1..Len(search.groups)
                    BY <2>2, <3>2
                <4>2. QED
                    BY <2>2, <3>2, <4>1
            <3>3. QED
                BY <3>1, <3>2
        <2> HIDE DEF candidates
        <2>4. QED
            BY <2>3
    <1>5. handoff' = [NewHandoff EXCEPT !.pc = "resolve", !.candidates = candidates]
        BY <1>3
    <1> HIDE DEF candidates
    <1>6. /\ HandoffShape(handoff') /\ handoff'.pc = "resolve" /\ handoff'.candidates = candidates
          /\ handoff'.next = 1 /\ handoff'.queue = << >> /\ handoff'.skipped = << >>
        BY <1>5 DEF HandoffShape, NewHandoff
    <1>7. Range(<< >>) = {} /\ Len(<< >>) = 0 /\ 1..0 = {} /\ 1..(1 - 1) = {}
        BY DEF Range
    <1>8. Places(<< >>) = {}
        BY <1>7 DEF Places
    <1>9. Maximum \in Nat \ {0} /\ 1 \in 1..(Len(candidates) + 1)
        BY <1>4, HandoffAssumption
    <1>10. Handled(handoff')
        BY <1>4, <1>6, <1>7, <1>8, <1>9, Nothing DEF Handled
    <1>11. resolver'.pc = "idle"
        BY <1>1 DEF OneCommand, HandoffAt, SeriesAt, ResolverAt
    <1>12. QED
        BY <1>6, <1>10, <1>11 DEF HandedOnInv, HandoffAt, ResolverAt

\* While the hand-off is under way, a result at a time.
LEMMA HandoffStepsKeep ==
    ASSUME HandedOnInv, FetchInv, HandoffSteps
    PROVE  HandedOnInv'
    <1>1. handoff.pc = "resolve" /\ HandoffShape(handoff) /\ Handled(handoff)
        BY HandoffPlaces DEF HandedOnInv, HandoffAt
    <1>2. ASSUME HandoffShape(handoff'), Handled(handoff'), handoff'.pc = "resolve", resolver'.pc = "idle"
          PROVE  HandedOnInv'
        BY <1>2 DEF HandedOnInv, HandoffAt, ResolverAt
    <1>3. CASE TakeCandidate
        <2>1. ResolverAt("idle") /\ handoff.next <= Len(handoff.candidates)
            BY <1>3 DEF TakeCandidate
        <2>2. CASE LimitReached /\ handoff' = Skipped("limit") /\ UNCHANGED resolver
            BY <1>1, <1>2, <2>1, <2>2, SkippedKeeps DEF ResolverAt
        <2>3. CASE /\ ~LimitReached
                   /\ ResolveCandidate(<<Taken.magnet>>, <<Taken.hash>>, Taken.urls)
                   /\ UNCHANGED handoff
            <3>1. resolver'.pc \in {"done", "reference"}
                BY <2>3, ResolveKeeps
            <3>2. resolver'.pc = "done" => resolver'.outcome \in Infohashes
                BY <2>3, ListedOutcome
            <3>3. Len(handoff.queue) < Maximum
                BY <1>1, <2>3, HandoffAssumption DEF LimitReached, Handled, Listing
            <3>4. QED
                BY <1>1, <2>1, <2>3, <3>1, <3>2, <3>3 DEF HandedOnInv, HandoffAt, ResolverAt, Outcomes
        <2>4. QED
            BY <1>3, <2>2, <2>3 DEF TakeCandidate
    <1>4. CASE QueueCandidate
        <2>1. /\ ResolverAt("done") /\ resolver.outcome \in Outcomes
              /\ Len(handoff.queue) < Maximum /\ handoff.next <= Len(handoff.candidates)
            BY <1>4 DEF QueueCandidate, HandedOnInv, ResolverAt
        <2>2. resolver'.pc = "idle"
            BY <1>4, TakenUpKeeps DEF QueueCandidate
        <2>3. ASSUME NEW why, why # "limit", handoff' = Skipped(why)
              PROVE  HandedOnInv'
            BY <1>1, <1>2, <2>1, <2>2, <2>3, SkippedKeeps
        <2>4. CASE resolver.outcome \notin Infohashes
            <3>1. handoff' = Skipped(resolver.outcome) /\ resolver.outcome # "limit"
                BY <1>4, <2>1, <2>4 DEF QueueCandidate, Outcomes, Failures
            <3>2. QED
                BY <2>3, <3>1
        <2>5. CASE resolver.outcome \in Infohashes
            <3> DEFINE hash == resolver.outcome
            <3>1. handoff' = Queued(hash)
                BY <1>4, <2>5 DEF QueueCandidate
            <3> HIDE DEF hash
            <3>2. CASE Taken.hash \notin {None, hash}
                BY <2>3, <3>1, <3>2 DEF Queued
            <3>3. CASE Taken.hash \in {None, hash} /\ \E q \in Range(handoff.queue) : q.hash = hash
                BY <2>3, <3>1, <3>3 DEF Queued
            <3>4. CASE Taken.hash \in {None, hash} /\ ~ \E q \in Range(handoff.queue) : q.hash = hash
                <4>1. handoff' = [handoff EXCEPT !.next = @ + 1,
                                                 !.queue = Append(@, [hash |-> hash, of |-> handoff.next])]
                    BY <3>1, <3>4 DEF Queued
                <4>2. QED
                    <5>1. handoff' = Enqueued(hash)
                        BY <4>1 DEF Enqueued
                    <5>2. HandoffShape(handoff') /\ Handled(handoff') /\ handoff'.pc = handoff.pc
                        BY <1>1, <2>1, <3>4, <5>1, EnqueuedKeeps
                    <5>3. QED
                        BY <1>1, <1>2, <2>2, <5>2
            <3>5. QED
                BY <3>2, <3>3, <3>4
        <2>6. QED
            BY <2>4, <2>5
    <1>5. CASE EndHandoff
        <2>1. PICK place \in {"end", "queued"} : handoff' = [handoff EXCEPT !.pc = place]
            BY <1>5 DEF EndHandoff
        <2>2. /\ HandoffShape(handoff') /\ handoff'.pc \in {"end", "queued"} /\ handoff'.next = handoff.next
              /\ handoff'.candidates = handoff.candidates /\ handoff'.queue = handoff.queue
              /\ handoff'.skipped = handoff.skipped
            BY <1>1, <2>1 DEF HandoffShape
        <2>3. Handled(handoff')
            BY <1>1, <2>2 DEF Handled
        <2>4. handoff.next = Len(handoff.candidates) + 1
            BY <1>1, <1>5 DEF EndHandoff, Handled
        <2>5. QED
            BY <2>2, <2>3, <2>4 DEF HandedOnInv, HandoffAt
    <1>6. QED
        BY <1>3, <1>4, <1>5 DEF HandoffSteps

LEMMA HandedOnInvStep ==
    ASSUME HandedOnInv, OneCommand, FetchInv, SearchInv(search), [AcquisitionNext]_acquisitionVars
    PROVE  HandedOnInv'
    <1>1. CASE UNCHANGED <<resolver, handoff>>
        BY <1>1 DEF HandedOnInv, HandoffAt, ResolverAt
    <1>2. CASE SeriesStep
        <2>1. handoff' = handoff /\ handoff.pc = "off"
            BY <1>2 DEF SeriesStep, OneCommand, SearchAt, HandoffAt
        <2>2. QED
            BY <2>1 DEF HandedOnInv, HandoffAt
    <1>3. CASE HandoffStep
        <2>1. CASE HandoffAt("resolve") /\ ResolveReference /\ UNCHANGED <<search, series, handoff, probeVars>>
            <3>1. resolver.pc \in {"reference", "fetch"} /\ (resolver'.pc = "done" => resolver'.outcome \in Outcomes)
                BY <2>1, ResolverKeeps
            <3>2. handoff' = handoff
                BY <2>1
            <3>3. QED
                BY <3>1, <3>2 DEF HandedOnInv, HandoffAt, ResolverAt
        <2>2. QED
            BY <1>3, <2>1, BeginMovieProbeKeeps, HandoffStepsKeep DEF HandoffStep
    <1>4. CASE ProbeBegins
        <2> DEFINE queue == [k \in DOMAIN handoff.queue |-> [hash |-> handoff.queue[k].hash, of |-> 0]]
        <2>1. handoff' = [NewHandoff EXCEPT !.pc = "probing", !.queue = queue]
            BY <1>4 DEF ProbeBegins
        <2> HIDE DEF queue
        <2>2. HandoffShape(handoff') /\ handoff'.pc = "probing"
            BY <2>1 DEF HandoffShape, NewHandoff
        <2>3. QED
            BY <2>2 DEF HandedOnInv, HandoffAt
    <1>5. CASE SeriesProbeBegins
        <2>1. PICK queue : handoff' = [NewHandoff EXCEPT !.pc = "probing", !.queue = queue]
            BY <1>5 DEF SeriesProbeBegins
        <2>2. HandoffShape(handoff') /\ handoff'.pc = "probing"
            BY <2>1 DEF HandoffShape, NewHandoff
        <2>3. QED
            BY <2>2 DEF HandedOnInv, HandoffAt
    <1>6. QED
        BY <1>1, <1>2, <1>3, <1>4, <1>5
        DEF AcquisitionNext, SearchStep, RetryStep, ProbeRunsAgain, ProbeMoves, frontVars, acquisitionVars

QueueInv == FetchInv /\ HonestInv /\ OneCommand /\ HandedOnInv

LEMMA QueueInitially == AcquisitionInit => QueueInv
    <1>1. /\ SearchShape(NewSearch) /\ NewSearch.pc = "off" /\ NewSearch.exit = 9 /\ NewSearch.groups = << >>
          /\ SeriesShape(NewSeries) /\ NewSeries.pc = "off"
          /\ HandoffShape(NewHandoff) /\ NewHandoff.pc = "off" /\ NewResolver.pc = "idle"
        BY DEF SearchShape, NewSearch, SeriesShape, NewSeries, HandoffShape, NewHandoff, NewResolver
    <1>2. SearchInv(NewSearch) /\ SeriesInv(NewSeries)
        BY <1>1 DEF SearchInv, SeriesInv
    <1>3. QED
        BY <1>1, <1>2, NewKeepsNow DEF AcquisitionInit, QueueInv, HonestInv, OneCommand, HandedOnInv,
            SearchAt, SeriesAt, HandoffAt, ResolverAt

LEMMA QueueStep == QueueInv /\ [AcquisitionNext]_acquisitionVars => QueueInv'
    <1> SUFFICES ASSUME QueueInv, [AcquisitionNext]_acquisitionVars
                 PROVE  QueueInv'
        OBVIOUS
    <1>1. FetchInv' /\ HonestInv'
        BY FetchStep, HonestStep DEF QueueInv
    <1>2. OneCommand'
        BY OneCommandStep DEF QueueInv, HandedOnInv
    <1>3. HandedOnInv'
        BY HandedOnInvStep DEF QueueInv, HonestInv
    <1>4. QED
        BY <1>1, <1>2, <1>3 DEF QueueInv

\* The queue of a probe is what the results were worth: no torrent twice, each the one its
\* result listed, in their order, and a result is left out for the limit only when the
\* queue is full: the loop of movie_probe.py, whatever the resolver answers.
THEOREM QueuesAreDue == AcquisitionSpec => []QueueIsDue
    <1>1. AcquisitionInit => QueueInv
        BY QueueInitially
    <1>2. QueueInv /\ [AcquisitionNext]_acquisitionVars => QueueInv'
        BY QueueStep
    <1>3. QueueInv => QueueIsDue
        <2> SUFFICES ASSUME QueueInv, handoff.pc \in {"queued", "end"}
                     PROVE  QueueIsDue
            BY DEF QueueIsDue
        <2>1. Handled(handoff) /\ handoff.next = Len(handoff.candidates) + 1
            BY DEF QueueInv, HandedOnInv
        <2>2. IsInjective(Hashed(handoff.queue))
            <3>1. Len(handoff.queue) \in Nat
                BY <2>1 DEF Handled, Listing
            <3>2. \A j, k \in 1..Len(handoff.queue) :
                     Hashed(handoff.queue)[j] = Hashed(handoff.queue)[k] => j = k
                BY <2>1 DEF Handled, Hashed
            <3>3. DOMAIN Hashed(handoff.queue) = 1..Len(handoff.queue)
                BY DEF Hashed
            <3>4. QED
                BY <3>2, <3>3 DEF IsInjective
        <2>3. handoff.next - 1 = Len(handoff.candidates)
            BY <2>1 DEF Handled
        <2>4. /\ {q.of : q \in Range(handoff.queue)} \cup {s.of : s \in Range(handoff.skipped)}
                     = 1..Len(handoff.candidates)
              /\ {q.of : q \in Range(handoff.queue)} \cap {s.of : s \in Range(handoff.skipped)} = {}
            BY <2>1, <2>3 DEF Handled, Places
        <2>5. QED
            BY <2>1, <2>2, <2>4 DEF QueueIsDue, Handled
    <1>4. QED
        BY <1>1, <1>2, <1>3, PTL DEF AcquisitionSpec

-----------------------------------------------------------------------------
(* The results of a movie keep the best *)

Best(results) ==
    \A r \in search.offered :
       Listed(r) /\ r.seeders > 0 =>
           \/ \E n \in 1..Len(results) : r \in Range(results[n].sources)
           \/ /\ Len(results) = ResultLimit
              /\ \A n \in 1..Len(results) : ~Outranks(Candidate(<<r>>), results[n])

LEMMA RankKeepsBest ==
    ASSUME SearchInv(search), RankMovie
    PROVE  Best(Last(search'.groups))
    <1>1. search.pc = "rank" /\ Gathered(search)
        BY DEF RankMovie, SearchAt, SearchInv
    <1> DEFINE results == MovieResults(search.raw)
               grown == Append(search.groups, results)
    <1>2. Best(results)
        BY <1>1, ResultsAreBest DEF Gathered, Best
    <1> HIDE DEF results
    <1>3. search'.groups = grown
        <2>1. \/ search' = [[search EXCEPT !.groups = grown, !.raw = << >>, !.offered = {}, !.asked = 1]
                                EXCEPT !.pc = "report"]
              \/ search' = [[search EXCEPT !.groups = grown, !.raw = << >>, !.offered = {}, !.asked = 1]
                                EXCEPT !.pc = "query", !.movie = @ + 1]
            BY <1>1 DEF RankMovie, results, Gathered, SearchShape
        <2> HIDE DEF grown
        <2>2. QED
            BY <1>1, <2>1 DEF Gathered, SearchShape
    <1>4. Last(grown) = results
        <2>1. \A V : \A q \in Seq(V) : \A x : /\ Len(Append(q, x)) = Len(q) + 1
                                           /\ Append(q, x)[Len(q) + 1] = x
            OBVIOUS
        <2>2. QED
            BY <1>1, <2>1 DEF Gathered, Lists, Last
    <1>5. QED
        BY <1>2, <1>3, <1>4

\* What is offered for a movie and seeded is a source of its results, or those are as
\* good and as many as the limit: _rank_movie_results of movie_search.py.
THEOREM ReportsKeepTheBest == AcquisitionSpec => ReportKeepsBest
    <1>1. AcquisitionInit => QueueInv
        BY QueueInitially
    <1>2. QueueInv /\ [AcquisitionNext]_acquisitionVars => QueueInv'
        BY QueueStep
    <1> DEFINE KeepsBest == SearchAt("rank") /\ ~(search'.groups = search.groups) => Best(Last(search'.groups))
    <1>3. QueueInv /\ [AcquisitionNext]_acquisitionVars => KeepsBest
        <2> SUFFICES ASSUME QueueInv, [AcquisitionNext]_acquisitionVars, SearchAt("rank"),
                            ~(search'.groups = search.groups)
                     PROVE  Best(Last(search'.groups))
            OBVIOUS
        <2>1. SearchStep \/ HandoffStep \/ SeriesProbeBegins
            BY DEF AcquisitionNext, SeriesStep, RetryStep, ProbeBegins, ProbeRunsAgain, ProbeMoves, frontVars,
                acquisitionVars
        <2>2. SeriesAt("off") /\ HandoffAt("off") /\ search.pc = "rank"
            BY DEF QueueInv, OneCommand, SearchAt
        <2>3. SearchStep
            BY <2>1, <2>2 DEF HandoffStep, BeginMovieProbe, HandoffSteps, SeriesProbeBegins, SearchAt, SeriesAt,
                HandoffAt, TakeCandidate, QueueCandidate, EndHandoff
        <2>4. RankMovie
            BY <2>2, <2>3 DEF SearchStep, SearchMovies, BeginSearch, AskJackett, IndexersDiscovered, CapabilitiesKnown,
                CapabilitiesFail, MovieFound, MovieQueryFails, SearchAborts, Report, SearchAt
        <2>5. QED
            BY <2>4, RankKeepsBest DEF QueueInv, HonestInv
    <1>4. KeepsBest =>
              (SearchAt("rank") /\ ~(search'.groups = search.groups) =>
                 LET results == Last(search'.groups)
                 IN  \A r \in search.offered :
                        Listed(r) /\ r.seeders > 0 =>
                            \/ \E n \in 1..Len(results) : r \in Range(results[n].sources)
                            \/ /\ Len(results) = ResultLimit
                               /\ \A n \in 1..Len(results) : ~Outranks(Candidate(<<r>>), results[n]))
        BY DEF Best
    <1> HIDE DEF KeepsBest
    <1>5. QED
        BY <1>1, <1>2, <1>3, <1>4, PTL DEF AcquisitionSpec, ReportKeepsBest
=============================================================================
