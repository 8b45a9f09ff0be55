--------------------------- MODULE MagnetResolver ---------------------------
(***************************************************************************)
(* media_scope/magnet_resolver.py: how a candidate becomes a magnet.  A    *)
(* magnet that was listed with it comes first, then its infohash, then     *)
(* what Jackett answers for its download references.  What a reference     *)
(* came to is remembered until the command ends.                           *)
(***************************************************************************)
EXTENDS Jackett, SequencesExt

CONSTANTS
    References,     \* those of the links that are download references of Jackett
    MaxRedirects    \* redirects that are followed, 5 in the code

ASSUME ResolverAssumption == MaxRedirects \in Nat /\ References \subseteq Links

\* What a reference may come to: a torrent, or why there is none.
Failures == {"failed", "private"}
Outcomes == Infohashes \cup Failures

VARIABLE resolver

\* left: the references still to try; at: the one being fetched, visited: those
\* seen on the way to it; cache: what references came to, for those that are known;
\* fetched: references fetched from the start (remembered for a property).
Resolver == [pc : {"idle", "reference", "fetch", "done"}, left : Seq(References),
             at : References \cup {None}, visited : SUBSET References, private : BOOLEAN,
             cache : UNION {[known -> Outcomes] : known \in SUBSET References}, outcome : Outcomes \cup {None},
             fetched : SUBSET References]

NewResolver == [pc |-> "idle", left |-> << >>, at |-> None, visited |-> {}, private |-> FALSE,
                cache |-> << >>, outcome |-> None, fetched |-> {}]

ResolverAt(place) == resolver.pc = place

\* The places of the magnets and infohashes that name a torrent.
Usable(listed) == {k \in 1..Len(listed) : listed[k] \in Infohashes}

\* The places of those that are download references of Jackett.
Fetchable(references) == {k \in DOMAIN references : references[k] \in References}

\* resolve: the listed magnets and the infohashes need no request.
ResolveCandidate(magnets, infohashes, references) ==
    /\ ResolverAt("idle")
    /\ LET listed == magnets \o infohashes
       IN  resolver' = IF Usable(listed) # {}
                       THEN [resolver EXCEPT !.pc = "done", !.outcome = listed[Min(Usable(listed))]]
                       ELSE [resolver EXCEPT !.pc = "reference", !.private = FALSE,
                                             !.left = Kept(references, Fetchable(references))]

\* The next reference, unless it is known what it came to, or none is left.
NextReference ==
    /\ ResolverAt("reference")
    /\ \/ /\ resolver.left = << >>
          /\ resolver' = [resolver EXCEPT !.pc = "done",
                                          !.outcome = IF resolver.private THEN "private" ELSE "failed"]
       \/ /\ resolver.left # << >>
          /\ LET r == Head(resolver.left)
                 known == resolver.cache[r]
             IN  resolver' = IF r \notin DOMAIN resolver.cache
                             THEN [resolver EXCEPT !.pc = "fetch", !.at = r, !.visited = {},
                                                   !.fetched = @ \cup {r}]
                             ELSE IF known \in Infohashes
                             THEN [resolver EXCEPT !.pc = "done", !.outcome = known]
                             ELSE [resolver EXCEPT !.left = Tail(@), !.private = @ \/ known = "private"]
    /\ NoRequest

\* The cache with what the reference came to.
Remembered(outcome) ==
    LET r == Head(resolver.left)
    IN  [known \in DOMAIN resolver.cache \cup {r} |-> IF known = r THEN outcome ELSE resolver.cache[known]]

\* Mutant: a failure is not remembered.
SettledOnSuccess(outcome) ==
    IF outcome \in Infohashes
    THEN [resolver EXCEPT !.cache = Remembered(outcome), !.at = None, !.visited = {},
                          !.pc = "done", !.outcome = outcome]
    ELSE [resolver EXCEPT !.left = Tail(@), !.at = None, !.visited = {}, !.pc = "reference"]

\* What the reference came to is remembered, then looked up.
Settled(outcome) ==
    [resolver EXCEPT !.cache = Remembered(outcome), !.at = None, !.visited = {}, !.pc = "reference"]

\* A reference that was seen on the way is a loop.
FetchReference ==
    /\ ResolverAt("fetch") /\ request = 0
    /\ \/ /\ resolver.at \in resolver.visited
          /\ resolver' = Settled("failed")
          /\ UNCHANGED request
       \/ /\ resolver.at \notin resolver.visited
          /\ resolver' = [resolver EXCEPT !.visited = @ \cup {resolver.at}]
          /\ Send

\* _resolution_from_body: a magnet in HTML or text, a public torrent file, or
\* nothing that is of use.
FromBody(body) == CASE body.kind = "magnet"  -> body.hash
                    [] body.kind = "torrent" -> IF body.private THEN "private" ELSE body.hash
                    [] body.kind = "other"   -> "failed"

Bodies == [kind : {"magnet"}, hash : Infohashes, private : {FALSE}]
          \cup [kind : {"torrent"}, hash : Infohashes, private : BOOLEAN]
          \cup [kind : {"other"}, hash : {None}, private : {FALSE}]

BodyArrives ==
    /\ ResolverAt("fetch") /\ Answered
    /\ \E body \in Bodies : resolver' = Settled(FromBody(body))

\* Mutant: neither the loop nor the number of redirects is looked at.
RedirectArrivesAlways ==
    /\ ResolverAt("fetch") /\ Answered
    /\ \E to \in References : resolver' = [resolver EXCEPT !.at = to, !.visited = {}]

\* To a magnet, to another reference, or to what is not followed.
RedirectArrives ==
    /\ ResolverAt("fetch") /\ Answered
    /\ \/ \E outcome \in Infohashes \cup {"failed"} : resolver' = Settled(outcome)
       \/ \E to \in References :
             resolver' = IF Cardinality(resolver.visited) > MaxRedirects THEN Settled("failed")
                         ELSE [resolver EXCEPT !.at = to]

FetchFails ==
    /\ ResolverAt("fetch") /\ (NotAnswered \/ Refused)
    /\ resolver' = Settled("failed")

ResolveReference == NextReference \/ FetchReference \/ BodyArrives \/ RedirectArrives \/ FetchFails
=============================================================================
