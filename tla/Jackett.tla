------------------------------ MODULE Jackett ------------------------------
(***************************************************************************)
(* A request to Jackett, as media_scope/jackett_client.py makes it for     *)
(* capabilities, searches and downloads: tried again, a bounded number of  *)
(* times, while Jackett is out of reach, busy or broken.                   *)
(***************************************************************************)
EXTENDS Lists

CONSTANTS
    Attempts,   \* how often a request is tried, 4 in the code
    Infohashes, \* the torrents there are, by infohash
    Indexers,   \* the configured indexers, in their order
    Links,      \* what may be given as the address of a download
    None,       \* where a field is missing
    Broken      \* a magnet without a valid infohash

ASSUME JackettAssumption ==
    /\ Attempts \in Nat \ {0} /\ None \notin Infohashes \cup Links /\ Broken \notin Infohashes
    /\ Indexers \in Seq(Range(Indexers)) \ {<< >>} /\ IsInjective(Indexers)

\* The attempt that is under way, 0 while there is none.
VARIABLE request

NoRequest == request = 0 /\ UNCHANGED request

Send == request = 0 /\ request' = 1

\* A timeout, 429 or 5xx.
Retry == request \in 1..(Attempts - 1) /\ request' = request + 1

\* The key is rejected (401, 403).
Refused == request > 0 /\ request' = 0

\* The last attempt has failed, or one was answered with what is no use: another
\* 4xx, malformed XML, too large a body.
NotAnswered == request > 0 /\ request' = 0

Answered == request > 0 /\ request' = 0

\* Those of the configured indexers that are in S.
Configured(S) == Kept(Indexers, {k \in 1..Len(Indexers) : Indexers[k] \in S})

\* What an RSS item becomes.  Items without a title are passed over, but have
\* their number: the next answer begins to count after the releases of this one.
Parsed(items, start) ==
    LET Release(k) == [items[k] EXCEPT !.sequence = start + k,
                                       !.hash = IF @ # None THEN @
                                                ELSE IF items[k].magnet \in Infohashes THEN items[k].magnet
                                                ELSE None]
    IN  Kept([k \in 1..Len(items) |-> Release(k)], {k \in 1..Len(items) : items[k].titled})
=============================================================================
