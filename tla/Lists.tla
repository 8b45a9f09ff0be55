------------------------------- MODULE Lists -------------------------------
(***************************************************************************)
(* What the searches do with lists: filter them, take the first value that *)
(* is there, and sort.                                                     *)
(***************************************************************************)
EXTENDS Integers, Sequences, FiniteSets, Functions

\* The values of a sequence at some of its places, in their order; the n-th of a set
\* of numbers is the one up to which there are n.
Kept(s, places) ==
    LET Nth(n) == CHOOSE k \in places : Cardinality({j \in places : j <= k}) = n
    IN  [n \in 1..Cardinality(places) |-> s[Nth(n)]]

\* The values that are there, and the first of them.
Present(values, none) == Kept(values, {k \in DOMAIN values : values[k] # none})

FirstOf(values, none) == IF Present(values, none) = << >> THEN none ELSE Present(values, none)[1]

\* Of two keys the one that is smaller where they first differ comes before.
Before(a, b) == \E n \in DOMAIN a : a[n] < b[n] /\ \A m \in 1..(n - 1) : a[m] = b[m]

\* The first of a set by its key, and all of them in the order of their keys.  Where
\* keys are equal the code goes on to compare texts, and here any order may come.
First(S, Key(_)) ==
    LET keyed == {<<Key(x), x>> : x \in S}
    IN  (CHOOSE p \in keyed : \A q \in keyed : ~Before(q[1], p[1]))[2]

Sorted(S, Key(_)) ==
    CHOOSE t \in [1..Cardinality(S) -> S] :
        /\ IsInjective(t)
        /\ \A m, n \in DOMAIN t : m < n => ~Before(Key(t[n]), Key(t[m]))
=============================================================================
