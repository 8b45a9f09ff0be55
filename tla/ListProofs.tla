------------------------------ MODULE ListProofs ------------------------------
(***************************************************************************)
(* What is true of the lists of the searches, whatever they hold: what is  *)
(* kept of a sequence, and that there always is a first by a key of        *)
(* numbers, and an order of all.                                           *)
(***************************************************************************)
EXTENDS Lists, FiniteSetTheorems, NaturalsInduction, WellFoundedInduction, SequenceTheorems, TLAPS

-----------------------------------------------------------------------------
(* Places of a sequence *)

\* Every set of numbers that is not empty has a least one.
LEMMA LeastNumber ==
    ASSUME NEW T, T \subseteq Nat, T # {}
    PROVE  \E x \in T : \A y \in T : x <= y
    <1> DEFINE R == {p \in Nat \X Nat : p[1] < p[2]}
    <1>1. IsWellFoundedOn(R, Nat)
        BY NatLessThanWellFounded DEF OpToRel
    <1>. HIDE DEF R
    <1>2. PICK x \in T : \A y \in T : ~ (<<y, x>> \in R)
        BY <1>1, WFMin
    <1>3. \A y \in T : (<<y, x>> \in R) <=> y < x
        BY DEF R
    <1>4. \A y \in T : ~(y < x)
        BY <1>2, <1>3
    <1>5. \A y \in T : y \in Int /\ x \in Int
        OBVIOUS
    <1>6. \A y \in T : x <= y
        BY <1>4, <1>5
    <1>7. QED
        BY <1>6

\* Counting the members of P up to k.
LEMMA Counting ==
    ASSUME NEW n \in Nat, NEW P \in SUBSET (1..n)
    PROVE  /\ IsFiniteSet(P) /\ Cardinality(P) \in Nat
           /\ \A k \in 0..n : /\ IsFiniteSet({j \in P : j <= k})
                              /\ Cardinality({j \in P : j <= k}) \in Nat
           /\ \A k \in 1..n : Cardinality({j \in P : j <= k}) =
                  Cardinality({j \in P : j <= k - 1}) + (IF k \in P THEN 1 ELSE 0)
           /\ Cardinality({j \in P : j <= 0}) = 0
           /\ {j \in P : j <= n} = P
    <1>0. \A j \in P : j \in Int /\ 1 <= j /\ j <= n
        OBVIOUS
    <1>1. IsFiniteSet(1..n)
        BY FS_Interval
    <1>2. \A Q : Q \subseteq P => IsFiniteSet(Q) /\ Cardinality(Q) \in Nat
        BY <1>1, FS_Subset, FS_CardinalityType
    <1>3. ASSUME NEW k \in 1..n
          PROVE  Cardinality({j \in P : j <= k}) =
                     Cardinality({j \in P : j <= k - 1}) + (IF k \in P THEN 1 ELSE 0)
        <2> DEFINE Q == {j \in P : j <= k - 1}
        <2>1. IsFiniteSet(Q) /\ Cardinality(Q) \in Nat
            BY <1>2
        <2>2. k \in Int /\ ~(k <= k - 1)
            OBVIOUS
        <2>3. k \notin Q
            BY <2>2
        <2>4. \A j \in P : j <= k <=> j <= k - 1 \/ j = k
            BY <1>0, <2>2
        <2>5. CASE k \in P
            <3>1. {j \in P : j <= k} = Q \cup {k}
                BY <2>5, <2>4
            <3>2. Cardinality(Q \cup {k}) = Cardinality(Q) + 1
                BY <2>1, <2>3, FS_AddElement
            <3>3. QED
                BY <2>5, <3>1, <3>2
        <2>6. CASE k \notin P
            <3>1. \A j \in P : j <= k <=> j <= k - 1
                BY <2>6, <2>4
            <3>2. {j \in P : j <= k} = Q
                BY <3>1
            <3>3. Cardinality({j \in P : j <= k}) = Cardinality(Q)
                BY <3>2
            <3>4. Cardinality(Q) = Cardinality(Q) + 0
                BY <2>1
            <3>5. QED
                BY <2>6, <3>3, <3>4
        <2>7. QED
            BY <2>5, <2>6
    <1>4. {j \in P : j <= 0} = {} /\ {j \in P : j <= n} = P
        <2>1. \A j \in P : ~(j <= 0) /\ j <= n
            BY <1>0
        <2>2. QED
            BY <2>1
    <1>5. \A k \in 0..n : {j \in P : j <= k} \subseteq P
        OBVIOUS
    <1>6. QED
        BY <1>2, <1>3, <1>4, <1>5, FS_EmptySet

\* There is an n-th member, and it is the only one.
LEMMA NthMember ==
    ASSUME NEW n \in Nat, NEW P \in SUBSET (1..n)
    PROVE  /\ \A m \in 1..Cardinality(P) : \E k \in P : Cardinality({j \in P : j <= k}) = m
           /\ \A k \in P : Cardinality({j \in P : j <= k}) \in 1..Cardinality(P)
           /\ \A k, l \in P : Cardinality({j \in P : j <= k}) = Cardinality({j \in P : j <= l}) => k = l
    <1> DEFINE c(k) == Cardinality({j \in P : j <= k})
    <1>0. \A j \in P : j \in Int /\ 1 <= j /\ j <= n
        OBVIOUS
    <1>1. /\ \A k \in 0..n : c(k) \in Nat
          /\ \A k \in 1..n : c(k) = c(k - 1) + (IF k \in P THEN 1 ELSE 0)
          /\ c(0) = 0 /\ c(n) = Cardinality(P) /\ Cardinality(P) \in Nat
        BY ZenonT(40), Counting
    <1>2. ASSUME NEW m \in 1..Cardinality(P)
          PROVE  \E k \in P : c(k) = m
        <2> DEFINE T == {k \in 0..n : c(k) >= m}
        <2> HIDE DEF c
        <2>1. T \subseteq Nat /\ n \in T
            BY <1>1
        <2>2. PICK k \in T : \A l \in T : k <= l
            BY <2>1, LeastNumber
        <2>3. k \in 1..n /\ k - 1 \in 0..n
            BY <1>1, <2>2
        <2>4. ~(c(k - 1) >= m)
            BY <2>2, <2>3
        <2>5. c(k) = m /\ k \in P
            BY <1>1, <2>2, <2>3, <2>4
        <2>6. QED
            BY <2>5
    <1>3. ASSUME NEW k \in P, NEW l \in P
          PROVE  k < l => c(k) < c(l)
        <2>1. SUFFICES ASSUME k < l PROVE c(k) < c(l)
            OBVIOUS
        <2>2. k \in 1..n /\ l \in 1..n /\ l - 1 \in 0..n
            BY <1>0
        <2>3. IsFiniteSet({j \in P : j <= l - 1})
            BY <2>2, Counting
        <2>4. {j \in P : j <= k} \in SUBSET {j \in P : j <= l - 1}
            <3>1. \A j \in P : j <= k => j <= l - 1
                BY <1>0, <2>1, <2>2
            <3>2. QED
                BY <3>1
        <2>5. c(k) <= c(l - 1)
            BY <2>3, <2>4, FS_Subset
        <2> HIDE DEF c
        <2>6. QED
            BY <1>0, <1>1, <2>2, <2>5
    <1>4. ASSUME NEW k \in P
          PROVE  c(k) \in 1..Cardinality(P)
        <2>1. {j \in P : j <= k} \in SUBSET P /\ IsFiniteSet(P)
            BY Counting
        <2>2. c(k) <= Cardinality(P)
            BY <2>1, FS_Subset
        <2>3. k \in 1..n /\ k - 1 \in 0..n
            BY <1>0
        <2> HIDE DEF c
        <2>4. QED
            BY <1>1, <2>2, <2>3
    <1> HIDE DEF c
    <1>5. \A k, l \in P : c(k) = c(l) => k = l
        <2>1. \A k \in P : k \in Int /\ c(k) \in Int
            BY <1>0, <1>1
        <2>2. \A k, l \in P : k < l \/ l < k \/ k = l
            BY <2>1
        <2>3. QED
            BY <1>3, <2>1, <2>2
    <1>6. QED
        BY <1>2, <1>4, <1>5 DEF c

\* What is kept of a sequence is a sequence of what is at those places.
LEMMA KeptIs ==
    ASSUME NEW V, NEW s \in Seq(V), NEW places \in SUBSET (1..Len(s))
    PROVE  /\ Kept(s, places) \in Seq(V) /\ Len(Kept(s, places)) = Cardinality(places)
           /\ \A k \in places : \E n \in 1..Len(Kept(s, places)) : Kept(s, places)[n] = s[k]
           /\ \A n \in 1..Len(Kept(s, places)) : \E k \in places : Kept(s, places)[n] = s[k]
    <1> DEFINE c(k) == Cardinality({j \in places : j <= k})
               Spot(n) == CHOOSE k \in places : c(k) = n
               t == [n \in 1..Cardinality(places) |-> s[Spot(n)]]
    <1>0. t = Kept(s, places)
        BY DEF Kept
    <1>1. Len(s) \in Nat
        OBVIOUS
    <1>2. /\ \A m \in 1..Cardinality(places) : \E k \in places : c(k) = m
          /\ \A k \in places : c(k) \in 1..Cardinality(places)
          /\ \A k, l \in places : c(k) = c(l) => k = l
          /\ Cardinality(places) \in Nat
        BY ZenonT(40), <1>1, NthMember, Counting
    <1> HIDE DEF c
    <1>3. \A n \in 1..Cardinality(places) : Spot(n) \in places /\ c(Spot(n)) = n
        BY <1>2
    <1>4. \A k \in places : Spot(c(k)) = k
        BY <1>2, <1>3
    <1>5. \A k \in places : s[k] \in V
        OBVIOUS
    <1> HIDE DEF Spot
    <1>6. \A n \in 1..Cardinality(places) : s[Spot(n)] \in V
        BY <1>3, <1>5
    <1>7. t \in Seq(V) /\ Len(t) = Cardinality(places)
        BY <1>2, <1>6
    <1>8. \A k \in places : c(k) \in 1..Len(t) /\ t[c(k)] = s[k]
        BY <1>2, <1>4, <1>7
    <1>9. \A n \in 1..Len(t) : Spot(n) \in places /\ t[n] = s[Spot(n)]
        BY <1>3, <1>7
    <1> HIDE DEF t
    <1>10. QED
        BY <1>0, <1>7, <1>8, <1>9

-----------------------------------------------------------------------------
(* Keys *)

\* Of two keys of one length one comes before the other, unless they are the same.
LEMMA BeforeTotal ==
    ASSUME NEW w \in Nat, NEW a \in [1..w -> Int], NEW b \in [1..w -> Int], a # b
    PROVE  Before(a, b) \/ Before(b, a)
    <1> DEFINE T == {n \in 1..w : a[n] # b[n]}
    <1>1. T # {} /\ T \subseteq Nat
        OBVIOUS
    <1>2. PICK n \in T : \A m \in T : n <= m
        BY <1>1, LeastNumber
    <1>3. \A m \in 1..(n - 1) : m \in 1..w /\ ~(n <= m)
        OBVIOUS
    <1>4. \A m \in 1..(n - 1) : a[m] = b[m]
        BY <1>2, <1>3
    <1>5. a[n] \in Int /\ b[n] \in Int /\ a[n] # b[n]
        OBVIOUS
    <1>6. a[n] < b[n] \/ b[n] < a[n]
        BY <1>5
    <1>7. QED
        BY <1>4, <1>6 DEF Before

\* No key comes before itself.
LEMMA BeforeStrict ==
    ASSUME NEW w \in Nat, NEW a \in [1..w -> Int]
    PROVE  ~Before(a, a)
    <1>1. \A n \in 1..w : a[n] \in Int
        OBVIOUS
    <1>2. \A n \in DOMAIN a : ~(a[n] < a[n])
        BY <1>1
    <1>3. QED
        BY <1>2 DEF Before

\* And what comes before a key comes before all that the key comes before.
LEMMA BeforeChain ==
    ASSUME NEW w \in Nat, NEW a \in [1..w -> Int], NEW b \in [1..w -> Int], NEW c \in [1..w -> Int],
           Before(a, b), Before(b, c)
    PROVE  Before(a, c)
    <1>1. PICK n \in 1..w : a[n] < b[n] /\ \A m \in 1..(n - 1) : a[m] = b[m]
        BY DEF Before
    <1>2. PICK k \in 1..w : b[k] < c[k] /\ \A m \in 1..(k - 1) : b[m] = c[m]
        BY DEF Before
    <1>3. \A m \in 1..w : a[m] \in Int /\ b[m] \in Int /\ c[m] \in Int
        OBVIOUS
    <1>4. CASE n < k
        <2>1. n \in 1..(k - 1) /\ \A m \in 1..(n - 1) : m \in 1..(k - 1)
            BY <1>4
        <2>2. a[n] < c[n] /\ \A m \in 1..(n - 1) : a[m] = c[m]
            BY <1>1, <1>2, <2>1
        <2>3. QED
            BY <2>2 DEF Before
    <1>5. CASE ~(n < k)
        <2>1. k = n \/ k \in 1..(n - 1)
            BY <1>5
        <2>2. \A m \in 1..(k - 1) : m \in 1..(n - 1)
            BY <1>5
        <2>3. a[k] < c[k]
            BY <1>1, <1>2, <1>3, <2>1
        <2>4. \A m \in 1..(k - 1) : a[m] = c[m]
            BY <1>1, <1>2, <2>2
        <2>5. QED
            BY <2>3, <2>4 DEF Before
    <1>6. QED
        BY <1>4, <1>5

-----------------------------------------------------------------------------
(* Orders *)

\* What no two members of a finite set share puts them in an order.
LEMMA OrderByKey ==
    ASSUME NEW S, IsFiniteSet(S), NEW w \in Nat, NEW key \in [S -> [1..w -> Int]], IsInjective(key)
    PROVE  \E t \in [1..Cardinality(S) -> S] :
              /\ \A m, n \in 1..Cardinality(S) : m < n => Before(key[t[m]], key[t[n]])
              /\ \A m, n \in 1..Cardinality(S) : t[m] = t[n] => m = n
    <1> DEFINE size == Cardinality(S)
               below(x) == {y \in S : Before(key[y], key[x])}
               rank == [x \in S |-> Cardinality(below(x)) + 1]
               t == [m \in 1..size |-> CHOOSE x \in S : rank[x] = m]
    <1>1. size \in Nat /\ \A x \in S : /\ below(x) \in SUBSET S /\ IsFiniteSet(below(x))
                                       /\ Cardinality(below(x)) \in Nat /\ Cardinality(below(x)) <= size
        BY FS_Subset, FS_CardinalityType
    <1>2. \A x, y \in S : key[x] = key[y] => x = y
        BY DEF IsInjective
    <1>3. \A x \in S : key[x] \in [1..w -> Int]
        OBVIOUS
    <1>4. \A x \in S : x \notin below(x)
        BY <1>3, BeforeStrict
    <1>5. \A x \in S : Cardinality(below(x)) < size
        <2> SUFFICES ASSUME NEW x \in S PROVE Cardinality(below(x)) < size
            OBVIOUS
        <2>1. below(x) # S
            BY <1>4
        <2>2. Cardinality(below(x)) # size
            BY <1>1, <2>1, FS_Subset
        <2> HIDE DEF below, size
        <2>3. QED
            BY <1>1, <2>2
    <1>6. \A x \in S : rank[x] = Cardinality(below(x)) + 1
        OBVIOUS
    <1>7. \A x \in S : rank[x] = Cardinality(below(x)) + 1 /\ rank[x] \in 1..size
        <2> HIDE DEF below, size, rank
        <2>1. QED
            BY <1>1, <1>5, <1>6
    <1>8. ASSUME NEW x \in S, NEW y \in S, Before(key[x], key[y])
          PROVE  rank[x] < rank[y]
        <2>1. \A z \in below(x) : z \in below(y)
            BY <1>3, <1>8, BeforeChain
        <2>2. below(x) \in SUBSET below(y) /\ x \in below(y) /\ x \notin below(x)
            BY <1>4, <1>8, <2>1
        <2>3. Cardinality(below(x)) <= Cardinality(below(y)) /\ Cardinality(below(x)) # Cardinality(below(y))
            BY <1>1, <2>2, FS_Subset
        <2> HIDE DEF below, size, rank
        <2>4. QED
            BY <1>1, <1>7, <2>3
    <1>9. \A x, y \in S : rank[x] = rank[y] => x = y
        <2> SUFFICES ASSUME NEW x \in S, NEW y \in S, x # y PROVE rank[x] # rank[y]
            OBVIOUS
        <2>1. Before(key[x], key[y]) \/ Before(key[y], key[x])
            BY <1>2, <1>3, BeforeTotal
        <2>2. rank[x] < rank[y] \/ rank[y] < rank[x]
            BY <1>8, <2>1
        <2>3. rank[x] \in Int /\ rank[y] \in Int
            BY <1>7, <1>1
        <2> HIDE DEF rank, below, size
        <2>4. QED
            BY <2>2, <2>3
    <1> HIDE DEF rank, below
    <1>10. rank \in [S -> 1..size]
        BY <1>7 DEF rank
    <1>11. rank \in Injection(S, 1..size)
        BY <1>9, <1>10 DEF Injection, IsInjective
    <1>12. IsFiniteSet(1..size) /\ Cardinality(1..size) = size
        BY <1>1, FS_Interval
    <1>13. rank \in Surjection(S, 1..size)
        BY <1>11, <1>12, FS_Injection
    <1>14. \A m \in 1..size : \E x \in S : rank[x] = m
        BY <1>13 DEF Surjection
    <1>15. \A m \in 1..size : t[m] \in S /\ rank[t[m]] = m
        BY <1>14
    <1>16. t \in [1..size -> S]
        BY <1>15
    <1> HIDE DEF t
    <1>17. \A m, n \in 1..size : t[m] = t[n] => m = n
        BY <1>15
    <1>18. ASSUME NEW m \in 1..size, NEW n \in 1..size, m < n
           PROVE  Before(key[t[m]], key[t[n]])
        <2>1. t[m] \in S /\ t[n] \in S /\ ~(rank[t[n]] < rank[t[m]]) /\ t[m] # t[n]
            BY <1>1, <1>15, <1>17, <1>18
        <2>2. ~Before(key[t[n]], key[t[m]])
            BY <1>8, <2>1
        <2>3. key[t[m]] # key[t[n]]
            BY <1>2, <2>1
        <2>4. QED
            BY <1>3, <2>1, <2>2, <2>3, BeforeTotal
    <1>19. QED
        BY <1>16, <1>17, <1>18

\* Every finite set has an order by its keys.
LEMMA SortedExists ==
    ASSUME NEW S, IsFiniteSet(S), NEW w \in Nat, NEW key, key \in [S -> [1..w -> Int]]
    PROVE  \E t \in [1..Cardinality(S) -> S] :
              /\ IsInjective(t)
              /\ \A m, n \in DOMAIN t : m < n => ~Before(key[t[n]], key[t[m]])
    <1>1. Cardinality(S) \in Nat
        BY FS_CardinalityType
    <1>2. IsFiniteSet(1..Cardinality(S)) /\ Cardinality(1..Cardinality(S)) = Cardinality(S)
        BY <1>1, FS_Interval
    <1>3. ExistsBijection(S, 1..Cardinality(S))
        BY <1>2, FS_SameCardinalityBij
    <1>4. Bijection(S, 1..Cardinality(S)) # {}
        BY <1>3 DEF ExistsBijection
    <1>5. PICK f \in Injection(S, 1..Cardinality(S)) : TRUE
        BY <1>4 DEF Bijection
    <1>6. f \in [S -> 1..Cardinality(S)] /\ \A x, y \in S : f[x] = f[y] => x = y
        BY <1>5 DEF Injection, IsInjective
    <1>7. PICK full :
              /\ full \in [S -> [1..(w + 1) -> Int]]
              /\ \A x \in S : full[x][w + 1] = f[x] /\ \A i \in 1..w : full[x][i] = key[x][i]
        <2> DEFINE Wider(x) == [i \in 1..(w + 1) |-> IF i <= w THEN key[x][i] ELSE f[x]]
        <2>1. \A x \in S : /\ Wider(x) \in [1..(w + 1) -> Int] /\ Wider(x)[w + 1] = f[x]
                           /\ \A i \in 1..w : Wider(x)[i] = key[x][i]
            <3> SUFFICES ASSUME NEW x \in S
                         PROVE  /\ Wider(x) \in [1..(w + 1) -> Int] /\ Wider(x)[w + 1] = f[x]
                                /\ \A i \in 1..w : Wider(x)[i] = key[x][i]
                OBVIOUS
            <3>1. f[x] \in Int /\ \A i \in 1..w : key[x][i] \in Int
                BY <1>1, <1>6
            <3>2. \A i \in 1..(w + 1) : i <= w => i \in 1..w
                OBVIOUS
            <3>3. w + 1 \in 1..(w + 1) /\ ~(w + 1 <= w) /\ \A i \in 1..w : i \in 1..(w + 1) /\ i <= w
                OBVIOUS
            <3>4. QED
                BY <3>1, <3>2, <3>3
        <2> HIDE DEF Wider
        <2>2. [x \in S |-> Wider(x)] \in [S -> [1..(w + 1) -> Int]]
            BY <2>1
        <2> DEFINE g == [x \in S |-> Wider(x)]
        <2>3. \A x \in S : g[x] = Wider(x)
            OBVIOUS
        <2>4. g \in [S -> [1..(w + 1) -> Int]]
            BY <2>2
        <2> HIDE DEF g
        <2>5. \A x \in S : g[x][w + 1] = f[x] /\ \A i \in 1..w : g[x][i] = key[x][i]
            BY <2>1, <2>3
        <2>6. QED
            BY <2>4, <2>5
    <1>8. full \in [S -> [1..(w + 1) -> Int]]
        BY <1>7
    <1>9. \A x \in S : full[x] \in [1..(w + 1) -> Int] /\ \A i \in 1..w : key[x][i] \in Int
        BY <1>8
    <1>10. IsInjective(full)
        <2>1. ASSUME NEW x \in S, NEW y \in S, full[x] = full[y] PROVE x = y
            <3>1. full[x][w + 1] = full[y][w + 1]
                BY <2>1
            <3>2. QED
                BY <1>6, <1>7, <3>1
        <2>2. DOMAIN full = S
            BY <1>8
        <2>3. QED
            BY <2>1, <2>2 DEF IsInjective
    <1>11. w + 1 \in Nat
        OBVIOUS
    <1>12. PICK t \in [1..Cardinality(S) -> S] :
               /\ \A m, n \in 1..Cardinality(S) : m < n => Before(full[t[m]], full[t[n]])
               /\ \A m, n \in 1..Cardinality(S) : t[m] = t[n] => m = n
        BY ONLY SMTT(30), IsFiniteSet(S), <1>8, <1>10, <1>11, OrderByKey
    <1>13. ASSUME NEW x \in S, NEW y \in S, Before(key[x], key[y])
           PROVE  Before(full[x], full[y])
        <2>1. PICK i \in 1..w : key[x][i] < key[y][i] /\ \A m \in 1..(i - 1) : key[x][m] = key[y][m]
            BY <1>13 DEF Before
        <2>2. \A m \in 1..(i - 1) : m \in 1..w
            OBVIOUS
        <2>3. i \in 1..(w + 1) /\ full[x][i] < full[y][i] /\ \A m \in 1..(i - 1) : full[x][m] = full[y][m]
            BY <1>7, <2>1, <2>2
        <2>4. DOMAIN full[x] = 1..(w + 1)
            BY <1>9
        <2>5. QED
            BY <2>3, <2>4 DEF Before
    <1>14. ASSUME NEW m \in 1..Cardinality(S), NEW n \in 1..Cardinality(S), m < n
           PROVE  ~Before(key[t[n]], key[t[m]])
        <2>1. t[m] \in S /\ t[n] \in S /\ Before(full[t[m]], full[t[n]])
            BY <1>12, <1>14
        <2>2. Before(full[t[n]], full[t[m]]) => Before(full[t[n]], full[t[n]])
            BY <1>9, <1>11, <2>1, BeforeChain
        <2>3. ~Before(full[t[n]], full[t[n]])
            BY <1>9, <1>11, <2>1, BeforeStrict
        <2>4. QED
            BY <1>13, <2>1, <2>2, <2>3
    <1>15. IsInjective(t) /\ DOMAIN t = 1..Cardinality(S)
        BY <1>12 DEF IsInjective
    <1>16. QED
        BY <1>14, <1>15

\* An order of all of them leaves none out.
LEMMA OrderIsComplete ==
    ASSUME NEW S, IsFiniteSet(S), NEW t \in [1..Cardinality(S) -> S], IsInjective(t)
    PROVE  /\ Cardinality(S) \in Nat /\ t \in Seq(S) /\ Len(t) = Cardinality(S)
           /\ Range(t) = S /\ \A x \in S : \E n \in 1..Len(t) : t[n] = x
    <1>1. Cardinality(S) \in Nat
        BY FS_CardinalityType
    <1>2. Cardinality(1..Cardinality(S)) = Cardinality(S)
        BY <1>1, FS_Interval
    <1>3. t \in Injection(1..Cardinality(S), S)
        BY DEF Injection
    <1>4. t \in Surjection(1..Cardinality(S), S)
        BY <1>2, <1>3, FS_Injection
    <1>5. \A x \in S : \E n \in 1..Cardinality(S) : t[n] = x
        BY <1>4 DEF Surjection
    <1>6. t \in Seq(S) /\ Len(t) = Cardinality(S)
        BY <1>1
    <1>7. Range(t) = S
        BY <1>5 DEF Range
    <1>8. QED
        BY <1>1, <1>5, <1>6, <1>7

\* And where there is one, there is a first.
LEMMA FirstExists ==
    ASSUME NEW S, IsFiniteSet(S), S # {}, NEW w \in Nat, NEW key \in [S -> [1..w -> Int]]
    PROVE  \E x \in S : \A y \in S : ~Before(key[y], key[x])
    <1>1. PICK t \in [1..Cardinality(S) -> S] :
              /\ IsInjective(t)
              /\ \A m, n \in DOMAIN t : m < n => ~Before(key[t[n]], key[t[m]])
        BY SortedExists
    <1>2. Cardinality(S) \in Nat /\ \A x \in S : \E n \in 1..Cardinality(S) : t[n] = x
        BY <1>1, OrderIsComplete
    <1>3. 1 \in 1..Cardinality(S)
        BY <1>2
    <1>4. ASSUME NEW y \in S PROVE ~Before(key[y], key[t[1]])
        <2>1. PICK n \in 1..Cardinality(S) : t[n] = y
            BY <1>2
        <2>2. CASE n = 1
            BY <1>3, <2>1, <2>2, BeforeStrict
        <2>3. CASE n # 1
            <3>1. 1 < n /\ 1 \in DOMAIN t /\ n \in DOMAIN t
                BY <1>2, <1>3, <2>3
            <3>2. QED
                BY <1>1, <2>1, <3>1
        <2>4. QED
            BY <2>2, <2>3
    <1>5. t[1] \in S
        BY <1>3
    <1>6. QED
        BY <1>4, <1>5

\* Of finitely many numbers one is the greatest.
LEMMA GreatestExists ==
    ASSUME NEW S, IsFiniteSet(S), S # {}, S \subseteq Int
    PROVE  \E x \in S : \A y \in S : y <= x
    <1> DEFINE key == [x \in S |-> [i \in 1..1 |-> -x]]
    <1>1. key \in [S -> [1..1 -> Int]]
        OBVIOUS
    <1>2. \A x \in S : DOMAIN key[x] = 1..1 /\ key[x][1] = -x
        OBVIOUS
    <1> HIDE DEF key
    <1>3. PICK x \in S : \A y \in S : ~Before(key[y], key[x])
        BY <1>1, 1 \in Nat, FirstExists
    <1>4. ASSUME NEW y \in S PROVE y <= x
        <2>1. 1 \in DOMAIN key[y] /\ 1..(1 - 1) = {}
            BY <1>2
        <2>2. ~(key[y][1] < key[x][1])
            BY <1>3, <2>1 DEF Before
        <2>3. y \in Int /\ x \in Int /\ ~(-y < -x)
            BY <1>2, <2>2
        <2>4. QED
            BY <2>3
    <1>5. QED
        BY <1>4

\* What a function comes to on a finite set is finite.
LEMMA FiniteImage ==
    ASSUME NEW S, IsFiniteSet(S), NEW f, DOMAIN f = S, f = [x \in S |-> f[x]]
    PROVE  IsFiniteSet({f[x] : x \in S}) /\ Cardinality({f[x] : x \in S}) \in Nat
    <1> DEFINE T == {f[x] : x \in S}
    <1>1. f \in [S -> T]
        OBVIOUS
    <1>2. \A y \in T : \E x \in S : f[x] = y
        OBVIOUS
    <1> HIDE DEF T
    <1>3. f \in Surjection(S, T)
        BY <1>1, <1>2 DEF Surjection
    <1>4. IsFiniteSet(T)
        BY <1>3, FS_Surjection
    <1>5. QED
        BY <1>4, FS_CardinalityType DEF T

\* A sequence that is not empty has a first place.
LEMMA Filled ==
    ASSUME NEW V, NEW q \in Seq(V), q # << >>
    PROVE  Len(q) \in Nat /\ 1 \in 1..Len(q)
    BY EmptySeq, LenProperties

\* What a sequence holds is finite.
LEMMA RangeIsFinite ==
    ASSUME NEW V, NEW s \in Seq(V)
    PROVE  IsFiniteSet(Range(s)) /\ Range(s) \subseteq V
    <1>1. IsFiniteSet(1..Len(s)) /\ DOMAIN s = 1..Len(s)
        BY FS_Interval
    <1>2. s = [k \in 1..Len(s) |-> s[k]]
        OBVIOUS
    <1>3. IsFiniteSet({s[k] : k \in 1..Len(s)})
        BY <1>1, <1>2, FiniteImage
    <1>4. Range(s) = {s[k] : k \in 1..Len(s)}
        BY <1>1 DEF Range
    <1>5. QED
        BY <1>3, <1>4

-----------------------------------------------------------------------------
(* The values that are there *)

\* They are values of the list, and none is missing.
LEMMA PresentIs ==
    ASSUME NEW V, NEW none, NEW values \in Seq(V)
    PROVE  /\ Present(values, none) \in Seq(V)
           /\ \A n \in 1..Len(Present(values, none)) : Present(values, none)[n] \in V \ {none}
    <1> DEFINE places == {k \in DOMAIN values : values[k] # none}
    <1>1. places \in SUBSET (1..Len(values)) /\ \A k \in places : values[k] \in V \ {none}
        OBVIOUS
    <1>2. Present(values, none) = Kept(values, places)
        BY DEF Present
    <1> HIDE DEF places
    <1>3. QED
        BY SMTT(30), <1>1, <1>2, KeptIs

\* The first of them is a value, unless all are missing; it is the first of all if
\* that one is there.
LEMMA FirstOfIs ==
    ASSUME NEW V, NEW none, NEW values \in Seq(V)
    PROVE  /\ FirstOf(values, none) \in V \cup {none}
           /\ 1 \in DOMAIN values /\ values[1] # none => FirstOf(values, none) = values[1]
    <1> DEFINE places == {k \in DOMAIN values : values[k] # none}
               c(k) == Cardinality({j \in places : j <= k})
    <1>1. places \in SUBSET (1..Len(values)) /\ Len(values) \in Nat
        OBVIOUS
    <1>2. Present(values, none) = Kept(values, places)
        BY DEF Present
    <1>3. FirstOf(values, none) \in V \cup {none}
        <2>1. Present(values, none) # << >> => 1 \in 1..Len(Present(values, none))
            BY PresentIs
        <2>2. QED
            BY <2>1, PresentIs DEF FirstOf
    <1>4. ASSUME 1 \in DOMAIN values, values[1] # none
          PROVE  FirstOf(values, none) = values[1]
        <2>1. 1 \in places /\ 1 \in 1..Len(values) /\ 1 - 1 = 0
            BY <1>4
        <2> HIDE DEF places
        <2>2. /\ \A k \in 1..Len(values) : c(k) = c(k - 1) + (IF k \in places THEN 1 ELSE 0)
              /\ c(0) = 0
            BY ZenonT(40), <1>1, Counting
        <2>3. c(1) = 1
            <3> HIDE DEF c
            <3>1. c(1) = c(1 - 1) + 1
                BY <2>1, <2>2
            <3>2. QED
                BY <2>1, <2>2, <3>1
        <2>4. /\ \A k, l \in places : c(k) = c(l) => k = l
              /\ c(1) \in 1..Cardinality(places)
            BY <1>1, <2>1, NthMember
        <2>5. (CHOOSE k \in places : c(k) = 1) = 1
            <3> HIDE DEF c
            <3>1. QED
                BY <2>1, <2>3, <2>4
        <2>6. 1 \in 1..Cardinality(places)
            BY <2>3, <2>4
        <2>7. Kept(values, places)[1] = values[1] /\ 1 \in DOMAIN Kept(values, places)
            BY <2>5, <2>6 DEF Kept
        <2>8. Kept(values, places) # << >>
            BY <2>7
        <2>9. QED
            BY <1>2, <2>7, <2>8 DEF FirstOf
    <1>5. QED
        BY <1>3, <1>4
=============================================================================
