------------------------------- MODULE WireProofs -------------------------------
(***************************************************************************)
(* Theorems about Wire for every site, every request a client may make and *)
(* every sequence of frames: a target is taken for what it means, a link   *)
(* that the server makes leads to what it was made for, a body is what its *)
(* head promises whatever happens to the files meanwhile, and pings are    *)
(* answered in order.                                                      *)
(***************************************************************************)
EXTENDS Wire, FiniteSetTheorems, SequenceTheorems, WellFoundedInduction, TLAPS

---------------------------------------------------------------------------
(* Numbers *)

\* numbers are well-founded
LEMMA LeastOf ==
    ASSUME NEW T \in SUBSET Nat, T # {}
    PROVE  \E x \in T : \A y \in T : x <= y
<1>1. \E R : /\ IsWellFoundedOn(R, Nat)
             /\ \A x, y \in Nat : x < y => <<x, y>> \in R
    <2>1. \A x, y \in Nat : x < y => <<x, y>> \in OpToRel(<, Nat)
        BY Zenon DEF OpToRel
    <2> QED
        BY <2>1, NatLessThanWellFounded, Zenon
<1>2. PICK R : /\ IsWellFoundedOn(R, Nat)
               /\ \A x, y \in Nat : x < y => <<x, y>> \in R
    BY <1>1, Zenon
<1>3. PICK x \in T : \A y \in T : ~(<<y, x>> \in R)
    <2>1. IsWellFoundedOn(R, Nat)
        BY <1>2
    <2>2. T \subseteq Nat
        OBVIOUS
    <2>3. T # {}
        OBVIOUS
    <2> QED
        BY <2>1, <2>2, <2>3, WFMin, ZenonT(30)
<1>4. \A y \in T : x <= y
    <2> TAKE y \in T
    <2>1. x \in Nat /\ y \in Nat /\ ~(<<y, x>> \in R)
        BY <1>3
    <2>2. ~(y < x)
        BY <1>2, <2>1, Zenon
    <2> QED
        BY <2>1, <2>2
<1> QED
    BY <1>4

\* a finite set of numbers has a greatest one: none has fewer above it
LEMMA MaxIsOne ==
    ASSUME NEW S \in SUBSET Nat, S # {}, IsFiniteSet(S)
    PROVE  Max(S) \in S /\ \A n \in S : n <= Max(S)
<1> DEFINE Above(n) == {m \in S : m > n}
           T == {Cardinality(Above(n)) : n \in S}
<1>1. \A n \in S : IsFiniteSet(Above(n)) /\ Cardinality(Above(n)) \in Nat
    BY FS_Subset, FS_CardinalityType
<1>2. T \in SUBSET Nat /\ T # {}
    BY <1>1
<1>3. PICK x \in S : \A y \in S : Cardinality(Above(x)) <= Cardinality(Above(y))
    <2>1. PICK c \in T : \A d \in T : c <= d
        BY <1>2, LeastOf
    <2> QED
        BY <2>1
<1>4. ASSUME NEW y \in S, y > x
      PROVE  FALSE
    <2>1. Above(y) \subseteq Above(x) /\ y \in Above(x) /\ y \notin Above(y)
        <3>1. x \in Nat /\ y \in Nat /\ \A m \in S : m \in Nat
            OBVIOUS
        <3>2. \A m \in S : m > y => m > x
            BY <1>4, <3>1
        <3>3. ~(y > y)
            BY <3>1
        <3> QED
            BY <1>4, <3>2, <3>3, Zenon
    <2>2. Cardinality(Above(y)) < Cardinality(Above(x))
        <3> HIDE DEF Above
        <3>1. /\ Above(y) \in SUBSET Above(x) /\ Above(y) # Above(x)
              /\ IsFiniteSet(Above(x))
            BY <1>1, <2>1
        <3>2. /\ Cardinality(Above(y)) <= Cardinality(Above(x))
              /\ Cardinality(Above(x)) # Cardinality(Above(y))
            BY <3>1, FS_Subset
        <3>3. Cardinality(Above(y)) \in Nat /\ Cardinality(Above(x)) \in Nat
            BY <1>1
        <3> QED
            BY <3>2, <3>3
    <2> QED
        BY <1>1, <1>3, <2>2
<1>5. \A y \in S : x >= y
    BY <1>4
<1> QED
    BY <1>5, Zenon DEF Max

\* who counts from 0 gets everywhere
LEMMA Counting ==
    ASSUME NEW T, 0 \in T, \A n \in Nat : n \in T => n + 1 \in T
    PROVE  Nat \subseteq T
<1> SUFFICES ASSUME NEW m \in Nat, m \notin T PROVE FALSE
    OBVIOUS
<1>1. PICK x \in Nat \ T : \A y \in Nat \ T : x <= y
    <2>1. Nat \ T \in SUBSET Nat /\ Nat \ T # {}
        OBVIOUS
    <2> QED
        BY <2>1, LeastOf, Zenon
<1>2. x # 0 /\ x - 1 \in Nat /\ x - 1 \in T /\ (x - 1) + 1 = x
    BY <1>1
<1> QED
    BY <1>1, <1>2

---------------------------------------------------------------------------
(* The names that are left *)

IsLeft(rest, segments) ==
    rest = [n \in 0 .. Len(segments) |->
               IF n = 0 THEN <<>> ELSE Taken(rest[n - 1], segments[n])]

\* the recursion has a solution
LEMMA LeftExists ==
    ASSUME NEW segments \in Seq(Segments)
    PROVE  \E rest : IsLeft(rest, segments)
<1> DEFINE Upto(f, n) == f = [m \in 0 .. n |-> IF m = 0 THEN <<>>
                                               ELSE Taken(f[m - 1], segments[m])]
           T == {n \in Nat : \E f : Upto(f, n)}
<1>1. 0 \in T
    <2> DEFINE f == [m \in 0 .. 0 |-> <<>>]
    <2>1. Upto(f, 0)
        OBVIOUS
    <2> QED
        BY <2>1
<1>2. ASSUME NEW n \in Nat, n \in T
      PROVE  n + 1 \in T
    <2>1. PICK f : Upto(f, n)
        BY <1>2
    <2> DEFINE g == [m \in 0 .. n + 1 |-> IF m = n + 1 THEN Taken(f[n], segments[n + 1])
                                          ELSE f[m]]
    <2>2. ASSUME NEW m \in 0 .. n + 1
          PROVE  g[m] = IF m = 0 THEN <<>> ELSE Taken(g[m - 1], segments[m])
        <3>1. CASE m = n + 1
            <4>1. m - 1 = n /\ n \in 0 .. n + 1 /\ n # n + 1 /\ m # 0
                BY <3>1
            <4>2. g[n] = f[n]
                BY <4>1
            <4>3. g[m] = Taken(f[n], segments[n + 1])
                BY <3>1
            <4> HIDE DEF g
            <4> QED
                BY <3>1, <4>1, <4>2, <4>3
        <3>2. CASE m = 0
            <4>1. g[m] = f[m]
                BY <3>2
            <4>2. f[0] = <<>>
                BY <2>1
            <4> HIDE DEF g
            <4> QED
                BY <3>2, <4>1, <4>2
        <3>3. CASE m # 0 /\ m # n + 1
            <4>1. m \in 0 .. n /\ m - 1 \in 0 .. n + 1 /\ m - 1 # n + 1
                BY <3>3
            <4>2. g[m] = f[m] /\ g[m - 1] = f[m - 1]
                BY <3>3, <4>1
            <4>3. f[m] = Taken(f[m - 1], segments[m])
                BY <2>1, <3>3, <4>1
            <4> HIDE DEF g
            <4> QED
                BY <3>3, <4>2, <4>3
        <3> QED
            BY <3>1, <3>2, <3>3
    <2>3. Upto(g, n + 1)
        BY <2>2
    <2> HIDE DEF g, Upto
    <2>4. n + 1 \in Nat
        OBVIOUS
    <2> QED
        BY <2>3, <2>4
<1> HIDE DEF T
<1>3. Len(segments) \in T
    BY <1>1, <1>2, Counting
<1> QED
    BY <1>3 DEF T, IsLeft

LEMMA LeftSteps ==
    ASSUME NEW segments \in Seq(Segments), NEW rest, IsLeft(rest, segments)
    PROVE  /\ rest[0] = <<>>
           /\ \A m \in 1 .. Len(segments) : rest[m] = Taken(rest[m - 1], segments[m])
<1> DEFINE Step(m) == IF m = 0 THEN <<>> ELSE Taken(rest[m - 1], segments[m])
<1>1. rest = [m \in 0 .. Len(segments) |-> Step(m)]
    BY Zenon DEF IsLeft
<1>2. \A m \in 0 .. Len(segments) : rest[m] = Step(m)
    <2> HIDE DEF Step
    <2> QED
        BY <1>1
<1>3. /\ 0 \in 0 .. Len(segments)
      /\ \A m \in 1 .. Len(segments) : m \in 0 .. Len(segments) /\ m # 0
    OBVIOUS
<1> QED
    BY <1>2, <1>3, Zenon

LEMMA TakingSpelled ==
    ASSUME NEW segments \in Seq(Segments)
    PROVE  \E rest : IsLeft(rest, segments) /\ Taking(segments) = rest[Len(segments)]
<1>1. Taking(segments) = (CHOOSE rest : IsLeft(rest, segments))[Len(segments)]
    BY Zenon DEF Taking, IsLeft
<1>2. IsLeft(CHOOSE rest : IsLeft(rest, segments), segments)
    BY LeftExists, Zenon
<1> QED
    BY <1>1, <1>2, Zenon

---------------------------------------------------------------------------
(* Sequences of sequences *)

\* flat holds the sequences so far, one after the other
IsFlat(flat, seqs) ==
    flat = [n \in 1 .. Len(seqs) |-> IF n = 1 THEN seqs[n] ELSE flat[n - 1] \o seqs[n]]

LEMMA FlatExists ==
    ASSUME NEW S, NEW seqs \in Seq(Seq(S))
    PROVE  \E flat : IsFlat(flat, seqs)
<1> DEFINE Upto(f, n) == f = [m \in 1 .. n |-> IF m = 1 THEN seqs[m]
                                               ELSE f[m - 1] \o seqs[m]]
           T == {n \in Nat : \E f : Upto(f, n)}
<1>1. 0 \in T
    <2> DEFINE f == [m \in 1 .. 0 |-> <<>>]
    <2>1. Upto(f, 0)
        OBVIOUS
    <2> QED
        BY <2>1
<1>2. ASSUME NEW n \in Nat, n \in T
      PROVE  n + 1 \in T
    <2>1. PICK f : Upto(f, n)
        BY <1>2
    <2> DEFINE g == [m \in 1 .. n + 1 |->
                        IF m # n + 1 THEN f[m]
                        ELSE IF m = 1 THEN seqs[m] ELSE f[n] \o seqs[m]]
    <2>2. ASSUME NEW m \in 1 .. n + 1
          PROVE  g[m] = IF m = 1 THEN seqs[m] ELSE g[m - 1] \o seqs[m]
        <3>1. CASE m = 1
            <4>1. g[m] = IF m # n + 1 THEN f[m] ELSE seqs[m]
                BY <3>1
            <4>2. m # n + 1 => f[m] = seqs[m]
                <5>1. m # n + 1 => m \in 1 .. n
                    OBVIOUS
                <5> QED
                    BY <2>1, <3>1, <5>1
            <4> HIDE DEF g
            <4> QED
                BY <3>1, <4>1, <4>2
        <3>2. CASE m # 1 /\ m = n + 1
            <4>1. m - 1 = n /\ n \in 1 .. n + 1 /\ n # n + 1
                BY <3>2
            <4>2. g[n] = f[n]
                BY <4>1
            <4>3. g[m] = f[n] \o seqs[m]
                BY <3>2
            <4> HIDE DEF g
            <4> QED
                BY <3>2, <4>1, <4>2, <4>3
        <3>3. CASE m # 1 /\ m # n + 1
            <4>1. m \in 1 .. n /\ m - 1 \in 1 .. n + 1 /\ m - 1 # n + 1
                BY <3>3
            <4>2. g[m] = f[m] /\ g[m - 1] = f[m - 1]
                BY <3>3, <4>1
            <4>3. f[m] = f[m - 1] \o seqs[m]
                BY <2>1, <3>3, <4>1
            <4> HIDE DEF g
            <4> QED
                BY <3>3, <4>2, <4>3
        <3> QED
            BY <3>1, <3>2, <3>3
    <2>3. Upto(g, n + 1)
        BY <2>2
    <2> HIDE DEF g, Upto
    <2>4. n + 1 \in Nat
        OBVIOUS
    <2> QED
        BY <2>3, <2>4
<1> HIDE DEF T
<1>3. Len(seqs) \in T
    BY <1>1, <1>2, Counting
<1> QED
    BY <1>3 DEF T, IsFlat

LEMMA FlatSpelled ==
    ASSUME NEW S, NEW seqs \in Seq(Seq(S))
    PROVE  IF Len(seqs) = 0 THEN FlattenSeq(seqs) = <<>>
           ELSE \E flat : IsFlat(flat, seqs) /\ FlattenSeq(seqs) = flat[Len(seqs)]
<1>1. CASE Len(seqs) = 0
    <2>1. seqs = <<>>
        BY <1>1
    <2> QED
        BY <1>1, <2>1, Zenon DEF FlattenSeq
<1>2. CASE Len(seqs) # 0
    <2>1. FlattenSeq(seqs) = (CHOOSE flat : IsFlat(flat, seqs))[Len(seqs)]
        BY <1>2, Zenon DEF FlattenSeq, IsFlat
    <2>2. IsFlat(CHOOSE flat : IsFlat(flat, seqs), seqs)
        BY FlatExists, Zenon
    <2> QED
        BY <1>2, <2>1, <2>2, Zenon
<1> QED
    BY <1>1, <1>2

LEMMA FlatSteps ==
    ASSUME NEW S, NEW seqs \in Seq(Seq(S)), NEW flat, IsFlat(flat, seqs)
    PROVE  /\ Len(seqs) # 0 => flat[1] = seqs[1]
           /\ \A n \in Nat \ {0} :
                  n + 1 <= Len(seqs) => flat[n + 1] = flat[n] \o seqs[n + 1]
<1> DEFINE Step(n) == IF n = 1 THEN seqs[n] ELSE flat[n - 1] \o seqs[n]
<1>1. flat = [n \in 1 .. Len(seqs) |-> Step(n)]
    BY Zenon DEF IsFlat
<1>2. \A n \in 1 .. Len(seqs) : flat[n] = Step(n)
    <2> HIDE DEF Step
    <2> QED
        BY <1>1
<1>3. Len(seqs) # 0 => flat[1] = seqs[1]
    <2>1. Len(seqs) # 0 => 1 \in 1 .. Len(seqs)
        OBVIOUS
    <2> QED
        BY <1>2, <2>1, Zenon
<1>4. \A m \in 1 .. Len(seqs) : m # 1 => flat[m] = flat[m - 1] \o seqs[m]
    BY <1>2, Zenon
<1>5. ASSUME NEW n \in Nat \ {0}, n + 1 <= Len(seqs)
      PROVE  flat[n + 1] = flat[n] \o seqs[n + 1]
    <2> DEFINE m == n + 1
    <2>1. m \in 1 .. Len(seqs) /\ m # 1 /\ m - 1 = n
        BY <1>5
    <2> HIDE DEF m
    <2>2. flat[m] = flat[n] \o seqs[m]
        BY <1>4, <2>1
    <2> QED
        BY <2>2 DEF m
<1> QED
    BY <1>3, <1>5

LEMMA FlatTyped ==
    ASSUME NEW S, NEW seqs \in Seq(Seq(S))
    PROVE  FlattenSeq(seqs) \in Seq(S)
<1>1. CASE Len(seqs) = 0
    <2>1. FlattenSeq(seqs) = <<>>
        BY <1>1, FlatSpelled, Zenon
    <2> QED
        BY <2>1
<1>2. CASE Len(seqs) # 0
    <2>1. PICK flat : IsFlat(flat, seqs) /\ FlattenSeq(seqs) = flat[Len(seqs)]
        BY <1>2, FlatSpelled, Zenon
    <2> DEFINE T == {n \in Nat : n # 0 /\ n <= Len(seqs) => flat[n] \in Seq(S)}
    <2>2. 0 \in T
        OBVIOUS
    <2>3. ASSUME NEW n \in Nat, n \in T
          PROVE  n + 1 \in T
        <3> SUFFICES ASSUME n + 1 <= Len(seqs)
                     PROVE  flat[n + 1] \in Seq(S)
            OBVIOUS
        <3>1. n + 1 \in 1 .. Len(seqs)
            OBVIOUS
        <3>2. seqs[n + 1] \in Seq(S)
            BY <3>1
        <3>3. CASE n = 0
            <4>1. flat[1] = seqs[1]
                BY <1>2, <2>1, FlatSteps, Zenon
            <4>2. n + 1 = 1
                BY <3>3
            <4> QED
                BY <3>2, <4>1, <4>2, Zenon
        <3>4. CASE n # 0
            <4>1. flat[n] \in Seq(S)
                BY <2>3, <3>4
            <4>2. flat[n + 1] = flat[n] \o seqs[n + 1]
                BY <2>1, <3>4, FlatSteps
            <4> QED
                BY <3>2, <4>1, <4>2
        <3> QED
            BY <3>3, <3>4
    <2> HIDE DEF T
    <2>4. Len(seqs) \in T
        BY <2>2, <2>3, Counting
    <2> QED
        BY <1>2, <2>1, <2>4 DEF T
<1> QED
    BY <1>1, <1>2

LEMMA NothingIsEmpty == ASSUME NEW S, NEW s \in Seq(S), Len(s) = 0 PROVE s = <<>>
OBVIOUS

LEMMA SameElements ==
    ASSUME NEW S, NEW s \in Seq(S), NEW t \in Seq(S), Len(s) = Len(t),
           \A i \in 1 .. Len(s) : s[i] = t[i]
    PROVE  s = t
OBVIOUS

LEMMA OneMore ==
    ASSUME NEW S, NEW t \in Seq(S), NEW e \in S
    PROVE  /\ t \o <<e>> \in Seq(S) /\ Len(t \o <<e>>) = Len(t) + 1
           /\ \A i \in 1 .. Len(t) : (t \o <<e>>)[i] = t[i]
           /\ (t \o <<e>>)[Len(t) + 1] = e
OBVIOUS

Singles(seqs, s) == Len(seqs) = Len(s) /\ \A i \in 1 .. Len(s) : seqs[i] = <<s[i]>>

\* one element after the other is the sequence itself
LEMMA FlatSingles ==
    ASSUME NEW S, NEW s \in Seq(S), NEW seqs \in Seq(Seq(S)), Singles(seqs, s)
    PROVE  FlattenSeq(seqs) = s
<1>0. Len(seqs) = Len(s)
    BY DEF Singles
<1>1. CASE Len(seqs) = 0
    <2>1. FlattenSeq(seqs) = <<>>
        BY <1>1, FlatSpelled, Zenon
    <2>2. s = <<>>
        BY <1>0, <1>1, NothingIsEmpty
    <2> QED
        BY <2>1, <2>2
<1>2. CASE Len(seqs) # 0
    <2>1. PICK flat : IsFlat(flat, seqs) /\ FlattenSeq(seqs) = flat[Len(seqs)]
        BY <1>2, FlatSpelled, Zenon
    <2> DEFINE Beginning(t, n) == /\ t \in Seq(S) /\ Len(t) = n
                                  /\ \A i \in 1 .. n : t[i] = s[i]
               T == {n \in Nat : n # 0 /\ n <= Len(s) => Beginning(flat[n], n)}
    <2>2. 0 \in T
        OBVIOUS
    <2>3. ASSUME NEW n \in Nat, n \in T
          PROVE  n + 1 \in T
        <3> SUFFICES ASSUME n + 1 <= Len(s)
                     PROVE  Beginning(flat[n + 1], n + 1)
            OBVIOUS
        <3>1. n + 1 \in 1 .. Len(s) /\ s[n + 1] \in S
            OBVIOUS
        <3>2. seqs[n + 1] = <<s[n + 1]>>
            BY <3>1, Zenon DEF Singles
        <3>3. CASE n = 0
            <4>1. flat[1] = seqs[1]
                BY <1>2, <2>1, FlatSteps, Zenon
            <4>2. flat[1] = <<s[1]>> /\ s[1] \in S
                BY <3>1, <3>2, <3>3, <4>1
            <4>3. Beginning(flat[1], 1)
                BY <4>2
            <4> HIDE DEF Beginning
            <4> QED
                BY <3>3, <4>3
        <3>4. CASE n # 0
            <4>1. Beginning(flat[n], n)
                BY <2>3, <3>1, <3>4
            <4>2. flat[n + 1] = flat[n] \o seqs[n + 1]
                <5>1. n \in Nat \ {0} /\ n + 1 <= Len(seqs)
                    BY <1>0, <3>4
                <5> QED
                    BY <2>1, <5>1, FlatSteps
            <4>3. flat[n + 1] = flat[n] \o <<s[n + 1]>>
                BY <3>2, <4>2, Zenon
            <4>4. /\ flat[n + 1] \in Seq(S) /\ Len(flat[n + 1]) = n + 1
                  /\ \A i \in 1 .. n : flat[n + 1][i] = flat[n][i]
                  /\ flat[n + 1][n + 1] = s[n + 1]
                <5> DEFINE t == flat[n]
                           e == s[n + 1]
                           u == flat[n + 1]
                <5>1. t \in Seq(S) /\ Len(t) = n /\ e \in S /\ u = t \o <<e>>
                    BY <3>1, <4>1, <4>3, Zenon
                <5> HIDE DEF t, e, u
                <5>2. u \in Seq(S) /\ Len(u) = n + 1 /\ u[n + 1] = e
                      /\ \A i \in 1 .. n : u[i] = t[i]
                    BY <5>1, OneMore
                <5> QED
                    BY <5>2, Zenon DEF t, e, u
            <4>5. \A i \in 1 .. n + 1 : i \in 1 .. n \/ i = n + 1
                OBVIOUS
            <4> QED
                BY <4>1, <4>4, <4>5, Zenon
        <3> QED
            BY <3>3, <3>4
    <2> HIDE DEF T
    <2>4. Nat \subseteq T
        BY <2>2, <2>3, Counting
    <2>5. Beginning(flat[Len(s)], Len(s))
        <3>1. Len(s) \in T /\ Len(s) # 0
            BY <1>0, <1>2, <2>4
        <3> HIDE DEF Beginning
        <3> QED
            BY <3>1 DEF T
    <2>6. flat[Len(s)] = s
        BY <2>5, SameElements
    <2> QED
        BY <1>0, <2>1, <2>6
<1> QED
    BY <1>1, <1>2

---------------------------------------------------------------------------
(* Places and their order *)

Rank(K, k) == Cardinality(K \cap 1 .. k)

\* s is what stands at the places K, in their order
InOrder(s, segments, K) ==
    /\ s \in Seq(Names) /\ Len(s) = Cardinality(K)
    /\ \A k \in K : s[Rank(K, k)] = segments[k]
    /\ \A i \in 1 .. Cardinality(K) : \E k \in K : Rank(K, k) = i

LEMMA RankTyped ==
    ASSUME NEW K \in SUBSET (Nat \ {0}), IsFiniteSet(K), NEW k \in K
    PROVE  Rank(K, k) \in 1 .. Cardinality(K)
<1> DEFINE L == K \cap 1 .. k
<1>1. L \in SUBSET K /\ k \in L
    OBVIOUS
<1> HIDE DEF L
<1>2. /\ IsFiniteSet(L) /\ Cardinality(L) <= Cardinality(K)
      /\ Cardinality(L) \in Nat /\ Cardinality(K) \in Nat
    BY <1>1, FS_Subset, FS_CardinalityType
<1>3. Cardinality(L) # 0
    BY <1>1, <1>2, FS_EmptySet, Zenon
<1> QED
    BY <1>2, <1>3 DEF L, Rank

\* one place more, after all the others
LEMMA OnePlaceMore ==
    ASSUME NEW segments, NEW K \in SUBSET (Nat \ {0}), IsFiniteSet(K),
           NEW s, InOrder(s, segments, K),
           NEW m \in Nat \ {0}, \A k \in K : k < m, segments[m] \in Names
    PROVE  InOrder(Append(s, segments[m]), segments, K \cup {m})
<1> DEFINE N == K \cup {m}
           c == Cardinality(K)
           e == segments[m]
           t == Append(s, e)
<1>1. m \notin K /\ N \in SUBSET (Nat \ {0})
    OBVIOUS
<1>2. IsFiniteSet(N) /\ Cardinality(N) = c + 1 /\ c \in Nat
    BY <1>1, FS_AddElement, FS_CardinalityType
<1>3. \A k \in K : Rank(N, k) = Rank(K, k)
    <2> SUFFICES ASSUME NEW k \in K
                 PROVE  N \cap 1 .. k = K \cap 1 .. k
        BY Zenon DEF Rank
    <2>1. k < m /\ k \in Nat
        OBVIOUS
    <2>2. m \notin 1 .. k
        BY <2>1
    <2> QED
        BY <2>2
<1>4. Rank(N, m) = c + 1
    <2>1. N \subseteq 1 .. m
        <3>1. \A k \in K : k \in Nat /\ k >= 1 /\ k <= m
            OBVIOUS
        <3>2. m \in 1 .. m /\ K \subseteq 1 .. m
            BY <3>1
        <3> QED
            BY <3>2, Zenon
    <2> QED
        <3>1. N \cap 1 .. m = N
            BY <2>1, Zenon
        <3> QED
            BY <1>2, <3>1, Zenon DEF Rank
<1>5. /\ s \in Seq(Names) /\ Len(s) = c
      /\ \A k \in K : s[Rank(K, k)] = segments[k]
      /\ \A i \in 1 .. c : \E k \in K : Rank(K, k) = i
    BY Zenon DEF InOrder
<1>6. /\ t \in Seq(Names) /\ Len(t) = c + 1 /\ t[c + 1] = e
      /\ \A i \in 1 .. c : t[i] = s[i]
    <2>1. e \in Names
        OBVIOUS
    <2> HIDE DEF e
    <2> QED
        BY <1>2, <1>5, <2>1
<1> HIDE DEF t, c, N
<1>7. ASSUME NEW k \in N
      PROVE  t[Rank(N, k)] = segments[k]
    <2>1. CASE k = m
        BY <1>4, <1>6, <2>1, Zenon
    <2>2. CASE k \in K
        <3>1. Rank(K, k) \in 1 .. c
            BY <2>2, RankTyped DEF c
        <3> QED
            BY <1>3, <1>5, <1>6, <2>2, <3>1, Zenon
    <2> QED
        BY <2>1, <2>2 DEF N
<1>8. ASSUME NEW i \in 1 .. c + 1
      PROVE  \E k \in N : Rank(N, k) = i
    <2>1. CASE i = c + 1
        BY <1>4, <2>1 DEF N
    <2>2. CASE i # c + 1
        <3>1. i \in 1 .. c
            BY <1>2, <2>2
        <3>2. PICK k \in K : Rank(K, k) = i
            BY <1>5, <3>1, Zenon
        <3>3. k \in N /\ Rank(N, k) = i
            BY <1>3, <3>2 DEF N
        <3> QED
            BY <3>3
    <2> QED
        BY <2>1, <2>2
<1>9. InOrder(t, segments, N)
    BY <1>2, <1>6, <1>7, <1>8, Zenon DEF InOrder
<1> QED
    BY <1>9 DEF t, N

\* one place fewer, the last
LEMMA OnePlaceFewer ==
    ASSUME NEW segments, NEW K \in SUBSET (Nat \ {0}), IsFiniteSet(K),
           NEW s, InOrder(s, segments, K),
           NEW m \in K, \A k \in K : k <= m
    PROVE  InOrder(Front(s), segments, K \ {m})
<1> DEFINE N == K \ {m}
           c == Cardinality(K)
           t == Front(s)
<1>1. N \in SUBSET (Nat \ {0}) /\ \A k \in N : k \in K /\ k # m
    OBVIOUS
<1>2. IsFiniteSet(N) /\ Cardinality(N) = c - 1 /\ c \in Nat
    BY FS_RemoveElement, FS_CardinalityType
<1>3. \A k \in N : Rank(N, k) = Rank(K, k)
    <2> SUFFICES ASSUME NEW k \in N
                 PROVE  N \cap 1 .. k = K \cap 1 .. k
        BY Zenon DEF Rank
    <2>1. k < m /\ k \in Nat /\ m \in Nat
        BY <1>1
    <2>2. m \notin 1 .. k
        BY <2>1
    <2> QED
        BY <2>2
<1>4. Rank(K, m) = c
    <2>1. K \subseteq 1 .. m
        <3>1. \A k \in K : k \in Nat /\ k >= 1 /\ k <= m /\ m \in Nat
            OBVIOUS
        <3> QED
            BY <3>1
    <2> QED
        <3>1. K \cap 1 .. m = K
            BY <2>1, Zenon
        <3> QED
            BY <3>1, Zenon DEF Rank
<1>5. /\ s \in Seq(Names) /\ Len(s) = c
      /\ \A k \in K : s[Rank(K, k)] = segments[k]
      /\ \A i \in 1 .. c : \E k \in K : Rank(K, k) = i
    BY Zenon DEF InOrder
<1>0. c # 0
    <2>1. K # {}
        OBVIOUS
    <2> QED
        BY <2>1, FS_EmptySet, Zenon
<1>6. /\ t \in Seq(Names) /\ Len(t) = c - 1
      /\ \A i \in 1 .. c - 1 : t[i] = s[i]
    BY <1>0, <1>2, <1>5 DEF Front
<1> HIDE DEF t, c, N
<1>7. ASSUME NEW k \in N
      PROVE  t[Rank(N, k)] = segments[k]
    <2>1. Rank(N, k) \in 1 .. c - 1
        BY <1>1, <1>2, RankTyped
    <2>2. k \in K /\ Rank(N, k) = Rank(K, k)
        BY <1>1, <1>3
    <2> QED
        BY <1>5, <1>6, <2>1, <2>2, Zenon
<1>8. ASSUME NEW i \in 1 .. c - 1
      PROVE  \E k \in N : Rank(N, k) = i
    <2>1. i \in 1 .. c /\ i # c
        BY <1>2
    <2>2. PICK k \in K : Rank(K, k) = i
        BY <1>5, <2>1, Zenon
    <2>3. k # m
        BY <1>4, <2>1, <2>2, Zenon
    <2>4. k \in N /\ Rank(N, k) = i
        BY <1>3, <2>2, <2>3 DEF N
    <2> QED
        BY <2>4
<1>9. InOrder(t, segments, N)
    BY <1>2, <1>6, <1>7, <1>8, Zenon DEF InOrder
<1> QED
    BY <1>9 DEF t, N

LEMMA InOrderIsListed ==
    ASSUME NEW segments, NEW K \in SUBSET (Nat \ {0}), IsFiniteSet(K),
           NEW s, InOrder(s, segments, K)
    PROVE  s = Listed(segments, K)
<1> DEFINE c == Cardinality(K)
           At(i) == segments[CHOOSE k \in K : Rank(K, k) = i]
<1>1. /\ s \in Seq(Names) /\ Len(s) = c
      /\ \A k \in K : s[Rank(K, k)] = segments[k]
      /\ \A i \in 1 .. c : \E k \in K : Rank(K, k) = i
    BY Zenon DEF InOrder
<1>2. ASSUME NEW i \in 1 .. c
      PROVE  s[i] = At(i)
    <2>1. PICK k \in K : k = CHOOSE l \in K : Rank(K, l) = i
        BY <1>1, Zenon
    <2>2. Rank(K, k) = i
        BY <1>1, <2>1, Zenon
    <2> QED
        BY <1>1, <2>1, <2>2, Zenon
<1>3. Listed(segments, K) = [i \in 1 .. c |-> At(i)]
    BY Zenon DEF Listed, Rank
<1> HIDE DEF At, c
<1>4. s = [i \in 1 .. c |-> s[i]]
    BY <1>1
<1>5. [i \in 1 .. c |-> s[i]] = [i \in 1 .. c |-> At(i)]
    BY <1>2, Zenon
<1> QED
    BY <1>3, <1>4, <1>5, Zenon

---------------------------------------------------------------------------
(* How deep the segments lead *)

Balance(segments, i, n) ==
    Cardinality(Counted(segments, i, n)) - Cardinality(Ups(segments, i, n))

Later(K, i) == Cardinality({k \in K : k > i})

LEMMA Balanced ==
    ASSUME NEW segments, NEW n \in Nat, NEW i \in 1 .. n + 1
    PROVE  /\ Balance(segments, i, n) \in Int
           /\ Overshoots(segments, i, n) <=> Balance(segments, i, n) < 0
           /\ i = n + 1 => Balance(segments, i, n) = 0
<1> DEFINE C == Counted(segments, i, n)
           U == Ups(segments, i, n)
<1>1. C \in SUBSET (i .. n) /\ U \in SUBSET (i .. n)
    BY DEF Counted, Ups
<1>2. IsFiniteSet(i .. n)
    BY FS_Interval
<1>3. i = n + 1 => i .. n = {}
    OBVIOUS
<1> HIDE DEF C, U
<1>4. Cardinality(C) \in Nat /\ Cardinality(U) \in Nat
    BY <1>1, <1>2, FS_Subset, FS_CardinalityType
<1>5. i = n + 1 => Cardinality(C) = 0 /\ Cardinality(U) = 0
    <2>1. i = n + 1 => C = {} /\ U = {}
        BY <1>1, <1>3
    <2> QED
        BY <2>1, FS_EmptySet, Zenon
<1> QED
    BY <1>4, <1>5 DEF C, U, Balance, Overshoots

LEMMA BalanceSteps ==
    ASSUME NEW segments, NEW m \in Nat \ {0}, NEW i \in 1 .. m
    PROVE  LET here == Balance(segments, i, m)
               before == Balance(segments, i, m - 1)
           IN /\ segments[m] = ".." => here = before - 1
              /\ segments[m] \in {"", "."} => here = before
              /\ segments[m] \notin {"", ".", ".."} => here = before + 1
<1> DEFINE n == m - 1
           C == Counted(segments, i, n)
           U == Ups(segments, i, n)
           E == Counted(segments, i, m)
           V == Ups(segments, i, m)
           x == segments[m]
<1>1. C \in SUBSET (i .. n) /\ U \in SUBSET (i .. n)
    BY Zenon DEF Counted, Ups
<1>2. IsFiniteSet(i .. n)
    BY FS_Interval
<1>3. i .. m = (i .. n) \cup {m} /\ m \notin i .. n
    OBVIOUS
<1>4. /\ x \in {"", ".", ".."} => E = C
      /\ x \notin {"", ".", ".."} => E = C \cup {m}
      /\ x = ".." => V = U \cup {m}
      /\ x # ".." => V = U
    <2> HIDE DEF n
    <2> QED
        BY <1>3 DEF Counted, Ups
<1> HIDE DEF n, C, U, E, V, x
<1>5. IsFiniteSet(C) /\ IsFiniteSet(U) /\ m \notin C /\ m \notin U
    BY <1>1, <1>2, <1>3, FS_Subset
<1>6. /\ Cardinality(C) \in Nat /\ Cardinality(C \cup {m}) = Cardinality(C) + 1
      /\ Cardinality(U) \in Nat /\ Cardinality(U \cup {m}) = Cardinality(U) + 1
    BY <1>5, FS_AddElement, FS_CardinalityType
<1>7. /\ Balance(segments, i, n) = Cardinality(C) - Cardinality(U)
      /\ Balance(segments, i, m) = Cardinality(E) - Cardinality(V)
    BY DEF C, U, E, V, Balance
<1>8. /\ x = ".." => E = C /\ V = U \cup {m}
      /\ x \in {"", "."} => E = C /\ V = U
      /\ x \notin {"", ".", ".."} => E = C \cup {m} /\ V = U
    BY <1>4
<1> DEFINE before == Balance(segments, i, n)
           here == Balance(segments, i, m)
           c == Cardinality(C)
           u == Cardinality(U)
<1>9. /\ c \in Nat /\ u \in Nat /\ before = c - u
      /\ x = ".." => here = c - (u + 1)
      /\ x \in {"", "."} => here = c - u
      /\ x \notin {"", ".", ".."} => here = (c + 1) - u
    BY <1>6, <1>7, <1>8, Zenon
<1> HIDE DEF before, here, c, u
<1>10. /\ here = c - (u + 1) => here = before - 1
       /\ here = c - u => here = before
       /\ here = (c + 1) - u => here = before + 1
    <2>1. c \in Nat /\ u \in Nat /\ before = c - u
        BY <1>9, Zenon
    <2> QED
        BY <2>1
<1>11. /\ x = ".." => here = before - 1
       /\ x \in {"", "."} => here = before
       /\ x \notin {"", ".", ".."} => here = before + 1
    BY <1>9, <1>10, Zenon
<1> QED
    BY <1>11 DEF before, here, n, x

LEMMA KeptTyped ==
    ASSUME NEW segments, NEW n \in Nat
    PROVE  /\ Kept(segments, n) \in SUBSET (1 .. n)
           /\ Kept(segments, n) \in SUBSET (Nat \ {0})
           /\ IsFiniteSet(Kept(segments, n))
<1>1. Kept(segments, n) \in SUBSET (1 .. n)
    BY Zenon DEF Kept, Counted
<1>2. IsFiniteSet(1 .. n)
    BY FS_Interval
<1>3. IsFiniteSet(Kept(segments, n))
    BY <1>1, <1>2, FS_Subset, Zenon
<1> QED
    BY <1>1, <1>3

LEMMA KeptSteps ==
    ASSUME NEW segments, NEW m \in Nat \ {0}, NEW i
    PROVE  i \in Kept(segments, m) <=>
              \/ i \in Kept(segments, m - 1) /\ ~(Balance(segments, i + 1, m) < 0)
              \/ i = m /\ segments[m] \notin {"", ".", ".."}
<1> DEFINE n == m - 1
<1>1. 1 .. m = (1 .. n) \cup {m} /\ m \notin 1 .. n /\ n \in Nat
    OBVIOUS
<1>2. CASE i \in 1 .. n
    <2>1. i \in Nat /\ i + 1 .. m = (i + 1 .. n) \cup {m} /\ i # m /\ i + 1 \in 1 .. m + 1
        BY <1>2
    <2>2. Overshoots(segments, i + 1, m) <=> Balance(segments, i + 1, m) < 0
        BY <2>1, Balanced
    <2>3. i \in Counted(segments, 1, m) <=> i \in Counted(segments, 1, n)
        BY <1>1, <1>2, Zenon DEF Counted
    <2> HIDE DEF n
    <2>4. (\A j \in i + 1 .. m : ~Overshoots(segments, i + 1, j)) <=>
          /\ \A j \in i + 1 .. n : ~Overshoots(segments, i + 1, j)
          /\ ~Overshoots(segments, i + 1, m)
        BY <2>1, Zenon
    <2>5. i \in Kept(segments, m) <=>
             i \in Kept(segments, n) /\ ~(Balance(segments, i + 1, m) < 0)
        BY <2>2, <2>3, <2>4, Zenon DEF Kept
    <2> QED
        BY <2>1, <2>5, Zenon DEF n
<1>3. CASE i = m
    <2>1. i + 1 .. m = {}
        BY <1>3
    <2>2. i \in Kept(segments, m) <=> i \in Counted(segments, 1, m)
        BY <2>1, Zenon DEF Kept
    <2>3. i \in Counted(segments, 1, m) <=> segments[m] \notin {"", ".", ".."}
        BY <1>1, <1>3, Zenon DEF Counted
    <2>4. i \notin Kept(segments, n)
        BY <1>1, <1>3, KeptTyped, Zenon
    <2> QED
        BY <1>3, <2>2, <2>3, <2>4, Zenon
<1>4. CASE i \notin 1 .. m
    <2>1. i \notin Kept(segments, m) /\ i \notin Kept(segments, n) /\ i # m
        <3>1. m \in Nat
            OBVIOUS
        <3> QED
            BY <1>1, <1>4, <3>1, KeptTyped, Zenon
    <2> QED
        BY <2>1, Zenon
<1> QED
    BY <1>1, <1>2, <1>3, <1>4, Zenon

---------------------------------------------------------------------------
(* What is left is what is kept *)

GoesUp(x) == x = ".."
Skips(x) == x \in {"", "."}
Counts(x) == x \notin {"", ".", ".."}

LEMMA Kinds ==
    ASSUME NEW x \in Segments
    PROVE  /\ GoesUp(x) \/ Skips(x) \/ Counts(x)
           /\ ~(Counts(x) /\ GoesUp(x)) /\ ~(Counts(x) /\ Skips(x))
           /\ x \in Bad => Counts(x)
           /\ Counts(x) /\ x \notin Bad => x \in Names
BY PiecesAssumption, Zenon DEF GoesUp, Skips, Counts, Segments

LEMMA TakenSteps ==
    ASSUME NEW x \in Segments, NEW s \in Seq(Names)
    PROVE  /\ s # None /\ Taken(None, x) = None
           /\ Skips(x) => Taken(s, x) = s
           /\ GoesUp(x) => Taken(s, x) = IF s = <<>> THEN None ELSE Front(s)
           /\ x \in Bad => Taken(s, x) = None
           /\ Counts(x) /\ x \notin Bad => Taken(s, x) = Append(s, x)
<1>1. s # None
    <2>1. Names \subseteq Segments
        BY Zenon DEF Segments
    <2>2. s \in Seq(Segments)
        BY <2>1
    <2> QED
        BY <2>2, PiecesAssumption, Zenon
<1>2. Taken(None, x) = None
    BY DEF Taken
<1>3. Skips(x) => Taken(s, x) = s
    <2> SUFFICES ASSUME Skips(x) PROVE Taken(s, x) = s
        OBVIOUS
    <2>1. x \in {"", "."} /\ ~(x = "..") /\ ~(x \in Bad)
        BY Kinds, PiecesAssumption DEF Skips
    <2> QED
        BY <1>1, <2>1, Zenon DEF Taken
<1>4. GoesUp(x) => Taken(s, x) = IF s = <<>> THEN None ELSE Front(s)
    <2> SUFFICES ASSUME GoesUp(x)
                 PROVE  Taken(s, x) = IF s = <<>> THEN None ELSE Front(s)
        OBVIOUS
    <2>1. ~(x \in {"", "."}) /\ x = ".." /\ ~(x \in Bad)
        BY Kinds, PiecesAssumption DEF GoesUp
    <2> QED
        BY <1>1, <2>1, Zenon DEF Taken
<1>5. Counts(x) => Taken(s, x) = IF x \in Bad THEN None ELSE Append(s, x)
    BY <1>1 DEF Taken, Counts
<1> QED
    BY <1>1, <1>2, <1>3, <1>4, <1>5, Kinds, Zenon

\* one segment further, in terms of the kinds
LEMMA OneSegment ==
    ASSUME NEW segments, NEW m \in Nat \ {0}
    PROVE  LET x == segments[m]
               n == m - 1
           IN /\ \A i \in 1 .. m :
                    /\ GoesUp(x) =>
                          Balance(segments, i, m) = Balance(segments, i, n) - 1
                    /\ Skips(x) => Balance(segments, i, m) = Balance(segments, i, n)
                    /\ Counts(x) =>
                          Balance(segments, i, m) = Balance(segments, i, n) + 1
              /\ \A i : i \in Kept(segments, m) <=>
                           \/ i \in Kept(segments, n) /\ ~(Balance(segments, i + 1, m) < 0)
                           \/ i = m /\ Counts(x)
<1>1. ASSUME NEW i \in 1 .. m
      PROVE  LET x == segments[m]
                 n == m - 1
             IN /\ GoesUp(x) => Balance(segments, i, m) = Balance(segments, i, n) - 1
                /\ Skips(x) => Balance(segments, i, m) = Balance(segments, i, n)
                /\ Counts(x) => Balance(segments, i, m) = Balance(segments, i, n) + 1
    BY BalanceSteps, Zenon DEF GoesUp, Skips, Counts
<1>2. \A i : i \in Kept(segments, m) <=>
                \/ i \in Kept(segments, m - 1) /\ ~(Balance(segments, i + 1, m) < 0)
                \/ i = m /\ Counts(segments[m])
    BY KeptSteps, Zenon DEF Counts
<1> QED
    BY <1>1, <1>2, Zenon

Refused(segments, n) ==
    \E j \in 1 .. n : segments[j] \in Bad \/ Overshoots(segments, 1, j)

\* after n segments the names that are left are those that are kept, and after each
\* of them as many are kept as the segments after it lead down
InStep(s, segments, n) ==
    /\ InOrder(s, segments, Kept(segments, n))
    /\ \A i \in Kept(segments, n) \cup {0} :
          Later(Kept(segments, n), i) = Balance(segments, i + 1, n)

LEMMA LaterTyped ==
    ASSUME NEW K, IsFiniteSet(K), NEW i
    PROVE  /\ IsFiniteSet({k \in K : k > i})
           /\ Later(K, i) \in Nat
           /\ Later(K, i) = 0 <=> {k \in K : k > i} = {}
<1> DEFINE L == {k \in K : k > i}
<1>1. L \in SUBSET K
    OBVIOUS
<1> HIDE DEF L
<1>2. IsFiniteSet(L)
    BY <1>1, FS_Subset, Zenon
<1>3. Cardinality(L) \in Nat /\ (Cardinality(L) = 0 <=> L = {})
    BY <1>2, FS_CardinalityType, FS_EmptySet, Zenon
<1> QED
    BY <1>2, <1>3, Zenon DEF L, Later

\* a segment that is skipped
LEMMA InStepSkipping ==
    ASSUME NEW segments \in Seq(Segments), NEW m \in 1 .. Len(segments), NEW s,
           InStep(s, segments, m - 1), Skips(segments[m])
    PROVE  InStep(Taken(s, segments[m]), segments, m)
<1> DEFINE n == m - 1
           K == Kept(segments, n)
           x == segments[m]
<1>1. m \in Nat \ {0} /\ n \in Nat /\ x \in Segments
    OBVIOUS
<1> HIDE DEF n, K, x
<1>2. /\ InOrder(s, segments, K) /\ s \in Seq(Names)
      /\ \A i \in K \cup {0} : Later(K, i) = Balance(segments, i + 1, n)
    BY Zenon DEF InStep, InOrder, K, n
<1>3. IsFiniteSet(K) /\ K \in SUBSET (1 .. n)
    BY <1>1, KeptTyped DEF K
<1>4. Taken(s, x) = s /\ ~Counts(x)
    BY <1>1, <1>2, TakenSteps, Kinds, Zenon DEF x
<1>5. \A i \in K \cup {0} : /\ i + 1 \in 1 .. m
                            /\ Balance(segments, i + 1, m) = Balance(segments, i + 1, n)
                            /\ Later(K, i) \in Nat
    <2> TAKE i \in K \cup {0}
    <2>1. i + 1 \in 1 .. m
        BY <1>1, <1>3 DEF n
    <2>2. Balance(segments, i + 1, m) = Balance(segments, i + 1, n)
        BY <1>1, <2>1, OneSegment, Zenon DEF n, x
    <2> QED
        BY <1>3, <2>1, <2>2, LaterTyped, Zenon
<1>6. \A i \in K : ~(Balance(segments, i + 1, m) < 0)
    <2> TAKE i \in K
    <2>1. Balance(segments, i + 1, m) \in Nat
        BY <1>2, <1>5, Zenon
    <2> QED
        BY <2>1
<1>7. Kept(segments, m) = K
    <2>1. \A i : i \in Kept(segments, m) <=> i \in K /\ ~(Balance(segments, i + 1, m) < 0)
        BY <1>1, <1>4, OneSegment, Zenon DEF K, n, x
    <2> QED
        BY <1>6, <2>1, Zenon
<1>8. InStep(s, segments, m)
    BY <1>2, <1>5, <1>7, Zenon DEF InStep
<1> QED
    BY <1>4, <1>8, Zenon DEF x

\* a name
LEMMA InStepCounting ==
    ASSUME NEW segments \in Seq(Segments), NEW m \in 1 .. Len(segments), NEW s,
           InStep(s, segments, m - 1), Counts(segments[m]), segments[m] \notin Bad
    PROVE  InStep(Taken(s, segments[m]), segments, m)
<1> DEFINE n == m - 1
           K == Kept(segments, n)
           N == K \cup {m}
           x == segments[m]
<1>1. m \in Nat \ {0} /\ n \in Nat /\ x \in Segments
    OBVIOUS
<1> HIDE DEF n, K, N, x
<1>2. /\ InOrder(s, segments, K) /\ s \in Seq(Names)
      /\ \A i \in K \cup {0} : Later(K, i) = Balance(segments, i + 1, n)
    BY Zenon DEF InStep, InOrder, K, n
<1>3. IsFiniteSet(K) /\ K \in SUBSET (1 .. n) /\ K \in SUBSET (Nat \ {0})
    BY <1>1, KeptTyped DEF K
<1>4. Taken(s, x) = Append(s, x) /\ Counts(x) /\ x \in Names
    BY <1>1, <1>2, TakenSteps, Kinds, Zenon DEF x
<1>5. \A i \in K \cup {0} : /\ i \in Nat /\ i < m /\ i + 1 \in 1 .. m
                            /\ Later(K, i) \in Nat
                            /\ Balance(segments, i + 1, m) = Later(K, i) + 1
    <2> TAKE i \in K \cup {0}
    <2>1. i + 1 \in 1 .. m /\ i \in Nat /\ i < m
        BY <1>1, <1>3 DEF n
    <2>2. Balance(segments, i + 1, m) = Balance(segments, i + 1, n) + 1
        BY <1>1, <1>4, <2>1, OneSegment, Zenon DEF n, x
    <2> QED
        BY <1>2, <1>3, <2>1, <2>2, LaterTyped, Zenon
<1>6. Kept(segments, m) = N
    <2>1. \A i : i \in Kept(segments, m) <=>
                    \/ i \in K /\ ~(Balance(segments, i + 1, m) < 0)
                    \/ i = m
        BY <1>1, <1>4, OneSegment, Zenon DEF K, n, x
    <2>2. \A i \in K : ~(Balance(segments, i + 1, m) < 0)
        <3> TAKE i \in K
        <3>1. Later(K, i) \in Nat /\ Balance(segments, i + 1, m) = Later(K, i) + 1
            BY <1>5
        <3> QED
            BY <3>1
    <2> QED
        BY <2>1, <2>2, Zenon DEF N
<1>7. InOrder(Append(s, x), segments, N)
    <2>1. \A k \in K : k < m
        BY <1>5
    <2> QED
        BY <1>1, <1>2, <1>3, <1>4, <2>1, OnePlaceMore DEF N, x
<1>8. ASSUME NEW i \in N \cup {0}
      PROVE  Later(N, i) = Balance(segments, i + 1, m)
    <2>1. CASE i = m
        <3>1. ~\E k \in N : k > m
            BY <1>5, <1>1 DEF N
        <3>2. {k \in N : k > m} = {}
            BY <3>1
        <3>3. Later(N, m) = 0
            BY <3>2, FS_EmptySet, Zenon DEF Later
        <3>4. Balance(segments, m + 1, m) = 0
            <4>1. m \in Nat /\ m + 1 \in 1 .. m + 1
                BY <1>1
            <4> QED
                BY <4>1, Balanced
        <3> QED
            BY <2>1, <3>3, <3>4, Zenon
    <2>2. CASE i \in K \cup {0}
        <3>1. m > i /\ m \notin K
            BY <1>5, <2>2
        <3>2. {k \in N : k > i} = {k \in K : k > i} \cup {m}
            BY <3>1, Zenon DEF N
        <3>3. m \notin {k \in K : k > i} /\ IsFiniteSet({k \in K : k > i})
            BY <1>3, <3>1, LaterTyped, Zenon
        <3>4. Later(N, i) = Later(K, i) + 1
            BY <3>2, <3>3, FS_AddElement, Zenon DEF Later
        <3> QED
            BY <1>5, <2>2, <3>4, Zenon
    <2> QED
        BY <2>1, <2>2 DEF N
<1>9. InStep(Append(s, x), segments, m)
    BY <1>6, <1>7, <1>8, Zenon DEF InStep
<1> QED
    BY <1>4, <1>9, Zenon DEF x

\* a .., which takes the last of the names back
LEMMA InStepGoingUp ==
    ASSUME NEW segments \in Seq(Segments), NEW m \in 1 .. Len(segments), NEW s,
           InStep(s, segments, m - 1), GoesUp(segments[m]),
           ~Overshoots(segments, 1, m)
    PROVE  InStep(Taken(s, segments[m]), segments, m)
<1> DEFINE n == m - 1
           K == Kept(segments, n)
           x == segments[m]
<1>1. m \in Nat \ {0} /\ n \in Nat /\ x \in Segments
    OBVIOUS
<1> HIDE DEF n, K, x
<1>2. /\ InOrder(s, segments, K) /\ s \in Seq(Names) /\ Len(s) = Cardinality(K)
      /\ \A i \in K \cup {0} : Later(K, i) = Balance(segments, i + 1, n)
    BY Zenon DEF InStep, InOrder, K, n
<1>3. IsFiniteSet(K) /\ K \in SUBSET (1 .. n) /\ K \in SUBSET (Nat \ {0})
    BY <1>1, KeptTyped DEF K
<1>4. \A i \in K \cup {0} : /\ i \in Nat /\ i < m /\ i + 1 \in 1 .. m
                            /\ Later(K, i) \in Nat
                            /\ Balance(segments, i + 1, m) = Later(K, i) - 1
    <2> TAKE i \in K \cup {0}
    <2>1. i + 1 \in 1 .. m /\ i \in Nat /\ i < m
        BY <1>1, <1>3 DEF n
    <2>2. Balance(segments, i + 1, m) = Balance(segments, i + 1, n) - 1
        BY <1>1, <2>1, OneSegment, Zenon DEF n, x
    <2> QED
        BY <1>2, <1>3, <2>1, <2>2, LaterTyped, Zenon
<1>5. K # {}
    <2>1. ~(Balance(segments, 1, m) < 0)
        <3>1. m \in Nat /\ 1 \in 1 .. m + 1
            BY <1>1
        <3> QED
            BY <3>1, Balanced, Zenon
    <2>2. Later(K, 0) \in Nat /\ Balance(segments, 0 + 1, m) = Later(K, 0) - 1
        BY <1>4
    <2>3. Later(K, 0) # 0
        BY <2>1, <2>2
    <2>4. {k \in K : k > 0} # {}
        BY <1>3, <2>3, LaterTyped, Zenon
    <2> QED
        BY <2>4, Zenon
<1> DEFINE last == Max(K)
           N == K \ {last}
<1>6. last \in K /\ \A k \in K : k <= last
    BY <1>3, <1>5, MaxIsOne
<1> HIDE DEF last, N
<1>7. Taken(s, x) = Front(s)
    <2>1. Cardinality(K) # 0
        BY <1>3, <1>5, FS_EmptySet, Zenon
    <2>2. s # <<>>
        BY <1>2, <2>1
    <2> QED
        BY <1>1, <1>2, <2>2, TakenSteps, Zenon DEF x
<1>8. ASSUME NEW i \in K
      PROVE  ~(Balance(segments, i + 1, m) < 0) <=> i # last
    <2>1. i \in Nat /\ last \in Nat /\ i <= last /\ Later(K, i) \in Nat
        BY <1>3, <1>4, <1>6
    <2>2. Balance(segments, i + 1, m) = Later(K, i) - 1
        BY <1>4
    <2>3. Later(K, i) = 0 <=> i = last
        <3>1. CASE i = last
            <4>1. ~\E k \in K : k > last
                BY <1>3, <1>6
            <4>2. {k \in K : k > i} = {}
                BY <3>1, <4>1, Zenon
            <4> QED
                BY <1>3, <3>1, <4>2, LaterTyped, Zenon
        <3>2. CASE i # last
            <4>1. last > i
                BY <2>1, <3>2
            <4>2. {k \in K : k > i} # {}
                BY <1>6, <4>1, Zenon
            <4> QED
                BY <1>3, <3>2, <4>2, LaterTyped, Zenon
        <3> QED
            BY <3>1, <3>2
    <2>4. Later(K, i) = 0 <=> Balance(segments, i + 1, m) < 0
        BY <2>1, <2>2
    <2> QED
        BY <2>3, <2>4
<1>9. Kept(segments, m) = N
    <2>1. \A i : i \in Kept(segments, m) <=> i \in K /\ ~(Balance(segments, i + 1, m) < 0)
        <3>1. ~Counts(x)
            BY <1>1, Kinds DEF x
        <3> QED
            BY <1>1, <3>1, OneSegment, Zenon DEF K, n, x
    <2> QED
        BY <1>8, <2>1, Zenon DEF N
<1>10. InOrder(Front(s), segments, N)
    BY <1>2, <1>3, <1>6, OnePlaceFewer, Zenon DEF N
<1>11. ASSUME NEW i \in N \cup {0}
       PROVE  Later(N, i) = Balance(segments, i + 1, m)
    <2>1. i \in K \cup {0} /\ i # last
        BY <1>3, <1>6 DEF N
    <2>2. last > i
        <3>1. last \in Nat \ {0} /\ i \in Nat /\ (i \in K => i <= last)
            BY <1>3, <1>4, <1>6, <2>1
        <3> QED
            BY <2>1, <3>1
    <2>3. {k \in N : k > i} = {k \in K : k > i} \ {last}
        BY Zenon DEF N
    <2>4. last \in {k \in K : k > i} /\ IsFiniteSet({k \in K : k > i})
        BY <1>3, <1>6, <2>2, LaterTyped, Zenon
    <2>5. Later(N, i) = Later(K, i) - 1
        BY <2>3, <2>4, FS_RemoveElement, Zenon DEF Later
    <2> QED
        BY <1>4, <2>1, <2>5, Zenon
<1>12. InStep(Front(s), segments, m)
    BY <1>9, <1>10, <1>11, Zenon DEF InStep
<1> QED
    BY <1>7, <1>12, Zenon DEF x

\* what is refused: a bad segment, or a .. above the root
LEMMA RefusedHere ==
    ASSUME NEW segments \in Seq(Segments), NEW m \in 1 .. Len(segments), NEW s,
           InStep(s, segments, m - 1),
           segments[m] \in Bad \/ Overshoots(segments, 1, m)
    PROVE  Taken(s, segments[m]) = None
<1> DEFINE n == m - 1
           K == Kept(segments, n)
           x == segments[m]
<1>1. m \in Nat \ {0} /\ n \in Nat /\ x \in Segments
    OBVIOUS
<1> HIDE DEF n, K, x
<1>2. /\ s \in Seq(Names) /\ Len(s) = Cardinality(K)
      /\ Later(K, 0) = Balance(segments, 0 + 1, n)
    BY Zenon DEF InStep, InOrder, K, n
<1>3. IsFiniteSet(K) /\ K \in SUBSET (Nat \ {0})
    BY <1>1, KeptTyped DEF K
<1>4. CASE x \in Bad
    BY <1>1, <1>2, <1>4, TakenSteps, Zenon DEF x
<1>5. CASE Overshoots(segments, 1, m)
    <2>1. Balance(segments, 1, m) < 0 /\ Balance(segments, 1, m) \in Int
        <3>1. m \in Nat /\ 1 \in 1 .. m + 1
            BY <1>1
        <3> QED
            BY <1>5, <3>1, Balanced, Zenon
    <2>2. Later(K, 0) = Balance(segments, 1, n) /\ Later(K, 0) \in Nat
        <3>1. 0 + 1 = 1
            OBVIOUS
        <3> QED
            BY <1>2, <1>3, <3>1, LaterTyped, Zenon
    <2>3. /\ GoesUp(x) => Balance(segments, 1, m) = Balance(segments, 1, n) - 1
          /\ Skips(x) => Balance(segments, 1, m) = Balance(segments, 1, n)
          /\ Counts(x) => Balance(segments, 1, m) = Balance(segments, 1, n) + 1
        <3>1. 1 \in 1 .. m
            BY <1>1
        <3> QED
            BY <1>1, <3>1, OneSegment, Zenon DEF n, x
    <2>4. GoesUp(x)
        <3>1. ~Skips(x) /\ ~Counts(x)
            BY <2>1, <2>2, <2>3
        <3> QED
            BY <1>1, <3>1, Kinds, Zenon
    <2>5. Later(K, 0) = 0
        BY <2>1, <2>2, <2>3, <2>4
    <2>6. K = {}
        <3>1. {k \in K : k > 0} = {}
            BY <1>3, <2>5, LaterTyped, Zenon
        <3>2. \A k \in K : k > 0
            BY <1>3
        <3> QED
            BY <3>1, <3>2, Zenon
    <2>7. Len(s) = 0
        BY <1>2, <2>6, FS_EmptySet, Zenon
    <2>8. s = <<>>
        BY <1>2, <2>7, NothingIsEmpty
    <2> QED
        BY <1>1, <1>2, <2>4, <2>8, TakenSteps, Zenon DEF x
<1> QED
    BY <1>4, <1>5 DEF x

LEMMA RefusedSteps ==
    ASSUME NEW segments, NEW m \in Nat \ {0}
    PROVE  Refused(segments, m) <=>
              \/ Refused(segments, m - 1)
              \/ segments[m] \in Bad \/ Overshoots(segments, 1, m)
<1>1. 1 .. m = (1 .. m - 1) \cup {m}
    OBVIOUS
<1> QED
    BY <1>1, Zenon DEF Refused

\* what request_path makes of some segments is what they mean
LEMMA TakingMeans ==
    ASSUME NEW segments \in Seq(Segments)
    PROVE  LET n == Len(segments)
           IN IF Refused(segments, n) THEN Taking(segments) = None
              ELSE /\ Taking(segments) \in Seq(Names)
                   /\ Taking(segments) = Listed(segments, Kept(segments, n))
<1>1. PICK rest : IsLeft(rest, segments) /\ Taking(segments) = rest[Len(segments)]
    BY TakingSpelled, Zenon
<1>2. /\ rest[0] = <<>>
      /\ \A m \in 1 .. Len(segments) : rest[m] = Taken(rest[m - 1], segments[m])
    BY <1>1, LeftSteps, Zenon
<1> DEFINE Right(n) == IF Refused(segments, n) THEN rest[n] = None
                       ELSE InStep(rest[n], segments, n)
           T == {n \in Nat : n <= Len(segments) => Right(n)}
<1>3. 0 \in T
    <2>1. ~Refused(segments, 0)
        <3>1. 1 .. 0 = {}
            OBVIOUS
        <3> QED
            BY <3>1, Zenon DEF Refused
    <2>2. Kept(segments, 0) = {}
        <3>1. 1 .. 0 = {} /\ 0 \in Nat
            OBVIOUS
        <3> QED
            BY <3>1, KeptTyped, Zenon
    <2>3. Cardinality({}) = 0 /\ IsFiniteSet({}) /\ {k \in {} : k > 0} = {}
        BY FS_EmptySet
    <2>4. InOrder(<<>>, segments, {})
        BY <2>3 DEF InOrder
    <2>5. Later({}, 0) = Balance(segments, 0 + 1, 0)
        <3>1. 0 \in Nat /\ 0 + 1 \in 1 .. 0 + 1
            OBVIOUS
        <3>2. Balance(segments, 0 + 1, 0) = 0
            BY <3>1, Balanced
        <3> QED
            BY <2>3, <3>2, Zenon DEF Later
    <2>6. InStep(<<>>, segments, 0)
        BY <2>2, <2>4, <2>5, Zenon DEF InStep
    <2>7. Right(0)
        BY <1>2, <2>1, <2>6, Zenon
    <2> HIDE DEF Right
    <2> QED
        BY <2>7
<1>4. ASSUME NEW n \in Nat, n \in T
      PROVE  n + 1 \in T
    <2> SUFFICES ASSUME n + 1 <= Len(segments)
                 PROVE  Right(n + 1)
        <3> HIDE DEF Right
        <3> QED
            OBVIOUS
    <2> DEFINE m == n + 1
    <2>1. m \in 1 .. Len(segments) /\ m - 1 = n /\ m \in Nat \ {0} /\ n <= Len(segments)
        OBVIOUS
    <2>2. Right(n)
        <3> HIDE DEF Right
        <3> QED
            BY <1>4, <2>1
    <2> HIDE DEF m
    <2>3. rest[m] = Taken(rest[n], segments[m]) /\ segments[m] \in Segments
        <3>1. segments[m] \in Segments
            BY <2>1
        <3> QED
            BY <1>2, <2>1, <3>1, Zenon
    <2>4. Refused(segments, m) <=>
             \/ Refused(segments, n)
             \/ segments[m] \in Bad \/ Overshoots(segments, 1, m)
        BY <2>1, RefusedSteps, Zenon
    <2>5. CASE Refused(segments, n)
        <3>1. rest[n] = None
            BY <2>2, <2>5, Zenon
        <3>2. rest[m] = None
            BY <2>3, <3>1, Zenon DEF Taken
        <3>3. Right(m)
            BY <2>4, <2>5, <3>2, Zenon
        <3> QED
            BY <3>3 DEF m
    <2>6. CASE ~Refused(segments, n) /\ (segments[m] \in Bad \/ Overshoots(segments, 1, m))
        <3>1. InStep(rest[n], segments, m - 1)
            BY <2>1, <2>2, <2>6, Zenon
        <3>2. rest[m] = None
            BY <2>1, <2>3, <2>6, <3>1, RefusedHere, Zenon
        <3>3. Right(m)
            BY <2>4, <2>6, <3>2, Zenon
        <3> QED
            BY <3>3 DEF m
    <2>7. CASE ~Refused(segments, m)
        <3>1. InStep(rest[n], segments, m - 1)
            BY <2>1, <2>2, <2>4, <2>7, Zenon
        <3>2. InStep(Taken(rest[n], segments[m]), segments, m)
            <4>1. CASE Skips(segments[m])
                BY <2>1, <3>1, <4>1, InStepSkipping, Zenon
            <4>2. CASE GoesUp(segments[m])
                BY <2>1, <2>4, <2>7, <3>1, <4>2, InStepGoingUp, Zenon
            <4>3. CASE Counts(segments[m])
                BY <2>1, <2>4, <2>7, <3>1, <4>3, InStepCounting, Zenon
            <4> QED
                BY <2>3, <4>1, <4>2, <4>3, Kinds, Zenon
        <3>3. Right(m)
            BY <2>3, <2>7, <3>2, Zenon
        <3> QED
            BY <3>3 DEF m
    <2> QED
        BY <2>4, <2>5, <2>6, <2>7
<1> DEFINE N == Len(segments)
<1>5. N \in Nat /\ N <= N
    OBVIOUS
<1>6. Right(N)
    <2> HIDE DEF T
    <2>1. N \in T
        BY <1>3, <1>4, <1>5, Counting
    <2> HIDE DEF Right
    <2> QED
        BY <1>5, <2>1 DEF T
<1>7. CASE ~Refused(segments, N)
    <2>1. InOrder(rest[N], segments, Kept(segments, N))
        BY <1>6, <1>7, Zenon DEF InStep
    <2>2. rest[N] \in Seq(Names)
        BY <2>1, Zenon DEF InOrder
    <2>3. rest[N] = Listed(segments, Kept(segments, N))
        BY <1>5, <2>1, KeptTyped, InOrderIsListed, Zenon
    <2> QED
        BY <1>1, <1>7, <2>2, <2>3, Zenon
<1>8. CASE Refused(segments, N)
    BY <1>1, <1>6, <1>8, Zenon
<1> QED
    BY <1>7, <1>8, Zenon

---------------------------------------------------------------------------
(* Targets and the files they stand for *)

\* the target up to its query, which is in the last piece of that if anywhere
LEMMA UsedTyped ==
    ASSUME NEW target \in Seq(Pieces)
    PROVE  /\ Used(target) \in Seq(Pieces)
           /\ \A i \in 1 .. Len(Used(target)) - 1 : Used(target)[i] \notin Cut
           /\ (\A i \in 1 .. Len(target) : target[i] \notin Cut) => Used(target) = target
<1> DEFINE cuts == {i \in DOMAIN target : target[i] \in Cut}
<1>1. /\ cuts \in SUBSET Nat /\ \A i \in cuts : i <= Len(target)
      /\ \A i \in 1 .. Len(target) : target[i] \in Cut <=> i \in cuts
      /\ Len(target) \in Nat
    OBVIOUS
<1>2. Used(target) = IF cuts = {} THEN target ELSE SubSeq(target, 1, Min(cuts))
    BY Zenon DEF Used
<1> HIDE DEF cuts
<1>3. CASE cuts # {}
    <2>1. PICK x \in cuts : \A y \in cuts : x <= y
        BY <1>1, <1>3, LeastOf
    <2>2. Min(cuts) \in cuts /\ \A y \in cuts : Min(cuts) <= y
        BY <2>1, Zenon DEF Min
    <2> DEFINE least == Min(cuts)
    <2>3. least \in Nat /\ least <= Len(target)
        BY <1>1, <2>2
    <2> HIDE DEF least
    <2>4. /\ SubSeq(target, 1, least) \in Seq(Pieces)
          /\ Len(SubSeq(target, 1, least)) = least
          /\ \A i \in 1 .. least : SubSeq(target, 1, least)[i] = target[i]
        BY <2>3
    <2>5. \A i \in 1 .. least - 1 : target[i] \notin Cut
        <3> TAKE i \in 1 .. least - 1
        <3>1. ~(least <= i) /\ i \in 1 .. Len(target)
            BY <2>3
        <3>2. i \notin cuts
            BY <2>2, <3>1, Zenon DEF least
        <3> QED
            BY <1>1, <3>1, <3>2, Zenon
    <2>6. Used(target) = SubSeq(target, 1, least)
        BY <1>2, <1>3, Zenon DEF least
    <2>7. \A i \in 1 .. least - 1 : i \in 1 .. least
        BY <2>3
    <2>8. ~\A i \in 1 .. Len(target) : target[i] \notin Cut
        <3>1. least \in 1 .. Len(target)
            <4>1. least \in cuts /\ cuts \subseteq 1 .. Len(target)
                BY <2>2 DEF least, cuts
            <4> QED
                BY <4>1
        <3>2. least \in cuts
            BY <2>2, Zenon DEF least
        <3> QED
            BY <1>1, <3>1, <3>2, Zenon
    <2> QED
        BY <2>4, <2>5, <2>6, <2>7, <2>8, Zenon
<1>4. CASE cuts = {}
    <2>1. \A i \in 1 .. Len(target) : target[i] \notin Cut
        BY <1>1, <1>4
    <2>2. \A i \in 1 .. Len(target) - 1 : i \in 1 .. Len(target)
        BY <1>1
    <2> QED
        BY <1>2, <1>4, <2>1, <2>2, Zenon
<1> QED
    BY <1>3, <1>4

LEMMA DecodedTyped ==
    ASSUME NEW target \in Seq(Pieces)
    PROVE  Decoded(target).segments \in Seq(Segments)
<1> DEFINE used == Used(target)
           seqs == [i \in DOMAIN used |-> Reads[used[i]]]
<1>1. used \in Seq(Pieces)
    BY UsedTyped
<1> HIDE DEF used
<1>2. seqs \in Seq(Seq(Segments))
    <2>1. \A i \in DOMAIN used : Reads[used[i]] \in Seq(Segments)
        <3>1. \A i \in DOMAIN used : used[i] \in Pieces
            BY <1>1
        <3> QED
            BY <3>1, PiecesAssumption
    <2> DEFINE Read(i) == Reads[used[i]]
    <2>2. \A i \in 1 .. Len(used) : Read(i) \in Seq(Segments)
        BY <1>1, <2>1
    <2>3. seqs = [i \in 1 .. Len(used) |-> Read(i)]
        BY <1>1
    <2> HIDE DEF seqs, Read
    <2> QED
        BY <1>1, <2>2, <2>3
<1> HIDE DEF seqs
<1>3. FlattenSeq(seqs) \in Seq(Segments)
    BY <1>2, FlatTyped
<1>4. Decoded(target).segments = FlattenSeq(seqs)
    BY DEF Decoded, seqs, used
<1> QED
    BY <1>3, <1>4

LEMMA RequestPathMeans ==
    ASSUME NEW target \in Seq(Pieces)
    PROVE  /\ RequestPath(target) = None <=> Meaning(target) = None
           /\ RequestPath(target) # None =>
                 /\ RequestPath(target).names = Meaning(target)
                 /\ RequestPath(target).names \in Seq(Names)
<1> DEFINE segments == Decoded(target).segments
           n == Len(segments)
           unread == Decoded(target).unread
           kept == Listed(segments, Kept(segments, n))
           slash(names) == names = <<>> \/ Last(segments) = ""
<1>1. segments \in Seq(Segments)
    BY DecodedTyped
<1>2. /\ Meaning(target) = IF unread \/ Refused(segments, n) THEN None ELSE kept
      /\ RequestPath(target) =
            IF unread \/ Taking(segments) = None THEN None
            ELSE [names |-> Taking(segments), slash |-> slash(Taking(segments))]
    BY Zenon DEF Meaning, RequestPath, Refused
<1> HIDE DEF segments, unread
<1>3. IF Refused(segments, n) THEN Taking(segments) = None
      ELSE Taking(segments) \in Seq(Names) /\ Taking(segments) = kept
    BY <1>1, TakingMeans, Zenon
<1> HIDE DEF n, kept
<1>4. CASE unread \/ Refused(segments, n)
    BY <1>2, <1>3, <1>4, Zenon
<1>5. CASE ~(unread \/ Refused(segments, n))
    <2> DEFINE names == Taking(segments)
    <2>1. names \in Seq(Names) /\ names = kept /\ slash(names) \in BOOLEAN
        BY <1>3, <1>5
    <2> HIDE DEF names, slash
    <2>2. names # None
        <3>1. Names \subseteq Segments
            BY Zenon DEF Segments
        <3>2. names \in Seq(Segments)
            BY <2>1, <3>1
        <3> QED
            BY <3>2, PiecesAssumption, Zenon
    <2>3. RequestPath(target) = [names |-> names, slash |-> slash(names)]
        BY <1>2, <1>5, <2>2, Zenon DEF names
    <2>4. RequestPath(target) # None
        <3>1. RequestPath(target) \in [names : Seq(Names), slash : BOOLEAN]
            BY <2>1, <2>3
        <3> QED
            BY <3>1, PiecesAssumption, Zenon
    <2>5. Meaning(target) = names
        BY <1>2, <1>5, <2>1, Zenon
    <2>6. RequestPath(target).names = names
        BY <2>3
    <2> QED
        BY <2>1, <2>2, <2>4, <2>5, <2>6, Zenon
<1> QED
    BY <1>4, <1>5

LEMMA LongestFound ==
    ASSUME NEW names \in Seq(Names), Matching(names) # {}
    PROVE  LET i == LongestMount(names)
           IN /\ i \in Matching(names)
              /\ \A j \in Matching(names) : Len(Mounts[j].route) <= Len(Mounts[i].route)
<1> DEFINE M == Matching(names)
           Long(i) == Len(Mounts[i].route)
           L == {l \in Nat : \E i \in M : Long(i) = l}
<1>1. \A i \in M : i \in Nat /\ Long(i) \in Nat /\ Long(i) <= Len(names)
    BY MountsAssumption DEF Matching, IsPrefix
<1> HIDE DEF M, Long
<1>2. L \in SUBSET Nat /\ L # {} /\ \A l \in L : l <= Len(names)
    BY <1>1 DEF M
<1>3. IsFiniteSet(L)
    <2>1. Len(names) \in Nat
        OBVIOUS
    <2> QED
        BY <1>2, <2>1, FS_BoundedSetOfNaturals
<1>4. Max(L) \in L /\ \A l \in L : l <= Max(L)
    BY <1>2, <1>3, MaxIsOne
<1> DEFINE most == Max(L)
           F == {i \in M : Long(i) = most}
<1>5. most \in Nat /\ (\E i \in M : Long(i) = most) /\ \A i \in M : Long(i) <= most
    BY <1>1, <1>4
<1> HIDE DEF L, most
<1>6. F \in SUBSET Nat /\ F # {}
    BY <1>1, <1>5
<1>7. PICK i \in F : \A j \in F : i <= j
    BY <1>6, LeastOf
<1> DEFINE Best(a) == \A j \in M : Long(a) > Long(j) \/ (Long(a) = Long(j) /\ a <= j)
<1>8. i \in M /\ Best(i)
    <2>1. i \in M /\ Long(i) = most
        BY <1>7
    <2>2. ASSUME NEW j \in M
          PROVE  Long(i) > Long(j) \/ (Long(i) = Long(j) /\ i <= j)
        <3>1. Long(j) \in Nat /\ Long(j) <= most
            BY <1>1, <1>5
        <3>2. Long(j) = most => i <= j
            BY <1>7
        <3> QED
            BY <1>5, <2>1, <3>1, <3>2
    <2> QED
        BY <2>1, <2>2
<1>9. LongestMount(names) = CHOOSE a \in M : Best(a)
    BY Zenon DEF LongestMount, M, Long
<1> DEFINE b == LongestMount(names)
<1>10. b \in M /\ Best(b)
    <2> HIDE DEF Best
    <2> QED
        BY <1>8, <1>9, Zenon
<1> HIDE DEF b
<1>11. \A j \in M : Long(j) <= Long(b)
    BY <1>1, <1>10
<1> QED
    BY <1>10, <1>11, Zenon DEF b, M, Long

LEMMA JoinCheckedJoins ==
    ASSUME NEW base \in Seq(Names), NEW rest \in Seq(Names)
    PROVE  JoinChecked(base, rest) = base \o rest
<1> DEFINE One(i) == IF rest[i] \in Names THEN <<rest[i]>> ELSE <<>>
           seqs == [i \in DOMAIN rest |-> One(i)]
<1>1. DOMAIN rest = 1 .. Len(rest) /\ Len(rest) \in Nat
    OBVIOUS
<1>2. \A i \in 1 .. Len(rest) : rest[i] \in Names
    OBVIOUS
<1>3. \A i \in 1 .. Len(rest) : One(i) = <<rest[i]>>
    BY <1>2, Zenon
<1>4. \A i \in 1 .. Len(rest) : <<rest[i]>> \in Seq(Names)
    BY <1>2
<1>5. JoinChecked(base, rest) = base \o FlattenSeq(seqs)
    BY Zenon DEF JoinChecked
<1> HIDE DEF One
<1>6. seqs \in Seq(Seq(Names)) /\ Len(seqs) = Len(rest)
      /\ \A i \in 1 .. Len(rest) : seqs[i] = One(i)
    <2>1. \A i \in 1 .. Len(rest) : One(i) \in Seq(Names)
        BY <1>3, <1>4, Zenon
    <2>2. seqs = [i \in 1 .. Len(rest) |-> One(i)]
        BY <1>1, Zenon
    <2> HIDE DEF seqs
    <2> DEFINE k == Len(rest)
    <2>3. k \in Nat
        BY <1>1
    <2> HIDE DEF k
    <2> QED
        BY <2>1, <2>2, <2>3 DEF k
<1> HIDE DEF seqs
<1>7. Singles(seqs, rest)
    BY <1>3, <1>6, Zenon DEF Singles
<1>8. FlattenSeq(seqs) = rest
    BY <1>6, <1>7, FlatSingles
<1> QED
    BY <1>5, <1>8

\* a path is looked for under the mount with the longest route to it
LEMMA ResolveMeans ==
    ASSUME NEW names \in Seq(Names)
    PROVE  LET Leads(route) == route # <<>> /\ IsPrefix(route, names)
               routes == {Mounts[i].route : i \in DOMAIN Mounts}
           IN /\ Resolve(names) \in Seq(Names)
              /\ \/ /\ Resolve(names) = Root \o names
                    /\ ~\E route \in routes : Leads(route)
                 \/ \E i \in DOMAIN Mounts :
                       /\ Leads(Mounts[i].route)
                       /\ Resolve(names) = Mounts[i].base \o
                              SubSeq(names, Len(Mounts[i].route) + 1, Len(names))
                       /\ \A route \in routes :
                             Leads(route) => Len(route) <= Len(Mounts[i].route)
<1> DEFINE Leads(route) == route # <<>> /\ IsPrefix(route, names)
           routes == {Mounts[i].route : i \in DOMAIN Mounts}
<1>1. \A i : i \in Matching(names) <=> i \in DOMAIN Mounts /\ Leads(Mounts[i].route)
    BY Zenon DEF Matching
<1>2. CASE Matching(names) = {}
    <2>1. Resolve(names) = Root \o names
        BY <1>2, JoinCheckedJoins, MountsAssumption, Zenon DEF Resolve
    <2>2. ~\E route \in routes : Leads(route)
        BY <1>1, <1>2, Zenon
    <2>3. Resolve(names) \in Seq(Names)
        BY <2>1, MountsAssumption
    <2> QED
        BY <2>1, <2>2, <2>3, Zenon
<1>3. CASE Matching(names) # {}
    <2> DEFINE i == LongestMount(names)
               rest == SubSeq(names, Len(Mounts[i].route) + 1, Len(names))
    <2>1. /\ i \in Matching(names)
          /\ \A j \in Matching(names) : Len(Mounts[j].route) <= Len(Mounts[i].route)
        BY <1>3, LongestFound
    <2>2. Resolve(names) = JoinChecked(Mounts[i].base, rest)
        BY <1>3, Zenon DEF Resolve
    <2> HIDE DEF i
    <2>3. i \in DOMAIN Mounts /\ Leads(Mounts[i].route)
        BY <1>1, <2>1, Zenon
    <2> HIDE DEF Leads
    <2>4. Mounts[i].base \in Seq(Names) /\ Mounts[i].route \in Seq(Names)
        <3>1. i \in DOMAIN Mounts
            BY <2>3, Zenon
        <3> DEFINE Kind == [route : Seq(Names), base : Seq(Names)]
                   mount == Mounts[i]
        <3>2. Mounts \in Seq(Kind)
            BY MountsAssumption, Zenon
        <3> HIDE DEF Kind
        <3>3. mount \in Kind
            BY <3>1, <3>2
        <3> HIDE DEF mount
        <3>4. mount.base \in Seq(Names) /\ mount.route \in Seq(Names)
            BY <3>3 DEF Kind
        <3> QED
            BY <3>4, Zenon DEF mount
    <2>5. rest \in Seq(Names)
        BY <2>4
    <2>6. \A route \in routes : Leads(route) => Len(route) <= Len(Mounts[i].route)
        BY <1>1, <2>1, Zenon
    <2> HIDE DEF rest
    <2>7. Resolve(names) = Mounts[i].base \o rest
        BY <2>2, <2>4, <2>5, JoinCheckedJoins, Zenon
    <2>8. Resolve(names) \in Seq(Names)
        BY <2>4, <2>5, <2>7
    <2> QED
        BY <2>3, <2>6, <2>7, <2>8, Zenon DEF rest, Leads
<1> QED
    BY <1>2, <1>3

---------------------------------------------------------------------------
(* Ranges *)

Plainly == {"span", "from", "last"}

LEMMA RangeForms ==
    ASSUME NEW range \in SomeRange
    PROVE  /\ range.form \in Plainly \cup {"list", "other"}
           /\ range.a \in Nat /\ range.b \in Nat
BY DEF SomeRange, Plainly

\* the first and the last offset as ParseRange has them
Bounds(range, total, first, last) ==
    /\ first = IF range.form = "last" THEN total - Least(range.a, total) ELSE range.a
    /\ last = IF range.form = "span" THEN Least(range.b, total - 1) ELSE total - 1
    /\ ParseRange(range, total) =
          IF \/ total = 0
             \/ range.form \in {"list", "other"}
             \/ range.form = "last" /\ range.a = 0
             \/ first > last
             \/ first >= total
          THEN None
          ELSE <<first, last>>

LEMMA RangeBounds ==
    ASSUME NEW range \in SomeRange, NEW total \in Nat
    PROVE  \E first, last \in Int : Bounds(range, total, first, last)
<1> DEFINE first == IF range.form = "last" THEN total - Least(range.a, total) ELSE range.a
           last == IF range.form = "span" THEN Least(range.b, total - 1) ELSE total - 1
<1>1. first \in Int /\ last \in Int
    BY RangeForms DEF Least
<1>2. ParseRange(range, total) =
          IF \/ total = 0
             \/ range.form \in {"list", "other"}
             \/ range.form = "last" /\ range.a = 0
             \/ first > last
             \/ first >= total
          THEN None
          ELSE <<first, last>>
    BY Zenon DEF ParseRange
<1> QED
    BY <1>1, <1>2, Zenon DEF Bounds

\* what a range means, form by form
LEMMA WantedSpelled ==
    ASSUME NEW range, NEW total
    PROVE  /\ range.form = "span" =>
                 Wanted(range, total) = {i \in 0 .. total - 1 : range.a <= i /\ i <= range.b}
           /\ range.form = "from" =>
                 Wanted(range, total) = {i \in 0 .. total - 1 : range.a <= i}
           /\ range.form = "last" =>
                 Wanted(range, total) = {i \in 0 .. total - 1 : total - i <= range.a}
<1>1. ASSUME range.form = "span"
      PROVE  Wanted(range, total) = {i \in 0 .. total - 1 : range.a <= i /\ i <= range.b}
    BY <1>1 DEF Wanted
<1>2. ASSUME range.form = "from"
      PROVE  Wanted(range, total) = {i \in 0 .. total - 1 : range.a <= i}
    BY <1>2 DEF Wanted
<1>3. ASSUME range.form = "last"
      PROVE  Wanted(range, total) = {i \in 0 .. total - 1 : total - i <= range.a}
    BY <1>3 DEF Wanted
<1> QED
    BY <1>1, <1>2, <1>3

\* what ParseRange says of a range is what the range means
LEMMA RangeParsed ==
    ASSUME NEW range \in SomeRange, NEW total \in Nat, ParseRange(range, total) # None
    PROVE  /\ range.form \in Plainly
           /\ \E first, last \in Nat :
                 /\ ParseRange(range, total) = <<first, last>>
                 /\ first <= last /\ last < total
                 /\ Wanted(range, total) = first .. last
<1>1. PICK first, last \in Int : Bounds(range, total, first, last)
    BY RangeBounds
<1>2. /\ total # 0 /\ range.form \in Plainly
      /\ ~(range.form = "last" /\ range.a = 0) /\ first <= last /\ first < total
      /\ ParseRange(range, total) = <<first, last>>
    BY <1>1, RangeForms DEF Bounds
<1>3. first \in Nat /\ last \in Nat /\ last < total
    BY <1>1, <1>2, RangeForms DEF Least, Bounds
<1>4. Wanted(range, total) = first .. last
    <2>1. CASE range.form = "span"
        <3>1. last = Least(range.b, total - 1) /\ first = range.a
            BY <1>1, <2>1 DEF Bounds
        <3>2. {i \in 0 .. total - 1 : range.a <= i /\ i <= range.b} = first .. last
            BY <1>3, <3>1, RangeForms DEF Least
        <3> QED
            BY <2>1, <3>2, WantedSpelled
    <2>2. CASE range.form = "from"
        <3>1. last = total - 1 /\ first = range.a
            BY <1>1, <2>2 DEF Bounds
        <3>2. {i \in 0 .. total - 1 : range.a <= i} = first .. last
            BY <1>3, <3>1, RangeForms
        <3> QED
            BY <2>2, <3>2, WantedSpelled
    <2>3. CASE range.form = "last"
        <3>1. last = total - 1 /\ first = total - Least(range.a, total)
            BY <1>1, <2>3 DEF Bounds
        <3>2. {i \in 0 .. total - 1 : total - i <= range.a} = first .. last
            BY <1>3, <3>1, RangeForms DEF Least
        <3> QED
            BY <2>3, <3>2, WantedSpelled
    <2> QED
        BY <1>2, <2>1, <2>2, <2>3 DEF Plainly
<1> QED
    BY <1>2, <1>3, <1>4, Zenon

LEMMA RangeRefused ==
    ASSUME NEW range \in SomeRange, NEW total \in Nat, ParseRange(range, total) = None
    PROVE  range.form \notin Plainly \/ Wanted(range, total) = {}
<1> SUFFICES ASSUME range.form \in Plainly
             PROVE  Wanted(range, total) = {}
    OBVIOUS
<1>1. PICK first, last \in Int : Bounds(range, total, first, last)
    BY RangeBounds
<1>2. \/ total = 0
      \/ range.form = "last" /\ range.a = 0
      \/ first > last
      \/ first >= total
    <2>1. CASE first \in Nat /\ last \in Nat
        BY <1>1, <2>1, NoneAssumption DEF Plainly, Bounds
    <2>2. CASE first \notin Nat \/ last \notin Nat
        BY <1>1, <2>2, RangeForms DEF Least, Bounds
    <2> QED
        BY <2>1, <2>2
<1>3. CASE range.form = "span"
    BY <1>1, <1>2, <1>3, WantedSpelled, RangeForms DEF Least, Bounds
<1>4. CASE range.form = "from"
    BY <1>1, <1>2, <1>4, WantedSpelled, RangeForms DEF Bounds
<1>5. CASE range.form = "last"
    BY <1>1, <1>2, <1>5, WantedSpelled, RangeForms DEF Least, Bounds
<1> QED
    BY <1>3, <1>4, <1>5 DEF Plainly

---------------------------------------------------------------------------
(* The invariant of the requests *)

Begun == {"stat", "index", "list", "lost", "gone", "send"}
Stages == Begun \cup {"idle", "routing", "stream", "done", "closed", "upgraded"}

Disked == size \in [Files -> Sizes \cup {None}] /\ held \in [Files -> {1, None}]

\* what is known of the request at each stage
Underway ==
    /\ at \in Stages
    /\ at \notin {"idle", "closed", "upgraded"}
       => request.range \in SomeRange \cup {NoRange}
    /\ at \in Begun => request.method \in {"GET", "HEAD"}
    /\ at \notin {"stream", "done"} => reply = Unanswered /\ body = <<>>
    /\ at = "index" => place \in Dirs
    /\ at = "send" => place \in Files /\ missing \in {"list", "lost", "gone"}

\* the head of an opened file promises what the range means
First(range, head) == IF head.status = 206 THEN ParseRange(range, head.total)[1] ELSE 0
Agrees(range, head) ==
    /\ head.status \in {200, 206} /\ head.total \in Nat /\ head.promised \in Nat
    /\ First(range, head) \in Nat
    /\ First(range, head) + head.promised <= head.total
    /\ head.status = 206
       => /\ range.form \in Plainly /\ head.promised # 0
          /\ Wanted(range, head.total)
             = First(range, head) .. First(range, head) + head.promised - 1
          /\ head.promised = Cardinality(Wanted(range, head.total))

\* what has been sent is a beginning of that, and the rest is still there
Sending ==
    at = "stream" =>
        /\ request.method = "GET" /\ Agrees(request.range, reply)
        /\ body \in Seq(Nat) /\ Len(body) <= reply.promised
        /\ \A i \in 1 .. Len(body) : body[i] = First(request.range, reply) + i - 1
        /\ handle \in [size : Nat, linked : BOOLEAN]
        /\ ~shrunk => reply.total <= handle.size

Redirected == at = "done" /\ reply.status = 301 => body = <<>>

Answering == Disked /\ Underway /\ Sending /\ BodyIsRight /\ Redirected

---------------------------------------------------------------------------
(* Answers in one piece *)

Whole(text) == \E n \in Nat : text = Offsets(n) \/ text = Append(Offsets(n), ScriptMark)

LEMMA OffsetsLong ==
    ASSUME NEW n \in Nat
    PROVE  /\ Offsets(n) \in Seq(Int) /\ Len(Offsets(n)) = n
           /\ Append(Offsets(n), ScriptMark) \in Seq(Int)
           /\ Len(Append(Offsets(n), ScriptMark)) = n + 1
           /\ \A i \in 1 .. n : Offsets(n)[i] = i - 1
<1>1. Offsets(n) \in Seq(Int) /\ Len(Offsets(n)) = n /\ \A i \in 1 .. n : Offsets(n)[i] = i - 1
    BY DEF Offsets
<1> QED
    BY <1>1 DEF ScriptMark

LEMMA WholeLong ==
    ASSUME NEW text, Whole(text)
    PROVE  /\ Len(text) \in Nat
           /\ text \in {Offsets(Len(text)), Append(Offsets(Len(text) - 1), ScriptMark)}
<1>1. PICK n \in Nat : text = Offsets(n) \/ text = Append(Offsets(n), ScriptMark)
    BY DEF Whole
<1>2. CASE text = Offsets(n)
    <2>1. Len(text) = n
        BY <1>2, OffsetsLong
    <2> QED
        BY <1>2, <2>1
<1>3. CASE text = Append(Offsets(n), ScriptMark)
    <2>1. Len(text) = n + 1 /\ Len(text) - 1 = n
        BY <1>3, OffsetsLong
    <2> QED
        BY <1>3, <2>1
<1> QED
    BY <1>1, <1>2, <1>3

LEMMA WholeHtml == ASSUME NEW f, NEW n \in Nat PROVE Whole(Html(f, Offsets(n)))
BY DEF Whole, Html

\* an answer in one piece is as long as its head says, whatever its status
LEMMA PieceIsRight ==
    ASSUME NEW status \in {200, 301, 400, 404, 405}, NEW text, Whole(text),
           reply'.status = status, reply'.promised = Len(text),
           body' = IF request.method = "GET" THEN text ELSE <<>>,
           request' = request
    PROVE  BodyIsRight'
<1>1. /\ reply'.status # 206 /\ reply'.status # 416
    OBVIOUS
<1>2. request.method = "GET" => /\ Len(body') = reply'.promised
                                /\ body' \in {Offsets(reply'.promised),
                                              Append(Offsets(reply'.promised - 1), ScriptMark)}
    BY WholeLong
<1>3. request.method = "HEAD" => body' = <<>>
    OBVIOUS
<1> QED
    BY <1>1, <1>2, <1>3, Zenon DEF BodyIsRight

LEMMA RespondsRight ==
    ASSUME Answering, NEW status \in {200, 301, 400, 404, 405}, NEW f,
           NEW text, Whole(text), status = 301 => text = <<>>,
           Responds(status, f, text), request' = request, UNCHANGED disk,
           at \notin {"idle", "closed", "upgraded"}
    PROVE  Answering'
<1>1. /\ at' = "done" /\ reply'.status = status /\ reply'.promised = Len(text)
      /\ body' = IF request.method = "GET" THEN text ELSE <<>>
    BY DEF Responds
<1>2. BodyIsRight'
    BY <1>1, PieceIsRight
<1>3. Disked'
    BY DEF Answering, Disked, disk
<1>4. Underway'
    BY <1>1 DEF Answering, Underway, Stages, Begun
<1>5. Sending' /\ Redirected'
    BY <1>1 DEF Sending, Redirected
<1> QED
    BY <1>2, <1>3, <1>4, <1>5 DEF Answering

\* where nothing has been answered there is nothing to be right
LEMMA NotYet ==
    ASSUME Disked', Underway', at' \notin {"stream", "done"}
    PROVE  Answering'
BY DEF Answering, Sending, BodyIsRight, Redirected

---------------------------------------------------------------------------
(* The stages of an answer *)

LEMMA OnePiece == Whole(Offsets(1)) /\ Whole(<<>>)
<1>1. <<>> = Offsets(0)
    BY DEF Offsets
<1> QED
    BY <1>1 DEF Whole

LEMMA RoutesKeeps ==
    ASSUME Answering, Routes
    PROVE  Answering'
<1>1. at = "routing" /\ UNCHANGED <<disk, request, missing, handle, shrunk>>
    BY DEF Routes
<1>2. CASE RefusesMethod
    BY <1>1, <1>2, OnePiece, RespondsRight DEF RefusesMethod
<1>3. CASE RefusesTarget
    BY <1>1, <1>3, OnePiece, RespondsRight DEF RefusesTarget
<1>4. CASE SendsClient
    BY <1>1, <1>4, OnePiece, RespondsRight DEF SendsClient
<1>5. CASE Reserves
    BY <1>1, <1>5, OnePiece, RespondsRight DEF Reserves
<1>6. CASE Finds
    <2>1. /\ request' = request /\ at' = "stat" /\ UNCHANGED <<reply, body>>
          /\ request.method \in {"GET", "HEAD"}
        BY <1>1, <1>6 DEF Finds, Goes, IsGet
    <2>2. Disked' /\ Underway'
        BY <1>1, <2>1 DEF Answering, Disked, disk, Underway, Stages, Begun
    <2> QED
        BY <2>1, <2>2, NotYet
<1> QED
    BY <1>2, <1>3, <1>4, <1>5, <1>6 DEF Routes

\* from one stage before an answer to another
LEMMA GoesOn ==
    ASSUME Answering, NEW stage \in Begun, stage # "index", Goes(stage),
           stage = "send" => place' \in Files /\ missing' \in {"list", "lost", "gone"},
           at \in Begun, UNCHANGED <<disk, request>>
    PROVE  Answering'
<1>1. at' = stage /\ UNCHANGED <<reply, body>>
    BY DEF Goes
<1>2. Disked'
    BY DEF Answering, Disked, disk
<1>3. Underway'
    BY <1>1 DEF Answering, Underway, Stages, Begun
<1>4. at' \notin {"stream", "done"}
    BY <1>1 DEF Begun
<1> QED
    BY <1>2, <1>3, <1>4, NotYet

LEMMA IndexIsFile == ASSUME NEW d \in Dirs, Exists(Append(d, Index))
                     PROVE  Append(d, Index) \in Files
BY FilesAssumption DEF Exists

LEMMA StatsKeeps ==
    ASSUME Answering, Stats
    PROVE  Answering'
<1>1. at = "stat" /\ UNCHANGED <<disk, request, handle, shrunk>>
    BY DEF Stats
<1>2. CASE place \in Dirs /\ Responds(301, None, <<>>)
    BY <1>1, <1>2, OnePiece, RespondsRight
<1>3. CASE place \in Dirs /\ Goes("index") /\ UNCHANGED <<place, missing>>
    <2>1. /\ at' = "index" /\ UNCHANGED <<reply, body>>
        BY <1>3 DEF Goes
    <2>2. Disked' /\ Underway'
        BY <1>1, <1>3, <2>1 DEF Answering, Disked, disk, Underway, Stages, Begun
    <2> QED
        BY <2>1, <2>2, NotYet
<1>4. CASE place \notin Dirs /\ Exists(place) /\ Sends(place, "lost")
    <2>1. place' \in Files /\ missing' = "lost" /\ Goes("send")
        BY <1>4 DEF Exists, Sends
    <2> QED
        BY <1>1, <2>1, GoesOn DEF Begun
<1>5. CASE Goes("lost")
    BY <1>1, <1>5, GoesOn DEF Begun
<1> QED
    BY <1>2, <1>3, <1>4, <1>5 DEF Stats

LEMMA StatsIndexKeeps ==
    ASSUME Answering, StatsIndex
    PROVE  Answering'
<1>1. at = "index" /\ UNCHANGED <<disk, request, handle, shrunk>> /\ place \in Dirs
    BY DEF StatsIndex, Answering, Underway
<1> DEFINE index == Append(place, Index)
<1>2. CASE Exists(index) /\ Sends(index, "list")
    <2>1. place' \in Files /\ missing' = "list" /\ Goes("send")
        BY <1>1, <1>2, IndexIsFile DEF Sends
    <2> QED
        BY <1>1, <2>1, GoesOn DEF Begun
<1>3. CASE Goes("list")
    BY <1>1, <1>3, GoesOn DEF Begun
<1> QED
    BY <1>2, <1>3 DEF StatsIndex

LEMMA ListsKeeps ==
    ASSUME Answering, Lists
    PROVE  Answering'
<1>1. at = "list" /\ UNCHANGED <<disk, request, place, missing, handle, shrunk>>
    BY DEF Lists
<1>2. CASE /\ reply' = [Unanswered EXCEPT !.status = 200, !.promised = 1,
                                          !.rows = Entries(Target)]
           /\ body' = IF request.method = "GET" THEN Offsets(1) ELSE <<>>
           /\ at' = "done"
    <2>1. reply'.status = 200 /\ reply'.promised = 1
        BY <1>2 DEF Unanswered
    <2>2. BodyIsRight'
        <3>1. Len(Offsets(1)) = 1
            BY OffsetsLong
        <3> QED
            BY <1>1, <1>2, <2>1, <3>1, OnePiece, PieceIsRight
    <2>3. Disked' /\ Underway'
        BY <1>1, <1>2 DEF Answering, Disked, disk, Underway, Stages, Begun
    <2>4. Sending' /\ Redirected'
        BY <1>2, <2>1 DEF Sending, Redirected
    <2> QED
        BY <2>2, <2>3, <2>4 DEF Answering
<1>3. CASE Goes("lost")
    BY <1>1, <1>3, GoesOn DEF Begun
<1> QED
    BY <1>2, <1>3 DEF Lists

LEMMA LosesKeeps ==
    ASSUME Answering, Loses
    PROVE  Answering'
<1> DEFINE index == Append(Root, Index)
<1>1. at \in {"lost", "gone"} /\ UNCHANGED <<disk, request, handle, shrunk>>
    BY DEF Loses
<1>2. CASE Exists(index) /\ Sends(index, "gone")
    <2>1. place' \in Files /\ missing' = "gone" /\ Goes("send")
        BY <1>2, IndexIsFile, FilesAssumption DEF Sends
    <2> QED
        BY <1>1, <2>1, GoesOn DEF Begun
<1>3. CASE Responds(404, None, Offsets(1))
    BY <1>1, <1>3, OnePiece, RespondsRight
<1> QED
    BY <1>2, <1>3 DEF Loses

---------------------------------------------------------------------------
(* The file is opened *)

LEMMA Lengths ==
    ASSUME Disked, NEW f \in Files
    PROVE  /\ size[f] # None => size[f] \in Nat
           /\ held[f] # None => held[f] \in Nat
<1>1. size[f] \in Sizes \cup {None} /\ held[f] \in {1, None}
    BY DEF Disked
<1>2. Sizes \subseteq Nat /\ 1 \in Nat
    BY FilesAssumption
<1> QED
    BY <1>1, <1>2

LEMMA SendsTextKeeps ==
    ASSUME Answering, at = "send", SendsText, UNCHANGED <<disk, request, place, missing>>
    PROVE  Answering'
<1>1. place \in Files /\ Disked
    BY DEF Answering, Underway
<1>2. CASE Overlaid /\ Responds(200, place, Html(place, Offsets(held[place])))
    <2>1. held[place] \in Nat
        BY <1>1, <1>2, Lengths DEF Overlaid
    <2> QED
        BY <1>2, <2>1, WholeHtml, RespondsRight
<1>3. CASE size[place] # None /\ Responds(200, place, Html(place, Offsets(size[place])))
    <2>1. size[place] \in Nat
        BY <1>1, <1>3, Lengths
    <2> QED
        BY <1>3, <2>1, WholeHtml, RespondsRight
<1> QED
    BY <1>2, <1>3 DEF SendsText

\* a head that promises all of the file, or what a range means, keeps to it
LEMMA AgreesWhole ==
    ASSUME NEW range, NEW head, NEW total \in Nat,
           head.status = 200, head.total = total, head.promised = total
    PROVE  Agrees(range, head)
BY DEF Agrees, First

LEMMA AgreesRange ==
    ASSUME NEW range \in SomeRange, NEW head, NEW total \in Nat,
           ParseRange(range, total) # None,
           head.status = 206, head.total = total,
           head.promised = ParseRange(range, total)[2] - ParseRange(range, total)[1] + 1
    PROVE  Agrees(range, head)
<1>1. PICK first, last \in Nat :
          /\ ParseRange(range, total) = <<first, last>>
          /\ first <= last /\ last < total
          /\ Wanted(range, total) = first .. last
    BY RangeParsed
<1>2. First(range, head) = first /\ head.promised = last - first + 1
    BY <1>1 DEF First
<1>3. /\ head.promised \in Nat \ {0} /\ first + head.promised <= total
      /\ first + head.promised - 1 = last
    BY <1>1, <1>2
<1>4. Cardinality(first .. last) = last - first + 1
    BY <1>1, FS_Interval
<1> QED
    BY <1>1, <1>2, <1>3, <1>4, RangeParsed DEF Agrees

\* what is promised of an opened file
LEMMA OpenedKeeps ==
    ASSUME Answering, at = "send", UNCHANGED <<disk, request, place, missing>>, ~shrunk',
           NEW total \in Nat, Agrees(request.range, reply'), reply'.total = total,
           handle' = [size |-> total, linked |-> TRUE],
           at' = IF request.method = "HEAD" THEN "done" ELSE "stream",
           UNCHANGED body
    PROVE  Answering'
<1>1. /\ body = <<>> /\ request.method \in {"GET", "HEAD"}
      /\ request.range \in SomeRange \cup {NoRange}
    BY DEF Answering, Underway, Begun
<1>2. Disked'
    BY DEF Answering, Disked, disk
<1>3. Underway'
    BY <1>1 DEF Underway, Stages, Begun
<1>4. Sending'
    <2> SUFFICES ASSUME at' = "stream"
                 PROVE  Sending'
        BY DEF Sending
    <2>1. request'.method = "GET" /\ body' = <<>>
        BY <1>1
    <2>2. /\ body' \in Seq(Nat) /\ Len(body') = 0 /\ 1 .. Len(body') = {}
        BY <2>1
    <2>3. Agrees(request'.range, reply') /\ reply'.promised \in Nat
        BY DEF Agrees
    <2>4. handle' \in [size : Nat, linked : BOOLEAN] /\ reply'.total <= handle'.size
        OBVIOUS
    <2> QED
        BY <2>1, <2>2, <2>3, <2>4 DEF Sending
<1>5. BodyIsRight'
    <2> SUFFICES ASSUME at' = "done" PROVE BodyIsRight'
        BY DEF BodyIsRight
    <2>1. request'.method = "HEAD" /\ body' = <<>>
        BY <1>1
    <2>2. /\ reply'.status # 416
          /\ reply'.status = 206 =>
                /\ request'.range.form \in {"span", "from", "last"}
                /\ reply'.promised = Cardinality(Wanted(request'.range, reply'.total))
        BY DEF Agrees, Plainly
    <2> QED
        BY <2>1, <2>2, Zenon DEF BodyIsRight
<1>6. Redirected'
    BY <1>1 DEF Redirected
<1> QED
    BY <1>2, <1>3, <1>4, <1>5, <1>6 DEF Answering

LEMMA OpensKeeps ==
    ASSUME Answering, at = "send", Opens, UNCHANGED <<disk, request, place, missing>>
    PROVE  Answering'
<1> DEFINE total == size[place]
           range == ParseRange(request.range, total)
<1>1. /\ place \in Files /\ Disked /\ body = <<>>
      /\ request.method \in {"GET", "HEAD"}
      /\ request.range \in SomeRange \cup {NoRange}
    BY DEF Answering, Underway, Begun
<1>2. total \in Nat /\ ~shrunk'
    BY <1>1, Lengths DEF Opens
<1>3. CASE /\ reply' = [status |-> 200, promised |-> total, file |-> place,
                        total |-> total, rows |-> {}]
           /\ handle' = [size |-> total, linked |-> TRUE]
           /\ at' = IF request.method = "HEAD" THEN "done" ELSE "stream"
           /\ UNCHANGED body
    <2>1. reply'.status = 200 /\ reply'.total = total /\ reply'.promised = total
        BY <1>3
    <2> HIDE DEF total
    <2>2. Agrees(request.range, reply')
        BY <1>2, <2>1, AgreesWhole
    <2> QED
        BY <1>2, <1>3, <2>1, <2>2, OpenedKeeps
<1>4. CASE /\ request.range # NoRange /\ range # None
           /\ reply' = [status |-> 206, promised |-> range[2] - range[1] + 1,
                        file |-> place, total |-> total, rows |-> {}]
           /\ handle' = [size |-> total, linked |-> TRUE]
           /\ at' = IF request.method = "HEAD" THEN "done" ELSE "stream"
           /\ UNCHANGED body
    <2>1. /\ reply'.status = 206 /\ reply'.total = total
          /\ reply'.promised = range[2] - range[1] + 1
        BY <1>4
    <2> HIDE DEF total
    <2>2. request.range \in SomeRange
        BY <1>1, <1>4
    <2>3. Agrees(request.range, reply')
        BY <1>2, <1>4, <2>1, <2>2, AgreesRange
    <2> QED
        BY <1>2, <1>4, <2>1, <2>3, OpenedKeeps
<1>5. CASE /\ request.range # NoRange /\ range = None
           /\ reply' = [Unanswered EXCEPT !.status = 416, !.total = total]
           /\ at' = "done"
           /\ UNCHANGED <<handle, body>>
    <2>1. reply'.status = 416 /\ reply'.total = total /\ reply'.promised = 0
        BY <1>5 DEF Unanswered
    <2> HIDE DEF total
    <2>2. request.range \in SomeRange
        BY <1>1, <1>5
    <2>3. request.range.form \notin Plainly \/ Wanted(request.range, total) = {}
        BY <1>2, <1>5, <2>2, RangeRefused
    <2>4. body' = <<>> /\ Len(body') = reply'.promised
        BY <1>1, <1>5, <2>1
    <2>5. BodyIsRight'
        <3>1. reply'.status \notin {200, 206} /\ request' = request
            BY <2>1
        <3>2. request'.range.form \notin {"span", "from", "last"}
              \/ Wanted(request'.range, reply'.total) = {}
            BY <2>1, <2>3 DEF Plainly
        <3> QED
            BY <2>4, <3>1, <3>2 DEF BodyIsRight
    <2>6. Disked'
        BY <1>1 DEF Disked, disk
    <2>7. Underway'
        BY <1>1, <1>5 DEF Underway, Stages, Begun
    <2>8. Sending' /\ Redirected'
        BY <1>5, <2>1 DEF Sending, Redirected
    <2> QED
        BY <2>5, <2>6, <2>7, <2>8 DEF Answering
<1> QED
    BY <1>3, <1>4, <1>5, Zenon DEF Opens

LEMMA SendsFileKeeps ==
    ASSUME Answering, SendsFile
    PROVE  Answering'
<1>1. at = "send" /\ UNCHANGED <<disk, request, place, missing>>
    BY DEF SendsFile
<1>2. CASE CannotRead
    <2>1. missing \in {"list", "lost", "gone"} /\ Goes(missing)
        BY <1>1, <1>2 DEF CannotRead, Answering, Underway
    <2> QED
        BY <1>1, <2>1, GoesOn DEF Begun
<1> QED
    BY <1>1, <1>2, SendsTextKeeps, OpensKeeps DEF SendsFile

---------------------------------------------------------------------------
(* The body *)

LEMMA Extended ==
    ASSUME NEW b \in Seq(Nat), NEW first \in Nat, NEW n \in Nat \ {0},
           \A i \in 1 .. Len(b) : b[i] = first + i - 1,
           NEW c, c = b \o [i \in 1 .. n |-> first + Len(b) + i - 1]
    PROVE  /\ c \in Seq(Nat) /\ Len(c) = Len(b) + n
           /\ \A i \in 1 .. Len(c) : c[i] = first + i - 1
<1> DEFINE more == [i \in 1 .. n |-> first + Len(b) + i - 1]
<1>1. more \in Seq(Nat) /\ Len(more) = n /\ \A i \in 1 .. n : more[i] = first + Len(b) + i - 1
    OBVIOUS
<1> HIDE DEF more
<1>2. c = b \o more
    BY DEF more
<1>3. c \in Seq(Nat) /\ Len(c) = Len(b) + n
    BY <1>1, <1>2
<1>4. ASSUME NEW i \in 1 .. Len(c)
      PROVE  c[i] = first + i - 1
    <2>1. CASE i <= Len(b)
        BY <1>1, <1>2, <1>3, <2>1
    <2>2. CASE i > Len(b)
        <3>1. i - Len(b) \in 1 .. n /\ c[i] = more[i - Len(b)]
            BY <1>1, <1>2, <1>3, <2>2
        <3> QED
            BY <1>1, <3>1
    <2> QED
        BY <2>1, <2>2
<1> QED
    BY <1>3, <1>4

\* the whole of what was promised is what the range means, in order
LEMMA PromiseKept ==
    ASSUME NEW range, NEW head, Agrees(range, head),
           NEW b \in Seq(Nat), Len(b) = head.promised,
           \A i \in 1 .. Len(b) : b[i] = First(range, head) + i - 1
    PROVE  /\ head.status = 206 => /\ Range(b) = Wanted(range, head.total)
                                   /\ \A i \in 2 .. Len(b) : b[i] = b[i - 1] + 1
           /\ head.status = 200 => b = Offsets(head.promised)
<1> DEFINE first == First(range, head)
           n == head.promised
<1>1. first \in Nat /\ n \in Nat /\ DOMAIN b = 1 .. n
    BY DEF Agrees
<1>2. head.status = 206 => Wanted(range, head.total) = first .. first + n - 1
    BY DEF Agrees
<1>3. head.status = 200 => first = 0
    BY DEF First
<1> HIDE DEF first, n
<1>4. \A i \in 1 .. n : b[i] = first + i - 1
    BY DEF first, n
<1>5. Range(b) = first .. first + n - 1
    <2>1. \A k \in first .. first + n - 1 : \E i \in 1 .. n : b[i] = k
        <3> TAKE k \in first .. first + n - 1
        <3>1. k - first + 1 \in 1 .. n /\ first + (k - first + 1) - 1 = k
            BY <1>1
        <3> QED
            BY <1>4, <3>1
    <2>2. \A i \in 1 .. n : b[i] \in first .. first + n - 1
        BY <1>1, <1>4
    <2> QED
        BY <1>1, <2>1, <2>2 DEF Range
<1>6. \A i \in 2 .. n : b[i] = b[i - 1] + 1
    <2> TAKE i \in 2 .. n
    <2>1. i \in 1 .. n /\ i - 1 \in 1 .. n
        BY <1>1
    <2> QED
        BY <1>1, <1>4, <2>1
<1>7. first = 0 => b = Offsets(n)
    <2> HAVE first = 0
    <2>1. b = [i \in 1 .. n |-> b[i]]
        BY <1>1
    <2>2. \A i \in 1 .. n : b[i] = i - 1
        BY <1>1, <1>4
    <2> QED
        BY <2>1, <2>2 DEF Offsets
<1> QED
    BY <1>2, <1>3, <1>5, <1>6, <1>7 DEF n

\* There is nothing more to read of a file that has kept its end only once all has
\* been sent.
LEMMA StreamsKeeps ==
    ASSUME Answering, Streams
    PROVE  Answering'
<1> DEFINE range == request.range
           first == First(range, reply)
           n == reply.promised
           from == first + Len(body)
           due == n - Len(body)
           rest == IF handle.size > from THEN handle.size - from ELSE 0
           read == Least(Least(due, Chunk), rest)
<1>1. /\ at = "stream" /\ UNCHANGED <<disk, request, place, missing, reply, shrunk>>
      /\ range \in SomeRange \cup {NoRange}
    BY DEF Streams, Answering, Underway
<1>2. /\ request.method = "GET" /\ Agrees(range, reply)
      /\ body \in Seq(Nat) /\ Len(body) <= n
      /\ \A i \in 1 .. Len(body) : body[i] = first + i - 1
      /\ handle \in [size : Nat, linked : BOOLEAN]
      /\ ~shrunk => reply.total <= handle.size
    BY <1>1 DEF Answering, Sending
<1>3. /\ first \in Nat /\ n \in Nat /\ first + n <= reply.total /\ reply.total \in Nat
    BY <1>2 DEF Agrees
<1>4. \/ /\ due > 0 /\ read > 0
         /\ body' = body \o [i \in 1 .. read |-> from + i - 1]
         /\ UNCHANGED <<at, handle>>
      \/ /\ due = 0 \/ read = 0
         /\ at' = "done"
         /\ UNCHANGED body
    BY <1>1, Zenon DEF Streams, First
<1>5. Disked'
    BY <1>1 DEF Answering, Disked, disk
<1> HIDE DEF first, n
<1>6. Len(body) \in Nat /\ due \in Nat /\ from \in Nat /\ rest \in Nat /\ handle.size \in Nat
    BY <1>2, <1>3
<1>7. read \in Nat /\ read <= due /\ (read = 0 => due = 0 \/ rest = 0)
    BY <1>6, FilesAssumption DEF Least
<1>8. CASE /\ due > 0 /\ read > 0
           /\ body' = body \o [i \in 1 .. read |-> from + i - 1]
           /\ UNCHANGED <<at, handle>>
    <2> HIDE DEF read, rest
    <2>1. /\ body' \in Seq(Nat) /\ Len(body') = Len(body) + read
          /\ \A i \in 1 .. Len(body') : body'[i] = first + i - 1
        BY <1>2, <1>3, <1>7, <1>8, Extended
    <2>2. Len(body') <= n
        BY <1>3, <1>6, <1>7, <2>1
    <2>3. Sending'
        BY <1>1, <1>2, <1>8, <2>1, <2>2 DEF Sending, first, n
    <2>4. Underway'
        BY <1>1, <1>8 DEF Underway, Stages, Begun
    <2>5. BodyIsRight' /\ Redirected'
        BY <1>1, <1>8 DEF BodyIsRight, Redirected
    <2> QED
        BY <1>5, <2>3, <2>4, <2>5 DEF Answering
<1>9. CASE (due = 0 \/ read = 0) /\ at' = "done" /\ UNCHANGED body
    <2>1. ~shrunk => Len(body) = n
        BY <1>2, <1>3, <1>6, <1>7, <1>9
    <2>2. ~shrunk => /\ reply.status = 206 => Wants(Wanted(range, reply.total))
                     /\ reply.status = 200 => body = Offsets(n)
        BY <1>2, <2>1, PromiseKept DEF Wants, first, n
    <2>3. /\ reply.status \notin {301, 416}
          /\ reply.status = 206 =>
                /\ range.form \in {"span", "from", "last"}
                /\ n = Cardinality(Wanted(range, reply.total))
        BY <1>2 DEF Agrees, Plainly, n
    <2>5. BodyIsRight'
        BY <1>1, <1>2, <1>9, <2>1, <2>2, <2>3 DEF BodyIsRight, Wants, n
    <2>6. Underway'
        BY <1>1, <1>9 DEF Underway, Stages, Begun
    <2>7. Sending' /\ Redirected'
        BY <1>1, <1>9, <2>3 DEF Sending, Redirected
    <2> QED
        BY <1>5, <2>5, <2>6, <2>7 DEF Answering
<1> QED
    BY <1>4, <1>8, <1>9

---------------------------------------------------------------------------
(* The client, the disk and the editor *)

LEMMA RestsKeeps ==
    ASSUME Answering, NEW stage \in {"idle", "closed"}, Rests(stage)
    PROVE  Answering'
<1>1. Disked'
    BY DEF Answering, Disked, disk, Rests
<1>2. Underway'
    BY DEF Underway, Stages, Begun, Rests
<1> QED
    BY <1>1, <1>2, NotYet DEF Rests

LEMMA RoutedKeeps ==
    ASSUME Answering, at' = "routing", UNCHANGED disk,
           request'.range \in SomeRange \cup {NoRange}, reply' = Unanswered, body' = <<>>
    PROVE  Answering'
<1>1. Disked'
    BY DEF Answering, Disked, disk
<1>2. Underway'
    BY DEF Underway, Stages, Begun
<1> QED
    BY <1>1, <1>2, NotYet

LEMMA ReceiveKeeps ==
    ASSUME Answering, NEW r, r.range \in SomeRange \cup {NoRange}, Receive(r)
    PROVE  Answering'
<1>1. at = "idle" /\ request' = r /\ Goes("routing") /\ UNCHANGED disk
    BY DEF Receive
<1>2. reply = Unanswered /\ body = <<>>
    BY <1>1 DEF Answering, Underway
<1> QED
    BY <1>1, <1>2, RoutedKeeps DEF Goes

LEMMA FollowsKeeps ==
    ASSUME Answering, Follows
    PROVE  Answering'
<1>1. request.range \in SomeRange \cup {NoRange} /\ body = <<>>
    BY DEF Follows, Answering, Underway, Redirected
<1>2. request'.range = request.range
    BY DEF Follows, Request
<1> QED
    BY <1>1, <1>2, RoutedKeeps DEF Follows

LEMMA ClicksKeeps ==
    ASSUME Answering, Clicks
    PROVE  Answering'
<1>1. request.range \in SomeRange \cup {NoRange}
    BY DEF Clicks, Answering, Underway
<1>2. request'.range = request.range
    BY DEF Clicks, Request
<1> QED
    BY <1>1, <1>2, RoutedKeeps DEF Clicks

LEMMA OpensFileKeeps ==
    ASSUME Answering, OpensFile
    PROVE  Answering'
BY ReceiveKeeps DEF OpensFile, Request

LEMMA AsksKeeps ==
    ASSUME Answering, Asks
    PROVE  Answering'
<1>1. \A r \in Asked : r.range \in SomeRange \cup {NoRange}
    BY AskedAssumption DEF Asking
<1> QED
    BY <1>1, ReceiveKeeps DEF Asks

\* A file that is written in place under a body that is being sent may lose its end,
\* one that is removed or made anew is another file.
LEMMA ChangesKeeps ==
    ASSUME Answering, Changes
    PROVE  Answering'
<1>1. PICK f \in Restless, n \in Sizes \cup {None} :
          /\ size' = [size EXCEPT ![f] = n]
          /\ LET open == (at = "stream") /\ f = place /\ handle.linked
             IN /\ handle' = CASE open /\ n = None -> [handle EXCEPT !.linked = FALSE]
                               [] open /\ n # None -> [handle EXCEPT !.size = n]
                               [] OTHER -> handle
                /\ shrunk' = (shrunk \/ (open /\ n # None /\ n < reply.total))
          /\ UNCHANGED <<config, held, at, request, place, missing, reply, body>>
    BY DEF Changes
<1>2. Disked'
    BY <1>1 DEF Answering, Disked
<1>3. Underway'
    BY <1>1 DEF Answering, Underway
<1>4. Sending'
    <2> SUFFICES ASSUME at = "stream" PROVE Sending'
        BY <1>1 DEF Sending
    <2>1. /\ request.method = "GET" /\ Agrees(request.range, reply)
          /\ body \in Seq(Nat) /\ Len(body) <= reply.promised
          /\ \A i \in 1 .. Len(body) : body[i] = First(request.range, reply) + i - 1
          /\ handle \in [size : Nat, linked : BOOLEAN]
          /\ ~shrunk => reply.total <= handle.size
          /\ reply.total \in Nat
        BY DEF Answering, Sending, Agrees
    <2>2. /\ handle' \in [size : Nat, linked : BOOLEAN]
          /\ ~shrunk' => reply.total <= handle'.size
        <3>1. CASE f = place /\ handle.linked /\ n = None
            BY <1>1, <2>1, <3>1
        <3>2. CASE f = place /\ handle.linked /\ n # None
            <4>1. n \in Nat
                BY <3>2, FilesAssumption
            <4>2. handle' = [handle EXCEPT !.size = n]
                BY <1>1, <3>2
            <4>3. shrunk' <=> (shrunk \/ n < reply.total)
                BY <1>1, <3>2
            <4>4. handle'.size = n /\ handle' \in [size : Nat, linked : BOOLEAN]
                BY <2>1, <4>1, <4>2
            <4> QED
                BY <2>1, <4>1, <4>3, <4>4
        <3>3. CASE ~(f = place /\ handle.linked)
            BY <1>1, <2>1, <3>3
        <3> QED
            BY <3>1, <3>2, <3>3
    <2> QED
        BY <1>1, <2>1, <2>2 DEF Sending
<1>5. BodyIsRight'
    <2>1. at = "done" => (shrunk' <=> shrunk)
        BY <1>1
    <2> QED
        BY <1>1, <2>1 DEF Answering, BodyIsRight, Wants
<1>6. Redirected'
    BY <1>1 DEF Answering, Redirected
<1> QED
    BY <1>2, <1>3, <1>4, <1>5, <1>6 DEF Answering

LEMMA StillAnswering ==
    ASSUME Answering, UNCHANGED <<size, answer, shrunk>>,
           held' \in [Files -> {1, None}]
    PROVE  Answering'
<1>1. UNCHANGED <<at, request, place, missing, handle, reply, body, shrunk, size>>
    BY DEF answer
<1>2. Disked'
    BY <1>1 DEF Answering, Disked
<1>3. Underway' /\ Redirected'
    BY <1>1 DEF Answering, Underway, Redirected
<1>4. Sending'
    BY <1>1 DEF Answering, Sending
<1>5. BodyIsRight'
    BY <1>1 DEF Answering, BodyIsRight, Wants
<1> QED
    BY <1>2, <1>3, <1>4, <1>5 DEF Answering

LEMMA EditsKeeps ==
    ASSUME Answering, Edits
    PROVE  Answering'
<1>1. held' \in [Files -> {1, None}]
    BY DEF Edits, Answering, Disked
<1> QED
    BY <1>1, StillAnswering DEF Edits

LEMMA UpgradesKeeps ==
    ASSUME Answering, Upgrades
    PROVE  Answering'
<1>1. Disked'
    BY DEF Answering, Disked, disk, Upgrades
<1>2. Underway'
    BY DEF Answering, Underway, Stages, Begun, Upgrades
<1> QED
    BY <1>1, <1>2, NotYet DEF Upgrades

LEMMA NextKeeps ==
    ASSUME Answering, Next
    PROVE  Answering'
<1>1. CASE Answers
    BY <1>1, RoutesKeeps, StatsKeeps, StatsIndexKeeps, ListsKeeps, LosesKeeps,
       SendsFileKeeps, StreamsKeeps DEF Answers
<1>2. CASE Takes
    BY <1>2, RestsKeeps DEF Takes
<1>3. CASE TimesOut
    BY <1>3, RestsKeeps DEF TimesOut
<1> QED
    BY <1>1, <1>2, <1>3, FollowsKeeps, ClicksKeeps, OpensFileKeeps, AsksKeeps,
       ChangesKeeps, EditsKeeps DEF Next

---------------------------------------------------------------------------
(* What is asked for *)

Resting == {"idle", "closed", "upgraded"}
Places == Seq(Names) \ {<<>>}

\* what a client may ask for is made of pieces, and it is known how it was taken
Targeted ==
    /\ at \notin Resting => request.target \in Seq(Pieces)
    /\ at = "stat" => Path # None /\ place = Resolve(Path.names)
    /\ at = "done" /\ reply.status = 400 => Path = None
    /\ at = "done" /\ reply.status = 301 => Path # None
    /\ at \in {"stream", "done"} => reply.rows \subseteq Places

LEMMA OneElement == ASSUME NEW S, NEW e \in S PROVE <<e>> \in Seq(S) /\ <<>> \in Seq(S)
OBVIOUS

LEMMA Joined == ASSUME NEW S, NEW s \in Seq(S), NEW t \in Seq(S) PROVE s \o t \in Seq(S)
OBVIOUS

LEMMA Tabled ==
    ASSUME NEW S, NEW n \in Nat, NEW f, \A i \in 1 .. n : f[i] \in S
    PROVE  [i \in 1 .. n |-> f[i]] \in Seq(S)
OBVIOUS

LEMMA WrittenTyped ==
    ASSUME NEW n \in Names
    PROVE  Raw[n] \in Pieces /\ Encoded[n] \in Pieces
<1>1. Raw \in [Names -> Pieces] /\ Encoded \in [Names -> Pieces]
    BY PiecesAssumption, Zenon
<1> QED
    BY <1>1

LEMMA EndTyped == "" \in Pieces /\ <<"">> \in Seq(Pieces) /\ <<>> \in Seq(Pieces)
<1>1. "" \in Pieces
    BY PiecesAssumption, Zenon
<1> QED
    BY <1>1, OneElement, Zenon

LEMMA LocationTyped ==
    ASSUME NEW names \in Seq(Names)
    PROVE  Location(names) \in Seq(Pieces)
<1> DEFINE written == [i \in DOMAIN names |-> Raw[names[i]]]
<1>1. Len(names) \in Nat /\ DOMAIN names = 1 .. Len(names)
      /\ \A i \in 1 .. Len(names) : names[i] \in Names
    OBVIOUS
<1>2. \A i \in 1 .. Len(names) : Raw[names[i]] \in Pieces
    BY <1>1, WrittenTyped, Zenon
<1>3. written \in Seq(Pieces)
    <2> DEFINE n == Len(names)
    <2>1. n \in Nat /\ written = [i \in 1 .. n |-> Raw[names[i]]]
        BY <1>1, Zenon
    <2> HIDE DEF written
    <2>2. \A i \in 1 .. n : written[i] = Raw[names[i]]
        BY <2>1, Zenon
    <2>3. written = [i \in 1 .. n |-> written[i]] /\ \A i \in 1 .. n : written[i] \in Pieces
        BY <1>2, <2>1, <2>2, Zenon
    <2> HIDE DEF n
    <2>4. [i \in 1 .. n |-> written[i]] \in Seq(Pieces)
        BY <2>1, <2>3, Tabled
    <2> QED
        BY <2>3, <2>4, Zenon
<1> HIDE DEF written
<1>4. written \o <<"">> \in Seq(Pieces)
    BY <1>3, EndTyped, Joined, Zenon
<1> QED
    BY <1>4, Zenon DEF Location, written

LEMMA UrlForTyped ==
    ASSUME NEW file \in Seq(Names)
    PROVE  UrlFor(file) \in Seq(Pieces)
<1>1. CASE ~IsStrictPrefix(Root, file)
    BY <1>1, EndTyped, Zenon DEF UrlFor
<1>2. CASE IsStrictPrefix(Root, file)
    <2> DEFINE r == Len(Root)
               n == Len(file) - r
               url == [i \in 1 .. n |-> Encoded[file[i + r]]]
    <2>1. UrlFor(file) = url
        BY <1>2, Zenon DEF UrlFor
    <2>2. Len(file) \in Nat /\ r \in Nat /\ r <= Len(file)
          /\ \A i \in 1 .. Len(file) : file[i] \in Names
        <3>1. Root \in Seq(Names)
            BY MountsAssumption, Zenon
        <3>2. Len(Root) <= Len(file)
            BY <1>2, Zenon DEF IsStrictPrefix, IsPrefix
        <3> QED
            BY <3>1, <3>2
    <2> HIDE DEF r
    <2>3. n \in Nat /\ \A i \in 1 .. n : i + r \in 1 .. Len(file)
        BY <2>2
    <2>4. \A i \in 1 .. n : Encoded[file[i + r]] \in Pieces
        BY <2>2, <2>3, WrittenTyped, Zenon
    <2>5. \A i \in 1 .. n : url[i] \in Pieces
        BY <2>4, Zenon
    <2>6. url = [i \in 1 .. n |-> url[i]]
        BY Zenon
    <2> HIDE DEF n, url
    <2>7. [i \in 1 .. n |-> url[i]] \in Seq(Pieces)
        BY <2>3, <2>5, Tabled
    <2> QED
        BY <2>1, <2>6, <2>7, Zenon
<1> QED
    BY <1>1, <1>2

LEMMA HrefTyped ==
    ASSUME NEW entry \in Places, NEW target \in Seq(Pieces)
    PROVE  Front(Used(target)) \o Href(entry) \in Seq(Pieces)
<1>1. Last(entry) \in Names
    BY DEF Last, Places
<1>2. Encoded[Last(entry)] \in Pieces
    BY <1>1, WrittenTyped, Zenon
<1>3. <<Encoded[Last(entry)]>> \in Seq(Pieces)
    BY <1>2, OneElement, Zenon
<1>4. Href(entry) \in Seq(Pieces)
    <2>1. (IF entry \in Dirs THEN <<"">> ELSE <<>>) \in Seq(Pieces)
        BY EndTyped, Zenon
    <2> QED
        BY <1>3, <2>1, Joined, Zenon DEF Href
<1>5. Front(Used(target)) \in Seq(Pieces)
    BY UsedTyped DEF Front
<1> QED
    BY <1>4, <1>5, Joined, Zenon

LEMMA EntriesTyped ==
    ASSUME NEW dir PROVE Entries(dir) \subseteq Places
BY FilesAssumption DEF Entries, Places

\* a request that is still the same, on its way to an answer
LEMMA TargetStays ==
    ASSUME Targeted, request' = request, at \notin Resting, at' # "stat",
           at' = "done" => /\ reply'.status = 400 => Path = None
                           /\ reply'.status = 301 => Path # None,
           at' \in {"stream", "done"} => reply'.rows \subseteq Places
    PROVE  Targeted'
<1>1. Path' = Path
    BY Zenon DEF Path
<1>2. request'.target \in Seq(Pieces)
    BY Zenon DEF Targeted
<1> QED
    BY <1>1, <1>2 DEF Targeted

LEMMA RespondsTargeted ==
    ASSUME Targeted, request' = request, at \notin Resting, NEW status, NEW f, NEW text,
           Responds(status, f, text), status = 400 => Path = None,
           status = 301 => Path # None
    PROVE  Targeted'
<1>1. at' = "done" /\ reply'.status = status /\ reply'.rows = {}
    BY DEF Responds
<1> QED
    BY <1>1, TargetStays

LEMMA GoesTargeted ==
    ASSUME Targeted, request' = request, at \notin Resting, NEW stage, Goes(stage),
           stage \notin {"stat", "stream", "done"}
    PROVE  Targeted'
BY TargetStays DEF Goes

LEMMA RoutesTargeted ==
    ASSUME Targeted, Routes
    PROVE  Targeted'
<1>1. at \notin Resting /\ request' = request
    BY DEF Routes, Resting
<1>2. CASE RefusesMethod
    BY <1>1, <1>2, RespondsTargeted DEF RefusesMethod
<1>3. CASE RefusesTarget
    BY <1>1, <1>3, RespondsTargeted DEF RefusesTarget
<1>4. CASE SendsClient
    BY <1>1, <1>4, RespondsTargeted DEF SendsClient
<1>5. CASE Reserves
    BY <1>1, <1>5, RespondsTargeted DEF Reserves
<1>6. CASE Finds
    <2>1. at' = "stat" /\ Path # None /\ place' = Resolve(Path.names)
        BY <1>6 DEF Finds, Goes, Target
    <2>2. Path' = Path
        BY <1>1, Zenon DEF Path
    <2>3. request'.target \in Seq(Pieces)
        BY <1>1, Zenon DEF Targeted
    <2> QED
        BY <2>1, <2>2, <2>3 DEF Targeted
<1> QED
    BY <1>2, <1>3, <1>4, <1>5, <1>6 DEF Routes

LEMMA OpensReplies ==
    ASSUME Opens
    PROVE  /\ at' \in {"stream", "done"}
           /\ reply'.status \in {200, 206, 416} /\ reply'.rows = {}
<1>1. at' = "stream" \/ at' = "done"
    BY Zenon DEF Opens
<1> DEFINE total == size[place]
           range == ParseRange(request.range, total)
           long == range[2] - range[1] + 1
<1>2. \/ reply' = [status |-> 200, promised |-> total, file |-> place,
                   total |-> total, rows |-> {}]
      \/ reply' = [status |-> 206, promised |-> long, file |-> place,
                   total |-> total, rows |-> {}]
      \/ reply' = [Unanswered EXCEPT !.status = 416, !.total = total]
    BY Zenon DEF Opens
<1> HIDE DEF total, range, long
<1>3. reply'.status \in {200, 206, 416} /\ reply'.rows = {}
    <2>1. CASE reply' = [status |-> 200, promised |-> total, file |-> place,
                         total |-> total, rows |-> {}]
        BY <2>1
    <2>2. CASE reply' = [status |-> 206, promised |-> long, file |-> place,
                         total |-> total, rows |-> {}]
        BY <2>2
    <2>3. CASE reply' = [Unanswered EXCEPT !.status = 416, !.total = total]
        BY <2>3 DEF Unanswered
    <2> QED
        BY <1>2, <2>1, <2>2, <2>3
<1> QED
    BY <1>1, <1>3

LEMMA AnswersTargeted ==
    ASSUME Answering, Targeted, Answers
    PROVE  Targeted'
<1>1. CASE Stats
    <2>1. at \notin Resting /\ request' = request /\ Path # None
        BY <1>1 DEF Stats, Resting, Targeted
    <2>2. CASE Responds(301, None, <<>>)
        BY <2>1, <2>2, RespondsTargeted
    <2>3. CASE Goes("index")
        BY <2>1, <2>3, GoesTargeted
    <2>4. CASE Goes("send")
        BY <2>1, <2>4, GoesTargeted
    <2>5. CASE Goes("lost")
        BY <2>1, <2>5, GoesTargeted
    <2> QED
        BY <1>1, <2>2, <2>3, <2>4, <2>5 DEF Stats, Sends
<1>2. CASE StatsIndex
    <2>1. at \notin Resting /\ request' = request /\ (Goes("send") \/ Goes("list"))
        BY <1>2 DEF StatsIndex, Resting, Sends
    <2> QED
        BY <2>1, GoesTargeted
<1>3. CASE Lists
    <2>1. at \notin Resting /\ request' = request
        BY <1>3 DEF Lists, Resting
    <2>2. CASE /\ reply' = [Unanswered EXCEPT !.status = 200, !.promised = 1,
                                              !.rows = Entries(Target)]
               /\ at' = "done"
        <3>1. reply'.status = 200 /\ reply'.rows = Entries(Target)
            BY <2>2 DEF Unanswered
        <3> QED
            BY <2>1, <2>2, <3>1, EntriesTyped, TargetStays
    <2>3. CASE Goes("lost")
        BY <2>1, <2>3, GoesTargeted
    <2> QED
        BY <1>3, <2>2, <2>3 DEF Lists
<1>4. CASE Loses
    <2>1. at \notin Resting /\ request' = request
        BY <1>4 DEF Loses, Resting
    <2>2. CASE Goes("send")
        BY <2>1, <2>2, GoesTargeted
    <2>3. CASE Responds(404, None, Offsets(1))
        BY <2>1, <2>3, RespondsTargeted
    <2> QED
        BY <1>4, <2>2, <2>3 DEF Loses, Sends
<1>5. CASE SendsFile
    <2>1. at \notin Resting /\ request' = request /\ at = "send"
        BY <1>5 DEF SendsFile, Resting
    <2>2. CASE SendsText
        <3>1. \E text : Responds(200, place, text)
            BY <2>2 DEF SendsText
        <3> QED
            BY <2>1, <3>1, RespondsTargeted
    <2>3. CASE CannotRead
        <3>1. Goes(missing) /\ missing \in {"list", "lost", "gone"}
            BY <2>1, <2>3 DEF CannotRead, Answering, Underway
        <3> QED
            BY <2>1, <3>1, GoesTargeted
    <2>4. CASE Opens
        <3>1. /\ at' \in {"stream", "done"}
              /\ reply'.status \in {200, 206, 416} /\ reply'.rows = {}
            BY <2>4, OpensReplies
        <3> QED
            BY <2>1, <3>1, TargetStays
    <2> QED
        BY <1>5, <2>2, <2>3, <2>4 DEF SendsFile
<1>6. CASE Streams
    <2>1. at = "stream" /\ at \notin Resting /\ UNCHANGED <<request, reply>>
          /\ at' \in {"stream", "done"}
        BY <1>6 DEF Streams, Resting
    <2>2. reply.status \in {200, 206}
        BY <2>1 DEF Answering, Sending, Agrees
    <2>3. reply'.rows \subseteq Places
        BY <2>1 DEF Targeted
    <2> QED
        BY <2>1, <2>2, <2>3, TargetStays
<1> QED
    BY <1>1, <1>2, <1>3, <1>4, <1>5, <1>6, RoutesTargeted DEF Answers

\* a new request, or none
LEMMA FreshTargeted ==
    ASSUME (at' = "routing" /\ request'.target \in Seq(Pieces)) \/ at' \in Resting
    PROVE  Targeted'
BY DEF Targeted, Resting

LEMMA NextTargeted ==
    ASSUME Answering, Targeted, Next
    PROVE  Targeted'
<1>1. CASE Takes \/ TimesOut
    BY <1>1, FreshTargeted DEF Takes, TimesOut, Rests, Resting
<1>2. CASE Follows
    <2>1. Path # None /\ request.target \in Seq(Pieces)
        BY <1>2 DEF Follows, Targeted, Resting
    <2>2. Path.names \in Seq(Names)
        BY <2>1, RequestPathMeans, Zenon DEF Path
    <2>3. request'.target = Location(Path.names) /\ at' = "routing"
        BY <1>2 DEF Follows, Request
    <2> QED
        BY <2>2, <2>3, LocationTyped, FreshTargeted
<1>3. CASE Clicks
    <2>1. PICK entry \in reply.rows :
              request' = Request(request.method, Front(Used(request.target)) \o Href(entry),
                                 request.range, entry, "row")
        BY <1>3, Zenon DEF Clicks
    <2>2. at' = "routing" /\ at = "done"
        BY <1>3 DEF Clicks
    <2>3. entry \in Places /\ request.target \in Seq(Pieces)
        BY <2>2 DEF Targeted, Resting
    <2>4. request'.target = Front(Used(request.target)) \o Href(entry)
        BY <2>1 DEF Request
    <2> QED
        BY <2>2, <2>3, <2>4, HrefTyped, FreshTargeted
<1>4. CASE OpensFile
    <2>1. PICK f \in Files : Receive(Request("GET", UrlFor(f), NoRange, f, "open"))
        BY <1>4 DEF OpensFile
    <2>2. at' = "routing" /\ request'.target = UrlFor(f)
        BY <2>1 DEF Receive, Goes, Request
    <2>3. f \in Seq(Names)
        BY FilesAssumption
    <2> QED
        BY <2>2, <2>3, UrlForTyped, FreshTargeted
<1>5. CASE Asks
    <2>1. PICK r \in Asked : Receive(r)
        BY <1>5 DEF Asks
    <2>2. at' = "routing" /\ request' = r /\ r.target \in Seq(Pieces)
        BY <2>1, AskedAssumption DEF Receive, Goes, Asking
    <2> QED
        BY <2>2, FreshTargeted
<1>6. CASE Changes \/ Edits
    <2>1. UNCHANGED <<at, request, place, reply>>
        BY <1>6 DEF Changes, Edits, answer
    <2>2. Path' = Path
        BY <2>1, Zenon DEF Path
    <2> QED
        BY <2>1, <2>2, Zenon DEF Targeted
<1> QED
    BY <1>1, <1>2, <1>3, <1>4, <1>5, <1>6, AnswersTargeted DEF Next

---------------------------------------------------------------------------
(* Types *)

Marks == {ScriptMark} \cup 0 .. Longest
Wishes == Asking(Seq(Names) \cup {None}, Makers \cup {None})
Handles == [size : Sizes \cup {0}, linked : BOOLEAN]
PlacesOrNone == Seq(Names) \cup {None}
Turns == {None, "lost", "list", "gone"}

Typed ==
    /\ config \in Configs /\ shrunk \in BOOLEAN
    /\ IF at \in Resting THEN request = None ELSE request \in Wishes
    /\ place \in PlacesOrNone /\ (at \in Begun => place \in Seq(Names))
    /\ at = "done" /\ reply.status = 301 => place \in Seq(Names)
    /\ missing \in Turns
    /\ handle \in Handles
    /\ reply \in Replies /\ Range(body) \subseteq Marks

LEMMA LongestBounds ==
    /\ Longest \in Nat /\ 2 <= Longest
    /\ \A n \in Sizes \cup {1} : n \in Nat /\ n + 1 <= Longest
<1> DEFINE S == Sizes \cup {1}
<1>1. S \in SUBSET Nat /\ S # {} /\ IsFiniteSet(S)
    <2>1. IsFiniteSet(Sizes) /\ Sizes \subseteq Nat
        BY FilesAssumption
    <2>2. IsFiniteSet(Sizes \cup {1})
        BY <2>1, FS_AddElement, Zenon
    <2> QED
        BY <2>1, <2>2
<1>2. 1 \in S
    OBVIOUS
<1> HIDE DEF S
<1>3. Max(S) \in S /\ \A n \in S : n <= Max(S)
    BY <1>1, MaxIsOne
<1>4. Longest = Max(S) + 1
    BY Zenon DEF Longest, S
<1> QED
    BY <1>1, <1>2, <1>3, <1>4 DEF S

Fits(text) == Len(text) \in 0 .. Longest /\ Range(text) \subseteq Marks

LEMMA OffsetsFit ==
    ASSUME NEW n \in Sizes \cup {1}, NEW f
    PROVE  Fits(Html(f, Offsets(n))) /\ Fits(Offsets(1)) /\ Fits(<<>>)
<1>1. \A m \in Sizes \cup {1} : Fits(Offsets(m)) /\ Fits(Append(Offsets(m), ScriptMark))
    <2> TAKE m \in Sizes \cup {1}
    <2>1. m \in Nat /\ m + 1 <= Longest /\ Longest \in Nat
        BY LongestBounds
    <2> DEFINE s == Offsets(m)
               t == Append(s, ScriptMark)
    <2>2. /\ s \in Seq(Int) /\ Len(s) = m /\ \A i \in 1 .. m : s[i] = i - 1
          /\ t \in Seq(Int) /\ Len(t) = m + 1
        BY <2>1, OffsetsLong
    <2>3. \A i \in 1 .. m + 1 : i # m + 1 => t[i] = s[i]
        BY <2>1, <2>2
    <2>4. t[m + 1] = ScriptMark
        BY <2>1, <2>2
    <2> HIDE DEF s, t
    <2>5. \A i \in 1 .. m : i - 1 \in 0 .. Longest
        BY <2>1
    <2>6. \A i \in 1 .. Len(s) : s[i] \in Marks
        BY <2>2, <2>5 DEF Marks
    <2>7. \A i \in 1 .. Len(t) : t[i] \in Marks
        <3> TAKE i \in 1 .. Len(t)
        <3>1. CASE i = m + 1
            BY <2>4, <3>1 DEF Marks
        <3>2. CASE i # m + 1
            <4>1. i \in 1 .. Len(s) /\ i \in 1 .. m + 1
                BY <2>1, <2>2, <3>2
            <4> QED
                BY <2>3, <2>6, <3>2, <4>1, Zenon
        <3> QED
            BY <3>1, <3>2
    <2>8. Range(s) \subseteq Marks /\ Range(t) \subseteq Marks
        <3>1. DOMAIN s = 1 .. Len(s) /\ DOMAIN t = 1 .. Len(t)
            BY <2>2
        <3> QED
            BY <2>6, <2>7, <3>1, Zenon DEF Range
    <2>9. Len(s) \in 0 .. Longest /\ Len(t) \in 0 .. Longest
        BY <2>1, <2>2
    <2> QED
        BY <2>8, <2>9, Zenon DEF Fits, s, t
<1>2. Fits(<<>>)
    BY LongestBounds DEF Fits, Range
<1> QED
    BY <1>1, <1>2, Zenon DEF Html

\* a request that is still the same
LEMMA TypedStays ==
    ASSUME Typed, at \notin Resting, at' \notin Resting, request' = request, config' = config,
           shrunk' \in BOOLEAN, place' \in PlacesOrNone, at' \in Begun => place' \in Seq(Names),
           at' = "done" /\ reply'.status = 301 => place' \in Seq(Names),
           missing' \in Turns, handle' \in Handles, reply' \in Replies,
           Range(body') \subseteq Marks
    PROVE  Typed'
<1>1. request' \in Wishes /\ config' \in Configs
    BY Zenon DEF Typed
<1> QED
    BY <1>1, Zenon DEF Typed, Wishes, Asking, Marks, Handles, PlacesOrNone, Turns, Replies, Longest

LEMMA TypedResponds ==
    ASSUME Typed, at \notin Resting, NEW status \in {200, 301, 400, 404, 405},
           NEW f \in Files \cup {None}, NEW text, Responds(status, f, text), Fits(text),
           UNCHANGED <<config, request, place, missing, handle, shrunk>>,
           status = 301 => place \in Seq(Names)
    PROVE  Typed'
<1>1. /\ at' = "done" /\ at' \notin Resting /\ at' \notin Begun
      /\ reply' = [status |-> status, promised |-> Len(text), file |-> f,
                   total |-> Len(text), rows |-> {}]
      /\ body' = text \/ body' = <<>>
    BY DEF Responds, Resting, Begun
<1>2. Len(text) \in 0 .. Longest /\ Range(text) \subseteq Marks /\ Range(<<>>) \subseteq Marks
    BY DEF Fits, Range
<1>3. reply' \in Replies /\ reply'.status = status
    BY <1>1, <1>2 DEF Replies
<1>4. Range(body') \subseteq Marks
    BY <1>1, <1>2, Zenon
<1>5. /\ shrunk' \in BOOLEAN /\ place' = place /\ place' \in PlacesOrNone
      /\ missing' \in Turns /\ handle' \in Handles
    BY Zenon DEF Typed
<1> QED
    BY <1>1, <1>3, <1>4, <1>5, TypedStays

LEMMA TypedGoes ==
    ASSUME Typed, at \notin Resting, NEW stage \in Begun, Goes(stage),
           UNCHANGED <<config, request, handle, shrunk>>,
           place' \in Seq(Names), missing' \in Turns
    PROVE  Typed'
<1>1. /\ at' = stage /\ at' \notin Resting /\ at' # "done"
      /\ reply' = reply /\ body' = body
    BY DEF Goes, Resting, Begun
<1>2. /\ shrunk' \in BOOLEAN /\ place' \in PlacesOrNone /\ handle' \in Handles
      /\ reply' \in Replies /\ Range(body') \subseteq Marks
    BY <1>1 DEF Typed, PlacesOrNone
<1> QED
    BY <1>1, <1>2, TypedStays

LEMMA PathsAre == /\ Dirs \subseteq Seq(Names) /\ Files \subseteq Seq(Names)
                  /\ \A d \in Dirs : Append(d, Index) \in Seq(Names)
<1>1. Dirs \cup Files \subseteq Seq(Names) /\ Index \in Names
    BY FilesAssumption, Zenon
<1>2. \A d \in Seq(Names) : Append(d, Index) \in Seq(Names)
    BY <1>1
<1> QED
    BY <1>1, <1>2, Zenon

LEMMA RoutesTyped ==
    ASSUME Targeted, Typed, Routes
    PROVE  Typed'
<1>1. /\ at \notin Resting /\ UNCHANGED <<disk, request, missing, handle, shrunk>>
      /\ UNCHANGED config
    BY DEF Routes, Resting, disk
<1>2. Fits(Offsets(1)) /\ None \in Files \cup {None}
    BY OffsetsFit, Zenon
<1>3. CASE RefusesMethod
    BY <1>1, <1>2, <1>3, TypedResponds DEF RefusesMethod
<1>4. CASE RefusesTarget
    BY <1>1, <1>2, <1>4, TypedResponds DEF RefusesTarget
<1>5. CASE SendsClient
    BY <1>1, <1>2, <1>5, TypedResponds DEF SendsClient
<1>6. CASE Reserves
    BY <1>1, <1>2, <1>6, TypedResponds DEF Reserves
<1>7. CASE Finds
    <2>1. Path # None /\ place' = Resolve(Path.names) /\ Goes("stat")
        BY <1>7, Zenon DEF Finds, Target
    <2>2. request.target \in Seq(Pieces)
        BY <1>1, Zenon DEF Targeted
    <2>3. Path.names \in Seq(Names)
        BY <2>1, <2>2, RequestPathMeans, Zenon DEF Path
    <2>4. place' \in Seq(Names)
        BY <2>1, <2>3, ResolveMeans, Zenon
    <2>5. missing' \in Turns /\ "stat" \in Begun
        BY <1>1 DEF Typed, Begun
    <2> QED
        BY <1>1, <2>1, <2>4, <2>5, TypedGoes
<1> QED
    BY <1>3, <1>4, <1>5, <1>6, <1>7 DEF Routes

\* on to another stage, with the same place and turn or those of a file to be sent
LEMMA TypedOn ==
    ASSUME Typed, at \in Begun, UNCHANGED <<config, request, handle, shrunk>>,
           NEW stage \in Begun, Goes(stage), UNCHANGED <<place, missing>>
    PROVE  Typed'
<1>1. at \notin Resting
    BY DEF Resting, Begun
<1>2. place \in Seq(Names) /\ missing \in Turns
    BY DEF Typed
<1> QED
    BY <1>1, <1>2, TypedGoes

LEMMA TypedSends ==
    ASSUME Typed, at \in Begun, UNCHANGED <<config, request, handle, shrunk>>,
           NEW file \in Seq(Names), NEW turn \in Turns, Sends(file, turn)
    PROVE  Typed'
<1>1. at \notin Resting /\ "send" \in Begun
    BY DEF Resting, Begun
<1> QED
    BY <1>1, TypedGoes DEF Sends

LEMMA StagesTyped ==
    ASSUME Answering, Typed, Stats \/ StatsIndex \/ Lists \/ Loses
    PROVE  Typed'
<1>1. /\ at \in Begun /\ at \notin Resting /\ UNCHANGED <<config, request, handle, shrunk>>
      /\ {"index", "list", "lost", "send"} \subseteq Begun
      /\ {"lost", "list", "gone"} \subseteq Turns
    BY DEF Stats, StatsIndex, Lists, Loses, disk, Begun, Resting, Turns
<1>2. place \in Seq(Names) /\ missing \in Turns /\ handle \in Handles /\ shrunk \in BOOLEAN
    BY <1>1 DEF Typed
<1>3. Fits(Offsets(1)) /\ Fits(<<>>) /\ None \in Files \cup {None}
    BY OffsetsFit, Zenon
<1>4. CASE Stats
    <2>1. CASE Responds(301, None, <<>>) /\ UNCHANGED <<place, missing>>
        <3>1. UNCHANGED <<config, request, place, missing, handle, shrunk>>
            BY <1>1, <2>1
        <3>2. Responds(301, None, <<>>) /\ Fits(<<>>) /\ place \in Seq(Names)
            BY <1>2, <1>3, <2>1
        <3>3. at \notin Resting /\ None \in Files \cup {None}
            BY <1>1
        <3> QED
            BY ONLY Typed, <3>1, <3>2, <3>3, TypedResponds
    <2>2. CASE Goes("index") /\ UNCHANGED <<place, missing>>
        BY <1>1, <2>2, TypedOn
    <2>3. CASE Sends(place, "lost")
        BY <1>1, <1>2, <2>3, TypedSends
    <2>4. CASE Goes("lost") /\ UNCHANGED <<place, missing>>
        BY <1>1, <2>4, TypedOn
    <2> QED
        BY <1>4, <2>1, <2>2, <2>3, <2>4, Zenon DEF Stats
<1>5. CASE StatsIndex
    <2>1. place \in Dirs
        BY <1>5 DEF StatsIndex, Answering, Underway
    <2>2. CASE Sends(Append(place, Index), "list")
        BY <1>1, <2>1, <2>2, PathsAre, TypedSends
    <2>3. CASE Goes("list") /\ UNCHANGED <<place, missing>>
        BY <1>1, <2>3, TypedOn
    <2> QED
        BY <1>5, <2>2, <2>3, Zenon DEF StatsIndex
<1>6. CASE Lists
    <2>1. CASE /\ reply' = [Unanswered EXCEPT !.status = 200, !.promised = 1,
                                              !.rows = Entries(Target)]
               /\ body' = IF request.method = "GET" THEN Offsets(1) ELSE <<>>
               /\ at' = "done"
        <3>1. reply' = [status |-> 200, promised |-> 1, file |-> None, total |-> 0,
                        rows |-> Entries(Target)]
            BY <2>1 DEF Unanswered
        <3>2. Entries(Target) \in SUBSET (Dirs \cup Files)
            BY Zenon DEF Entries
        <3>3. reply' \in Replies /\ reply'.status = 200
            BY <3>1, <3>2, LongestBounds DEF Replies
        <3>4. Range(body') \subseteq Marks
            BY <1>3, <2>1, Zenon DEF Fits
        <3>5. at' \notin Resting /\ at' \notin Begun
            BY <2>1 DEF Resting, Begun
        <3>6. UNCHANGED <<place, missing>> /\ place \in PlacesOrNone
            BY <1>2, <1>6 DEF Lists, PlacesOrNone
        <3> QED
            BY <1>1, <1>2, <3>3, <3>4, <3>5, <3>6, TypedStays
    <2>2. CASE Goes("lost")
        BY <1>1, <1>6, <2>2, TypedOn DEF Lists
    <2> QED
        BY <1>6, <2>1, <2>2, Zenon DEF Lists
<1>7. CASE Loses
    <2>1. Append(Root, Index) \in Seq(Names)
        BY PathsAre, FilesAssumption, Zenon
    <2>2. CASE Sends(Append(Root, Index), "gone")
        BY <1>1, <2>1, <2>2, TypedSends
    <2>3. CASE Responds(404, None, Offsets(1)) /\ UNCHANGED <<place, missing>>
        <3>1. UNCHANGED <<config, request, place, missing, handle, shrunk>>
            BY <1>1, <2>3
        <3>2. Responds(404, None, Offsets(1)) /\ Fits(Offsets(1))
            BY <1>3, <2>3
        <3>3. at \notin Resting /\ None \in Files \cup {None}
            BY <1>1
        <3> QED
            BY ONLY Typed, <3>1, <3>2, <3>3, TypedResponds
    <2> QED
        BY <1>7, <2>2, <2>3, Zenon DEF Loses
<1> QED
    BY <1>4, <1>5, <1>6, <1>7

LEMMA SizesFit ==
    ASSUME Disked, NEW f \in Files
    PROVE  /\ size[f] # None => size[f] \in Sizes
           /\ held[f] # None => held[f] = 1
BY Zenon DEF Disked

LEMMA OpensTyped ==
    ASSUME Answering, Typed, at = "send", Opens, UNCHANGED <<disk, request, place, missing>>
    PROVE  Typed'
<1> DEFINE total == size[place]
           range == ParseRange(request.range, total)
           long == range[2] - range[1] + 1
<1>1. /\ place \in Files /\ Disked /\ body = <<>>
      /\ request.range \in SomeRange \cup {NoRange}
      /\ at \notin Resting /\ config' = config
    BY DEF Answering, Underway, Begun, Resting, disk
<1>2. total \in Sizes /\ total \in Nat /\ total <= Longest /\ Longest \in Nat
    <2>1. size[place] # None
        BY Zenon DEF Opens
    <2>2. total \in Sizes
        BY <1>1, <2>1, SizesFit, Zenon
    <2> HIDE DEF total
    <2>3. total \in Nat /\ total + 1 <= Longest /\ Longest \in Nat
        BY <2>2, LongestBounds
    <2> QED
        BY <2>2, <2>3
<1>3. \/ /\ reply' = [status |-> 200, promised |-> total, file |-> place,
                      total |-> total, rows |-> {}]
         /\ handle' = [size |-> total, linked |-> TRUE]
      \/ /\ reply' = [status |-> 206, promised |-> long, file |-> place,
                      total |-> total, rows |-> {}]
         /\ handle' = [size |-> total, linked |-> TRUE]
         /\ request.range # NoRange /\ range # None
      \/ /\ reply' = [Unanswered EXCEPT !.status = 416, !.total = total]
         /\ handle' = handle
    BY Zenon DEF Opens
<1>4. body' = body /\ shrunk' = FALSE /\ (at' = "stream" \/ at' = "done")
    BY Zenon DEF Opens
<1>5. request.range # NoRange /\ range # None => long \in 0 .. Longest
    <2> SUFFICES ASSUME request.range # NoRange, range # None
                 PROVE  long \in 0 .. Longest
        OBVIOUS
    <2>1. request.range \in SomeRange
        BY <1>1
    <2> HIDE DEF total
    <2>2. PICK first, last \in Nat : /\ ParseRange(request.range, total) = <<first, last>>
                                     /\ first <= last /\ last < total
        BY <1>2, <2>1, RangeParsed
    <2>3. long = last - first + 1
        BY <2>2
    <2> HIDE DEF long, range
    <2> QED
        BY <1>2, <2>2, <2>3
<1> HIDE DEF total, range, long
<1>6. handle \in Handles
    BY DEF Typed
<1>7. /\ reply' \in Replies /\ reply'.status \in {200, 206, 416} /\ handle' \in Handles
    <2>1. CASE /\ reply' = [status |-> 200, promised |-> total, file |-> place,
                            total |-> total, rows |-> {}]
               /\ handle' = [size |-> total, linked |-> TRUE]
        BY <1>1, <1>2, <2>1 DEF Replies, Handles
    <2>2. CASE /\ reply' = [status |-> 206, promised |-> long, file |-> place,
                            total |-> total, rows |-> {}]
               /\ handle' = [size |-> total, linked |-> TRUE]
               /\ request.range # NoRange /\ range # None
        BY <1>1, <1>2, <1>5, <2>2 DEF Replies, Handles
    <2>3. CASE /\ reply' = [Unanswered EXCEPT !.status = 416, !.total = total]
               /\ handle' = handle
        <3>1. reply' = [status |-> 416, promised |-> 0, file |-> None, total |-> total,
                        rows |-> {}]
            BY <2>3 DEF Unanswered
        <3> QED
            BY <1>2, <1>6, <2>3, <3>1 DEF Replies
    <2> QED
        BY <1>3, <2>1, <2>2, <2>3
<1>8. Range(body') \subseteq Marks
    BY <1>1, <1>4, OffsetsFit, Zenon DEF Fits
<1>9. /\ at' \notin Resting /\ at' \notin Begun
      /\ place' = place /\ place' \in PlacesOrNone /\ missing' \in Turns
    BY <1>4 DEF Resting, Begun, Typed
<1>10. request' = request /\ shrunk' \in BOOLEAN /\ ~(reply'.status = 301)
    <2>1. request' = request /\ shrunk' \in BOOLEAN
        BY <1>4
    <2>2. reply'.status \in {200, 206, 416} => ~(reply'.status = 301)
        OBVIOUS
    <2> QED
        BY <1>7, <2>1, <2>2, Zenon
<1> QED
    BY <1>1, <1>7, <1>8, <1>9, <1>10, TypedStays

LEMMA SendsFileTyped ==
    ASSUME Answering, Typed, SendsFile
    PROVE  Typed'
<1>1. /\ at = "send" /\ UNCHANGED <<disk, request, place, missing>>
      /\ at \in Begun /\ at \notin Resting /\ config' = config
      /\ place \in Files /\ Disked
    BY DEF SendsFile, Begun, Resting, disk, Answering, Underway
<1>2. CASE SendsText
    <2>1. UNCHANGED <<config, request, place, missing, handle, shrunk>>
        BY <1>1, <1>2 DEF SendsText
    <2>2. CASE Overlaid /\ Responds(200, place, Html(place, Offsets(held[place])))
        <3>1. held[place] = 1
            BY <1>1, <2>2, SizesFit DEF Overlaid
        <3>2. Fits(Html(place, Offsets(held[place])))
            BY <3>1, OffsetsFit
        <3> DEFINE text == Html(place, Offsets(held[place]))
        <3>3. Responds(200, place, text) /\ Fits(text) /\ place \in Files \cup {None}
            BY <1>1, <2>2, <3>2
        <3> HIDE DEF text
        <3> QED
            BY <1>1, <2>1, <3>3, TypedResponds
    <2>3. CASE size[place] # None /\ Responds(200, place, Html(place, Offsets(size[place])))
        <3>1. size[place] \in Sizes
            BY <1>1, <2>3, SizesFit
        <3>2. Fits(Html(place, Offsets(size[place])))
            BY <3>1, OffsetsFit
        <3> DEFINE text == Html(place, Offsets(size[place]))
        <3>3. Responds(200, place, text) /\ Fits(text) /\ place \in Files \cup {None}
            BY <1>1, <2>3, <3>2
        <3> HIDE DEF text
        <3> QED
            BY <1>1, <2>1, <3>3, TypedResponds
    <2> QED
        BY <1>2, <2>2, <2>3, Zenon DEF SendsText
<1>3. CASE CannotRead
    <2>1. missing \in Begun /\ Goes(missing) /\ UNCHANGED <<handle, shrunk>>
        BY <1>1, <1>3 DEF CannotRead, Answering, Underway, Begun
    <2> QED
        BY <1>1, <2>1, TypedOn
<1> QED
    BY <1>1, <1>2, <1>3, OpensTyped DEF SendsFile

LEMMA StreamsTyped ==
    ASSUME Answering, Typed, Streams
    PROVE  Typed'
<1>1. /\ at = "stream" /\ at \notin Resting
      /\ UNCHANGED <<config, request, place, missing, reply, shrunk>>
    BY DEF Streams, Resting, disk
<1>2. \/ at' = at /\ handle' = handle
      \/ at' = "done" /\ handle' = Nowhere /\ body' = body
    BY Zenon DEF Streams
<1>3. reply \in Replies /\ reply.status \in {200, 206} /\ handle \in Handles
    BY <1>1 DEF Answering, Sending, Agrees, Typed
<1>4. handle' \in Handles
    <2>1. Nowhere \in Handles
        BY DEF Nowhere, Handles
    <2> QED
        BY <1>2, <1>3, <2>1, Zenon
<1>5. Range(body') \subseteq Marks
    <2>1. CASE body' = body
        BY <2>1, Zenon DEF Typed
    <2>2. CASE at' = "stream"
        <3>1. Answering'
            BY StreamsKeeps
        <3> DEFINE first == First(request.range, reply)
        <3>2. /\ Agrees(request.range, reply)
              /\ body' \in Seq(Nat) /\ Len(body') <= reply.promised
              /\ \A i \in 1 .. Len(body') : body'[i] = first + i - 1
            BY <1>1, <2>2, <3>1 DEF Answering, Sending
        <3>3. first \in Nat /\ reply.promised \in Nat /\ first + reply.promised <= reply.total
            BY <3>2 DEF Agrees
        <3>4. reply.total \in 0 .. Longest /\ Longest \in Nat
            BY <1>3, LongestBounds DEF Replies
        <3> HIDE DEF first
        <3>5. \A i \in 1 .. Len(body') : body'[i] \in 0 .. Longest
            BY <3>2, <3>3, <3>4
        <3>6. DOMAIN body' = 1 .. Len(body')
            BY <3>2
        <3> QED
            BY <3>5, <3>6, Zenon DEF Range, Marks
    <2> QED
        BY <1>1, <1>2, <2>1, <2>2
<1>6. /\ at' \notin Resting /\ at' \notin Begun /\ shrunk' \in BOOLEAN
      /\ place' \in PlacesOrNone /\ missing' \in Turns
    BY <1>1, <1>2 DEF Resting, Begun, Typed
<1> QED
    BY <1>1, <1>3, <1>4, <1>5, <1>6, TypedStays

\* between requests nothing is left of one
LEMMA RestsTyped ==
    ASSUME Typed, NEW stage \in {"idle", "closed"}, Rests(stage)
    PROVE  Typed'
<1>1. /\ at' = stage /\ at' \in Resting /\ at' \notin Begun /\ at' # "done"
      /\ request' = None /\ place' = None /\ missing' = None
      /\ handle' = Nowhere /\ reply' = Unanswered /\ body' = <<>> /\ shrunk' = FALSE
      /\ config' = config
    BY DEF Rests, Resting, Begun, disk
<1>2. handle' \in Handles /\ reply' \in Replies
    BY <1>1, LongestBounds DEF Nowhere, Handles, Unanswered, Replies
<1>3. Range(body') \subseteq Marks
    BY <1>1 DEF Range
<1>4. /\ config' \in Configs /\ shrunk' \in BOOLEAN
      /\ place' \in PlacesOrNone /\ missing' \in Turns
    BY <1>1 DEF Typed, PlacesOrNone, Turns
<1>5. at' \in Resting /\ request' = None /\ ~(at' \in Begun) /\ ~(at' = "done")
    BY <1>1
<1> QED
    BY <1>2, <1>3, <1>4, <1>5, Zenon DEF Typed, Wishes, Asking, Marks, Handles,
                                         PlacesOrNone, Turns, Replies, Longest

LEMMA TypedAlike ==
    ASSUME Typed, UNCHANGED <<config, request, place, missing, handle, reply, body, shrunk>>,
           at' \in Resting <=> at \in Resting, at' \in Begun <=> at \in Begun,
           at' = "done" <=> at = "done"
    PROVE  Typed'
<1>1. /\ config' \in Configs /\ shrunk' \in BOOLEAN /\ place' \in PlacesOrNone
      /\ missing' \in Turns /\ handle' \in Handles
      /\ reply' \in Replies /\ Range(body') \subseteq Marks
    BY Zenon DEF Typed
<1>2. /\ at' \in Begun => place' \in Seq(Names)
      /\ at' = "done" /\ reply'.status = 301 => place' \in Seq(Names)
    BY Zenon DEF Typed
<1>3. IF at' \in Resting THEN request' = None ELSE request' \in Wishes
    BY Zenon DEF Typed
<1> QED
    BY <1>1, <1>2, <1>3, Zenon DEF Typed, Wishes, Asking, Marks, Handles, PlacesOrNone, Turns,
                                   Replies, Longest

\* a request that has just come
LEMMA FreshTyped ==
    ASSUME Typed, at' = "routing", request' \in Wishes, config' = config, shrunk' \in BOOLEAN,
           UNCHANGED <<place, missing, handle>>, reply' \in Replies, Range(body') \subseteq Marks
    PROVE  Typed'
<1>1. at' \notin Resting /\ at' \notin Begun /\ at' # "done"
    BY DEF Resting, Begun
<1>2. /\ config' \in Configs /\ place' \in PlacesOrNone /\ missing' \in Turns
      /\ handle' \in Handles
    BY Zenon DEF Typed
<1> QED
    BY <1>1, <1>2, Zenon DEF Typed, Wishes, Asking, Marks, Handles, PlacesOrNone, Turns,
                             Replies, Longest

LEMMA RequestTyped ==
    ASSUME NEW method \in Methods, NEW target \in Seq(Pieces),
           NEW range \in SomeRange \cup {NoRange}, NEW of \in PlacesOrNone,
           NEW via \in Makers \cup {None}
    PROVE  Request(method, target, range, of, via) \in Wishes
BY DEF Request, Wishes, Asking, PlacesOrNone

LEMMA ReceiveTyped ==
    ASSUME Answering, Typed, NEW r \in Wishes, Receive(r)
    PROVE  Typed'
<1>1. /\ at' = "routing" /\ request' = r /\ config' = config /\ shrunk' = FALSE
      /\ UNCHANGED <<place, missing, handle, reply, body>>
    BY DEF Receive, Goes, disk
<1>2. reply' \in Replies /\ Range(body') \subseteq Marks
    BY <1>1 DEF Typed
<1> QED
    BY <1>1, <1>2, FreshTyped

LEMMA LinksTyped ==
    ASSUME Answering, Targeted, Typed, Follows \/ Clicks
    PROVE  Typed'
<1>1. /\ at = "done" /\ at \notin Resting
      /\ UNCHANGED <<config, place, missing, handle, shrunk>>
      /\ at' = "routing" /\ reply' = Unanswered
    BY DEF Follows, Clicks, Resting, disk
<1>2. /\ request \in Wishes /\ request.method \in Methods
      /\ request.range \in SomeRange \cup {NoRange} /\ request.target \in Seq(Pieces)
    <2>1. request \in Wishes
        BY <1>1, Zenon DEF Typed
    <2> QED
        BY <2>1 DEF Wishes, Asking
<1>3. reply' \in Replies
    BY <1>1, LongestBounds DEF Unanswered, Replies
<1>4. Range(body') \subseteq Marks
    <2>1. body' = body \/ body' = <<>>
        BY DEF Follows, Clicks
    <2>2. Range(body) \subseteq Marks /\ Range(<<>>) \subseteq Marks
        BY DEF Typed, Range
    <2> QED
        BY <2>1, <2>2, Zenon
<1>5. request' \in Wishes
    <2>1. CASE Follows
        <3>1. Path # None /\ reply.status = 301
            BY <2>1 DEF Follows, Targeted
        <3>2. place \in PlacesOrNone
            BY <1>1, <3>1, Zenon DEF Typed
        <3>3. Path.names \in Seq(Names)
            BY <1>2, <3>1, RequestPathMeans, Zenon DEF Path
        <3>4. Location(Path.names) \in Seq(Pieces)
            BY <3>3, LocationTyped
        <3>5. request' = Request(request.method, Location(Path.names), request.range,
                                 place, "redirect")
            BY <2>1, Zenon DEF Follows
        <3>6. "redirect" \in Makers \cup {None}
            BY DEF Makers
        <3> QED
            BY <1>2, <3>2, <3>4, <3>5, <3>6, RequestTyped, Zenon
    <2>2. CASE Clicks
        <3>1. PICK entry \in reply.rows :
                  request' = Request(request.method, Front(Used(request.target)) \o Href(entry),
                                     request.range, entry, "row")
            BY <2>2, Zenon DEF Clicks
        <3>2. entry \in Places
            BY <1>1, <3>1 DEF Targeted
        <3>3. entry \in PlacesOrNone
            BY <3>2 DEF Places, PlacesOrNone
        <3>4. Front(Used(request.target)) \o Href(entry) \in Seq(Pieces)
            BY <1>2, <3>2, HrefTyped
        <3>5. "row" \in Makers \cup {None}
            BY DEF Makers
        <3> QED
            BY <1>2, <3>1, <3>3, <3>4, <3>5, RequestTyped, Zenon
    <2> QED
        BY <2>1, <2>2
<1>6. shrunk' \in BOOLEAN
    BY <1>1 DEF Typed
<1> QED
    BY <1>1, <1>3, <1>4, <1>5, <1>6, FreshTyped

LEMMA DiskTyped ==
    ASSUME Typed, Changes \/ Edits
    PROVE  Typed'
<1>1. UNCHANGED <<config, at, request, place, missing, reply, body>>
    BY DEF Changes, Edits, answer
<1>2. handle' \in Handles /\ shrunk' \in BOOLEAN
    <2>1. handle \in Handles /\ shrunk \in BOOLEAN
        BY DEF Typed
    <2>2. CASE Changes
        <3>1. PICK f \in Restless, n \in Sizes \cup {None} :
                  LET open == (at = "stream") /\ f = place /\ handle.linked
                  IN /\ handle' = CASE open /\ n = None -> [handle EXCEPT !.linked = FALSE]
                                    [] open /\ n # None -> [handle EXCEPT !.size = n]
                                    [] OTHER -> handle
                     /\ shrunk' = (shrunk \/ (open /\ n # None /\ n < reply.total))
            BY <2>2 DEF Changes
        <3>2. shrunk' \in BOOLEAN
            BY <3>1, Zenon
        <3> DEFINE open == (at = "stream") /\ f = place /\ handle.linked
        <3>3. CASE open /\ n = None
            BY <2>1, <3>1, <3>2, <3>3 DEF Handles
        <3>4. CASE open /\ n # None
            BY <2>1, <3>1, <3>2, <3>4 DEF Handles
        <3>5. CASE ~open
            BY <2>1, <3>1, <3>2, <3>5 DEF Handles
        <3> QED
            BY <3>3, <3>4, <3>5
    <2>3. CASE Edits
        BY <2>1, <2>3 DEF Edits, answer
    <2> QED
        BY <2>2, <2>3
<1>3. /\ config' \in Configs /\ place' \in PlacesOrNone /\ missing' \in Turns
      /\ reply' \in Replies /\ Range(body') \subseteq Marks
    BY <1>1, Zenon DEF Typed
<1>4. (at' \in Begun => place' \in Seq(Names))
      /\ (at' = "done" /\ reply'.status = 301 => place' \in Seq(Names))
    BY <1>1, Zenon DEF Typed
<1>5. IF at' \in Resting THEN request' = None ELSE request' \in Wishes
    BY <1>1, Zenon DEF Typed
<1> QED
    BY <1>2, <1>3, <1>4, <1>5, Zenon DEF Typed, Wishes, Asking, Marks, Handles, PlacesOrNone,
                                         Turns, Replies, Longest

LEMMA NextTyped ==
    ASSUME Answering, Targeted, Typed, Next
    PROVE  Typed'
<1>1. CASE Answers
    BY <1>1, RoutesTyped, StagesTyped, SendsFileTyped, StreamsTyped DEF Answers
<1>2. CASE Takes \/ TimesOut
    BY <1>2, RestsTyped DEF Takes, TimesOut
<1>3. CASE OpensFile
    <2>1. PICK f \in Files : Receive(Request("GET", UrlFor(f), NoRange, f, "open"))
        BY <1>3 DEF OpensFile
    <2>2. /\ "GET" \in Methods /\ "open" \in Makers \cup {None}
          /\ NoRange \in SomeRange \cup {NoRange} /\ f \in PlacesOrNone /\ f \in Seq(Names)
        BY PathsAre DEF PlacesOrNone, Methods, Makers
    <2>3. UrlFor(f) \in Seq(Pieces)
        BY <2>2, UrlForTyped
    <2>4. Request("GET", UrlFor(f), NoRange, f, "open") \in Wishes
        BY <2>2, <2>3, RequestTyped, Zenon
    <2> QED
        BY <2>1, <2>4, ReceiveTyped, Zenon
<1>4. CASE Asks
    <2>1. PICK r \in Asked : Receive(r)
        BY <1>4 DEF Asks
    <2>2. r \in Wishes
        BY AskedAssumption DEF Asking, Wishes
    <2> QED
        BY <2>1, <2>2, ReceiveTyped, Zenon
<1> QED
    BY <1>1, <1>2, <1>3, <1>4, LinksTyped, DiskTyped DEF Next

---------------------------------------------------------------------------
(* Where paths and links lead *)

LEMMA Ordinary ==
    ASSUME NEW n \in Names
    PROVE  /\ n \in Segments /\ n # "" /\ n \notin {"", ".", ".."} /\ n \notin Bad
           /\ \A names : names # None => Taken(names, n) = Append(names, n)
<1>1. Names \cap (Bad \cup {"", ".", ".."}) = {} /\ n \in Segments
    BY PiecesAssumption, Zenon DEF Segments
<1>2. n # "" /\ n # "." /\ n # ".." /\ n \notin Bad
    BY <1>1
<1> QED
    BY <1>1, <1>2 DEF Taken

\* the names so far are the same whatever segment comes next
LEMMA TakingGrows ==
    ASSUME NEW segments \in Seq(Segments), NEW segment \in Segments
    PROVE  Taking(Append(segments, segment)) = Taken(Taking(segments), segment)
<1> DEFINE more == Append(segments, segment)
           n == Len(segments)
<1>1. /\ more \in Seq(Segments) /\ n \in Nat /\ Len(more) = n + 1 /\ more[n + 1] = segment
      /\ \A i \in 1 .. n : more[i] = segments[i]
    OBVIOUS
<1> HIDE DEF more, n
<1>2. PICK rest : IsLeft(rest, segments) /\ Taking(segments) = rest[n]
    BY TakingSpelled, Zenon DEF n
<1>3. PICK after : IsLeft(after, more) /\ Taking(more) = after[Len(more)]
    BY <1>1, TakingSpelled, Zenon
<1>4. rest[0] = <<>> /\ \A m \in 1 .. n : rest[m] = Taken(rest[m - 1], segments[m])
    BY <1>2, LeftSteps, Zenon DEF n
<1>5. after[0] = <<>> /\ \A m \in 1 .. n + 1 : after[m] = Taken(after[m - 1], more[m])
    BY <1>1, <1>3, LeftSteps
<1> DEFINE T == {m \in Nat : m <= n => after[m] = rest[m]}
<1>6. 0 \in T
    BY <1>4, <1>5
<1>7. ASSUME NEW m \in Nat, m \in T
      PROVE  m + 1 \in T
    <2> DEFINE k == m + 1
    <2> SUFFICES ASSUME k <= n
                 PROVE  after[k] = rest[k]
        OBVIOUS
    <2>1. k \in 1 .. n /\ k \in 1 .. n + 1 /\ k - 1 = m /\ m <= n
        BY <1>1
    <2>2. after[m] = rest[m]
        BY <1>7, <2>1
    <2> HIDE DEF k
    <2>3. after[k] = Taken(after[m], more[k]) /\ rest[k] = Taken(rest[m], segments[k])
          /\ more[k] = segments[k]
        BY <1>1, <1>4, <1>5, <2>1
    <2> QED
        BY <2>2, <2>3
<1>8. after[n] = rest[n]
    <2> HIDE DEF T
    <2>1. n \in T
        BY <1>1, <1>6, <1>7, Counting
    <2> QED
        BY <1>1, <2>1 DEF T
<1> DEFINE k == n + 1
<1>9. k \in 1 .. n + 1 /\ k - 1 = n /\ Len(more) = k /\ more[k] = segment
    BY <1>1
<1> HIDE DEF k
<1>10. after[k] = Taken(after[n], segment)
    BY <1>5, <1>9
<1> QED
    BY <1>2, <1>3, <1>8, <1>9, <1>10 DEF more

LEMMA TakingNothing == Taking(<<>>) = <<>>
<1>1. <<>> \in Seq(Segments) /\ Len(<<>>) = 0
    OBVIOUS
<1>2. PICK rest : IsLeft(rest, <<>>) /\ Taking(<<>>) = rest[Len(<<>>)]
    BY <1>1, TakingSpelled, Zenon
<1>3. rest[0] = <<>>
    BY <1>1, <1>2, LeftSteps, Zenon
<1> QED
    BY <1>1, <1>2, <1>3

LEMMA NamesNotNone ==
    ASSUME NEW names \in Seq(Names)
    PROVE  names # None /\ names \in Seq(Segments)
<1>1. Names \subseteq Segments
    BY Zenon DEF Segments
<1>2. names \in Seq(Segments)
    BY <1>1
<1> QED
    BY <1>2, PiecesAssumption, Zenon

\* nothing is taken back of what consists of names
LEMMA TakingNames ==
    ASSUME NEW names \in Seq(Names)
    PROVE  Taking(names) = names
<1> DEFINE Upto(n) == SubSeq(names, 1, n)
           T == {n \in Nat : n <= Len(names) => Taking(Upto(n)) = Upto(n)}
<1>1. Len(names) \in Nat /\ Upto(Len(names)) = names
    OBVIOUS
<1>2. 0 \in T
    <2>1. Upto(0) = <<>>
        OBVIOUS
    <2> QED
        BY <2>1, TakingNothing
<1>3. ASSUME NEW n \in Nat, n \in T
      PROVE  n + 1 \in T
    <2> SUFFICES ASSUME n + 1 <= Len(names)
                 PROVE  Taking(Upto(n + 1)) = Upto(n + 1)
        OBVIOUS
    <2>1. Taking(Upto(n)) = Upto(n)
        BY <1>1, <1>3
    <2>2. Upto(n) \in Seq(Names) /\ names[n + 1] \in Names
          /\ Upto(n + 1) = Append(Upto(n), names[n + 1])
        BY <1>1
    <2> HIDE DEF Upto
    <2> DEFINE name == names[n + 1]
               so == Upto(n)
    <2>3. so \in Seq(Names) /\ name \in Names /\ Upto(n + 1) = Append(so, name)
          /\ Taking(so) = so
        BY <2>1, <2>2
    <2> HIDE DEF name, so
    <2>4. so # None /\ so \in Seq(Segments) /\ name \in Segments
        BY <2>3, NamesNotNone, Ordinary, Zenon
    <2>5. Taking(Append(so, name)) = Append(so, name)
        BY <2>3, <2>4, TakingGrows, Ordinary, Zenon
    <2> QED
        BY <2>3, <2>5, Zenon
<1> HIDE DEF T
<1>4. Len(names) \in T
    BY <1>1, <1>2, <1>3, Counting
<1>5. Taking(Upto(Len(names))) = Upto(Len(names))
    <2> HIDE DEF Upto
    <2> QED
        BY <1>1, <1>4 DEF T
<1> QED
    BY <1>1, <1>5, Zenon

LEMMA NotEmpty ==
    ASSUME NEW S, NEW s \in Seq(S), NEW e \in S
    PROVE  Append(s, e) \in Seq(S) /\ Append(s, e) # <<>>
<1>1. Append(s, e) \in Seq(S) /\ Len(Append(s, e)) = Len(s) + 1 /\ Len(s) \in Nat
    OBVIOUS
<1>2. Len(<<>>) = 0
    OBVIOUS
<1>3. Len(Append(s, e)) # Len(<<>>)
    BY <1>1, <1>2
<1> QED
    BY <1>1, <1>3, Zenon

LEMMA Appended ==
    ASSUME NEW S, NEW s \in Seq(S), NEW e \in S
    PROVE  s \o <<e>> = Append(s, e) /\ Last(Append(s, e)) = e /\ Front(Append(s, e)) = s
<1> DEFINE a == Append(s, e)
           j == s \o <<e>>
           n == Len(s)
<1>1. /\ a \in Seq(S) /\ Len(a) = n + 1 /\ n \in Nat /\ a[n + 1] = e
      /\ \A i \in 1 .. n : a[i] = s[i]
    OBVIOUS
<1>2. n \in Nat
    OBVIOUS
<1>3. /\ j \in Seq(S) /\ Len(j) = n + 1
      /\ j[n + 1] = e /\ \A i \in 1 .. n : j[i] = s[i]
    OBVIOUS
<1>4. SubSeq(a, 1, n) \in Seq(S) /\ Len(SubSeq(a, 1, n)) = n
      /\ \A i \in 1 .. n : SubSeq(a, 1, n)[i] = a[i]
    BY <1>1
<1>5. SubSeq(a, 1, n) = s
    BY <1>1, <1>4, SameElements
<1> HIDE DEF a, j, n
<1>6. j = a
    <2>1. \A i \in 1 .. Len(j) : j[i] = a[i]
        <3> TAKE i \in 1 .. Len(j)
        <3>1. i = n + 1 \/ i \in 1 .. n
            BY <1>1, <1>3
        <3> QED
            BY <1>1, <1>3, <3>1
    <2> QED
        BY <1>1, <1>3, <2>1, SameElements, Zenon
<1>7. Last(a) = e
    BY <1>1 DEF Last
<1>8. Front(a) = s
    <2>1. Len(a) - 1 = n
        BY <1>1
    <2> QED
        BY <1>5, <2>1 DEF Front
<1> QED
    BY <1>6, <1>7, <1>8 DEF a, j

\* one segment for each piece, and no query
Spelled(target, segments) ==
    /\ target \in Seq(Pieces) /\ segments \in Seq(Segments) /\ Len(target) = Len(segments)
    /\ \A i \in 1 .. Len(target) :
           Reads[target[i]] = <<segments[i]>> /\ target[i] \notin Cut \cup Unread

LEMMA SpelledMore ==
    ASSUME NEW target, NEW segments, Spelled(target, segments),
           NEW p \in Pieces, NEW segment \in Segments, Reads[p] = <<segment>>,
           p \notin Cut \cup Unread
    PROVE  Spelled(Append(target, p), Append(segments, segment))
<1> DEFINE n == Len(target)
           t == Append(target, p)
           s == Append(segments, segment)
<1>1. /\ target \in Seq(Pieces) /\ segments \in Seq(Segments)
      /\ n \in Nat /\ n = Len(segments)
      /\ \A i \in 1 .. n : Reads[target[i]] = <<segments[i]>> /\ target[i] \notin Cut \cup Unread
    BY DEF Spelled
<1>2. /\ t \in Seq(Pieces) /\ s \in Seq(Segments) /\ Len(t) = n + 1 /\ Len(s) = n + 1
      /\ t[n + 1] = p /\ s[n + 1] = segment
      /\ \A i \in 1 .. n : t[i] = target[i] /\ s[i] = segments[i]
    BY <1>1
<1> HIDE DEF t, s, n
<1>3. ASSUME NEW i \in 1 .. n + 1
      PROVE  Reads[t[i]] = <<s[i]>> /\ t[i] \notin Cut \cup Unread
    <2>1. CASE i = n + 1
        BY <1>2, <2>1
    <2>2. CASE i # n + 1
        <3>1. i \in 1 .. n
            BY <1>1, <2>2
        <3> QED
            BY <1>1, <1>2, <3>1
    <2> QED
        BY <2>1, <2>2
<1>4. Spelled(t, s)
    BY <1>2, <1>3 DEF Spelled
<1> QED
    BY <1>4 DEF t, s

LEMMA SinglesDecoded ==
    ASSUME NEW target \in Seq(Pieces), NEW segments \in Seq(Segments),
           Len(Used(target)) = Len(segments),
           \A i \in 1 .. Len(segments) : Reads[Used(target)[i]] = <<segments[i]>>
    PROVE  Decoded(target).segments = segments
<1> DEFINE used == Used(target)
           Read(i) == Reads[used[i]]
           seqs == [i \in DOMAIN used |-> Read(i)]
           n == Len(segments)
<1>1. Decoded(target).segments = FlattenSeq(seqs)
    BY DEF Decoded
<1>2. n \in Nat /\ DOMAIN used = 1 .. n
    BY UsedTyped
<1>3. \A i \in 1 .. n : Read(i) = <<segments[i]>> /\ Read(i) \in Seq(Segments)
    <2>1. \A i \in 1 .. n : segments[i] \in Segments
        OBVIOUS
    <2> QED
        BY <2>1, OneElement, Zenon
<1> HIDE DEF Read, used
<1>4. seqs \in Seq(Seq(Segments)) /\ Len(seqs) = n /\ \A i \in 1 .. n : seqs[i] = Read(i)
    <2>1. seqs = [i \in 1 .. n |-> Read(i)]
        BY <1>2, Zenon
    <2> HIDE DEF n, seqs
    <2> QED
        BY <1>2, <1>3, <2>1
<1> HIDE DEF seqs
<1>5. Singles(seqs, segments)
    BY <1>3, <1>4, Zenon DEF Singles
<1> QED
    BY <1>1, <1>4, <1>5, FlatSingles

LEMMA SpelledDecoded ==
    ASSUME NEW target, NEW segments, Spelled(target, segments)
    PROVE  Decoded(target).segments = segments /\ ~Decoded(target).unread
<1>1. /\ target \in Seq(Pieces) /\ segments \in Seq(Segments)
      /\ Len(target) = Len(segments) /\ DOMAIN target = 1 .. Len(target)
      /\ \A i \in 1 .. Len(target) : /\ Reads[target[i]] = <<segments[i]>>
                                     /\ target[i] \notin Cut /\ target[i] \notin Unread
    BY DEF Spelled
<1>2. Used(target) = target
    BY <1>1, UsedTyped, Zenon
<1>3. Decoded(target).segments = segments
    BY <1>1, <1>2, SinglesDecoded, Zenon
<1>4. Decoded(target).unread = \E p \in Range(target) : p \in Unread
    BY <1>2, Zenon DEF Decoded
<1> QED
    BY <1>1, <1>3, <1>4, Zenon DEF Range

\* what is spelled as it should be is taken for what it was
LEMMA SpelledPath ==
    ASSUME NEW target, NEW segments, Spelled(target, segments),
           NEW names \in Seq(Names), Taking(segments) = names
    PROVE  LET path == RequestPath(target)
           IN /\ path # None /\ path.names = names
              /\ path.slash <=> (names = <<>> \/ Last(segments) = "")
<1> DEFINE slash == names = <<>> \/ Last(segments) = ""
<1>1. names # None
    BY NamesNotNone, Zenon
<1>2. RequestPath(target) = [names |-> names, slash |-> slash]
    <2>1. Decoded(target).segments = segments /\ ~Decoded(target).unread
        BY SpelledDecoded, Zenon
    <2> QED
        BY <1>1, <2>1, Zenon DEF RequestPath
<1>3. slash \in BOOLEAN
    OBVIOUS
<1> HIDE DEF slash
<1>4. RequestPath(target) \in [names : Seq(Names), slash : BOOLEAN]
    BY <1>2, <1>3
<1>5. RequestPath(target) # None
    BY <1>4, PiecesAssumption, Zenon
<1>6. RequestPath(target).names = names /\ RequestPath(target).slash = slash
    BY <1>2
<1> QED
    BY <1>5, <1>6, Zenon DEF slash

LEMMA EndSpelled ==
    /\ "" \in Pieces /\ "" \notin Cut \cup Unread /\ Reads[""] = <<"">> /\ "" \in Segments
    /\ \A names : names # None => Taken(names, "") = names
<1>1. "" \in Pieces \ (Cut \cup Unread) /\ Reads[""] = <<"">> /\ "" \in Segments
    BY PiecesAssumption, Zenon DEF Segments
<1>2. "" \in {"", "."} /\ "" # ".." /\ "" \notin Bad
    <2>1. Bad \cap {"", ".", ".."} = {}
        BY PiecesAssumption, Zenon
    <2> QED
        BY <2>1
<1>3. ASSUME NEW names, names # None
      PROVE  Taken(names, "") = names
    BY <1>2, <1>3, Zenon DEF Taken
<1> QED
    BY <1>1, <1>3, Zenon

LEMMA EncodedSpelled ==
    ASSUME NEW n \in Names
    PROVE  /\ Encoded[n] \in Pieces /\ Encoded[n] \notin Cut \cup Unread
           /\ Reads[Encoded[n]] = <<n>>
<1>1. Reads[Encoded[n]] = <<n>> /\ Encoded[n] \notin Cut \cup Unread
    BY PiecesAssumption, Zenon
<1> QED
    BY <1>1, WrittenTyped, Zenon

LEMMA TypedSpelled ==
    ASSUME NEW names \in Seq(Names), NEW target \in Seq(Pieces), Len(target) = Len(names),
           \A i \in 1 .. Len(names) : target[i] = Encoded[names[i]]
    PROVE  Spelled(target, names)
<1>1. names \in Seq(Segments)
    BY NamesNotNone, Zenon
<1>2. \A i \in 1 .. Len(names) : names[i] \in Names
    OBVIOUS
<1>3. \A i \in 1 .. Len(names) : /\ Reads[target[i]] = <<names[i]>>
                                 /\ target[i] \notin Cut \cup Unread
    BY <1>2, EncodedSpelled, Zenon
<1> QED
    BY <1>1, <1>3, Zenon DEF Spelled

\* a redirect whose names are written as they should be is taken for them
LEMMA LocationPath ==
    ASSUME NEW names \in Seq(Names), \A i \in 1 .. Len(names) : Raw[names[i]] = Encoded[names[i]]
    PROVE  LET path == RequestPath(Location(names))
           IN path # None /\ path.names = names /\ path.slash
<1> DEFINE written == [i \in DOMAIN names |-> Raw[names[i]]]
           k == Len(names)
<1>1. k \in Nat /\ DOMAIN names = 1 .. k /\ \A i \in 1 .. k : names[i] \in Names
    OBVIOUS
<1>2. \A i \in 1 .. k : Raw[names[i]] \in Pieces /\ Raw[names[i]] = Encoded[names[i]]
    BY <1>1, WrittenTyped, Zenon
<1>3. written \in Seq(Pieces) /\ Len(written) = k
      /\ \A i \in 1 .. k : written[i] = Encoded[names[i]]
    <2> DEFINE Raws(i) == Raw[names[i]]
    <2>1. written = [i \in 1 .. k |-> Raws(i)]
          /\ \A i \in 1 .. k : Raws(i) \in Pieces /\ Raws(i) = Encoded[names[i]]
        BY <1>1, <1>2, Zenon
    <2> HIDE DEF written, k, Raws
    <2> QED
        BY <1>1, <2>1
<1> HIDE DEF written
<1>4. Spelled(written, names)
    BY <1>3, TypedSpelled, Zenon
<1>5. Location(names) = Append(written, "")
    <2>1. Location(names) = written \o <<"">>
        BY Zenon DEF Location, written
    <2> QED
        BY <1>3, <2>1, EndSpelled, Appended, Zenon
<1>6. Spelled(Append(written, ""), Append(names, ""))
    BY <1>4, SpelledMore, EndSpelled, Zenon
<1>7. Taking(Append(names, "")) = names
    <2>1. names # None /\ names \in Seq(Segments)
        BY NamesNotNone, Zenon
    <2> QED
        BY <2>1, TakingGrows, TakingNames, EndSpelled, Zenon
<1>8. Last(Append(names, "")) = ""
    BY NamesNotNone, EndSpelled, Appended, Zenon
<1> QED
    BY <1>5, <1>6, <1>7, <1>8, SpelledPath, Zenon

\* what is opened for a file is taken for its place below the root
LEMMA UrlForPath ==
    ASSUME NEW file \in Seq(Names)
    PROVE  LET path == RequestPath(UrlFor(file))
           IN /\ path # None
              /\ IsStrictPrefix(Root, file) =>
                    path.names \in Seq(Names) /\ Root \o path.names = file /\ ~path.slash
<1>1. CASE ~IsStrictPrefix(Root, file)
    <2>1. UrlFor(file) = <<"">>
        BY <1>1, Zenon DEF UrlFor
    <2>2. Spelled(<<>>, <<>>)
        BY DEF Spelled
    <2>3. Spelled(Append(<<>>, ""), Append(<<>>, ""))
        BY <2>2, SpelledMore, EndSpelled, Zenon
    <2>4. Append(<<>>, "") = <<"">>
        OBVIOUS
    <2>5. <<>> \in Seq(Names) /\ <<>> \in Seq(Segments)
        OBVIOUS
    <2>6. Taking(Append(<<>>, "")) = <<>>
        BY <2>5, NamesNotNone, TakingGrows, TakingNothing, EndSpelled, Zenon
    <2>7. RequestPath(UrlFor(file)) # None
        BY <2>1, <2>3, <2>4, <2>5, <2>6, SpelledPath, Zenon
    <2> QED
        BY <1>1, <2>7, Zenon
<1>2. CASE IsStrictPrefix(Root, file)
    <2> DEFINE r == Len(Root)
               n == Len(file) - r
               url == [i \in 1 .. n |-> Encoded[file[i + r]]]
               rest == [i \in 1 .. n |-> file[i + r]]
    <2>1. UrlFor(file) = url
        BY <1>2, Zenon DEF UrlFor
    <2>2. /\ Root \in Seq(Names) /\ Len(file) \in Nat /\ r \in Nat /\ r < Len(file)
          /\ \A i \in 1 .. r : Root[i] = file[i]
        <3>1. Root \in Seq(Names)
            BY MountsAssumption, Zenon
        <3>2. Len(Root) <= Len(file) /\ SubSeq(Root, 1, r) = SubSeq(file, 1, r) /\ Root # file
            BY <1>2, Zenon DEF IsStrictPrefix, IsPrefix
        <3>3. \A i \in 1 .. r : Root[i] = file[i]
            <4> TAKE i \in 1 .. r
            <4>1. SubSeq(Root, 1, r)[i] = Root[i] /\ SubSeq(file, 1, r)[i] = file[i]
                BY <3>1, <3>2
            <4> QED
                BY <3>2, <4>1
        <3>4. r = Len(file) => Root = file
            BY <3>1, <3>3
        <3> QED
            BY <3>1, <3>2, <3>3, <3>4
    <2> HIDE DEF r
    <2>3. n \in Nat /\ n # 0 /\ \A i \in 1 .. n : i + r \in 1 .. Len(file)
        BY <2>2
    <2>4. \A i \in 1 .. n : file[i + r] \in Names
        BY <2>3
    <2>5. \A i \in 1 .. n : Encoded[file[i + r]] \in Pieces
        BY <2>4, WrittenTyped, Zenon
    <2>6. url \in Seq(Pieces)
        BY UrlForTyped, <2>1, Zenon
    <2>7. /\ rest \in Seq(Names) /\ Len(rest) = n /\ Len(url) = n
          /\ \A i \in 1 .. n : rest[i] = file[i + r] /\ url[i] = Encoded[rest[i]]
        <3> HIDE DEF n
        <3> QED
            BY <2>3, <2>4
    <2>8. Root \o rest = file
        <3>1. Root \o rest \in Seq(Names) /\ Len(Root \o rest) = Len(file)
            BY <2>2, <2>3, <2>7 DEF r
        <3>2. ASSUME NEW i \in 1 .. Len(file)
              PROVE  (Root \o rest)[i] = file[i]
            <4>1. CASE i <= r
                BY <2>2, <2>7, <4>1 DEF r
            <4>2. CASE ~(i <= r)
                <5>1. i - r \in 1 .. n /\ (i - r) + r = i
                    BY <2>2, <4>2
                <5>2. (Root \o rest)[i] = rest[i - r]
                    BY <2>2, <2>7, <4>2, <5>1 DEF r
                <5> QED
                    BY <2>7, <5>1, <5>2
            <4> QED
                BY <4>1, <4>2
        <3>3. \A i \in 1 .. Len(Root \o rest) : (Root \o rest)[i] = file[i]
            BY <3>1, <3>2, Zenon
        <3> QED
            BY <3>1, <3>3, SameElements, Zenon
    <2> HIDE DEF n, rest, url
    <2>9. Spelled(url, rest)
        BY <2>6, <2>7, TypedSpelled, Zenon
    <2>10. Taking(rest) = rest
        BY <2>7, TakingNames, Zenon
    <2>11. rest # <<>> /\ Last(rest) # ""
        <3>1. rest # <<>> /\ Last(rest) \in Names
            BY <2>3, <2>7 DEF Last
        <3> QED
            BY <3>1, Ordinary, Zenon
    <2> DEFINE path == RequestPath(url)
    <2>12. path # None /\ path.names = rest /\ ~path.slash
        BY <2>7, <2>9, <2>10, <2>11, SpelledPath, Zenon
    <2> HIDE DEF path
    <2>13. path.names \in Seq(Names) /\ Root \o path.names = file
        BY <2>7, <2>8, <2>12
    <2> QED
        BY <2>1, <2>12, <2>13, Zenon DEF path
<1> QED
    BY <1>1, <1>2

LEMMA JustOne ==
    ASSUME NEW S, NEW s \in Seq(S), Len(s) = 1
    PROVE  s[1] \in S /\ s = <<s[1]>>
<1> DEFINE e == s[1]
<1>1. e \in S
    OBVIOUS
<1> HIDE DEF e
<1>2. <<e>> \in Seq(S) /\ Len(<<e>>) = 1 /\ <<e>>[1] = e
    BY <1>1
<1>3. \A i \in 1 .. Len(s) : s[i] = <<e>>[i]
    <2>1. \A i \in 1 .. Len(s) : i = 1
        OBVIOUS
    <2> QED
        BY <1>2, <2>1, Zenon DEF e
<1> QED
    BY <1>1, <1>2, <1>3, SameElements, Zenon DEF e

LEMMA TwoMore ==
    ASSUME NEW S, NEW s \in Seq(S), NEW a \in S, NEW b \in S
    PROVE  /\ s \o (<<a>> \o <<b>>) = Append(Append(s, a), b)
           /\ s \o (<<a>> \o <<>>) = Append(s, a)
<1>1. <<a>> \in Seq(S) /\ <<b>> \in Seq(S)
    BY OneElement, Zenon
<1>2. Append(s, a) \in Seq(S) /\ <<a>> \o <<>> = <<a>>
    OBVIOUS
<1>3. s \o (<<a>> \o <<b>>) = (s \o <<a>>) \o <<b>>
    BY <1>1, ConcatAssociative
<1> QED
    BY <1>2, <1>3, Appended, Zenon

LEMMA AppendedBelow ==
    ASSUME NEW S, NEW s \in Seq(S), NEW t \in Seq(S), NEW e \in S
    PROVE  s \o Append(t, e) = Append(s \o t, e)
<1>1. <<e>> \in Seq(S) /\ s \o t \in Seq(S)
    BY OneElement, Joined, Zenon
<1>2. s \o (t \o <<e>>) = (s \o t) \o <<e>>
    BY <1>1, ConcatAssociative
<1> QED
    BY <1>1, <1>2, Appended, Zenon

\* a last segment that adds nothing takes nothing back either
LEMMA EndTaken ==
    ASSUME NEW segments \in Seq(Segments), NEW last \in Segments, last \notin {".", ".."},
           NEW names, names # None, Taking(Append(segments, last)) = names,
           names = <<>> \/ last = ""
    PROVE  Taking(segments) = names
<1> DEFINE so == Taking(segments)
<1>1. names = Taken(so, last)
    BY TakingGrows, Zenon
<1>2. so # None
    BY <1>1, Zenon DEF Taken
<1>3. so \in Seq(Names)
    BY <1>2, TakingMeans, Zenon
<1> HIDE DEF so
<1>4. CASE last = ""
    BY <1>1, <1>2, <1>4, EndSpelled, Zenon DEF so
<1>5. CASE last # ""
    <2>1. last \notin {"", "."} /\ last # ".."
        BY <1>5
    <2>2. last \notin Bad
        BY <1>1, <1>2, <2>1, Zenon DEF Taken
    <2>3. names = Append(so, last)
        BY <1>1, <1>2, <2>1, <2>2, Zenon DEF Taken
    <2>4. names # <<>>
        <3>1. so \in Seq(Segments)
            BY <1>3, NamesNotNone, Zenon
        <3>2. Append(so, last) # <<>>
            BY <3>1, NotEmpty, Zenon
        <3> QED
            BY <2>3, <3>2, Zenon
    <2> QED
        BY <1>5, <2>4
<1> QED
    BY <1>4, <1>5

LEMMA MountTyped ==
    ASSUME NEW i \in DOMAIN Mounts
    PROVE  Mounts[i].base \in Seq(Names) /\ Mounts[i].route \in Seq(Names)
<1> DEFINE Kind == [route : Seq(Names), base : Seq(Names)]
           mount == Mounts[i]
<1>1. Mounts \in Seq(Kind)
    BY MountsAssumption, Zenon
<1> HIDE DEF Kind
<1>2. mount \in Kind
    BY <1>1
<1> HIDE DEF mount
<1>3. mount.base \in Seq(Names) /\ mount.route \in Seq(Names)
    BY <1>2 DEF Kind
<1> QED
    BY <1>3, Zenon DEF mount

LEMMA ResolveTyped ==
    ASSUME NEW names \in Seq(Names)
    PROVE  /\ Resolve(names) \in Seq(Names)
           /\ Matching(names) = {} => Resolve(names) = Root \o names
<1>1. Resolve(names) \in Seq(Names)
    BY ResolveMeans, Zenon
<1>2. Matching(names) = {} => Resolve(names) = Root \o names
    BY JoinCheckedJoins, MountsAssumption, Zenon DEF Resolve
<1> QED
    BY <1>1, <1>2

\* below what a path stands for is what stands below it, unless a mount comes between
LEMMA ResolveBelow ==
    ASSUME NEW names \in Seq(Names), NEW name \in Names,
           Matching(Append(names, name)) = Matching(names)
    PROVE  Resolve(Append(names, name)) = Append(Resolve(names), name)
<1> DEFINE more == Append(names, name)
<1>1. more \in Seq(Names) /\ Root \in Seq(Names) /\ Len(more) = Len(names) + 1
    BY MountsAssumption
<1>2. CASE Matching(names) = {}
    <2>1. Resolve(names) = Root \o names /\ Resolve(more) = Root \o more
        BY <1>1, <1>2, ResolveTyped, Zenon
    <2>2. Root \o Append(names, name) = Append(Root \o names, name)
        <3>1. Root \in Seq(Names) /\ names \in Seq(Names) /\ name \in Names
            BY <1>1, Zenon
        <3> QED
            BY ONLY <3>1, AppendedBelow
    <2> QED
        BY <2>1, <2>2, Zenon
<1>3. CASE Matching(names) # {}
    <2> DEFINE i == LongestMount(names)
    <2>1. i \in Matching(names)
        BY <1>3, LongestFound
    <2>2. LongestMount(more) = i
        BY Zenon DEF LongestMount
    <2> HIDE DEF i
    <2>3. i \in DOMAIN Mounts /\ IsPrefix(Mounts[i].route, names)
        BY <2>1, Zenon DEF Matching
    <2> DEFINE base == Mounts[i].base
               k == Len(Mounts[i].route)
               rest == SubSeq(names, k + 1, Len(names))
               longer == SubSeq(more, k + 1, Len(more))
    <2>4. base \in Seq(Names) /\ k \in Nat /\ k <= Len(names)
        BY <2>3, MountTyped DEF IsPrefix
    <2>5. Resolve(names) = JoinChecked(base, rest) /\ Resolve(more) = JoinChecked(base, longer)
        BY <1>3, <2>2, Zenon DEF Resolve, i
    <2> HIDE DEF base, k
    <2>6. rest \in Seq(Names) /\ longer \in Seq(Names)
        BY <1>1, <2>4
    <2>7. longer = Append(rest, name)
        <3>1. Append(rest, name) \in Seq(Names) /\ Len(rest) = Len(names) - k
              /\ Len(longer) = Len(names) + 1 - k
              /\ Len(Append(rest, name)) = Len(longer)
            BY <1>1, <2>4, <2>6
        <3>2. ASSUME NEW x \in 1 .. Len(longer)
              PROVE  longer[x] = Append(rest, name)[x]
            <4>1. longer[x] = more[x + k]
                BY <1>1, <2>4, <3>1
            <4>2. CASE x = Len(rest) + 1
                <5>1. x + k = Len(names) + 1
                    BY <2>4, <3>1, <4>2
                <5>2. more[Len(names) + 1] = name /\ Append(rest, name)[Len(rest) + 1] = name
                    BY <2>6
                <5> QED
                    BY <4>1, <4>2, <5>1, <5>2
            <4>3. CASE x # Len(rest) + 1
                <5>1. x \in 1 .. Len(rest) /\ x + k \in 1 .. Len(names)
                    BY <2>4, <3>1, <4>3
                <5>2. Append(rest, name)[x] = rest[x] /\ rest[x] = names[x + k]
                      /\ more[x + k] = names[x + k]
                    BY <2>4, <2>6, <3>1, <5>1
                <5> QED
                    BY <4>1, <5>2
            <4> QED
                BY <4>2, <4>3
        <3> HIDE DEF rest, longer
        <3> QED
            BY <2>6, <3>1, <3>2, SameElements, Zenon
    <2> HIDE DEF rest, longer
    <2>8. Resolve(names) = base \o rest /\ Resolve(more) = base \o longer
        BY <2>4, <2>5, <2>6, JoinCheckedJoins, Zenon
    <2>9. base \o Append(rest, name) = Append(base \o rest, name)
        <3>1. base \in Seq(Names) /\ rest \in Seq(Names) /\ name \in Names
            BY <2>4, <2>6, Zenon
        <3> QED
            BY ONLY <3>1, AppendedBelow
    <2> QED
        BY <2>7, <2>8, <2>9, Zenon
<1> QED
    BY <1>2, <1>3

\* Of a target without dots the last piece is replaced by a row of the listing: what that
\* is taken for is one name more.
LEMMA HrefPath ==
    ASSUME NEW target \in Seq(Pieces), RequestPath(target) # None, RequestPath(target).slash,
           \A p \in Range(Used(target)) : Len(Reads[p]) = 1 /\ Reads[p][1] \notin {".", ".."},
           NEW entry \in Places
    PROVE  LET path == RequestPath(Front(Used(target)) \o Href(entry))
           IN /\ path # None
              /\ path.names = Append(RequestPath(target).names, Last(entry))
              /\ path.slash <=> entry \in Dirs
<1> DEFINE u == Used(target)
           n == Len(u)
           Read(i) == Reads[u[i]][1]
           s == [i \in 1 .. n |-> Read(i)]
           names == Taking(s)
           name == Last(entry)
<1>1. /\ u \in Seq(Pieces) /\ n \in Nat /\ DOMAIN u = 1 .. n
      /\ \A i \in 1 .. n : u[i] \in Pieces /\ u[i] \in Range(u)
      /\ \A i \in 1 .. n - 1 : u[i] \notin Cut
    <2>1. u \in Seq(Pieces) /\ \A i \in 1 .. n - 1 : u[i] \notin Cut
        BY UsedTyped, Zenon
    <2> HIDE DEF u
    <2>2. /\ n \in Nat /\ DOMAIN u = 1 .. n
          /\ \A i \in 1 .. n : u[i] \in Pieces /\ u[i] \in Range(u)
        BY <2>1 DEF Range
    <2> QED
        BY <2>1, <2>2, Zenon
<1>2. \A i \in 1 .. n : /\ Read(i) \in Segments /\ Reads[u[i]] = <<Read(i)>>
                        /\ Read(i) \notin {".", ".."}
    <2> TAKE i \in 1 .. n
    <2> DEFINE r == Reads[u[i]]
    <2>1. Len(r) = 1 /\ r[1] \notin {".", ".."} /\ u[i] \in Pieces
        BY <1>1, Zenon
    <2> HIDE DEF u
    <2>2. r \in Seq(Segments)
        BY <2>1, PiecesAssumption
    <2> HIDE DEF r
    <2>3. r[1] \in Segments /\ r = <<r[1]>>
        BY <2>1, <2>2, JustOne, Zenon
    <2> QED
        BY <2>1, <2>3, Zenon DEF r
<1> HIDE DEF u, Read
<1>3. /\ s \in Seq(Segments) /\ Len(s) = n /\ \A i \in 1 .. n : s[i] = Read(i)
    <2> HIDE DEF n
    <2> QED
        BY <1>1, <1>2
<1>4. /\ Decoded(target).segments = s
      /\ Decoded(target).unread <=> \E i \in 1 .. n : u[i] \in Unread
    <2>1. Decoded(target).segments = s
        BY <1>1, <1>2, <1>3, SinglesDecoded, Zenon DEF u
    <2>2. Decoded(target).unread <=> \E p \in Range(u) : p \in Unread
        BY DEF Decoded, u
    <2>3. Range(u) = {u[i] : i \in 1 .. n}
        BY <1>1, Zenon DEF Range
    <2> HIDE DEF s, n
    <2> QED
        BY <2>1, <2>2, <2>3
<1> HIDE DEF s, n
<1>5. /\ names # None /\ names \in Seq(Names) /\ RequestPath(target).names = names
      /\ names = <<>> \/ Last(s) = ""
      /\ \A i \in 1 .. n : u[i] \notin Unread
    <2>1. ~Decoded(target).unread /\ names # None
        BY <1>4, Zenon DEF RequestPath
    <2> DEFINE slash == names = <<>> \/ Last(s) = ""
    <2>2. RequestPath(target) = [names |-> names, slash |-> slash]
        BY <1>4, <2>1, Zenon DEF RequestPath
    <2> HIDE DEF slash, names
    <2>3. RequestPath(target).names = names /\ slash
        BY <2>2
    <2>4. names \in Seq(Names)
        BY <2>3, RequestPathMeans, Zenon
    <2> QED
        BY <1>4, <2>1, <2>3, <2>4, Zenon DEF slash
<1> DEFINE f == Front(u)
           e == Front(s)
<1>6. Spelled(f, e) /\ Taking(e) = names
    <2>1. CASE n = 0
        <3>1. u = <<>> /\ s = <<>>
            BY <1>1, <1>3, <2>1
        <3>2. f = <<>> /\ e = <<>>
            BY <3>1 DEF Front
        <3>3. Spelled(<<>>, <<>>)
            BY DEF Spelled
        <3> QED
            BY <3>1, <3>2, <3>3
    <2>2. CASE n # 0
        <3> DEFINE m == n - 1
                   last == s[n]
        <3>1. /\ f \in Seq(Pieces) /\ Len(f) = m /\ \A i \in 1 .. m : f[i] = u[i]
              /\ e \in Seq(Segments) /\ Len(e) = m /\ \A i \in 1 .. m : e[i] = s[i]
              /\ \A i \in 1 .. m : i \in 1 .. n /\ i \in 1 .. n - 1
              /\ n \in 1 .. n /\ m \in Nat /\ m + 1 = n
            BY <1>1, <1>3, <2>2 DEF Front, n
        <3> HIDE DEF m, e, f
        <3>2. \A i \in 1 .. m : Reads[f[i]] = <<e[i]>> /\ f[i] \notin Cut \cup Unread
            <4> TAKE i \in 1 .. m
            <4>1. i \in 1 .. n /\ f[i] = u[i] /\ e[i] = s[i] /\ m = n - 1
                BY <3>1
            <4>2. i \in 1 .. n - 1
                BY <4>1, Zenon
            <4>3. u[i] \notin Cut
                BY <1>1, <4>2, Zenon
            <4>4. Reads[u[i]] = <<Read(i)>> /\ s[i] = Read(i) /\ u[i] \notin Unread
                BY <1>2, <1>3, <1>5, <4>1, Zenon
            <4> QED
                BY <4>1, <4>3, <4>4
        <3>3. Spelled(f, e)
            BY <3>1, <3>2, Zenon DEF Spelled
        <3>4. last \in Segments /\ last \notin {".", ".."} /\ Last(s) = last
            BY <1>2, <1>3, <3>1 DEF Last
        <3> HIDE DEF last
        <3>5. s = Append(e, last)
            <4>1. /\ Append(e, last) \in Seq(Segments) /\ Len(Append(e, last)) = Len(s)
                  /\ \A i \in 1 .. m : Append(e, last)[i] = e[i]
                  /\ Append(e, last)[n] = last
                BY <1>3, <3>1, <3>4
            <4>2. ASSUME NEW i \in 1 .. Len(s)
                  PROVE  s[i] = Append(e, last)[i]
                <5>1. i = n \/ i \in 1 .. m
                    BY <1>3, <3>1
                <5> QED
                    BY <3>1, <4>1, <5>1 DEF last
            <4> QED
                BY <1>3, <4>1, <4>2, SameElements, Zenon
        <3>6. Taking(e) = names
            BY <1>5, <3>1, <3>4, <3>5, EndTaken, Zenon
        <3> QED
            BY <3>3, <3>6, Zenon
    <2> QED
        BY <2>1, <2>2, Zenon
<1> HIDE DEF names
<1> DEFINE a == Encoded[name]
           one == Append(f, a)
           oneSegment == Append(e, name)
           more == Append(names, name)
<1>7. /\ name \in Names /\ name # "" /\ name \in Segments /\ a \in Pieces
      /\ Spelled(one, oneSegment)
    <2>1. name \in Names
        BY DEF Last, Places
    <2>2. name # "" /\ name \in Segments
        BY <2>1, Ordinary, Zenon
    <2>3. Spelled(one, oneSegment) /\ a \in Pieces
        BY <1>6, <2>1, <2>2, EncodedSpelled, SpelledMore, Zenon
    <2> QED
        BY <2>1, <2>2, <2>3, Zenon
<1>8. /\ f \in Seq(Pieces) /\ e \in Seq(Segments) /\ oneSegment \in Seq(Segments)
    BY <1>6, <1>7, Zenon DEF Spelled
<1> HIDE DEF f, e, name, a
<1>9. /\ more \in Seq(Names) /\ more # None /\ more # <<>> /\ Taking(oneSegment) = more
      /\ Last(oneSegment) = name
    <2>1. more \in Seq(Names) /\ more # <<>>
        <3>1. names \in Seq(Names) /\ name \in Names
            BY <1>5, <1>7, Zenon
        <3> QED
            BY <3>1
    <2>2. more # None
        BY <2>1, NamesNotNone, Zenon
    <2>3. Taking(oneSegment) = more
        BY <1>5, <1>6, <1>7, <1>8, TakingGrows, Ordinary, Zenon
    <2>4. Last(oneSegment) = name
        BY <1>7, <1>8, Appended, Zenon
    <2> QED
        BY <2>1, <2>2, <2>3, <2>4, Zenon
<1> HIDE DEF more
<1>10. CASE entry \notin Dirs
    <2>1. f \o Href(entry) = one
        BY <1>7, <1>8, <1>10, TwoMore, Zenon DEF Href, a, name
    <2>2. RequestPath(one) # None /\ RequestPath(one).names = more /\ ~RequestPath(one).slash
        <3> HIDE DEF one, oneSegment
        <3> QED
            BY <1>7, <1>9, SpelledPath, Zenon
    <2> QED
        BY <1>5, <1>10, <2>1, <2>2, Zenon DEF f, u, more, name
<1>11. CASE entry \in Dirs
    <2> DEFINE two == Append(one, "")
               twoSegments == Append(oneSegment, "")
    <2>1. f \o Href(entry) = two
        <3>1. f \o (<<a>> \o <<"">>) = Append(Append(f, a), "")
            <4> DEFINE end == ""
            <4>1. f \in Seq(Pieces) /\ a \in Pieces /\ end \in Pieces
                BY <1>7, <1>8, EndSpelled, Zenon
            <4> HIDE DEF end
            <4>2. f \o (<<a>> \o <<end>>) = Append(Append(f, a), end)
                BY ONLY <4>1, TwoMore
            <4> QED
                BY <4>2, Zenon DEF end
        <3>2. Href(entry) = <<a>> \o <<"">>
            BY <1>11, Zenon DEF Href, a, name
        <3> QED
            BY <3>1, <3>2, Zenon
    <2> HIDE DEF one, oneSegment
    <2>2. Spelled(two, twoSegments)
        BY <1>7, SpelledMore, EndSpelled, Zenon
    <2>3. Taking(twoSegments) = more
        BY <1>8, <1>9, TakingGrows, EndSpelled, Zenon
    <2>4. Last(twoSegments) = ""
        BY <1>8, EndSpelled, Appended, Zenon
    <2>5. RequestPath(two) # None /\ RequestPath(two).names = more /\ RequestPath(two).slash
        <3> HIDE DEF two, twoSegments
        <3> QED
            BY <1>9, <2>2, <2>3, <2>4, SpelledPath, Zenon
    <2> QED
        BY <1>5, <1>11, <2>1, <2>5, Zenon DEF f, u, more, name
<1> QED
    BY <1>10, <1>11

---------------------------------------------------------------------------
(* Links *)

\* what a link was made for, and how the request that follows it is taken
MadeFor(r) ==
    LET path == RequestPath(r.target) IN
    r.of # None =>
        \/ r.via = "open" /\ r.of \in Files /\ r.target = UrlFor(r.of)
        \/ /\ r.via = "row" /\ r.of \in Places
           /\ path # None /\ (path.slash <=> r.of \in Dirs)
           /\ \E names \in Seq(Names) : /\ path.names = Append(names, Last(r.of))
                                        /\ Front(r.of) = Resolve(names)
        \/ /\ r.via = "redirect"
           /\ \E names \in Seq(Names) : /\ r.target = Location(names)
                                        /\ r.of = Resolve(names)

Linked == at \notin Resting => MadeFor(request)

\* where a directory is listed, and where a request is sent on
Looked ==
    /\ at \in {"index", "list"} \/ (at = "send" /\ missing = "list") =>
           Path # None /\ Path.slash
    /\ at = "done" /\ reply.status = 301 => ~Path.slash /\ place \in Dirs /\ place = Target
    /\ at \in {"stream", "done"} /\ reply.rows # {} =>
           Path # None /\ Path.slash /\ \A entry \in reply.rows : Front(entry) = Target

\* a request that is still the same, on its way to an answer
LEMMA LookedStays ==
    ASSUME request' = request,
           at' \in {"index", "list"} \/ (at' = "send" /\ missing' = "list") =>
               Path # None /\ Path.slash,
           at' = "done" /\ reply'.status = 301 =>
               ~Path.slash /\ place' \in Dirs /\ place' = Target,
           at' \in {"stream", "done"} /\ reply'.rows # {} =>
               Path # None /\ Path.slash /\ \A entry \in reply'.rows : Front(entry) = Target
    PROVE  Looked'
<1>1. Path' = Path /\ Target' = Target
    BY Zenon DEF Path, Target
<1> QED
    BY <1>1, Zenon DEF Looked

LEMMA RespondsLooked ==
    ASSUME request' = request, NEW status, NEW f, NEW text, Responds(status, f, text),
           status = 301 => ~Path.slash /\ place' \in Dirs /\ place' = Target
    PROVE  Looked'
<1>1. at' = "done" /\ reply'.status = status /\ reply'.rows = {}
    BY DEF Responds
<1> QED
    BY <1>1, LookedStays

LEMMA GoesLooked ==
    ASSUME request' = request, NEW stage, Goes(stage), stage \notin {"stream", "done"},
           stage \in {"index", "list"} \/ (stage = "send" /\ missing' = "list") =>
               Path # None /\ Path.slash
    PROVE  Looked'
<1>1. at' = stage
    BY DEF Goes
<1> QED
    BY <1>1, LookedStays

LEMMA RoutesLooked ==
    ASSUME Routes
    PROVE  Looked'
<1>1. request' = request
    BY DEF Routes
<1>2. CASE RefusesMethod
    BY <1>1, <1>2, RespondsLooked DEF RefusesMethod
<1>3. CASE RefusesTarget
    BY <1>1, <1>3, RespondsLooked DEF RefusesTarget
<1>4. CASE SendsClient
    BY <1>1, <1>4, RespondsLooked DEF SendsClient
<1>5. CASE Reserves
    BY <1>1, <1>5, RespondsLooked DEF Reserves
<1>6. CASE Finds
    BY <1>1, <1>6, GoesLooked DEF Finds
<1> QED
    BY <1>2, <1>3, <1>4, <1>5, <1>6 DEF Routes

LEMMA AnswersLooked ==
    ASSUME Answering, Targeted, Looked, Answers
    PROVE  Looked'
<1>1. CASE Stats
    <2>1. request' = request /\ Path # None /\ place = Target
        BY <1>1, Zenon DEF Stats, Targeted, Target
    <2>2. CASE place \in Dirs /\ ~Path.slash /\ Responds(301, None, <<>>) /\ place' = place
        BY <2>1, <2>2, RespondsLooked
    <2>3. CASE Path.slash /\ Goes("index")
        BY <2>1, <2>3, GoesLooked
    <2>4. CASE Sends(place, "lost")
        BY <2>1, <2>4, GoesLooked DEF Sends
    <2>5. CASE Goes("lost")
        BY <2>1, <2>5, GoesLooked
    <2> QED
        BY <1>1, <2>2, <2>3, <2>4, <2>5 DEF Stats
<1>2. CASE StatsIndex
    <2>1. request' = request /\ Path # None /\ Path.slash
        BY <1>2, Zenon DEF StatsIndex, Looked
    <2>2. Goes("send") \/ Goes("list")
        BY <1>2, Zenon DEF StatsIndex, Sends
    <2> QED
        BY <2>1, <2>2, GoesLooked
<1>3. CASE Lists
    <2>1. request' = request /\ Path # None /\ Path.slash
        BY <1>3, Zenon DEF Lists, Looked
    <2>2. CASE /\ reply' = [Unanswered EXCEPT !.status = 200, !.promised = 1,
                                              !.rows = Entries(Target)]
               /\ at' = "done"
        <3>1. reply'.status = 200 /\ reply'.rows = Entries(Target)
            BY <2>2 DEF Unanswered
        <3>2. \A entry \in reply'.rows : Front(entry) = Target
            BY <3>1, Zenon DEF Entries
        <3> QED
            BY <2>1, <2>2, <3>1, <3>2, LookedStays
    <2>3. CASE Goes("lost")
        BY <2>1, <2>3, GoesLooked
    <2> QED
        BY <1>3, <2>2, <2>3 DEF Lists
<1>4. CASE Loses
    <2>1. request' = request
        BY <1>4 DEF Loses
    <2>2. CASE Goes("send") /\ missing' = "gone"
        BY <2>1, <2>2, GoesLooked
    <2>3. CASE Responds(404, None, Offsets(1))
        BY <2>1, <2>3, RespondsLooked
    <2> QED
        BY <1>4, <2>2, <2>3 DEF Loses, Sends
<1>5. CASE SendsFile
    <2>1. request' = request /\ at = "send"
        BY <1>5 DEF SendsFile
    <2>2. CASE SendsText
        <3>1. \E text : Responds(200, place, text)
            BY <2>2 DEF SendsText
        <3> QED
            BY <2>1, <3>1, RespondsLooked
    <2>3. CASE CannotRead
        <3>1. Goes(missing) /\ missing \in {"list", "lost", "gone"}
            BY <2>1, <2>3 DEF CannotRead, Answering, Underway
        <3>2. missing = "list" => Path # None /\ Path.slash
            BY <2>1, Zenon DEF Looked
        <3> QED
            BY <2>1, <3>1, <3>2, GoesLooked
    <2>4. CASE Opens
        <3>1. at' \in {"stream", "done"} /\ reply'.status # 301 /\ reply'.rows = {}
            BY <2>4, OpensReplies
        <3> QED
            BY <2>1, <3>1, LookedStays
    <2> QED
        BY <1>5, <2>2, <2>3, <2>4 DEF SendsFile
<1>6. CASE Streams
    <2>1. at = "stream" /\ UNCHANGED <<request, reply, place>> /\ at' \in {"stream", "done"}
        BY <1>6 DEF Streams
    <2>2. reply'.status # 301
        BY <2>1 DEF Answering, Sending, Agrees
    <2>3. reply'.rows # {} =>
              Path # None /\ Path.slash /\ \A entry \in reply'.rows : Front(entry) = Target
        BY <2>1 DEF Looked
    <2> QED
        BY <2>1, <2>2, <2>3, LookedStays
<1> QED
    BY <1>1, <1>2, <1>3, <1>4, <1>5, <1>6, RoutesLooked DEF Answers

LEMMA FreshLooked ==
    ASSUME at' = "routing" \/ at' \in Resting
    PROVE  Looked'
BY DEF Looked, Resting

LEMMA NextLooked ==
    ASSUME Answering, Targeted, Looked, Next
    PROVE  Looked'
<1>1. CASE Takes \/ TimesOut
    BY <1>1, FreshLooked DEF Takes, TimesOut, Rests, Resting
<1>2. CASE Follows \/ Clicks \/ OpensFile \/ Asks
    BY <1>2, FreshLooked DEF Follows, Clicks, OpensFile, Asks, Receive, Goes
<1>3. CASE Changes \/ Edits
    <2>1. UNCHANGED <<at, request, place, missing, reply>>
        BY <1>3 DEF Changes, Edits, answer
    <2> QED
        BY <2>1, LookedStays, Zenon DEF Looked
<1> QED
    BY <1>1, <1>2, <1>3, AnswersLooked DEF Next

\* every answer is to the request that was asked
LEMMA AnswersSame ==
    ASSUME Answers
    PROVE  request' = request /\ at \notin Resting
BY DEF Answers, Routes, Stats, StatsIndex, Lists, Loses, SendsFile, Streams, Resting

LEMMA NextLinked ==
    ASSUME Answering, Targeted, Looked, Linked, Next
    PROVE  Linked'
<1>1. CASE Answers
    BY <1>1, AnswersSame, Zenon DEF Linked
<1>2. CASE Takes \/ TimesOut
    <2>1. at' \in Resting
        BY <1>2 DEF Takes, TimesOut, Rests, Resting
    <2> QED
        BY <2>1, Zenon DEF Linked
<1>3. CASE Follows
    <2>1. /\ at = "done" /\ reply.status = 301
          /\ request' = Request(request.method, Location(Path.names), request.range,
                                place, "redirect")
        BY <1>3, Zenon DEF Follows
    <2>2. Path # None /\ place = Resolve(Path.names) /\ request.target \in Seq(Pieces)
        BY <2>1 DEF Looked, Targeted, Target, Resting
    <2>3. Path.names \in Seq(Names)
        BY <2>2, RequestPathMeans, Zenon DEF Path
    <2>4. request'.target = Location(Path.names) /\ request'.of = place
          /\ request'.via = "redirect"
        BY <2>1 DEF Request
    <2> QED
        BY <2>2, <2>3, <2>4, Zenon DEF Linked, MadeFor
<1>4. CASE Clicks
    <2>1. PICK entry \in reply.rows :
              request' = Request(request.method, Front(Used(request.target)) \o Href(entry),
                                 request.range, entry, "row")
        BY <1>4, Zenon DEF Clicks
    <2>2. /\ at = "done" /\ reply.rows # {}
          /\ \A p \in Range(Used(request.target)) :
                 Len(Reads[p]) = 1 /\ Reads[p][1] \notin {".", ".."}
        BY <1>4, <2>1, Zenon DEF Clicks
    <2>3. at \in {"stream", "done"} /\ at \notin Resting
        BY <2>2 DEF Resting
    <2>4. entry \in Places /\ request.target \in Seq(Pieces)
        BY <2>3 DEF Targeted
    <2>5. Path # None /\ Path.slash /\ Front(entry) = Resolve(Path.names)
        BY <2>2, <2>3, Zenon DEF Looked, Target
    <2>6. Path.names \in Seq(Names)
        BY <2>4, <2>5, RequestPathMeans, Zenon DEF Path
    <2> DEFINE path == RequestPath(Front(Used(request.target)) \o Href(entry))
    <2>7. path # None /\ path.names = Append(Path.names, Last(entry))
          /\ (path.slash <=> entry \in Dirs)
        BY <2>2, <2>4, <2>5, HrefPath, Zenon DEF Path
    <2>8. /\ request'.target = Front(Used(request.target)) \o Href(entry)
          /\ request'.of = entry /\ request'.via = "row"
        BY <2>1 DEF Request
    <2> QED
        BY <2>4, <2>5, <2>6, <2>7, <2>8, Zenon DEF Linked, MadeFor
<1>5. CASE OpensFile
    <2>1. PICK f \in Files : Receive(Request("GET", UrlFor(f), NoRange, f, "open"))
        BY <1>5 DEF OpensFile
    <2>2. request'.target = UrlFor(f) /\ request'.of = f /\ request'.via = "open"
        BY <2>1 DEF Receive, Request
    <2> QED
        BY <2>2, Zenon DEF Linked, MadeFor
<1>6. CASE Asks
    <2>1. PICK r \in Asked : Receive(r)
        BY <1>6 DEF Asks
    <2>2. request' = r /\ r.of = None
        BY <2>1, AskedAssumption DEF Receive, Asking
    <2> QED
        BY <2>2, Zenon DEF Linked, MadeFor
<1>7. CASE Changes \/ Edits
    <2>1. UNCHANGED <<at, request>>
        BY <1>7 DEF Changes, Edits, answer
    <2> QED
        BY <2>1, Zenon DEF Linked
<1> QED
    BY <1>1, <1>2, <1>3, <1>4, <1>5, <1>6, <1>7 DEF Next

LEMMA LastIsLast ==
    ASSUME NEW s \in Places
    PROVE  Last(s) \in Names /\ s = Append(Front(s), Last(s))
<1> DEFINE n == Len(s)
           t == Append(Front(s), Last(s))
<1>1. s \in Seq(Names) /\ n \in Nat /\ n # 0
    BY NothingIsEmpty DEF Places
<1>2. Last(s) = s[n] /\ s[n] \in Names
    BY <1>1 DEF Last
<1>3. Front(s) \in Seq(Names) /\ Len(Front(s)) = n - 1
      /\ \A i \in 1 .. n - 1 : Front(s)[i] = s[i]
    <2> DEFINE m == n - 1
    <2>1. m \in Nat /\ m <= Len(s) /\ Front(s) = SubSeq(s, 1, m)
        BY <1>1 DEF Front
    <2> HIDE DEF m
    <2>2. SubSeq(s, 1, m) \in Seq(Names) /\ Len(SubSeq(s, 1, m)) = m
          /\ \A i \in 1 .. m : SubSeq(s, 1, m)[i] = s[i]
        BY <1>1, <2>1
    <2> QED
        BY <2>1, <2>2, Zenon DEF m
<1>4. t \in Seq(Names) /\ Len(t) = n /\ t[n] = s[n] /\ \A i \in 1 .. n - 1 : t[i] = s[i]
    <2> DEFINE f == Front(s)
               l == Last(s)
    <2> HIDE DEF f, l, n
    <2>1. f \in Seq(Names) /\ l \in Names /\ Len(f) = n - 1 /\ l = s[n] /\ n \in Nat /\ n # 0
          /\ \A i \in 1 .. n - 1 : f[i] = s[i]
        BY <1>1, <1>2, <1>3 DEF f, l
    <2> QED
        BY <2>1 DEF f, l
<1> HIDE DEF t
<1>5. \A i \in 1 .. n : s[i] = t[i]
    <2> TAKE i \in 1 .. n
    <2>1. i = n \/ i \in 1 .. n - 1
        BY <1>1
    <2> QED
        BY <1>4, <2>1
<1>6. s = t
    BY <1>1, <1>4, <1>5, SameElements, Zenon
<1> QED
    BY <1>2, <1>6 DEF t

LEMMA LocationWritten ==
    ASSUME NEW names \in Seq(Names), NEW i \in 1 .. Len(names)
    PROVE  names[i] \in Names /\ Raw[names[i]] \in Range(Location(names))
<1> DEFINE written == [j \in DOMAIN names |-> Raw[names[j]]]
           n == Len(names)
<1>1. n \in Nat /\ DOMAIN names = 1 .. n /\ \A j \in 1 .. n : names[j] \in Names
    OBVIOUS
<1>2. \A j \in 1 .. n : written[j] = Raw[names[j]] /\ written[j] \in Pieces
    BY <1>1, WrittenTyped, Zenon
<1>3. written = [j \in 1 .. n |-> written[j]]
    BY <1>1, Zenon
<1> HIDE DEF written
<1>4. written \in Seq(Pieces) /\ Len(written) = n
    <2> HIDE DEF n
    <2>1. [j \in 1 .. n |-> written[j]] \in Seq(Pieces) /\ Len([j \in 1 .. n |-> written[j]]) = n
        BY <1>1, <1>2
    <2> QED
        BY <1>3, <2>1, Zenon
<1>5. Location(names) = written \o <<"">>
    BY Zenon DEF Location, written
<1> DEFINE end == ""
           all == written \o <<end>>
<1>6. end \in Pieces
    BY EndTyped, Zenon
<1> HIDE DEF end
<1>7. all \in Seq(Pieces) /\ Len(all) = n + 1 /\ all[i] = written[i] /\ i \in 1 .. n + 1
    BY ONLY <1>1, <1>4, <1>6, OneMore DEF all, n
<1> HIDE DEF all
<1>8. i \in DOMAIN all
    BY <1>7
<1>9. written[i] \in Range(all)
    BY <1>7, <1>8, Zenon DEF Range
<1> QED
    BY <1>1, <1>2, <1>5, <1>9, Zenon DEF all, end

---------------------------------------------------------------------------
(* The frames *)

\* what has not been read is the end of what has been sent
Talking ==
    /\ sent \in Seq(ClientFrames) /\ inbox \in Seq(ClientFrames)
    /\ Len(inbox) <= Len(sent)
    /\ \A k \in 1 .. Len(inbox) : inbox[k] = sent[Len(sent) - Len(inbox) + k]
    /\ inbox = <<>> => arrived = "none"
    /\ pongs \in Seq(Nat)
    /\ PingsAnswered

LEMMA PingsCounted ==
    ASSUME NEW n \in Nat
    PROVE  /\ IsFiniteSet(Pings(n)) /\ Cardinality(Pings(n)) \in Nat
           /\ \A i \in Pings(n) : Cardinality(Pings(i)) \in 1 .. Cardinality(Pings(n))
<1>1. \A m \in Nat : IsFiniteSet(Pings(m)) /\ Cardinality(Pings(m)) \in Nat
    <2> TAKE m \in Nat
    <2>1. IsFiniteSet(1 .. m) /\ Pings(m) \subseteq 1 .. m
        BY FS_Interval DEF Pings
    <2>2. IsFiniteSet(Pings(m))
        BY <2>1, FS_Subset
    <2> QED
        BY <2>2, FS_CardinalityType
<1>2. ASSUME NEW i \in Pings(n)
      PROVE  Cardinality(Pings(i)) \in 1 .. Cardinality(Pings(n))
    <2>1. i \in Nat /\ i \in Pings(i) /\ Pings(i) \subseteq Pings(n)
        BY DEF Pings
    <2>2. Cardinality(Pings(i)) # 0
        BY <1>1, <2>1, FS_EmptySet
    <2>3. Cardinality(Pings(i)) <= Cardinality(Pings(n))
        BY <1>1, <2>1, FS_Subset
    <2> QED
        BY <1>1, <2>1, <2>2, <2>3
<1> QED
    BY <1>1, <1>2

\* one more frame
LEMMA PingsNext ==
    ASSUME NEW n \in Nat
    PROVE  LET one == sent[n + 1].kind = "ping" /\ sent[n + 1].length <= MaxFrame IN
           /\ one => /\ Pings(n + 1) = Pings(n) \cup {n + 1}
                     /\ Cardinality(Pings(n + 1)) = Cardinality(Pings(n)) + 1
           /\ ~one => Pings(n + 1) = Pings(n)
<1> DEFINE one == sent[n + 1].kind = "ping" /\ sent[n + 1].length <= MaxFrame
<1>1. 1 .. n + 1 = (1 .. n) \cup {n + 1} /\ n + 1 \notin 1 .. n
    OBVIOUS
<1>2. one => Pings(n + 1) = Pings(n) \cup {n + 1}
    BY <1>1 DEF Pings
<1>3. ~one => Pings(n + 1) = Pings(n)
    BY <1>1 DEF Pings
<1>4. n + 1 \notin Pings(n)
    BY <1>1 DEF Pings
<1>5. one => Cardinality(Pings(n + 1)) = Cardinality(Pings(n)) + 1
    BY <1>2, <1>4, PingsCounted, FS_AddElement
<1> QED
    BY <1>2, <1>3, <1>5

\* what has been sent stays, so the pings among what has been read stay
LEMMA PingsStay ==
    ASSUME NEW n \in Nat, \A i \in 1 .. n : sent'[i] = sent[i]
    PROVE  Pings(n)' = Pings(n)
BY DEF Pings

LEMMA SpeaksKeeps ==
    ASSUME Talking, Speaks
    PROVE  Talking'
<1>1. PICK frame \in ClientFrames : /\ sent' = Append(sent, frame)
                                    /\ inbox' = Append(inbox, frame)
    BY DEF Speaks
<1>2. UNCHANGED <<arrived, dropped, pongs>>
    BY DEF Speaks
<1>3. /\ sent \in Seq(ClientFrames) /\ inbox \in Seq(ClientFrames)
      /\ Len(inbox) \in Nat /\ Len(sent) \in Nat /\ Len(inbox) <= Len(sent)
      /\ \A k \in 1 .. Len(inbox) : inbox[k] = sent[Len(sent) - Len(inbox) + k]
    BY DEF Talking
<1> DEFINE read == Len(sent) - Len(inbox)
<1>4. /\ sent' \in Seq(ClientFrames) /\ inbox' \in Seq(ClientFrames)
      /\ Len(sent') = Len(sent) + 1 /\ Len(inbox') = Len(inbox) + 1
      /\ inbox' # <<>>
    BY <1>1, <1>3
<1>5. read \in Nat /\ Len(sent') - Len(inbox') = read
    BY <1>3, <1>4
<1>6. \A i \in 1 .. Len(sent) : sent'[i] = sent[i]
    BY <1>1, <1>3
<1>7. \A k \in 1 .. Len(inbox') : inbox'[k] = sent'[read + k]
    <2> TAKE k \in 1 .. Len(inbox')
    <2>1. CASE k <= Len(inbox)
        <3>1. k \in 1 .. Len(inbox) /\ read + k \in 1 .. Len(sent)
            BY <1>3, <1>4, <2>1
        <3>2. inbox'[k] = inbox[k]
            BY <1>1, <1>3, <3>1
        <3> QED
            BY <1>3, <1>6, <3>1, <3>2
    <2>2. CASE k = Len(inbox) + 1
        <3>1. inbox'[k] = frame /\ sent'[Len(sent) + 1] = frame /\ read + k = Len(sent) + 1
            BY <1>1, <1>3, <2>2
        <3> QED
            BY <3>1
    <2> QED
        BY <1>3, <1>4, <2>1, <2>2
<1>8. PingsAnswered'
    <2>1. \A m \in 0 .. read : Pings(m)' = Pings(m)
        <3> TAKE m \in 0 .. read
        <3>1. m \in Nat /\ \A i \in 1 .. m : sent'[i] = sent[i]
            BY <1>3, <1>5, <1>6
        <3> QED
            BY <3>1, PingsStay
    <2>2. \A i \in Pings(read) : i \in 1 .. read /\ sent'[i] = sent[i]
        BY <1>3, <1>5, <1>6 DEF Pings
    <2> SUFFICES ASSUME ~dropped'
                 PROVE  /\ Len(pongs) = Cardinality(Pings(read)')
                        /\ \A i \in Pings(read)' :
                               pongs[Cardinality(Pings(i)')] = Least(sent'[i].length, 125)
        BY <1>2, <1>5 DEF PingsAnswered
    <2>3. /\ Len(pongs) = Cardinality(Pings(read))
          /\ \A i \in Pings(read) : pongs[Cardinality(Pings(i))] = Least(sent[i].length, 125)
        BY <1>2 DEF Talking, PingsAnswered
    <2> QED
        BY <1>5, <2>1, <2>2, <2>3
<1>9. Len(inbox') <= Len(sent') /\ pongs' \in Seq(Nat)
    BY <1>2, <1>3, <1>4 DEF Talking
<1>10. \A k \in 1 .. Len(inbox') : inbox'[k] = sent'[Len(sent') - Len(inbox') + k]
    BY <1>5, <1>7
<1> QED
    BY <1>4, <1>8, <1>9, <1>10 DEF Talking

\* what answers nothing and reads nothing to its end
LEMMA StillTalking ==
    ASSUME Talking, UNCHANGED <<inbox, sent, pongs>>, dropped => dropped',
           inbox = <<>> => arrived' = "none"
    PROVE  Talking'
<1>1. PingsAnswered'
    BY DEF Talking, PingsAnswered, Pings
<1> QED
    BY <1>1 DEF Talking

\* the first frame is read, and what has not been read is what comes after it
LEMMA ForgetsShape ==
    ASSUME Talking, inbox # <<>>, Forgets, UNCHANGED sent
    PROVE  /\ inbox' \in Seq(ClientFrames) /\ Len(inbox') = Len(inbox) - 1
           /\ Len(inbox') <= Len(sent')
           /\ \A k \in 1 .. Len(inbox') : inbox'[k] = sent'[Len(sent') - Len(inbox') + k]
           /\ Len(sent) - Len(inbox) \in Nat
           /\ Len(sent') - Len(inbox') = Len(sent) - Len(inbox) + 1
           /\ sent[Len(sent) - Len(inbox) + 1] = Head(inbox)
           /\ Head(inbox) \in ClientFrames
<1>1. /\ sent \in Seq(ClientFrames) /\ inbox \in Seq(ClientFrames)
      /\ Len(inbox) \in Nat \ {0} /\ Len(sent) \in Nat /\ Len(inbox) <= Len(sent)
      /\ \A k \in 1 .. Len(inbox) : inbox[k] = sent[Len(sent) - Len(inbox) + k]
    BY DEF Talking
<1>2. /\ inbox' = Tail(inbox) /\ sent' = sent
      /\ inbox' \in Seq(ClientFrames) /\ Len(inbox') = Len(inbox) - 1
      /\ \A k \in 1 .. Len(inbox') : inbox'[k] = inbox[k + 1]
    BY <1>1 DEF Forgets
<1>3. ASSUME NEW k \in 1 .. Len(inbox')
      PROVE  inbox'[k] = sent'[Len(sent') - Len(inbox') + k]
    <2>1. /\ k + 1 \in 1 .. Len(inbox)
          /\ Len(sent) - Len(inbox) + (k + 1) = Len(sent') - Len(inbox') + k
        BY <1>1, <1>2
    <2> QED
        BY <1>1, <1>2, <2>1
<1>4. 1 \in 1 .. Len(inbox) /\ Head(inbox) = inbox[1] /\ Head(inbox) \in ClientFrames
    BY <1>1
<1> QED
    BY <1>1, <1>2, <1>3, <1>4

LEMMA ReadsFrameKeeps ==
    ASSUME Talking, ReadsFrame
    PROVE  Talking'
<1> DEFINE read == Len(sent) - Len(inbox)
           frame == Head(inbox)
           one == frame.kind = "ping" /\ frame.length <= MaxFrame
<1>1. inbox # <<>> /\ Forgets /\ ~dropped /\ UNCHANGED <<dropped, sent>>
    BY DEF ReadsFrame, Talking
<1>2. /\ inbox' \in Seq(ClientFrames) /\ Len(inbox') <= Len(sent')
      /\ \A k \in 1 .. Len(inbox') : inbox'[k] = sent'[Len(sent') - Len(inbox') + k]
      /\ read \in Nat /\ Len(sent') - Len(inbox') = read + 1
      /\ sent[read + 1] = frame /\ frame \in ClientFrames
    BY <1>1, ForgetsShape
<1>3. /\ frame.kind \in {"ping", "close", "text", "other"} /\ frame.length \in Nat
      /\ MaxFrame \in Nat
    BY <1>2, FramesAssumption
<1>4. IF one THEN pongs' = Append(pongs, Least(frame.length, 125)) ELSE pongs' = pongs
    BY <1>3 DEF ReadsFrame, Outcome, Ends, Pong, Least
<1>5. Least(frame.length, 125) \in Nat
    BY <1>3 DEF Least
<1>6. /\ pongs \in Seq(Nat) /\ Len(pongs) = Cardinality(Pings(read))
      /\ \A i \in Pings(read) : pongs[Cardinality(Pings(i))] = Least(sent[i].length, 125)
    BY <1>1 DEF Talking, PingsAnswered
<1> HIDE DEF read, frame
<1>7. pongs' \in Seq(Nat)
    <2>1. pongs \in Seq(Nat)
        BY <1>6
    <2>2. Append(pongs, Least(frame.length, 125)) \in Seq(Nat)
        BY <1>5, <2>1
    <2> QED
        BY <1>4, <2>1, <2>2
<1>8. /\ Len(pongs') = Cardinality(Pings(read + 1))
      /\ \A i \in Pings(read + 1) :
             pongs'[Cardinality(Pings(i))] = Least(sent[i].length, 125)
    <2>1. CASE one
        <3>1. /\ Pings(read + 1) = Pings(read) \cup {read + 1}
              /\ Cardinality(Pings(read + 1)) = Cardinality(Pings(read)) + 1
            BY <1>2, <2>1, PingsNext
        <3>2. /\ Len(pongs') = Len(pongs) + 1
              /\ pongs'[Len(pongs) + 1] = Least(frame.length, 125)
              /\ \A i \in 1 .. Len(pongs) : pongs'[i] = pongs[i]
            BY <1>4, <1>5, <1>6, <2>1
        <3>3. \A i \in Pings(read) : Cardinality(Pings(i)) \in 1 .. Len(pongs)
            BY <1>2, <1>6, PingsCounted
        <3> QED
            BY <1>2, <1>6, <3>1, <3>2, <3>3
    <2>2. CASE ~one
        <3>1. Pings(read + 1) = Pings(read)
            BY <1>2, <2>2, PingsNext
        <3> QED
            BY <1>4, <1>6, <2>2, <3>1
    <2> QED
        BY <2>1, <2>2
<1>9. \A n : Pings(n)' = Pings(n)
    BY <1>1 DEF Pings
<1>10. PingsAnswered'
    BY <1>1, <1>2, <1>8, <1>9 DEF PingsAnswered
<1>11. arrived' = "none" /\ sent' \in Seq(ClientFrames)
    BY <1>1 DEF Forgets, Talking
<1> QED
    BY <1>2, <1>7, <1>10, <1>11 DEF Talking

LEMMA ReadsAnythingKeeps ==
    ASSUME Talking, ReadsAnything
    PROVE  Talking'
<1>1. inbox # <<>> /\ Forgets /\ dropped' /\ UNCHANGED sent
    BY DEF ReadsAnything, Talking
<1>2. /\ inbox' \in Seq(ClientFrames) /\ Len(inbox') <= Len(sent')
      /\ \A k \in 1 .. Len(inbox') : inbox'[k] = sent'[Len(sent') - Len(inbox') + k]
    BY <1>1, ForgetsShape
<1>3. pongs \in Seq(Nat) /\ (pongs' = pongs \/ pongs' = Append(pongs, 0))
    BY DEF ReadsAnything, Outcome, Ends, Pong, Talking
<1>4. pongs' \in Seq(Nat) /\ PingsAnswered'
    BY <1>1, <1>3 DEF PingsAnswered
<1>5. arrived' = "none" /\ sent' \in Seq(ClientFrames)
    BY <1>1 DEF Forgets, Talking
<1> QED
    BY <1>2, <1>4, <1>5 DEF Talking

LEMMA ConversedKeeps ==
    ASSUME Talking, Conversed
    PROVE  Talking'
<1>1. CASE Leaves
    BY <1>1, StillTalking DEF Leaves, Talking
<1>2. CASE Arrives
    BY <1>2, StillTalking DEF Arrives
<1>3. CASE ReadsPart
    BY <1>3, StillTalking DEF ReadsPart, Talking
<1>4. CASE ReadsEnd
    BY <1>4, StillTalking DEF ReadsEnd, Ends, wire, Talking
<1>5. CASE Writes
    BY <1>5, StillTalking DEF Writes, Talking
<1>6. CASE Breaks
    BY <1>6, StillTalking DEF Breaks, Ends, wire, Talking
<1> QED
    BY <1>1, <1>2, <1>3, <1>4, <1>5, <1>6, SpeaksKeeps, ReadsFrameKeeps,
       ReadsAnythingKeeps DEF Conversed, Talks, Serves

\* the socket of an upgraded connection
Socketed ==
    /\ socket \in {"none", "open", "ended"} /\ (socket = "none" <=> at # "upgraded")
    /\ arrived \in {"none", "part", "all"} /\ (reading => arrived # "none")
    /\ Len(sent) <= MaxSent /\ pongs \in Seq(0 .. 125)

\* no response to a request opens a socket
LEMMA NextStays ==
    ASSUME Answering, at # "upgraded", Next
    PROVE  at' # "upgraded"
<1>1. CASE Routes
    BY <1>1 DEF Routes, RefusesMethod, RefusesTarget, SendsClient, Reserves, Finds,
                Responds, Goes
<1>2. CASE Stats \/ StatsIndex \/ Lists \/ Loses
    BY <1>2 DEF Stats, StatsIndex, Lists, Loses, Responds, Goes, Sends
<1>3. CASE SendsFile
    <2>1. CASE SendsText
        BY <2>1 DEF SendsText, Responds
    <2>2. CASE CannotRead
        BY <1>3, <2>2 DEF CannotRead, SendsFile, Goes, Answering, Underway
    <2>3. CASE Opens
        BY <2>3 DEF Opens
    <2> QED
        BY <1>3, <2>1, <2>2, <2>3 DEF SendsFile
<1>4. CASE Streams
    BY <1>4 DEF Streams
<1>5. CASE Takes \/ TimesOut
    BY <1>5 DEF Takes, TimesOut, Rests
<1>6. CASE Follows \/ Clicks
    BY <1>6 DEF Follows, Clicks
<1>7. CASE OpensFile \/ Asks
    BY <1>7 DEF OpensFile, Asks, Receive, Goes
<1>8. CASE Changes \/ Edits
    BY <1>8 DEF Changes, Edits, answer
<1> QED
    BY <1>1, <1>2, <1>3, <1>4, <1>5, <1>6, <1>7, <1>8 DEF Next, Answers

\* a conversation is one on an upgraded connection, and its answers fit a control frame
LEMMA ConversedSocketed ==
    ASSUME Talking, Socketed, Conversed
    PROVE  Socketed'
<1>1. socket = "open" /\ at = "upgraded" /\ at' = at
    BY DEF Conversed, Socketed, vars, answer
<1>2. pongs \in Seq(0 .. 125) /\ Len(sent) \in Nat /\ Len(sent) <= MaxSent
    BY DEF Socketed, Talking
<1>3. CASE Speaks
    <2>1. PICK frame \in ClientFrames : sent' = Append(sent, frame)
        BY <1>3 DEF Speaks
    <2>2. sent \in Seq(ClientFrames) /\ Len(sent) < MaxSent /\ MaxSent \in Nat
        BY <1>3, FramesAssumption DEF Speaks, Talking
    <2>3. Len(sent') <= MaxSent
        BY <1>2, <2>1, <2>2
    <2> QED
        BY <1>1, <1>3, <2>3 DEF Speaks, Socketed
<1>4. CASE Leaves \/ Arrives \/ Writes
    BY <1>1, <1>4 DEF Leaves, Arrives, Writes, Socketed
<1>5. CASE ReadsPart
    BY <1>1, <1>5 DEF ReadsPart, Socketed
<1>6. CASE ReadsEnd \/ Breaks
    BY <1>1, <1>6 DEF ReadsEnd, Breaks, Ends, wire, Socketed
<1>7. CASE ReadsFrame \/ ReadsAnything
    <2>1. arrived' = "none" /\ reading' = FALSE /\ sent' = sent
        BY <1>7 DEF ReadsFrame, ReadsAnything, Forgets
    <2>2. PICK n \in Nat :
              Ends \/ \E kind \in {"ping", "close", "text", "other"} : Outcome(kind, n)
        <3>1. CASE ReadsFrame
            <4>1. Head(inbox) \in ClientFrames
                <5>1. inbox \in Seq(ClientFrames) /\ inbox # <<>>
                    BY <3>1 DEF ReadsFrame, Talking
                <5> QED
                    BY <5>1
            <4>2. /\ Head(inbox).length \in Nat
                  /\ Head(inbox).kind \in {"ping", "close", "text", "other"}
                BY <4>1, FramesAssumption
            <4> QED
                BY <3>1, <4>2, Zenon DEF ReadsFrame
        <3>2. CASE ReadsAnything
            BY <3>2 DEF ReadsAnything
        <3> QED
            BY <1>7, <3>1, <3>2
    <2>3. Pong(n) \in 0 .. 125
        BY DEF Pong
    <2>4. Append(pongs, Pong(n)) \in Seq(0 .. 125)
        BY <1>2, <2>3
    <2>5. /\ socket' = "ended" \/ socket' = socket
          /\ pongs' = pongs \/ pongs' = Append(pongs, Pong(n))
        BY <2>2 DEF Ends, Outcome
    <2>6. pongs' \in Seq(0 .. 125)
        BY <1>2, <2>4, <2>5
    <2>7. socket' \in {"open", "ended"}
        BY <1>1, <2>5
    <2> QED
        BY <1>1, <1>2, <2>1, <2>6, <2>7 DEF Socketed
<1> QED
    BY <1>3, <1>4, <1>5, <1>6, <1>7 DEF Conversed, Talks, Serves

---------------------------------------------------------------------------
(* The connection *)

IInv == Answering /\ Targeted /\ Looked /\ Linked /\ Typed /\ Talking /\ Socketed

LEMMA AtFirst == WireInit => IInv
<1> SUFFICES ASSUME WireInit PROVE IInv
    OBVIOUS
<1>1. Disked
    <2>1. Max(Sizes) \in Sizes
        BY FilesAssumption, MaxIsOne
    <2> QED
        BY <2>1 DEF WireInit, Init, AsAtFirst, Disked
<1>2. Answering
    BY <1>1 DEF WireInit, Init, Answering, Underway, Stages, Begun, Sending, BodyIsRight,
                Redirected
<1>3. PingsAnswered
    <2>1. Len(sent) - Len(inbox) = 0 /\ pongs = <<>> /\ sent = <<>>
        BY DEF WireInit, FInit
    <2>2. Pings(0) = {}
        BY DEF Pings
    <2> QED
        BY <2>1, <2>2, FS_EmptySet DEF PingsAnswered
<1>4. Talking
    BY <1>3 DEF WireInit, FInit, Talking
<1>5. Targeted /\ Looked /\ Linked
    BY DEF WireInit, Init, Targeted, Looked, Linked, Resting
<1>6. Typed
    <2>1. Nowhere \in Handles /\ Unanswered \in Replies
        BY LongestBounds DEF Nowhere, Handles, Unanswered, Replies
    <2>2. Range(<<>>) \subseteq Marks /\ None \in PlacesOrNone /\ None \in Turns
        BY DEF Range, PlacesOrNone, Turns
    <2>3. at \in Resting /\ at \notin Begun /\ ~(at = "done")
        BY DEF WireInit, Init, Resting, Begun
    <2> QED
        BY <2>1, <2>2, <2>3 DEF WireInit, Init, Typed
<1>7. Socketed
    BY FramesAssumption DEF WireInit, Init, FInit, Socketed
<1> QED
    BY <1>2, <1>4, <1>5, <1>6, <1>7 DEF IInv

LEMMA Inductive == IInv /\ [WireNext]_wvars => IInv'
<1> SUFFICES ASSUME IInv, [WireNext]_wvars PROVE IInv'
    OBVIOUS
<1>1. ASSUME UNCHANGED vars
      PROVE  Answering' /\ Targeted' /\ Looked' /\ Linked'
    <2>1. UNCHANGED <<size, answer, shrunk>> /\ held' \in [Files -> {1, None}]
        BY <1>1 DEF vars, disk, IInv, Answering, Disked
    <2>2. Path' = Path /\ UNCHANGED <<at, request, place, reply>>
        BY <2>1 DEF answer, Path
    <2>3. Targeted' /\ Linked'
        BY <2>2, Zenon DEF IInv, Targeted, Linked
    <2>4. Looked'
        BY <2>1, LookedStays, Zenon DEF answer, IInv, Looked
    <2> QED
        BY <2>1, <2>3, <2>4, StillAnswering DEF IInv
<1>2. ASSUME UNCHANGED <<wire, pongs>>
      PROVE  Talking'
    BY <1>2, StillTalking DEF wire, IInv, Talking
<1>3. ASSUME UNCHANGED <<config, request, place, missing, handle, reply, body, shrunk>>,
             at' = at \/ (at = "idle" /\ at' = "upgraded")
      PROVE  Typed'
    <2>1. Typed
        BY DEF IInv
    <2>2. /\ at' \in Resting <=> at \in Resting
          /\ at' \in Begun <=> at \in Begun
          /\ at' = "done" <=> at = "done"
        BY <1>3 DEF Resting, Begun
    <2> QED
        BY <1>3, <2>1, <2>2, TypedAlike
<1>4. CASE Requested
    <2>1. Socketed'
        <3>1. at # "upgraded" /\ at' # "upgraded"
            BY <1>4, NextStays DEF Requested, IInv, Socketed
        <3> QED
            BY <1>4, <3>1 DEF Requested, fvars, wire, IInv, Socketed
    <2> QED
        BY <1>2, <1>4, <2>1, NextKeeps, NextTargeted, NextLooked, NextLinked, NextTyped
           DEF Requested, fvars, IInv
<1>5. CASE Upgrades
    <2>1. Socketed'
        BY <1>5 DEF Upgrades, wire, IInv, Socketed
    <2>2. Typed'
        BY <1>3, <1>5 DEF Upgrades, disk
    <2> QED
        BY <1>2, <1>5, <2>1, <2>2, UpgradesKeeps, FreshTargeted, FreshLooked
           DEF Upgrades, IInv, Linked, Resting
<1>6. CASE Conversed
    <2>1. Typed'
        BY <1>3, <1>6 DEF Conversed, vars, disk, answer
    <2> QED
        BY <1>1, <1>6, <2>1, ConversedKeeps, ConversedSocketed DEF Conversed, IInv
<1>7. CASE UNCHANGED wvars
    <2>1. Socketed'
        BY <1>7 DEF wvars, vars, answer, fvars, wire, IInv, Socketed
    <2>2. Typed'
        BY <1>3, <1>7 DEF wvars, vars, disk, answer
    <2> QED
        BY <1>1, <1>2, <1>7, <2>1, <2>2 DEF wvars, fvars, IInv
<1> QED
    BY <1>4, <1>5, <1>6, <1>7 DEF WireNext

\* The inductive invariant of a connection, for any site, any requests and any frames.
THEOREM Invariance == Spec => []IInv
BY AtFirst, Inductive, PTL DEF Spec

\* Every variable keeps to its type, outside a response nothing of one is left, and
\* only an upgraded connection has a socket (serve_connection and handle_websocket).
THEOREM TypeCorrect == Spec => []TypeOK
<1>1. IInv => TypeOK
    <2> SUFFICES ASSUME IInv PROVE TypeOK
        OBVIOUS
    <2>1. /\ size \in [Files -> Sizes \cup {None}] /\ held \in [Files -> {1, None}]
          /\ at \in {"idle", "routing", "stat", "index", "list", "lost", "gone", "send",
                     "stream", "done", "closed", "upgraded"}
          /\ at \notin {"stream", "done"} => reply = Unanswered /\ body = <<>>
        BY DEF IInv, Answering, Disked, Underway, Stages, Begun
    <2>2. (request = None) = (at \in {"idle", "closed", "upgraded"})
        <3>1. None \notin Wishes
            BY NoneAssumption, Zenon DEF Wishes
        <3>2. IF at \in Resting THEN request = None ELSE request \in Wishes
            BY Zenon DEF IInv, Typed
        <3>3. request = None <=> at \in Resting
            BY <3>1, <3>2, Zenon
        <3> QED
            BY <3>3 DEF Resting
    <2>3. /\ config \in Configs /\ shrunk \in BOOLEAN
          /\ place \in Seq(Names) \cup {None} /\ missing \in {None, "lost", "list", "gone"}
          /\ handle \in [size : Sizes \cup {0}, linked : BOOLEAN]
          /\ reply \in Replies /\ Range(body) \subseteq {ScriptMark} \cup 0 .. Longest
        BY Zenon DEF IInv, Typed, PlacesOrNone, Turns, Handles, Marks
    <2>4. /\ socket \in {"none", "open", "ended"} /\ (socket = "none") = (at # "upgraded")
          /\ arrived \in {"none", "part", "all"} /\ (reading => arrived # "none")
          /\ Len(sent) <= MaxSent /\ pongs \in Seq(0 .. 125)
        BY DEF IInv, Socketed
    <2>5. (inbox = <<>> => arrived = "none") /\ Len(inbox) <= Len(sent)
        BY DEF IInv, Talking
    <2> QED
        BY <2>1, <2>2, <2>3, <2>4, <2>5, Zenon DEF TypeOK
<1> QED
    BY <1>1, Invariance, PTL

\* Whatever files and overlay become while a request is answered, a body is as long
\* as its head says and the bytes the range means, in order (send_file and
\* parse_range, http.rs).
THEOREM BodyAlwaysRight == Spec => []BodyIsRight
<1>1. IInv => BodyIsRight
    BY DEF IInv, Answering
<1> QED
    BY <1>1, Invariance, PTL

\* However frames arrive in parts, as long as no read is dropped half-way each ping
\* that has been read has its pong, in order and cut to what fits (handle_websocket
\* in http.rs, read_frame and control_frame in ws.rs).
THEOREM PingsAlwaysAnswered == Spec => []PingsAnswered
<1>1. IInv => PingsAnswered
    BY DEF IInv, Talking
<1> QED
    BY <1>1, Invariance, PTL

\* However a target's dots and encoded slashes are mixed, it is taken for what its
\* segments mean and looked for under the longest route that leads to it, and only
\* what has no meaning is refused (request_path, resolve and longest_mount, http.rs).
THEOREM TargetAlwaysUnderstood == Spec => []TargetIsUnderstood
<1>1. IInv => TargetIsUnderstood
    <2> SUFFICES ASSUME IInv PROVE TargetIsUnderstood
        OBVIOUS
    <2>1. CASE at = "stat"
        <3> DEFINE names == Path.names
        <3>1. Path # None /\ place = Resolve(names) /\ request.target \in Seq(Pieces)
            BY <2>1 DEF IInv, Targeted, Resting
        <3>2. names \in Seq(Names) /\ names = Meaning(request.target) /\ names # None
            BY <3>1, RequestPathMeans, Zenon DEF Path
        <3> HIDE DEF names
        <3> QED
            BY <2>1, <3>1, <3>2, ResolveMeans DEF TargetIsUnderstood
    <2>2. CASE at = "done" /\ reply.status = 400
        <3>1. Path = None /\ request.target \in Seq(Pieces)
            BY <2>2 DEF IInv, Targeted, Resting
        <3>2. Meaning(request.target) = None
            BY <3>1, RequestPathMeans, Zenon DEF Path
        <3> QED
            BY <2>2, <3>2 DEF TargetIsUnderstood
    <2> QED
        BY <2>1, <2>2 DEF TargetIsUnderstood
<1> QED
    BY <1>1, Invariance, PTL

\* A link that the server has made, a URL it opens, a row of a listing, a redirect,
\* leads to what it was made for and is neither refused nor sent on once more, unless a
\* mount comes between or the redirect writes a name as it should not be written
\* (url_for, encode_segment, directory_listing and handle_request).
THEOREM LinksAlwaysLead == Spec => []LinksLead
<1>1. IInv => LinksLead
    <2> SUFFICES ASSUME IInv, request # None, request.of # None
                 PROVE  /\ (at = "stat" /\ ~Astray) => place = request.of
                        /\ (at = "done" /\ request.via # "redirect") => reply.status # 400
                        /\ (at = "done" /\ reply.status = 301) => Astray
        BY Zenon DEF LinksLead
    <2>1. at \notin Resting
        BY Zenon DEF IInv, Typed
    <2>2. MadeFor(request) /\ request.target \in Seq(Pieces)
        BY <2>1, Zenon DEF IInv, Linked, Targeted
    <2>3. /\ at = "stat" => Path # None /\ place = Resolve(Path.names)
          /\ at = "done" /\ reply.status = 400 => Path = None
          /\ at = "done" /\ reply.status = 301 =>
                /\ Path # None /\ ~Path.slash
                /\ place \in Dirs /\ place = Resolve(Path.names)
        BY Zenon DEF IInv, Targeted, Looked, Target
    <2>4. Dirs \cap Files = {} /\ Files \subseteq Seq(Names)
        BY FilesAssumption, PathsAre, Zenon
    <2>5. CASE request.via = "open" /\ request.of \in Files /\ request.target = UrlFor(request.of)
        <3>1. /\ Path # None
              /\ IsStrictPrefix(Root, request.of) =>
                    Path.names \in Seq(Names) /\ Root \o Path.names = request.of /\ ~Path.slash
            BY <2>4, <2>5, UrlForPath, Zenon DEF Path
        <3>2. ~Astray => Resolve(Path.names) = request.of
            <4>1. ~Astray => Matching(Path.names) = {} /\ IsStrictPrefix(Root, request.of)
                BY <2>5 DEF Astray
            <4> QED
                BY <3>1, <4>1, ResolveTyped, Zenon
        <3>3. place = request.of => place \notin Dirs
            BY <2>4, <2>5
        <3> QED
            BY <2>3, <3>1, <3>2, <3>3, Zenon
    <2>6. CASE /\ request.via = "row" /\ request.of \in Places
               /\ Path # None /\ (Path.slash <=> request.of \in Dirs)
               /\ \E names \in Seq(Names) : /\ Path.names = Append(names, Last(request.of))
                                            /\ Front(request.of) = Resolve(names)
        <3>1. PICK names \in Seq(Names) : /\ Path.names = Append(names, Last(request.of))
                                          /\ Front(request.of) = Resolve(names)
            BY <2>6, Zenon
        <3>2. /\ Last(request.of) \in Names
              /\ request.of = Append(Front(request.of), Last(request.of))
            BY <2>6, LastIsLast
        <3>3. Front(Path.names) = names
            BY <3>1, <3>2, Appended, Zenon
        <3>4. ~Astray => Matching(Path.names) = Matching(names)
            BY <2>6, <3>3 DEF Astray
        <3>5. ~Astray => Resolve(Path.names) = request.of
            BY <3>1, <3>2, <3>4, ResolveBelow, Zenon
        <3>6. at = "stat" /\ ~Astray => place = request.of
            BY <2>3, <3>5, Zenon
        <3>7. at = "done" => reply.status # 400
            BY <2>3, <2>6, Zenon
        <3>8. at = "done" /\ reply.status = 301 => Astray
            <4> HAVE at = "done" /\ reply.status = 301
            <4>1. ~Path.slash /\ place \in Dirs /\ place = Resolve(Path.names)
                BY <2>3, Zenon
            <4>2. request.of \notin Dirs
                BY <2>6, <4>1, Zenon
            <4>3. place # request.of
                <5>1. place \in Dirs
                    BY <4>1, Zenon
                <5> QED
                    BY ONLY <4>2, <5>1
            <4> QED
                BY <3>5, <4>1, <4>3, Zenon
        <3> QED
            BY <3>6, <3>7, <3>8, Zenon
    <2>7. CASE /\ request.via = "redirect"
               /\ \E names \in Seq(Names) : /\ request.target = Location(names)
                                            /\ request.of = Resolve(names)
        <3>1. PICK names \in Seq(Names) : /\ request.target = Location(names)
                                          /\ request.of = Resolve(names)
            BY <2>7, Zenon
        <3>2. ASSUME ~Astray
              PROVE  \A i \in 1 .. Len(names) : Raw[names[i]] = Encoded[names[i]]
            <4>1. \A n \in Names : Raw[n] \in Range(Location(names)) => Raw[n] = Encoded[n]
                BY <2>7, <3>1, <3>2 DEF Astray
            <4>2. ASSUME NEW i \in 1 .. Len(names)
                  PROVE  names[i] \in Names /\ Raw[names[i]] \in Range(Location(names))
                BY LocationWritten
            <4> QED
                BY <4>1, <4>2, Zenon
        <3>3. ~Astray => Path # None /\ Path.names = names /\ Path.slash
            BY <3>1, <3>2, LocationPath, Zenon DEF Path
        <3> QED
            BY <2>3, <2>7, <3>1, <3>3, Zenon
    <2> QED
        BY <2>2, <2>5, <2>6, <2>7, Zenon DEF MadeFor, Path
<1> QED
    BY <1>1, Invariance, PTL
================================================================================
