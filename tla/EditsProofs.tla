------------------------------- MODULE EditsProofs -------------------------------
(***************************************************************************)
(* Theorems about Edits for every set of characters, of any units and      *)
(* bytes, every text and every sequence of changes.                        *)
(***************************************************************************)
EXTENDS Edits, FiniteSetTheorems, WellFoundedInduction, TLAPS

---------------------------------------------------------------------------
(* Numbers *)

\* numbers are well-founded
LEMMA LeastOf ==
    ASSUME NEW T \in SUBSET Nat, T # {}
    PROVE  \E x \in T : \A y \in T : x <= y
<1>1. \E R : /\ IsWellFoundedOn(R, Nat)
             /\ \A x, y \in Nat : x < y => <<x, y>> \in R
    <2>1. \A x, y \in Nat : x < y => <<x, y>> \in OpToRel(<, Nat)
        BY Zenon DEF OpToRel
    <2> QED
        BY <2>1, NatLessThanWellFounded, Zenon
<1>2. PICK R : /\ IsWellFoundedOn(R, Nat)
               /\ \A x, y \in Nat : x < y => <<x, y>> \in R
    BY <1>1, Zenon
<1>3. PICK x \in T : \A y \in T : ~(<<y, x>> \in R)
    <2>1. IsWellFoundedOn(R, Nat)
        BY <1>2
    <2>2. T \subseteq Nat
        OBVIOUS
    <2>3. T # {}
        OBVIOUS
    <2> QED
        BY <2>1, <2>2, <2>3, WFMin, ZenonT(30)
<1>4. \A y \in T : x <= y
    <2> TAKE y \in T
    <2>1. x \in Nat /\ y \in Nat /\ ~(<<y, x>> \in R)
        BY <1>3
    <2>2. ~(y < x)
        BY <1>2, <2>1, Zenon
    <2> QED
        BY <2>1, <2>2
<1> QED
    BY <1>4

LEMMA FirstIsOne ==
    ASSUME NEW places \in SUBSET Nat, places # {}
    PROVE  First(places) \in places /\ \A i \in places : First(places) <= i
BY LeastOf, Zenon DEF First

\* some indices of a text have a last
LEMMA LastOfSome ==
    ASSUME NEW n \in Nat, NEW T \in SUBSET (0 .. n), T # {}
    PROVE  Max(T) \in T /\ \A i \in T : i <= Max(T)
<1>0. \A i \in T : i \in Nat
    OBVIOUS
<1> DEFINE Behind == {n - i : i \in T}
<1>1. Behind \in SUBSET Nat /\ Behind # {}
    OBVIOUS
<1>2. PICK b \in Behind : \A c \in Behind : b <= c
    BY <1>1, LeastOf
<1>3. \E i \in T : \A j \in T : i >= j
    <2>1. PICK i \in T : b = n - i
        OBVIOUS
    <2>2. \A j \in T : n - i <= n - j
        BY <1>2, <2>1
    <2> HIDE DEF Behind
    <2>3. i \in Nat
        BY <1>0
    <2>4. ASSUME NEW j \in T PROVE i >= j
        BY <1>0, <2>2, <2>3
    <2> QED
        BY <2>4
<1>4. Max(T) \in T /\ \A i \in T : Max(T) >= i
    BY <1>3, Zenon DEF Max
<1> QED
    BY <1>4

---------------------------------------------------------------------------
(* Lengths *)

LEMMA OneTo == \A n \in Nat : IsFiniteSet(1 .. n)
BY FS_Interval

LEMMA TotalCounts ==
    ASSUME NEW text \in Seq(Chars), NEW length \in [Chars -> Nat],
           NEW indices \in SUBSET (1 .. Len(text))
    PROVE  /\ IsFiniteSet(UNION {{k} \X (1 .. length[text[k]]) : k \in indices})
           /\ Total(length, text, indices) \in Nat
<1> DEFINE Parts(k) == {k} \X (1 .. length[text[k]])
<1>1. IsFiniteSet(indices)
    <2>1. IsFiniteSet(1 .. Len(text))
        BY OneTo
    <2> QED
        BY <2>1, FS_Subset
<1>2. \A k \in indices : IsFiniteSet(Parts(k))
    <2> TAKE k \in indices
    <2>1. length[text[k]] \in Nat
        OBVIOUS
    <2> HIDE DEF Parts
    <2>2. IsFiniteSet(1 .. length[text[k]])
        BY <2>1, OneTo
    <2>3. IsFiniteSet({k})
        BY FS_Singleton, Zenon
    <2> QED
        BY <2>2, <2>3, FS_Product DEF Parts
<1>3. IsFiniteSet({Parts(k) : k \in indices})
    <2> DEFINE f == [k \in indices |-> Parts(k)]
               All == {Parts(k) : k \in indices}
    <2> HIDE DEF Parts
    <2>1. f \in Surjection(indices, All)
        BY DEF Surjection
    <2> QED
        BY <1>1, <2>1, FS_Surjection
<1>4. IsFiniteSet(UNION {Parts(k) : k \in indices})
    <2> HIDE DEF Parts
    <2>1. \A T \in {Parts(k) : k \in indices} : IsFiniteSet(T)
        BY <1>2
    <2> QED
        BY <1>3, <2>1, FS_UNION
<1> QED
    BY <1>4, FS_CardinalityType DEF Total

\* more characters are no shorter, and longer if one of them has a length
LEMMA TotalGrows ==
    ASSUME NEW text \in Seq(Chars), NEW length \in [Chars -> Nat],
           NEW more \in SUBSET (1 .. Len(text)), NEW indices \in SUBSET more
    PROVE  /\ Total(length, text, indices) <= Total(length, text, more)
           /\ \A k \in more \ indices :
                  length[text[k]] # 0 =>
                      Total(length, text, indices) < Total(length, text, more)
<1> DEFINE Parts(k) == {k} \X (1 .. length[text[k]])
           All(ks) == UNION {Parts(k) : k \in ks}
<1>1. IsFiniteSet(All(more)) /\ All(indices) \in SUBSET All(more)
    BY TotalCounts
<1>2. Total(length, text, indices) \in Nat /\ Total(length, text, more) \in Nat
    <2>1. indices \in SUBSET (1 .. Len(text))
        OBVIOUS
    <2> QED
        BY <2>1, TotalCounts
<1>3. \A k \in more \ indices : length[text[k]] # 0 => All(indices) # All(more)
    <2> SUFFICES ASSUME NEW k \in more \ indices, length[text[k]] # 0
                 PROVE  All(indices) # All(more)
        OBVIOUS
    <2>1. length[text[k]] \in Nat
        OBVIOUS
    <2>2. 1 \in 1 .. length[text[k]]
        BY <2>1
    <2>3. <<k, 1>> \in All(more)
        <3>1. <<k, 1>> \in Parts(k)
            BY <2>2
        <3>2. k \in more
            OBVIOUS
        <3> QED
            BY <3>1, <3>2, Zenon
    <2>4. <<k, 1>> \notin All(indices)
        OBVIOUS
    <2> QED
        BY <2>3, <2>4, Zenon
<1>4. Total(length, text, indices) = Cardinality(All(indices))
      /\ Total(length, text, more) = Cardinality(All(more))
    BY Zenon DEF Total
<1> HIDE DEF All, Parts
<1>5. Cardinality(All(indices)) <= Cardinality(All(more))
      /\ (Cardinality(All(more)) = Cardinality(All(indices)) => All(more) = All(indices))
    BY <1>1, FS_Subset
<1> QED
    BY <1>2, <1>3, <1>4, <1>5

---------------------------------------------------------------------------
(* Places *)

LEMMA BytesTell ==
    ASSUME NEW text \in Seq(Chars), NEW i \in Places(text), NEW j \in Places(text)
    PROVE  /\ Bytes(text, i) \in Nat
           /\ i <= j => Bytes(text, i) <= Bytes(text, j)
           /\ i < j => Bytes(text, i) < Bytes(text, j)
           /\ Bytes(text, i) = Bytes(text, j) => i = j
<1>1. Len(text) \in Nat /\ i \in Nat /\ j \in Nat /\ i <= Len(text) /\ j <= Len(text)
    BY DEF Places
<1>2. Octets \in [Chars -> Nat] /\ \A c \in Chars : Octets[c] # 0
    BY CharsAssumption
<1>3. \A k \in Nat : k <= Len(text) => 1 .. k \in SUBSET (1 .. Len(text))
    BY <1>1
<1>4. \A k \in Nat : k <= Len(text) => Bytes(text, k) \in Nat
    BY <1>2, <1>3, TotalCounts, Zenon DEF Bytes
<1>5. ASSUME NEW k \in Nat, NEW m \in Nat, k < m, m <= Len(text)
      PROVE  Bytes(text, k) < Bytes(text, m)
    <2>1. /\ 1 .. m \in SUBSET (1 .. Len(text)) /\ 1 .. k \in SUBSET (1 .. m)
          /\ m \in (1 .. m) \ (1 .. k)
        BY <1>1, <1>5
    <2>2. text[m] \in Chars
        BY <1>1, <1>5
    <2>3. Octets[text[m]] # 0
        BY <1>2, <2>2
    <2> QED
        BY <1>2, <2>1, <2>3, TotalGrows, Zenon DEF Bytes
<1>6. i < j => Bytes(text, i) < Bytes(text, j)
    BY <1>1, <1>5
<1>7. j < i => Bytes(text, j) < Bytes(text, i)
    BY <1>1, <1>5
<1>8. Bytes(text, i) \in Nat /\ Bytes(text, j) \in Nat
    BY <1>1, <1>4
<1>9. i < j \/ i = j \/ j < i
    BY <1>1
<1> QED
    BY <1>1, <1>6, <1>7, <1>8, <1>9

\* the places of one line follow each other, and their columns grow
LEMMA PlacesInOrder ==
    ASSUME NEW text \in Seq(Chars), NEW i \in Places(text), NEW j \in Places(text), i < j
    PROVE  /\ Position(text, i).line \in Nat /\ Position(text, j).line \in Nat
           /\ Position(text, i).line <= Position(text, j).line
           /\ Position(text, i).line = Position(text, j).line =>
                  Position(text, i).column < Position(text, j).column
<1>1. Len(text) \in Nat /\ i \in Nat /\ j \in Nat /\ i <= Len(text) /\ j <= Len(text)
    BY DEF Places
<1>2. /\ Position(text, i).line = Cardinality(Newlines(text, i))
      /\ Position(text, j).line = Cardinality(Newlines(text, j))
      /\ Position(text, i).column = Total(Units, text, Before(text, i))
      /\ Position(text, j).column = Total(Units, text, Before(text, j))
    BY DEF Position
<1>3. Newlines(text, i) \in SUBSET Newlines(text, j)
    BY <1>1 DEF Newlines
<1>4. IsFiniteSet(Newlines(text, j))
    <2>1. Newlines(text, j) \in SUBSET (1 .. j)
        BY DEF Newlines
    <2> QED
        BY <1>1, <2>1, OneTo, FS_Subset
<1>5. /\ Cardinality(Newlines(text, i)) \in Nat /\ Cardinality(Newlines(text, j)) \in Nat
      /\ Cardinality(Newlines(text, i)) <= Cardinality(Newlines(text, j))
      /\ (Cardinality(Newlines(text, j)) = Cardinality(Newlines(text, i))
             => Newlines(text, j) = Newlines(text, i))
    BY <1>3, <1>4, FS_Subset, FS_CardinalityType
<1>6. ASSUME Newlines(text, j) = Newlines(text, i)
      PROVE  Total(Units, text, Before(text, i)) < Total(Units, text, Before(text, j))
    <2>1. \A m \in 1 .. j : text[m] = Newline => m <= i
        BY <1>6 DEF Newlines
    <2>2. Before(text, i) \in SUBSET Before(text, j)
        BY <1>1, <2>1 DEF Before
    <2>3. Before(text, j) \in SUBSET (1 .. Len(text))
        BY <1>1 DEF Before
    <2>4. j \in Before(text, j) \ Before(text, i)
        BY <1>1, <2>1 DEF Before
    <2>5. Units[text[j]] # 0 /\ Units \in [Chars -> Nat]
        <3>1. text[j] \in Chars
            BY <1>1
        <3>2. Units \in [Chars -> 1 .. 2]
            BY CharsAssumption
        <3> QED
            BY <3>1, <3>2
    <2> QED
        BY <2>2, <2>3, <2>4, <2>5, TotalGrows, Zenon
<1> QED
    BY <1>2, <1>5, <1>6

---------------------------------------------------------------------------
(* byte_offset *)

LineOf(text, position) == {i \in Places(text) : Position(text, i).line = position.line}
PlacesOf(text, position) ==
    {i \in LineOf(text, position) : Position(text, i).column >= position.column
                                    \/ i + 1 \notin LineOf(text, position)}

LEMMA OffsetSpelled ==
    ASSUME NEW text, NEW position
    PROVE  ByteOffset(text, position) =
               Bytes(text, IF LineOf(text, position) = {} THEN Len(text)
                           ELSE First(PlacesOf(text, position)))
BY Zenon DEF ByteOffset, LineOf, PlacesOf

\* every line has an end
LEMMA LineEnds ==
    ASSUME NEW text \in Seq(Chars), NEW position, LineOf(text, position) # {}
    PROVE  /\ PlacesOf(text, position) \in SUBSET Nat
           /\ PlacesOf(text, position) # {}
<1>1. LineOf(text, position) \in SUBSET (0 .. Len(text)) /\ Len(text) \in Nat
    BY DEF LineOf, Places
<1>2. PlacesOf(text, position) \in SUBSET LineOf(text, position)
    BY Zenon DEF PlacesOf
<1>3. \A i \in LineOf(text, position) : i \in Nat
    BY <1>1
<1> DEFINE last == Max(LineOf(text, position))
<1>4. last \in LineOf(text, position) /\ \A i \in LineOf(text, position) : i <= last
    BY <1>1, LastOfSome
<1>5. last + 1 \notin LineOf(text, position)
    <2> HIDE DEF last
    <2>1. last \in Nat
        BY <1>3, <1>4
    <2>2. ~(last + 1 <= last)
        BY <2>1
    <2> QED
        BY <1>4, <2>2
<1>6. last \in PlacesOf(text, position)
    BY <1>4, <1>5, Zenon DEF PlacesOf
<1> QED
    BY <1>2, <1>3, <1>6

\* whatever position is asked for, the offset is between two characters
LEMMA OffsetIsPlace ==
    ASSUME NEW text \in Seq(Chars), NEW position
    PROVE  \E i \in Places(text) : ByteOffset(text, position) = Bytes(text, i)
<1>1. CASE LineOf(text, position) = {}
    <2>1. Len(text) \in Places(text)
        BY DEF Places
    <2> QED
        BY <1>1, <2>1, OffsetSpelled
<1>2. CASE LineOf(text, position) # {}
    <2>1. First(PlacesOf(text, position)) \in PlacesOf(text, position)
        BY <1>2, LineEnds, FirstIsOne
    <2>2. First(PlacesOf(text, position)) \in Places(text)
        BY <2>1, Zenon DEF PlacesOf, LineOf
    <2> QED
        BY <1>2, <2>2, OffsetSpelled
<1> QED
    BY <1>1, <1>2

\* the position of a place is found again
LEMMA OffsetIsExact ==
    ASSUME NEW text \in Seq(Chars), NEW i \in Places(text)
    PROVE  ByteOffset(text, Position(text, i)) = Bytes(text, i)
<1> DEFINE position == Position(text, i)
           places == PlacesOf(text, position)
<1>1. i \in LineOf(text, position)
    BY Zenon DEF LineOf
<1>2. \A j \in Places(text) : j \in Nat
    BY DEF Places
<1>3. Position(text, i).column \in Nat
    <2>1. Before(text, i) \in SUBSET (1 .. Len(text))
        BY DEF Before, Places
    <2>2. Units \in [Chars -> Nat]
        BY CharsAssumption
    <2> QED
        BY <2>1, <2>2, TotalCounts, Zenon DEF Position
<1>4. i \in places
    <2>1. Position(text, i).column >= position.column
        BY <1>3
    <2> HIDE DEF position
    <2> QED
        BY <1>1, <2>1 DEF PlacesOf
<1>5. ASSUME NEW j \in places, j < i
      PROVE  FALSE
    <2>1. j \in LineOf(text, position) /\ j \in Places(text)
        BY <1>5, Zenon DEF PlacesOf, LineOf
    <2>2. Position(text, j).line = Position(text, i).line
        BY <2>1, Zenon DEF LineOf
    <2>3. Position(text, j).column < Position(text, i).column
        BY <1>5, <2>1, <2>2, PlacesInOrder
    <2>4. Position(text, j).column \in Nat
        <3>1. Before(text, j) \in SUBSET (1 .. Len(text))
            BY <2>1 DEF Before, Places
        <3>2. Units \in [Chars -> Nat]
            BY CharsAssumption
        <3> QED
            BY <3>1, <3>2, TotalCounts, Zenon DEF Position
    <2>5. j + 1 \notin LineOf(text, position)
        BY <1>3, <1>5, <2>3, <2>4 DEF PlacesOf
    <2>6. j + 1 \in Places(text) /\ j \in Nat /\ i \in Nat /\ j + 1 <= i
        BY <1>5, <2>1 DEF Places
    <2>7. CASE j + 1 = i
        BY <1>1, <2>5, <2>7
    <2>8. CASE j + 1 < i
        <3>1. /\ Position(text, j).line <= Position(text, j + 1).line
              /\ Position(text, j + 1).line <= Position(text, i).line
              /\ Position(text, j + 1).line \in Nat
              /\ Position(text, j).line \in Nat
            BY <2>1, <2>6, <2>8, PlacesInOrder
        <3>2. Position(text, j + 1).line = position.line
            BY <2>2, <3>1
        <3> HIDE DEF position
        <3> QED
            BY <2>5, <2>6, <3>2 DEF LineOf
    <2> QED
        BY <2>6, <2>7, <2>8
<1>6. places \in SUBSET Nat
    BY <1>1, LineEnds
<1>7. First(places) = i
    <2> HIDE DEF places
    <2>1. First(places) \in places /\ First(places) <= i
        BY <1>4, <1>6, FirstIsOne
    <2>2. First(places) \in Nat /\ i \in Nat
        BY <1>4, <1>6, <2>1
    <2>3. ~(First(places) < i)
        BY <1>5, <2>1
    <2> QED
        BY <2>1, <2>2, <2>3
<1> QED
    BY <1>1, <1>7, OffsetSpelled, Zenon

---------------------------------------------------------------------------
(* Changes *)

Positions == [line : Nat, column : Nat]
Changes == [whole : BOOLEAN, start : Positions, end : Positions, text : Seq(Chars)]

\* the change that makes one text of another
Makes(old, change, new) ==
    IF change.whole THEN new = change.text
    ELSE \E i \in Places(old) : \E j \in i .. Len(old) :
             /\ change.start = Position(old, i) /\ change.end = Position(old, j)
             /\ new = Replaced(old, i, j, change.text)

LEMMA ReplacedIsText ==
    ASSUME NEW text \in Seq(Chars), NEW i \in Places(text), NEW j \in Places(text),
           NEW new \in Seq(Chars)
    PROVE  Replaced(text, i, j, new) \in Seq(Chars)
<1>1. SubSeq(text, 1, i) \in Seq(Chars)
    BY DEF Places
<1>2. SubSeq(text, j + 1, Len(text)) \in Seq(Chars)
    BY DEF Places
<1> QED
    BY <1>1, <1>2 DEF Replaced

\* an offset is turned back into the one place it is the offset of
LEMMA BackAgain ==
    ASSUME NEW text \in Seq(Chars), NEW i \in Places(text)
    PROVE  \A offset : offset = Bytes(text, i) =>
               {j \in Places(text) : Bytes(text, j) = offset} = {i}
BY BytesTell

LEMMA OnlyChoice == \A S, x : S = {x} => (CHOOSE y \in S : TRUE) = x
OBVIOUS

\* handling a change splits no character, and makes the text it was made for of the
\* text it was made from
LEMMA ChangeApplies ==
    ASSUME copy \in Seq(Chars), NEW change \in Changes, Applied(change)
    PROVE  /\ ~panicked' /\ copy' \in Seq(Chars)
           /\ \A new : Makes(copy, change, new) => copy' = new
<1> DEFINE start == ByteOffset(copy, change.start)
           end == ByteOffset(copy, change.end)
           At(offset) == {i \in Places(copy) : Bytes(copy, i) = offset}
           ranged == ~change.whole /\ start <= end
           splits == At(start) = {} \/ At(end) = {}
           into == Replaced(copy, CHOOSE i \in At(start) : TRUE,
                            CHOOSE i \in At(end) : TRUE, change.text)
<1>1. /\ copy' = CASE change.whole -> change.text
                   [] ranged /\ ~splits -> into
                   [] OTHER -> copy
      /\ panicked' = (ranged /\ splits)
    BY Zenon DEF Applied
<1>2. PICK i \in Places(copy) : start = Bytes(copy, i)
    BY OffsetIsPlace
<1>3. PICK j \in Places(copy) : end = Bytes(copy, j)
    BY OffsetIsPlace
<1>4. ~splits
    BY <1>2, <1>3
<1>5. change.text \in Seq(Chars) /\ change.whole \in BOOLEAN
    BY DEF Changes
<1>6. into = Replaced(copy, i, j, change.text)
    <2>1. At(start) = {i} /\ At(end) = {j}
        BY <1>2, <1>3, BackAgain
    <2> HIDE DEF At, start, end
    <2>2. (CHOOSE k \in At(start) : TRUE) = i /\ (CHOOSE k \in At(end) : TRUE) = j
        BY <2>1, OnlyChoice, Zenon
    <2> QED
        BY <2>2, Zenon
<1>7. ~panicked'
    BY <1>1, <1>4, Zenon
<1>8. change.whole => copy' = change.text
    BY <1>1, Zenon
<1>9. ~change.whole /\ start <= end => copy' = Replaced(copy, i, j, change.text)
    <2> HIDE DEF start, end, At, splits, into
    <2> QED
        BY <1>1, <1>4, <1>6, Zenon
<1>10. ~change.whole /\ ~(start <= end) => copy' = copy
    <2> HIDE DEF start, end, At, splits, into
    <2> QED
        BY <1>1, Zenon
<1>11. copy' \in Seq(Chars)
    <2> HIDE DEF start, end, At, splits, into
    <2> QED
        BY <1>5, <1>8, <1>9, <1>10, ReplacedIsText
<1>12. ASSUME NEW new, Makes(copy, change, new)
       PROVE  copy' = new
    <2>1. CASE change.whole
        BY <1>8, <1>12, <2>1 DEF Makes
    <2>2. CASE ~change.whole
        <3>0. PICK k \in Places(copy) : \E m \in k .. Len(copy) :
                  /\ change.start = Position(copy, k) /\ change.end = Position(copy, m)
                  /\ new = Replaced(copy, k, m, change.text)
            BY <1>12, <2>2 DEF Makes
        <3>1. PICK m \in k .. Len(copy) :
                  /\ change.start = Position(copy, k) /\ change.end = Position(copy, m)
                  /\ new = Replaced(copy, k, m, change.text)
            BY <3>0
        <3>2. m \in Places(copy) /\ k <= m
            BY <3>1 DEF Places
        <3>3. start = Bytes(copy, k) /\ end = Bytes(copy, m)
            BY <3>1, <3>2, OffsetIsExact
        <3>4. k = i /\ m = j
            BY <1>2, <1>3, <3>2, <3>3, BytesTell
        <3>5. start <= end
            BY <3>2, <3>3, BytesTell
        <3> QED
            BY <1>9, <2>2, <3>1, <3>4, <3>5, Zenon
    <2> QED
        BY <2>1, <2>2
<1> QED
    BY <1>7, <1>11, <1>12

---------------------------------------------------------------------------
(* The changes on their way *)

\* one change after the other makes the second text of the first
Leads(from, changes, to) ==
    \E texts \in Seq(Seq(Chars)) :
        /\ Len(texts) = Len(changes) + 1
        /\ texts[1] = from /\ texts[Len(texts)] = to
        /\ \A k \in 1 .. Len(changes) : Makes(texts[k], changes[k], texts[k + 1])

LEMMA LeadsFurther ==
    ASSUME NEW from, NEW to, NEW changes \in Seq(Changes), Leads(from, changes, to),
           NEW change \in Changes, NEW new \in Seq(Chars), Makes(to, change, new)
    PROVE  Leads(from, Append(changes, change), new)
<1>1. PICK texts \in Seq(Seq(Chars)) :
          /\ Len(texts) = Len(changes) + 1
          /\ texts[1] = from /\ texts[Len(texts)] = to
          /\ \A k \in 1 .. Len(changes) : Makes(texts[k], changes[k], texts[k + 1])
    BY DEF Leads
<1> DEFINE more == Append(texts, new)
           all == Append(changes, change)
<1>2. /\ more \in Seq(Seq(Chars)) /\ all \in Seq(Changes) /\ Len(changes) \in Nat
      /\ Len(more) = Len(changes) + 2 /\ Len(all) = Len(changes) + 1
      /\ \A k \in 1 .. Len(changes) + 1 : more[k] = texts[k]
      /\ more[Len(changes) + 2] = new
      /\ \A k \in 1 .. Len(changes) : all[k] = changes[k]
      /\ all[Len(changes) + 1] = change
    BY <1>1
<1> HIDE DEF more, all
<1>3. ASSUME NEW k \in 1 .. Len(all)
      PROVE  Makes(more[k], all[k], more[k + 1])
    <2>1. CASE k \in 1 .. Len(changes)
        <3>1. /\ k \in 1 .. Len(changes) + 1 /\ k + 1 \in 1 .. Len(changes) + 1
            BY <1>2, <2>1
        <3>2. more[k] = texts[k] /\ more[k + 1] = texts[k + 1] /\ all[k] = changes[k]
            BY <1>2, <2>1, <3>1
        <3> QED
            BY <1>1, <2>1, <3>2
    <2>2. CASE k = Len(changes) + 1
        <3>1. k \in 1 .. Len(changes) + 1 /\ k + 1 = Len(changes) + 2
            BY <1>2, <2>2
        <3>2. more[k] = to /\ more[k + 1] = new /\ all[k] = change
            BY <1>1, <1>2, <2>2, <3>1
        <3> QED
            BY <3>2
    <2> QED
        BY <1>2, <2>1, <2>2
<1>4. more[1] = from /\ more[Len(more)] = new
    BY <1>1, <1>2
<1>5. Len(more) = Len(all) + 1
    BY <1>2
<1>6. Leads(from, all, new)
    BY <1>2, <1>3, <1>4, <1>5, Zenon DEF Leads
<1> QED
    BY <1>6 DEF all

LEMMA LeadsFromNext ==
    ASSUME NEW from, NEW to, NEW changes \in Seq(Changes), Leads(from, changes, to),
           changes # <<>>
    PROVE  \E next : Makes(from, Head(changes), next) /\ Leads(next, Tail(changes), to)
<1>1. PICK texts \in Seq(Seq(Chars)) :
          /\ Len(texts) = Len(changes) + 1
          /\ texts[1] = from /\ texts[Len(texts)] = to
          /\ \A k \in 1 .. Len(changes) : Makes(texts[k], changes[k], texts[k + 1])
    BY DEF Leads
<1> DEFINE fewer == Tail(texts)
           rest == Tail(changes)
<1>2. /\ fewer \in Seq(Seq(Chars)) /\ Len(changes) \in Nat /\ Len(changes) >= 1
      /\ Len(fewer) = Len(changes) /\ Len(rest) = Len(changes) - 1
      /\ \A k \in 1 .. Len(changes) : fewer[k] = texts[k + 1]
      /\ \A k \in 1 .. Len(changes) - 1 : rest[k] = changes[k + 1]
      /\ Head(changes) = changes[1]
    BY <1>1
<1> HIDE DEF fewer, rest
<1>3. Makes(from, Head(changes), texts[2])
    <2>1. 1 \in 1 .. Len(changes)
        BY <1>2
    <2> QED
        BY <1>1, <1>2, <2>1
<1>4. ASSUME NEW k \in 1 .. Len(rest)
      PROVE  Makes(fewer[k], rest[k], fewer[k + 1])
    <2>1. k + 1 \in 1 .. Len(changes) /\ k \in 1 .. Len(changes)
        BY <1>2
    <2>2. fewer[k] = texts[k + 1] /\ fewer[k + 1] = texts[k + 1 + 1]
          /\ rest[k] = changes[k + 1]
        BY <1>2, <2>1
    <2> QED
        BY <1>1, <2>1, <2>2
<1>5. fewer[1] = texts[2] /\ fewer[Len(fewer)] = to
    <2>1. 1 \in 1 .. Len(changes) /\ Len(changes) \in 1 .. Len(changes) /\ 1 + 1 = 2
        BY <1>2
    <2>2. fewer[1] = texts[1 + 1] /\ fewer[Len(changes)] = texts[Len(changes) + 1]
        BY <1>2, <2>1, Zenon
    <2> QED
        BY <1>1, <1>2, <2>1, <2>2, Zenon
<1>6. Leads(texts[2], rest, to)
    <2>1. Len(fewer) = Len(rest) + 1
        BY <1>2
    <2> QED
        BY <1>2, <1>4, <1>5, <2>1, Zenon DEF Leads
<1> QED
    BY <1>3, <1>6 DEF rest

---------------------------------------------------------------------------
(* The page *)

ScriptAt(page) == SelectInSeq(page, LAMBDA c : c = Script)

AroundScript(page, left, right) ==
    /\ {i \in DOMAIN page : page[i] = Script} = {ScriptAt(page)}
    /\ SubSeq(page, 1, ScriptAt(page) - 1) = left
    /\ SubSeq(page, ScriptAt(page) + 2, Len(page)) = right

LEMMA Around ==
    ASSUME NEW left \in Seq(Chars), NEW right \in Seq(Chars), NEW page,
           page = left \o <<Script, Newline>> \o right
    PROVE  AroundScript(page, left, right)
<1> DEFINE All == Chars \cup {Script}
           n == Len(left)
<1>1. Newline \in Chars /\ Script \notin Chars
    BY CharsAssumption
<1>2. /\ page \in Seq(All) /\ Len(page) = n + 2 + Len(right)
      /\ n \in Nat /\ Len(right) \in Nat
      /\ \A i \in 1 .. n : page[i] = left[i]
      /\ page[n + 1] = Script /\ page[n + 2] = Newline
      /\ \A i \in 1 .. Len(right) : page[n + 2 + i] = right[i]
    BY <1>1
<1>3. {i \in 1 .. Len(page) : page[i] = Script} = {n + 1}
    <2>1. n + 1 \in 1 .. Len(page)
        BY <1>2
    <2>2. ASSUME NEW i \in 1 .. Len(page), page[i] = Script
          PROVE  i = n + 1
        <3>1. CASE i \in 1 .. n
            <4>1. left[i] \in Chars
                BY <3>1
            <4> QED
                BY <1>1, <1>2, <2>2, <3>1, <4>1
        <3>2. CASE i = n + 2
            BY <1>1, <1>2, <2>2, <3>2
        <3>3. CASE i > n + 2
            <4>1. i - (n + 2) \in 1 .. Len(right) /\ n + 2 + (i - (n + 2)) = i
                BY <1>2, <3>3
            <4>2. right[i - (n + 2)] \in Chars /\ page[i] = right[i - (n + 2)]
                BY <1>2, <4>1
            <4> QED
                BY <1>1, <2>2, <4>2
        <3> QED
            BY <1>2, <3>1, <3>2, <3>3
    <2> QED
        BY <1>2, <2>1, <2>2
<1>4. ScriptAt(page) = n + 1
    <2>1. ScriptAt(page) =
              IF {i \in 1 .. Len(page) : page[i] = Script} # {}
              THEN Min({i \in 1 .. Len(page) : page[i] = Script}) ELSE 0
        BY Zenon DEF ScriptAt, SelectInSeq
    <2>2. Min({n + 1}) = n + 1
        BY <1>2 DEF Min
    <2> QED
        BY <1>3, <2>1, <2>2, Zenon
<1>5. SubSeq(page, 1, n) = left
    BY <1>2
<1>6. SubSeq(page, n + 3, Len(page)) = right
    <2>1. /\ SubSeq(page, n + 3, Len(page)) \in Seq(All)
          /\ Len(SubSeq(page, n + 3, Len(page))) = Len(right)
          /\ \A i \in 1 .. Len(right) :
                 SubSeq(page, n + 3, Len(page))[i] = page[n + 2 + i]
        BY <1>2
    <2> QED
        BY <1>2, <2>1
<1>7. DOMAIN page = 1 .. Len(page)
    BY <1>2
<1>8. ScriptAt(page) - 1 = n /\ ScriptAt(page) + 2 = n + 3
    BY <1>2, <1>4
<1> HIDE DEF n
<1> QED
    BY <1>3, <1>4, <1>5, <1>6, <1>7, <1>8 DEF AroundScript

\* the last tag of a text, if it has one
LEMMA TagFound ==
    ASSUME NEW text \in Seq(Chars), NEW tags
    PROVE  LET i == FindLastTag(text, tags)
           IN IF \E k \in DOMAIN text : text[k] \in tags
              THEN /\ i \in 1 .. Len(text) /\ text[i] \in tags
                   /\ \A k \in i + 1 .. Len(text) : text[k] \notin tags
              ELSE i = 0
<1> DEFINE I == {k \in 1 .. Len(text) : text[k] \in tags}
           i == FindLastTag(text, tags)
<1>1. i = IF I # {} THEN Max(I) ELSE 0
    BY Zenon DEF FindLastTag, SelectLastInSeq
<1>2. DOMAIN text = 1 .. Len(text) /\ Len(text) \in Nat
    OBVIOUS
<1>3. CASE I # {}
    <2>1. I \in SUBSET (0 .. Len(text))
        OBVIOUS
    <2> HIDE DEF I, i
    <2>2. Max(I) \in I /\ \A k \in I : k <= Max(I)
        BY <1>2, <1>3, <2>1, LastOfSome
    <2>3. i \in I /\ \A k \in I : k <= i
        BY <1>1, <1>3, <2>2, Zenon
    <2>4. i \in 1 .. Len(text) /\ text[i] \in tags
        BY <2>3 DEF I
    <2>5. \A k \in i + 1 .. Len(text) : text[k] \notin tags
        BY <2>3, <2>4 DEF I
    <2>6. \E k \in DOMAIN text : text[k] \in tags
        BY <1>2, <2>4
    <2> QED
        BY <2>4, <2>5, <2>6, Zenon DEF i
<1>4. CASE I = {}
    <2>1. ~\E k \in DOMAIN text : text[k] \in tags
        BY <1>2, <1>4
    <2>2. i = 0
        BY <1>1, <1>4, Zenon
    <2> QED
        BY <2>1, <2>2, Zenon
<1> QED
    BY <1>3, <1>4

Has(text, tags) == \E k \in DOMAIN text : text[k] \in tags
EndsWith(tags, after) == after # <<>> /\ Head(after) \in tags /\ ~Has(Tail(after), tags)

\* the text from its last tag on
LEMMA FromLastTag ==
    ASSUME NEW text \in Seq(Chars), NEW tags, Has(text, tags)
    PROVE  LET i == FindLastTag(text, tags)
           IN /\ i # 0
              /\ SubSeq(text, 1, i - 1) \in Seq(Chars)
              /\ SubSeq(text, i, Len(text)) \in Seq(Chars)
              /\ SubSeq(text, 1, i - 1) \o SubSeq(text, i, Len(text)) = text
              /\ EndsWith(tags, SubSeq(text, i, Len(text)))
<1> DEFINE i == FindLastTag(text, tags)
           after == SubSeq(text, i, Len(text))
<1>1. /\ i \in 1 .. Len(text) /\ text[i] \in tags
      /\ \A k \in i + 1 .. Len(text) : text[k] \notin tags
    BY TagFound, Zenon DEF Has
<1> HIDE DEF i
<1>2. /\ Len(text) \in Nat /\ after \in Seq(Chars) /\ SubSeq(text, 1, i - 1) \in Seq(Chars)
      /\ Len(after) = Len(text) - i + 1
      /\ \A k \in 1 .. Len(after) : after[k] = text[i + k - 1]
    BY <1>1
<1>3. SubSeq(text, 1, i - 1) \o after = text
    <2>1. i \in 1 .. Len(text) + 1
        BY <1>1, <1>2
    <2>2. Len(SubSeq(text, 1, i - 1)) = i - 1
          /\ \A k \in 1 .. i - 1 : SubSeq(text, 1, i - 1)[k] = text[k]
        BY <1>1, <1>2
    <2> QED
        BY <1>1, <1>2, <2>1, <2>2
<1>4. after # <<>> /\ Head(after) = text[i]
    <2> HIDE DEF after
    <2>1. Len(after) >= 1 /\ 1 \in 1 .. Len(after) /\ i + 1 - 1 = i
        BY <1>1, <1>2
    <2>2. after[1] = text[i]
        BY <1>2, <2>1
    <2> QED
        BY <1>2, <2>1, <2>2
<1>5. ~Has(Tail(after), tags)
    <2>1. Len(Tail(after)) = Len(text) - i /\ DOMAIN Tail(after) = 1 .. Len(text) - i
          /\ \A k \in 1 .. Len(text) - i : Tail(after)[k] = after[k + 1]
        BY <1>1, <1>2, <1>4
    <2> HIDE DEF after
    <2>2. ASSUME NEW k \in DOMAIN Tail(after)
          PROVE  Tail(after)[k] \notin tags
        <3>1. /\ k \in Int /\ k + 1 \in 1 .. Len(after) /\ i + (k + 1) - 1 = i + k
              /\ i + k \in i + 1 .. Len(text)
            BY <1>1, <1>2, <2>1
        <3>2. Tail(after)[k] = text[i + k]
            BY <1>2, <2>1, <3>1
        <3> QED
            BY <1>1, <3>1, <3>2
    <2> QED
        BY <2>2, Zenon DEF Has
<1>6. EndsWith(tags, after)
    BY <1>1, <1>4, <1>5 DEF EndsWith
<1>7. i # 0
    BY <1>1
<1> QED
    BY <1>2, <1>3, <1>6, <1>7, Zenon DEF i

\* the page of a text that is put together around the script
LEMMA PageIsRight ==
    ASSUME copy \in Seq(Chars), NEW left \in Seq(Chars), NEW right \in Seq(Chars),
           Inject(copy) = left \o <<Script, Newline>> \o right,
           left \o right \in {copy, Append(copy, Newline)},
           IF Has(copy, BodyEnd) THEN EndsWith(BodyEnd, right)
           ELSE IF Has(copy, HtmlEnd) THEN EndsWith(HtmlEnd, right) ELSE right = <<>>
    PROVE  ScriptIsPlaced
<1> DEFINE page == Inject(copy)
           at == ScriptAt(page)
           after == SubSeq(page, at + 2, Len(page))
<1>1. AroundScript(page, left, right)
    <2>1. page = left \o <<Script, Newline>> \o right
        OBVIOUS
    <2> HIDE DEF page
    <2> QED
        BY <2>1, Around
<1>2. /\ {i \in DOMAIN page : page[i] = Script} = {at}
      /\ SubSeq(page, 1, at - 1) = left
      /\ after = right
    <2> HIDE DEF page
    <2> QED
        BY <1>1 DEF AroundScript
<1> HIDE DEF page
<1>3. Cardinality({i \in DOMAIN page : page[i] = Script}) = 1
    BY <1>2, FS_Singleton
<1>4. SubSeq(page, 1, at - 1) \o after \in {copy, Append(copy, Newline)}
    BY <1>2
<1>5. IF Has(copy, BodyEnd) THEN EndsWith(BodyEnd, after)
      ELSE IF Has(copy, HtmlEnd) THEN EndsWith(HtmlEnd, after) ELSE after = <<>>
    BY <1>2
<1> QED
    BY <1>3, <1>4, <1>5, Zenon DEF page, ScriptIsPlaced, ScriptAt, Has, EndsWith

LEMMA PageOfText ==
    ASSUME copy \in Seq(Chars)
    PROVE  ScriptIsPlaced
<1> DEFINE body == FindLastTag(copy, BodyEnd)
           html == FindLastTag(copy, HtmlEnd)
           Upto(i) == SubSeq(copy, 1, i - 1)
           From(i) == SubSeq(copy, i, Len(copy))
<1>1. Inject(copy) = CASE body # 0 -> Upto(body) \o <<Script, Newline>> \o From(body)
                       [] body = 0 /\ html # 0 ->
                              Upto(html) \o <<Script, Newline>> \o From(html)
                       [] OTHER -> copy \o <<Newline, Script, Newline>>
    BY Zenon DEF Inject
<1>2. CASE Has(copy, BodyEnd)
    <2>1. /\ body # 0 /\ Upto(body) \in Seq(Chars) /\ From(body) \in Seq(Chars)
          /\ Upto(body) \o From(body) = copy /\ EndsWith(BodyEnd, From(body))
        BY <1>2, FromLastTag, Zenon
    <2>2. Inject(copy) = Upto(body) \o <<Script, Newline>> \o From(body)
        BY <1>1, <2>1, Zenon
    <2> HIDE DEF body, Upto, From
    <2> QED
        BY <1>2, <2>1, <2>2, PageIsRight, Zenon
<1>3. CASE ~Has(copy, BodyEnd) /\ Has(copy, HtmlEnd)
    <2>1. /\ html # 0 /\ Upto(html) \in Seq(Chars) /\ From(html) \in Seq(Chars)
          /\ Upto(html) \o From(html) = copy /\ EndsWith(HtmlEnd, From(html))
        BY <1>3, FromLastTag, Zenon
    <2>2. body = 0
        BY <1>3, TagFound, Zenon DEF Has
    <2>3. Inject(copy) = Upto(html) \o <<Script, Newline>> \o From(html)
        BY <1>1, <2>1, <2>2, Zenon
    <2> HIDE DEF html, Upto, From
    <2> QED
        BY <1>3, <2>1, <2>3, PageIsRight, Zenon
<1>4. CASE ~Has(copy, BodyEnd) /\ ~Has(copy, HtmlEnd)
    <2>1. body = 0 /\ html = 0
        BY <1>4, TagFound, Zenon DEF Has
    <2>2. Inject(copy) = copy \o <<Newline, Script, Newline>>
        BY <1>1, <2>1, Zenon
    <2>3. Newline \in Chars
        BY CharsAssumption
    <2>4. copy \o <<Newline, Script, Newline>>
              = Append(copy, Newline) \o <<Script, Newline>> \o <<>>
        BY <2>3
    <2>5. /\ Append(copy, Newline) \in Seq(Chars) /\ <<>> \in Seq(Chars)
          /\ Append(copy, Newline) \o <<>> = Append(copy, Newline)
        BY <2>3
    <2> QED
        BY <1>4, <2>2, <2>4, <2>5, PageIsRight
<1> QED
    BY <1>2, <1>3, <1>4

---------------------------------------------------------------------------
(* The document *)

IInv ==
    /\ editor \in Seq(Chars) /\ copy \in Seq(Chars) /\ pending \in Seq(Changes)
    /\ ~panicked
    /\ ~skipped => Leads(copy, pending, editor)

LEMMA AtFirst == Init => IInv
<1> SUFFICES ASSUME Init PROVE IInv
    OBVIOUS
<1>1. editor \in Seq(Chars) /\ copy = editor /\ pending = <<>>
    BY CharsAssumption DEF Init
<1>2. Leads(copy, pending, editor)
    <2> DEFINE texts == <<editor>>
    <2>1. texts \in Seq(Seq(Chars)) /\ Len(texts) = Len(pending) + 1 /\ texts[1] = copy
          /\ texts[Len(texts)] = editor /\ \A k \in 1 .. Len(pending) : FALSE
        BY <1>1
    <2> QED
        BY <2>1, Zenon DEF Leads
<1> QED
    BY <1>1, <1>2 DEF Init, IInv

LEMMA SendsKeeps ==
    ASSUME IInv, NEW text \in Seq(Chars), NEW change \in Changes,
           Makes(editor, change, text), Sends(text, change)
    PROVE  IInv'
<1>1. Leads(copy, Append(pending, change), text)
    BY LeadsFurther DEF IInv, Sends
<1> QED
    BY <1>1 DEF IInv, Sends

LEMMA PositionsAre ==
    ASSUME NEW text \in Seq(Chars), NEW i \in Places(text)
    PROVE  Position(text, i) \in Positions
<1>1. Before(text, i) \in SUBSET (1 .. Len(text)) /\ Newlines(text, i) \in SUBSET (1 .. i)
      /\ i \in Nat
    BY DEF Before, Newlines, Places
<1>2. Units \in [Chars -> Nat]
    BY CharsAssumption
<1>3. Total(Units, text, Before(text, i)) \in Nat
    BY <1>1, <1>2, TotalCounts
<1>4. Cardinality(Newlines(text, i)) \in Nat
    BY <1>1, OneTo, FS_Subset, FS_CardinalityType
<1> QED
    BY <1>3, <1>4 DEF Position, Positions

LEMMA TypesKeeps == IInv /\ Types => IInv'
<1> SUFFICES ASSUME IInv, Types PROVE IInv'
    OBVIOUS
<1>1. PICK i \in Places(editor) : \E new \in Inserts : \E j \in i .. Len(editor) :
          Sends(Replaced(editor, i, j, new),
                [whole |-> FALSE, start |-> Position(editor, i), end |-> Position(editor, j),
                 text |-> new])
    BY DEF Types
<1>2. PICK new \in Inserts : \E j \in i .. Len(editor) :
          Sends(Replaced(editor, i, j, new),
                [whole |-> FALSE, start |-> Position(editor, i), end |-> Position(editor, j),
                 text |-> new])
    BY <1>1
<1>3. PICK j \in i .. Len(editor) :
          Sends(Replaced(editor, i, j, new),
                [whole |-> FALSE, start |-> Position(editor, i), end |-> Position(editor, j),
                 text |-> new])
    BY <1>2
<1> DEFINE change == [whole |-> FALSE, start |-> Position(editor, i),
                      end |-> Position(editor, j), text |-> new]
<1>4. editor \in Seq(Chars) /\ new \in Seq(Chars) /\ j \in Places(editor)
    BY CharsAssumption DEF IInv, Places
<1>5. Replaced(editor, i, j, new) \in Seq(Chars)
    BY <1>4, ReplacedIsText
<1>6. change \in Changes
    BY <1>4, PositionsAre DEF Changes
<1>7. Makes(editor, change, Replaced(editor, i, j, new))
    BY <1>3 DEF Makes
<1> QED
    BY <1>3, <1>5, <1>6, <1>7, SendsKeeps

LEMMA ReloadsKeeps == IInv /\ Reloads => IInv'
<1> SUFFICES ASSUME IInv, Reloads PROVE IInv'
    OBVIOUS
<1>1. PICK new \in Starts :
          Sends(new, [whole |-> TRUE, start |-> Position(new, 0), end |-> Position(new, 0),
                      text |-> new])
    BY DEF Reloads
<1> DEFINE change == [whole |-> TRUE, start |-> Position(new, 0), end |-> Position(new, 0),
                      text |-> new]
<1>2. new \in Seq(Chars) /\ 0 \in Places(new)
    BY CharsAssumption DEF Places
<1>3. change \in Changes
    BY <1>2, PositionsAre DEF Changes
<1>4. Makes(editor, change, new)
    BY DEF Makes
<1> QED
    BY <1>1, <1>2, <1>3, <1>4, SendsKeeps

LEMMA AppliesKeeps == IInv /\ Applies => IInv'
<1> SUFFICES ASSUME IInv, Applies PROVE IInv'
    OBVIOUS
<1>1. /\ copy \in Seq(Chars) /\ Head(pending) \in Changes
      /\ pending' = Tail(pending) /\ Tail(pending) \in Seq(Changes)
      /\ Applied(Head(pending))
    BY DEF IInv, Applies
<1>2. /\ ~panicked' /\ copy' \in Seq(Chars)
      /\ \A new : Makes(copy, Head(pending), new) => copy' = new
    BY <1>1, ChangeApplies
<1>3. ~skipped => Leads(copy', Tail(pending), editor)
    <2> SUFFICES ASSUME ~skipped PROVE Leads(copy', Tail(pending), editor)
        OBVIOUS
    <2>1. PICK next : Makes(copy, Head(pending), next) /\ Leads(next, Tail(pending), editor)
        BY LeadsFromNext DEF IInv, Applies
    <2> QED
        BY <1>2, <2>1, Zenon
<1> QED
    BY <1>1, <1>2, <1>3 DEF IInv, Applies

LEMMA Inductive == IInv /\ [Next]_vars => IInv'
<1>1. IInv /\ Skips => IInv'
    BY DEF IInv, Skips
<1>2. IInv /\ UNCHANGED vars => IInv'
    BY DEF IInv, vars
<1> QED
    BY <1>1, <1>2, TypesKeeps, ReloadsKeeps, AppliesKeeps DEF Next

\* The inductive invariant: the changes on their way lead from the overlay's text to
\* the editor's.
THEOREM Invariance == Spec => []IInv
BY AtFirst, Inductive, PTL DEF Spec

\* Whatever is typed, in characters of any units and bytes, once the changes have been
\* handled the overlay holds what the editor shows (apply and byte_offset, overlay.rs).
THEOREM CopiesAgreeAlways == Spec => []CopiesAgree
<1>1. IInv => CopiesAgree
    <2> SUFFICES ASSUME IInv, pending = <<>>, ~skipped PROVE copy = editor
        BY DEF CopiesAgree
    <2>1. PICK texts : Len(texts) = Len(pending) + 1
                       /\ texts[1] = copy /\ texts[Len(texts)] = editor
        BY DEF IInv, Leads
    <2> QED
        BY <2>1
<1> QED
    BY <1>1, Invariance, PTL

\* No change, not even one that was made to another text, splits a character: an offset
\* is always between two of them (byte_offset, and replace_range in apply).
THEOREM NeverPanicsAtAll == Spec => []NeverPanics
<1>1. IInv => NeverPanics
    BY DEF IInv, NeverPanics
<1> QED
    BY <1>1, Invariance, PTL

\* Whatever tags a text has, the page made of it has the script once, before the last end
\* of its body or of the document or at its end, and is otherwise the text (inject.rs).
THEOREM ScriptAlwaysPlaced == Spec => []ScriptIsPlaced
<1>1. IInv => ScriptIsPlaced
    BY PageOfText DEF IInv
<1> QED
    BY <1>1, Invariance, PTL
================================================================================
