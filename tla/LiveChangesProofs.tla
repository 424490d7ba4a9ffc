-------------------------- MODULE LiveChangesProofs --------------------------
(***************************************************************************)
(* Theorems about LiveChanges for every set of documents and servers, and  *)
(* any number of writes, of edits in a notification, of changes of the     *)
(* setting and of notifications in flight.                                 *)
(***************************************************************************)
EXTENDS LiveChanges, FiniteSetTheorems, SequenceTheorems, TLAPS

-----------------------------------------------------------------------------
(***************************************************************************)
(* The notifications on their way, those that wait for the overlay first,  *)
(* and of these the ones about a document: which they are, the first, the  *)
(* last, and who follows whom.                                             *)
(***************************************************************************)
Coming == queue \o inbox

About(s, d) == {i \in 1..Len(s) : IsAbout(s[i], d)}
First(s, d, j) == j \in About(s, d) /\ \A k \in About(s, d) : j <= k
Final(s, d, i) == i \in About(s, d) /\ \A k \in About(s, d) : k <= i
Adjacent(s, d, i, j) ==
    /\ i \in About(s, d) /\ j \in About(s, d) /\ i < j
    /\ \A k \in About(s, d) : k <= i \/ j <= k

\* n can be sent after m, both about one document.
Linked(m, n) ==
    /\ n.kind = "open" => m.kind = "close"
    /\ n.kind = "change" => /\ m.kind \in {"open", "change", "save"}
                            /\ m.kind # "save" => m.after = n.before

\* n finds the overlay as the editor takes it to be, unless the document has lapsed.
Finds(d, n) ==
    /\ n.kind = "open" => d \in lapsed
    /\ n.kind = "change" => d \in lapsed \/ held[d] = n.before

\* m leads to what the editor shows.
Leads(d, m) ==
    IF d \in open
    THEN m.kind # "close" /\ (m.kind \in {"open", "change"} => m.after = text[d])
    ELSE m.kind = "close"

Agrees(d) == IF d \in open THEN d \in lapsed \/ held[d] = text[d] ELSE d \in lapsed

\* What the editor has sent, one notification after the other, leads from what
\* the overlay holds to what the editor shows.
FollowsBy(s, d) ==
    /\ \A i, j \in 1..Len(s) : Adjacent(s, d, i, j) => Linked(s[i], s[j])
    /\ \A j \in 1..Len(s) : First(s, d, j) => Finds(d, s[j])
    /\ \A i \in 1..Len(s) : Final(s, d, i) => Leads(d, s[i])
    /\ About(s, d) = {} => Agrees(d)
FollowInv == synced => \A d \in Docs \ torn : FollowsBy(Coming, d)

\* A server that did not ask for edits gets none.
Unedited(s) == \A i \in 1..Len(s) : s[i].kind # "change"
UnsyncedInv == ~synced => lapsed = Docs /\ Unedited(Coming)

\* Nothing about d but edits of an unknown document, which are ignored; and a save or
\* a close with nothing else after it.
Ranged(m) == m.kind = "change" /\ ~m.whole
OnlyRanged(s, d) == \A k \in About(s, d) : Ranged(s[k])
Barred(s, d) ==
    \E i \in About(s, d) : /\ s[i].kind \in {"save", "close"}
                           /\ \A k \in About(s, d) : k > i => Ranged(s[k])

\* What is closed or saved has a notification on its way that says so, or is forgotten.
MasksBy(s, d) ==
    (d \notin open \/ d \in released) =>
        \/ Barred(s, d)
        \/ OnlyRanged(s, d) /\ held[d] = Nothing /\ d \in lapsed
MaskInv == \A d \in Docs : MasksBy(Coming, d)

\* No change of the setting is handled that was not sent.
Configs(s) == {i \in 1..Len(s) : s[i].kind = "config"}
CountInv ==
    /\ Len(passes) + Cardinality(Configs(inbox)) <= toggles
    /\ \A p \in stops : p.pass <= Len(passes)

\* A text the overlay has lost track of has outlived a change of the setting, and two
\* if edits are taken again.
Edited(d) == \E i \in About(queue, d) : queue[i].kind = "change"
Outlived(d) ==
    /\ synced /\ d \in lapsed /\ held[d] # Nothing =>
           Len(passes) >= IF live \/ Edited(d) THEN 2 ELSE 1
    /\ held[d] = Garbled => synced /\ Len(passes) >= 2
Unasked == ~synced /\ (\/ live \/ \E d \in Docs : held[d] # Nothing
                       \/ \E i \in 1..Len(queue) : queue[i].kind = "open")
ToggleInv ==
    /\ synced /\ ~live => Len(passes) >= 1
    /\ Unasked => Len(passes) >= 1
    /\ \A d \in Docs \ torn : Outlived(d)

\* Every edit has a stamp of its own, and claims at most one number.
Changes(s) == {i \in 1..Len(s) : s[i].kind = "change"}
Stamped(s) == {s[i].after : i \in Changes(s)}
Claimants == {h.after : h \in claiming}
Waiting == Stamped(Coming) \cup Claimants
Single(s) == \A i, j \in Changes(s) : s[i].after = s[j].after => i = j
Distinct ==
    /\ Single(Coming)
    /\ \A h, g \in claiming : h.after = g.after => h = g
    /\ Stamped(Coming) \cap Claimants = {}
Claimed ==
    /\ Waiting \subseteq 1..stamp
    /\ keystroke <= Cardinality((1..stamp) \ Waiting)
ClaimInv == Distinct /\ Claimed

IInv == /\ TypeOK /\ FollowInv /\ UnsyncedInv /\ MaskInv
        /\ CountInv /\ ToggleInv /\ ClaimInv

-----------------------------------------------------------------------------
(***************************************************************************)
(* What the notifications are made of.                                     *)
(***************************************************************************)
LEMMA MessageShape ==
    ASSUME NEW m \in Messages
    PROVE  /\ m.kind \in {"open", "change", "save", "close", "config"}
           /\ m.kind # "config" => m.doc \in Docs /\ m \in Notices
           /\ m.kind \in {"open", "change"} => m.after \in Stamps
           /\ m.kind = "change" => /\ m.before \in Stamps /\ m.next \in Stamps
                                  /\ m.next <= m.after /\ m.whole \in BOOLEAN
           /\ m.kind = "config" => m.live \in BOOLEAN
BY DEF Messages, Notices, EditMessages

LEMMA NoticeShape == ASSUME NEW m \in Notices PROVE m \in Messages /\ m.kind # "config"
BY DEF Messages, Notices, EditMessages

LEMMA SentShape ==
    /\ \A d \in Docs, t \in Stamps : [kind |-> "open", doc |-> d, after |-> t] \in Messages
    /\ \A d \in Docs, s, n, t \in Stamps, w \in BOOLEAN : n <= t =>
           [kind |-> "change", doc |-> d, before |-> s, next |-> n, after |-> t, whole |-> w]
               \in Messages
    /\ \A d \in Docs : [kind |-> "save", doc |-> d] \in Messages
                       /\ [kind |-> "close", doc |-> d] \in Messages
    /\ \A b \in BOOLEAN : [kind |-> "config", live |-> b] \in Messages
BY DEF Messages, Notices, EditMessages

\* What is left of a change is about the same document and leads as far.
LEMMA RestShape ==
    ASSUME NEW m \in Notices, m.kind = "change", m.next # m.after, NEW r, r = Rest(m)
    PROVE  /\ r \in Notices /\ r.kind = "change" /\ r.doc = m.doc /\ r.whole = FALSE
           /\ r.before = m.next /\ r.after = m.after
<1>1. /\ m \in EditMessages /\ m.doc \in Docs /\ m.next \in Stamps /\ m.after \in Stamps
      /\ m.next <= m.after
    BY DEF Notices, EditMessages
<1>2. m.next + 1 \in Stamps /\ m.next + 1 <= m.after
    BY <1>1, BoundsAssumption DEF Stamps
<1>3. /\ m = [kind |-> "change", doc |-> m.doc, before |-> m.before, next |-> m.next,
              after |-> m.after, whole |-> m.whole]
    BY <1>1 DEF EditMessages
<1>4. r = [kind |-> "change", doc |-> m.doc, before |-> m.next, next |-> m.next + 1,
           after |-> m.after, whole |-> FALSE]
    BY <1>3 DEF Rest
<1>5. r \in EditMessages
    BY <1>1, <1>2, <1>4 DEF EditMessages
<1> QED
    BY <1>4, <1>5 DEF Notices

(***************************************************************************)
(* What the steps make of the notifications on their way: one is added, or *)
(* the n-th is taken away, or the first has become m and the q-th.         *)
(***************************************************************************)
Appends(s, m, t) ==
    /\ Len(s) \in Nat /\ Len(t) = Len(s) + 1
    /\ t[Len(s) + 1] = m
    /\ \A i \in 1..Len(s) : t[i] = s[i]
Removes(s, n, t) ==
    /\ Len(s) \in Nat /\ n \in 1..Len(s) /\ Len(t) = Len(s) - 1
    /\ \A i \in 1..Len(t) : t[i] = IF i < n THEN s[i] ELSE s[i + 1]
Rotates(s, q, m, t) ==
    /\ Len(s) \in Nat /\ q \in 1..Len(s) /\ Len(t) = Len(s)
    /\ \A i \in 1..Len(t) : t[i] = IF i < q THEN s[i + 1] ELSE IF i = q THEN m ELSE s[i]

LEMMA JoinShape ==
    ASSUME NEW q \in Seq(Notices), NEW b \in Seq(Messages), NEW s, s = q \o b
    PROVE  /\ s \in Seq(Messages) /\ Len(s) = Len(q) + Len(b) /\ Len(q) \in Nat /\ Len(b) \in Nat
           /\ \A i \in 1..Len(q) : s[i] = q[i]
           /\ \A i \in 1..Len(b) : s[Len(q) + i] = b[i]
           /\ \A i \in 1..Len(s) : s[i] = IF i <= Len(q) THEN q[i] ELSE b[i - Len(q)]
<1>1. q \in Seq(Messages)
    BY DEF Messages
<1>2. /\ s \in Seq(Messages) /\ Len(s) = Len(q) + Len(b) /\ Len(q) \in Nat /\ Len(b) \in Nat
      /\ \A i \in 1..(Len(q) + Len(b)) : s[i] = IF i <= Len(q) THEN q[i] ELSE b[i - Len(q)]
    BY <1>1, ConcatProperties
<1> QED
    BY <1>2

LEMMA SentJoins ==
    ASSUME NEW q \in Seq(Notices), NEW b \in Seq(Messages), NEW m \in Messages,
           NEW s, s = q \o b, NEW t, t = q \o Append(b, m)
    PROVE  Appends(s, m, t)
<1> DEFINE c == Append(b, m)
<1>1. c \in Seq(Messages) /\ Len(c) = Len(b) + 1 /\ c[Len(b) + 1] = m
      /\ \A i \in 1..Len(b) : c[i] = b[i]
    OBVIOUS
<1>2. /\ Len(s) = Len(q) + Len(b) /\ Len(q) \in Nat /\ Len(b) \in Nat
      /\ \A i \in 1..Len(s) : s[i] = IF i <= Len(q) THEN q[i] ELSE b[i - Len(q)]
    BY JoinShape
<1> HIDE DEF c
<1>3. /\ Len(t) = Len(q) + Len(c)
      /\ \A i \in 1..Len(t) : t[i] = IF i <= Len(q) THEN q[i] ELSE c[i - Len(q)]
    BY <1>1, JoinShape DEF c
<1> QED
    BY <1>1, <1>2, <1>3 DEF Appends

\* The head of the inbox goes to the end of the queue.
LEMMA MovedJoins ==
    ASSUME NEW q \in Seq(Notices), NEW b \in Seq(Messages), b # <<>>, Head(b) \in Notices
    PROVE  Append(q, Head(b)) \o Tail(b) = q \o b
<1> DEFINE h == Head(b)
<1>1. q \in Seq(Messages) /\ h \in Messages /\ Tail(b) \in Seq(Messages) /\ <<h>> \in Seq(Messages)
    BY HeadTailProperties DEF Messages
<1>2. Append(q, h) = q \o <<h>>
    BY <1>1, AppendIsConcat
<1>3. b = <<h>> \o Tail(b)
    <2>1. Len(b) \in Nat \ {0} /\ h = b[1]
        BY EmptySeq
    <2>2. 1 \in 1..Len(b) /\ Len(b) \in 1..Len(b)
        BY <2>1
    <2>3. SubSeq(b, 1, Len(b)) = <<b[1]>> \o SubSeq(b, 1 + 1, Len(b))
        BY <2>2, SubSeqRecursiveFirst
    <2>4. 1 + 1 = 2
        OBVIOUS
    <2> QED
        BY <2>1, <2>3, <2>4, SubSeqFull, TailIsSubSeq, Zenon
<1> HIDE DEF h
<1>4. (q \o <<h>>) \o Tail(b) = q \o (<<h>> \o Tail(b))
    BY <1>1, ConcatAssociative
<1> QED
    BY <1>2, <1>3, <1>4, Zenon DEF h

\* The head of the inbox is gone.
LEMMA PassedJoins ==
    ASSUME NEW q \in Seq(Notices), NEW b \in Seq(Messages), b # <<>>,
           NEW s, s = q \o b, NEW t, t = q \o Tail(b)
    PROVE  Removes(s, Len(q) + 1, t) /\ s[Len(q) + 1] = Head(b)
<1> DEFINE c == Tail(b)
<1>1. /\ c \in Seq(Messages) /\ Len(c) = Len(b) - 1 /\ Head(b) = b[1]
      /\ \A i \in 1..Len(c) : c[i] = b[i + 1]
    OBVIOUS
<1>2. /\ Len(s) = Len(q) + Len(b) /\ Len(q) \in Nat /\ Len(b) \in Nat
      /\ \A i \in 1..Len(s) : s[i] = IF i <= Len(q) THEN q[i] ELSE b[i - Len(q)]
    BY JoinShape
<1> HIDE DEF c
<1>3. /\ Len(t) = Len(q) + Len(c)
      /\ \A i \in 1..Len(t) : t[i] = IF i <= Len(q) THEN q[i] ELSE c[i - Len(q)]
    BY <1>1, JoinShape DEF c
<1>4. ASSUME NEW i \in 1..Len(t) PROVE t[i] = IF i < Len(q) + 1 THEN s[i] ELSE s[i + 1]
    <2>1. CASE i <= Len(q)
        BY <1>1, <1>2, <1>3, <2>1
    <2>2. CASE i > Len(q)
        <3>1. i - Len(q) \in 1..Len(c) /\ (i - Len(q)) + 1 = (i + 1) - Len(q)
              /\ i + 1 \in 1..Len(s)
            BY <1>1, <1>2, <1>3, <2>2
        <3> QED
            BY <1>1, <1>2, <1>3, <2>2, <3>1
    <2> QED
        BY <1>2, <1>3, <2>1, <2>2
<1>5. b # <<>> => Len(b) # 0
    OBVIOUS
<1>6. Len(q) + 1 \in 1..Len(s) /\ s[Len(q) + 1] = b[1] /\ Len(t) = Len(s) - 1
    BY <1>1, <1>2, <1>3, <1>5
<1> QED
    BY <1>1, <1>2, <1>4, <1>6 DEF Removes

\* The head of the queue is gone.
LEMMA DoneJoins ==
    ASSUME NEW q \in Seq(Notices), NEW b \in Seq(Messages), q # <<>>,
           NEW s, s = q \o b, NEW t, t = Tail(q) \o b
    PROVE  Removes(s, 1, t) /\ s[1] = Head(q)
<1> DEFINE r == Tail(q)
<1>1. /\ r \in Seq(Notices) /\ Len(r) = Len(q) - 1 /\ Head(q) = q[1] /\ Len(q) # 0
      /\ \A i \in 1..Len(r) : r[i] = q[i + 1]
    OBVIOUS
<1>2. /\ Len(s) = Len(q) + Len(b) /\ Len(q) \in Nat /\ Len(b) \in Nat
      /\ \A i \in 1..Len(s) : s[i] = IF i <= Len(q) THEN q[i] ELSE b[i - Len(q)]
    BY JoinShape
<1> HIDE DEF r
<1>3. /\ Len(t) = Len(r) + Len(b)
      /\ \A i \in 1..Len(t) : t[i] = IF i <= Len(r) THEN r[i] ELSE b[i - Len(r)]
    BY <1>1, JoinShape DEF r
<1>4. ASSUME NEW i \in 1..Len(t) PROVE t[i] = s[i + 1]
    <2>1. i + 1 \in 1..Len(s) /\ (i + 1) - Len(q) = i - Len(r)
        BY <1>1, <1>2, <1>3
    <2> QED
        BY <1>1, <1>2, <1>3, <2>1
<1> QED
    BY <1>1, <1>2, <1>3, <1>4 DEF Removes

\* The head of the queue goes to its end, as r.
LEMMA RestedJoins ==
    ASSUME NEW q \in Seq(Notices), NEW b \in Seq(Messages), q # <<>>, NEW r \in Notices,
           NEW s, s = q \o b, NEW t, t = Append(Tail(q), r) \o b
    PROVE  Rotates(s, Len(q), r, t) /\ s[1] = Head(q)
<1> DEFINE c == Tail(q)
           p == Append(c, r)
<1>1. /\ c \in Seq(Notices) /\ Len(c) = Len(q) - 1 /\ Head(q) = q[1] /\ Len(q) \in Nat \ {0}
      /\ \A i \in 1..Len(c) : c[i] = q[i + 1]
    BY HeadTailProperties
<1> HIDE DEF c
<1>2. /\ p \in Seq(Notices) /\ Len(p) = Len(c) + 1 /\ p[Len(c) + 1] = r
      /\ \A i \in 1..Len(c) : p[i] = c[i]
    BY <1>1, AppendProperties
<1> HIDE DEF p
<1>3. /\ Len(p) = Len(q) /\ p[Len(q)] = r
      /\ \A i \in 1..Len(q) : i < Len(q) => p[i] = q[i + 1]
    BY <1>1, <1>2
<1>4. /\ Len(s) = Len(q) + Len(b) /\ Len(b) \in Nat
      /\ \A i \in 1..Len(s) : s[i] = IF i <= Len(q) THEN q[i] ELSE b[i - Len(q)]
    BY JoinShape
<1>5. /\ Len(t) = Len(p) + Len(b)
      /\ \A i \in 1..Len(t) : t[i] = IF i <= Len(p) THEN p[i] ELSE b[i - Len(p)]
    BY <1>2, JoinShape DEF p, c
<1>6. ASSUME NEW i \in 1..Len(t)
      PROVE  t[i] = IF i < Len(q) THEN s[i + 1] ELSE IF i = Len(q) THEN r ELSE s[i]
    <2>1. CASE i < Len(q)
        <3>1. i \in 1..Len(q) /\ i + 1 \in 1..Len(s) /\ i + 1 <= Len(q)
            BY <1>1, <1>3, <1>4, <1>5, <2>1
        <3> QED
            BY <1>1, <1>3, <1>4, <1>5, <2>1, <3>1
    <2>2. CASE i = Len(q)
        BY <1>1, <1>3, <1>4, <1>5, <2>2
    <2>3. CASE i > Len(q)
        BY <1>1, <1>3, <1>4, <1>5, <2>3
    <2> QED
        BY <1>1, <1>3, <1>4, <1>5, <2>1, <2>2, <2>3
<1> QED
    BY <1>1, <1>3, <1>4, <1>5, <1>6 DEF Rotates

-----------------------------------------------------------------------------
(***************************************************************************)
(* What these do to the notifications about d.  Who comes first and last,  *)
(* and who follows whom, is found in the sequence as it was.               *)
(***************************************************************************)
Founds(s, t, d) ==
    /\ \A i : Final(t, d, i) => \E k : Final(s, d, k) /\ t[i] = s[k]
    /\ \A i, j : Adjacent(t, d, i, j) =>
           \E k, l : Adjacent(s, d, k, l) /\ t[i] = s[k] /\ t[j] = s[l]
Masks(s, t, d) ==
    /\ OnlyRanged(s, d) => OnlyRanged(t, d)
    /\ Barred(s, d) => Barred(t, d)
Keeps(s, t, d) ==
    /\ About(t, d) = {} => About(s, d) = {}
    /\ \A j : First(t, d, j) => \E k : First(s, d, k) /\ t[j] = s[k]
    /\ Founds(s, t, d) /\ Masks(s, t, d)

\* f leads from the places in t to those they had in s.
LEMMA KeepsBy ==
    ASSUME NEW s, NEW t, NEW d, NEW f,
           \A i \in About(s, d) : i \in Nat, \A i \in About(t, d) : i \in Nat,
           \A i \in About(t, d) : f[i] \in About(s, d) /\ t[i] = s[f[i]],
           \A k \in About(s, d) : \E i \in About(t, d) : f[i] = k,
           \A i, j \in About(t, d) : i < j <=> f[i] < f[j]
    PROVE  Keeps(s, t, d)
<1>1. About(t, d) = {} => About(s, d) = {}
    OBVIOUS
<1>2. \A i, j \in About(t, d) : f[i] <= f[j] => i <= j
    OBVIOUS
<1>2a. \A i, j \in About(t, d) : i <= j => f[i] <= f[j]
    OBVIOUS
<1>3. ASSUME NEW j, First(t, d, j) PROVE First(s, d, f[j]) /\ t[j] = s[f[j]]
    BY <1>2a, <1>3 DEF First
<1>4. ASSUME NEW j, Final(t, d, j) PROVE Final(s, d, f[j]) /\ t[j] = s[f[j]]
    BY <1>2a, <1>4 DEF Final
<1>5. ASSUME NEW i, NEW j, Adjacent(t, d, i, j)
      PROVE  Adjacent(s, d, f[i], f[j]) /\ t[i] = s[f[i]] /\ t[j] = s[f[j]]
    <2>1. ASSUME NEW k \in About(s, d) PROVE k <= f[i] \/ f[j] <= k
        <3>1. PICK l \in About(t, d) : f[l] = k
            OBVIOUS
        <3>2. l <= i \/ j <= l
            BY <1>5 DEF Adjacent
        <3> QED
            BY <1>2a, <1>5, <3>1, <3>2 DEF Adjacent
    <2> QED
        BY <1>5, <2>1 DEF Adjacent
<1>6. OnlyRanged(s, d) => OnlyRanged(t, d)
    BY DEF OnlyRanged
<1>7. ASSUME Barred(s, d) PROVE Barred(t, d)
    <2>1. PICK k \in About(s, d) : /\ s[k].kind \in {"save", "close"}
                                   /\ \A l \in About(s, d) : l > k => Ranged(s[l])
        BY <1>7 DEF Barred
    <2>2. PICK i \in About(t, d) : f[i] = k
        OBVIOUS
    <2>3. t[i].kind \in {"save", "close"}
        BY <2>1, <2>2, Zenon
    <2>4. \A j \in About(t, d) : j > i => Ranged(t[j])
        BY ONLY <2>1, <2>2, \A j \in About(t, d) : f[j] \in About(s, d) /\ t[j] = s[f[j]],
                \A j \in About(t, d) : i < j <=> f[i] < f[j],
                \A j \in About(s, d) : j \in Nat, \A j \in About(t, d) : j \in Nat
    <2> QED
        BY <2>3, <2>4, Zenon DEF Barred
<1>8. Masks(s, t, d)
    BY <1>6, <1>7 DEF Masks
<1>9. Founds(s, t, d)
    BY <1>4, <1>5 DEF Founds
<1> QED
    BY <1>1, <1>3, <1>8, <1>9 DEF Keeps

LEMMA AppendsKeeps ==
    ASSUME NEW s, NEW m, NEW t, NEW d, Appends(s, m, t), ~IsAbout(m, d)
    PROVE  Keeps(s, t, d)
<1> DEFINE f == [i \in 1..Len(t) |-> i]
<1>1. /\ \A i : i \in About(t, d) <=> i \in About(s, d)
      /\ \A i \in About(t, d) : i \in Nat /\ f[i] = i /\ t[i] = s[i]
    BY DEF Appends, About
<1> HIDE DEF f
<1> QED
    BY <1>1, KeepsBy

LEMMA RemovesKeeps ==
    ASSUME NEW s, NEW n, NEW t, NEW d, Removes(s, n, t), ~IsAbout(s[n], d)
    PROVE  Keeps(s, t, d)
<1> DEFINE f == [i \in 1..Len(t) |-> IF i < n THEN i ELSE i + 1]
<1>1. /\ Len(s) \in Nat /\ n \in 1..Len(s) /\ Len(t) = Len(s) - 1
      /\ \A i \in 1..Len(t) : f[i] = (IF i < n THEN i ELSE i + 1) /\ t[i] = s[f[i]]
    BY DEF Removes
<1> HIDE DEF f
<1>2. /\ \A i \in 1..Len(t) : f[i] \in 1..Len(s)
      /\ \A i, j \in 1..Len(t) : i < j <=> f[i] < f[j]
      /\ \A k \in 1..Len(s) : k = n \/ \E i \in 1..Len(t) : f[i] = k
    <2>1. ASSUME NEW k \in 1..Len(s), k # n PROVE \E i \in 1..Len(t) : f[i] = k
        <3>1. CASE k < n
            BY <1>1, <3>1
        <3>2. CASE k > n
            <4>1. k - 1 \in 1..Len(t) /\ f[k - 1] = k
                BY <1>1, <3>2
            <4> QED
                BY <4>1
        <3> QED
            BY <1>1, <2>1, <3>1, <3>2
    <2>2. \A i \in 1..Len(t) : f[i] \in 1..Len(s)
        BY <1>1
    <2>3. \A i, j \in 1..Len(t) : i < j <=> f[i] < f[j]
        BY <1>1
    <2> QED
        BY <2>1, <2>2, <2>3, Zenon
<1>3. /\ \A i \in About(t, d) : f[i] \in About(s, d) /\ t[i] = s[f[i]]
      /\ \A k \in About(s, d) : \E i \in About(t, d) : f[i] = k
    BY <1>1, <1>2, Zenon DEF About
<1>4. /\ \A i \in About(t, d) : i \in Nat /\ i \in 1..Len(t)
      /\ \A i \in About(s, d) : i \in Nat
    BY <1>1 DEF About
<1> QED
    BY <1>2, <1>3, <1>4, KeepsBy

LEMMA RotatesKeeps ==
    ASSUME NEW s, NEW q, NEW m, NEW t, NEW d, Rotates(s, q, m, t),
           ~IsAbout(s[1], d), ~IsAbout(m, d)
    PROVE  Keeps(s, t, d)
<1> DEFINE f == [i \in 1..Len(t) |-> IF i < q THEN i + 1 ELSE i]
<1>1. /\ Len(s) \in Nat /\ q \in 1..Len(s) /\ Len(t) = Len(s)
      /\ \A i \in 1..Len(t) : f[i] = (IF i < q THEN i + 1 ELSE i)
      /\ \A i \in 1..Len(t) : i # q => t[i] = s[f[i]]
      /\ t[q] = m
    BY DEF Rotates
<1> HIDE DEF f
<1>2. q \notin About(t, d) /\ 1 \notin About(s, d)
    BY <1>1 DEF About
<1>3. /\ \A i \in 1..Len(t) : f[i] \in 1..Len(s)
      /\ \A i, j \in 1..Len(t) \ {q} : i < j <=> f[i] < f[j]
      /\ \A k \in 1..Len(s) : k = 1 \/ \E i \in 1..Len(t) \ {q} : f[i] = k
    <2>1. ASSUME NEW k \in 1..Len(s), k # 1 PROVE \E i \in 1..Len(t) \ {q} : f[i] = k
        <3>1. CASE k <= q
            <4>1. k - 1 \in 1..Len(t) \ {q} /\ f[k - 1] = k
                BY <1>1, <2>1, <3>1
            <4> QED
                BY <4>1
        <3>2. CASE k > q
            BY <1>1, <3>2
        <3>3. q \in Nat /\ k \in Nat
            BY <1>1
        <3>4. k <= q \/ k > q
            BY <3>3
        <3> QED
            BY <3>1, <3>2, <3>4, Zenon
    <2>2. \A k \in 1..Len(s) : k = 1 \/ \E i \in 1..Len(t) \ {q} : f[i] = k
        BY <2>1, Zenon
    <2>3. \A i \in 1..Len(t) : f[i] \in 1..Len(s)
        BY <1>1
    <2>4. \A i, j \in 1..Len(t) \ {q} : i < j <=> f[i] < f[j]
        BY <1>1
    <2> QED
        BY <2>2, <2>3, <2>4
<1>4. /\ \A i \in About(t, d) : f[i] \in About(s, d) /\ t[i] = s[f[i]]
      /\ \A k \in About(s, d) : \E i \in About(t, d) : f[i] = k
    BY <1>1, <1>2, <1>3, Zenon DEF About
<1>5. /\ \A i \in About(t, d) : i \in Nat /\ i \in 1..Len(t) \ {q}
      /\ \A i \in About(s, d) : i \in Nat
    BY <1>1, <1>2 DEF About
<1> QED
    BY <1>3, <1>4, <1>5, KeepsBy

\* m, about d, is added.
Grows(s, m, t, d) ==
    /\ About(t, d) # {}
    /\ \A j : First(t, d, j) => \/ First(s, d, j) /\ t[j] = s[j]
                                \/ About(s, d) = {} /\ t[j] = m
    /\ \A i : Final(t, d, i) => t[i] = m
    /\ \A i, j : Adjacent(t, d, i, j) =>
           \/ Adjacent(s, d, i, j) /\ t[i] = s[i] /\ t[j] = s[j]
           \/ Final(s, d, i) /\ t[i] = s[i] /\ t[j] = m

LEMMA AppendsGrows ==
    ASSUME NEW s, NEW m, NEW t, NEW d, Appends(s, m, t), IsAbout(m, d)
    PROVE  Grows(s, m, t, d)
<1> DEFINE new == Len(s) + 1
<1>1. /\ t[new] = m /\ new \in Nat /\ new \in About(t, d)
      /\ \A i : i \in About(t, d) <=> i \in About(s, d) \/ i = new
      /\ \A i \in About(s, d) : i \in Nat /\ i < new /\ t[i] = s[i]
    BY DEF Appends, About
<1> HIDE DEF new
<1>2. ASSUME NEW j, First(t, d, j)
      PROVE  \/ First(s, d, j) /\ t[j] = s[j]
             \/ About(s, d) = {} /\ t[j] = m
    <2>1. CASE j = new
        <3>1. \A k \in About(s, d) : FALSE
            BY <1>1, <1>2, <2>1 DEF First
        <3> QED
            BY <1>1, <2>1, <3>1
    <2>2. CASE j # new
        BY <1>1, <1>2, <2>2 DEF First
    <2> QED
        BY <2>1, <2>2
<1>3. ASSUME NEW i, Final(t, d, i) PROVE t[i] = m
    BY <1>1, <1>3 DEF Final
<1>4. ASSUME NEW i, NEW j, Adjacent(t, d, i, j)
      PROVE  \/ Adjacent(s, d, i, j) /\ t[i] = s[i] /\ t[j] = s[j]
             \/ Final(s, d, i) /\ t[i] = s[i] /\ t[j] = m
    <2>1. i \in About(s, d) /\ i < j
        BY <1>1, <1>4 DEF Adjacent
    <2>2. CASE j = new
        BY <1>1, <1>4, <2>1, <2>2 DEF Adjacent, Final
    <2>3. CASE j # new
        BY <1>1, <1>4, <2>1, <2>3 DEF Adjacent
    <2> QED
        BY <2>2, <2>3
<1> QED
    BY <1>1, <1>2, <1>3, <1>4 DEF Grows

\* The n-th, the first about d, is taken away.
Sheds(s, n, t, d) ==
    /\ About(t, d) = {} => Final(s, d, n)
    /\ \A j : First(t, d, j) => \E k : Adjacent(s, d, n, k) /\ t[j] = s[k]
    /\ Founds(s, t, d)

LEMMA RemovesSheds ==
    ASSUME NEW s, NEW n, NEW t, NEW d, Removes(s, n, t), First(s, d, n)
    PROVE  Sheds(s, n, t, d)
<1>1. /\ Len(s) \in Nat /\ n \in 1..Len(s) /\ Len(t) = Len(s) - 1
      /\ \A i \in 1..Len(t) : t[i] = IF i < n THEN s[i] ELSE s[i + 1]
      /\ \A k \in 1..Len(s) : IsAbout(s[k], d) => n <= k
      /\ IsAbout(s[n], d)
    BY DEF Removes, First, About
<1>2. ASSUME NEW i \in 1..Len(t), IsAbout(t[i], d)
      PROVE  i + 1 \in 1..Len(s) /\ t[i] = s[i + 1] /\ n < i + 1
    <2>1. i + 1 \in 1..Len(s) /\ i \in 1..Len(s)
        BY <1>1
    <2>2. ~(i < n)
        BY <1>1, <1>2, <2>1
    <2> QED
        BY <1>1, <2>1, <2>2
<1>3. ASSUME NEW k \in 1..Len(s), IsAbout(s[k], d), k # n
      PROVE  k - 1 \in 1..Len(t) /\ t[k - 1] = s[k]
    <2>1. n < k /\ k - 1 \in 1..Len(t) /\ ~(k - 1 < n) /\ (k - 1) + 1 = k
        BY <1>1, <1>3
    <2> QED
        BY <1>1, <2>1
<1>4. /\ \A i \in About(t, d) : /\ i \in Nat /\ i + 1 \in About(s, d) /\ t[i] = s[i + 1]
                                /\ n < i + 1
      /\ \A k \in About(s, d) : /\ k \in Nat /\ n <= k
                                /\ k # n => k - 1 \in About(t, d)
      /\ n \in About(s, d)
    <2>1. ASSUME NEW i \in About(t, d)
          PROVE  i \in Nat /\ i + 1 \in About(s, d) /\ t[i] = s[i + 1] /\ n < i + 1
        BY <1>2 DEF About
    <2>2. ASSUME NEW k \in About(s, d)
          PROVE  k \in Nat /\ n <= k /\ (k # n => k - 1 \in About(t, d))
        BY <1>1, <1>3 DEF About
    <2>3. n \in About(s, d)
        BY DEF First
    <2> QED
        BY <2>1, <2>2, <2>3, Zenon
<1>5. About(t, d) = {} => Final(s, d, n)
    BY <1>4 DEF Final
<1>6. ASSUME NEW j, First(t, d, j) PROVE Adjacent(s, d, n, j + 1) /\ t[j] = s[j + 1]
    <2>1. j \in About(t, d) /\ \A i \in About(t, d) : j <= i
        BY <1>6 DEF First
    <2>2. ASSUME NEW k \in About(s, d) PROVE k <= n \/ j + 1 <= k
        BY <1>4, <2>1
    <2> QED
        BY <1>4, <2>1, <2>2 DEF Adjacent
<1>7. ASSUME NEW i, Final(t, d, i) PROVE Final(s, d, i + 1) /\ t[i] = s[i + 1]
    <2>1. i \in About(t, d) /\ \A j \in About(t, d) : j <= i
        BY <1>7 DEF Final
    <2>2. ASSUME NEW k \in About(s, d) PROVE k <= i + 1
        BY <1>4, <2>1
    <2> QED
        BY <1>4, <2>1, <2>2 DEF Final
<1>8. ASSUME NEW i, NEW j, Adjacent(t, d, i, j)
      PROVE  Adjacent(s, d, i + 1, j + 1) /\ t[i] = s[i + 1] /\ t[j] = s[j + 1]
    <2>1. i \in About(t, d) /\ j \in About(t, d) /\ i < j
          /\ \A k \in About(t, d) : k <= i \/ j <= k
        BY <1>8 DEF Adjacent
    <2>2. ASSUME NEW k \in About(s, d) PROVE k <= i + 1 \/ j + 1 <= k
        BY <1>4, <2>1
    <2> QED
        BY <1>4, <2>1, <2>2 DEF Adjacent
<1>9. Founds(s, t, d)
    BY <1>7, <1>8 DEF Founds
<1> QED
    BY <1>5, <1>6, <1>9 DEF Sheds

\* The first of all, about d, has become m, with nothing else about d up to there.
Renews(s, m, t, d) ==
    /\ About(t, d) # {}
    /\ \A j : First(t, d, j) => t[j] = m
    /\ \A i : Final(t, d, i) => \/ Final(s, d, 1) /\ t[i] = m
                                \/ Final(s, d, i) /\ t[i] = s[i]
    /\ \A i, j : Adjacent(t, d, i, j) =>
           \/ Adjacent(s, d, 1, j) /\ t[i] = m /\ t[j] = s[j]
           \/ Adjacent(s, d, i, j) /\ t[i] = s[i] /\ t[j] = s[j]

LEMMA RotatesRenews ==
    ASSUME NEW s, NEW q, NEW m, NEW t, NEW d, Rotates(s, q, m, t),
           IsAbout(s[1], d), IsAbout(m, d), \A k \in 2..q : ~IsAbout(s[k], d)
    PROVE  Renews(s, m, t, d)
<1>1. /\ Len(s) \in Nat /\ q \in 1..Len(s) /\ Len(t) = Len(s) /\ t[q] = m
      /\ \A i \in 1..Len(t) : i < q => t[i] = s[i + 1]
      /\ \A i \in 1..Len(t) : i > q => t[i] = s[i]
    BY DEF Rotates
<1>2. ASSUME NEW i \in 1..Len(t), i < q PROVE ~IsAbout(t[i], d)
    <2>1. i + 1 \in 2..q
        BY <1>1, <1>2
    <2> QED
        BY <1>1, <1>2, <2>1
<1>3. /\ q \in Nat /\ 1 <= q
      /\ \A i \in About(t, d) : i \in Nat /\ (i = q \/ (i > q /\ i \in About(s, d) /\ t[i] = s[i]))
      /\ \A k \in About(s, d) : k \in Nat /\ (k = 1 \/ (k > q /\ k \in About(t, d)))
      /\ q \in About(t, d) /\ 1 \in About(s, d)
    <2>1. ASSUME NEW i \in About(t, d)
          PROVE  i \in Nat /\ (i = q \/ (i > q /\ i \in About(s, d) /\ t[i] = s[i]))
        <3>1. i \in 1..Len(t) /\ IsAbout(t[i], d)
            BY DEF About
        <3>2. ~(i < q)
            BY <1>2, <3>1
        <3> QED
            BY <1>1, <3>1, <3>2 DEF About
    <2>2. ASSUME NEW k \in About(s, d) PROVE k \in Nat /\ (k = 1 \/ (k > q /\ k \in About(t, d)))
        <3>1. k \in 1..Len(s) /\ IsAbout(s[k], d)
            BY DEF About
        <3>2. k = 1 \/ k > q
            BY <1>1, <3>1
        <3> QED
            BY <1>1, <3>1, <3>2 DEF About
    <2>3. q \in About(t, d) /\ 1 \in About(s, d)
        BY <1>1 DEF About
    <2> QED
        BY <1>1, <2>1, <2>2, <2>3
<1>4. ASSUME NEW j, First(t, d, j) PROVE t[j] = m
    BY <1>1, <1>3, <1>4 DEF First
<1>5. ASSUME NEW i, Final(t, d, i)
      PROVE  (Final(s, d, 1) /\ t[i] = m) \/ (Final(s, d, i) /\ t[i] = s[i])
    BY <1>1, <1>3, <1>5 DEF Final
<1>6. ASSUME NEW i, NEW j, Adjacent(t, d, i, j)
      PROVE  \/ Adjacent(s, d, 1, j) /\ t[i] = m /\ t[j] = s[j]
             \/ Adjacent(s, d, i, j) /\ t[i] = s[i] /\ t[j] = s[j]
    <2>1. i \in About(t, d) /\ j \in About(t, d) /\ i < j
          /\ \A k \in About(t, d) : k <= i \/ j <= k
        BY <1>6 DEF Adjacent
    <2>2. j > q /\ j \in About(s, d) /\ t[j] = s[j]
        BY <1>3, <2>1
    <2>3. CASE i = q
        BY <1>1, <1>3, <2>1, <2>2, <2>3 DEF Adjacent
    <2>4. CASE i # q
        BY <1>1, <1>3, <2>1, <2>2, <2>4 DEF Adjacent
    <2> QED
        BY <2>3, <2>4
<1> QED
    BY <1>3, <1>4, <1>5, <1>6 DEF Renews

\* An edit of an unknown document changes nothing, a save or a close is what is missed.
LEMMA AppendsMasks ==
    ASSUME NEW s, NEW m, NEW t, NEW d, Appends(s, m, t), IsAbout(m, d)
    PROVE  m.kind \in {"save", "close"} => Barred(t, d)
<1>1. /\ Len(s) + 1 \in About(t, d) /\ t[Len(s) + 1] = m
      /\ \A i \in About(t, d) : ~(i > Len(s) + 1)
    BY DEF Appends, About
<1> QED
    BY <1>1, Zenon DEF Barred

LEMMA RemovesMasks ==
    ASSUME NEW s, NEW n, NEW t, NEW d, Removes(s, n, t)
    PROVE  /\ OnlyRanged(s, d) => OnlyRanged(t, d)
           /\ Barred(s, d) /\ ~Barred(t, d) =>
                  s[n].kind \in {"save", "close"} /\ (n = 1 => OnlyRanged(t, d))
<1>1. /\ Len(s) \in Nat /\ n \in 1..Len(s) /\ Len(t) = Len(s) - 1
      /\ \A i \in 1..Len(t) : t[i] = IF i < n THEN s[i] ELSE s[i + 1]
    BY DEF Removes
<1>2. ASSUME NEW i \in About(t, d)
      PROVE  /\ i \in Nat /\ (i < n => i \in About(s, d) /\ t[i] = s[i])
             /\ (~(i < n) => i + 1 \in About(s, d) /\ t[i] = s[i + 1])
    BY <1>1 DEF About
<1>3. OnlyRanged(s, d) => OnlyRanged(t, d)
    BY <1>1, <1>2 DEF OnlyRanged
<1>4. ASSUME Barred(s, d), ~Barred(t, d)
      PROVE  s[n].kind \in {"save", "close"} /\ (n = 1 => OnlyRanged(t, d))
    <2>1. PICK k \in About(s, d) : /\ s[k].kind \in {"save", "close"}
                                   /\ \A l \in About(s, d) : l > k => Ranged(s[l])
        BY <1>4 DEF Barred
    <2>2. k \in 1..Len(s) /\ k \in Nat /\ IsAbout(s[k], d)
        BY <1>1 DEF About
    <2>3. CASE k = n
        <3>1. ASSUME n = 1, NEW i \in About(t, d) PROVE Ranged(t[i])
            <4>1. i + 1 \in About(s, d) /\ t[i] = s[i + 1] /\ i + 1 > k
                <5>1. i \in Nat /\ i \in 1..Len(t)
                    BY <1>1 DEF About
                <5> QED
                    BY <1>2, <2>3, <3>1, <5>1
            <4> QED
                BY <2>1, <4>1, Zenon
        <3> QED
            BY <2>1, <2>3, <3>1, Zenon DEF OnlyRanged
    <2>4. CASE k < n
        <3>1. k \in About(t, d) /\ t[k] = s[k]
            BY <1>1, <2>2, <2>4 DEF About
        <3>2. ASSUME NEW i \in About(t, d), i > k PROVE Ranged(t[i])
            BY <1>2, <2>1, <2>2, <3>2
        <3> QED
            BY <1>4, <2>1, <3>1, <3>2, Zenon DEF Barred
    <2>5. CASE k > n
        <3>1. k - 1 \in About(t, d) /\ t[k - 1] = s[k]
            <4>1. k - 1 \in 1..Len(t) /\ ~(k - 1 < n) /\ (k - 1) + 1 = k
                BY <1>1, <2>2, <2>5
            <4>2. t[k - 1] = s[k]
                BY <1>1, <4>1
            <4> QED
                BY <2>2, <4>1, <4>2 DEF About
        <3>2. ASSUME NEW i \in About(t, d), i > k - 1 PROVE Ranged(t[i])
            <4>1. ~(i < n) /\ i + 1 > k
                BY <1>1, <1>2, <2>2, <2>5, <3>2
            <4> QED
                BY <1>2, <2>1, <4>1
        <3> QED
            BY <1>4, <2>1, <3>1, <3>2, Zenon DEF Barred
    <2> QED
        BY <1>1, <2>2, <2>3, <2>4, <2>5
<1> QED
    BY <1>3, <1>4

LEMMA RotatesMasks ==
    ASSUME NEW s, NEW q, NEW m, NEW t, NEW d, Rotates(s, q, m, t),
           s[1].kind = "change", Ranged(m)
    PROVE  Masks(s, t, d)
<1>1. /\ Len(s) \in Nat /\ q \in 1..Len(s) /\ Len(t) = Len(s) /\ t[q] = m
      /\ \A i \in 1..Len(t) : i < q => t[i] = s[i + 1]
      /\ \A i \in 1..Len(t) : i > q => t[i] = s[i]
    BY DEF Rotates
<1>2. ASSUME NEW i \in About(t, d)
      PROVE  /\ i \in Nat /\ (i < q => i + 1 \in About(s, d) /\ t[i] = s[i + 1])
             /\ (i > q => i \in About(s, d) /\ t[i] = s[i])
             /\ (i = q => t[i] = m)
    BY <1>1 DEF About
<1>3. OnlyRanged(s, d) => OnlyRanged(t, d)
    BY <1>1, <1>2 DEF OnlyRanged
<1>4. ASSUME Barred(s, d) PROVE Barred(t, d)
    <2>1. PICK k \in About(s, d) : /\ s[k].kind \in {"save", "close"}
                                   /\ \A l \in About(s, d) : l > k => Ranged(s[l])
        BY <1>4 DEF Barred
    <2>2. k \in 1..Len(s) /\ k \in Nat /\ IsAbout(s[k], d) /\ k # 1
        BY <1>1, <2>1 DEF About
    <2>3. CASE k <= q
        <3>1. k - 1 \in About(t, d) /\ t[k - 1] = s[k]
            <4>1. k - 1 \in 1..Len(t) /\ k - 1 < q /\ (k - 1) + 1 = k
                BY <1>1, <2>2, <2>3
            <4>2. t[k - 1] = s[k]
                BY <1>1, <4>1
            <4> QED
                BY <2>2, <4>1, <4>2 DEF About
        <3>2. ASSUME NEW i \in About(t, d), i > k - 1 PROVE Ranged(t[i])
            <4>1. CASE i = q
                BY <1>1, <4>1
            <4>2. CASE i < q
                <5>1. i + 1 > k /\ i + 1 \in About(s, d) /\ t[i] = s[i + 1]
                    BY <1>2, <2>2, <3>2, <4>2
                <5> QED
                    BY <2>1, <5>1
            <4>3. CASE i > q
                <5>1. i > k /\ i \in About(s, d) /\ t[i] = s[i]
                    BY <1>1, <1>2, <2>2, <2>3, <4>3
                <5> QED
                    BY <2>1, <5>1
            <4> QED
                BY <1>1, <1>2, <4>1, <4>2, <4>3
        <3> QED
            BY <2>1, <3>1, <3>2, Zenon DEF Barred
    <2>4. CASE k > q
        <3>1. k \in About(t, d) /\ t[k] = s[k]
            BY <1>1, <2>2, <2>4 DEF About
        <3>2. ASSUME NEW i \in About(t, d), i > k PROVE Ranged(t[i])
            BY <1>1, <1>2, <2>1, <2>2, <2>4, <3>2
        <3> QED
            BY <2>1, <3>1, <3>2, Zenon DEF Barred
    <2> QED
        BY <1>1, <2>2, <2>3, <2>4
<1> QED
    BY <1>3, <1>4 DEF Masks

-----------------------------------------------------------------------------
(***************************************************************************)
(* What each step makes of the notifications on their way.                 *)
(***************************************************************************)
LEMMA ComingShape ==
    ASSUME TypeOK
    PROVE  /\ inbox \in Seq(Messages) /\ queue \in Seq(Notices)
           /\ Coming \in Seq(Messages) /\ Len(Coming) = Len(queue) + Len(inbox)
           /\ Len(queue) \in Nat /\ Len(inbox) \in Nat /\ Len(Coming) \in Nat
           /\ \A i \in 1..Len(queue) : Coming[i] = queue[i]
           /\ \A i \in 1..Len(inbox) : Coming[Len(queue) + i] = inbox[i]
           /\ \A i \in 1..Len(Coming) : Coming[i] \in Messages
<1>1. inbox \in Seq(Messages) /\ queue \in Seq(Notices)
    BY DEF TypeOK
<1>2. Coming = queue \o inbox
    BY DEF Coming
<1>3. /\ Coming \in Seq(Messages) /\ Len(Coming) = Len(queue) + Len(inbox)
      /\ Len(queue) \in Nat /\ Len(inbox) \in Nat
      /\ \A i \in 1..Len(queue) : Coming[i] = queue[i]
      /\ \A i \in 1..Len(inbox) : Coming[Len(queue) + i] = inbox[i]
    BY <1>1, <1>2, JoinShape
<1> QED
    BY <1>1, <1>3

LEMMA Sent ==
    ASSUME TypeOK, NEW m \in Messages, inbox' = Append(inbox, m), queue' = queue
    PROVE  Appends(Coming, m, Coming')
<1>1. inbox \in Seq(Messages) /\ queue \in Seq(Notices)
    BY DEF TypeOK
<1>2. Coming' = queue \o Append(inbox, m)
    BY DEF Coming
<1> QED
    BY <1>1, <1>2, SentJoins DEF Coming

LEMMA Received ==
    ASSUME TypeOK, NEW kind, Receives(kind)
    PROVE  /\ inbox # <<>> /\ inbox' = Tail(inbox) /\ Head(inbox) \in Messages
           /\ Head(inbox).kind = kind
           /\ Head(inbox) = Coming[Len(queue) + 1] /\ Len(queue) + 1 \in 1..Len(Coming)
           /\ kind # "config" => Head(inbox) \in Notices /\ Head(inbox).doc \in Docs
           /\ \A d : IsAbout(Head(inbox), d) <=> kind # "config" /\ Head(inbox).doc = d
<1>1. inbox # <<>> /\ inbox' = Tail(inbox) /\ Head(inbox).kind = kind
    BY DEF Receives
<1>2. /\ Head(inbox) \in Messages /\ Head(inbox) = inbox[1] /\ 1 \in 1..Len(inbox)
    <2>1. inbox \in Seq(Messages)
        BY DEF TypeOK
    <2> QED
        BY <1>1, <2>1
<1>3. Head(inbox) = Coming[Len(queue) + 1] /\ Len(queue) + 1 \in 1..Len(Coming)
    BY <1>2, ComingShape
<1> QED
    BY <1>1, <1>2, <1>3, MessageShape DEF IsAbout

LEMMA Waits ==
    ASSUME TypeOK, NEW kind, Receives(kind), kind # "config", WaitsForOverlay
    PROVE  Coming' = Coming
<1>1. inbox \in Seq(Messages) /\ queue \in Seq(Notices)
    BY DEF TypeOK
<1>2. inbox # <<>> /\ Head(inbox) \in Notices /\ inbox' = Tail(inbox)
    BY Received
<1>3. Coming' = Append(queue, Head(inbox)) \o Tail(inbox)
    BY <1>2 DEF Coming, WaitsForOverlay
<1> QED
    BY <1>1, <1>2, <1>3, MovedJoins DEF Coming

LEMMA Passed ==
    ASSUME TypeOK, NEW kind, Receives(kind), queue' = queue
    PROVE  Removes(Coming, Len(queue) + 1, Coming')
<1>1. inbox \in Seq(Messages) /\ queue \in Seq(Notices)
    BY DEF TypeOK
<1>2. inbox # <<>> /\ Coming' = queue \o Tail(inbox)
    BY DEF Coming, Receives
<1> QED
    BY <1>1, <1>2, PassedJoins DEF Coming

LEMMA GrantedShape ==
    ASSUME TypeOK, NEW kinds, Granted(kinds)
    PROVE  /\ queue # <<>> /\ Head(queue) \in Notices /\ Head(queue) \in Messages
           /\ Head(queue).kind \in kinds /\ Head(queue).doc \in Docs
           /\ Head(queue) = Coming[1] /\ Head(queue) = queue[1]
           /\ 1 \in 1..Len(queue) /\ 1 \in 1..Len(Coming)
           /\ \A d : IsAbout(Head(queue), d) <=> Head(queue).doc = d
           /\ Tail(queue) \in Seq(Notices)
<1>1. queue # <<>> /\ Head(queue).kind \in kinds
    BY DEF Granted
<1>2. /\ Head(queue) \in Notices /\ Head(queue) = queue[1] /\ 1 \in 1..Len(queue)
      /\ Tail(queue) \in Seq(Notices)
    <2>1. queue \in Seq(Notices)
        BY DEF TypeOK
    <2> QED
        BY <1>1, <2>1
<1>3. Head(queue) = Coming[1] /\ 1 \in 1..Len(Coming)
    BY <1>2, ComingShape
<1>4. Head(queue) \in Messages /\ Head(queue).kind # "config" /\ Head(queue).doc \in Docs
    BY <1>2, NoticeShape, MessageShape
<1> QED
    BY <1>1, <1>2, <1>3, <1>4 DEF IsAbout

LEMMA Done ==
    ASSUME TypeOK, queue # <<>>, queue' = Tail(queue), inbox' = inbox
    PROVE  Removes(Coming, 1, Coming')
<1>1. inbox \in Seq(Messages) /\ queue \in Seq(Notices)
    BY DEF TypeOK
<1>2. Coming' = Tail(queue) \o inbox
    BY DEF Coming
<1> QED
    BY <1>1, <1>2, DoneJoins DEF Coming

LEMMA Rested ==
    ASSUME TypeOK, queue # <<>>, NEW r \in Notices, queue' = Append(Tail(queue), r),
           inbox' = inbox
    PROVE  Rotates(Coming, Len(queue), r, Coming')
<1>1. inbox \in Seq(Messages) /\ queue \in Seq(Notices)
    BY DEF TypeOK
<1>2. Coming' = Append(Tail(queue), r) \o inbox
    BY DEF Coming
<1> QED
    BY <1>1, <1>2, RestedJoins DEF Coming

\* An edit at the head of the queue was the last of its notification, or the rest
\* waits anew.
LEMMA Applies ==
    ASSUME TypeOK, OverlayApply
    PROVE  /\ Granted({"change"}) /\ Head(queue).kind = "change"
           /\ \/ /\ Head(queue).next = Head(queue).after /\ queue' = Tail(queue)
                 /\ Removes(Coming, 1, Coming') /\ torn' = torn
              \/ \E r \in Notices :
                     /\ Head(queue).next # Head(queue).after
                     /\ r.kind = "change" /\ r.doc = Head(queue).doc /\ r.whole = FALSE
                     /\ r.before = Head(queue).next /\ r.after = Head(queue).after
                     /\ queue' = Append(Tail(queue), r)
                     /\ Rotates(Coming, Len(queue), r, Coming')
<1>1. Granted({"change"}) /\ inbox' = inbox
    BY DEF OverlayApply
<1>2. Head(queue).kind = "change" /\ queue # <<>> /\ Head(queue) \in Notices
    BY <1>1, GrantedShape
<1>3. CASE Head(queue).next = Head(queue).after
    <2>1. queue' = Tail(queue) /\ torn' = torn
        BY <1>3 DEF OverlayApply
    <2> QED
        BY <1>1, <1>2, <1>3, <2>1, Done
<1>4. CASE Head(queue).next # Head(queue).after
    <2>1. PICK r : r = Rest(Head(queue))
        OBVIOUS
    <2>2. queue' = Append(Tail(queue), r)
        BY <1>4, <2>1 DEF OverlayApply
    <2>3. /\ r \in Notices /\ r.kind = "change" /\ r.doc = Head(queue).doc /\ r.whole = FALSE
          /\ r.before = Head(queue).next /\ r.after = Head(queue).after
        BY <1>2, <1>4, <2>1, RestShape
    <2>4. Rotates(Coming, Len(queue), r, Coming')
        BY <1>1, <1>2, <2>2, <2>3, Rested
    <2> QED
        BY <1>1, <1>2, <1>4, <2>2, <2>3, <2>4
<1> QED
    BY <1>3, <1>4

\* Whom the notifications that wait for the overlay concern.
LEMMA QueueConcerns ==
    ASSUME TypeOK, NEW d
    PROVE  /\ ~Concerns(queue, d) => \A k \in 1..Len(queue) : ~IsAbout(Coming[k], d)
           /\ queue # <<>> /\ ~Concerns(Tail(queue), d) =>
                  \A k \in 2..Len(queue) : ~IsAbout(Coming[k], d)
           /\ Settled(d) => About(Coming, d) = {}
<1>1. ASSUME ~Concerns(queue, d) PROVE \A k \in 1..Len(queue) : ~IsAbout(Coming[k], d)
    BY <1>1, ComingShape DEF Concerns
<1>2. ASSUME queue # <<>>, ~Concerns(Tail(queue), d), NEW k \in 2..Len(queue)
      PROVE  ~IsAbout(Coming[k], d)
    <2>1. queue \in Seq(Notices)
        BY DEF TypeOK
    <2>2. k - 1 \in 1..Len(Tail(queue)) /\ Tail(queue)[k - 1] = queue[k] /\ k \in 1..Len(queue)
        BY <1>2, <2>1
    <2> QED
        BY <1>2, <2>2, ComingShape, Zenon DEF Concerns
<1>3. ASSUME Settled(d), NEW i \in 1..Len(Coming) PROVE ~IsAbout(Coming[i], d)
    <2>1. CASE i \in 1..Len(queue)
        BY <1>1, <1>3, <2>1 DEF Settled
    <2>2. CASE i \notin 1..Len(queue)
        <3>1. i - Len(queue) \in 1..Len(inbox) /\ Len(queue) + (i - Len(queue)) = i
            BY <2>2, ComingShape
        <3>2. Coming[i] = inbox[i - Len(queue)]
            BY <3>1, ComingShape
        <3> QED
            BY <1>3, <3>1, <3>2, Zenon DEF Settled, Concerns
    <2> QED
        BY <2>1, <2>2
<1> QED
    BY <1>1, <1>2, <1>3 DEF About

LEMMA FirstReceived ==
    ASSUME TypeOK, NEW kind, Receives(kind), NEW d, IsAbout(Head(inbox), d),
           ~Concerns(queue, d)
    PROVE  First(Coming, d, Len(queue) + 1)
<1>1. \A k \in 1..Len(queue) : ~IsAbout(Coming[k], d)
    BY QueueConcerns
<1>2. Len(queue) + 1 \in About(Coming, d)
    BY Received DEF About
<1>3. Len(queue) \in Nat /\ Len(Coming) \in Nat
    BY ComingShape
<1>4. ASSUME NEW k \in About(Coming, d) PROVE Len(queue) + 1 <= k
    BY <1>1, <1>3 DEF About
<1> QED
    BY <1>2, <1>4 DEF First

LEMMA FirstGranted ==
    ASSUME TypeOK, NEW kinds, Granted(kinds), NEW d, Head(queue).doc = d
    PROVE  First(Coming, d, 1)
<1>1. 1 \in 1..Len(Coming) /\ IsAbout(Coming[1], d)
    BY GrantedShape
<1>2. Len(Coming) \in Nat
    BY ComingShape
<1> QED
    BY <1>1, <1>2 DEF First, About

\* What the editor sends as the text or the setting changes.
LEMMA TypeSends ==
    ASSUME TypeOK, synced, NEW d \in Docs, NEW edits \in 1..MaxEdits, NEW whole \in BOOLEAN,
           Type(d, edits, whole)
    PROVE  /\ stamp \in Nat /\ stamp + edits \in Stamps /\ stamp + 1 \in Stamps
           /\ \E m \in Messages :
                  /\ m.kind = "change" /\ m.doc = d /\ m.before = text[d] /\ m.whole = whole
                  /\ m.next = stamp + 1 /\ m.after = stamp + edits
                  /\ inbox' = Append(inbox, m)
<1>1. stamp \in Nat /\ stamp + edits <= MaxStamps /\ text[d] \in Stamps
      /\ edits \in Nat /\ 1 <= edits
    BY BoundsAssumption DEF TypeOK, Stamps, Type
<1>2. stamp + edits \in Stamps /\ stamp + 1 \in Stamps /\ stamp + 1 <= stamp + edits
    BY <1>1, BoundsAssumption DEF Stamps
<1> DEFINE m == [kind |-> "change", doc |-> d, before |-> text[d], next |-> stamp + 1,
                 after |-> stamp + edits, whole |-> whole]
<1>3. m \in Messages
    BY <1>1, <1>2, SentShape
<1>4. inbox' = Append(inbox, m)
    BY DEF Type, Send
<1>5. /\ m.kind = "change" /\ m.doc = d /\ m.before = text[d] /\ m.whole = whole
      /\ m.next = stamp + 1 /\ m.after = stamp + edits
    OBVIOUS
<1> HIDE DEF m
<1> QED
    BY <1>1, <1>2, <1>3, <1>4, <1>5, Zenon

LEMMA ToggleSends ==
    ASSUME TypeOK, Toggle
    PROVE  \E m \in Messages : m.kind = "config" /\ inbox' = Append(inbox, m)
<1>1. PICK b \in BOOLEAN : inbox' = Append(inbox, [kind |-> "config", live |-> b])
    BY DEF Toggle, Send
<1> QED
    BY <1>1, SentShape

-----------------------------------------------------------------------------
(***************************************************************************)
(* What was saved or closed does not stay in the overlay.                  *)
(***************************************************************************)
\* A step that brings the overlay no text of d.
Spares(d) ==
    /\ held'[d] = held[d] \/ held'[d] = Nothing
    /\ d \in lapsed => d \in lapsed'
    /\ d \notin open' \/ d \in released' => d \notin open \/ d \in released

LEMMA MaskKept ==
    ASSUME NEW d, MasksBy(Coming, d), Masks(Coming, Coming', d) \/ Coming' = Coming, Spares(d)
    PROVE  MasksBy(Coming, d)'
<1>1. CASE Coming' = Coming
    <2>1. /\ Barred(Coming, d) => Barred(Coming, d)'
          /\ OnlyRanged(Coming, d) => OnlyRanged(Coming, d)'
        BY <1>1 DEF Barred, OnlyRanged, About
    <2> QED
        BY <2>1 DEF MasksBy, Spares
<1>2. CASE Masks(Coming, Coming', d)
    <2>1. /\ Barred(Coming, d) => Barred(Coming, d)'
          /\ OnlyRanged(Coming, d) => OnlyRanged(Coming, d)'
        BY <1>2 DEF Masks
    <2> QED
        BY <2>1 DEF MasksBy, Spares
<1> QED
    BY <1>1, <1>2

LEMMA MaskStep == TypeOK /\ MaskInv /\ [Next]_vars => MaskInv'
<1> SUFFICES ASSUME TypeOK, MaskInv, [Next]_vars, NEW d \in Docs PROVE MasksBy(Coming, d)'
    BY DEF MaskInv
<1>0. MasksBy(Coming, d)
    BY DEF MaskInv
<1>0a. ASSUME NEW m \in Messages, inbox' = Append(inbox, m), queue' = queue
       PROVE  /\ ~IsAbout(m, d) => Masks(Coming, Coming', d)
              /\ IsAbout(m, d) /\ m.kind \in {"save", "close"} => MasksBy(Coming, d)'
    <2>1. Appends(Coming, m, Coming')
        BY <1>0a, Sent
    <2>2. ~IsAbout(m, d) => Masks(Coming, Coming', d)
        BY <2>1, AppendsKeeps DEF Keeps
    <2>3. IsAbout(m, d) /\ m.kind \in {"save", "close"} => Barred(Coming', d)
        BY <2>1, AppendsMasks
    <2> QED
        BY <2>2, <2>3 DEF MasksBy
<1>1. ASSUME NEW e \in Docs, Open(e) PROVE MasksBy(Coming, d)'
    <2>1. PICK m \in Messages : /\ m = [kind |-> "open", doc |-> e, after |-> disk[e]]
                                /\ inbox' = Append(inbox, m)
        BY <1>1, SentShape DEF Open, Send, TypeOK
    <2>2. CASE e = d
        BY <1>1, <2>2 DEF Open, MasksBy
    <2>3. CASE e # d
        <3>1. ~IsAbout(m, d)
            BY <2>1, <2>3 DEF IsAbout
        <3>2. Spares(d) /\ queue' = queue
            BY <1>1, <2>3 DEF Open, Spares
        <3> QED
            BY <1>0, <1>0a, <2>1, <3>1, <3>2, MaskKept
    <2> QED
        BY <2>2, <2>3
<1>2. ASSUME NEW e \in Docs, Save(e) PROVE MasksBy(Coming, d)'
    <2>1. PICK m \in Messages : m = [kind |-> "save", doc |-> e] /\ inbox' = Append(inbox, m)
        BY <1>2, SentShape DEF Save, Send
    <2>2. queue' = queue
        BY <1>2 DEF Save, overlayVars
    <2>3. CASE e = d
        <3>1. IsAbout(m, d) /\ m.kind \in {"save", "close"}
            BY <2>1, <2>3 DEF IsAbout
        <3> QED
            BY <1>0a, <2>1, <2>2, <3>1
    <2>4. CASE e # d
        <3>1. ~IsAbout(m, d)
            BY <2>1, <2>4 DEF IsAbout
        <3>2. Spares(d)
            BY <1>2, <2>4 DEF Save, Spares, overlayVars
        <3> QED
            BY <1>0, <1>0a, <2>1, <2>2, <3>1, <3>2, MaskKept
    <2> QED
        BY <2>3, <2>4
<1>3. ASSUME NEW e \in Docs, Close(e) PROVE MasksBy(Coming, d)'
    <2>1. PICK m \in Messages : m = [kind |-> "close", doc |-> e] /\ inbox' = Append(inbox, m)
        BY <1>3, SentShape DEF Close, Send
    <2>2. queue' = queue
        BY <1>3 DEF Close, overlayVars
    <2>3. CASE e = d
        <3>1. IsAbout(m, d) /\ m.kind \in {"save", "close"}
            BY <2>1, <2>3 DEF IsAbout
        <3> QED
            BY <1>0a, <2>1, <2>2, <3>1
    <2>4. CASE e # d
        <3>1. ~IsAbout(m, d)
            BY <2>1, <2>4 DEF IsAbout
        <3>2. Spares(d)
            BY <1>3, <2>4 DEF Close, Spares, overlayVars
        <3> QED
            BY <1>0, <1>0a, <2>1, <2>2, <3>1, <3>2, MaskKept
    <2> QED
        BY <2>3, <2>4
<1>4. ASSUME NEW e \in Docs, NEW edits \in 1..MaxEdits, NEW whole \in BOOLEAN,
             Type(e, edits, whole)
      PROVE  MasksBy(Coming, d)'
    <2>1. CASE ~synced
        <3>1. Coming' = Coming /\ Spares(d)
            BY <1>4, <2>1 DEF Type, Spares, Coming
        <3> QED
            BY <1>0, <3>1, MaskKept
    <2>2. CASE synced
        <3>1. PICK m \in Messages : m.kind = "change" /\ m.doc = e /\ inbox' = Append(inbox, m)
            BY <1>4, <2>2, TypeSends
        <3>2. CASE e = d
            BY <1>4, <2>2, <3>2 DEF Type, MasksBy
        <3>3. CASE e # d
            <4>1. ~IsAbout(m, d)
                BY <3>1, <3>3 DEF IsAbout
            <4>2. Spares(d) /\ queue' = queue
                BY <1>4, <2>2, <3>3 DEF Type, Spares
            <4> QED
                BY <1>0, <1>0a, <3>1, <4>1, <4>2, MaskKept
        <3> QED
            BY <3>2, <3>3
    <2> QED
        BY <2>1, <2>2 DEF TypeOK
<1>5. CASE Toggle
    <2>1. PICK m \in Messages : m.kind = "config" /\ inbox' = Append(inbox, m)
        BY <1>5, ToggleSends
    <2>2. ~IsAbout(m, d)
        BY <2>1 DEF IsAbout
    <2>3. Spares(d) /\ queue' = queue
        BY <1>5 DEF Toggle, Spares, overlayVars
    <2> QED
        BY <1>0, <1>0a, <2>1, <2>2, <2>3, MaskKept
<1>6. ASSUME NEW kind \in {"open", "change", "save", "close"}, Receives(kind), WaitsForOverlay
      PROVE  MasksBy(Coming, d)'
    <2>1. Coming' = Coming
        BY <1>6, Waits
    <2>2. Spares(d)
        BY <1>6 DEF WaitsForOverlay, Spares, editorVars
    <2> QED
        BY <1>0, <2>1, <2>2, MaskKept
<1>7. ASSUME NEW kind \in {"open", "change", "config"}, Receives(kind), queue' = queue,
             Spares(d)
      PROVE  MasksBy(Coming, d)'
    <2>1. Removes(Coming, Len(queue) + 1, Coming')
        BY <1>7, Passed
    <2>2. Coming[Len(queue) + 1].kind = kind
        BY <1>7, Received
    <2>3. Masks(Coming, Coming', d)
        BY <1>7, <2>1, <2>2, RemovesMasks DEF Masks
    <2> QED
        BY <1>0, <1>7, <2>3, MaskKept
<1>8. ASSUME NEW kind \in {"open", "change"}, Receives(kind), Ends PROVE MasksBy(Coming, d)'
    <2>1. Spares(d) /\ queue' = queue
        BY <1>8 DEF Ends, Spares, editorVars
    <2> QED
        BY <1>7, <1>8, <2>1
<1>9. CASE DidChangeConfiguration
    <2>1. Spares(d) /\ queue' = queue /\ Receives("config")
        BY <1>9 DEF DidChangeConfiguration, Spares, editorVars, overlayVars
    <2> QED
        BY <1>7, <2>1
<1>10. CASE DidOpen \/ DidChange \/ DidSave \/ DidClose
    BY <1>6, <1>8, <1>10 DEF DidOpen, DidChange, DidSave, DidClose
<1> DEFINE h == Head(queue)
<1>11. CASE OverlaySet
    <2>1. /\ Removes(Coming, 1, Coming') /\ h.kind = "open" /\ h = Coming[1] /\ h.doc \in Docs
          /\ 1 \in 1..Len(Coming) /\ (IsAbout(h, d) <=> h.doc = d)
        BY <1>11, GrantedShape, Done DEF OverlaySet
    <2>2. Masks(Coming, Coming', d)
        BY <2>1, RemovesMasks DEF Masks
    <2>3. CASE h.doc = d
        <3>1. ~OnlyRanged(Coming, d)
            BY <2>1, <2>3 DEF OnlyRanged, About, Ranged
        <3>2. open' = open /\ released' = released
            BY <1>11 DEF OverlaySet, editorVars
        <3> QED
            BY <1>0, <2>2, <3>1, <3>2 DEF MasksBy, Masks
    <2>4. CASE h.doc # d
        <3>1. Spares(d)
            BY <1>11, <2>1, <2>4 DEF OverlaySet, Spares, editorVars, TypeOK
        <3> QED
            BY <1>0, <2>2, <3>1, MaskKept
    <2> QED
        BY <2>3, <2>4
<1>12. CASE OverlayApply
    <2>1. /\ h.kind = "change" /\ h = Coming[1] /\ h.doc \in Docs /\ h.whole \in BOOLEAN
          /\ 1 \in 1..Len(Coming) /\ (IsAbout(h, d) <=> h.doc = d)
        BY <1>12, Applies, GrantedShape, MessageShape
    <2>2. Masks(Coming, Coming', d)
        <3>1. Removes(Coming, 1, Coming') => Masks(Coming, Coming', d)
            BY <2>1, RemovesMasks DEF Masks
        <3>2. ASSUME NEW r \in Notices, r.kind = "change", r.whole = FALSE,
                     Rotates(Coming, Len(queue), r, Coming')
              PROVE  Masks(Coming, Coming', d)
            <4>1. Ranged(r)
                BY <3>2 DEF Ranged
            <4> QED
                BY <2>1, <3>2, <4>1, RotatesMasks
        <3> QED
            BY <1>12, <3>1, <3>2, Applies
    <2>3. open' = open /\ released' = released
        BY <1>12 DEF OverlayApply, editorVars
    <2>4. CASE h.doc = d /\ h.whole
        <3>1. ~OnlyRanged(Coming, d)
            BY <2>1, <2>4 DEF OnlyRanged, About, Ranged
        <3> QED
            BY <1>0, <2>2, <2>3, <3>1 DEF MasksBy, Masks
    <2>5. CASE h.doc = d /\ ~h.whole
        <3>1. lapsed' = lapsed /\ held'[d] = Applied(held[d], h)
            BY <1>12, <2>1, <2>5 DEF OverlayApply, TypeOK
        <3>2. held[d] = Nothing => held'[d] = Nothing
            BY <2>5, <3>1 DEF Applied
        <3> QED
            BY <1>0, <2>2, <2>3, <3>1, <3>2 DEF MasksBy, Masks
    <2>6. CASE h.doc # d
        <3>1. Spares(d)
            BY <1>12, <2>1, <2>6 DEF OverlayApply, Spares, editorVars, TypeOK
        <3> QED
            BY <1>0, <2>2, <3>1, MaskKept
    <2> QED
        BY <2>1, <2>4, <2>5, <2>6
<1>13. CASE OverlayClear
    <2>1. /\ Removes(Coming, 1, Coming') /\ h = Coming[1] /\ h.doc \in Docs
          /\ (IsAbout(h, d) <=> h.doc = d)
        BY <1>13, GrantedShape, Done DEF OverlayClear
    <2>2. open' = open /\ released' = released
        BY <1>13 DEF OverlayClear, editorVars
    <2>3. CASE h.doc = d
        <3>1. held'[d] = Nothing /\ d \in lapsed'
            BY <1>13, <2>1, <2>3 DEF OverlayClear, TypeOK
        <3>2. /\ OnlyRanged(Coming, d) => OnlyRanged(Coming', d)
              /\ Barred(Coming, d) => Barred(Coming', d) \/ OnlyRanged(Coming', d)
            BY <2>1, RemovesMasks
        <3> QED
            BY <1>0, <2>2, <3>1, <3>2 DEF MasksBy
    <2>4. CASE h.doc # d
        <3>1. Spares(d)
            BY <1>13, <2>1, <2>2, <2>4 DEF OverlayClear, Spares, TypeOK
        <3>2. Masks(Coming, Coming', d)
            BY <2>1, <2>4, RemovesKeeps DEF Keeps
        <3> QED
            BY <1>0, <3>1, <3>2, MaskKept
    <2> QED
        BY <2>3, <2>4
<1>14. CASE \/ \E k \in claiming : BufferChanged(k)
            \/ \E n \in pending : Wakes(n)
            \/ \E s \in Servers : Start(s) \/ Stop(s)
            \/ \E i \in DOMAIN passes, s \in Servers : Reconfigure(i, s)
            \/ UNCHANGED vars
    <2>1. UNCHANGED <<editorVars, inbox, overlayVars>>
        BY <1>14, Zenon DEF BufferChanged, Wakes, Start, Stop, Reconfigure, vars
    <2>2. Coming' = Coming /\ Spares(d)
        BY <2>1 DEF Spares, Coming, editorVars, overlayVars
    <2> QED
        BY <1>0, <2>2, MaskKept
<1>15. ASSUME NEW p \in stops, StopEnds(p) \/ RestartEnds(p) PROVE MasksBy(Coming, d)'
    <2>1. ClearAll(p)
        BY <1>15 DEF StopEnds, RestartEnds
    <2>2. Coming' = Coming /\ Spares(d)
        BY <2>1 DEF ClearAll, Spares, Coming, editorVars
    <2> QED
        BY <1>0, <2>2, MaskKept
<1> QED
    BY <1>1, <1>2, <1>3, <1>4, <1>5, <1>9, <1>10, <1>11, <1>12, <1>13, <1>14, <1>15
       DEF Next, Editor, Handler

-----------------------------------------------------------------------------
(***************************************************************************)
(* The overlay follows the editor.                                         *)
(***************************************************************************)
\* What the editor shows of d stays, and so does what the overlay holds of it,
\* unless it has lost track.
Steady(d) ==
    /\ d \in open' <=> d \in open
    /\ text'[d] = text[d]
    /\ d \in lapsed' \/ (held'[d] = held[d] /\ d \notin lapsed)

LEMMA SteadyFollows ==
    ASSUME NEW d \in Docs, Steady(d)
    PROVE  /\ \A n : Finds(d, n) => Finds(d, n)'
           /\ \A n : Leads(d, n) => Leads(d, n)'
           /\ Agrees(d) => Agrees(d)'
BY DEF Steady, Finds, Leads, Agrees

\* What FollowsBy says of places in the sequence, whether or not they are in its range.
LEMMA FollowsShape ==
    ASSUME NEW d, NEW s
    PROVE  FollowsBy(s, d) <=>
               /\ \A i, j : Adjacent(s, d, i, j) => Linked(s[i], s[j])
               /\ \A j : First(s, d, j) => Finds(d, s[j])
               /\ \A i : Final(s, d, i) => Leads(d, s[i])
               /\ About(s, d) = {} => Agrees(d)
<1>1. About(s, d) \subseteq 1..Len(s)
    BY DEF About
<1>2. /\ \A i, j : Adjacent(s, d, i, j) => i \in 1..Len(s) /\ j \in 1..Len(s)
      /\ \A j : First(s, d, j) => j \in 1..Len(s)
      /\ \A i : Final(s, d, i) => i \in 1..Len(s)
    BY <1>1, Zenon DEF Adjacent, First, Final
<1> QED
    BY <1>2, Zenon DEF FollowsBy

LEMMA FollowKept ==
    ASSUME NEW d \in Docs, FollowsBy(Coming, d),
           Keeps(Coming, Coming', d) \/ Coming' = Coming, Steady(d)
    PROVE  FollowsBy(Coming, d)'
<1>1. /\ \A n : Finds(d, n) => Finds(d, n)'
      /\ \A n : Leads(d, n) => Leads(d, n)'
      /\ Agrees(d) => Agrees(d)'
    BY SteadyFollows
<1>2. CASE Keeps(Coming, Coming', d)
    <2>1. /\ \A i, j : Adjacent(Coming, d, i, j) => Linked(Coming[i], Coming[j])
          /\ \A j : First(Coming, d, j) => Finds(d, Coming[j])
          /\ \A i : Final(Coming, d, i) => Leads(d, Coming[i])
          /\ About(Coming, d) = {} => Agrees(d)
        BY FollowsShape
    <2>2. \A i, j : Adjacent(Coming', d, i, j) => Linked(Coming'[i], Coming'[j])
        BY <1>2, <2>1 DEF Keeps, Founds
    <2>3. \A j : First(Coming', d, j) => Finds(d, Coming[j])'
        BY <1>1, <1>2, <2>1 DEF Keeps
    <2>4. \A i : Final(Coming', d, i) => Leads(d, Coming[i])'
        BY <1>1, <1>2, <2>1 DEF Keeps, Founds
    <2>5. About(Coming', d) = {} => Agrees(d)'
        BY <1>1, <1>2, <2>1 DEF Keeps
    <2> QED
        BY <2>2, <2>3, <2>4, <2>5 DEF FollowsBy
<1>3. CASE Coming' = Coming
    BY <1>1, <1>3 DEF FollowsBy, About, Adjacent, First, Final
<1> QED
    BY <1>2, <1>3

\* The editor sends m, about d.
LEMMA FollowSent ==
    ASSUME TypeOK, NEW d \in Docs, FollowsBy(Coming, d), NEW m \in Messages, IsAbout(m, d),
           inbox' = Append(inbox, m), queue' = queue, held' = held, lapsed' = lapsed,
           Agrees(d) => Finds(d, m),
           \A n \in Messages : IsAbout(n, d) /\ Leads(d, n) => Linked(n, m),
           Leads(d, m)'
    PROVE  FollowsBy(Coming, d)'
<1>1. Grows(Coming, m, Coming', d)
    BY Sent, AppendsGrows
<1>2. /\ \A i, j : Adjacent(Coming, d, i, j) => Linked(Coming[i], Coming[j])
      /\ \A j : First(Coming, d, j) => Finds(d, Coming[j])
      /\ \A i : Final(Coming, d, i) => Leads(d, Coming[i])
      /\ About(Coming, d) = {} => Agrees(d)
    BY FollowsShape
<1>3. \A i : Final(Coming, d, i) => Linked(Coming[i], m)
    <2> SUFFICES ASSUME NEW i, Final(Coming, d, i) PROVE Linked(Coming[i], m)
        OBVIOUS
    <2>1. IsAbout(Coming[i], d) /\ Coming[i] \in Messages
        BY ComingShape DEF Final, About
    <2> QED
        BY <1>2, <2>1
<1>4. \A n : Finds(d, n) => Finds(d, n)'
    BY DEF Finds
<1>5. \A i, j : Adjacent(Coming', d, i, j) => Linked(Coming'[i], Coming'[j])
    BY <1>1, <1>2, <1>3 DEF Grows
<1>6. \A j : First(Coming', d, j) => Finds(d, Coming[j])'
    BY <1>1, <1>2, <1>4 DEF Grows
<1>7. \A i : Final(Coming', d, i) => Leads(d, Coming[i])'
    BY <1>1 DEF Grows
<1> QED
    BY <1>1, <1>5, <1>6, <1>7 DEF FollowsBy, Grows

\* The first about d is done with.
LEMMA FollowDone ==
    ASSUME TypeOK, NEW d \in Docs, FollowsBy(Coming, d), NEW n, NEW h, h = Coming[n],
           Removes(Coming, n, Coming'), First(Coming, d, n), open' = open, text' = text,
           Finds(d, h) => \A m \in Messages : Linked(h, m) => Finds(d, m)',
           Finds(d, h) /\ Leads(d, h) => Agrees(d)'
    PROVE  FollowsBy(Coming, d)'
<1>1. Sheds(Coming, n, Coming', d)
    BY RemovesSheds
<1>2. /\ \A i, j : Adjacent(Coming, d, i, j) => Linked(Coming[i], Coming[j])
      /\ \A j : First(Coming, d, j) => Finds(d, Coming[j])
      /\ \A i : Final(Coming, d, i) => Leads(d, Coming[i])
    BY FollowsShape
<1>3. Finds(d, h)
    BY <1>2
<1>4. \A m : Leads(d, m) => Leads(d, m)'
    BY DEF Leads
<1>5. \A i, j : Adjacent(Coming', d, i, j) => Linked(Coming'[i], Coming'[j])
    BY <1>1, <1>2 DEF Sheds, Founds
<1>6. \A j : First(Coming', d, j) => Finds(d, Coming[j])'
    <2> SUFFICES ASSUME NEW j, First(Coming', d, j) PROVE Finds(d, Coming[j])'
        OBVIOUS
    <2>1. PICK k : Adjacent(Coming, d, n, k) /\ Coming'[j] = Coming[k]
        BY <1>1 DEF Sheds
    <2>2. Linked(h, Coming[k]) /\ Coming[k] \in Messages
        BY <1>2, <2>1, ComingShape DEF Adjacent, About
    <2> QED
        BY <1>3, <2>1, <2>2
<1>7. \A i : Final(Coming', d, i) => Leads(d, Coming[i])'
    BY <1>1, <1>2, <1>4 DEF Sheds, Founds
<1>8. About(Coming', d) = {} => Agrees(d)'
    BY <1>1, <1>2, <1>3 DEF Sheds
<1> QED
    BY <1>5, <1>6, <1>7, <1>8 DEF FollowsBy

\* The first of all, about d, goes on as r, with nothing else about d to get ahead.
LEMMA FollowRested ==
    ASSUME TypeOK, NEW d \in Docs, FollowsBy(Coming, d), NEW h, h = Coming[1], NEW r, NEW q,
           Rotates(Coming, q, r, Coming'), IsAbout(h, d), IsAbout(r, d),
           \A k \in 2..q : ~IsAbout(Coming[k], d), open' = open, text' = text,
           Finds(d, h) => Finds(d, r)',
           Leads(d, h) => Leads(d, r),
           \A m : Linked(h, m) => Linked(r, m)
    PROVE  FollowsBy(Coming, d)'
<1>1. Renews(Coming, r, Coming', d)
    BY RotatesRenews
<1>2. /\ \A i, j : Adjacent(Coming, d, i, j) => Linked(Coming[i], Coming[j])
      /\ \A j : First(Coming, d, j) => Finds(d, Coming[j])
      /\ \A i : Final(Coming, d, i) => Leads(d, Coming[i])
    BY FollowsShape
<1>3. First(Coming, d, 1)
    <2>1. 1 \in 1..Len(Coming) /\ Len(Coming) \in Nat
        BY DEF Rotates
    <2> QED
        BY <2>1 DEF First, About
<1>4. Finds(d, r)'
    BY <1>2, <1>3
<1>5. \A m : Leads(d, m) => Leads(d, m)'
    BY DEF Leads
<1>6. \A i, j : Adjacent(Coming', d, i, j) => Linked(Coming'[i], Coming'[j])
    BY <1>1, <1>2 DEF Renews
<1>7. \A j : First(Coming', d, j) => Finds(d, Coming[j])'
    BY <1>1, <1>4 DEF Renews
<1>8. \A i : Final(Coming', d, i) => Leads(d, Coming[i])'
    BY <1>1, <1>2, <1>5 DEF Renews
<1> QED
    BY <1>1, <1>6, <1>7, <1>8 DEF FollowsBy, Renews

LEMMA FollowStep == TypeOK /\ MaskInv /\ FollowInv /\ [Next]_vars => FollowInv'
<1> SUFFICES ASSUME TypeOK, MaskInv, FollowInv, [Next]_vars, synced', NEW d \in Docs, d \notin torn'
             PROVE  FollowsBy(Coming, d)'
    BY DEF FollowInv
<1>a. synced /\ (d \in torn => Open(d) /\ Settled(d))
    BY DEF Next, vars, Editor, Open, Save, Close, Type, Toggle, Handler, DidOpen, DidChange,
           DidSave, DidClose, Ends, WaitsForOverlay, OverlaySet, OverlayApply, OverlayClear,
           DidChangeConfiguration, BufferChanged, Wakes, Start, Stop,
           Reconfigure, StopEnds, RestartEnds, ClearAll, editorVars, overlayVars
<1>0. synced /\ FollowsBy(Coming, d)
    <2>1. CASE d \in torn
        <3>1. About(Coming, d) = {} /\ d \notin open
            BY <1>a, <2>1, QueueConcerns DEF Open
        <3>2. d \in lapsed
            BY <3>1 DEF MaskInv, MasksBy, Barred
        <3> QED
            BY <1>a, <3>1, <3>2 DEF FollowsBy, First, Final, Adjacent, Agrees
    <2> QED
        BY <1>a, <2>1 DEF FollowInv
<1>1. ASSUME NEW m \in Messages, inbox' = Append(inbox, m), queue' = queue, ~IsAbout(m, d),
             Steady(d)
      PROVE  FollowsBy(Coming, d)'
    <2>1. Keeps(Coming, Coming', d)
        BY <1>1, Sent, AppendsKeeps
    <2> QED
        BY <1>0, <1>1, <2>1, FollowKept
<1>2. ASSUME NEW e \in Docs, Open(e) PROVE FollowsBy(Coming, d)'
    <2>1. PICK m \in Messages : /\ m = [kind |-> "open", doc |-> e, after |-> disk[e]]
                                /\ inbox' = Append(inbox, m)
        BY <1>2, SentShape DEF Open, Send, TypeOK
    <2>2. CASE e = d
        <3>1. IsAbout(m, d) /\ queue' = queue /\ held' = held /\ lapsed' = lapsed
            BY <2>1, <1>2, <2>2 DEF Open, IsAbout
        <3>2. Agrees(d) => Finds(d, m)
            BY <2>1, <1>2, <2>2 DEF Open, Agrees, Finds
        <3>3. \A n \in Messages : IsAbout(n, d) /\ Leads(d, n) => Linked(n, m)
            BY <2>1, <1>2, <2>2 DEF Open, Leads, Linked
        <3>4. Leads(d, m)'
            BY <2>1, <1>2, <2>2 DEF Open, Leads, TypeOK
        <3> QED
            BY <1>0, <2>1, <3>1, <3>2, <3>3, <3>4, FollowSent
    <2>3. CASE e # d
        <3>1. ~IsAbout(m, d)
            BY <2>1, <2>3 DEF IsAbout
        <3>2. Steady(d) /\ queue' = queue
            BY <1>2, <2>3 DEF Open, TypeOK, Steady
        <3> QED
            BY <1>1, <2>1, <3>1, <3>2
    <2> QED
        BY <2>2, <2>3
<1>3. ASSUME NEW e \in Docs, Save(e) PROVE FollowsBy(Coming, d)'
    <2>1. PICK m \in Messages : m = [kind |-> "save", doc |-> e] /\ inbox' = Append(inbox, m)
        BY <1>3, SentShape DEF Save, Send
    <2>2. queue' = queue /\ held' = held /\ lapsed' = lapsed
        BY <1>3 DEF Save, overlayVars
    <2>3. CASE e = d
        <3>1. IsAbout(m, d)
            BY <2>1, <2>3 DEF IsAbout
        <3>2. Finds(d, m) /\ \A n : Linked(n, m)
            BY <2>1 DEF Finds, Linked
        <3>3. Leads(d, m)'
            BY <2>1, <1>3, <2>3 DEF Save, Leads
        <3> QED
            BY <1>0, <2>1, <2>2, <3>1, <3>2, <3>3, FollowSent
    <2>4. CASE e # d
        <3>1. ~IsAbout(m, d)
            BY <2>1, <2>4 DEF IsAbout
        <3>2. Steady(d)
            BY <1>3, <2>2 DEF Save, Steady
        <3> QED
            BY <1>1, <2>1, <2>2, <3>1, <3>2
    <2> QED
        BY <2>3, <2>4
<1>4. ASSUME NEW e \in Docs, Close(e) PROVE FollowsBy(Coming, d)'
    <2>1. PICK m \in Messages : m = [kind |-> "close", doc |-> e] /\ inbox' = Append(inbox, m)
        BY <1>4, SentShape DEF Close, Send
    <2>2. queue' = queue /\ held' = held /\ lapsed' = lapsed
        BY <1>4 DEF Close, overlayVars
    <2>3. CASE e = d
        <3>1. IsAbout(m, d)
            BY <2>1, <2>3 DEF IsAbout
        <3>2. Finds(d, m) /\ \A n : Linked(n, m)
            BY <2>1 DEF Finds, Linked
        <3>3. Leads(d, m)'
            BY <2>1, <1>4, <2>3 DEF Close, Leads
        <3> QED
            BY <1>0, <2>1, <2>2, <3>1, <3>2, <3>3, FollowSent
    <2>4. CASE e # d
        <3>1. ~IsAbout(m, d)
            BY <2>1, <2>4 DEF IsAbout
        <3>2. Steady(d)
            BY <1>4, <2>2, <2>4 DEF Close, Steady
        <3> QED
            BY <1>1, <2>1, <2>2, <3>1, <3>2
    <2> QED
        BY <2>3, <2>4
<1>5. ASSUME NEW e \in Docs, NEW edits \in 1..MaxEdits, NEW whole \in BOOLEAN,
             Type(e, edits, whole)
      PROVE  FollowsBy(Coming, d)'
    <2>1. PICK m \in Messages :
              /\ m.kind = "change" /\ m.doc = e /\ m.before = text[e]
              /\ m.after = stamp + edits /\ inbox' = Append(inbox, m)
        BY <1>0, <1>5, TypeSends
    <2>2. queue' = queue /\ held' = held /\ lapsed' = lapsed
        BY <1>0, <1>5 DEF Type
    <2>3. CASE e = d
        <3>1. IsAbout(m, d)
            BY <2>1, <2>3 DEF IsAbout
        <3>2. Agrees(d) => Finds(d, m)
            BY <2>1, <1>5, <2>3 DEF Type, Agrees, Finds
        <3>3. \A n \in Messages : IsAbout(n, d) /\ Leads(d, n) => Linked(n, m)
            BY <2>1, <1>5, <2>3, MessageShape DEF Type, Leads, Linked, IsAbout
        <3>4. Leads(d, m)'
            BY <2>1, <1>5, <2>3 DEF Type, Leads, TypeOK
        <3> QED
            BY <1>0, <2>1, <2>2, <3>1, <3>2, <3>3, <3>4, FollowSent
    <2>4. CASE e # d
        <3>1. ~IsAbout(m, d)
            BY <2>1, <2>4 DEF IsAbout
        <3>2. Steady(d)
            BY <1>5, <2>2, <2>4 DEF Type, TypeOK, Steady
        <3> QED
            BY <1>1, <2>1, <2>2, <3>1, <3>2
    <2> QED
        BY <2>3, <2>4
<1>6. CASE Toggle
    <2>1. PICK m \in Messages : m.kind = "config" /\ inbox' = Append(inbox, m)
        BY <1>6, ToggleSends
    <2>2. ~IsAbout(m, d)
        BY <2>1 DEF IsAbout
    <2>3. Steady(d) /\ queue' = queue
        BY <1>6 DEF Toggle, Steady, overlayVars
    <2> QED
        BY <1>1, <2>1, <2>2, <2>3
<1>7. ASSUME NEW kind \in {"open", "change", "save", "close"}, Receives(kind), WaitsForOverlay
      PROVE  FollowsBy(Coming, d)'
    <2>1. Coming' = Coming
        BY <1>7, Waits
    <2>2. Steady(d)
        BY <1>7 DEF WaitsForOverlay, Steady, editorVars
    <2> QED
        BY <1>0, <2>1, <2>2, FollowKept
<1> DEFINE n == Head(inbox)
<1>8. ASSUME NEW kind \in {"open", "change"}, Receives(kind), Ends PROVE FollowsBy(Coming, d)'
    <2>1. /\ n \in Messages /\ n.kind = kind /\ n.doc \in Docs /\ (IsAbout(n, d) <=> n.doc = d)
          /\ n = Coming[Len(queue) + 1]
        BY <1>8, Received
    <2>2. Removes(Coming, Len(queue) + 1, Coming')
        BY <1>8, Passed DEF Ends
    <2>3. open' = open /\ text' = text /\ held' = held
        BY <1>8 DEF Ends, editorVars
    <2>4. CASE n.doc = d
        <3>1. ~Concerns(queue, d) /\ d \in lapsed'
            BY <1>8, <2>4 DEF Ends
        <3>2. First(Coming, d, Len(queue) + 1)
            BY <1>8, <2>1, <2>4, <3>1, FirstReceived
        <3>3. \A m \in Messages : Linked(n, m) => Finds(d, m)'
            BY <2>1, <3>1 DEF Finds, Linked
        <3>4. Leads(d, n) => Agrees(d)'
            BY <2>1, <2>3, <3>1 DEF Leads, Agrees
        <3> QED
            BY <1>0, <2>1, <2>2, <2>3, <3>2, <3>3, <3>4, FollowDone
    <2>5. CASE n.doc # d
        <3>1. Steady(d)
            BY <1>8, <2>3, <2>5 DEF Ends, Steady
        <3>2. Keeps(Coming, Coming', d)
            BY <2>1, <2>2, <2>5, RemovesKeeps
        <3> QED
            BY <1>0, <3>1, <3>2, FollowKept
    <2> QED
        BY <2>4, <2>5
<1>9. CASE DidChangeConfiguration
    <2>1. Receives("config") /\ queue' = queue
        BY <1>9 DEF DidChangeConfiguration, overlayVars
    <2>2. ~IsAbout(Coming[Len(queue) + 1], d)
        BY <2>1, Received
    <2>3. Keeps(Coming, Coming', d)
        BY <2>1, <2>2, Passed, RemovesKeeps
    <2>4. Steady(d)
        BY <1>9 DEF DidChangeConfiguration, Steady, editorVars, overlayVars
    <2> QED
        BY <1>0, <2>3, <2>4, FollowKept
<1>10. CASE DidOpen \/ DidChange \/ DidSave \/ DidClose
    BY <1>7, <1>8, <1>10 DEF DidOpen, DidChange, DidSave, DidClose
<1> DEFINE h == Head(queue)
<1>11. ASSUME NEW kinds, Granted(kinds)
       PROVE  /\ h \in Messages /\ h.kind \in kinds /\ h.doc \in Docs /\ h = Coming[1]
              /\ (IsAbout(h, d) <=> h.doc = d) /\ queue # <<>>
              /\ h.doc = d => First(Coming, d, 1)
    BY <1>11, GrantedShape, FirstGranted
<1>12. CASE OverlaySet
    <2>1. /\ h \in Messages /\ h.kind = "open" /\ h.doc \in Docs /\ h = Coming[1]
          /\ (IsAbout(h, d) <=> h.doc = d) /\ (h.doc = d => First(Coming, d, 1))
          /\ Removes(Coming, 1, Coming')
        BY <1>11, <1>12, Done DEF OverlaySet
    <2>2. open' = open /\ text' = text
        BY <1>12 DEF OverlaySet, editorVars
    <2>3. CASE h.doc = d
        <3>1. held'[d] = h.after /\ d \notin lapsed'
            BY <1>0, <1>12, <2>1, <2>3 DEF OverlaySet, TypeOK
        <3>2. \A m \in Messages : Linked(h, m) => Finds(d, m)'
            BY <2>1, <3>1 DEF Finds, Linked
        <3>3. Leads(d, h) => Agrees(d)'
            BY <2>1, <2>2, <3>1 DEF Leads, Agrees
        <3> QED
            BY <1>0, <2>1, <2>2, <2>3, <3>2, <3>3, FollowDone
    <2>4. CASE h.doc # d
        <3>1. Steady(d)
            BY <1>12, <2>1, <2>2, <2>4 DEF OverlaySet, Steady, TypeOK
        <3>2. Keeps(Coming, Coming', d)
            BY <2>1, <2>4, RemovesKeeps
        <3> QED
            BY <1>0, <3>1, <3>2, FollowKept
    <2> QED
        BY <2>3, <2>4
<1>13. CASE OverlayApply
    <2>1. /\ h \in Messages /\ h.kind = "change" /\ h.doc \in Docs /\ h = Coming[1]
          /\ (IsAbout(h, d) <=> h.doc = d) /\ (h.doc = d => First(Coming, d, 1))
          /\ h.whole \in BOOLEAN /\ h.before \in Stamps /\ h.next \in Stamps /\ queue # <<>>
        BY <1>11, <1>13, Applies, MessageShape
    <2>2. open' = open /\ text' = text
        BY <1>13 DEF OverlayApply, editorVars
    <2>3. CASE h.doc = d
        <3>1. /\ held'[d] = Applied(held[d], h)
              /\ d \in lapsed' <=> ~h.whole /\ d \in lapsed
            BY <1>13, <2>1, <2>3 DEF OverlayApply, TypeOK
        <3>2. Finds(d, h) => d \in lapsed' \/ held'[d] = h.next
            BY <2>1, <3>1, MarksAssumption DEF Finds, Applied, Stamps
        <3>3. CASE h.next = h.after /\ Removes(Coming, 1, Coming')
            <4>1. Finds(d, h) => \A m \in Messages : Linked(h, m) => Finds(d, m)'
                BY <2>1, <3>2, <3>3 DEF Finds, Linked
            <4>2. Finds(d, h) /\ Leads(d, h) => Agrees(d)'
                BY <2>1, <2>2, <3>2, <3>3 DEF Leads, Agrees
            <4> QED
                BY <1>0, <2>1, <2>2, <2>3, <3>3, <4>1, <4>2, FollowDone
        <3>4. ASSUME NEW r \in Notices, h.next # h.after,
                     r.kind = "change", r.doc = d, r.before = h.next, r.after = h.after,
                     Rotates(Coming, Len(queue), r, Coming')
              PROVE  FollowsBy(Coming, d)'
            <4>1. ~Concerns(Tail(queue), d)
                BY <1>13, <2>3, <3>4 DEF OverlayApply
            <4>2. \A k \in 2..Len(queue) : ~IsAbout(Coming[k], d)
                BY <2>1, <4>1, QueueConcerns
            <4>3. Finds(d, h) => Finds(d, r)'
                BY <3>2, <3>4 DEF Finds
            <4>4. Leads(d, h) => Leads(d, r)
                BY <2>1, <3>4 DEF Leads
            <4>5. \A m : Linked(h, m) => Linked(r, m)
                BY <2>1, <3>4 DEF Linked
            <4>6. IsAbout(h, d) /\ IsAbout(r, d)
                BY <2>1, <2>3, <3>4 DEF IsAbout
            <4> QED
                BY <1>0, <2>1, <2>2, <3>4, <4>2, <4>3, <4>4, <4>5, <4>6, FollowRested
        <3> QED
            BY <1>13, <2>3, <3>3, <3>4, Applies
    <2>4. CASE h.doc # d
        <3>1. Steady(d)
            BY <1>13, <2>1, <2>2, <2>4 DEF OverlayApply, Steady, TypeOK
        <3>2. Keeps(Coming, Coming', d)
            <4>1. Removes(Coming, 1, Coming') => Keeps(Coming, Coming', d)
                BY <2>1, <2>4, RemovesKeeps
            <4>2. ASSUME NEW r \in Notices, r.doc = h.doc, Rotates(Coming, Len(queue), r, Coming')
                  PROVE  Keeps(Coming, Coming', d)
                <5>1. ~IsAbout(r, d)
                    BY <2>4, <4>2 DEF IsAbout
                <5> QED
                    BY <2>1, <2>4, <4>2, <5>1, RotatesKeeps
            <4> QED
                BY <1>13, <4>1, <4>2, Applies
        <3> QED
            BY <1>0, <3>1, <3>2, FollowKept
    <2> QED
        BY <2>3, <2>4
<1>14. CASE OverlayClear
    <2>1. /\ h \in Messages /\ h.kind \in {"save", "close"} /\ h.doc \in Docs /\ h = Coming[1]
          /\ (IsAbout(h, d) <=> h.doc = d) /\ (h.doc = d => First(Coming, d, 1))
          /\ Removes(Coming, 1, Coming')
        BY <1>11, <1>14, Done DEF OverlayClear
    <2>2. open' = open /\ text' = text
        BY <1>14 DEF OverlayClear, editorVars
    <2>3. CASE h.doc = d
        <3>1. d \in lapsed'
            BY <1>14, <2>3 DEF OverlayClear
        <3>2. \A m \in Messages : Linked(h, m) => Finds(d, m)'
            BY <2>1, <3>1 DEF Finds, Linked
        <3>3. Leads(d, h) => Agrees(d)'
            BY <2>1, <2>2, <3>1 DEF Leads, Agrees
        <3> QED
            BY <1>0, <2>1, <2>2, <2>3, <3>2, <3>3, FollowDone
    <2>4. CASE h.doc # d
        <3>1. Steady(d)
            BY <1>14, <2>1, <2>2, <2>4 DEF OverlayClear, Steady, TypeOK
        <3>2. Keeps(Coming, Coming', d)
            BY <2>1, <2>4, RemovesKeeps
        <3> QED
            BY <1>0, <3>1, <3>2, FollowKept
    <2> QED
        BY <2>3, <2>4
<1>15. CASE \/ \E k \in claiming : BufferChanged(k)
            \/ \E k \in pending : Wakes(k)
            \/ \E s \in Servers : Start(s) \/ Stop(s)
            \/ \E i \in DOMAIN passes, s \in Servers : Reconfigure(i, s)
            \/ UNCHANGED vars
    <2>1. UNCHANGED <<editorVars, inbox, overlayVars>>
        BY <1>15, Zenon DEF BufferChanged, Wakes, Start, Stop, Reconfigure, vars
    <2>2. Steady(d) /\ Coming' = Coming
        BY <2>1 DEF Steady, Coming, editorVars, overlayVars
    <2> QED
        BY <1>0, <2>2, FollowKept
<1>16. ASSUME NEW p \in stops, StopEnds(p) \/ RestartEnds(p) PROVE FollowsBy(Coming, d)'
    <2>1. ClearAll(p)
        BY <1>16 DEF StopEnds, RestartEnds
    <2>2. Steady(d) /\ Coming' = Coming
        BY <2>1 DEF ClearAll, Steady, Coming, editorVars
    <2> QED
        BY <1>0, <2>2, FollowKept
<1> QED
    BY <1>2, <1>3, <1>4, <1>5, <1>6, <1>9, <1>10, <1>12, <1>13, <1>14, <1>15, <1>16
       DEF Next, Editor, Handler

-----------------------------------------------------------------------------
(***************************************************************************)
(* A server that did not ask for edits gets none.                          *)
(***************************************************************************)
LEMMA UnsyncedStep == TypeOK /\ UnsyncedInv /\ [Next]_vars => UnsyncedInv'
<1> SUFFICES ASSUME TypeOK, UnsyncedInv, [Next]_vars, ~synced'
             PROVE  lapsed' = Docs /\ Unedited(Coming')
    BY DEF UnsyncedInv
<1>1. ~synced
    BY DEF Next, vars, Editor, Open, Save, Close, Type, Toggle, Handler, DidOpen, DidChange,
           DidSave, DidClose, Ends, WaitsForOverlay, OverlaySet, OverlayApply, OverlayClear,
           DidChangeConfiguration, BufferChanged, Wakes, Start, Stop,
           Reconfigure, StopEnds, RestartEnds, ClearAll, editorVars
<1>2. lapsed = Docs /\ Unedited(Coming)
    BY <1>1 DEF UnsyncedInv
<1>3. ASSUME NEW m \in Messages, m.kind # "change", inbox' = Append(inbox, m), queue' = queue
      PROVE  Unedited(Coming')
    <2>1. Appends(Coming, m, Coming')
        BY <1>3, Sent
    <2> QED
        BY <1>2, <1>3, <2>1 DEF Appends, Unedited
<1>4. ASSUME NEW n, Removes(Coming, n, Coming') PROVE Unedited(Coming')
    <2>1. ASSUME NEW i \in 1..Len(Coming') PROVE Coming'[i].kind # "change"
        <3>1. i \in 1..Len(Coming) /\ i + 1 \in 1..Len(Coming)
            BY <1>4 DEF Removes
        <3> QED
            BY <1>2, <1>4, <3>1 DEF Removes, Unedited
    <2> QED
        BY <2>1 DEF Unedited
<1>5. CASE Editor
    <2>1. lapsed' = Docs
        BY <1>1, <1>2, <1>5 DEF Editor, Open, Save, Close, Type, Toggle, overlayVars
    <2>2. Coming' = Coming \/ \E m \in Messages : /\ m.kind # "change"
                                                  /\ inbox' = Append(inbox, m) /\ queue' = queue
        <3>1. CASE Toggle
            BY <3>1, ToggleSends DEF Toggle, overlayVars
        <3>2. CASE \E d \in Docs : Open(d) \/ Save(d) \/ Close(d)
            BY <3>2, SentShape DEF Open, Save, Close, Send, TypeOK, overlayVars
        <3>3. CASE \E d \in Docs, edits \in 1..MaxEdits, whole \in BOOLEAN : Type(d, edits, whole)
            BY <1>1, <3>3 DEF Type, Coming
        <3> QED
            BY <1>5, <3>1, <3>2, <3>3 DEF Editor
    <2> QED
        BY <1>2, <1>3, <2>1, <2>2
<1>6. CASE DidOpen \/ DidChange \/ DidSave \/ DidClose
    <2>1. PICK kind \in {"open", "change", "save", "close"} :
              Receives(kind) /\ (WaitsForOverlay \/ Ends)
        BY <1>6 DEF DidOpen, DidChange, DidSave, DidClose
    <2>2. CASE WaitsForOverlay
        <3>1. lapsed' = lapsed /\ Coming' = Coming
            BY <2>1, <2>2, Waits DEF WaitsForOverlay
        <3> QED
            BY <1>2, <3>1
    <2>3. CASE Ends
        <3>1. Head(inbox).doc \in Docs /\ Removes(Coming, Len(queue) + 1, Coming')
            BY <2>1, <2>3, Received, Passed DEF Ends
        <3> QED
            BY <1>2, <1>4, <2>3, <3>1 DEF Ends
    <2> QED
        BY <2>1, <2>2, <2>3
<1>7. CASE DidChangeConfiguration
    <2>1. Receives("config") /\ queue' = queue /\ lapsed' = lapsed
        BY <1>7 DEF DidChangeConfiguration, overlayVars
    <2> QED
        BY <1>2, <1>4, <2>1, Passed
<1>8. CASE OverlaySet \/ OverlayClear
    <2>1. Head(queue).doc \in Docs /\ Removes(Coming, 1, Coming')
        BY <1>8, GrantedShape, Done DEF OverlaySet, OverlayClear
    <2> QED
        BY <1>1, <1>2, <1>4, <1>8, <2>1 DEF OverlaySet, OverlayClear
<1>9. ~OverlayApply
    BY <1>2, Applies, GrantedShape DEF Unedited
<1>10. CASE \/ \E k \in claiming : BufferChanged(k)
            \/ \E k \in pending : Wakes(k)
            \/ \E s \in Servers : Start(s) \/ Stop(s)
            \/ \E i \in DOMAIN passes, s \in Servers : Reconfigure(i, s)
            \/ UNCHANGED vars
    <2>1. UNCHANGED <<inbox, overlayVars>>
        BY <1>10, Zenon DEF BufferChanged, Wakes, Start, Stop, Reconfigure, vars
    <2> QED
        BY <1>2, <2>1 DEF Coming, overlayVars
<1>11. CASE \E p \in stops : StopEnds(p) \/ RestartEnds(p)
    <2>1. Coming' = Coming /\ lapsed' = Docs
        BY <1>11 DEF StopEnds, RestartEnds, ClearAll, Coming
    <2> QED
        BY <1>2, <2>1
<1> QED
    BY <1>5, <1>6, <1>7, <1>8, <1>9, <1>10, <1>11 DEF Next, Handler

-----------------------------------------------------------------------------
(***************************************************************************)
(* Changes of the setting are handled at most as often as they are made.   *)
(***************************************************************************)
LEMMA ConfigsFinite ==
    ASSUME NEW s \in Seq(Messages)
    PROVE  IsFiniteSet(Configs(s)) /\ Cardinality(Configs(s)) \in Nat
<1>1. Configs(s) \in SUBSET (1..Len(s)) /\ 1 \in Int /\ Len(s) \in Int
    BY DEF Configs
<1>2. IsFiniteSet(Configs(s))
    BY <1>1, FS_Interval, FS_Subset
<1> QED
    BY <1>2, FS_CardinalityType

LEMMA ConfigsSent ==
    ASSUME NEW s \in Seq(Messages), NEW m \in Messages, NEW t, t = Append(s, m)
    PROVE  /\ m.kind # "config" => Configs(t) = Configs(s)
           /\ m.kind = "config" => Cardinality(Configs(t)) = Cardinality(Configs(s)) + 1
<1>1. /\ Len(s) \in Nat /\ t[Len(s) + 1] = m
      /\ \A i \in 1..Len(s) : t[i] = s[i]
      /\ \A i : i \in 1..Len(t) <=> i \in 1..Len(s) \/ i = Len(s) + 1
    OBVIOUS
<1>2. ASSUME m.kind # "config" PROVE Configs(t) = Configs(s)
    BY <1>1, <1>2, Zenon DEF Configs
<1>3. ASSUME m.kind = "config"
      PROVE  Cardinality(Configs(t)) = Cardinality(Configs(s)) + 1
    <2>1. Configs(t) = Configs(s) \cup {Len(s) + 1}
        BY <1>1, <1>3, Zenon DEF Configs
    <2>2. Len(s) + 1 \notin Configs(s)
        BY <1>1 DEF Configs
    <2> QED
        BY <2>1, <2>2, ConfigsFinite, FS_AddElement
<1> QED
    BY <1>2, <1>3

LEMMA ConfigsReceived ==
    ASSUME NEW s \in Seq(Messages), s # <<>>, NEW t, t = Tail(s)
    PROVE  /\ Cardinality(Configs(t)) \in Nat
           /\ Cardinality(Configs(t)) <= Cardinality(Configs(s))
           /\ Head(s).kind = "config" => Cardinality(Configs(t)) + 1 <= Cardinality(Configs(s))
<1>1. /\ t \in Seq(Messages) /\ Head(s) = s[1] /\ 1 \in 1..Len(s)
      /\ \A i \in 1..Len(t) : t[i] = s[i + 1] /\ i + 1 \in 1..Len(s) /\ i + 1 # 1
    OBVIOUS
<1> DEFINE f == [i \in Configs(t) |-> i + 1]
<1>2. f \in Injection(Configs(t), Configs(s) \ {1})
    <2>1. \A i \in Configs(t) : i \in Int /\ i + 1 \in Configs(s) \ {1}
        BY <1>1 DEF Configs
    <2> QED
        BY <2>1 DEF Injection, IsInjective
<1>3. /\ IsFiniteSet(Configs(s) \ {1})
      /\ Cardinality(Configs(s) \ {1}) =
             IF 1 \in Configs(s) THEN Cardinality(Configs(s)) - 1 ELSE Cardinality(Configs(s))
    BY ConfigsFinite, FS_RemoveElement
<1> HIDE DEF f
<1>4. Cardinality(Configs(t)) <= Cardinality(Configs(s) \ {1})
    BY <1>2, <1>3, FS_Injection
<1>5. Head(s).kind = "config" => 1 \in Configs(s)
    BY <1>1 DEF Configs
<1>6. Cardinality(Configs(s)) \in Nat /\ Cardinality(Configs(t)) \in Nat
    BY <1>1, ConfigsFinite
<1> QED
    BY <1>3, <1>4, <1>5, <1>6

\* How many changes have been handled, and how many wait for it, in their types.
LEMMA CountShape ==
    ASSUME TypeOK, CountInv
    PROVE  /\ Len(passes) \in 0..toggles /\ toggles \in Nat /\ toggles <= MaxToggles
           /\ Cardinality(Configs(inbox)) \in Nat
<1>1. /\ toggles \in 0..MaxToggles /\ Len(passes) \in Nat
      /\ Cardinality(Configs(inbox)) \in Nat
    BY ConfigsFinite DEF TypeOK
<1> QED
    BY <1>1, BoundsAssumption DEF CountInv

LEMMA CountStep == TypeOK /\ CountInv /\ [Next]_vars => CountInv'
<1> SUFFICES ASSUME TypeOK, CountInv, [Next]_vars PROVE CountInv'
    OBVIOUS
<1> DEFINE Unhandled(s) == Cardinality(Configs(s))
<1>0. /\ Len(passes) \in Nat /\ toggles \in Nat /\ Unhandled(inbox) \in Nat
      /\ Len(passes) + Unhandled(inbox) <= toggles
      /\ \A p \in stops : p.pass \in Nat /\ p.pass <= Len(passes)
      /\ inbox \in Seq(Messages) /\ passes \in Seq(Passes)
    BY CountShape DEF CountInv, TypeOK, Stopping
<1>1. ASSUME UNCHANGED <<passes, stops, toggles>>,
             Unhandled(inbox') \in Nat, Unhandled(inbox') <= Unhandled(inbox)
      PROVE  CountInv'
    BY <1>0, <1>1 DEF CountInv
<1>2. CASE Editor /\ ~Toggle
    <2>1. inbox' = inbox \/ \E m \in Messages : m.kind # "config" /\ inbox' = Append(inbox, m)
        <3>1. ASSUME NEW d \in Docs, NEW edits \in 1..MaxEdits, NEW whole \in BOOLEAN,
                     Type(d, edits, whole)
              PROVE  \/ inbox' = inbox
                     \/ \E m \in Messages : m.kind # "config" /\ inbox' = Append(inbox, m)
            <4>1. CASE synced
                BY <3>1, <4>1, TypeSends
            <4>2. CASE ~synced
                BY <3>1, <4>2 DEF Type
            <4> QED
                BY <4>1, <4>2 DEF TypeOK
        <3> QED
            BY <1>2, <3>1, SentShape DEF Editor, Open, Save, Close, Send, TypeOK
    <2>2. UNCHANGED <<passes, stops, toggles>>
        BY <1>2 DEF Editor, Open, Save, Close, Type, serverVars
    <2>3. Configs(inbox') = Configs(inbox)
        BY <1>0, <2>1, ConfigsSent
    <2> QED
        BY <1>0, <1>1, <2>2, <2>3
<1>3. CASE Toggle
    <2>1. PICK m \in Messages : m.kind = "config" /\ inbox' = Append(inbox, m)
        <3>1. PICK b \in BOOLEAN : inbox' = Append(inbox, [kind |-> "config", live |-> b])
            BY <1>3 DEF Toggle, Send
        <3> QED
            BY <3>1, SentShape
    <2>2. Unhandled(inbox') = Unhandled(inbox) + 1
        BY <1>0, <2>1, ConfigsSent
    <2>3. toggles' = toggles + 1 /\ UNCHANGED <<passes, stops>>
        BY <1>3 DEF Toggle, serverVars
    <2> HIDE DEF Unhandled
    <2>4. Len(passes') + Unhandled(inbox') <= toggles'
        BY <1>0, <2>2, <2>3
    <2> USE DEF Unhandled
    <2> QED
        BY <1>0, <2>3, <2>4 DEF CountInv
<1>4. CASE DidOpen \/ DidChange \/ DidSave \/ DidClose
    <2>1. inbox # <<>> /\ inbox' = Tail(inbox)
        BY <1>4 DEF DidOpen, DidChange, DidSave, DidClose, Receives
    <2>2. UNCHANGED <<passes, stops, toggles>>
        BY <1>4 DEF DidOpen, DidChange, DidSave, DidClose, WaitsForOverlay, Ends,
                    editorVars, serverVars
    <2>3. Unhandled(inbox') \in Nat /\ Unhandled(inbox') <= Unhandled(inbox)
        BY <1>0, <2>1, ConfigsReceived
    <2> QED
        BY <1>1, <2>2, <2>3
<1>5. CASE DidChangeConfiguration
    <2>1. inbox # <<>> /\ inbox' = Tail(inbox) /\ Head(inbox).kind = "config"
        BY <1>5 DEF DidChangeConfiguration, Receives
    <2>2. Unhandled(inbox') \in Nat /\ Unhandled(inbox') + 1 <= Unhandled(inbox)
        BY <1>0, <2>1, ConfigsReceived
    <2>3. Len(passes') = Len(passes) + 1 /\ UNCHANGED <<stops, toggles>>
        BY <1>0, <1>5 DEF DidChangeConfiguration, editorVars
    <2> HIDE DEF Unhandled
    <2>4. /\ Len(passes') + Unhandled(inbox') <= toggles'
          /\ \A p \in stops' : p.pass <= Len(passes')
        BY <1>0, <2>2, <2>3
    <2> USE DEF Unhandled
    <2> QED
        BY <2>4 DEF CountInv
<1>6. CASE \/ \E k \in claiming : BufferChanged(k)
           \/ \E n \in pending : Wakes(n)
           \/ \E s \in Servers : Start(s)
           \/ OverlaySet \/ OverlayApply \/ OverlayClear
           \/ UNCHANGED vars
    <2>1. UNCHANGED <<passes, stops, toggles, inbox>>
        BY <1>6, Zenon DEF BufferChanged, Wakes, Start, OverlaySet, OverlayApply, OverlayClear,
                           vars, editorVars, serverVars
    <2> QED
        BY <1>0, <1>1, <2>1
<1>7. ASSUME Len(passes') = Len(passes), UNCHANGED <<inbox, toggles>>,
             \A p \in stops' : p \in stops \/ (p.pass \in Nat /\ p.pass <= Len(passes))
      PROVE  CountInv'
    BY <1>0, <1>7 DEF CountInv
<1>8. ASSUME NEW s \in Servers, Stop(s) PROVE CountInv'
    <2>1. /\ UNCHANGED <<inbox, toggles, passes>>
          /\ \A p \in stops' : p \in stops \/ p.pass = 0
        BY <1>8 DEF Stop, editorVars
    <2> QED
        BY <1>0, <1>7, <2>1
<1>9. ASSUME NEW i \in DOMAIN passes, NEW s \in Servers, Reconfigure(i, s) PROVE CountInv'
    <2>1. /\ UNCHANGED <<inbox, toggles>>
          /\ \A p \in stops' : p \in stops \/ p.pass = i
        BY <1>9 DEF Reconfigure, editorVars
    <2>2. Len(passes') = Len(passes) /\ i \in Nat /\ i <= Len(passes)
        BY <1>0, <1>9 DEF Reconfigure
    <2> QED
        BY <1>7, <2>1, <2>2
<1>10. ASSUME NEW p \in stops, StopEnds(p) \/ RestartEnds(p) PROVE CountInv'
    <2>1. UNCHANGED <<inbox, toggles>> /\ stops' \subseteq stops
        BY <1>10 DEF StopEnds, RestartEnds, ClearAll, editorVars
    <2>2. Len(passes') = Len(passes)
        BY <1>0, <1>10 DEF StopEnds, RestartEnds
    <2> QED
        BY <1>7, <2>1, <2>2
<1> QED
    BY <1>2, <1>3, <1>4, <1>5, <1>6, <1>8, <1>9, <1>10 DEF Next, Handler, Editor

-----------------------------------------------------------------------------
(***************************************************************************)
(* What it takes to mix a text up.                                         *)
(***************************************************************************)
\* At the head of the queue an edit finds the text it was made for.
LEMMA HeadFinds ==
    ASSUME TypeOK, FollowInv, UnsyncedInv, Granted({"change"})
    PROVE  /\ synced
           /\ \/ Head(queue).doc \in torn \cup lapsed
              \/ held[Head(queue).doc] = Head(queue).before
<1> DEFINE h == Head(queue)
<1>1. /\ h.kind = "change" /\ h.doc \in Docs /\ h = Coming[1] /\ 1 \in 1..Len(Coming)
      /\ First(Coming, h.doc, 1)
    BY GrantedShape, FirstGranted
<1>2. synced
    BY <1>1 DEF UnsyncedInv, Unedited
<1>3. h.doc \notin torn => Finds(h.doc, h)
    BY <1>1, <1>2 DEF FollowInv, FollowsBy
<1> QED
    BY <1>1, <1>2, <1>3 DEF Finds

\* What waits for the overlay after a step waited before, or is n.
Opened == \E i \in 1..Len(queue) : queue[i].kind = "open"
LEMMA QueueFrom ==
    ASSUME TypeOK, NEW n, n \in Notices,
           \/ queue' = queue
           \/ queue' = Append(queue, n)
           \/ queue # <<>> /\ queue' \in {Tail(queue), Append(Tail(queue), n)}
    PROVE  /\ \A d : Edited(d)' => Edited(d) \/ (n.doc = d /\ n.kind = "change")
           /\ Opened' => Opened \/ n.kind = "open"
<1>1. \A i \in 1..Len(queue') : queue'[i] = n \/ \E k \in 1..Len(queue) : queue'[i] = queue[k]
    <2>1. queue \in Seq(Notices)
        BY DEF TypeOK
    <2>2. CASE queue' = queue
        BY <2>2
    <2>3. CASE queue' = Append(queue, n)
        BY <2>1, <2>3
    <2>4. ASSUME queue # <<>>, NEW i \in 1..Len(Tail(queue))
          PROVE  \E k \in 1..Len(queue) : Tail(queue)[i] = queue[k]
        <3>1. i + 1 \in 1..Len(queue) /\ Tail(queue)[i] = queue[i + 1]
            BY <2>1, <2>4
        <3> QED
            BY <3>1
    <2>5. CASE queue # <<>> /\ queue' = Tail(queue)
        BY <2>4, <2>5
    <2>6. CASE queue # <<>> /\ queue' = Append(Tail(queue), n)
        <3>1. PICK c : c = Tail(queue)
            OBVIOUS
        <3>2. c \in Seq(Notices)
            BY <2>1, <2>6, <3>1
        <3>3. queue' = Append(c, n)
            BY <2>6, <3>1
        <3>4. \A i \in 1..Len(queue') : queue'[i] = n \/ (i \in 1..Len(c) /\ queue'[i] = c[i])
            BY <3>2, <3>3
        <3> QED
            BY <2>4, <2>6, <3>1, <3>4
    <2> QED
        BY <2>2, <2>3, <2>5, <2>6
<1>2. ASSUME NEW d, Edited(d)' PROVE Edited(d) \/ (n.doc = d /\ n.kind = "change")
    BY <1>1, <1>2 DEF Edited, About, IsAbout
<1>3. ASSUME Opened' PROVE Opened \/ n.kind = "open"
    BY <1>1, <1>3 DEF Opened
<1> QED
    BY <1>2, <1>3

LEMMA ToggleStep ==
    TypeOK /\ FollowInv /\ UnsyncedInv /\ MaskInv /\ ToggleInv /\ [Next]_vars => ToggleInv'
<1> SUFFICES ASSUME TypeOK, FollowInv, UnsyncedInv, MaskInv, ToggleInv, [Next]_vars
             PROVE  ToggleInv'
    OBVIOUS
<1> DEFINE count == Len(passes)
<1>0. /\ count \in Nat /\ live \in BOOLEAN /\ synced \in BOOLEAN /\ passes \in Seq(Passes)
      /\ synced /\ ~live => count >= 1
      /\ ~synced /\ (live \/ Opened \/ \E d \in Docs : held[d] # Nothing) => count >= 1
      /\ \A d \in Docs \ torn : Outlived(d)
    BY DEF TypeOK, ToggleInv, Unasked, Opened
<1>1. ASSUME UNCHANGED <<synced, live>>, Len(passes') = count,
             Opened' => Opened \/ live,
             \A d \in Docs : held'[d] = Nothing \/ held'[d] = held[d],
             \A d \in Docs \ torn' :
                 \/ Outlived(d)'
                 \/ held'[d] = Nothing
                 \/ /\ d \notin torn /\ held'[d] = held[d]
                    /\ synced /\ d \in lapsed' => d \in lapsed
                    /\ Edited(d)' => Edited(d) \/ live
      PROVE  ToggleInv'
    <2>1. ASSUME NEW d \in Docs \ torn' PROVE Outlived(d)'
        <3>1. CASE held'[d] = Nothing
            BY <3>1, MarksAssumption DEF Outlived
        <3>2. CASE /\ d \notin torn /\ held'[d] = held[d]
                   /\ synced /\ d \in lapsed' => d \in lapsed
                   /\ Edited(d)' => Edited(d) \/ live
            <4>1. Outlived(d)
                BY <1>0, <3>2
            <4> QED
                BY <1>0, <1>1, <3>2, <4>1 DEF Outlived
        <3> QED
            BY <1>1, <3>1, <3>2
    <2>2. (synced /\ ~live => Len(passes) >= 1)'
        BY <1>0, <1>1
    <2>3. (Unasked => Len(passes) >= 1)'
        BY <1>0, <1>1 DEF Unasked, Opened
    <2> QED
        BY <2>1, <2>2, <2>3 DEF ToggleInv
<1>2. CASE Editor
    <2>1. UNCHANGED <<synced, live, passes, held, queue>>
        BY <1>2 DEF Editor, Open, Save, Close, Type, Toggle, serverVars, overlayVars
    <2>2. synced => lapsed' = lapsed
        BY <1>2 DEF Editor, Open, Save, Close, Type, Toggle, overlayVars
    <2>3. \A d : Edited(d)' <=> Edited(d)
        BY <2>1 DEF Edited
    <2>4. ASSUME NEW d \in torn, d \notin torn', d \in Docs PROVE held'[d] = Nothing
        <3>1. Open(d) /\ Settled(d)
            BY <1>2, <2>4 DEF Editor, Open, Save, Close, Type, Toggle, overlayVars
        <3>2. About(Coming, d) = {} /\ d \notin open
            BY <3>1, QueueConcerns DEF Open
        <3> QED
            BY <2>1, <2>4, <3>2 DEF MaskInv, MasksBy, Barred
    <2> QED
        BY <1>1, <2>1, <2>2, <2>3, <2>4 DEF Opened
<1> DEFINE n == Head(inbox)
<1>3. ASSUME NEW kind \in {"open", "change", "save", "close"}, Receives(kind), WaitsForOverlay,
             kind \in {"open", "change"} => live
      PROVE  ToggleInv'
    <2>1. n \in Notices /\ n.kind = kind
        BY <1>3, Received
    <2>2. UNCHANGED <<synced, live, passes, held, lapsed, torn>> /\ queue' = Append(queue, n)
        BY <1>3 DEF WaitsForOverlay, editorVars, serverVars
    <2>3. /\ Opened' => Opened \/ live
          /\ \A d : Edited(d)' => Edited(d) \/ live
        BY <1>3, <2>1, <2>2, QueueFrom
    <2> QED
        BY <1>1, <2>2, <2>3
<1>4. ASSUME NEW kind \in {"open", "change"}, Receives(kind), Ends, ~live PROVE ToggleInv'
    <2>1. n.doc \in Docs
        BY <1>4, Received
    <2>2. UNCHANGED <<synced, live, passes, held, queue>>
        BY <1>4 DEF Ends, editorVars, serverVars
    <2>3. \A d : Edited(d)' <=> Edited(d)
        BY <2>2 DEF Edited
    <2>4. ASSUME NEW d \in Docs, d = n.doc, d \notin torn' PROVE Outlived(d)'
        <3>1. ~Concerns(queue, d) /\ d \notin torn
            BY <1>4, <2>4 DEF Ends
        <3>2. ~Edited(d)
            BY <3>1 DEF Edited, Concerns, About
        <3>3. Outlived(d)
            BY <1>0, <3>1
        <3> QED
            BY <1>0, <1>4, <2>2, <2>3, <3>2, <3>3 DEF Outlived
    <2>5. \A d \in Docs \ torn' : d # n.doc => d \notin torn /\ (d \in lapsed' => d \in lapsed)
        BY <1>4 DEF Ends
    <2> QED
        BY <1>1, <2>2, <2>3, <2>4, <2>5 DEF Opened
<1>5. CASE DidOpen \/ DidChange \/ DidSave \/ DidClose
    BY <1>0, <1>3, <1>4, <1>5 DEF DidOpen, DidChange, DidSave, DidClose
<1>6. CASE DidChangeConfiguration
    <2>1. Len(passes') = count + 1 /\ UNCHANGED <<synced, held, lapsed, torn, queue>>
        BY <1>0, <1>6 DEF DidChangeConfiguration, editorVars, overlayVars
    <2>2. Len(passes') >= 1
        BY <1>0, <2>1
    <2>3. ASSUME NEW d \in Docs \ torn' PROVE Outlived(d)'
        <3>1. Outlived(d)
            BY <1>0, <2>1
        <3> QED
            BY <1>0, <2>1, <3>1 DEF Outlived
    <2> QED
        BY <2>2, <2>3 DEF ToggleInv
<1> DEFINE h == Head(queue)
<1>7. ASSUME queue # <<>>, h \in Notices, queue' = Tail(queue)
      PROVE  (Opened' => Opened) /\ \A d : Edited(d)' => Edited(d)
    <2>1. h = queue[1] /\ 1 \in 1..Len(queue)
        <3>1. queue \in Seq(Notices)
            BY DEF TypeOK
        <3> QED
            BY <1>7, <3>1
    <2>2. \E m \in Notices : TRUE /\ m.kind = h.kind /\ m.doc = h.doc
        BY <1>7
    <2>3. (h.kind = "open" => Opened)
        BY <2>1 DEF Opened
    <2>4. \A d : h.doc = d /\ h.kind = "change" => Edited(d)
        BY <2>1 DEF Edited, About, IsAbout
    <2> QED
        BY <1>7, <2>3, <2>4, QueueFrom
<1>8. CASE OverlaySet
    <2>1. /\ h \in Notices /\ h.kind = "open" /\ h.doc \in Docs /\ h.after \in Stamps
          /\ h = queue[1] /\ 1 \in 1..Len(queue) /\ queue # <<>>
        BY <1>8, GrantedShape, MessageShape DEF OverlaySet
    <2>2. UNCHANGED <<synced, live, passes, torn>> /\ queue' = Tail(queue)
        BY <1>8 DEF OverlaySet, editorVars, serverVars
    <2>3. (Opened' => Opened) /\ \A d : Edited(d)' => Edited(d)
        BY <1>7, <2>1, <2>2
    <2>4. Opened
        BY <2>1 DEF Opened
    <2>5. ASSUME NEW d \in Docs \ torn' PROVE Outlived(d)'
        <3>1. CASE d = h.doc
            <4>1. held'[d] # Garbled /\ (synced => d \notin lapsed')
                BY <1>8, <2>1, <3>1, MarksAssumption DEF OverlaySet, TypeOK, Stamps
            <4> QED
                BY <2>2, <4>1 DEF Outlived
        <3>2. CASE d # h.doc
            <4>1. held'[d] = held[d] /\ (d \in lapsed' <=> d \in lapsed) /\ Outlived(d)
                BY <1>0, <1>8, <2>1, <2>2, <3>2 DEF OverlaySet, TypeOK
            <4> QED
                BY <1>0, <2>2, <2>3, <4>1 DEF Outlived
        <3> QED
            BY <3>1, <3>2
    <2>6. (synced /\ ~live => Len(passes) >= 1)' /\ (Unasked => Len(passes) >= 1)'
        BY <1>0, <2>2, <2>4 DEF Unasked
    <2> QED
        BY <2>5, <2>6 DEF ToggleInv
<1>9. CASE OverlayApply
    <2>1. /\ Granted({"change"}) /\ h \in Notices /\ h.kind = "change" /\ h.doc \in Docs
          /\ h.next \in Stamps /\ h.before \in Stamps /\ h.whole \in BOOLEAN
          /\ h = queue[1] /\ 1 \in 1..Len(queue) /\ queue # <<>>
        BY <1>9, Applies, GrantedShape, MessageShape
    <2>2. synced /\ (h.doc \in torn \cup lapsed \/ held[h.doc] = h.before)
        BY <2>1, HeadFinds
    <2>3. UNCHANGED <<synced, live, passes>>
        BY <1>9 DEF OverlayApply, editorVars, serverVars
    <2>4. Edited(h.doc)
        BY <2>1 DEF Edited, About, IsAbout
    <2>5. /\ torn \subseteq torn'
          /\ \A d : Edited(d)' => Edited(d)
        <3>1. ASSUME h.next = h.after, queue' = Tail(queue)
              PROVE  \A d : Edited(d)' => Edited(d)
            BY <1>7, <2>1, <3>1
        <3>2. ASSUME NEW r \in Notices, r.doc = h.doc, queue' = Append(Tail(queue), r)
              PROVE  \A d : Edited(d)' => Edited(d)
            <4>1. \A d : Edited(d)' => Edited(d) \/ r.doc = d
                BY <2>1, <3>2, QueueFrom
            <4> QED
                BY <2>4, <3>2, <4>1
        <3>3. torn \subseteq torn'
            BY <1>9 DEF OverlayApply
        <3> QED
            BY <1>9, <3>1, <3>2, <3>3, Applies
    <2>6. ASSUME NEW d \in Docs \ torn' PROVE Outlived(d)'
        <3>0. Outlived(d) /\ d \notin torn
            BY <1>0, <2>5
        <3>1. CASE d = h.doc
            <4>1. held'[d] = Applied(held[d], h) /\ (d \in lapsed' <=> ~h.whole /\ d \in lapsed)
                BY <1>9, <2>1, <3>1 DEF OverlayApply, TypeOK
            <4>2. CASE h.whole \/ d \notin lapsed
                <5>1. held'[d] # Garbled /\ d \notin lapsed'
                    <6>1. held[d] = h.before \/ h.whole
                        BY <2>2, <3>0, <3>1, <4>2
                    <6>2. held[d] # Nothing \/ h.whole
                        BY <2>1, <6>1, MarksAssumption DEF Stamps
                    <6>3. held'[d] = h.next
                        BY <2>1, <4>1, <6>1, <6>2 DEF Applied
                    <6> QED
                        BY <2>1, <4>1, <4>2, <6>3, MarksAssumption DEF Stamps
                <5> QED
                    BY <5>1 DEF Outlived
            <4>3. CASE ~h.whole /\ d \in lapsed
                <5>1. CASE held[d] = Nothing
                    BY <4>1, <4>3, <5>1, MarksAssumption DEF Applied, Outlived
                <5>2. CASE held[d] # Nothing
                    <6>1. count >= 2
                        BY <2>2, <2>4, <3>0, <3>1, <4>3, <5>2 DEF Outlived
                    <6> QED
                        BY <1>0, <2>2, <2>3, <6>1 DEF Outlived
                <5> QED
                    BY <5>1, <5>2
            <4> QED
                BY <4>2, <4>3
        <3>2. CASE d # h.doc
            <4>1. held'[d] = held[d] /\ (d \in lapsed' <=> d \in lapsed)
                BY <1>9, <2>1, <3>2 DEF OverlayApply, TypeOK
            <4> QED
                BY <1>0, <2>3, <2>5, <3>0, <4>1 DEF Outlived
        <3> QED
            BY <3>1, <3>2
    <2>7. (synced /\ ~live => Len(passes) >= 1)' /\ (Unasked => Len(passes) >= 1)'
        BY <1>0, <2>2, <2>3 DEF Unasked
    <2> QED
        BY <2>6, <2>7 DEF ToggleInv
<1>10. CASE OverlayClear
    <2>1. h \in Notices /\ h.doc \in Docs /\ queue # <<>>
        BY <1>10, GrantedShape DEF OverlayClear
    <2>2. UNCHANGED <<synced, live, passes, torn>> /\ queue' = Tail(queue)
        BY <1>10 DEF OverlayClear, editorVars, serverVars
    <2>3. (Opened' => Opened) /\ \A d : Edited(d)' => Edited(d)
        BY <1>7, <2>1, <2>2
    <2>4. \A d \in Docs : IF d = h.doc THEN held'[d] = Nothing
                          ELSE held'[d] = held[d] /\ (d \in lapsed' <=> d \in lapsed)
        BY <1>10, <2>1 DEF OverlayClear, TypeOK
    <2> QED
        BY <1>1, <2>2, <2>3, <2>4
<1>11. CASE \/ \E k \in claiming : BufferChanged(k)
            \/ \E k \in pending : Wakes(k)
            \/ \E s \in Servers : Start(s) \/ Stop(s)
            \/ UNCHANGED vars
    <2>1. UNCHANGED <<synced, live, passes, held, lapsed, torn, queue>>
        BY <1>11, Zenon DEF BufferChanged, Wakes, Start, Stop, vars, editorVars, serverVars,
                            overlayVars
    <2>2. \A d : Edited(d)' <=> Edited(d)
        BY <2>1 DEF Edited
    <2> QED
        BY <1>1, <2>1, <2>2 DEF Opened
<1>12. CASE \E i \in DOMAIN passes, s \in Servers : Reconfigure(i, s)
    <2>1. UNCHANGED <<synced, live, held, lapsed, torn, queue>> /\ Len(passes') = count
        BY <1>0, <1>12 DEF Reconfigure, editorVars, overlayVars
    <2>2. \A d : Edited(d)' <=> Edited(d)
        BY <2>1 DEF Edited
    <2> QED
        BY <1>1, <2>1, <2>2 DEF Opened
<1>13. CASE \E p \in stops : StopEnds(p) \/ RestartEnds(p)
    <2>1. UNCHANGED <<synced, live, torn, queue>> /\ Len(passes') = count
        BY <1>0, <1>13 DEF StopEnds, RestartEnds, ClearAll, editorVars
    <2>2. \A d \in Docs : held'[d] = Nothing
        BY <1>13 DEF StopEnds, RestartEnds, ClearAll
    <2> QED
        BY <1>1, <2>1, <2>2 DEF Opened
<1> QED
    BY <1>2, <1>5, <1>6, <1>8, <1>9, <1>10, <1>11, <1>12, <1>13 DEF Next, Handler

-----------------------------------------------------------------------------
(***************************************************************************)
(* No more numbers are claimed than edits were made.                       *)
(***************************************************************************)
LEMMA FreeFinite ==
    ASSUME NEW n \in Nat, NEW S
    PROVE  /\ IsFiniteSet((1..n) \ S) /\ Cardinality((1..n) \ S) \in Nat
           /\ Cardinality((1..n) \ S) <= n
           /\ \A T : (1..n) \ S \subseteq T /\ T \subseteq 1..n =>
                  IsFiniteSet(T) /\ Cardinality(T) \in Nat
                  /\ Cardinality((1..n) \ S) <= Cardinality(T)
<1>1. IsFiniteSet(1..n) /\ Cardinality(1..n) = n
    BY FS_Interval
<1>2. ASSUME NEW T, T \subseteq 1..n
      PROVE  IsFiniteSet(T) /\ Cardinality(T) \in Nat /\ Cardinality(T) <= n
    BY <1>1, <1>2, FS_Subset, FS_CardinalityType
<1>3. (1..n) \ S \subseteq 1..n
    OBVIOUS
<1>4. ASSUME NEW T, (1..n) \ S \subseteq T, T \subseteq 1..n
      PROVE  Cardinality((1..n) \ S) <= Cardinality(T)
    BY <1>2, <1>4, FS_Subset
<1> QED
    BY <1>2, <1>3, <1>4

LEMMA ClaimShape ==
    ASSUME TypeOK, ClaimInv
    PROVE  keystroke \in Nat /\ stamp \in Nat /\ keystroke <= stamp /\ stamp <= MaxStamps
<1>1. keystroke \in Nat /\ stamp \in Nat /\ stamp <= MaxStamps
    BY BoundsAssumption DEF TypeOK, Stamps
<1>2. /\ Cardinality((1..stamp) \ Waiting) \in Nat
      /\ Cardinality((1..stamp) \ Waiting) <= stamp
    BY <1>1, FreeFinite
<1> QED
    BY <1>1, <1>2 DEF ClaimInv, Claimed

\* What waits no longer waits leaves room for as many claims.
LEMMA ClaimedKept ==
    ASSUME TypeOK, Claimed, Waiting' \subseteq Waiting, stamp' = stamp, keystroke' = keystroke
    PROVE  Claimed'
<1>1. stamp \in Nat /\ keystroke \in Nat
    BY BoundsAssumption DEF TypeOK, Stamps
<1>2. (1..stamp) \ Waiting \subseteq (1..stamp) \ Waiting'
    OBVIOUS
<1>3. /\ Cardinality((1..stamp) \ Waiting) <= Cardinality((1..stamp) \ Waiting')
      /\ Cardinality((1..stamp) \ Waiting) \in Nat
      /\ Cardinality((1..stamp) \ Waiting') \in Nat
    BY <1>1, <1>2, FreeFinite
<1> QED
    BY <1>1, <1>3 DEF Claimed

LEMMA ClaimedMore ==
    ASSUME TypeOK, Claimed, NEW w \in Waiting, Waiting' \subseteq Waiting \ {w},
           stamp' = stamp, keystroke' \in {keystroke, keystroke + 1}
    PROVE  Claimed'
<1>1. stamp \in Nat /\ keystroke \in Nat
    BY BoundsAssumption DEF TypeOK, Stamps
<1> DEFINE F == (1..stamp) \ Waiting
<1>2. w \in 1..stamp /\ w \notin F /\ F \cup {w} \subseteq (1..stamp) \ Waiting'
    BY DEF Claimed
<1>3. /\ IsFiniteSet(F) /\ Cardinality(F) \in Nat
      /\ IsFiniteSet((1..stamp) \ Waiting') /\ Cardinality((1..stamp) \ Waiting') \in Nat
    BY <1>1, FreeFinite
<1> HIDE DEF F
<1>4. Cardinality(F \cup {w}) = Cardinality(F) + 1
    BY <1>2, <1>3, FS_AddElement
<1>5. Cardinality(F \cup {w}) <= Cardinality((1..stamp) \ Waiting')
    BY <1>2, <1>3, FS_Subset
<1>6. Waiting \subseteq 1..stamp /\ keystroke <= Cardinality(F)
    BY DEF Claimed, F
<1> QED
    BY <1>1, <1>3, <1>4, <1>5, <1>6 DEF Claimed

\* The edits on their way after a step are some of those before: f leads to them.
LEMMA StampsKept ==
    ASSUME NEW s, NEW t, NEW f,
           \A i \in Changes(t) : f[i] \in Changes(s) /\ t[i].after = s[f[i]].after,
           \A i, j \in Changes(t) : f[i] = f[j] => i = j
    PROVE  (Single(s) => Single(t)) /\ Stamped(t) \subseteq Stamped(s)
BY DEF Single, Stamped

\* Every edit that remains was there, and none with the stamp of one that is gone.
Loses(s, n, t) ==
    /\ (Single(s) => Single(t)) /\ Stamped(t) \subseteq Stamped(s)
    /\ Single(s) /\ s[n].kind = "change" =>
           s[n].after \in Stamped(s) /\ s[n].after \notin Stamped(t)

LEMMA RemovesLoses ==
    ASSUME NEW s, NEW n, NEW t, Removes(s, n, t)
    PROVE  Loses(s, n, t)
<1> DEFINE f == [i \in 1..Len(t) |-> IF i < n THEN i ELSE i + 1]
<1>1. /\ Len(s) \in Nat /\ n \in 1..Len(s) /\ Len(t) = Len(s) - 1
      /\ \A i \in 1..Len(t) : f[i] = (IF i < n THEN i ELSE i + 1) /\ t[i] = s[f[i]]
    BY DEF Removes
<1> HIDE DEF f
<1>2. /\ \A i \in 1..Len(t) : f[i] \in 1..Len(s) /\ f[i] # n
      /\ \A i, j \in 1..Len(t) : f[i] = f[j] => i = j
    BY <1>1
<1>3. /\ \A i \in Changes(t) : f[i] \in Changes(s) /\ t[i].after = s[f[i]].after /\ f[i] # n
      /\ \A i, j \in Changes(t) : f[i] = f[j] => i = j
    BY <1>1, <1>2, Zenon DEF Changes
<1>4. (Single(s) => Single(t)) /\ Stamped(t) \subseteq Stamped(s)
    BY <1>3, StampsKept
<1>5. ASSUME Single(s), s[n].kind = "change"
      PROVE  s[n].after \in Stamped(s) /\ s[n].after \notin Stamped(t)
    <2>1. n \in Changes(s)
        BY <1>1, <1>5, Zenon DEF Changes
    <2>2. s[n].after \in Stamped(s)
        BY <2>1, Zenon DEF Stamped
    <2>3. ASSUME NEW i \in Changes(t), t[i].after = s[n].after PROVE FALSE
        BY <1>3, <1>5, <2>1, <2>3 DEF Single
    <2> QED
        BY <2>2, <2>3 DEF Stamped
<1> QED
    BY <1>4, <1>5 DEF Loses

LEMMA RotatesStamps ==
    ASSUME NEW s, NEW q, NEW m, NEW t, Rotates(s, q, m, t), s[1].kind = "change",
           m.after = s[1].after
    PROVE  (Single(s) => Single(t)) /\ Stamped(t) \subseteq Stamped(s)
<1> DEFINE f == [i \in 1..Len(t) |-> IF i < q THEN i + 1 ELSE IF i = q THEN 1 ELSE i]
<1>1. /\ Len(s) \in Nat /\ q \in 1..Len(s) /\ Len(t) = Len(s) /\ t[q] = m
      /\ \A i \in 1..Len(t) : f[i] = (IF i < q THEN i + 1 ELSE IF i = q THEN 1 ELSE i)
      /\ \A i \in 1..Len(t) : i # q => t[i] = s[f[i]]
    BY DEF Rotates
<1> HIDE DEF f
<1>2. \A i \in 1..Len(t) : f[i] \in 1..Len(s)
    BY <1>1
<1>3. \A i, j \in 1..Len(t) : f[i] = f[j] => i = j
    BY <1>1
<1>4. f[q] = 1 /\ q \in 1..Len(t)
    BY <1>1
<1>5. \A i \in Changes(t) : f[i] \in Changes(s) /\ t[i].after = s[f[i]].after
    BY <1>1, <1>2, <1>4, Zenon DEF Changes
<1>6. \A i, j \in Changes(t) : f[i] = f[j] => i = j
    BY <1>3, Zenon DEF Changes
<1> QED
    BY <1>5, <1>6, StampsKept

\* One edit more, or none.
LEMMA AppendsStamps ==
    ASSUME NEW s, NEW m, NEW t, Appends(s, m, t)
    PROVE  /\ m.kind # "change" => Stamped(t) = Stamped(s) /\ (Single(s) => Single(t))
           /\ m.kind = "change" =>
                  /\ Stamped(t) = Stamped(s) \cup {m.after}
                  /\ Single(s) /\ m.after \notin Stamped(s) => Single(t)
<1> DEFINE new == Len(s) + 1
<1>1. /\ t[new] = m /\ \A i \in Changes(s) : t[i] = s[i]
      /\ Changes(t) = Changes(s) \cup (IF m.kind = "change" THEN {new} ELSE {})
      /\ new \notin Changes(s)
    <2>1. /\ t[new] = m /\ \A i \in 1..Len(s) : t[i] = s[i] /\ i # new
          /\ \A i : i \in 1..Len(t) <=> i \in 1..Len(s) \/ i = new
        BY DEF Appends
    <2> HIDE DEF new
    <2>2. Changes(t) = Changes(s) \cup (IF m.kind = "change" THEN {new} ELSE {})
        BY <2>1, Zenon DEF Changes
    <2>3. new \notin Changes(s) /\ \A i \in Changes(s) : t[i] = s[i]
        BY <2>1, Zenon DEF Changes
    <2> QED
        BY <2>1, <2>2, <2>3
<1> HIDE DEF new
<1>2. CASE m.kind # "change"
    BY <1>1, <1>2 DEF Stamped, Single
<1>3. CASE m.kind = "change"
    <2>1. Changes(t) = Changes(s) \cup {new}
        BY <1>1, <1>3
    <2>2. Stamped(t) = Stamped(s) \cup {m.after}
        BY <1>1, <2>1 DEF Stamped
    <2>3. ASSUME Single(s), m.after \notin Stamped(s) PROVE Single(t)
        <3>1. \A i \in Changes(s) : s[i].after # m.after
            BY <2>3, Zenon DEF Stamped
        <3> QED
            BY <1>1, <2>1, <2>3, <3>1 DEF Single
    <2> QED
        BY <1>3, <2>2, <2>3
<1> QED
    BY <1>2, <1>3

LEMMA ClaimStep == TypeOK /\ ClaimInv /\ [Next]_vars => ClaimInv'
<1> SUFFICES ASSUME TypeOK, ClaimInv, [Next]_vars PROVE ClaimInv'
    OBVIOUS
<1>0. /\ Distinct /\ Claimed /\ stamp \in Nat /\ keystroke \in Nat
      /\ Single(Coming) /\ Stamped(Coming) \cap Claimants = {}
      /\ Waiting = Stamped(Coming) \cup Claimants
    BY ClaimShape DEF ClaimInv, Distinct, Waiting
<1>1. ASSUME UNCHANGED <<stamp, keystroke, claiming>>,
             Single(Coming'), Stamped(Coming') \subseteq Stamped(Coming)
      PROVE  ClaimInv'
    <2>1. Claimants' = Claimants
        BY <1>1 DEF Claimants
    <2>2. Distinct'
        BY <1>0, <1>1, <2>1 DEF Distinct
    <2>3. Waiting' \subseteq Waiting
        BY <1>1, <2>1 DEF Waiting
    <2> QED
        BY <1>0, <1>1, <2>2, <2>3, ClaimedKept DEF ClaimInv
<1>2. ASSUME UNCHANGED <<stamp, keystroke, claiming>>,
             \/ Coming' = Coming
             \/ \E m \in Messages : m.kind # "change" /\ Appends(Coming, m, Coming')
             \/ \E n : Removes(Coming, n, Coming')
      PROVE  ClaimInv'
    <2>1. Single(Coming') /\ Stamped(Coming') \subseteq Stamped(Coming)
        <3>1. CASE Coming' = Coming
            BY <1>0, <3>1
        <3>2. ASSUME NEW m \in Messages, m.kind # "change", Appends(Coming, m, Coming')
              PROVE  Single(Coming') /\ Stamped(Coming') \subseteq Stamped(Coming)
            BY <1>0, <3>2, AppendsStamps
        <3>3. ASSUME NEW n, Removes(Coming, n, Coming')
              PROVE  Single(Coming') /\ Stamped(Coming') \subseteq Stamped(Coming)
            BY <1>0, <3>3, RemovesLoses DEF Loses
        <3> QED
            BY <1>2, <3>1, <3>2, <3>3
    <2> QED
        BY <1>1, <1>2, <2>1
<1>3. CASE Toggle \/ \E d \in Docs : Open(d) \/ Save(d) \/ Close(d)
    <2>1. UNCHANGED <<stamp, keystroke, claiming, queue>>
        BY <1>3 DEF Toggle, Open, Save, Close, reloadVars, overlayVars
    <2>2. PICK m \in Messages : m.kind # "change" /\ inbox' = Append(inbox, m)
        <3>1. CASE Toggle
            BY <3>1, ToggleSends
        <3>2. CASE \E d \in Docs : Open(d) \/ Save(d) \/ Close(d)
            BY <3>2, SentShape DEF Open, Save, Close, Send, TypeOK
        <3> QED
            BY <1>3, <3>1, <3>2
    <2>3. Appends(Coming, m, Coming')
        BY <2>1, <2>2, Sent
    <2> QED
        BY <1>2, <2>1, <2>2, <2>3
<1>4. ASSUME NEW d \in Docs, NEW edits \in 1..MaxEdits, NEW whole \in BOOLEAN,
             Type(d, edits, whole)
      PROVE  ClaimInv'
    <2>1. /\ edits \in Nat /\ 1 <= edits /\ stamp' = stamp + edits
          /\ UNCHANGED <<keystroke, claiming, queue>>
        BY <1>4, BoundsAssumption DEF Type, reloadVars
    <2>2. Claimants' = Claimants
        BY <2>1 DEF Claimants
    <2>3. Waiting \subseteq 1..stamp
        BY <1>0 DEF Claimed
    <2>4. Distinct' /\ Waiting' \subseteq Waiting \cup {stamp + edits}
        <3>1. CASE ~synced
            <4>1. Coming' = Coming
                BY <1>4, <2>1, <3>1 DEF Type, Coming
            <4> QED
                BY <1>0, <2>1, <2>2, <4>1 DEF Distinct, Waiting
        <3>2. CASE synced
            <4>1. PICK m \in Messages :
                      m.kind = "change" /\ m.after = stamp + edits /\ inbox' = Append(inbox, m)
                BY <1>4, <3>2, TypeSends
            <4>2. Appends(Coming, m, Coming')
                BY <2>1, <4>1, Sent
            <4>3. m.after \notin Waiting
                BY <1>0, <2>1, <2>3, <4>1
            <4>4. Stamped(Coming') = Stamped(Coming) \cup {m.after} /\ Single(Coming')
                BY <1>0, <4>1, <4>2, <4>3, AppendsStamps
            <4> QED
                BY <1>0, <2>1, <2>2, <4>1, <4>3, <4>4 DEF Distinct, Waiting
        <3> QED
            BY <3>1, <3>2 DEF TypeOK
    <2>5. Claimed'
        <3>1. /\ (1..stamp) \ Waiting \subseteq (1..stamp') \ Waiting'
              /\ Waiting' \subseteq 1..stamp' /\ stamp' \in Nat
            BY <1>0, <2>1, <2>3, <2>4
        <3>2. /\ IsFiniteSet((1..stamp') \ Waiting')
              /\ Cardinality((1..stamp') \ Waiting') \in Nat
              /\ Cardinality((1..stamp) \ Waiting) \in Nat
            BY <1>0, <3>1, FreeFinite
        <3>3. Cardinality((1..stamp) \ Waiting) <= Cardinality((1..stamp') \ Waiting')
            BY <3>1, <3>2, FS_Subset
        <3> QED
            BY <1>0, <2>1, <3>1, <3>2, <3>3 DEF Claimed
    <2> QED
        BY <2>4, <2>5 DEF ClaimInv
<1>5. CASE DidOpen \/ DidChange \/ DidSave \/ DidClose \/ DidChangeConfiguration
    <2>1. PICK kind \in {"open", "change", "save", "close", "config"} :
              /\ Receives(kind)
              /\ (kind # "config" /\ WaitsForOverlay) \/ queue' = queue
        BY <1>5 DEF DidOpen, DidChange, DidSave, DidClose, DidChangeConfiguration, Ends,
                    overlayVars
    <2>2. UNCHANGED <<stamp, keystroke, claiming>>
        BY <1>5 DEF DidOpen, DidChange, DidSave, DidClose, DidChangeConfiguration,
                    WaitsForOverlay, Ends, editorVars, reloadVars
    <2>3. Coming' = Coming \/ \E n : Removes(Coming, n, Coming')
        BY <2>1, Waits, Passed
    <2> QED
        BY <1>2, <2>2, <2>3
<1>6. CASE OverlaySet \/ OverlayClear
    <2>1. UNCHANGED <<stamp, keystroke, claiming>>
        BY <1>6 DEF OverlaySet, OverlayClear, editorVars, reloadVars
    <2>2. Removes(Coming, 1, Coming')
        BY <1>6, GrantedShape, Done DEF OverlaySet, OverlayClear
    <2> QED
        BY <1>2, <2>1, <2>2
<1>7. CASE OverlayApply
    <2>1. /\ Head(queue) = Coming[1] /\ Coming[1].kind = "change"
          /\ UNCHANGED <<stamp, keystroke>>
        BY <1>7, Applies, GrantedShape DEF OverlayApply, editorVars
    <2>2. ASSUME Head(queue).next = Head(queue).after, Removes(Coming, 1, Coming')
          PROVE  ClaimInv'
        <3> DEFINE g == [doc |-> Head(queue).doc, after |-> Head(queue).after]
        <3>1. claiming' = claiming \cup {g} /\ g.after = Coming[1].after
            BY <1>7, <2>1, <2>2 DEF OverlayApply
        <3> HIDE DEF g
        <3>2. /\ Single(Coming') /\ Stamped(Coming') \subseteq Stamped(Coming)
              /\ Coming[1].after \in Stamped(Coming) /\ Coming[1].after \notin Stamped(Coming')
            BY <1>0, <2>1, <2>2, RemovesLoses DEF Loses
        <3>3. Claimants' = Claimants \cup {g.after}
            BY <3>1 DEF Claimants
        <3>4. \A h, k \in claiming' : h.after = k.after => h = k
            <4>1. \A h \in claiming : h.after # g.after
                BY <1>0, <3>1, <3>2 DEF Claimants
            <4> QED
                BY <1>0, <3>1, <4>1 DEF Distinct
        <3>5. Distinct'
            BY <1>0, <3>1, <3>2, <3>3, <3>4 DEF Distinct
        <3>6. Waiting' \subseteq Waiting
            BY <1>0, <3>1, <3>2, <3>3 DEF Waiting
        <3> QED
            BY <1>0, <2>1, <3>5, <3>6, ClaimedKept DEF ClaimInv
    <2>3. ASSUME NEW r \in Notices, Head(queue).next # Head(queue).after,
                 r.after = Head(queue).after, Rotates(Coming, Len(queue), r, Coming')
          PROVE  ClaimInv'
        <3>1. claiming' = claiming
            BY <1>7, <2>3 DEF OverlayApply
        <3>2. Single(Coming') /\ Stamped(Coming') \subseteq Stamped(Coming)
            BY <1>0, <2>1, <2>3, RotatesStamps
        <3> QED
            BY <1>1, <2>1, <3>1, <3>2
    <2> QED
        BY <1>7, <2>2, <2>3, Applies
<1>8. ASSUME NEW h \in claiming, BufferChanged(h) PROVE ClaimInv'
    <2>1. /\ claiming' = claiming \ {h} /\ Coming' = Coming /\ stamp' = stamp
          /\ keystroke' \in {keystroke, keystroke + 1}
        BY <1>8 DEF BufferChanged, editorVars, overlayVars, Coming
    <2>2. Claimants' = Claimants \ {h.after} /\ h.after \in Claimants
        BY <1>0, <2>1 DEF Claimants, Distinct
    <2>3. Distinct'
        BY <1>0, <2>1, <2>2 DEF Distinct
    <2>4. h.after \in Waiting /\ Waiting' \subseteq Waiting \ {h.after}
        BY <1>0, <2>1, <2>2 DEF Waiting
    <2>5. Claimed'
        BY <1>0, <2>1, <2>4, ClaimedMore
    <2> QED
        BY <2>3, <2>5 DEF ClaimInv
<1>9. CASE \/ \E n \in pending : Wakes(n)
           \/ \E s \in Servers : Start(s) \/ Stop(s)
           \/ \E i \in DOMAIN passes, s \in Servers : Reconfigure(i, s)
           \/ \E p \in stops : StopEnds(p) \/ RestartEnds(p)
           \/ UNCHANGED vars
    <2>1. UNCHANGED <<inbox, queue, stamp, keystroke, claiming>>
        BY <1>9, Zenon DEF Wakes, Start, Stop, Reconfigure, StopEnds, RestartEnds, ClearAll,
                           vars, editorVars, reloadVars, overlayVars
    <2>2. Coming' = Coming
        BY <2>1 DEF Coming
    <2> QED
        BY <1>2, <2>1, <2>2
<1> QED
    BY <1>3, <1>4, <1>5, <1>6, <1>7, <1>8, <1>9 DEF Next, Editor, Handler

-----------------------------------------------------------------------------
(***************************************************************************)
(* The shape of the variables.                                             *)
(***************************************************************************)
EditorShape ==
    /\ open \subseteq Docs /\ released \subseteq Docs
    /\ text \in [Docs -> Stamps] /\ disk \in [Docs -> Stamps]
    /\ stamp \in Stamps /\ synced \in BOOLEAN /\ toggles \in 0..MaxToggles
OverlayShape ==
    /\ live \in BOOLEAN /\ lapsed \subseteq Docs /\ torn \subseteq Docs
    /\ queue \in Seq(Notices)
    /\ held \in [Docs -> Stamps \cup {Nothing, Garbled}]
ServerShape ==
    /\ running \subseteq Servers /\ serves \in [Servers -> BOOLEAN]
    /\ stops \subseteq Stopping /\ passes \in Seq(Passes)
ReloadShape ==
    /\ claiming \subseteq [doc : Docs, after : Stamps]
    /\ keystroke \in Stamps /\ reloaded \in 0..keystroke
    /\ pending \subseteq (1..keystroke) \ {reloaded}

LEMMA ShapesAreTypes ==
    TypeOK <=> /\ EditorShape /\ OverlayShape /\ ServerShape /\ ReloadShape
               /\ inbox \in Seq(Messages)
BY DEF TypeOK, EditorShape, OverlayShape, ServerShape, ReloadShape

LEMMA TypeStep == TypeOK /\ CountInv /\ ClaimInv /\ [Next]_vars => TypeOK'
<1> SUFFICES ASSUME TypeOK, CountInv, ClaimInv, [Next]_vars PROVE TypeOK'
    OBVIOUS
<1>0. /\ EditorShape /\ OverlayShape /\ ServerShape /\ ReloadShape
      /\ inbox \in Seq(Messages)
    BY ShapesAreTypes
<1>a. /\ UNCHANGED editorVars => EditorShape'
      /\ UNCHANGED <<live, overlayVars>> => OverlayShape'
      /\ UNCHANGED serverVars => ServerShape'
      /\ UNCHANGED reloadVars => ReloadShape'
    BY <1>0 DEF EditorShape, OverlayShape, ServerShape, ReloadShape,
                editorVars, overlayVars, serverVars, reloadVars
<1>b. (EditorShape /\ OverlayShape /\ ServerShape /\ ReloadShape
       /\ inbox \in Seq(Messages))' => TypeOK'
    BY DEF TypeOK, EditorShape, OverlayShape, ServerShape, ReloadShape
<1>c. \A m \in Messages : Append(inbox, m) \in Seq(Messages)
    BY <1>0
<1>d. \A n \in Notices : Append(queue, n) \in Seq(Notices)
    BY <1>0 DEF OverlayShape
<1>1. CASE \E d \in Docs : Open(d) \/ Save(d) \/ Close(d)
    <2>1. EditorShape'
        BY <1>0, <1>1 DEF EditorShape, Open, Save, Close
    <2>2. \E m \in Messages : inbox' = Append(inbox, m)
        BY <1>1, SentShape DEF TypeOK, Open, Save, Close, Send
    <2>3. OverlayShape' /\ UNCHANGED <<serverVars, reloadVars>>
        BY <1>0, <1>1 DEF Open, Save, Close, OverlayShape, overlayVars
    <2> QED
        BY <1>a, <1>b, <1>c, <2>1, <2>2, <2>3
<1>2. ASSUME NEW d \in Docs, NEW edits \in 1..MaxEdits, NEW whole \in BOOLEAN,
             Type(d, edits, whole)
      PROVE  TypeOK'
    <2>1. stamp + edits \in Stamps
        BY <1>0, <1>2, BoundsAssumption DEF EditorShape, Type, Stamps
    <2>2. EditorShape' /\ OverlayShape'
        BY <1>0, <1>2, <2>1 DEF EditorShape, OverlayShape, Type
    <2>3. inbox' \in Seq(Messages)
        <3>1. CASE synced
            BY <1>c, <1>2, <3>1, TypeSends
        <3>2. CASE ~synced
            BY <1>0, <1>2, <3>2 DEF Type
        <3> QED
            BY <3>1, <3>2 DEF TypeOK
    <2>4. UNCHANGED <<serverVars, reloadVars>>
        BY <1>2 DEF Type
    <2> QED
        BY <1>a, <1>b, <2>2, <2>3, <2>4
<1>3. CASE Toggle
    <2>1. EditorShape'
        BY <1>0, <1>3, BoundsAssumption DEF EditorShape, Toggle
    <2>2. inbox' \in Seq(Messages)
        BY <1>c, <1>3, ToggleSends
    <2>3. UNCHANGED <<live, overlayVars, serverVars, reloadVars>>
        BY <1>3 DEF Toggle
    <2> QED
        BY <1>a, <1>b, <2>1, <2>2, <2>3
<1> DEFINE n == Head(inbox)
<1>4. CASE DidOpen \/ DidChange \/ DidSave \/ DidClose
    <2>1. PICK kind \in {"open", "change", "save", "close"} :
              Receives(kind) /\ (WaitsForOverlay \/ Ends)
        BY <1>4 DEF DidOpen, DidChange, DidSave, DidClose
    <2>2. inbox' \in Seq(Messages) /\ n \in Notices /\ n.doc \in Docs
        <3>1. n \in Notices /\ n.doc \in Docs /\ inbox # <<>> /\ inbox' = Tail(inbox)
            BY <2>1, Received
        <3> QED
            BY <1>0, <3>1
    <2>3. OverlayShape'
        BY <1>0, <1>d, <2>1, <2>2 DEF OverlayShape, WaitsForOverlay, Ends
    <2>4. UNCHANGED <<editorVars, serverVars, reloadVars>>
        BY <2>1 DEF WaitsForOverlay, Ends
    <2> QED
        BY <1>a, <1>b, <2>2, <2>3, <2>4
<1>4a. CASE DidChangeConfiguration
    <2>1. /\ inbox' \in Seq(Messages) /\ n \in Messages /\ n.kind = "config"
        <3>1. n \in Messages /\ n.kind = "config" /\ inbox # <<>> /\ inbox' = Tail(inbox)
            BY <1>4a, Received DEF DidChangeConfiguration
        <3> QED
            BY <1>0, <3>1
    <2>2. n.live \in BOOLEAN
        BY <2>1, MessageShape
    <2>3. OverlayShape'
        BY <1>0, <1>4a, <2>2 DEF OverlayShape, DidChangeConfiguration, overlayVars
    <2>4. [live |-> live', left |-> Servers, busy |-> FALSE] \in Passes
        BY <2>3 DEF Passes, OverlayShape
    <2>5. ServerShape' /\ UNCHANGED <<editorVars, reloadVars>>
        BY <1>0, <1>4a, <2>4 DEF ServerShape, DidChangeConfiguration
    <2> QED
        BY <1>a, <1>b, <2>1, <2>3, <2>5
<1> DEFINE h == Head(queue)
<1>4b. CASE OverlaySet \/ OverlayClear
    <2>1. /\ h \in Messages /\ h.doc \in Docs /\ Tail(queue) \in Seq(Notices)
          /\ OverlaySet => h.kind = "open"
        BY <1>4b, GrantedShape DEF OverlaySet, OverlayClear
    <2>2. OverlaySet => h.after \in Stamps
        BY <2>1, MessageShape
    <2>3. OverlayShape'
        BY <1>0, <1>4b, <2>1, <2>2 DEF OverlayShape, OverlaySet, OverlayClear
    <2>4. UNCHANGED <<editorVars, inbox, serverVars, reloadVars>>
        BY <1>4b DEF OverlaySet, OverlayClear
    <2> QED
        BY <1>0, <1>a, <1>b, <2>3, <2>4
<1>4c. CASE OverlayApply
    <2>1. /\ h \in Messages /\ h.kind = "change" /\ h.doc \in Docs
          /\ Tail(queue) \in Seq(Notices)
        BY <1>4c, Applies, GrantedShape
    <2>2. h.next \in Stamps /\ h.after \in Stamps /\ h.whole \in BOOLEAN
        BY <2>1, MessageShape
    <2>3. \A c \in Stamps \cup {Nothing, Garbled} :
              Applied(c, h) \in Stamps \cup {Nothing, Garbled}
        BY <2>2 DEF Applied
    <2>4. queue' \in Seq(Notices)
        <3>1. ASSUME NEW c \in Seq(Notices), NEW r \in Notices PROVE Append(c, r) \in Seq(Notices)
            OBVIOUS
        <3> QED
            BY <1>4c, <2>1, <3>1, Applies
    <2>5. held' \in [Docs -> Stamps \cup {Nothing, Garbled}]
        BY <1>0, <1>4c, <2>1, <2>3 DEF OverlayShape, OverlayApply
    <2>6. lapsed' \subseteq Docs /\ torn' \subseteq Docs /\ live' = live
        BY <1>0, <1>4c, <2>1 DEF OverlayShape, OverlayApply
    <2>7. OverlayShape'
        BY <1>0, <2>4, <2>5, <2>6 DEF OverlayShape
    <2>8. [doc |-> h.doc, after |-> h.after] \in [doc : Docs, after : Stamps]
        BY <2>1, <2>2
    <2>9. ReloadShape'
        BY <1>0, <1>4c, <2>8 DEF ReloadShape, OverlayApply
    <2>10. UNCHANGED <<editorVars, inbox, serverVars>>
        BY <1>4c DEF OverlayApply
    <2> QED
        BY <1>0, <1>a, <1>b, <2>7, <2>9, <2>10
<1>5. ASSUME NEW g \in claiming, BufferChanged(g) PROVE TypeOK'
    <2>1. keystroke + 1 <= MaxStamps
        <3>0. g.after \in Claimants
            BY DEF Claimants
        <3>1. keystroke <= Cardinality((1..stamp) \ Waiting) /\ g.after \in Waiting
              /\ Waiting \subseteq 1..stamp
            <4>1. Claimed
                BY DEF ClaimInv
            <4>2. g.after \in Waiting
                BY <3>0 DEF Waiting
            <4> QED
                BY <4>1, <4>2 DEF Claimed
        <3>2. /\ stamp \in Nat /\ stamp <= MaxStamps /\ keystroke \in Nat
            BY ClaimShape
        <3>3. (1..stamp) \ Waiting \subseteq (1..stamp) \ {g.after}
              /\ g.after \in 1..stamp
            BY <3>1
        <3>4. IsFiniteSet(1..stamp) /\ Cardinality(1..stamp) = stamp
            BY <3>2, FS_Interval
        <3>5. /\ IsFiniteSet((1..stamp) \ {g.after})
              /\ Cardinality((1..stamp) \ {g.after}) = stamp - 1
            BY <3>3, <3>4, FS_RemoveElement
        <3>6. Cardinality((1..stamp) \ Waiting) <= stamp - 1
            BY <3>3, <3>5, FS_Subset
        <3>7. Cardinality((1..stamp) \ Waiting) \in Nat
            BY <3>2, FreeFinite
        <3> QED
            BY <3>1, <3>2, <3>6, <3>7, BoundsAssumption
    <2>2. ReloadShape'
        <3>1. /\ keystroke \in Nat /\ reloaded \in 0..keystroke
              /\ pending \subseteq (1..keystroke) \ {reloaded}
              /\ claiming' \subseteq [doc : Docs, after : Stamps] /\ reloaded' = reloaded
            BY <1>0, <1>5, BoundsAssumption DEF ReloadShape, BufferChanged, Stamps
        <3>2. CASE live /\ Home[g.doc] \in running
            <4>1. keystroke' = keystroke + 1 /\ pending' = pending \cup {keystroke + 1}
                BY <1>5, <3>2 DEF BufferChanged
            <4>2. keystroke' \in Stamps /\ reloaded' \in 0..keystroke'
                BY <2>1, <3>1, <4>1, BoundsAssumption DEF Stamps
            <4>3. pending' \subseteq (1..keystroke') \ {reloaded'}
                BY <3>1, <4>1
            <4> QED
                BY <3>1, <4>2, <4>3 DEF ReloadShape
        <3>3. CASE ~(live /\ Home[g.doc] \in running)
            BY <1>0, <1>5, <3>1, <3>3 DEF ReloadShape, BufferChanged
        <3> QED
            BY <3>2, <3>3
    <2>3. UNCHANGED <<editorVars, inbox, live, overlayVars, serverVars>>
        BY <1>5 DEF BufferChanged
    <2> QED
        BY <1>0, <1>a, <1>b, <2>2, <2>3
<1>6. ASSUME NEW k \in pending, Wakes(k) PROVE TypeOK'
    <2>1. ReloadShape'
        <3>1. keystroke \in Nat /\ k \in 1..keystroke /\ k # reloaded /\ reloaded \in 0..keystroke
            BY <1>0, <1>6, BoundsAssumption DEF ReloadShape, Stamps
        <3>2. reloaded' \in {k, reloaded} /\ reloaded' \in 0..keystroke
            BY <1>6, <3>1 DEF Wakes
        <3>3. pending' \subseteq (1..keystroke) \ {reloaded'}
            BY <1>0, <1>6, <3>2 DEF ReloadShape, Wakes
        <3> QED
            BY <1>0, <1>6, <3>2, <3>3 DEF ReloadShape, Wakes
    <2>2. UNCHANGED <<editorVars, inbox, live, overlayVars, serverVars>>
        BY <1>6 DEF Wakes
    <2> QED
        BY <1>0, <1>a, <1>b, <2>1, <2>2
<1>7. ASSUME NEW s \in Servers, Start(s) \/ Stop(s) PROVE TypeOK'
    <2>1. [server |-> s, pass |-> 0] \in Stopping
        BY BoundsAssumption DEF Stopping
    <2>2. ServerShape'
        BY <1>0, <1>7, <2>1 DEF ServerShape, OverlayShape, Start, Stop
    <2>3. UNCHANGED <<editorVars, inbox, live, overlayVars, reloadVars>>
        BY <1>7 DEF Start, Stop
    <2> QED
        BY <1>0, <1>a, <1>b, <2>2, <2>3
<1>8. ASSUME NEW i \in DOMAIN passes, NEW s \in Servers, Reconfigure(i, s) PROVE TypeOK'
    <2>1. i \in 1..Len(passes) /\ passes[i] \in Passes
        BY <1>0 DEF ServerShape
    <2>2. [server |-> s, pass |-> i] \in Stopping
        BY <2>1, CountShape, BoundsAssumption DEF Stopping
    <2>3. PICK b \in BOOLEAN : b <=> s \in running
        OBVIOUS
    <2>4. /\ [passes[i] EXCEPT !.left = @ \ {s}, !.busy = b] \in Passes
          /\ passes' = [passes EXCEPT ![i] = [passes[i] EXCEPT !.left = @ \ {s}, !.busy = b]]
        BY <1>0, <1>8, <2>1, <2>3 DEF Reconfigure, ServerShape, Passes
    <2>5. ServerShape'
        <3>1. passes' \in Seq(Passes)
            BY <1>0, <2>1, <2>4 DEF ServerShape
        <3>2. /\ stops' \subseteq Stopping /\ running' \subseteq Servers
              /\ serves' \in [Servers -> BOOLEAN]
            BY <1>0, <1>8, <2>2 DEF ServerShape, Reconfigure
        <3> QED
            BY <1>0, <3>1, <3>2 DEF ServerShape
    <2>6. UNCHANGED <<editorVars, inbox, live, overlayVars, reloadVars>>
        BY <1>8 DEF Reconfigure
    <2> QED
        BY <1>0, <1>a, <1>b, <2>5, <2>6
<1>9. ASSUME NEW p \in stops, StopEnds(p) \/ RestartEnds(p) PROVE TypeOK'
    <2>1. OverlayShape' /\ UNCHANGED <<editorVars, inbox, reloadVars>>
        BY <1>0, <1>9 DEF OverlayShape, StopEnds, RestartEnds, ClearAll
    <2>2. stops' \subseteq Stopping /\ p \in Stopping
        BY <1>0, <1>9 DEF ServerShape, StopEnds, RestartEnds, ClearAll
    <2>3. passes' \in Seq(Passes) /\ running' \subseteq Servers /\ serves' \in [Servers -> BOOLEAN]
        <3>1. CASE StopEnds(p)
            BY <1>0, <3>1 DEF ServerShape, StopEnds
        <3>2. CASE RestartEnds(p)
            <4>1. p.pass \in 1..Len(passes) /\ p.server \in Servers /\ Len(passes) \in Nat
                BY <1>0, <2>2, <3>2, CountShape
                   DEF ServerShape, Stopping, RestartEnds, CountInv
            <4>2. passes[p.pass] \in Passes
                BY <1>0, <4>1 DEF ServerShape
            <4>3. /\ passes[p.pass].live \in BOOLEAN
                  /\ [passes[p.pass] EXCEPT !.busy = FALSE] \in Passes
                BY <4>2 DEF Passes
            <4>4. passes' = [passes EXCEPT ![p.pass] = [passes[p.pass] EXCEPT !.busy = FALSE]]
                BY <3>2 DEF RestartEnds
            <4>5. passes' \in Seq(Passes)
                BY <1>0, <4>1, <4>3, <4>4 DEF ServerShape
            <4> QED
                BY <1>0, <3>2, <4>1, <4>3, <4>5 DEF ServerShape, RestartEnds
        <3> QED
            BY <1>9, <3>1, <3>2
    <2>4. ServerShape'
        BY <2>2, <2>3 DEF ServerShape
    <2> QED
        BY <1>0, <1>a, <1>b, <2>1, <2>4
<1>10. CASE UNCHANGED vars
    BY <1>0, <1>10, <1>a, <1>b DEF vars, editorVars, serverVars, reloadVars
<1> QED
    BY <1>1, <1>2, <1>3, <1>4, <1>4a, <1>4b, <1>4c, <1>5, <1>6, <1>7, <1>8, <1>9, <1>10
       DEF Next, Editor, Handler

-----------------------------------------------------------------------------
(***************************************************************************)
(* The invariant, and what follows from it.                                *)
(***************************************************************************)
LEMMA InitIInv == Init => IInv
<1> SUFFICES ASSUME Init PROVE IInv
    OBVIOUS
<1>1. /\ inbox = <<>> /\ queue = <<>> /\ passes = <<>> /\ claiming = {} /\ stamp = 0
      /\ stops = {} /\ open = {} /\ lapsed = Docs /\ synced = live /\ live \in BOOLEAN
      /\ \A d \in Docs : held[d] = Nothing
    BY DEF Init
<1>2. TypeOK
    BY BoundsAssumption DEF Init, TypeOK, Stamps
<1>3. 1..Len(Coming) = {} /\ 1..Len(queue) = {} /\ 1..Len(inbox) = {}
    <2>1. Len(queue) = 0 /\ Len(inbox) = 0
        BY <1>1
    <2> QED
        BY <1>2, <2>1, ComingShape
<1>4. \A d \in Docs : About(Coming, d) = {} /\ ~Edited(d)
    BY <1>3, Zenon DEF About, Edited
<1>5. Configs(inbox) = {} /\ Changes(Coming) = {}
    BY <1>3, Zenon DEF Configs, Changes
<1>6. FollowInv
    BY <1>1, <1>3, <1>4 DEF FollowInv, FollowsBy, Agrees
<1>7. UnsyncedInv
    BY <1>1, <1>3 DEF UnsyncedInv, Unedited
<1>8. MaskInv
    BY <1>1, <1>4 DEF MaskInv, MasksBy, OnlyRanged
<1>9. CountInv
    BY <1>1, <1>5, FS_EmptySet DEF CountInv, Init
<1>10. ToggleInv
    BY <1>1, <1>3, MarksAssumption DEF ToggleInv, Outlived, Unasked
<1>11. ClaimInv
    <2>1. Stamped(Coming) = {} /\ Claimants = {}
        BY <1>1, <1>5 DEF Stamped, Claimants
    <2>2. Waiting = {}
        BY <2>1 DEF Waiting
    <2>3. (1..stamp) \ Waiting = {} /\ keystroke = 0
        BY <1>1, <2>2 DEF Init
    <2> QED
        BY <1>1, <1>5, <2>1, <2>2, <2>3, FS_EmptySet DEF ClaimInv, Distinct, Single, Claimed
<1> QED
    BY <1>2, <1>6, <1>7, <1>8, <1>9, <1>10, <1>11 DEF IInv

LEMMA StepIInv == IInv /\ [Next]_vars => IInv'
BY TypeStep, FollowStep, UnsyncedStep, MaskStep, CountStep, ToggleStep, ClaimStep DEF IInv

\* The conjunction is inductive, and holds in every state the program reaches: of any
\* number of handlers that take the overlay's lock anew for each edit (lsp.rs:669-672),
\* those whose edits do not overtake one another lead from text to text.
THEOREM Invariance == Spec => []IInv
BY InitIInv, StepIInv, PTL DEF Spec

\* The shape of the variables, however many notifications are in flight: no reload
\* is broadcast under a number nobody claimed (lsp.rs:423-434), and a reconfigure
\* never speaks of a change of the setting that was not made.
THEOREM TypeCorrect == Spec => []TypeOK
<1>1. IInv => TypeOK
    BY DEF IInv
<1> QED
    BY <1>1, Invariance, PTL

\* While nothing has made it lose track of an open document the overlay holds what
\* the editor shows (overlay.rs:42-63), once the notifications about it are handled:
\* however many edits each one brings, unless the edits of two interleave.
THEOREM HeldFollows == Spec => []HeldFollowsBuffer
<1>1. IInv => HeldFollowsBuffer
    <2> SUFFICES ASSUME IInv, NEW d \in open \ (lapsed \cup torn), Settled(d)
                 PROVE  held[d] = text[d]
        BY DEF HeldFollowsBuffer
    <2>1. d \in Docs /\ TypeOK
        BY DEF IInv, TypeOK
    <2>2. synced
        BY <2>1 DEF IInv, UnsyncedInv
    <2>3. About(Coming, d) = {}
        BY <2>1, QueueConcerns
    <2> QED
        BY <2>1, <2>2, <2>3 DEF IInv, FollowInv, FollowsBy, Agrees
<1> QED
    BY <1>1, Invariance, PTL

\* did_save and did_close (lsp.rs:675-689) take effect whatever the setting did in
\* between, and whatever edits overtook one another: the overlay masks no file that is
\* saved or closed.
THEOREM DiskUnmasked == Spec => []DiskIsNotMasked
<1>1. IInv => DiskIsNotMasked
    <2> SUFFICES ASSUME IInv, NEW d \in Docs, Settled(d), d \notin open \/ d \in released
                 PROVE  held[d] = Nothing
        BY DEF DiskIsNotMasked
    <2>1. About(Coming, d) = {}
        BY QueueConcerns DEF IInv
    <2> QED
        BY <2>1 DEF IInv, MaskInv, MasksBy, Barred
<1> QED
    BY <1>1, Invariance, PTL

\* Saves, stops and restarts, in any order, lose text and leave no wrong one: a text
\* is out of date only after a change of live_changes, and mixed up only after two,
\* unless the edits of two notifications interleave.
THEOREM LossIsHarmless == Spec => []LostNotWrong
<1>1. IInv => LostNotWrong
    <2> SUFFICES ASSUME IInv, NEW d \in Docs \ torn
                 PROVE  /\ held[d] = Garbled => toggles > 1
                        /\ d \in open /\ Settled(d) /\ toggles = 0 => held[d] \in {Nothing, text[d]}
        BY DEF LostNotWrong
    <2>1. /\ TypeOK /\ Outlived(d) /\ Len(passes) \in Nat /\ toggles \in Nat
          /\ Len(passes) <= toggles
        BY CountShape DEF IInv, ToggleInv
    <2>2. held[d] = Garbled => toggles > 1
        BY <2>1 DEF Outlived
    <2>3. ASSUME d \in open, Settled(d), toggles = 0 PROVE held[d] \in {Nothing, text[d]}
        <3>1. Len(passes) = 0 /\ About(Coming, d) = {}
            BY <2>1, <2>3, QueueConcerns
        <3>2. CASE ~synced
            <4>1. ~Unasked
                BY <3>1 DEF IInv, ToggleInv
            <4> QED
                BY <3>2, <4>1 DEF Unasked
        <3>3. CASE synced
            <4>1. d \in lapsed \/ held[d] = text[d]
                BY <2>3, <3>1, <3>3 DEF IInv, FollowInv, FollowsBy, Agrees
            <4>2. d \in lapsed => held[d] = Nothing
                BY <2>1, <3>1, <3>3 DEF Outlived
            <4> QED
                BY <4>1, <4>2
        <3> QED
            BY <2>1, <3>2, <3>3 DEF TypeOK
    <2> QED
        BY <2>2, <2>3
<1> QED
    BY <1>1, Invariance, PTL

\* A timer that fires late never brings up an older change after a newer one
\* (lsp.rs:423-434), however long each one waits.
THEOREM ReloadsOrdered == Spec => ReloadsInOrder
<1>1. TypeOK /\ [Next]_vars => [reloaded' >= reloaded]_reloaded
    <2> SUFFICES ASSUME TypeOK, [Next]_vars, reloaded' # reloaded PROVE reloaded' >= reloaded
        OBVIOUS
    <2>1. keystroke \in Nat /\ reloaded \in 0..keystroke
        BY BoundsAssumption DEF TypeOK, Stamps
    <2>2. \E n \in pending : Wakes(n)
        BY DEF Next, vars, Editor, Open, Save, Close, Type, Toggle, Handler, DidOpen, DidChange,
               DidSave, DidClose, Ends, WaitsForOverlay, OverlaySet, OverlayApply, OverlayClear,
               DidChangeConfiguration, BufferChanged, Start, Stop,
               Reconfigure, StopEnds, RestartEnds, ClearAll, reloadVars
    <2> QED
        BY <2>1, <2>2 DEF Wakes
<1> QED
    BY <1>1, TypeCorrect, PTL DEF Spec, ReloadsInOrder
=============================================================================
