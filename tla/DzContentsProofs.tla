-------------------------- MODULE DzContentsProofs --------------------------
(***************************************************************************)
(* What an archive contains, apart from where anything is: that sessions   *)
(* implement DzContents, that a deletion loses exactly what it was asked   *)
(* to, and that a pak's header has the size of what it contains.           *)
(***************************************************************************)
EXTENDS DzArchiveProofs

LOCAL INSTANCE SequencesExt

-----------------------------------------------------------------------------
(* The places that items have when some are gone.                          *)

\* how many of the first x items are kept
Rank(n, gone) ==
  LET rank[x \in 0 .. n] ==
        IF x = 0 THEN 0 ELSE rank[x - 1] + (IF x \in gone THEN 0 ELSE 1)
  IN rank

\* It counts them one by one, and so every number up to the last is the place of an item
LEMMA RankFacts ==
  ASSUME NEW n \in Nat, NEW gone
  PROVE  /\ Rank(n, gone) \in [0 .. n -> Nat]
         /\ Rank(n, gone)[0] = 0
         /\ \A x \in 1 .. n : x \in gone => Rank(n, gone)[x] = Rank(n, gone)[x - 1]
         /\ \A x \in 1 .. n : x \notin gone => Rank(n, gone)[x] = Rank(n, gone)[x - 1] + 1
         /\ \A x, y \in 0 .. n : x <= y => Rank(n, gone)[x] <= Rank(n, gone)[y]
         /\ \A y \in 1 .. Rank(n, gone)[n] : \E x \in (1 .. n) \ gone : Rank(n, gone)[x] = y
<1> DEFINE v == [x \in 1 .. n |-> IF x \in gone THEN 0 ELSE 1]
           step(g, x) == IF x = 0 THEN 0 ELSE g[x - 1] + (IF x \in gone THEN 0 ELSE 1)
           r == CHOOSE g : g = [x \in 0 .. n |-> step(g, x)]
<1>1. v \in [1 .. n -> Nat] /\ \A x \in 1 .. n : v[x] = IF x \in gone THEN 0 ELSE 1
  OBVIOUS
<1> HIDE DEF v
<1>2. ASSUME NEW g PROVE SumsUp(g, n, 0, v) <=> g = [x \in 0 .. n |-> step(g, x)]
  <2>1. ASSUME NEW x \in 0 .. n PROVE step(g, x) = IF x = 0 THEN 0 ELSE g[x - 1] + v[x]
    <3>1. x # 0 => x \in 1 .. n
      OBVIOUS
    <3> QED
      BY <1>1, <3>1
  <2> HIDE DEF step
  <2>2. [x \in 0 .. n |-> step(g, x)] = [x \in 0 .. n |-> IF x = 0 THEN 0 ELSE g[x - 1] + v[x]]
    BY <2>1
  <2> QED
    BY <2>2 DEF SumsUp
<1>3. SumsUp(r, n, 0, v)
  <2>1. \E g : g = [x \in 0 .. n |-> step(g, x)]
    <3> HIDE DEF step
    <3>1. \E g : SumsUp(g, n, 0, v)
      BY <1>1, SumExists
    <3> QED
      BY <1>2, <3>1
  <2> HIDE DEF step
  <2>2. r = [x \in 0 .. n |-> step(r, x)]
    BY <2>1
  <2> HIDE DEF r
  <2> QED
    BY <1>2, <2>2
<1>4. Rank(n, gone) = r
  BY DEF Rank
<1> HIDE DEF r, step
<1>5. /\ r \in [0 .. n -> Nat] /\ r[0] = 0
      /\ \A x \in 1 .. n : r[x] = r[x - 1] + v[x]
      /\ \A x, y \in 0 .. n : x <= y => r[x] <= r[y]
  <2> DEFINE z == 0
  <2>1. z \in Nat /\ v \in [1 .. n -> Nat] /\ SumsUp(r, n, z, v)
    BY <1>1, <1>3
  <2> HIDE DEF z
  <2>2. /\ r \in [0 .. n -> Nat] /\ r[0] = z
        /\ \A x \in 1 .. n : r[x] = r[x - 1] + v[x]
        /\ \A x, y \in 0 .. n : x <= y => r[x] <= r[y]
    <3>1. r \in [0 .. n -> Nat]
      BY <2>1, SumFacts
    <3>2. r[0] = z
      BY <2>1, SumFacts
    <3>3. \A x \in 1 .. n : r[x] = r[x - 1] + v[x]
      BY <2>1, SumStep DEF Grows
    <3>4. \A x, y \in 0 .. n : x <= y => r[x] <= r[y]
      BY <2>1, SumFacts
    <3> QED
      BY <3>1, <3>2, <3>3, <3>4
  <2> QED
    BY <2>2 DEF z
<1>6. ASSUME NEW x \in 1 .. n
      PROVE  (x \in gone => r[x] = r[x - 1]) /\ (x \notin gone => r[x] = r[x - 1] + 1)
  <2>1. x - 1 \in 0 .. n /\ r[x - 1] \in Nat
    BY <1>5
  <2>2. r[x] = r[x - 1] + v[x] /\ v[x] = IF x \in gone THEN 0 ELSE 1
    BY <1>1, <1>5
  <2> QED
    BY <2>1, <2>2
<1>7. \A y \in 1 .. r[n] : \E x \in (1 .. n) \ gone : r[x] = y
  <2> DEFINE K == {m \in 0 .. n : \A y \in 1 .. r[m] : \E x \in (1 .. n) \ gone : r[x] = y}
  <2>1. 0 \in K
    BY <1>5
  <2>2. ASSUME NEW m \in 1 .. n, m - 1 \in K PROVE m \in K
    <3>1. m - 1 \in 0 .. n /\ r[m - 1] \in Nat
      BY <1>5
    <3>2. CASE m \in gone
      BY <1>6, <2>2, <3>1, <3>2
    <3>3. CASE m \notin gone
      <4>1. r[m] = r[m - 1] + 1
        BY <1>6, <3>3
      <4>2. ASSUME NEW y \in 1 .. r[m] PROVE \E x \in (1 .. n) \ gone : r[x] = y
        <5>1. CASE y = r[m]
          BY <3>3, <5>1
        <5>2. CASE y # r[m]
          <6>1. y \in 1 .. r[m - 1]
            BY <3>1, <4>1, <5>2
          <6> QED
            BY <2>2, <6>1
        <5> QED
          BY <5>1, <5>2
      <4> QED
        BY <4>2
    <3> QED
      BY <3>2, <3>3
  <2> HIDE DEF K
  <2>3. 0 .. n \subseteq K
    BY <2>1, <2>2, BoundedInduction
  <2> QED
    BY <2>3 DEF K
<1> QED
  BY <1>4, <1>5, <1>6, <1>7

\* t has at every place the item of s that is to be there
Remains(s, gone, t) ==
  /\ Len(s) \in Nat /\ DOMAIN s = 1 .. Len(s)
  /\ t = [y \in 1 .. Rank(Len(s), gone)[Len(s)] |-> t[y]]
  /\ \A x \in (1 .. Len(s)) \ gone : t[Rank(Len(s), gone)[x]] = s[x]

\* What is kept of a sequence is another one if that one has at every place which is the
\* rank of a kept item that item
LEMMA KeptIs ==
  ASSUME NEW s, NEW gone, NEW t, Remains(s, gone, t)
  PROVE  Contents!Kept(s, gone) = t
<1> DEFINE n == Len(s)
           r == Rank(n, gone)
           place(y) == CHOOSE x \in DOMAIN s \ gone : r[x] = y
<1> USE DEF Remains
<1>1. Contents!Kept(s, gone) = [y \in 1 .. r[n] |-> s[place(y)]]
  BY DEF Contents!Kept, Rank
<1>2. ASSUME NEW y \in 1 .. r[n] PROVE s[place(y)] = t[y]
  <2>1. \E x \in (1 .. n) \ gone : r[x] = y
    BY RankFacts
  <2> HIDE DEF r
  <2>2. place(y) \in (1 .. n) \ gone /\ r[place(y)] = y
    BY <2>1
  <2> QED
    BY <2>2 DEF r
<1> HIDE DEF r, place
<1>3. t = [y \in 1 .. r[n] |-> t[y]]
  BY DEF r
<1> QED
  BY <1>1, <1>2, <1>3

\* nothing of what goes as a whole
LEMMA KeptNothing ==
  ASSUME NEW s, Len(s) \in Nat, DOMAIN s = 1 .. Len(s)
  PROVE  Contents!Kept(s, DOMAIN s) = << >>
<1> DEFINE n == Len(s)
           r == Rank(n, 1 .. n)
<1>1. r \in [0 .. n -> Nat] /\ \A y \in 1 .. r[n] : \E x \in (1 .. n) \ (1 .. n) : r[x] = y
  BY RankFacts
<1>2. 1 .. r[n] = {}
  BY <1>1
<1> HIDE DEF r
<1>3. << >> = [y \in 1 .. r[n] |-> << >>[y]]
  BY <1>2
<1>4. Remains(s, DOMAIN s, << >>)
  BY <1>3 DEF Remains, r
<1> QED
  BY <1>4, KeptIs

-----------------------------------------------------------------------------
(* What a deletion loses.                                                  *)

\* the entries the walk is past stand, if they stay, at their ranks under their own names
NamesInv ==
  /\ Stay = Rank(Len(was), asked)[Passed]
  /\ \A x \in (1 .. Passed) \ asked : Item(dir, Rank(Len(was), asked)[x]) = Item(was, x)

\* an entry in a stretch of entries that all go does not change the rank
LEMMA RankStays ==
  ASSUME NEW n \in Nat, NEW gone, NEW x \in 0 .. n, NEW y \in x .. n, \A z \in x + 1 .. y : z \in gone
  PROVE  Rank(n, gone)[y] = Rank(n, gone)[x]
<1> DEFINE r == Rank(n, gone)
           K == {k \in 0 .. y - x : r[x + k] = r[x]}
<1>1. \A z \in 1 .. n : z \in gone => r[z] = r[z - 1]
  BY RankFacts
<1> HIDE DEF r
<1>2. 0 \in K
  OBVIOUS
<1>3. ASSUME NEW k \in 1 .. y - x, k - 1 \in K PROVE k \in K
  <2>1. x + k \in x + 1 .. y /\ x + k \in 1 .. n /\ (x + k) - 1 = x + (k - 1)
    OBVIOUS
  <2>2. r[x + k] = r[(x + k) - 1]
    BY <1>1, <2>1
  <2> QED
    BY <1>3, <2>1, <2>2
<1> HIDE DEF K
<1>4. y - x \in Nat
  OBVIOUS
<1>5. 0 .. y - x \subseteq K
  BY <1>2, <1>3, <1>4, BoundedInduction
<1>6. y - x \in 0 .. y - x /\ x + (y - x) = y
  OBVIOUS
<1>7. r[x + (y - x)] = r[x]
  BY <1>5, <1>6 DEF K
<1> QED
  BY <1>6, <1>7 DEF r

\* the header of a member that stays is there
LEMMA StayHeaders ==
  ASSUME WalkInv, PakWalkInv, NEW n \in Nat, n = Stay, NEW y \in 1 .. n, IsMember(dir[y])
  PROVE  dir[y].pak \in Nat /\ y - dir[y].pak \in 1 .. n
<1>1. /\ WholePaks(dir, IF InPak THEN NewHeader - 1 ELSE Stay)
      /\ InPak => NewHeader \in 1 .. Stay /\ Members(dir, NewHeader, Stay) /\ IsPak(dir[NewHeader])
  BY DEF PakWalkInv, AroundInv
<1> DEFINE m == IF InPak THEN NewHeader - 1 ELSE n
<1>2. CASE y \in 1 .. m
  <2>1. WholePaks(dir, m)
    BY <1>1
  <2> HIDE DEF m
  <2>2. dir[y].pak \in Nat \ {0} /\ 1 <= y - dir[y].pak
    BY <1>2, <2>1 DEF WholePaks
  <2> QED
    BY <2>2
<1>3. CASE InPak /\ y \in NewHeader + 1 .. n
  <2> DEFINE h == NewHeader
  <2>1. Members(dir, h, n) /\ h \in 1 .. n /\ y \in h + 1 .. n
    BY <1>1, <1>3
  <2> HIDE DEF h
  <2>2. dir[y].pak = y - h
    BY <2>1 DEF Members
  <2> QED
    BY <2>1, <2>2
<1>4. CASE InPak /\ y = NewHeader
  BY <1>1, <1>4 DEF IsPak, IsMember
<1> QED
  <2>1. InPak => NewHeader \in 1 .. n
    BY <1>1
  <2> HIDE DEF Stay, NewHeader, InPak
  <2> QED
    BY <1>2, <1>3, <1>4, <2>1

\* the first n entries of d and e are alike in what they are called, and have their headers
SameItems(n, d, e) ==
  /\ \A y \in 1 .. n : d[y].name = e[y].name /\ d[y].type = e[y].type
  /\ \A y \in 1 .. n : ~IsPak(d[y]) => d[y].pak = e[y].pak
  /\ \A y \in 1 .. n : IsMember(d[y]) => y - d[y].pak \in 1 .. n

\* an entry's item depends only on names, kinds and a member's number
LEMMA ItemsSame ==
  ASSUME NEW n \in Nat, NEW d, NEW e, SameItems(n, d, e)
  PROVE  \A x \in 1 .. n : Item(e, x) = Item(d, x)
<1> SUFFICES ASSUME NEW x \in 1 .. n PROVE Item(e, x) = Item(d, x)
  OBVIOUS
<1>1. IsMember(e[x]) <=> IsMember(d[x])
  BY DEF SameItems, IsMember, IsPak
<1>2. CASE IsMember(d[x])
  <2>1. e[x].pak = d[x].pak /\ x - d[x].pak \in 1 .. n
    BY <1>2 DEF SameItems, IsMember, IsPak
  <2> QED
    BY <1>1, <1>2, <2>1 DEF SameItems, Item
<1>3. CASE ~IsMember(d[x])
  BY <1>1, <1>3 DEF SameItems, Item
<1> QED
  BY <1>2, <1>3

\* which entries the request names, seen from where the walk is
LEMMA AskedFacts ==
  ASSUME ArchiveInv, pc = "walk", i <= Len(dir)
  PROVE  /\ asked \subseteq 1 .. Len(was)
         /\ Listed => \A x \in i .. i + Group(was[i]) : x \in asked
         /\ ~Listed => i \notin asked
<1>1. Sound(was) /\ ListInv /\ i \in 1 .. Len(was) /\ Len(was) \in Nat
  BY WalkFacts
<1>2. /\ asked = Selected(was, list) /\ DOMAIN was = 1 .. Len(was)
  BY <1>1 DEF ListInv, Sound
<1>3. /\ Len(list) \in Nat /\ listnum \in 0 .. Len(list)
      /\ \A y \in 1 .. Len(list) : list[y] \in 1 .. Len(was) /\ (y <= listnum <=> list[y] <= i - 1)
      /\ \A y \in 1 .. listnum : IsPak(was[list[y]]) => list[y] + was[list[y]].pak <= i - 1
      /\ Listed => listnum + 1 \in 1 .. Len(list) /\ list[listnum + 1] = i
      /\ ~Listed => \A y \in 1 .. Len(list) : list[y] # i
  BY ListedFacts
<1>4. asked \subseteq 1 .. Len(was)
  BY <1>2 DEF Selected
<1>5. ASSUME Listed, NEW x \in i .. i + Group(was[i]) PROVE x \in asked
  <2>1. Group(was[i]) \in Nat /\ i + Group(was[i]) <= Len(was)
    BY <1>1, SoundExtent
  <2>2. x \in 1 .. Len(was)
    BY <1>1, <1>5, <2>1
  <2>3. x = i \/ (IsPak(was[i]) /\ x \in i .. i + was[i].pak)
    BY <1>1, <1>5 DEF Group
  <2> QED
    BY <1>2, <1>3, <1>5, <2>2, <2>3 DEF Selected
<1>6. ASSUME ~Listed, i \in asked PROVE FALSE
  <2>1. PICK y \in 1 .. Len(list) : i = list[y] \/ (IsPak(was[list[y]]) /\ i \in list[y] .. list[y] + was[list[y]].pak)
    BY <1>2, <1>6 DEF Selected
  <2>2. IsPak(was[list[y]]) /\ i \in list[y] .. list[y] + was[list[y]].pak /\ list[y] # i
    BY <1>3, <1>6, <2>1
  <2>3. list[y] \in 1 .. Len(was) /\ was[list[y]].pak \in Nat
    BY <1>1, <1>3, <2>2, SoundPak
  <2>4. list[y] <= i - 1
    BY <1>1, <2>2, <2>3
  <2>5. y \in 1 .. listnum
    BY <1>3, <2>4
  <2>6. list[y] + was[list[y]].pak <= i - 1
    BY <1>3, <2>2, <2>5
  <2> QED
    BY <1>1, <2>2, <2>3, <2>6
<1> QED
  BY <1>4, <1>5, <1>6

\* an entry that stays takes the next rank
LEMMA KeepNames ==
  ASSUME ArchiveInv, NamesInv, KeepEntry
  PROVE  NamesInv'
<1> DEFINE r == Rank(Len(was), asked)
           s == Stay
<1>1. /\ pc = "walk" /\ i <= Len(dir) /\ ~Listed /\ UNCHANGED <<was, asked>>
      /\ Passed' = i /\ Stay' = s + 1
      /\ dir' \in Seq(Entry)
      /\ \A x \in 1 .. s : dir'[x] = dir[x]
      /\ dir'[s + 1].name = was[i].name /\ dir'[s + 1].type = was[i].type
      /\ dir'[s + 1].pak = Renumbered.pak
  BY KeepFactsOfWalk
<1>2. /\ Sound(was) /\ WalkInv /\ PakWalkInv /\ Len(was) \in Nat /\ i \in 1 .. Len(was)
      /\ Passed = i - 1 /\ s \in 0 .. i - 1
  BY <1>1, WalkFacts
<1>3. i \notin asked /\ s \in Nat
  BY <1>1, <1>2, AskedFacts
<1>4. /\ r \in [0 .. Len(was) -> Nat]
      /\ \A x \in 1 .. Len(was) : x \notin asked => r[x] = r[x - 1] + 1
      /\ \A x, y \in 0 .. Len(was) : x <= y => r[x] <= r[y]
  BY <1>2, RankFacts
<1>5. s = r[i - 1] /\ \A x \in (1 .. i - 1) \ asked : Item(dir, r[x]) = Item(was, x)
  BY <1>2 DEF NamesInv
<1>6. \A y \in 1 .. s : IsMember(dir[y]) => y - dir[y].pak \in 1 .. s
  BY <1>2, <1>3, StayHeaders
<1> HIDE DEF r, s
<1>7. r[i] = s + 1
  BY <1>2, <1>3, <1>4, <1>5
<1>8. \A y \in 1 .. s : Item(dir', y) = Item(dir, y)
  <2>1. /\ \A y \in 1 .. s : dir[y].name = dir'[y].name /\ dir[y].type = dir'[y].type
        /\ \A y \in 1 .. s : ~IsPak(dir[y]) => dir[y].pak = dir'[y].pak
    BY <1>1
  <2>2. SameItems(s, dir, dir')
    BY <1>6, <2>1 DEF SameItems
  <2> QED
    BY <1>3, <2>2, ItemsSame
<1>9. Item(dir', s + 1) = Item(was, i)
  <2>1. ~IsMember(was[i]) => Renumbered.pak = was[i].pak
    BY <1>1, RenumberedFacts
  <2>2. IsMember(was[i]) => Renumbered.pak = was[i].pak - pakdelta /\ Renumbered.pak # 0
    BY <1>1, RenumberedFacts
  <2>3. CASE ~IsMember(was[i])
    <3>1. ~IsMember(dir'[s + 1])
      BY <1>1, <2>1, <2>3 DEF IsMember
    <3> QED
      BY <1>1, <2>3, <3>1 DEF Item
  <2>4. CASE IsMember(was[i])
    <3>1. /\ AroundInv /\ OldHeader = i - was[i].pak /\ was[i].pak \in Nat
          /\ NewHeader = i - was[i].pak - dedelta + pakdelta /\ NewHeader \in 1 .. s
          /\ pakdelta \in Nat /\ dedelta \in Nat /\ s = i - 1 - dedelta
      BY <1>1, <2>4, InPakFacts, WalkFacts, SMTT(30) DEF s
    <3>2. (s + 1) - Renumbered.pak = NewHeader
      BY <1>2, <2>2, <2>4, <3>1
    <3>3. dir'[NewHeader].name = was[OldHeader].name
      BY <1>1, <3>1 DEF AroundInv
    <3>4. IsMember(dir'[s + 1])
      BY <1>1, <2>2, <2>4 DEF IsMember
    <3>5. dir'[(s + 1) - dir'[s + 1].pak].name = was[i - was[i].pak].name
      BY <1>1, <3>1, <3>2, <3>3
    <3> QED
      BY <1>1, <2>4, <3>4, <3>5 DEF Item
  <2> QED
    BY <2>3, <2>4
<1>10. Stay' = r[i] /\ Passed' = i
  BY <1>1, <1>7
<1>11. ASSUME NEW x \in (1 .. i) \ asked PROVE Item(dir', r[x]) = Item(was, x)
  <2>1. CASE x = i
    BY <1>7, <1>9, <2>1
  <2>2. CASE x # i
    <3>1. x \in (1 .. i - 1) \ asked /\ x - 1 \in 0 .. Len(was) /\ x \in 1 .. Len(was)
          /\ x \in 0 .. Len(was) /\ i - 1 \in 0 .. Len(was)
      BY <1>2, <2>2
    <3>2. r[x] = r[x - 1] + 1 /\ r[x - 1] \in Nat /\ r[x] <= r[i - 1]
      BY <1>4, <3>1
    <3>3. r[x] \in 1 .. s
      BY <1>3, <1>5, <3>2
    <3> QED
      BY <1>5, <1>8, <3>1, <3>3
  <2> QED
    BY <2>1, <2>2
<1>12. Rank(Len(was'), asked') = r /\ asked' = asked /\ was' = was
  BY <1>1 DEF r
<1> QED
  BY <1>10, <1>11, <1>12 DEF NamesInv

\* one that goes takes none, and neither do its members
LEMMA DropNames ==
  ASSUME ArchiveInv, NamesInv, DropEntry \/ DropMember
  PROVE  NamesInv'
<1> DEFINE r == Rank(Len(was), asked)
           s == Stay
           z == IF DropEntry THEN i + Group(was[i]) ELSE i
<1>1. /\ pc = "walk" /\ i <= Len(dir) /\ Listed /\ UNCHANGED <<was, asked>>
      /\ Passed' = z /\ Stay' = s
  BY DropFacts, MemberFacts
<1>2. /\ Sound(was) /\ WalkInv /\ PakWalkInv /\ Len(was) \in Nat /\ i \in 1 .. Len(was)
      /\ Passed = i - 1 /\ s \in 0 .. i - 1
  BY <1>1, WalkFacts
<1>3. /\ \A x \in i .. i + Group(was[i]) : x \in asked
      /\ Group(was[i]) \in Nat /\ i + Group(was[i]) <= Len(was)
  BY <1>1, <1>2, AskedFacts, SoundExtent
<1>4. \A x \in i .. z : x \in asked
  BY <1>2, <1>3
<1>5. z \in i .. Len(was) /\ s \in Nat
  BY <1>2, <1>3
<1>6. s = r[i - 1] /\ \A x \in (1 .. i - 1) \ asked : Item(dir, r[x]) = Item(was, x)
  BY <1>2 DEF NamesInv
<1>7. \A y \in 1 .. s : IsMember(dir[y]) => y - dir[y].pak \in 1 .. s
  BY <1>2, <1>5, StayHeaders
<1>8. /\ r \in [0 .. Len(was) -> Nat]
      /\ \A x \in 1 .. Len(was) : x \notin asked => r[x] = r[x - 1] + 1
      /\ \A x, y \in 0 .. Len(was) : x <= y => r[x] <= r[y]
  BY <1>2, RankFacts
<1>9. r[z] = r[i - 1]
  <2> HIDE DEF z
  <2>1. i - 1 \in 0 .. Len(was) /\ z \in i - 1 .. Len(was) /\ \A x \in (i - 1) + 1 .. z : x \in asked
    BY <1>2, <1>4, <1>5
  <2> QED
    BY <1>2, <2>1, RankStays
<1>10. \A y \in 1 .. s : Item(dir', y) = Item(dir, y)
  <2>1. /\ \A y \in 1 .. s : dir[y].name = dir'[y].name /\ dir[y].type = dir'[y].type
        /\ \A y \in 1 .. s : ~IsPak(dir[y]) => dir[y].pak = dir'[y].pak
    <3>1. CASE DropEntry
      BY <3>1, DropFacts
    <3>2. CASE DropMember
      <4>1. IsPak(dir[NewHeader])
        BY <1>1, <3>2, MemberFacts, InPakFacts DEF AroundInv
      <4>2. /\ \A x \in 1 .. s : x # NewHeader => dir'[x] = dir[x]
            /\ dir'[NewHeader].name = dir[NewHeader].name
            /\ dir'[NewHeader].type = dir[NewHeader].type
        BY <3>2, MemberFacts
      <4> QED
        BY <4>1, <4>2
    <3> QED
      BY <3>1, <3>2
  <2> HIDE DEF s
  <2>2. SameItems(s, dir, dir')
    BY <1>7, <2>1 DEF SameItems
  <2> QED
    BY <1>5, <2>2, ItemsSame
<1> HIDE DEF r, s, z
<1>11. ASSUME NEW x \in (1 .. z) \ asked PROVE Item(dir', r[x]) = Item(was, x)
  <2>1. x \in (1 .. i - 1) \ asked /\ x - 1 \in 0 .. Len(was) /\ x \in 1 .. Len(was)
        /\ x \in 0 .. Len(was) /\ i - 1 \in 0 .. Len(was)
    BY <1>2, <1>4, <1>5
  <2>2. r[x] = r[x - 1] + 1 /\ r[x - 1] \in Nat /\ r[x] <= r[i - 1]
    BY <1>8, <2>1
  <2>3. r[x] \in 1 .. s
    BY <1>5, <1>6, <2>2
  <2> QED
    BY <1>6, <1>10, <2>1, <2>3
<1>12. Rank(Len(was'), asked') = r /\ asked' = asked /\ was' = was
  BY <1>1 DEF r
<1> QED
  BY <1>1, <1>6, <1>9, <1>11, <1>12 DEF NamesInv

\* and at the end of the walk what is left is what is kept
LEMMA HeaderNames ==
  ASSUME ArchiveInv, NamesInv, DeleteHeader
  PROVE  Listing(dir') = Contents!Kept(Listing(was), asked)
<1> DEFINE n == Len(was)
           r == Rank(n, asked)
           s == Stay
<1>1. /\ pc = "walk" /\ Sound(dir') /\ Len(dir') = s /\ \A x \in 1 .. s : dir'[x] = dir[x]
  BY HeaderFacts
<1>2. i > Len(dir)
  BY DEF DeleteHeader
<1>3. Sound(was) /\ WalkInv /\ PakWalkInv
  BY <1>1 DEF ArchiveInv, DelInv, Deleting
<1>4. n \in Nat /\ DOMAIN was = 1 .. n /\ Passed = n /\ s \in Nat /\ DOMAIN dir' = 1 .. s
  <2>1. Passed = i - 1 /\ n \in Nat /\ DOMAIN was = 1 .. n
    BY <1>1, <1>3 DEF Passed, Sound
  <2>2. Passed = n
    BY <1>2, <1>3, <2>1 DEF WalkInv
  <2>3. DOMAIN dir' = 1 .. Len(dir') /\ Len(dir') \in Nat
    BY <1>1 DEF Sound
  <2> QED
    BY <1>1, <2>1, <2>2, <2>3
<1>5. s = r[n] /\ \A x \in (1 .. n) \ asked : Item(dir, r[x]) = Item(was, x)
  BY <1>4 DEF NamesInv
<1>6. \A y \in 1 .. s : IsMember(dir[y]) => y - dir[y].pak \in 1 .. s
  BY <1>3, <1>4, StayHeaders
<1> HIDE DEF s
<1>7. \A y \in 1 .. s : Item(dir', y) = Item(dir, y)
  <2>1. /\ \A y \in 1 .. s : dir[y].name = dir'[y].name /\ dir[y].type = dir'[y].type
        /\ \A y \in 1 .. s : ~IsPak(dir[y]) => dir[y].pak = dir'[y].pak
    BY <1>1
  <2>2. SameItems(s, dir, dir')
    BY <1>6, <2>1 DEF SameItems
  <2> QED
    BY <1>4, <2>2, ItemsSame
<1>8. Listing(dir') = [y \in 1 .. s |-> Item(dir', y)]
  BY <1>4 DEF Listing
<1>9. DOMAIN Listing(was) = 1 .. n /\ Len(Listing(was)) = n
      /\ \A x \in 1 .. n : Listing(was)[x] = Item(was, x)
  <2> DEFINE l == Listing(was)
  <2>1. l = [x \in 1 .. n |-> Item(was, x)]
    BY <1>4 DEF Listing
  <2> HIDE DEF l, n
  <2> QED
    BY <1>4, <2>1 DEF l
<1>10. \A x \in (1 .. n) \ asked : Listing(dir')[r[x]] = Item(was, x)
  <2> SUFFICES ASSUME NEW x \in (1 .. n) \ asked PROVE Listing(dir')[r[x]] = Item(was, x)
    OBVIOUS
  <2> HIDE DEF n
  <2>1. /\ r \in [0 .. n -> Nat]
        /\ \A y \in 1 .. n : y \notin asked => r[y] = r[y - 1] + 1
        /\ \A u, y \in 0 .. n : u <= y => r[u] <= r[y]
    BY <1>4, RankFacts
  <2> HIDE DEF r
  <2>2. x - 1 \in 0 .. n /\ x \in 0 .. n /\ n \in 0 .. n /\ x <= n
    BY <1>4
  <2>3. r[x] = r[x - 1] + 1 /\ r[x - 1] \in Nat /\ r[x] <= r[n]
    BY <2>1, <2>2
  <2>4. r[x] \in 1 .. s
    BY <1>4, <1>5, <2>3
  <2>5. Listing(dir')[r[x]] = Item(dir', r[x])
    BY <1>8, <2>4
  <2> QED
    BY <1>5, <1>7, <2>4, <2>5
<1> DEFINE t == Listing(dir')
<1>11. t = [y \in 1 .. r[n] |-> t[y]]
  BY <1>5, <1>8
<1> HIDE DEF t, n
<1> QED
  <2>1. \A x \in (1 .. n) \ asked : t[Rank(n, asked)[x]] = Listing(was)[x]
    BY <1>9, <1>10 DEF t
  <2> DEFINE l == Listing(was)
  <2>2. Remains(l, asked, t)
    BY <1>4, <1>9, <1>11, <2>1 DEF Remains
  <2> HIDE DEF l, r
  <2>3. Contents!Kept(l, asked) = t
    BY <2>2, KeptIs
  <2> QED
    BY <2>3 DEF t, l

\* what an archive as a list of items is
LEMMA ListingFacts ==
  ASSUME NEW d, NEW n \in Nat, DOMAIN d = 1 .. n
  PROVE  /\ Listing(d) = [x \in 1 .. n |-> Item(d, x)]
         /\ DOMAIN Listing(d) = 1 .. n /\ Len(Listing(d)) = n
         /\ \A x \in 1 .. n : Listing(d)[x] = Item(d, x)
<1> DEFINE l == Listing(d)
<1>1. l = [x \in 1 .. n |-> Item(d, x)]
  BY DEF Listing
<1> HIDE DEF l
<1>2. DOMAIN l = 1 .. n /\ Len(l) = n /\ \A x \in 1 .. n : l[x] = Item(d, x)
  BY <1>1
<1> QED
  BY <1>1, <1>2 DEF l

\* members are the items that have two parts
LEMMA ItemParts ==
  ASSUME NEW d, NEW x
  PROVE  /\ IsMember(d[x]) => Len(Item(d, x)) = 2
         /\ ~IsMember(d[x]) => Len(Item(d, x)) = 1
<1>1. Len(<<d[x - d[x].pak].name, d[x].name>>) = 2 /\ Len(<<d[x].name>>) = 1
  OBVIOUS
<1> QED
  BY <1>1 DEF Item

\* no member of a pak that goes is asked to stay
LEMMA ClosedAsked ==
  ASSUME NEW d, Sound(d), NEW l \in Seq(1 .. Len(d))
  PROVE  Contents!Closed(Listing(d), Selected(d, l))
<1> DEFINE n == Len(d)
           parts(z) == Len(Listing(d)[z])
<1>1. n \in Nat /\ DOMAIN d = 1 .. n
  BY DEF Sound
<1>2. /\ DOMAIN Listing(d) = 1 .. n
      /\ \A x \in 1 .. n : IsMember(d[x]) => parts(x) = 2
      /\ \A x \in 1 .. n : ~IsMember(d[x]) => parts(x) = 1
  <2>1. DOMAIN Listing(d) = 1 .. n /\ \A x \in 1 .. n : Listing(d)[x] = Item(d, x)
    BY <1>1, ListingFacts
  <2> QED
    BY <2>1, ItemParts
<1> HIDE DEF parts
<1> SUFFICES ASSUME NEW x \in Selected(d, l), parts(x) = 1,
                    NEW y \in 1 .. n, y > x, \A z \in x + 1 .. y : parts(z) = 2
             PROVE  y \in Selected(d, l)
  BY <1>2 DEF Contents!Closed, parts
<1>3. x \in 1 .. n /\ x + 1 \in x + 1 .. y
  BY <1>1 DEF Selected
<1>4. ~IsMember(d[x]) /\ \A z \in x + 1 .. y : IsMember(d[z])
  <2>1. \A z \in x + 1 .. y : z \in 1 .. n
    BY <1>1, <1>3
  <2> HIDE DEF n
  <2>2. ~IsMember(d[x])
    BY <1>2, <1>3
  <2>3. ASSUME NEW z \in x + 1 .. y PROVE IsMember(d[z])
    <3>1. z \in 1 .. n /\ parts(z) = 2
      BY <2>1
    <3> QED
      BY <1>2, <3>1
  <2> QED
    BY <2>2, <2>3
<1>5. IsPak(d[x])
  <2>1. SUFFICES ASSUME ~IsPak(d[x]) PROVE FALSE
    OBVIOUS
  <2>2. Group(d[x]) = 0 /\ x + Group(d[x]) + 1 = x + 1 /\ x + 1 \in 1 .. n
    BY <1>1, <1>3, <2>1 DEF Group
  <2>3. ~IsMember(d[x + 1])
    BY <1>3, <1>4, <2>2, SoundNext
  <2> QED
    BY <1>3, <1>4, <2>3
<1>6. d[x].pak \in Nat
  BY <1>3, <1>5, SoundPak
<1>7. y <= x + d[x].pak
  <2> DEFINE p == d[x].pak
  <2>1. SUFFICES ASSUME ~(y <= x + p) PROVE FALSE
    OBVIOUS
  <2>2. p \in Nat
    BY <1>6
  <2> HIDE DEF p, n
  <2>3. x + p + 1 \in 1 .. n /\ x + p + 1 \in x + 1 .. y
    BY <1>1, <1>3, <2>1, <2>2
  <2>4. ~IsMember(d[x + p + 1])
    BY <1>3, <1>5, <2>3, SoundAfterPak DEF p, n
  <2> QED
    BY <1>4, <2>3, <2>4
<1>8. PICK j \in 1 .. Len(l) : x = l[j] \/ (IsPak(d[l[j]]) /\ x \in l[j] .. l[j] + d[l[j]].pak)
  BY DEF Selected
<1>9. x = l[j]
  <2>1. SUFFICES ASSUME x # l[j] PROVE FALSE
    OBVIOUS
  <2> DEFINE h == l[j]
  <2>2. IsPak(d[h]) /\ x \in h .. h + d[h].pak
    BY <1>8, <2>1
  <2>3. h \in 1 .. n
    BY <1>1, <1>8
  <2>4. d[h].pak \in Nat /\ \A z \in h + 1 .. h + d[h].pak : IsMember(d[z])
    BY <2>2, <2>3, SoundPak
  <2>5. x \in h + 1 .. h + d[h].pak
    BY <1>1, <2>1, <2>2, <2>3, <2>4
  <2> QED
    BY <1>4, <2>4, <2>5
<1>10. y \in l[j] .. l[j] + d[l[j]].pak
  BY <1>3, <1>6, <1>7, <1>9
<1> QED
  BY <1>1, <1>5, <1>9, <1>10 DEF Selected

\* nothing is passed when the walk begins
LEMMA RequestNames ==
  ASSUME Plain, ArchiveInv, NEW names \in Requests, DeleteRequest(names), pc' = "walk"
  PROVE  NamesInv'
<1>1. i' = 1 /\ dedelta' = 0 /\ was' = dir /\ Sound(dir)
  BY RequestFacts
<1>2. Passed' = 0 /\ Stay' = 0 /\ Len(was') \in Nat
  BY <1>1 DEF Passed, Stay, Sound
<1>3. Rank(Len(was'), asked')[0] = 0
  BY <1>2, RankFacts
<1>4. (1 .. 0) = {}
  OBVIOUS
<1> QED
  BY <1>2, <1>3, <1>4 DEF NamesInv

\* copying a stream renames nothing, even if the copy fails
LEMMA CopyNames ==
  ASSUME ArchiveInv, NamesInv, CopyChunk \/ CopyFails
  PROVE  NamesInv'
<1>1. Passed' = Passed /\ Stay' = Stay /\ dir' = dir /\ was' = was /\ asked' = asked
  BY CopyWalk DEF CopyChunk, CopyFails, CopyGoesOn
<1> QED
  BY <1>1 DEF NamesInv

\* what is to be lost, at every turn of a deletion
GoneInv ==
  /\ pc \in {"walk", "copy"} => NamesInv
  /\ Deleting => Contents!Closed(Listing(was), asked)
  /\ pc = "shorten" => Listing(dir) = Contents!Kept(Listing(was), asked)

\* every step of a deletion keeps it
LEMMA GoneStep ==
  ASSUME Plain, ArchiveInv, GoneInv, DelStep
  PROVE  GoneInv'
<1>1. ASSUME NEW names \in Requests, DeleteRequest(names) PROVE GoneInv'
  <2>1. /\ pc' \in {"walk", "remove"} /\ Sound(dir) /\ was' = dir
        /\ list' \in Seq(1 .. Len(dir)) /\ ListInv'
    BY <1>1, RequestFacts
  <2>2. asked' = Selected(dir, list')
    BY <2>1 DEF ListInv
  <2>3. Contents!Closed(Listing(dir), asked')
    BY <2>1, <2>2, ClosedAsked
  <2>4. Contents!Closed(Listing(was'), asked')
    BY <2>1, <2>3
  <2> QED
    BY <1>1, <2>1, <2>4, RequestNames DEF GoneInv
<1>2. CASE RemoveArchive
  BY <1>2 DEF RemoveArchive, GoneInv, Deleting
<1>3. ASSUME pc \in {"walk", "copy"}, pc' \in {"walk", "copy"}, was' = was, asked' = asked, NamesInv'
      PROVE  GoneInv'
  BY <1>3 DEF GoneInv, Deleting
<1>4. CASE DropEntry \/ DropMember
  <2>1. pc = "walk" /\ pc' = "walk" /\ was' = was /\ asked' = asked
    BY <1>4 DEF DropEntry, DropMember
  <2>2. NamesInv'
    BY <1>4, <2>1, DropNames DEF GoneInv
  <2> QED
    BY <1>3, <2>1, <2>2
<1>5. CASE KeepEntry
  <2>1. pc = "walk" /\ pc' \in {"walk", "copy"} /\ was' = was /\ asked' = asked
    BY <1>5 DEF KeepEntry
  <2>2. NamesInv'
    BY <1>5, <2>1, KeepNames DEF GoneInv
  <2> QED
    BY <1>3, <2>1, <2>2
<1>6. CASE CopyChunk \/ CopyFails
  <2>1. pc = "copy" /\ pc' \in {"walk", "copy"} /\ was' = was /\ asked' = asked
    BY <1>6 DEF CopyChunk, CopyFails, CopyGoesOn
  <2>2. NamesInv'
    BY <1>6, <2>1, CopyNames DEF GoneInv
  <2> QED
    BY <1>3, <2>1, <2>2
<1>7. CASE DeleteHeader
  <2>1. pc = "walk" /\ pc' = "shorten" /\ was' = was /\ asked' = asked
    BY <1>7 DEF DeleteHeader, delLocals
  <2>2. NamesInv /\ Contents!Closed(Listing(was), asked)
    BY <2>1 DEF GoneInv, Deleting
  <2>3. Listing(dir') = Contents!Kept(Listing(was), asked)
    BY <1>7, <2>2, HeaderNames
  <2> QED
    BY <2>1, <2>2, <2>3 DEF GoneInv
<1>8. CASE DeleteEntries
  BY <1>8 DEF DeleteEntries, GoneInv, Deleting
<1> QED
  BY <1>1, <1>2, <1>4, <1>5, <1>6, <1>7, <1>8 DEF DelStep

-----------------------------------------------------------------------------
(* What a session adds.                                                    *)

\* the finished part of the directory is as it was, and so is the pak being filled
Rests ==
  /\ dir' = dir /\ hdr' = hdr
  /\ hdr # 0 => todo' = todo /\ (pc' = "compress" <=> pc = "compress") /\ cur'.name = cur.name

\* a file or a folder is there
Joins(e) ==
  /\ hdr = 0 /\ hdr' = 0 /\ dir' = Append(dir, e)
  /\ e \in Entry /\ ~IsPak(e) /\ e.pak = 0 /\ e.name \in Blob \cup DirName

\* a pak has its header, and needs its members
PakBegins(p) ==
  /\ hdr = 0 /\ hdr' = Len(dir) + 1 /\ todo' = Paks[p] /\ pc' # "compress"
  /\ \E e \in Entry : IsPak(e) /\ e.name = p /\ dir' = Append(dir, e)

\* its next member is compressed
MemberBegins ==
  /\ hdr # 0 /\ hdr' = hdr /\ dir' = dir /\ todo # << >> /\ pc # "compress"
  /\ todo' = Tail(todo) /\ pc' = "compress" /\ cur'.name = Head(todo)

\* and is there
MemberEnds(e) ==
  /\ hdr # 0 /\ hdr' = hdr /\ dir' = Append(dir, e) /\ todo' = todo
  /\ pc = "compress" /\ pc' # "compress" /\ e \in Entry /\ ~IsPak(e) /\ e.name = cur.name

\* a pak goes that could not be filled
PakAborts == hdr # 0 /\ hdr' = 0 /\ dir' = SubSeq(dir, 1, hdr - 1)

\* a pak has all its members
PakEnds ==
  /\ hdr # 0 /\ hdr' = 0 /\ todo = << >> /\ pc # "compress"
  /\ \E e \in Entry : /\ IsPak(e) /\ e.name = dir[hdr].name
                      /\ dir' = [dir EXCEPT ![hdr] = e]

\* there are no other steps
SessionStep ==
  \/ Rests \/ (\E e : Joins(e)) \/ (\E p \in PakName : PakBegins(p))
  \/ MemberBegins \/ (\E e : MemberEnds(e)) \/ PakAborts \/ PakEnds

\* Every action of a session is one of these to its directory
LEMMA SessionSteps ==
  ASSUME AddInv, ShapeInv, AddStep
  PROVE  SessionStep
<1>1. /\ total \in Nat /\ dir \in Seq(Entry) /\ hdr \in 0 .. Len(dir) /\ todo \in Seq(Blob)
      /\ (pc \in {"closed", "ready", "entries"} => hdr = 0) /\ (pc = "member" => hdr # 0)
      /\ (hdr # 0 => IsPak(dir[hdr]))
  BY DEF AddInv, TypeInv, SessionTypes, PakInv, IsPak
<1>2. CASE Create \/ CreateFails
  <2>1. dir' = << >> /\ dir = << >> /\ hdr = 0 /\ hdr' = hdr
    BY <1>1, <1>2 DEF Create, CreateFails, AddInv, FileInv
  <2> QED
    BY <2>1 DEF Rests, SessionStep
<1>3. CASE OpenForAdd
  <2>1. dir' = dir /\ hdr = 0 /\ hdr' = hdr
    BY <1>1, <1>3, ReopenFacts DEF OpenForAdd
  <2> QED
    BY <2>1 DEF Rests, SessionStep
<1>4. ASSUME NEW b \in Blob, StartFile(b) PROVE Rests
  BY <1>1, <1>4 DEF StartFile, NextInput, Rests
<1>5. ASSUME NEW n \in DirName, AddFolder(n) PROVE SessionStep
  <2> DEFINE e == StartEntry(n, "DIR", 0, 0)
  <2>1. e \in Entry /\ e.pak = 0 /\ e.type = "DIR" /\ e.name = n
    BY <1>1, StartEntryType, StartEntryNumber DEF Name, Type
  <2>2. hdr = 0 /\ hdr' = 0 /\ (dir' = dir \/ dir' = Append(dir, e))
    BY <1>1, <1>5 DEF AddFolder, NextInput
  <2> HIDE DEF e
  <2>3. Rests \/ Joins(e)
    BY <2>1, <2>2 DEF Rests, Joins, IsPak
  <2> QED
    BY <2>3 DEF SessionStep
<1>6. ASSUME NEW p \in PakName, StartPak(p) PROVE PakBegins(p)
  <2>1. Paks[p] \in Seq(Blob) /\ Len(Paks[p]) \in Nat
    BY AddAssumption
  <2> DEFINE k == Len(Paks[p])
             e == StartEntry(p, "PAK", 0, k)
  <2>k. k \in Nat
    BY <2>1
  <2>2. /\ hdr = 0 /\ dir' = Append(dir, e) /\ hdr' = Len(dir) + 1 /\ todo' = Paks[p]
        /\ pc' = "member"
    BY <1>1, <1>6 DEF StartPak, NextInput
  <2> HIDE DEF k
  <2>3. e \in Entry /\ e.type = "PAK" /\ e.name = p
    BY <1>1, <2>k, StartEntryType DEF Name, Type
  <2> HIDE DEF e
  <2> QED
    BY <2>2, <2>3 DEF PakBegins, IsPak
<1>7. ASSUME NEW p \in PakName, PakUnreadable(p) PROVE Rests
  BY <1>1, <1>7 DEF PakUnreadable, NextInput, Rests
<1>8. CASE StartMember
  <2>1. /\ pc = "member" /\ todo # << >> /\ todo' = Tail(todo) /\ pc' = "compress"
        /\ cur' = StartEntry(Head(todo), "NORMAL", Real[Head(todo)], Len(dir) + 1 - hdr)
        /\ dir' = dir /\ hdr' = hdr
    BY <1>8 DEF StartMember
  <2>2. cur'.name = Head(todo)
    BY <2>1 DEF StartEntry
  <2> QED
    BY <1>1, <2>1, <2>2 DEF MemberBegins, SessionStep
<1>9. CASE CompressBlock \/ ReadFails \/ WriteFails \/ UserAbort
  BY <1>9 DEF CompressBlock, ReadFails, WriteFails, UserAbort, fileVars, Rests, SessionStep
<1>10. ASSUME pc = "compress", NEW e \in {Compressed(cur), Stored(cur)}, NEW a \in {0, 1, 3}, Keep(e, a)
       PROVE  SessionStep
  <2>1. /\ e \in Entry /\ e.real \in Nat /\ e.pak = cur.pak /\ ~IsPak(e)
        /\ e.name = cur.name /\ cur.name \in Blob
    BY <1>10, KeptEntries, CurFacts DEF IsPak
  <2>2. dir' = Append(dir, e) /\ hdr' = hdr /\ pc' # "compress" /\ todo' = todo
    BY <1>10, <2>1, KeepFacts DEF Keep
  <2>3. CASE hdr = 0
    <3>1. e.pak = 0
      BY <1>10, <2>1, <2>3 DEF ShapeInv
    <3> QED
      BY <2>1, <2>2, <2>3, <3>1 DEF Joins, SessionStep
  <2>4. CASE hdr # 0
    BY <1>10, <2>1, <2>2, <2>4 DEF MemberEnds, SessionStep
  <2> QED
    BY <2>3, <2>4
<1>11. CASE FinishCompressed \/ FinishShortTail \/ FinishStored \/ FinishShortStore
  <2>1. pc = "compress" /\ \E a \in {0, 1, 3} : Keep(Compressed(cur), a) \/ Keep(Stored(cur), a)
    BY <1>11 DEF FinishCompressed, FinishShortTail, FinishStored, FinishShortStore, InputDone
  <2> QED
    BY <1>10, <2>1
<1>12. CASE AbortEntry
  BY <1>1, <1>12 DEF AbortEntry, Rests, SessionStep
<1>13. CASE AbortPak
  BY <1>13 DEF AbortPak, BeforePak, LeavePak, PakAborts, SessionStep
<1>14. CASE FinishPak
  <2>1. /\ pc = "member" /\ todo = << >> /\ hdr' = 0 /\ dir' = [dir EXCEPT ![hdr] = Spanning(dir[hdr])]
    BY <1>14 DEF FinishPak, LeavePak
  <2> DEFINE e == Spanning(dir[hdr])
  <2>2. e \in Entry /\ e.type = "PAK"
    BY <2>1, SpanningFacts
  <2>3. e.name = dir[hdr].name
    <3>1. dir[hdr] \in Entry
      BY <1>1, <2>1
    <3> QED
      BY <3>1 DEF Spanning, Entry
  <2>4. dir' = [dir EXCEPT ![hdr] = e]
    BY <2>1
  <2> HIDE DEF e
  <2> QED
    BY <1>1, <2>1, <2>2, <2>3, <2>4 DEF PakEnds, SessionStep, IsPak
<1>15. CASE WriteHeader \/ WriteEntries \/ RemoveEmpty
  BY <1>1, <1>15 DEF WriteHeader, WriteEntries, RemoveEmpty, Rests, SessionStep
<1> QED
  BY <1>2, <1>3, <1>4, <1>5, <1>6, <1>7, <1>8, <1>9, <1>11, <1>12, <1>13, <1>14, <1>15
  DEF AddStep, SessionStep

\* the members of the pak being filled are those of the .pak file m: the first n in the
\* directory, then the one being compressed, if there is one, then those in todo
Filling(m, n, k) ==
  /\ Len(m) = n + k + Len(todo)
  /\ \A x \in 1 .. n : dir[hdr + x].name = m[x]
  /\ k = 1 => cur.name = m[n + 1]
  /\ \A y \in 1 .. Len(todo) : todo[y] = m[n + k + y]

FillInv ==
  hdr # 0 =>
    /\ dir[hdr].name \in PakName
    /\ Filling(Paks[dir[hdr].name], Len(dir) - hdr, IF pc = "compress" THEN 1 ELSE 0)

\* every step of a session keeps it
LEMMA FillStep ==
  ASSUME AddInv, FillInv, SessionStep
  PROVE  FillInv'
<1>1. dir \in Seq(Entry) /\ hdr \in 0 .. Len(dir) /\ todo \in Seq(Blob) /\ Len(dir) \in Nat
  BY DEF AddInv, TypeInv, SessionTypes
<1>2. \A p \in PakName : Paks[p] \in Seq(Blob)
  BY AddAssumption
<1>3. CASE hdr' = 0
  BY <1>3 DEF FillInv
<1> DEFINE n == Len(dir) - hdr
           m == Paks[dir[hdr].name]
           k == IF pc = "compress" THEN 1 ELSE 0
<1>4. hdr # 0 => dir[hdr].name \in PakName /\ Filling(m, n, k) /\ n \in Nat /\ hdr + n = Len(dir)
  BY <1>1 DEF FillInv
<1>5. ASSUME Rests, hdr # 0 PROVE FillInv'
  BY <1>4, <1>5 DEF Rests, FillInv, Filling
<1>6. ASSUME NEW p \in PakName, PakBegins(p) PROVE FillInv'
  <2>1. PICK e \in Entry : e.name = p /\ dir' = Append(dir, e)
    BY <1>6 DEF PakBegins
  <2>2. hdr' = Len(dir) + 1 /\ todo' = Paks[p] /\ pc' # "compress"
    BY <1>6 DEF PakBegins
  <2>3. dir'[hdr'] = e /\ Len(dir') - hdr' = 0
    BY <1>1, <2>1, <2>2
  <2>4. Filling(Paks[p], 0, 0)'
    BY <1>2, <2>2 DEF Filling
  <2> QED
    BY <2>1, <2>2, <2>3, <2>4 DEF FillInv
<1>7. ASSUME MemberBegins PROVE FillInv'
  <2>1. /\ hdr # 0 /\ hdr' = hdr /\ dir' = dir /\ todo # << >> /\ pc # "compress"
        /\ todo' = Tail(todo) /\ pc' = "compress" /\ cur'.name = Head(todo)
    BY <1>7 DEF MemberBegins
  <2>2. /\ Len(m) = n + 0 + Len(todo) /\ n \in Nat
        /\ \A x \in 1 .. n : dir[hdr + x].name = m[x]
        /\ \A y \in 1 .. Len(todo) : todo[y] = m[n + 0 + y]
    BY <1>4, <2>1 DEF Filling
  <2> HIDE DEF n, m
  <2>3. /\ Len(todo') = Len(todo) - 1 /\ Len(todo) \in Nat /\ Len(todo) # 0
        /\ \A y \in 1 .. Len(todo') : todo'[y] = todo[y + 1]
        /\ cur'.name = todo[1]
    BY <1>1, <2>1
  <2>4. Len(m) = n + 1 + Len(todo')
    BY <2>2, <2>3
  <2>5. cur'.name = m[n + 1]
    BY <2>2, <2>3
  <2>6. ASSUME NEW y \in 1 .. Len(todo') PROVE todo'[y] = m[n + 1 + y]
    <3>1. y + 1 \in 1 .. Len(todo) /\ n + 0 + (y + 1) = n + 1 + y
      BY <2>2, <2>3
    <3> QED
      BY <2>2, <2>3, <3>1
  <2>7. \A x \in 1 .. n : dir'[hdr' + x].name = m[x]
    BY <2>1, <2>2
  <2> DEFINE j == 1
  <2>8. Filling(m, n, j)'
    <3>1. m' = m /\ n' = n
      BY <2>1 DEF m, n
    <3> QED
      BY <2>4, <2>5, <2>6, <2>7, <3>1 DEF Filling
  <2> QED
    BY <1>4, <2>1, <2>8 DEF FillInv, m, n
<1>8. ASSUME NEW e, MemberEnds(e) PROVE FillInv'
  <2>1. /\ hdr # 0 /\ hdr' = hdr /\ dir' = Append(dir, e) /\ todo' = todo
        /\ pc = "compress" /\ pc' # "compress" /\ e \in Entry /\ e.name = cur.name
    BY <1>8 DEF MemberEnds
  <2>2. /\ Len(m) = n + 1 + Len(todo) /\ n \in Nat /\ cur.name = m[n + 1] /\ hdr + n = Len(dir)
        /\ \A x \in 1 .. n : dir[hdr + x].name = m[x]
        /\ \A y \in 1 .. Len(todo) : todo[y] = m[n + 1 + y]
    BY <1>4, <2>1 DEF Filling
  <2> HIDE DEF n
  <2>3. /\ Len(dir') = Len(dir) + 1 /\ dir'[Len(dir) + 1] = e
        /\ \A x \in 1 .. Len(dir) : dir'[x] = dir[x]
    BY <1>1, <2>1
  <2>4. dir'[hdr'] = dir[hdr] /\ Len(dir') - hdr' = n + 1
    <3> DEFINE l == Len(dir)
    <3>1. l \in Int /\ hdr \in 1 .. l /\ hdr + n = l /\ n \in Nat /\ Len(dir') = l + 1
      BY <1>1, <2>1, <2>2, <2>3
    <3> HIDE DEF l
    <3>2. (l + 1) - hdr = n + 1
      BY <3>1
    <3> QED
      BY <2>1, <2>3, <3>1, <3>2 DEF l
  <2>5. ASSUME NEW x \in 1 .. n + 1 PROVE dir'[hdr + x].name = m[x]
    <3>1. CASE x = n + 1
      <4>1. hdr + x = Len(dir) + 1
        <5> DEFINE l == Len(dir)
        <5>1. l \in Int /\ hdr \in Int /\ hdr + n = l /\ n \in Nat
          BY <1>1, <2>2
        <5> HIDE DEF l
        <5>2. hdr + x = l + 1
          BY <3>1, <5>1
        <5> QED
          BY <5>2 DEF l
      <4> QED
        BY <2>1, <2>2, <2>3, <3>1, <4>1
    <3>2. CASE x # n + 1
      <4>1. x \in 1 .. n /\ hdr + x \in 1 .. Len(dir)
        BY <1>1, <2>2, <3>2
      <4> QED
        BY <2>2, <2>3, <4>1
    <3> QED
      BY <3>1, <3>2
  <2>6. /\ Len(m) = (n + 1) + 0 + Len(todo)
        /\ \A y \in 1 .. Len(todo) : todo[y] = m[(n + 1) + 0 + y]
    <3>1. Len(todo) \in Nat
      BY <1>1
    <3> QED
      BY <2>2, <3>1
  <2> DEFINE q == n + 1
             j == 0
  <2>9. q = n + 1 /\ j = 0
    OBVIOUS
  <2> HIDE DEF q, j, m
  <2>7. /\ Len(m) = q + j + Len(todo') /\ j # 1
        /\ \A x \in 1 .. q : dir'[hdr' + x].name = m[x]
        /\ \A y \in 1 .. Len(todo') : todo'[y] = m[q + j + y]
    <3>1. Len(m) = q + j + Len(todo') /\ j # 1
      BY <2>1, <2>6, <2>9
    <3>2. \A x \in 1 .. q : dir'[hdr' + x].name = m[x]
      BY <2>1, <2>5, <2>9
    <3>3. \A y \in 1 .. Len(todo') : todo'[y] = m[q + j + y]
      BY <2>1, <2>6, <2>9
    <3> QED
      BY <3>1, <3>2, <3>3
  <2>8. Len(dir') - hdr' = q /\ (IF pc' = "compress" THEN 1 ELSE 0) = j /\ m = Paks[dir'[hdr'].name]
        /\ dir'[hdr'].name \in PakName
    BY <1>4, <2>1, <2>4, <2>9 DEF m
  <2> QED
    BY <2>7, <2>8 DEF FillInv, Filling
<1> QED
  BY <1>3, <1>5, <1>6, <1>7, <1>8 DEF SessionStep, Rests, Joins, PakBegins, PakAborts, PakEnds,
     MemberBegins, MemberEnds

\* entries behind the others add their items at the end
LEMMA ListingGrows ==
  ASSUME NEW d, NEW e, NEW n \in Nat, NEW k \in Nat, DOMAIN d = 1 .. n, DOMAIN e = 1 .. n + k,
         SameItems(n, d, e), NEW g, g = [x \in 1 .. k |-> g[x]],
         \A x \in 1 .. k : g[x] = Item(e, n + x)
  PROVE  Listing(e) = Listing(d) \o g
<1> DEFINE l == Listing(d)
           t == Listing(e)
<1>1. /\ l = [x \in 1 .. n |-> Item(d, x)] /\ t = [x \in 1 .. n + k |-> Item(e, x)]
  <2>1. n + k \in Nat
    OBVIOUS
  <2> QED
    BY <2>1, ListingFacts
<1>2. \A x \in 1 .. n : Item(e, x) = Item(d, x)
  BY ItemsSame
<1>3. Len(l) = n /\ Len(g) = k
  <2>1. Len(l) = n
    BY <1>1
  <2>2. Len(g) = k
    OBVIOUS
  <2> QED
    BY <2>1, <2>2
<1> HIDE DEF l, t
<1>4. l \o g = [x \in 1 .. n + k |-> IF x <= n THEN l[x] ELSE g[x - n]]
  <2> DEFINE S == {l[x] : x \in 1 .. n} \cup {g[x] : x \in 1 .. k}
  <2>1. l = [x \in 1 .. n |-> l[x]]
    BY <1>1
  <2>2. l \in [1 .. n -> S] /\ g \in [1 .. k -> S]
    BY <2>1
  <2> HIDE DEF S
  <2>3. l \in Seq(S) /\ g \in Seq(S)
    BY <2>2
  <2>4. /\ l \o g \in Seq(S) /\ Len(l \o g) = n + k
        /\ \A x \in 1 .. n + k : (l \o g)[x] = IF x <= n THEN l[x] ELSE g[x - n]
    BY <1>3, <2>3
  <2>5. l \o g = [x \in 1 .. n + k |-> (l \o g)[x]]
    BY <2>4
  <2> QED
    BY <2>4, <2>5
<1>5. ASSUME NEW x \in 1 .. n + k PROVE Item(e, x) = IF x <= n THEN l[x] ELSE g[x - n]
  <2>1. CASE x <= n
    <3>1. x \in 1 .. n
      BY <2>1
    <3> QED
      BY <1>1, <1>2, <2>1, <3>1
  <2>2. CASE ~(x <= n)
    <3>1. x - n \in 1 .. k /\ n + (x - n) = x
      BY <2>2
    <3> QED
      BY <2>2, <3>1
  <2> QED
    BY <2>1, <2>2
<1> QED
  BY <1>1, <1>4, <1>5 DEF l, t

\* a directory of whole paks is like any longer one that begins with the same entries
LEMMA WholeItems ==
  ASSUME NEW d, NEW n \in Nat, WholePaks(d, n), NEW e, \A y \in 1 .. n : e[y] = d[y]
  PROVE  SameItems(n, d, e)
<1>1. ASSUME NEW y \in 1 .. n, IsMember(d[y]) PROVE y - d[y].pak \in 1 .. n
  <2>1. d[y].pak \in Nat \ {0} /\ 1 <= y - d[y].pak
    BY <1>1 DEF WholePaks
  <2> DEFINE k == d[y].pak
  <2> HIDE DEF k
  <2> QED
    BY <2>1 DEF k
<1> QED
  BY <1>1 DEF SameItems

\* a file or folder arrives alone
LEMMA JoinsItems ==
  ASSUME AddInv, ShapeInv, NEW e, Joins(e)
  PROVE  \E g \in InputGroups : Listing(Done') = Listing(Done) \o g
<1> DEFINE n == Len(dir)
           g == << <<e.name>> >>
<1>1. /\ hdr = 0 /\ hdr' = 0 /\ dir' = Append(dir, e) /\ dir \in Seq(Entry)
      /\ ~IsPak(e) /\ e.pak = 0 /\ e.name \in Blob \cup DirName
      /\ WholePaks(dir, n) /\ n \in Nat /\ DOMAIN dir = 1 .. n
  BY DEF Joins, AddInv, TypeInv, SessionTypes, ShapeInv
<1>2. Done = dir /\ Done' = dir'
  BY <1>1 DEF Done
<1>3. DOMAIN dir' = 1 .. n + 1 /\ dir'[n + 1] = e /\ \A y \in 1 .. n : dir'[y] = dir[y]
  BY <1>1
<1>4. SameItems(n, dir, dir')
  BY <1>1, <1>3, WholeItems
<1>5. Item(dir', n + 1) = <<e.name>>
  BY <1>1, <1>3 DEF Item, IsMember
<1>6. g = [x \in 1 .. 1 |-> g[x]] /\ g[1] = <<e.name>>
  OBVIOUS
<1>7. g \in InputGroups
  BY <1>1 DEF InputGroups
<1> HIDE DEF g, n
<1>8. \A x \in 1 .. 1 : g[x] = Item(dir', n + x)
  BY <1>5, <1>6
<1> DEFINE k == 1
<1>9. k \in Nat /\ DOMAIN dir' = 1 .. n + k /\ g = [x \in 1 .. k |-> g[x]]
      /\ \A x \in 1 .. k : g[x] = Item(dir', n + x)
  BY <1>3, <1>6, <1>8
<1> HIDE DEF k
<1>10. Listing(dir') = Listing(dir) \o g
  <2>1. n \in Nat /\ DOMAIN dir = 1 .. n
    BY <1>1 DEF n
  <2> QED
    BY <1>4, <1>9, <2>1, ListingGrows
<1> QED
  BY <1>2, <1>7, <1>10

\* one sequence behind another
LEMMA Concatenation ==
  ASSUME NEW S, NEW a \in Seq(S), NEW b \in Seq(S)
  PROVE  /\ a \o b \in Seq(S) /\ Len(a \o b) = Len(a) + Len(b)
         /\ \A z \in 1 .. Len(a) + Len(b) : (a \o b)[z] = IF z <= Len(a) THEN a[z] ELSE b[z - Len(a)]
  OBVIOUS

\* a pak arrives with all the members of the .pak file, and under their names
LEMMA PakItems ==
  ASSUME AddInv, ShapeInv, FillInv, PakEnds
  PROVE  \E g \in InputGroups : Listing(Done') = Listing(Done) \o g
<1> DEFINE p == dir[hdr].name
           m == Paks[p]
           n == hdr - 1
           k == Len(m)
           g == << <<p>> >> \o [x \in DOMAIN m |-> <<p, m[x]>>]
<1>1. /\ hdr # 0 /\ hdr' = 0 /\ todo = << >> /\ pc # "compress"
      /\ dir \in Seq(Entry) /\ hdr \in 1 .. Len(dir) /\ Len(dir) \in Nat
  BY DEF PakEnds, AddInv, TypeInv, SessionTypes
<1>2. PICK e \in Entry : IsPak(e) /\ e.name = p /\ dir' = [dir EXCEPT ![hdr] = e]
  BY DEF PakEnds
<1>3. /\ WholePaks(dir, n) /\ Members(dir, hdr, Len(dir)) /\ n \in Nat
  BY <1>1 DEF ShapeInv
<1>4. p \in PakName /\ m \in Seq(Blob)
  BY <1>1, AddAssumption DEF FillInv
<1>5. /\ k = Len(dir) - hdr /\ k \in Nat /\ DOMAIN m = 1 .. k
      /\ \A x \in 1 .. k : dir[hdr + x].name = m[x]
  <2>1. Filling(m, Len(dir) - hdr, 0)
    BY <1>1 DEF FillInv
  <2>2. Len(m) = (Len(dir) - hdr) + 0 + Len(todo) /\ Len(todo) = 0 /\ Len(m) \in Nat /\ DOMAIN m = 1 .. Len(m)
    BY <1>1, <1>4, <2>1 DEF Filling
  <2>3. Len(m) = Len(dir) - hdr
    BY <1>1, <2>2
  <2> QED
    BY <2>1, <2>2, <2>3 DEF Filling
<1>6. /\ DOMAIN dir' = 1 .. n + (k + 1) /\ dir'[hdr] = e
      /\ \A y \in 1 .. Len(dir) : y # hdr => dir'[y] = dir[y]
      /\ n + 1 = hdr /\ n + (k + 1) = Len(dir)
  <2>1. /\ DOMAIN dir' = 1 .. Len(dir) /\ dir'[hdr] = e
        /\ \A y \in 1 .. Len(dir) : y # hdr => dir'[y] = dir[y]
    BY <1>1, <1>2
  <2>2. n + 1 = hdr /\ n + (k + 1) = Len(dir)
    <3> HIDE DEF k
    <3> QED
      BY <1>1, <1>5
  <2> QED
    BY <2>1, <2>2
<1> DEFINE d == SubSeq(dir, 1, n)
<1>7. Done = d /\ Done' = dir'
  BY <1>1 DEF Done
<1>8. /\ DOMAIN d = 1 .. n /\ \A y \in 1 .. n : d[y] = dir[y]
  BY <1>1, <1>3
<1>9. WholePaks(d, n)
  <2>1. n \in Int
    BY <1>3
  <2> HIDE DEF d, n
  <2> QED
    BY <1>3, <1>8, <2>1, WholePaksSame, Zenon
<1>10. SameItems(n, d, dir')
  <2>1. \A y \in 1 .. n : dir'[y] = d[y]
    BY <1>1, <1>6, <1>8
  <2> HIDE DEF d, n
  <2> QED
    BY <1>3, <1>9, <2>1, WholeItems
<1>11. Item(dir', hdr) = <<p>>
  BY <1>2, <1>6 DEF Item, IsMember, IsPak
<1>12. ASSUME NEW x \in 1 .. k PROVE Item(dir', hdr + x) = <<p, m[x]>>
  <2> HIDE DEF m, p, k
  <2>1. hdr + x \in hdr + 1 .. Len(dir) /\ hdr + x \in 1 .. Len(dir) /\ hdr + x # hdr /\ (hdr + x) - hdr = x
    BY <1>1, <1>5
  <2>2. dir'[hdr + x] = dir[hdr + x] /\ dir[hdr + x].name = m[x]
    BY <1>5, <1>6, <2>1
  <2>3. IsMember(dir[hdr + x]) /\ dir[hdr + x].pak = (hdr + x) - hdr
    BY <1>3, <2>1 DEF Members
  <2>4. (hdr + x) - x = hdr
    BY <1>1
  <2>5. dir'[hdr].name = p
    BY <1>2, <1>6
  <2> QED
    BY <2>1, <2>2, <2>3, <2>4, <2>5 DEF Item
<1>13. /\ g = [x \in 1 .. k + 1 |-> g[x]]
       /\ g[1] = <<p>> /\ \A x \in 1 .. k : g[x + 1] = <<p, m[x]>>
  <2> DEFINE S == {<<p>>} \cup {<<p, m[x]>> : x \in 1 .. k}
             a == << <<p>> >>
             b == [x \in DOMAIN m |-> <<p, m[x]>>]
  <2> HIDE DEF p, m, k
  <2>1. b \in [1 .. k -> S] /\ a \in Seq(S) /\ Len(a) = 1 /\ a[1] = <<p>>
    BY <1>5
  <2>2. \A x \in 1 .. k : b[x] = <<p, m[x]>>
    BY <1>5
  <2> HIDE DEF S, a, b
  <2>3. b \in Seq(S) /\ Len(b) = k
    BY <1>5, <2>1
  <2>6. /\ a \o b \in Seq(S) /\ Len(a \o b) = k + 1
        /\ \A z \in 1 .. k + 1 : (a \o b)[z] = IF z <= 1 THEN a[z] ELSE b[z - 1]
    <3>0. a \in Seq(S) /\ b \in Seq(S) /\ Len(a) = 1 /\ Len(b) = k
      BY <2>1, <2>3
    <3>1. a \o b \in Seq(S)
      BY <3>0, Concatenation
    <3>2. Len(a \o b) = Len(a) + Len(b)
      BY <3>0, Concatenation
    <3>3. Len(a \o b) = k + 1
      BY <1>5, <2>1, <2>3, <3>2
    <3>4. \A z \in 1 .. k + 1 : (a \o b)[z] = IF z <= Len(a) THEN a[z] ELSE b[z - Len(a)]
      <4>1. \A z \in 1 .. Len(a) + Len(b) : (a \o b)[z] = IF z <= Len(a) THEN a[z] ELSE b[z - Len(a)]
        BY <3>0, Concatenation
      <4>2. Len(a) + Len(b) = k + 1
        BY <1>5, <3>0
      <4> QED
        BY <4>1, <4>2
    <3> QED
      BY <2>1, <3>1, <3>3, <3>4
  <2>4. (a \o b)[1] = a[1] /\ \A x \in 1 .. k : (a \o b)[x + 1] = b[x]
    <3>1. (a \o b)[1] = a[1]
      BY <1>5, <2>6
    <3>2. ASSUME NEW x \in 1 .. k PROVE (a \o b)[x + 1] = b[x]
      <4>1. x + 1 \in 1 .. k + 1 /\ ~(x + 1 <= 1) /\ (x + 1) - 1 = x
        BY <1>5
      <4> QED
        BY <2>6, <4>1
    <3> QED
      BY <3>1, <3>2
  <2>5. a \o b = [x \in 1 .. k + 1 |-> (a \o b)[x]]
    <3> DEFINE c == a \o b
    <3>1. c \in Seq(S) /\ Len(c) = k + 1
      BY <2>6
    <3> HIDE DEF c
    <3>2. c = [x \in 1 .. Len(c) |-> c[x]]
      BY <3>1
    <3> QED
      BY <3>1, <3>2 DEF c
  <2> QED
    BY <2>1, <2>2, <2>4, <2>5 DEF a, b
<1>14. g \in InputGroups
  BY <1>4 DEF InputGroups
<1> HIDE DEF g, m, p, k, d, n
<1>15. ASSUME NEW x \in 1 .. k + 1 PROVE g[x] = Item(dir', n + x)
  <2>1. CASE x = 1
    BY <1>6, <1>11, <1>13, <2>1
  <2>2. CASE x # 1
    <3>1. x - 1 \in 1 .. k /\ (x - 1) + 1 = x /\ n + x = hdr + (x - 1)
      BY <1>1, <1>3, <1>5, <1>6, <2>2
    <3> QED
      BY <1>12, <1>13, <3>1
  <2> QED
    BY <2>1, <2>2
<1> DEFINE j == k + 1
<1>16. j \in Nat /\ DOMAIN dir' = 1 .. n + j /\ g = [x \in 1 .. j |-> g[x]]
       /\ \A x \in 1 .. j : g[x] = Item(dir', n + x)
  BY <1>5, <1>6, <1>13, <1>15
<1> HIDE DEF j
<1>17. Listing(dir') = Listing(d) \o g
  BY <1>3, <1>8, <1>10, <1>16, ListingGrows, SMTT(30)
<1> QED
  BY <1>7, <1>14, <1>17

\* and nothing else that a session does shows
LEMMA AddItems ==
  ASSUME AddInv, ShapeInv, FillInv, SessionStep
  PROVE  \/ Listing(Done') = Listing(Done)
         \/ \E g \in InputGroups : Listing(Done') = Listing(Done) \o g
<1>1. dir \in Seq(Entry) /\ hdr \in 0 .. Len(dir)
  BY DEF AddInv, TypeInv, SessionTypes
<1>2. CASE Rests \/ MemberBegins
  BY <1>2 DEF Rests, MemberBegins, Done
<1>3. ASSUME NEW p \in PakName, PakBegins(p) PROVE Done' = Done
  <2>1. PICK e \in Entry : dir' = Append(dir, e)
    BY <1>3 DEF PakBegins
  <2>2. hdr = 0 /\ hdr' = Len(dir) + 1 /\ hdr' # 0 /\ hdr' - 1 = Len(dir)
    BY <1>1, <1>3 DEF PakBegins
  <2>3. SubSeq(Append(dir, e), 1, Len(dir)) = dir
    BY <1>1
  <2> QED
    BY <2>1, <2>2, <2>3 DEF Done
<1>4. ASSUME NEW e, MemberEnds(e) PROVE Done' = Done
  <2>1. hdr # 0 /\ hdr' = hdr /\ dir' = Append(dir, e) /\ e \in Entry
    BY <1>4 DEF MemberEnds
  <2>2. hdr - 1 \in 0 .. Len(dir)
    BY <1>1, <2>1
  <2> DEFINE n == hdr - 1
  <2> HIDE DEF n
  <2>3. SubSeq(Append(dir, e), 1, n) = SubSeq(dir, 1, n)
    BY <1>1, <2>1, <2>2 DEF n
  <2> QED
    BY <2>1, <2>3 DEF Done, n
<1>5. CASE PakAborts
  BY <1>5 DEF PakAborts, Done
<1> QED
  BY <1>2, <1>3, <1>4, <1>5, JoinsItems, PakItems DEF SessionStep

-----------------------------------------------------------------------------
(* The refinement.                                                         *)

\* what the archive contains, to someone who only lists it
Items == IF Deleting THEN Listing(was) ELSE Listing(Done)

ContentsInv ==
  /\ ArchiveInv
  /\ ~Deleting => FillInv
  /\ Deleting => GoneInv

\* what the mapping takes an archive for
Shown == IF damaged THEN << >> ELSE Items

\* there is nothing in it at first
LEMMA ContentsStart == ArchiveInit => ContentsInv /\ Contents!Init
<1> SUFFICES ASSUME ArchiveInit PROVE ContentsInv /\ Contents!Init
  OBVIOUS
<1>1. dir = << >> /\ hdr = 0 /\ ~Deleting
  BY DEF ArchiveInit, AddInit, IdleFile, Deleting
<1>2. Listing(Done) = << >>
  <2>1. DOMAIN << >> = {}
    OBVIOUS
  <2> QED
    BY <1>1, <2>1 DEF Done, Listing
<1>3. ContentsInv
  BY <1>1, ArchiveStart DEF ContentsInv, FillInv
<1> QED
  BY <1>1, <1>2, <1>3 DEF Contents!Init

\* a session that adds leaves the items alone or adds a whole input
LEMMA AddContents ==
  ASSUME PaksFit, ContentsInv, ~damaged, ~damaged', AddStep, UNCHANGED delLocals
  PROVE  ContentsInv' /\ [Contents!Next]_Items
<1>1. ~Deleting /\ AddInv /\ ShapeInv /\ FillInv /\ ArchiveInv
  BY AddsOnly DEF ContentsInv, ArchiveInv
<1>2. ArchiveInv' /\ AddInv' /\ ~Deleting'
  <2>1. AddInv'
    BY <1>1, TypeStep, CurStep, PlaceStep, PakStep, FileStep DEF AddInv
  <2> QED
    BY <1>1, <2>1, AddingStep DEF AddInv, TypeInv
<1>3. SessionStep
  BY <1>1, SessionSteps
<1>4. ContentsInv'
  BY <1>1, <1>2, <1>3, FillStep DEF ContentsInv
<1>5. Items = Listing(Done) /\ Items' = Listing(Done')
  BY <1>1, <1>2 DEF Items
<1>6. Items' = Items \/ \E g \in InputGroups : Items' = Items \o g
  BY <1>1, <1>3, <1>5, AddItems
<1>7. [Contents!Next]_Items
  BY <1>6 DEF Contents!Next, Contents!AddGroup, Items
<1> QED
  BY <1>4, <1>7

\* a deletion loses all that was asked, in one step, when its last record is written or
\* the file is removed
LEMMA DeleteContents ==
  ASSUME Plain, ContentsInv, ~damaged, ~damaged', DelStep, UNCHANGED <<abort, fileVars>>
  PROVE  ContentsInv' /\ [Contents!Next]_Items
<1>1. ArchiveInv /\ ArchiveInv'
  BY RequestStep, TurnStep, EndStep DEF DelStep, ContentsInv
<1>2. GoneInv
  <2>1. CASE Deleting
    BY <2>1 DEF ContentsInv
  <2>2. CASE ~Deleting
    BY <2>2 DEF GoneInv, Deleting
  <2> QED
    BY <2>1, <2>2
<1>3. ContentsInv'
  <2>1. GoneInv'
    BY <1>1, <1>2, GoneStep
  <2>2. ~Deleting' => FillInv'
    <3>1. SUFFICES ASSUME ~Deleting' PROVE hdr' = 0
      BY DEF FillInv
    <3>2. pc' = "closed"
      BY <3>1 DEF DelStep, DeleteRequest, RemoveArchive, DropEntry, DropMember, KeepEntry, CopyChunk,
                  CopyFails, CopyGoesOn, DeleteHeader, DeleteEntries, Deleting
    <3> QED
      BY <1>1, <3>1, <3>2 DEF ArchiveInv, AddInv, PakInv
  <2> QED
    BY <1>1, <2>1, <2>2 DEF ContentsInv
<1>4. ASSUME NEW names \in Requests, DeleteRequest(names) PROVE Items' = Items
  <2>1. ~Deleting /\ hdr = 0 /\ pc' \in {"walk", "remove"} /\ was' = dir
    BY <1>1, <1>4, RequestFacts
  <2> QED
    BY <2>1 DEF Items, Done, Deleting
<1>5. ASSUME DropEntry \/ DropMember \/ KeepEntry \/ CopyChunk \/ CopyFails \/ DeleteHeader
      PROVE  Items' = Items
  <2>1. Deleting /\ Deleting' /\ was' = was
    BY <1>5 DEF DropEntry, DropMember, KeepEntry, CopyChunk, CopyFails, CopyGoesOn, DeleteHeader,
                Deleting, delLocals
  <2> QED
    BY <2>1 DEF Items
<1>6. ASSUME RemoveArchive PROVE Contents!Next
  <2>1. pc = "remove" /\ pc' = "closed" /\ dir' = << >> /\ hdr = 0 /\ hdr' = 0
    BY <1>1, <1>6, RemoveFacts DEF fileVars
  <2>2. Items = Listing(was) /\ Items' = Listing(<< >>)
    BY <2>1 DEF Items, Deleting, Done
  <2>3. was \in Seq(Entry)
    BY <1>1 DEF ArchiveInv, WalkTypes
  <2> DEFINE n == Len(was)
             l == Listing(was)
  <2>4. DOMAIN l = 1 .. n /\ Len(l) = n /\ n \in Nat
    BY <2>3, ListingFacts
  <2>5. Contents!Kept(l, DOMAIN l) = << >>
    <3> HIDE DEF l, n
    <3> QED
      BY <2>4, KeptNothing
  <2>6. Listing(<< >>) = << >>
    <3>1. DOMAIN << >> = {}
      OBVIOUS
    <3> QED
      BY <3>1 DEF Listing
  <2>7. Contents!Closed(l, DOMAIN l)
    <3> HIDE DEF l
    <3> QED
      BY DEF Contents!Closed
  <2>8. Items = l /\ Items' = Contents!Kept(l, DOMAIN l)
    BY <2>2, <2>5, <2>6
  <2> HIDE DEF l
  <2>9. Contents!Remove
    BY <2>7, <2>8 DEF Contents!Remove, Items
  <2> QED
    BY <2>9 DEF Contents!Next
<1>7. ASSUME DeleteEntries PROVE Contents!Next
  <2>1. pc = "shorten" /\ pc' = "closed" /\ dir' = dir /\ hdr = 0 /\ hdr' = 0
    BY <1>1, <1>7, EntriesDisk DEF DeleteEntries, fileVars
  <2> DEFINE l == Listing(was)
  <2>2. Items = l /\ Items' = Listing(dir)
    BY <2>1 DEF Items, Deleting, Done
  <2>3. Listing(dir) = Contents!Kept(l, asked) /\ Contents!Closed(l, asked)
    BY <1>2, <2>1 DEF GoneInv, Deleting
  <2>4. asked \subseteq DOMAIN l
    <3>1. asked \subseteq DOMAIN was
      BY <1>1 DEF ArchiveInv, WalkTypes
    <3> QED
      BY <3>1 DEF Listing
  <2> HIDE DEF l
  <2>5. Contents!Remove
    BY <2>2, <2>3, <2>4 DEF Contents!Remove, Items
  <2> QED
    BY <2>5 DEF Contents!Next
<1>8. Items' = Items \/ Contents!Next
  BY <1>4, <1>5, <1>6, <1>7 DEF DelStep
<1>9. [Contents!Next]_Items
  BY <1>8
<1> QED
  BY <1>3, <1>9

\* a step that changes nothing
LEMMA ContentsIdles ==
  ASSUME ContentsInv, UNCHANGED soundVars
  PROVE  ContentsInv' /\ Items' = Items
<1> USE DEF soundVars, fileVars, delLocals
<1>1. Deleting' = Deleting /\ Passed' = Passed /\ Done' = Done
  BY DEF Deleting, Passed, Done
<1>2. Items' = Items
  BY <1>1 DEF Items
<1>3. FillInv => FillInv'
  BY DEF FillInv, Filling
<1>4. NamesInv => NamesInv'
  BY <1>1 DEF NamesInv, Stay
<1>5. GoneInv => GoneInv'
  BY <1>1, <1>4 DEF GoneInv
<1>6. ArchiveInv'
  BY ArchiveIdles DEF ContentsInv
<1> QED
  BY <1>1, <1>2, <1>3, <1>5, <1>6 DEF ContentsInv

\* so every step keeps the list as it should be
LEMMA ContentsStep ==
  ASSUME Plain, PaksFit, ContentsInv, ~damaged, ~damaged', [ArchiveStep]_soundVars
  PROVE  ContentsInv' /\ [Contents!Next]_Items
<1>1. CASE UNCHANGED soundVars
  BY <1>1, ContentsIdles
<1>2. CASE AddStep /\ UNCHANGED delLocals
  BY <1>2, AddContents
<1>3. CASE DelStep /\ UNCHANGED <<abort, fileVars>>
  BY <1>3, DeleteContents
<1> QED
  BY <1>1, <1>2, <1>3 DEF ArchiveStep

\* the contents of an archive are sequences
LEMMA ItemsAre ==
  ASSUME ContentsInv
  PROVE  Len(Items) \in Nat /\ DOMAIN Items = 1 .. Len(Items)
<1>1. CASE Deleting
  <2>1. was \in Seq(Entry)
    BY DEF ContentsInv, ArchiveInv, WalkTypes
  <2> QED
    BY <1>1, <2>1, ListingFacts DEF Items
<1>2. CASE ~Deleting
  <2>1. dir \in Seq(Entry) /\ hdr \in 0 .. Len(dir)
    BY <1>2 DEF ContentsInv, ArchiveInv, AddInv, TypeInv, SessionTypes
  <2>2. Len(Done) \in Nat /\ DOMAIN Done = 1 .. Len(Done)
    BY <2>1 DEF Done
  <2> QED
    BY <1>2, <2>2, ListingFacts DEF Items
<1> QED
  BY <1>1, <1>2

\* a directory that is not written loses everything
LEMMA DamageLoses ==
  ASSUME ContentsInv, ~damaged, damaged'
  PROVE  [Contents!Next]_Shown
<1> DEFINE l == Items
<1>1. Shown = l /\ Shown' = << >>
  BY DEF Shown
<1>2. Len(l) \in Nat /\ DOMAIN l = 1 .. Len(l)
  BY ItemsAre
<1> HIDE DEF l
<1>3. Contents!Kept(l, DOMAIN l) = << >>
  BY <1>2, KeptNothing
<1>4. Contents!Closed(l, DOMAIN l)
  BY DEF Contents!Closed
<1>5. Shown' = Contents!Kept(l, DOMAIN l)
  BY <1>1, <1>3
<1>6. Contents!Remove
  BY <1>1, <1>4, <1>5 DEF Contents!Remove, Shown, Items
<1> QED
  BY <1>6 DEF Contents!Next

\* For every archive, every pak and every plain request: an archive over any number of
\* sessions is a list that grows by whole inputs and loses exactly what it was asked to
\* lose, paks together with their members; a failed write of its directory loses everything
THEOREM ArchiveRefinesContents ==
  ASSUME Plain, PaksFit
  PROVE  ArchiveSpec => ContentsSpec
<1>1. (damaged \/ ContentsInv) /\ [ArchiveNext]_archiveVars
        => (damaged \/ ContentsInv)' /\ [Contents!Next]_Shown
  <2> SUFFICES ASSUME damaged \/ ContentsInv, [ArchiveNext]_archiveVars
               PROVE  (damaged \/ ContentsInv)' /\ [Contents!Next]_Shown
    OBVIOUS
  <2>1. CASE ~damaged'
    <3>1. ~damaged /\ [ArchiveStep]_soundVars
      BY <2>1, ArchiveDamage
    <3>2. ContentsInv' /\ [Contents!Next]_Items
      BY <2>1, <3>1, ContentsStep
    <3>3. Shown = Items /\ Shown' = Items'
      BY <2>1, <3>1 DEF Shown
    <3> QED
      BY <3>2, <3>3
  <2>2. CASE damaged' /\ ~damaged
    BY <2>2, DamageLoses
  <2>3. CASE damaged' /\ damaged
    BY <2>3 DEF Shown
  <2> QED
    BY <2>1, <2>2, <2>3
<1>2. (damaged \/ ContentsInv) /\ [ArchiveNext]_archiveVars
        => /\ (damaged \/ ContentsInv)'
           /\ [Contents!Next]_(IF damaged THEN << >>
                               ELSE IF Deleting THEN Listing(was) ELSE Listing(Done))
  BY <1>1 DEF Shown, Items
<1>3. ArchiveInit => (damaged \/ ContentsInv) /\ Contents!Init
  BY ContentsStart
<1> QED
  BY <1>2, <1>3, PTL DEF ArchiveSpec, ContentsSpec, Contents!Spec

-----------------------------------------------------------------------------
(* When a deletion removes the file.                                       *)

\* As long as nothing is gone everything is kept
LEMMA RankNothing ==
  ASSUME NEW n \in Nat
  PROVE  Rank(n, {})[n] = n
<1> DEFINE f == Rank(n, {})
           B == {x \in 0 .. n : f[x] # x}
<1>1. /\ f \in [0 .. n -> Nat] /\ f[0] = 0
      /\ \A x \in 1 .. n : x \notin {} => f[x] = f[x - 1] + 1
  BY RankFacts
<1> HIDE DEF f
<1>2. B = {}
  <2> SUFFICES ASSUME B # {} PROVE FALSE
    OBVIOUS
  <2>1. B \in SUBSET Nat
    OBVIOUS
  <2>2. PICK x \in B : \A y \in B : x <= y
    BY <2>1, LeastElement
  <2>3. x \in 1 .. n /\ x - 1 \in 0 .. n /\ ~(x <= x - 1) /\ f[x] # x
    BY <1>1
  <2>4. f[x - 1] = x - 1
    BY <2>2, <2>3
  <2> QED
    BY <1>1, <2>3, <2>4
<1>3. n \in 0 .. n
  OBVIOUS
<1> QED
  BY <1>2, <1>3 DEF f

\* Those of a segment that are not gone yet are kept no longer when it goes
LEMMA SegmentGone ==
  ASSUME NEW n \in Nat, NEW gone, NEW a \in 1 .. n, NEW c \in Nat, a + c <= n,
         (a .. a + c) \cap gone = {}
  PROVE  Rank(n, gone \cup (a .. a + c))[n] = Rank(n, gone)[n] - (c + 1)
<1> DEFINE new == gone \cup (a .. a + c)
           f == Rank(n, gone)
           h == Rank(n, new)
           took(x) == IF x < a THEN 0 ELSE IF x <= a + c THEN x - a + 1 ELSE c + 1
           B == {x \in 0 .. n : h[x] # f[x] - took(x)}
<1>1. /\ f \in [0 .. n -> Nat] /\ h \in [0 .. n -> Nat] /\ f[0] = 0 /\ h[0] = 0
      /\ \A x \in 1 .. n : f[x] = f[x - 1] + (IF x \in gone THEN 0 ELSE 1)
      /\ \A x \in 1 .. n : h[x] = h[x - 1] + (IF x \in new THEN 0 ELSE 1)
  <2> HIDE DEF new
  <2>1. /\ f \in [0 .. n -> Nat] /\ f[0] = 0
        /\ \A x \in 1 .. n : x \in gone => f[x] = f[x - 1]
        /\ \A x \in 1 .. n : x \notin gone => f[x] = f[x - 1] + 1
    BY RankFacts
  <2>2. /\ h \in [0 .. n -> Nat] /\ h[0] = 0
        /\ \A x \in 1 .. n : x \in new => h[x] = h[x - 1]
        /\ \A x \in 1 .. n : x \notin new => h[x] = h[x - 1] + 1
    BY RankFacts
  <2> HIDE DEF f, h
  <2>3. ASSUME NEW x \in 1 .. n
        PROVE  /\ f[x] = f[x - 1] + (IF x \in gone THEN 0 ELSE 1)
               /\ h[x] = h[x - 1] + (IF x \in new THEN 0 ELSE 1)
    <3>1. f[x - 1] \in Nat /\ h[x - 1] \in Nat
      BY <2>1, <2>2
    <3>2. f[x] = f[x - 1] + (IF x \in gone THEN 0 ELSE 1)
      BY <2>1, <3>1
    <3>3. h[x] = h[x - 1] + (IF x \in new THEN 0 ELSE 1)
      BY <2>2, <3>1
    <3> QED
      BY <3>2, <3>3
  <2> QED
    BY <2>1, <2>2, <2>3
<1>2. ASSUME NEW x \in 1 .. n
      PROVE  (IF x \in new THEN 0 ELSE 1) = (IF x \in gone THEN 0 ELSE 1) - (took(x) - took(x - 1))
  <2>1. x \in a .. a + c => x \notin gone
    OBVIOUS
  <2>2. CASE x \in a .. a + c
    <3>1. took(x) - took(x - 1) = 1
      BY <2>2
    <3>2. (IF x \in new THEN 0 ELSE 1) = 0 /\ (IF x \in gone THEN 0 ELSE 1) = 1
      BY <2>1, <2>2
    <3> QED
      BY <3>1, <3>2
  <2>3. CASE x \notin a .. a + c
    <3>1. took(x) - took(x - 1) = 0
      BY <2>3
    <3>2. (IF x \in new THEN 0 ELSE 1) = (IF x \in gone THEN 0 ELSE 1)
      BY <2>3
    <3> QED
      BY <3>1, <3>2
  <2> QED
    BY <2>2, <2>3
<1>3. (\A x \in 0 .. n : took(x) \in Int) /\ took(0) = 0 /\ took(n) = c + 1
  OBVIOUS
<1> HIDE DEF new, f, h, took
<1>4. ASSUME NEW x \in 1 .. n, h[x - 1] = f[x - 1] - took(x - 1) PROVE h[x] = f[x] - took(x)
  <2>1. f[x - 1] \in Int /\ took(x) \in Int /\ took(x - 1) \in Int
    BY <1>1, <1>3
  <2> DEFINE u == IF x \in gone THEN 0 ELSE 1
             v == IF x \in new THEN 0 ELSE 1
  <2>2. f[x] = f[x - 1] + u /\ h[x] = h[x - 1] + v /\ u \in Int /\ v = u - (took(x) - took(x - 1))
    BY <1>1, <1>2
  <2> HIDE DEF u, v
  <2> QED
    BY <1>4, <2>1, <2>2
<1>5. B = {}
  <2> SUFFICES ASSUME B # {} PROVE FALSE
    OBVIOUS
  <2>1. B \in SUBSET Nat
    OBVIOUS
  <2>2. PICK x \in B : \A y \in B : x <= y
    BY <2>1, LeastElement
  <2>3. x \in 0 .. n /\ h[x] # f[x] - took(x)
    OBVIOUS
  <2>4. x # 0
    BY <1>1, <1>3, <2>3
  <2>5. x \in 1 .. n /\ x - 1 \in 0 .. n /\ ~(x <= x - 1)
    BY <2>3, <2>4
  <2>6. x - 1 \notin B
    BY <2>2, <2>5
  <2> QED
    BY <1>4, <2>3, <2>5, <2>6
<1>6. n \in 0 .. n
  OBVIOUS
<1> QED
  BY <1>3, <1>5, <1>6 DEF f, h, new

\* Segments that do not overlap cover 1 .. n when their lengths add up to n
LEMMA SegmentsCover ==
  ASSUME NEW n \in Nat, NEW m \in Nat, NEW s \in [1 .. m -> 1 .. n], NEW w \in [1 .. m -> Nat],
         \A y \in 1 .. m : s[y] + w[y] <= n,
         \A x, y \in 1 .. m : x # y => s[x] + w[x] < s[y] \/ s[y] + w[y] < s[x],
         NEW g, FoldsUp(g, m, w), m + First(g, m) = n
  PROVE  \A x \in 1 .. n : \E y \in 1 .. m : x \in s[y] .. s[y] + w[y]
<1> DEFINE seg(y) == s[y] .. s[y] + w[y]
           U(k) == {x \in 1 .. n : \E y \in 1 .. k : x \in seg(y)}
           left(k) == Rank(n, U(k))[n]
           A(k) == First(g, k)
           Good(k) == A(k) \in Nat /\ left(k) = n - (k + A(k))
           B == {k \in 0 .. m : ~Good(k)}
<1>1. A(0) = 0 /\ \A k \in 1 .. m : A(k) = A(k - 1) + w[k]
  BY FoldSteps
<1>2. ASSUME NEW k \in 1 .. m PROVE seg(k) \subseteq 1 .. n
  <2>1. s[k] \in 1 .. n /\ w[k] \in Nat /\ s[k] + w[k] <= n
    OBVIOUS
  <2> QED
    BY <2>1
<1>3. ASSUME NEW y \in 1 .. m, NEW k \in 1 .. m, y # k PROVE seg(y) \cap seg(k) = {}
  <2>1. /\ s[y] \in Int /\ s[k] \in Int /\ w[y] \in Int /\ w[k] \in Int
        /\ s[y] + w[y] < s[k] \/ s[k] + w[k] < s[y]
    BY <1>3
  <2> QED
    BY <2>1
<1> HIDE DEF seg
<1>4. U(0) = {}
  <2>1. ~ \E y : y \in 1 .. 0
    OBVIOUS
  <2> QED
    BY <2>1
<1>5. ASSUME NEW k \in 1 .. m PROVE U(k) = U(k - 1) \cup seg(k) /\ seg(k) \cap U(k - 1) = {}
  <2>1. /\ \A y : y \in 1 .. k <=> y \in 1 .. k - 1 \/ y = k
        /\ \A y \in 1 .. k - 1 : y \in 1 .. m /\ y # k
    OBVIOUS
  <2>2. \A y \in 1 .. k - 1 : seg(y) \cap seg(k) = {}
    BY <1>3, <2>1
  <2> DEFINE K == 1 .. k
             J == 1 .. k - 1
  <2>3. (\A y : y \in K <=> y \in J \/ y = k) /\ \A y \in J : seg(y) \cap seg(k) = {}
    BY <2>1, <2>2
  <2> HIDE DEF K, J
  <2>4. /\ {x \in 1 .. n : \E y \in K : x \in seg(y)}
             = {x \in 1 .. n : \E y \in J : x \in seg(y)} \cup seg(k)
        /\ seg(k) \cap {x \in 1 .. n : \E y \in J : x \in seg(y)} = {}
    BY <1>2, <2>3
  <2> QED
    BY <2>4 DEF K, J
<1>6. Good(0)
  <2>1. Rank(n, {})[n] = n
    BY RankNothing
  <2> HIDE DEF A, U
  <2>2. left(0) = n
    BY <1>4, <2>1
  <2> HIDE DEF left
  <2> QED
    BY <1>1, <2>2
<1>7. ASSUME NEW k \in 1 .. m, Good(k - 1) PROVE Good(k)
  <2>1. s[k] \in 1 .. n /\ w[k] \in Nat /\ s[k] + w[k] <= n
    OBVIOUS
  <2> HIDE DEF U, A
  <2>2. (s[k] .. s[k] + w[k]) \cap U(k - 1) = {}
    BY <1>5 DEF seg
  <2>3. Rank(n, U(k - 1) \cup (s[k] .. s[k] + w[k]))[n] = Rank(n, U(k - 1))[n] - (w[k] + 1)
    BY <2>1, <2>2, SegmentGone
  <2>4. left(k) = left(k - 1) - (w[k] + 1)
    BY <1>5, <2>3 DEF seg
  <2>5. A(k) = A(k - 1) + w[k] /\ k \in Nat /\ A(k - 1) \in Nat /\ left(k - 1) = n - (k - 1 + A(k - 1))
    BY <1>1, <1>7
  <2> HIDE DEF left
  <2> QED
    BY <2>1, <2>4, <2>5
<1> HIDE DEF Good
<1>8. Good(m)
  <2> SUFFICES ASSUME ~Good(m) PROVE FALSE
    OBVIOUS
  <2>1. B \in SUBSET Nat /\ B # {}
    OBVIOUS
  <2>2. PICK k \in B : \A j \in B : k <= j
    BY <2>1, LeastElement
  <2>3. k \in 0 .. m /\ ~Good(k)
    OBVIOUS
  <2>4. k # 0
    BY <1>6, <2>3
  <2>5. k \in 1 .. m /\ k - 1 \in 0 .. m /\ ~(k <= k - 1)
    BY <2>3, <2>4
  <2>6. Good(k - 1)
    BY <2>2, <2>5
  <2> QED
    BY <1>7, <2>3, <2>5, <2>6
<1>9. Rank(n, U(m))[n] = 0
  BY <1>8 DEF Good, A
<1>10. ASSUME NEW x \in 1 .. n PROVE x \in U(m)
  <2> HIDE DEF U
  <2> DEFINE r == Rank(n, U(m))
  <2>1. /\ r \in [0 .. n -> Nat]
        /\ x \notin U(m) => r[x] = r[x - 1] + 1
        /\ \A y, z \in 0 .. n : y <= z => r[y] <= r[z]
    BY RankFacts
  <2>2. r[n] = 0
    BY <1>9
  <2>3. x \in 0 .. n /\ x - 1 \in 0 .. n /\ n \in 0 .. n /\ x <= n
    OBVIOUS
  <2> HIDE DEF r
  <2> QED
    BY <2>1, <2>2, <2>3
<1> QED
  BY <1>10 DEF seg

\* What is listed without repetition and counts as much as there is, is all there is
LEMMA CountedAll ==
  ASSUME NEW n \in Nat, NEW d, DOMAIN d = 1 .. n, NEW l \in Seq(1 .. n), ~Repeats(d, l),
         \A x \in 1 .. n : Group(d[x]) \in Nat,
         \A x \in 1 .. n : x + Group(d[x]) <= n,
         Counted(d, l) = n
  PROVE  Selected(d, l) = 1 .. n
<1> DEFINE m == Len(l)
           w == [y \in 1 .. m |-> Group(d[l[y]])]
<1>1. m \in Nat /\ m = Len(l) /\ DOMAIN l = 1 .. m /\ l \in [1 .. m -> 1 .. n]
  <2> DEFINE S == 1 .. n
  <2>1. l \in Seq(S)
    OBVIOUS
  <2> HIDE DEF S
  <2>2. m \in Nat /\ m = Len(l) /\ DOMAIN l = 1 .. m /\ l \in [1 .. m -> S]
    BY <2>1
  <2> QED
    BY <2>2 DEF S
<1>2. /\ \A x, y \in 1 .. m : x # y => l[x] # l[y]
      /\ \A x, y \in 1 .. m : IsPak(d[l[x]]) => l[y] \notin l[x] + 1 .. l[x] + d[l[x]].pak
  BY DEF Repeats
<1> HIDE DEF m
<1>3. \A y \in 1 .. m : l[y] \in 1 .. n
  BY <1>1
<1>4. /\ w \in [1 .. m -> Nat] /\ w \in [1 .. m -> Int]
      /\ \A y \in 1 .. m : w[y] = Group(d[l[y]]) /\ l[y] + w[y] <= n
  <2> DEFINE c(x) == Group(d[x])
  <2>1. \A x \in 1 .. n : c(x) \in Nat /\ x + c(x) <= n
    OBVIOUS
  <2>2. w = [y \in 1 .. m |-> c(l[y])]
    OBVIOUS
  <2> HIDE DEF c, w
  <2>3. \A y \in 1 .. m : w[y] = c(l[y]) /\ w[y] \in Nat /\ l[y] + w[y] <= n
    BY <1>3, <2>1, <2>2
  <2>4. w \in [1 .. m -> Nat]
    BY <2>2, <2>3
  <2>5. w \in [1 .. m -> Int]
    BY <2>4
  <2> QED
    BY <2>3, <2>4, <2>5 DEF c
<1> HIDE DEF w
<1>6. PICK g : FoldsUp(g, m, w) /\ Counted(d, l) = m + First(g, m)
  BY <1>1, <1>4, CountedIs
<1>7. ASSUME NEW x \in 1 .. m, NEW y \in 1 .. m, l[x] < l[y] PROVE l[x] + w[x] < l[y]
  <2>1. l[x] \in Nat /\ l[y] \in Nat
    BY <1>3, SMTT(30)
  <2>2. CASE IsPak(d[l[x]])
    <3>1. w[x] = d[l[x]].pak /\ w[x] \in Nat /\ l[y] \notin l[x] + 1 .. l[x] + d[l[x]].pak
      BY <1>2, <1>4, <2>2 DEF Group
    <3>2. l[y] \notin l[x] + 1 .. l[x] + w[x] /\ w[x] \in Nat
      BY <3>1
    <3>3. \A a, b, c \in Nat : a < b /\ b \notin a + 1 .. a + c => a + c < b
      OBVIOUS
    <3> QED
      BY <1>7, <2>1, <3>2, <3>3
  <2>3. CASE ~IsPak(d[l[x]])
    <3>1. w[x] = 0
      BY <1>4, <2>3 DEF Group
    <3>2. \A a \in Nat : a + 0 = a
      OBVIOUS
    <3> QED
      BY <1>7, <2>1, <3>1, <3>2
  <2> QED
    BY <2>2, <2>3
<1>8. ASSUME NEW x \in 1 .. m, NEW y \in 1 .. m, x # y
      PROVE  l[x] + w[x] < l[y] \/ l[y] + w[y] < l[x]
  <2>1. l[x] # l[y] /\ l[x] \in Nat /\ l[y] \in Nat
    BY <1>2, <1>3, <1>8, SMTT(30)
  <2>2. \A a, b \in Nat : a # b => a < b \/ b < a
    OBVIOUS
  <2>3. l[x] < l[y] \/ l[y] < l[x]
    BY <2>1, <2>2
  <2> QED
    BY <1>7, <2>3
<1>9. m + First(g, m) = n
  BY <1>6
<1>10. \A x \in 1 .. n : \E y \in 1 .. m : x \in l[y] .. l[y] + w[y]
  BY <1>1, <1>4, <1>6, <1>8, <1>9, SegmentsCover
<1>11. ASSUME NEW x \in 1 .. n
       PROVE  \E y \in 1 .. m : x = l[y] \/ (IsPak(d[l[y]]) /\ x \in l[y] .. l[y] + d[l[y]].pak)
  <2>1. PICK y \in 1 .. m : x \in l[y] .. l[y] + w[y]
    BY <1>10
  <2>2. l[y] \in Nat
    BY <1>3
  <2> SUFFICES x = l[y] \/ (IsPak(d[l[y]]) /\ x \in l[y] .. l[y] + d[l[y]].pak)
    OBVIOUS
  <2>3. CASE IsPak(d[l[y]])
    BY <1>1, <1>4, <2>1, <2>3 DEF Group
  <2>4. CASE ~IsPak(d[l[y]])
    <3>1. w[y] = 0
      BY <1>4, <2>4 DEF Group
    <3>2. x = l[y]
      BY <2>1, <2>2, <3>1
    <3> QED
      BY <3>2
  <2> QED
    BY <2>3, <2>4
<1> QED
  <2>1. \A x \in 1 .. n : \E y \in 1 .. Len(l) :
          x = l[y] \/ (IsPak(d[l[y]]) /\ x \in l[y] .. l[y] + d[l[y]].pak)
    BY <1>1, <1>11
  <2> QED
    BY <2>1 DEF Selected

\* the file is only ever removed when everything in it was named
RemoveInv == pc = "remove" => asked = DOMAIN was

\* That is what the request has counted
LEMMA RequestRemoves ==
  ASSUME Plain, ArchiveInv, NEW names \in Requests, DeleteRequest(names)
  PROVE  RemoveInv'
<1> SUFFICES ASSUME pc' = "remove" PROVE asked' = DOMAIN was'
  BY DEF RemoveInv
<1>1. Sound(dir) /\ was' = dir
  BY RequestFacts
<1>2. PICK l \in Seq(1 .. Len(dir)) :
        ~Repeats(dir, l) /\ asked' = Selected(dir, l) /\ Removes(dir, l, pc')
  BY RequestFacts
<1> DEFINE n == Len(dir)
<1>3. n \in Nat /\ DOMAIN dir = 1 .. n
  BY <1>1 DEF Sound
<1>4. \A x \in 1 .. n : Group(dir[x]) \in Nat
  BY <1>1, SoundExtent
<1>5. \A x \in 1 .. n : x + Group(dir[x]) <= n
  BY <1>1, SoundExtent
<1>6. l \in Seq(1 .. n) /\ ~Repeats(dir, l) /\ Counted(dir, l) = n
  BY <1>2 DEF Removes
<1> HIDE DEF n
<1>7. Selected(dir, l) = 1 .. n
  BY <1>3, <1>4, <1>5, <1>6, CountedAll
<1> QED
  BY <1>1, <1>2, <1>3, <1>7

\* every step of a deletion keeps it, as no other leads there
LEMMA RemoveStep ==
  ASSUME Plain, ArchiveInv, RemoveInv, [ArchiveStep]_soundVars
  PROVE  RemoveInv'
<1>1. ASSUME NEW names \in Requests, DeleteRequest(names) PROVE RemoveInv'
  BY <1>1, RequestRemoves
<1>2. ASSUME pc' = "closed" PROVE RemoveInv'
  BY <1>2 DEF RemoveInv
<1>3. CASE RemoveArchive \/ DeleteEntries
  BY <1>2, <1>3 DEF RemoveArchive, DeleteEntries
<1>4. CASE DropEntry \/ DropMember \/ KeepEntry \/ CopyChunk \/ CopyFails \/ DeleteHeader
  <2>1. pc' # "remove"
    BY <1>4 DEF DropEntry, DropMember, KeepEntry, CopyChunk, CopyFails, CopyGoesOn, DeleteHeader
  <2> QED
    BY <2>1 DEF RemoveInv
<1>5. CASE AddStep /\ UNCHANGED delLocals
  <2>1. ~Deleting /\ AddInv
    BY <1>5, AddsOnly DEF ArchiveInv
  <2>2. AddInv'
    BY <1>5, <2>1, TypeStep, CurStep, PlaceStep, PakStep, FileStep DEF AddInv
  <2>3. ~Deleting'
    BY <2>2 DEF AddInv, TypeInv, Deleting
  <2> QED
    BY <2>3 DEF RemoveInv, Deleting
<1>6. CASE UNCHANGED soundVars
  BY <1>6 DEF soundVars, delLocals, RemoveInv
<1> QED
  BY <1>1, <1>3, <1>4, <1>5, <1>6 DEF ArchiveStep, DelStep

\* For every archive, every pak and every plain request: deleting loses the named entries,
\* paks with their members, and nothing else, and the file itself is removed only when
\* everything in it is named, unless the new directory cannot be written
THEOREM ArchiveDeletesWhatWasAsked ==
  ASSUME Plain, PaksFit
  PROVE  ArchiveSpec => DeletesWhatWasAsked
<1> DEFINE Loses == ~damaged' =>
             /\ pc = "shorten" => Listing(dir') = Contents!Kept(Listing(was), asked)
             /\ pc = "remove" => asked = DOMAIN was
           Inv == damaged \/ (ContentsInv /\ RemoveInv)
<1>1. ArchiveInit => Inv
  <2>1. ArchiveInit => RemoveInv
    BY DEF ArchiveInit, AddInit, IdleFile, RemoveInv
  <2> QED
    BY <2>1, ContentsStart
<1>2. ASSUME Inv, [ArchiveNext]_archiveVars PROVE Inv'
  <2> SUFFICES ASSUME ~damaged' PROVE (ContentsInv /\ RemoveInv)'
    OBVIOUS
  <2>1. ~damaged /\ [ArchiveStep]_soundVars
    BY <1>2, ArchiveDamage
  <2>2. ContentsInv'
    BY <1>2, <2>1, ContentsStep
  <2>3. RemoveInv'
    BY <1>2, <2>1, RemoveStep DEF ContentsInv
  <2> QED
    BY <2>2, <2>3
<1>3. ASSUME Inv, [ArchiveNext]_archiveVars PROVE [Loses]_archiveVars
  <2> SUFFICES ASSUME ArchiveNext, ~damaged', pc = "shorten"
               PROVE  Listing(dir') = Contents!Kept(Listing(was), asked)
    <3>1. ~damaged' => ~damaged
      BY <1>3, ArchiveDamage
    <3>2. ~damaged /\ pc = "remove" => asked = DOMAIN was
      BY <1>3 DEF RemoveInv
    <3> QED
      BY <1>3, <3>1, <3>2
  <2>0. ContentsInv /\ ~damaged
    BY <1>3, ArchiveDamage
  <2>1. Listing(dir) = Contents!Kept(Listing(was), asked)
    BY <2>0 DEF ContentsInv, GoneInv, Deleting
  <2>2. dir' = dir
    <3>1. DelStep
      BY <2>0, AddsOnly DEF ArchiveNext, AddNext, DelNext, Deleting
    <3>2. DeleteEntries
      BY <3>1 DEF DelStep, DeleteRequest, RemoveArchive, DropEntry, DropMember, KeepEntry, CopyChunk,
                  CopyFails, CopyGoesOn, DeleteHeader
    <3> QED
      BY <3>2 DEF DeleteEntries
  <2> QED
    BY <2>1, <2>2
<1> HIDE DEF Inv
<1> QED
  BY <1>1, <1>2, <1>3, PTL DEF ArchiveSpec, DeletesWhatWasAsked

-----------------------------------------------------------------------------
(* The uncompressed sizes of paks.                                         *)

\* Sums of the same numbers are the same, whatever follows
LEMMA SumsAlike ==
  ASSUME NEW m \in Nat, NEW n \in Nat, NEW v, NEW w, NEW g, NEW h, FoldsUp(g, m, v), FoldsUp(h, n, w),
         NEW c \in Nat, c <= m, c <= n, \A y \in 1 .. c : v[y] = w[y]
  PROVE  First(g, c) = First(h, c)
<1> DEFINE K == {k \in 0 .. c : First(g, k) = First(h, k)}
<1>1. 0 \in K
  BY FoldSteps
<1>2. ASSUME NEW k \in 1 .. c, k - 1 \in K PROVE k \in K
  <2>1. k \in 1 .. m /\ k \in 1 .. n
    OBVIOUS
  <2>2. First(g, k) = First(g, k - 1) + v[k] /\ First(h, k) = First(h, k - 1) + w[k]
    BY <2>1, FoldSteps
  <2> QED
    BY <1>2, <2>2
<1> HIDE DEF K
<1>3. 0 .. c \subseteq K
  BY <1>1, <1>2, BoundedInduction
<1>4. c \in 0 .. c
  OBVIOUS
<1> QED
  BY <1>3, <1>4 DEF K

\* SumReal adds up what the entries of a sequence have
LEMMA SumRealIs ==
  ASSUME NEW s, NEW m \in Nat, m = Len(s), DOMAIN s = 1 .. m,
         NEW v \in [1 .. m -> Int], \A y \in 1 .. m : v[y] = s[y].real
  PROVE  \E g : FoldsUp(g, m, v) /\ SumReal(s) = First(g, m)
<1> DEFINE step(g, S) == IF S = {} THEN 0
                         ELSE LET x == CHOOSE x \in S : \A y \in S : x >= y
                              IN  g[S \ {x}] + s[x].real
           folds(g) == g = [S \in SUBSET DOMAIN s |-> step(g, S)]
           r == CHOOSE g : folds(g)
<1>1. SumReal(s) = r[DOMAIN s]
  BY DEF SumReal, FoldLeft, MapThenFoldSet, Max
<1>2. ASSUME NEW g PROVE FoldsUp(g, m, v) <=> folds(g)
  <2> DEFINE sum(S) == IF S = {} THEN 0 ELSE g[S \ {Largest(S)}] + v[Largest(S)]
  <2>1. ASSUME NEW S \in SUBSET (1 .. m) PROVE sum(S) = step(g, S)
    <3>1. CASE S = {}
      BY <3>1
    <3>2. CASE S # {}
      <4>1. Largest(S) \in 1 .. m
        BY <3>2, LargestOf
      <4>2. v[Largest(S)] = s[Largest(S)].real
        BY <4>1
      <4> QED
        BY <3>2, <4>2 DEF Largest
    <3> QED
      BY <3>1, <3>2
  <2>2. FoldsUp(g, m, v) <=> g = [S \in SUBSET (1 .. m) |-> sum(S)]
    BY DEF FoldsUp
  <2> HIDE DEF sum, step
  <2> QED
    BY <2>1, <2>2
<1>3. PICK g : FoldsUp(g, m, v)
  <2>1. m \in Nat /\ v \in [1 .. m -> Int]
    OBVIOUS
  <2> QED
    BY ONLY <2>1, FoldExists, Zenon
<1> HIDE DEF folds
<1>4. folds(r)
  BY <1>2, <1>3
<1>5. FoldsUp(r, m, v)
  BY <1>2, <1>4
<1> HIDE DEF r
<1> QED
  BY <1>1, <1>5 DEF First

\* the sizes of the entries after a, up to b
Sum(d, a, b) == SumReal(SubSeq(d, a + 1, b))

\* what a stretch of a directory is
LEMMA Stretch ==
  ASSUME NEW d \in Seq(Entry), NEW a \in Nat, NEW b \in Nat, a <= b, b <= Len(d)
  PROVE  /\ Len(SubSeq(d, a + 1, b)) = b - a /\ DOMAIN SubSeq(d, a + 1, b) = 1 .. (b - a)
         /\ \A y \in 1 .. b - a : SubSeq(d, a + 1, b)[y] = d[a + y] /\ d[a + y].real \in Int
<1> DEFINE s == SubSeq(d, a + 1, b)
           n == Len(d)
<1>1. n \in Nat /\ \A x \in 1 .. n : d[x] \in Entry
  OBVIOUS
<1>2. s = [y \in 1 .. b - a |-> d[a + y]] /\ Len(s) = b - a
  OBVIOUS
<1> HIDE DEF s, n
<1>3. ASSUME NEW y \in 1 .. b - a PROVE d[a + y].real \in Int
  <2>1. a + y \in 1 .. n
    BY <1>1 DEF n
  <2>2. d[a + y] \in Entry
    BY <1>1, <2>1
  <2> QED
    BY <2>2 DEF Entry
<1> QED
  BY <1>2, <1>3 DEF s

\* g adds up the numbers v there
Adds(d, a, b, v, g) ==
  /\ FoldsUp(g, b - a, v) /\ Sum(d, a, b) = First(g, b - a)
  /\ \A y \in 1 .. b - a : v[y] = d[a + y].real

\* It is the sum of the numbers there
LEMMA SumIs ==
  ASSUME NEW d \in Seq(Entry), NEW a \in Nat, NEW b \in Nat, a <= b, b <= Len(d)
  PROVE  \E v, g : Adds(d, a, b, v, g)
<1> DEFINE s == SubSeq(d, a + 1, b)
           m == b - a
           v == [y \in 1 .. m |-> d[a + y].real]
<1>1. Len(s) = m /\ DOMAIN s = 1 .. m /\ \A y \in 1 .. m : s[y] = d[a + y] /\ d[a + y].real \in Int
  BY Stretch
<1>2. m \in Nat /\ Sum(d, a, b) = SumReal(s)
  BY DEF Sum
<1> HIDE DEF s, m
<1>3. v \in [1 .. m -> Int] /\ \A y \in 1 .. m : v[y] = s[y].real /\ v[y] = d[a + y].real /\ v[y] \in Int
  BY <1>1
<1> HIDE DEF v
<1>4. PICK g : FoldsUp(g, m, v) /\ SumReal(s) = First(g, m)
  BY <1>1, <1>2, <1>3, SumRealIs
<1> QED
  BY <1>2, <1>3, <1>4 DEF m, Adds

\* of none it is 0
LEMMA SumOfNone ==
  ASSUME NEW d \in Seq(Entry), NEW a \in Nat, a <= Len(d)
  PROVE  Sum(d, a, a) = 0
<1>1. PICK v, g : Adds(d, a, a, v, g)
  BY SumIs
<1>2. a - a = 0
  OBVIOUS
<1> QED
  BY <1>1, <1>2, FoldSteps DEF Adds

\* each entry adds its own size
LEMMA SumOneMore ==
  ASSUME NEW d \in Seq(Entry), NEW a \in Nat, NEW b \in Nat, a < b, b <= Len(d)
  PROVE  Sum(d, a, b) = Sum(d, a, b - 1) + d[b].real
<1>0. b - 1 \in Nat /\ a <= b - 1 /\ b - 1 <= Len(d) /\ a <= b
  OBVIOUS
<1>1. PICK v, g : Adds(d, a, b, v, g)
  BY <1>0, SumIs
<1>2. PICK w, h : Adds(d, a, b - 1, w, h)
  BY <1>0, SumIs
<1> DEFINE m == b - a
           k == (b - 1) - a
<1>3. m \in Nat /\ k \in Nat /\ k <= m /\ k = m - 1 /\ m \in 1 .. m /\ a + m = b
      /\ \A y \in 1 .. k : y \in 1 .. m
  OBVIOUS
<1>4. First(g, k) = First(h, k)
  <2>1. FoldsUp(g, m, v) /\ FoldsUp(h, k, w) /\ \A y \in 1 .. k : v[y] = w[y]
    BY <1>1, <1>2, <1>3 DEF Adds
  <2> HIDE DEF m, k
  <2> QED
    BY <1>3, <2>1, SumsAlike
<1>5. First(g, m) = First(g, m - 1) + v[m]
  BY <1>1, <1>3, FoldSteps DEF Adds
<1>6. v[m] = d[b].real
  BY <1>1, <1>3 DEF Adds
<1>7. Sum(d, a, b) = First(g, m) /\ Sum(d, a, b - 1) = First(h, k)
  BY <1>1, <1>2 DEF Adds
<1> HIDE DEF m, k
<1> QED
  BY <1>3, <1>4, <1>5, <1>6, <1>7

\* only what is added counts
LEMMA SumSame ==
  ASSUME NEW d \in Seq(Entry), NEW e \in Seq(Entry), NEW a \in Nat, NEW b \in Nat, a <= b,
         b <= Len(d), b <= Len(e), \A y \in a + 1 .. b : d[y].real = e[y].real
  PROVE  Sum(d, a, b) = Sum(e, a, b)
<1>1. PICK v, g : Adds(d, a, b, v, g)
  BY SumIs
<1>2. PICK w, h : Adds(e, a, b, w, h)
  BY SumIs
<1>3. b - a \in Nat /\ b - a <= b - a
  OBVIOUS
<1>4. ASSUME NEW y \in 1 .. b - a PROVE v[y] = w[y]
  <2>1. a + y \in a + 1 .. b
    OBVIOUS
  <2> QED
    BY <1>1, <1>2, <2>1 DEF Adds
<1> QED
  BY <1>1, <1>2, <1>3, <1>4, SumsAlike DEF Adds

\* It is a number
LEMMA SumInt ==
  ASSUME NEW d \in Seq(Entry), NEW a \in Nat, NEW b \in Nat, a <= b, b <= Len(d)
  PROVE  Sum(d, a, b) \in Int
<1> DEFINE K == {k \in 0 .. b - a : Sum(d, a, a + k) \in Int}
<1>1. 0 \in K
  BY SumOfNone
<1>2. ASSUME NEW k \in 1 .. b - a, k - 1 \in K PROVE k \in K
  <2>1. a + k \in Nat /\ a < a + k /\ a + k <= Len(d) /\ (a + k) - 1 = a + (k - 1)
    OBVIOUS
  <2>2. Sum(d, a, a + k) = Sum(d, a, a + (k - 1)) + d[a + k].real
    BY <2>1, SumOneMore
  <2>3. d[a + k].real \in Int
    BY Stretch
  <2> QED
    BY <1>2, <2>2, <2>3
<1> HIDE DEF K
<1>3. b - a \in Nat
  OBVIOUS
<1>4. 0 .. b - a \subseteq K
  BY <1>1, <1>2, <1>3, BoundedInduction
<1>5. b - a \in 0 .. b - a /\ a + (b - a) = b
  OBVIOUS
<1>6. Sum(d, a, a + (b - a)) \in Int
  BY <1>4, <1>5 DEF K
<1> QED
  BY <1>5, <1>6

\* the header at x has the size of the .pak file: 12 bytes, 64 for each member, and these
PakReal(d, x) == IsPak(d[x]) => d[x].real = 12 + 64 * d[x].pak + Sum(d, x, x + d[x].pak)

\* the first n headers have it
PakReals(d, n) == \A x \in 1 .. n : PakReal(d, x)

\* That depends only on the first n entries, if no pak reaches beyond them
LEMMA PakRealsSame ==
  ASSUME NEW d \in Seq(Entry), NEW e \in Seq(Entry), NEW n \in Nat, n <= Len(d), n <= Len(e),
         WholePaks(d, n), PakReals(d, n), \A y \in 1 .. n : e[y] = d[y]
  PROVE  PakReals(e, n)
<1> SUFFICES ASSUME NEW x \in 1 .. n, IsPak(e[x])
             PROVE  e[x].real = 12 + 64 * e[x].pak + Sum(e, x, x + e[x].pak)
  BY DEF PakReals, PakReal
<1>1. e[x] = d[x] /\ IsPak(d[x])
  OBVIOUS
<1>2. d[x].pak \in Nat /\ x + d[x].pak <= n
  BY <1>1 DEF WholePaks
<1> DEFINE z == x + d[x].pak
<1>3. z \in Nat /\ x \in Nat /\ x <= z /\ z <= n
  BY <1>2
<1> HIDE DEF z
<1>4. z <= Len(d) /\ z <= Len(e) /\ \A y \in x + 1 .. z : y \in 1 .. n
  BY <1>3
<1>5. \A y \in x + 1 .. z : d[y].real = e[y].real
  BY <1>4
<1>6. Sum(d, x, z) = Sum(e, x, z)
  BY <1>3, <1>4, <1>5, SumSame
<1>7. d[x].real = 12 + 64 * d[x].pak + Sum(d, x, z)
  BY <1>1 DEF PakReals, PakReal, z
<1> QED
  BY <1>1, <1>6, <1>7 DEF z

\* finished paks have their sizes, and paksize is that of the pak being filled so far
RealInv ==
  /\ PakReals(dir, IF hdr = 0 THEN Len(dir) ELSE hdr - 1)
  /\ hdr # 0 => paksize = 12 + 64 * dir[hdr].pak + Sum(dir, hdr, Len(dir))

\* what the steps of a session do to the directory and to paksize
SizesRest == dir' = dir /\ hdr' = hdr /\ paksize' = paksize

EntryAdds(e) == hdr = 0 /\ hdr' = 0 /\ e \in Entry /\ ~IsPak(e) /\ dir' = Append(dir, e)

HeaderAdds(e) ==
  /\ hdr = 0 /\ hdr' = Len(dir) + 1 /\ e \in Entry /\ dir' = Append(dir, e)
  /\ paksize' = 12 + 64 * e.pak

MemberAdds(e) ==
  /\ hdr # 0 /\ hdr' = hdr /\ e \in Entry /\ ~IsPak(e) /\ dir' = Append(dir, e)
  /\ paksize' = paksize + e.real

HeaderLearns(e) ==
  /\ hdr # 0 /\ hdr' = 0 /\ e \in Entry /\ dir' = [dir EXCEPT ![hdr] = e]
  /\ e.real = paksize /\ e.pak = dir[hdr].pak /\ todo = << >> /\ pc = "member"

SizeStep ==
  \/ SizesRest \/ (\E e : EntryAdds(e)) \/ (\E e : HeaderAdds(e)) \/ (\E e : MemberAdds(e))
  \/ PakAborts \/ (\E e : HeaderLearns(e))

\* Every action of a session is one of these to the sizes
LEMMA SizeSteps ==
  ASSUME AddInv, ShapeInv, AddStep
  PROVE  SizeStep
<1>1. /\ total \in Nat /\ dir \in Seq(Entry) /\ hdr \in 0 .. Len(dir) /\ paksize \in Nat
      /\ (pc \in {"closed", "ready", "entries"} => hdr = 0) /\ (pc = "member" => hdr # 0)
  BY DEF AddInv, TypeInv, SessionTypes, PakInv
<1>2. CASE Create \/ CreateFails
  <2>1. dir' = << >> /\ dir = << >> /\ hdr' = hdr /\ paksize' = paksize
    BY <1>2 DEF Create, CreateFails, AddInv, FileInv
  <2> QED
    BY <2>1 DEF SizesRest, SizeStep
<1>3. CASE OpenForAdd
  <2>1. dir' = dir /\ hdr' = hdr /\ paksize' = paksize
    BY <1>1, <1>3, ReopenFacts DEF OpenForAdd
  <2> QED
    BY <2>1 DEF SizesRest, SizeStep
<1>4. ASSUME NEW b \in Blob, StartFile(b) PROVE SizesRest
  BY <1>4 DEF StartFile, SizesRest
<1>5. ASSUME NEW n \in DirName, AddFolder(n) PROVE SizeStep
  <2> DEFINE e == StartEntry(n, "DIR", 0, 0)
  <2>1. e \in Entry /\ e.type = "DIR"
    BY <1>1, StartEntryType DEF Name, Type
  <2>2. hdr = 0 /\ hdr' = 0 /\ paksize' = paksize /\ (dir' = dir \/ dir' = Append(dir, e))
    BY <1>1, <1>5 DEF AddFolder, NextInput
  <2> HIDE DEF e
  <2>3. SizesRest \/ EntryAdds(e)
    BY <2>1, <2>2 DEF SizesRest, EntryAdds, IsPak
  <2> QED
    BY <2>3 DEF SizeStep
<1>6. ASSUME NEW p \in PakName, StartPak(p) PROVE SizeStep
  <2> DEFINE k == Len(Paks[p])
             e == StartEntry(p, "PAK", 0, k)
  <2>1. k \in Nat
    BY AddAssumption
  <2>2. /\ hdr = 0 /\ dir' = Append(dir, e) /\ hdr' = Len(dir) + 1 /\ paksize' = 12 + 64 * k
    BY <1>1, <1>6 DEF StartPak, NextInput
  <2> HIDE DEF k
  <2>3. e \in Entry /\ e.pak = k
    BY <1>1, <2>1, StartEntryType, StartEntryNumber DEF Name, Type
  <2> HIDE DEF e
  <2>4. HeaderAdds(e)
    BY <2>2, <2>3 DEF HeaderAdds
  <2> QED
    BY <2>4 DEF SizeStep
<1>7. ASSUME NEW p \in PakName, PakUnreadable(p) PROVE SizesRest
  BY <1>7 DEF PakUnreadable, SizesRest
<1>8. CASE StartMember
  BY <1>8 DEF StartMember, SizesRest, SizeStep
<1>9. CASE CompressBlock \/ ReadFails \/ WriteFails \/ UserAbort
  BY <1>9 DEF CompressBlock, ReadFails, WriteFails, UserAbort, fileVars, SizesRest, SizeStep
<1>10. ASSUME pc = "compress", NEW e \in {Compressed(cur), Stored(cur)}, NEW a \in {0, 1, 3}, Keep(e, a)
       PROVE  SizeStep
  <2>1. e \in Entry /\ ~IsPak(e)
    BY <1>10, KeptEntries DEF IsPak
  <2>2. /\ dir' = Append(dir, e) /\ hdr' = hdr
        /\ hdr # 0 => paksize' = paksize + e.real
    BY <1>10 DEF Keep, PaksizeWith
  <2>3. CASE hdr = 0
    BY <2>1, <2>2, <2>3 DEF EntryAdds, SizeStep
  <2>4. CASE hdr # 0
    BY <2>1, <2>2, <2>4 DEF MemberAdds, SizeStep
  <2> QED
    BY <2>3, <2>4
<1>11. CASE FinishCompressed \/ FinishShortTail \/ FinishStored \/ FinishShortStore
  <2>1. pc = "compress" /\ \E a \in {0, 1, 3} : Keep(Compressed(cur), a) \/ Keep(Stored(cur), a)
    BY <1>11 DEF FinishCompressed, FinishShortTail, FinishStored, FinishShortStore, InputDone
  <2> QED
    BY <1>10, <2>1
<1>12. CASE AbortEntry
  BY <1>12 DEF AbortEntry, SizesRest, SizeStep
<1>13. CASE AbortPak
  BY <1>13 DEF AbortPak, BeforePak, LeavePak, PakAborts, SizeStep
<1>14. CASE FinishPak
  <2>1. /\ pc = "member" /\ todo = << >> /\ hdr' = 0 /\ dir' = [dir EXCEPT ![hdr] = Spanning(dir[hdr])]
    BY <1>14 DEF FinishPak, LeavePak
  <2> DEFINE e == Spanning(dir[hdr])
  <2>2. e \in Entry /\ e.pak = dir[hdr].pak
    BY <2>1, SpanningFacts
  <2>3. e.real = paksize
    <3>1. dir[hdr] \in Entry
      BY <1>1, <2>1
    <3> QED
      BY <3>1 DEF Spanning, Entry
  <2>4. dir' = [dir EXCEPT ![hdr] = e]
    BY <2>1
  <2> HIDE DEF e
  <2>5. HeaderLearns(e)
    BY <1>1, <2>1, <2>2, <2>3, <2>4 DEF HeaderLearns
  <2> QED
    BY <2>5 DEF SizeStep
<1>15. CASE WriteHeader \/ WriteEntries \/ RemoveEmpty
  BY <1>15 DEF WriteHeader, WriteEntries, RemoveEmpty, SizesRest, SizeStep
<1> QED
  BY <1>2, <1>3, <1>4, <1>5, <1>6, <1>7, <1>8, <1>9, <1>11, <1>12, <1>13, <1>14, <1>15
  DEF AddStep, SizeStep

\* They keep the sizes right
LEMMA SizesKeep ==
  ASSUME AddInv, ShapeInv, RealInv, SizeStep
  PROVE  RealInv'
<1> DEFINE n == Len(dir)
           m == IF hdr = 0 THEN n ELSE hdr - 1
<1>1. /\ dir \in Seq(Entry) /\ n \in Nat /\ hdr \in 0 .. n /\ paksize \in Nat
      /\ m \in Nat /\ m <= n
      /\ hdr # 0 => IsPak(dir[hdr]) /\ hdr \in 1 .. n
  BY DEF AddInv, TypeInv, SessionTypes, PakInv, IsPak
<1>2. WholePaks(dir, m) /\ PakReals(dir, m)
  BY DEF ShapeInv, RealInv
<1>3. hdr # 0 => paksize = 12 + 64 * dir[hdr].pak + Sum(dir, hdr, n) /\ Members(dir, hdr, n)
  BY DEF ShapeInv, RealInv
<1>4. ASSUME NEW e \in Entry, dir' = Append(dir, e)
      PROVE  /\ dir' \in Seq(Entry) /\ Len(dir') = n + 1 /\ dir'[n + 1] = e
             /\ \A y \in 1 .. n : dir'[y] = dir[y]
             /\ PakReals(dir', m)
  <2>1. /\ dir' \in Seq(Entry) /\ Len(dir') = n + 1 /\ dir'[n + 1] = e
        /\ \A y \in 1 .. n : dir'[y] = dir[y]
    BY <1>1, <1>4
  <2>2. m <= Len(dir') /\ \A y \in 1 .. m : dir'[y] = dir[y]
    BY <1>1, <2>1
  <2> HIDE DEF m
  <2>3. PakReals(dir', m)
    BY <1>1, <1>2, <2>1, <2>2, PakRealsSame
  <2> QED
    BY <2>1, <2>3
<1>5. CASE SizesRest
  BY <1>5 DEF SizesRest, RealInv
<1> HIDE DEF n
<1>n. n = Len(dir)
  BY DEF n
<1>6. ASSUME NEW e, EntryAdds(e) PROVE RealInv'
  <2>1. hdr = 0 /\ hdr' = 0 /\ e \in Entry /\ ~IsPak(e) /\ dir' = Append(dir, e)
    BY <1>6 DEF EntryAdds
  <2>2. Len(dir') = n + 1 /\ dir'[n + 1] = e /\ PakReals(dir', n)
    BY <1>4, <2>1
  <2>3. \A x \in 1 .. n + 1 : x \in 1 .. n \/ x = n + 1
    BY <1>1
  <2>4. PakReals(dir', n + 1)
    BY <2>1, <2>2, <2>3 DEF PakReals, PakReal
  <2> QED
    BY <2>1, <2>2, <2>4 DEF RealInv
<1>7. ASSUME NEW e, HeaderAdds(e) PROVE RealInv'
  <2>1. /\ hdr = 0 /\ hdr' = n + 1 /\ e \in Entry /\ dir' = Append(dir, e)
        /\ paksize' = 12 + 64 * e.pak
    BY <1>7, <1>n DEF HeaderAdds
  <2>2. dir' \in Seq(Entry) /\ Len(dir') = n + 1 /\ dir'[n + 1] = e /\ PakReals(dir', n)
    BY <1>4, <2>1
  <2>3. n + 1 \in Nat /\ n + 1 <= Len(dir') /\ (n + 1) - 1 = n /\ n + 1 # 0
    BY <1>1, <2>2
  <2>4. Sum(dir', n + 1, n + 1) = 0
    BY <2>2, <2>3, SumOfNone
  <2>5. paksize' = 12 + 64 * e.pak + 0
    <3>1. e.pak \in Int
      BY <2>1 DEF Entry
    <3> QED
      BY <2>1, <3>1
  <2> QED
    BY <2>1, <2>2, <2>3, <2>4, <2>5 DEF RealInv
<1>8. ASSUME NEW e, MemberAdds(e) PROVE RealInv'
  <2>1. /\ hdr # 0 /\ hdr' = hdr /\ e \in Entry /\ dir' = Append(dir, e)
        /\ paksize' = paksize + e.real
    BY <1>8 DEF MemberAdds
  <2>2. /\ dir' \in Seq(Entry) /\ Len(dir') = n + 1 /\ dir'[n + 1] = e /\ PakReals(dir', hdr - 1)
        /\ \A y \in 1 .. n : dir'[y] = dir[y]
    BY <1>4, <2>1
  <2>3. hdr \in 1 .. n /\ hdr \in Nat /\ hdr < n + 1 /\ n + 1 \in Nat /\ (n + 1) - 1 = n /\ hdr <= n
    BY <1>1, <2>1
  <2>4. Sum(dir', hdr, n + 1) = Sum(dir', hdr, n) + e.real
    <3> DEFINE b == n + 1
    <3>1. b \in Nat /\ hdr < b /\ b <= Len(dir') /\ b - 1 = n /\ dir'[b] = e
      BY <2>2, <2>3
    <3> HIDE DEF b
    <3>2. Sum(dir', hdr, b) = Sum(dir', hdr, b - 1) + dir'[b].real
      BY <2>2, <2>3, <3>1, SumOneMore
    <3> QED
      BY <3>1, <3>2 DEF b
  <2>5. Sum(dir', hdr, n) = Sum(dir, hdr, n)
    <3>1. \A y \in hdr + 1 .. n : dir'[y].real = dir[y].real
      BY <2>2, <2>3
    <3>2. n <= Len(dir) /\ n <= Len(dir')
      BY <1>1, <1>n, <2>2
    <3> QED
      BY <1>1, <2>2, <2>3, <3>1, <3>2, SumSame
  <2>6. Sum(dir, hdr, n) \in Int /\ e.real \in Int /\ dir[hdr].pak \in Int
    <3>1. dir[hdr] \in Entry
      BY <1>1, <2>3, <1>n
    <3>2. n <= Len(dir)
      BY <1>1, <1>n
    <3>3. Sum(dir, hdr, n) \in Int
      BY <1>1, <2>3, <3>2, SumInt
    <3> QED
      BY <2>1, <3>1, <3>3 DEF Entry
  <2>7. paksize' = 12 + 64 * dir[hdr].pak + Sum(dir', hdr, n + 1)
    <3> DEFINE t == Sum(dir', hdr, n + 1)
               u == Sum(dir', hdr, n)
               w == Sum(dir, hdr, n)
    <3>1. t = u + e.real /\ u = w /\ w \in Int /\ paksize = 12 + 64 * dir[hdr].pak + w
      BY <1>3, <2>1, <2>4, <2>5, <2>6
    <3> HIDE DEF t, u, w
    <3>2. paksize' = 12 + 64 * dir[hdr].pak + t
      BY <2>1, <2>6, <3>1, SMTT(40)
    <3> QED
      BY <3>2 DEF t
  <2>8. dir'[hdr] = dir[hdr]
    BY <2>2, <2>3
  <2> QED
    BY <2>1, <2>2, <2>7, <2>8 DEF RealInv
<1>9. CASE PakAborts
  <2>1. hdr # 0 /\ hdr' = 0 /\ dir' = SubSeq(dir, 1, hdr - 1) /\ m = hdr - 1
    BY <1>9 DEF PakAborts
  <2>2. dir' \in Seq(Entry) /\ Len(dir') = m /\ \A y \in 1 .. m : dir'[y] = dir[y]
    BY <1>1, <1>n, <2>1
  <2> HIDE DEF m
  <2>3. m <= Len(dir) /\ m <= Len(dir')
    BY <1>1, <1>n, <2>2
  <2>4. PakReals(dir', m)
    BY <1>1, <1>2, <2>2, <2>3, PakRealsSame
  <2> QED
    BY <2>1, <2>2, <2>4 DEF RealInv
<1>10. ASSUME NEW e, HeaderLearns(e) PROVE RealInv'
  <2>1. /\ hdr # 0 /\ hdr' = 0 /\ e \in Entry /\ dir' = [dir EXCEPT ![hdr] = e]
        /\ e.real = paksize /\ e.pak = dir[hdr].pak /\ todo = << >> /\ pc = "member"
    BY <1>10 DEF HeaderLearns
  <2>2. hdr \in 1 .. n /\ m = hdr - 1 /\ IsPak(dir[hdr])
    BY <1>1, <2>1
  <2>3. /\ dir' \in Seq(Entry) /\ Len(dir') = n /\ dir'[hdr] = e
        /\ \A y \in 1 .. n : y # hdr => dir'[y] = dir[y]
    BY <1>1, <1>n, <2>1, <2>2
  <2>4. dir[hdr].pak = n - hdr
    BY <1>1, <1>n, <2>1 DEF ShapeInv
  <2>5. hdr + e.pak = n
    BY <1>1, <2>1, <2>2, <2>4
  <2>6. Sum(dir', hdr, n) = Sum(dir, hdr, n)
    <3>1. \A y \in hdr + 1 .. n : dir'[y].real = dir[y].real
      BY <2>2, <2>3
    <3>2. n <= Len(dir) /\ n <= Len(dir') /\ hdr <= n /\ hdr \in Nat
      BY <1>1, <1>n, <2>2, <2>3
    <3> QED
      BY <1>1, <2>3, <3>1, <3>2, SumSame
  <2>7. PakReal(dir', hdr)
    BY <1>3, <2>1, <2>3, <2>5, <2>6 DEF PakReal
  <2>8. PakReals(dir', hdr - 1)
    <3>1. m <= Len(dir) /\ m <= Len(dir') /\ \A y \in 1 .. m : dir'[y] = dir[y]
      BY <1>1, <1>n, <2>2, <2>3
    <3> HIDE DEF m
    <3>2. PakReals(dir', m)
      BY <1>1, <1>2, <2>3, <3>1, PakRealsSame
    <3> QED
      BY <2>2, <3>2
  <2>9. ASSUME NEW x \in hdr + 1 .. n PROVE PakReal(dir', x)
    <3>1. IsMember(dir[x]) /\ dir'[x] = dir[x]
      BY <1>3, <2>1, <2>2, <2>3, <2>9 DEF Members
    <3> QED
      BY <3>1 DEF PakReal, IsMember, IsPak
  <2>10. \A x \in 1 .. n : x \in 1 .. hdr - 1 \/ x = hdr \/ x \in hdr + 1 .. n
    BY <2>2
  <2>11. PakReals(dir', n)
    BY <2>7, <2>8, <2>9, <2>10 DEF PakReals
  <2> QED
    BY <2>1, <2>3, <2>11 DEF RealInv
<1> QED
  BY <1>5, <1>6, <1>7, <1>8, <1>9, <1>10 DEF SizeStep

-----------------------------------------------------------------------------
(* The walk corrects them.                                                 *)

\* The first of them can be taken off instead of the last
LEMMA SumFirst ==
  ASSUME NEW d \in Seq(Entry), NEW a \in Nat, NEW b \in Nat, a < b, b <= Len(d)
  PROVE  Sum(d, a, b) = d[a + 1].real + Sum(d, a + 1, b)
<1> DEFINE c == a + 1
           r == d[c].real
           K == {k \in 0 .. b - c : Sum(d, a, c + k) = r + Sum(d, c, c + k)}
<1>1. c \in Nat /\ a < c /\ c <= b /\ c - 1 = a /\ b - c \in Nat /\ c <= Len(d)
  OBVIOUS
<1> HIDE DEF c
<1>2. r \in Int
  <2>1. d[c] \in Entry
    BY <1>1
  <2> QED
    BY <2>1 DEF Entry
<1>3. 0 \in K
  <2>1. Sum(d, a, c) = Sum(d, a, c - 1) + r
    BY <1>1, SumOneMore
  <2>2. Sum(d, a, a) = 0 /\ Sum(d, c, c) = 0
    BY <1>1, SumOfNone
  <2>3. c + 0 = c /\ 0 \in 0 .. b - c
    BY <1>1
  <2>4. Sum(d, a, c) = 0 + r
    BY <1>1, <2>1, <2>2
  <2> HIDE DEF r
  <2>5. Sum(d, a, c) = r + 0
    BY <1>2, <2>4
  <2> QED
    BY <2>2, <2>3, <2>5
<1>4. ASSUME NEW k \in 1 .. b - c, k - 1 \in K PROVE k \in K
  <2> DEFINE m == c + k
  <2>1. m \in Nat /\ a < m /\ c < m /\ m <= Len(d) /\ m <= b /\ m - 1 = c + (k - 1) /\ c <= m - 1
        /\ m - 1 \in Nat /\ m - 1 <= Len(d)
    BY <1>1
  <2> HIDE DEF m
  <2>2. Sum(d, a, m) = Sum(d, a, m - 1) + d[m].real
    BY <2>1, SumOneMore
  <2>3. Sum(d, c, m) = Sum(d, c, m - 1) + d[m].real
    BY <1>1, <2>1, SumOneMore
  <2>4. Sum(d, a, m - 1) = r + Sum(d, c, m - 1)
    BY <1>4, <2>1
  <2>5. Sum(d, c, m - 1) \in Int /\ d[m].real \in Int
    <3>1. Sum(d, c, m - 1) \in Int
      BY <1>1, <2>1, SumInt
    <3>2. d[m] \in Entry
      BY <2>1
    <3> QED
      BY <3>1, <3>2 DEF Entry
  <2> DEFINE u == Sum(d, c, m - 1)
             v == d[m].real
  <2>6. Sum(d, a, m) = r + Sum(d, c, m)
    <3>1. Sum(d, a, m) = (r + u) + v /\ Sum(d, c, m) = u + v /\ u \in Int /\ v \in Int
      BY <2>2, <2>3, <2>4, <2>5
    <3> HIDE DEF u, v, r
    <3>2. (r + u) + v = r + (u + v)
      BY <1>2, <3>1
    <3> QED
      BY <3>1, <3>2
  <2> QED
    BY <1>1, <2>6 DEF m
<1> HIDE DEF K
<1>5. 0 .. b - c \subseteq K
  BY <1>1, <1>3, <1>4, BoundedInduction
<1>6. b - c \in 0 .. b - c /\ c + (b - c) = b
  BY <1>1
<1>7. Sum(d, a, c + (b - c)) = r + Sum(d, c, c + (b - c))
  BY <1>5, <1>6 DEF K
<1>8. Sum(d, a, b) = r + Sum(d, c, b)
  BY <1>6, <1>7
<1> QED
  BY <1>8 DEF c

\* the size that the header at k has: that of what is there up to s and of what is still
\* to come, t
PartReal(d, k, s, t) == d[k].real = 12 + 64 * d[k].pak + Sum(d, k, s) + t

\* A pak of which nothing is to come has the size of its file
LEMMA PakComplete ==
  ASSUME NEW d \in Seq(Entry), NEW s \in Nat, s <= Len(d), NEW k \in 1 .. s, PakReals(d, k - 1),
         \A x \in k + 1 .. s : ~IsPak(d[x]),
         d[k].pak = s - k, PartReal(d, k, s, 0)
  PROVE  PakReals(d, s)
<1>1. d[k].real = 12 + 64 * d[k].pak + Sum(d, k, k + d[k].pak)
  <2>1. k \in Nat /\ k <= s /\ k + (s - k) = s
    OBVIOUS
  <2>2. Sum(d, k, s) \in Int
    BY <2>1, SumInt
  <2> DEFINE p == d[k].pak
             u == Sum(d, k, s)
  <2>3. p \in Int /\ u \in Int /\ k + p = s /\ d[k].real = 12 + 64 * p + u + 0
    BY <2>1, <2>2 DEF PartReal
  <2> HIDE DEF p, u
  <2>4. d[k].real = 12 + 64 * p + u
    BY <2>3
  <2> QED
    BY <2>3, <2>4 DEF p, u
<1>2. ASSUME NEW x \in 1 .. s PROVE PakReal(d, x)
  <2>1. x \in 1 .. k - 1 \/ x = k \/ x \in k + 1 .. s
    OBVIOUS
  <2> QED
    BY <1>1, <2>1 DEF PakReals, PakReal
<1> QED
  BY <1>2 DEF PakReals

\* where the pak around the walk ends in the old directory
OldEnd == OldHeader + was[OldHeader].pak

\* the walk has the right sizes behind it, and its pak the right one for what will be left
RealWalk ==
  /\ PakReals(was, Len(was))
  /\ PakReals(dir, IF InPak THEN NewHeader - 1 ELSE Stay)
  /\ InPak => PartReal(dir, NewHeader, Stay, Sum(was, Passed, OldEnd))

\* at a member: where its pak is, and what is still to come of it
LEMMA AtMember ==
  ASSUME ArchiveInv, RealWalk, pc = "walk", i <= Len(dir), IsMember(was[i])
  PROVE  /\ OldEnd \in i .. Len(was) /\ OldEnd - i \in Nat
         /\ i < OldEnd => IsMember(was[i + 1]) /\ was[i + 1].pak = i + 1 - OldHeader
         /\ i = OldEnd /\ i < Len(was) => ~IsMember(was[i + 1])
         /\ NewHeader + dir[NewHeader].pak = OldEnd - dedelta
         /\ PakReals(dir, NewHeader - 1) /\ WholePaks(dir, NewHeader - 1)
         /\ IsPak(dir[NewHeader]) /\ \A x \in NewHeader + 1 .. Stay : ~IsPak(dir[x])
         /\ was[i].real \in Int /\ Sum(was, i, OldEnd) \in Int
         /\ PartReal(dir, NewHeader, Stay, was[i].real + Sum(was, i, OldEnd))
<1> DEFINE n == Len(was)
           h == OldHeader
           k == NewHeader
           z == OldEnd
<1>1. /\ Sound(was) /\ PakWalkInv /\ i \in 1 .. n /\ n \in Nat /\ Passed = i - 1
      /\ dedelta \in Nat /\ pakdelta \in Nat
  BY WalkFacts
<1>2. /\ InPak /\ AroundInv /\ h = i - was[i].pak /\ h \in 1 .. i - 1 /\ IsPak(was[h])
      /\ was[h].pak \in Nat /\ i <= h + was[h].pak /\ h + was[h].pak <= n
      /\ k = i - was[i].pak - dedelta + pakdelta /\ was[i].pak \in Nat /\ k \in 1 .. Stay
  BY InPakFacts
<1>3. z = h + was[h].pak /\ z \in i .. n /\ z - i \in Nat
  <2> DEFINE p == was[h].pak
  <2>1. z = h + p
    BY DEF OldEnd
  <2>2. h \in 1 .. i - 1 /\ p \in Nat /\ i <= h + p /\ h + p <= n
    BY <1>2
  <2> HIDE DEF h, z, n, p
  <2>3. z = h + p /\ z \in i .. n /\ z - i \in Nat
    BY <1>1, <2>1, <2>2
  <2> QED
    BY <2>3 DEF p
<1>4. /\ i < z => IsMember(was[i + 1]) /\ was[i + 1].pak = i + 1 - h
      /\ i = z /\ i < n => ~IsMember(was[i + 1])
  <2> HIDE DEF h, z, n
  <2>1. h \in 1 .. Len(was) /\ i \in h .. h + was[h].pak
    <3>0. h \in 1 .. i - 1
      BY <1>2
    <3>1. h \in 1 .. n /\ i \in h .. z
      BY <1>1, <1>3, <3>0
    <3> QED
      BY <1>3, <3>1 DEF n
  <2>2. i < z \/ i < n => i + 1 \in 1 .. Len(was)
    BY <1>1, <1>3 DEF n
  <2> QED
    BY <1>1, <1>2, <1>3, <2>1, <2>2, SoundSamePak
<1>5. /\ IsPak(dir[k]) /\ dir[k].pak = was[h].pak - pakdelta
      /\ Members(dir, k, Stay)
  BY <1>2 DEF AroundInv
<1>6. k + dir[k].pak = z - dedelta
  <2> DEFINE p == was[h].pak
             q == was[i].pak
             f == dir[k].pak
  <2>1. k = i - q - dedelta + pakdelta /\ h = i - q /\ z = h + p /\ f = p - pakdelta
        /\ q \in Nat /\ p \in Nat
    BY <1>2, <1>3, <1>5
  <2> HIDE DEF h, z, n, k, p, q, f
  <2>2. k + f = z - dedelta
    BY <1>1, <2>1
  <2> QED
    BY <2>2 DEF f
<1>7. \A x \in k + 1 .. Stay : ~IsPak(dir[x])
  BY <1>5 DEF Members, IsMember, IsPak
<1>8. /\ PakReals(dir, k - 1) /\ PartReal(dir, k, Stay, Sum(was, Passed, z))
      /\ WholePaks(dir, k - 1)
  BY <1>1, <1>2 DEF RealWalk, PakWalkInv
<1>9. Sum(was, Passed, z) = was[i].real + Sum(was, i, z) /\ Sum(was, i, z) \in Int /\ was[i].real \in Int
  <2> HIDE DEF z, n
  <2> DEFINE a == i - 1
  <2>1. /\ was \in Seq(Entry) /\ a \in Nat /\ z \in Nat /\ a < z /\ z <= Len(was) /\ a + 1 = i
        /\ i \in Nat /\ i <= z
    BY <1>1, <1>3 DEF Sound, n
  <2> HIDE DEF a
  <2>2. Sum(was, a, z) = was[a + 1].real + Sum(was, a + 1, z)
    BY <2>1, SumFirst
  <2>3. Sum(was, i, z) \in Int
    BY <2>1, SumInt
  <2>4. was[i].real \in Int
    BY <1>1, SoundTypes DEF n
  <2> QED
    BY <1>1, <2>1, <2>2, <2>3, <2>4 DEF a
<1> HIDE DEF h, k, z, n
<1>10. PartReal(dir, k, Stay, was[i].real + Sum(was, i, z))
  BY <1>8, <1>9
<1> QED
  BY <1>3, <1>4, <1>5, <1>6, <1>7, <1>8, <1>9, <1>10 DEF h, k, z, n

\* Behind a member, the right sizes of the rest of its pak are right sizes
LEMMA BehindMember ==
  ASSUME ArchiveInv, RealWalk, pc = "walk", i <= Len(dir), IsMember(was[i]),
         Passed' = i, was' = was, NEW s \in Nat, Stay' = s, NEW k \in 1 .. s, k = NewHeader,
         pakdelta' - dedelta' = pakdelta - dedelta, pakdelta' \in Nat, dedelta' \in Nat,
         dir' \in Seq(Entry), s <= Len(dir'),
         PakReals(dir', k - 1), \A x \in k + 1 .. s : ~IsPak(dir'[x]),
         PartReal(dir', k, s, Sum(was, i, OldEnd)),
         i = OldEnd => dir'[k].pak = s - k
  PROVE  RealWalk'
<1> DEFINE n == Len(was)
           h == OldHeader
           z == OldEnd
<1>1. n \in Nat /\ i \in 1 .. n /\ dedelta \in Nat /\ pakdelta \in Nat /\ was \in Seq(Entry)
  BY WalkFacts DEF Sound
<1>2. /\ z \in i .. n /\ (i < z => IsMember(was[i + 1]) /\ was[i + 1].pak = i + 1 - h)
      /\ (i = z /\ i < n => ~IsMember(was[i + 1]))
  BY AtMember
<1>3. h \in Nat /\ k = h - dedelta + pakdelta
  BY <1>1, InPakFacts DEF NewHeader
<1>4. PakReals(was', Len(was'))
  BY DEF RealWalk
<1>5. InPak' <=> (i < n /\ IsMember(was[i + 1]))
  BY DEF InPak
<1>6. CASE i < z
  <2>1. InPak'
    BY <1>1, <1>2, <1>5, <1>6
  <2>2. OldHeader' = h
    <3>1. OldHeader' = i + 1 - was[i + 1].pak
      BY DEF OldHeader
    <3> HIDE DEF h
    <3> QED
      BY <1>1, <1>2, <1>3, <1>6, <3>1, SMTT(40)
  <2>3. NewHeader' = k
    <3>1. NewHeader' = h - dedelta' + pakdelta'
      BY <2>2 DEF NewHeader
    <3> DEFINE p == pakdelta'
               d == dedelta'
    <3>2. p - d = pakdelta - dedelta /\ p \in Nat /\ d \in Nat /\ NewHeader' = h - d + p
      BY <3>1
    <3> HIDE DEF h, p, d
    <3>3. h - d + p = h - dedelta + pakdelta
      BY <1>1, <1>3, <3>2
    <3> QED
      BY <1>3, <3>2, <3>3
  <2>4. OldEnd' = z
    BY <2>2 DEF OldEnd
  <2>5. PakReals(dir', NewHeader' - 1)
    BY <2>3
  <2>6. PartReal(dir', NewHeader', Stay', Sum(was', Passed', OldEnd'))
    BY <2>3, <2>4
  <2> QED
    BY <1>4, <2>1, <2>5, <2>6 DEF RealWalk
<1>7. CASE i = z
  <2>1. ~InPak'
    BY <1>2, <1>5, <1>7
  <2>2. Sum(was, i, z) = 0
    BY <1>1, <1>7, SumOfNone
  <2>3. PartReal(dir', k, s, 0) /\ dir'[k].pak = s - k
    BY <1>7, <2>2
  <2>4. PakReals(dir', s)
    BY <2>3, PakComplete
  <2> QED
    BY <1>4, <2>1, <2>4 DEF RealWalk
<1> QED
  BY <1>1, <1>2, <1>6, <1>7

\* A member that stays adds its size in the new directory too
LEMMA KeepMemberReal ==
  ASSUME ArchiveInv, RealWalk, KeepEntry, IsMember(was[i])
  PROVE  RealWalk'
<1> DEFINE s == Stay
           k == NewHeader
           t == s + 1
           e == was[i].real
           y == Sum(was, i, OldEnd)
<1>1. /\ pc = "walk" /\ i <= Len(dir) /\ Passed' = i /\ Stay' = t /\ was' = was
      /\ dedelta' = dedelta /\ pakdelta' = (IF was[i].pak = 0 THEN 0 ELSE pakdelta)
      /\ dir' \in Seq(Entry) /\ Len(dir') = Len(was)
      /\ (\A x \in 1 .. s : dir'[x] = dir[x])
      /\ dir'[t].type = was[i].type /\ dir'[t].real = e
  BY KeepFactsOfWalk
<1>2. /\ i \in 1 .. Len(was) /\ Len(was) \in Nat /\ dedelta \in Nat /\ pakdelta \in Nat
      /\ s = i - 1 - dedelta /\ s \in 0 .. i - 1
      /\ dir \in Seq(Entry) /\ Len(dir) = Len(was)
  BY <1>1, WalkFacts DEF WalkInv
<1>3. k \in 1 .. s /\ was[i].pak # 0
  BY <1>1, InPakFacts
<1>4. pakdelta' = pakdelta
  BY <1>1, <1>3
<1>5. /\ k + dir[k].pak = OldEnd - dedelta /\ OldEnd \in i .. Len(was)
      /\ PakReals(dir, k - 1) /\ WholePaks(dir, k - 1)
      /\ \A x \in k + 1 .. s : ~IsPak(dir[x])
      /\ e \in Int /\ y \in Int
      /\ PartReal(dir, k, s, e + y)
  BY <1>1, AtMember
<1>6. t \in Nat /\ k \in 1 .. t /\ t <= Len(dir') /\ s \in Nat /\ s <= Len(dir') /\ s <= Len(dir)
      /\ k \in Nat /\ k <= s /\ k < t /\ t - 1 = s /\ k - 1 \in Nat
      /\ k - 1 <= Len(dir') /\ k - 1 <= Len(dir)
  <2> HIDE DEF s, k
  <2> QED
    BY <1>1, <1>2, <1>3, SMTT(40)
<1>7. PakReals(dir', k - 1)
  <2> HIDE DEF k, s, t
  <2>1. \A x \in 1 .. k - 1 : dir'[x] = dir[x]
    BY <1>1, <1>6
  <2> DEFINE m == k - 1
  <2>2. m \in Nat /\ m <= Len(dir) /\ m <= Len(dir') /\ WholePaks(dir, m) /\ PakReals(dir, m)
        /\ \A x \in 1 .. m : dir'[x] = dir[x]
    BY <1>5, <1>6, <2>1
  <2> HIDE DEF m
  <2>3. PakReals(dir', m)
    BY <1>1, <1>2, <2>2, PakRealsSame
  <2> QED
    BY <2>3 DEF m
<1>8. \A x \in k + 1 .. t : ~IsPak(dir'[x])
  <2> HIDE DEF s, k
  <2>1. ~IsPak(dir'[t])
    BY <1>1 DEF IsMember, IsPak
  <2>2. \A x \in k + 1 .. t : x = t \/ (x \in k + 1 .. s /\ x \in 1 .. s)
    BY <1>2, <1>3
  <2> QED
    BY <1>1, <1>5, <2>1, <2>2
<1>9. PartReal(dir', k, t, y)
  <2> HIDE DEF s, k, t, e, y
  <2>1. Sum(dir', k, t) = Sum(dir', k, t - 1) + dir'[t].real
    BY <1>1, <1>6, SumOneMore
  <2>2. Sum(dir', k, s) = Sum(dir, k, s)
    <3>1. \A x \in k + 1 .. s : dir'[x].real = dir[x].real
      BY <1>1, <1>6
    <3> QED
      BY <1>1, <1>2, <1>6, <3>1, SumSame, ZenonT(40)
  <2>3. dir'[k] = dir[k]
    BY <1>1, <1>3
  <2>4. Sum(dir, k, s) \in Int
    BY <1>2, <1>6, SumInt
  <2>5. dir[k].pak \in Int
    <3>1. dir[k] \in Entry
      BY <1>2, <1>6
    <3> QED
      BY <3>1 DEF Entry
  <2> DEFINE u == Sum(dir, k, s)
             p == dir[k].pak
             r == dir[k].real
             v == Sum(dir', k, t)
  <2>6. v = u + e /\ r = 12 + 64 * p + u + (e + y) /\ u \in Int /\ p \in Int
    BY <1>1, <1>5, <1>6, <2>1, <2>2, <2>4, <2>5 DEF PartReal
  <2>7. r = 12 + 64 * p + v + y
    <3> HIDE DEF u, p, r, v
    <3> QED
      BY <1>5, <2>6
  <2> QED
    BY <2>3, <2>7 DEF PartReal
<1>10. ASSUME i = OldEnd PROVE dir'[k].pak = t - k
  <2>1. dir'[k] = dir[k]
    BY <1>1, <1>3
  <2> DEFINE p == dir[k].pak
  <2>2. k + p = i - dedelta /\ p \in Int
    <3>1. dir[k] \in Entry
      BY <1>2, <1>6
    <3> QED
      BY <1>5, <1>10, <3>1 DEF Entry
  <2> HIDE DEF s, k, p
  <2>3. p = t - k
    BY <1>2, <1>3, <2>2
  <2> QED
    BY <2>1, <2>3 DEF p
<1>11. pakdelta' - dedelta' = pakdelta - dedelta /\ pakdelta' \in Nat /\ dedelta' \in Nat
  BY <1>1, <1>2, <1>4
<1>12. k = NewHeader
  OBVIOUS
<1> HIDE DEF s, k, t, y
<1>13. PartReal(dir', k, t, Sum(was, i, OldEnd)) /\ Stay' = t
  BY <1>1, <1>9 DEF y
<1> QED
  BY <1>1, <1>6, <1>7, <1>8, <1>10, <1>11, <1>12, <1>13, BehindMember

\* A member that goes takes its size and its record from the header
LEMMA DropMemberReal ==
  ASSUME ArchiveInv, RealWalk, DropMember
  PROVE  RealWalk'
<1> DEFINE s == Stay
           k == NewHeader
           e == was[i].real
           y == Sum(was, i, OldEnd)
<1>1. /\ pc = "walk" /\ i <= Len(dir) /\ IsMember(was[i]) /\ Passed' = i /\ Stay' = s /\ was' = was
      /\ dedelta' = dedelta + 1 /\ pakdelta' = pakdelta + 1
      /\ dir' \in Seq(Entry) /\ Len(dir') = Len(was)
      /\ (\A x \in 1 .. s : x # k => dir'[x] = dir[x])
      /\ k \in 1 .. s /\ dir'[k].pak = dir[k].pak - 1
      /\ dir'[k].real = dir[k].real - (64 + e)
  BY MemberFacts
<1>2. /\ i \in 1 .. Len(was) /\ Len(was) \in Nat /\ dedelta \in Nat /\ pakdelta \in Nat
      /\ s = i - 1 - dedelta /\ s \in 0 .. i - 1
      /\ dir \in Seq(Entry) /\ Len(dir) = Len(was)
  BY <1>1, WalkFacts DEF WalkInv
<1>3. /\ k + dir[k].pak = OldEnd - dedelta /\ OldEnd \in i .. Len(was)
      /\ PakReals(dir, k - 1) /\ WholePaks(dir, k - 1)
      /\ \A x \in k + 1 .. s : ~IsPak(dir[x])
      /\ e \in Int /\ y \in Int
      /\ PartReal(dir, k, s, e + y)
  BY <1>1, AtMember
<1>4. /\ s \in Nat /\ s <= Len(dir') /\ s <= Len(dir) /\ k \in Nat /\ k <= s /\ k - 1 \in Nat
      /\ k - 1 <= Len(dir') /\ k - 1 <= Len(dir)
  <2> HIDE DEF s, k
  <2> QED
    BY <1>1, <1>2
<1>5. PakReals(dir', k - 1)
  <2> HIDE DEF k, s
  <2>1. \A x \in 1 .. k - 1 : dir'[x] = dir[x]
    BY <1>1, <1>4
  <2> DEFINE m == k - 1
  <2>2. m \in Nat /\ m <= Len(dir) /\ m <= Len(dir') /\ WholePaks(dir, m) /\ PakReals(dir, m)
        /\ \A x \in 1 .. m : dir'[x] = dir[x]
    BY <1>3, <1>4, <2>1
  <2> HIDE DEF m
  <2>3. PakReals(dir', m)
    BY <1>1, <1>2, <2>2, PakRealsSame
  <2> QED
    BY <2>3 DEF m
<1>6. \A x \in k + 1 .. s : ~IsPak(dir'[x])
  <2> HIDE DEF s, k
  <2>1. \A x \in k + 1 .. s : x \in 1 .. s /\ x # k
    BY <1>4
  <2> QED
    BY <1>1, <1>3, <2>1
<1>7. dir[k].pak \in Int
  <2> HIDE DEF s, k
  <2>1. dir[k] \in Entry
    BY <1>2, <1>1, <1>4
  <2> QED
    BY <2>1 DEF Entry
<1>8. PartReal(dir', k, s, y)
  <2> HIDE DEF s, k, e, y
  <2>1. Sum(dir', k, s) = Sum(dir, k, s)
    <3>1. \A x \in k + 1 .. s : dir'[x].real = dir[x].real
      BY <1>1, <1>4, SMTT(40)
    <3> QED
      BY <1>1, <1>2, <1>4, <3>1, SumSame, ZenonT(40)
  <2>2. Sum(dir, k, s) \in Int
    BY <1>2, <1>4, SumInt
  <2> DEFINE u == Sum(dir, k, s)
             p == dir[k].pak
             r == dir[k].real
  <2>3. r = 12 + 64 * p + u + (e + y) /\ u \in Int /\ p \in Int
    BY <1>3, <1>7, <2>2 DEF PartReal
  <2>4. r - (64 + e) = 12 + 64 * (p - 1) + u + y
    <3> HIDE DEF u, p, r
    <3> QED
      BY <1>3, <2>3, SMTT(40)
  <2> QED
    BY <1>1, <2>1, <2>4 DEF PartReal
<1>9. ASSUME i = OldEnd PROVE dir'[k].pak = s - k
  <2> DEFINE p == dir[k].pak
  <2>1. k + p = i - dedelta /\ p \in Int
    BY <1>3, <1>7, <1>9
  <2> HIDE DEF s, k, p
  <2>2. p - 1 = s - k
    BY <1>2, <1>4, <2>1
  <2> QED
    BY <1>1, <2>2 DEF p
<1>10. pakdelta' - dedelta' = pakdelta - dedelta /\ pakdelta' \in Nat /\ dedelta' \in Nat
  BY <1>1, <1>2
<1>11. k = NewHeader
  OBVIOUS
<1> HIDE DEF s, k, y
<1>12. PartReal(dir', k, s, Sum(was, i, OldEnd)) /\ Stay' = s
  BY <1>1, <1>8 DEF y
<1> QED
  BY <1>1, <1>4, <1>5, <1>6, <1>9, <1>10, <1>11, <1>12, BehindMember

\* An entry that is no member and stays has the size that it had
LEMMA KeepOtherReal ==
  ASSUME ArchiveInv, RealWalk, KeepEntry, ~IsMember(was[i])
  PROVE  RealWalk'
<1> DEFINE n == Len(was)
           s == Stay
           t == s + 1
           w == was[i]
<1>1. /\ pc = "walk" /\ i <= Len(dir) /\ Passed' = i /\ Stay' = t /\ was' = was
      /\ dedelta' = dedelta /\ pakdelta' = (IF w.pak = 0 THEN 0 ELSE pakdelta)
      /\ dir' \in Seq(Entry) /\ Len(dir') = n
      /\ (\A x \in 1 .. s : dir'[x] = dir[x])
      /\ dir'[t].type = w.type /\ dir'[t].real = w.real /\ dir'[t].pak = Renumbered.pak
  BY KeepFactsOfWalk
<1>2. /\ i \in 1 .. n /\ n \in Nat /\ dedelta \in Nat /\ pakdelta \in Nat /\ Sound(was)
      /\ s = i - 1 - dedelta /\ s \in 0 .. i - 1 /\ Passed = i - 1 /\ PakWalkInv
      /\ dir \in Seq(Entry) /\ Len(dir) = n
  BY <1>1, WalkFacts DEF WalkInv
<1>3. dir'[t].pak = w.pak /\ (IsPak(dir'[t]) <=> IsPak(w))
  BY <1>1, RenumberedFacts DEF IsPak
<1>4. ~InPak
  <2>1. Passed + 1 = i
    BY <1>2
  <2> QED
    BY <2>1 DEF InPak
<1>5. PakReals(dir, s) /\ WholePaks(dir, s)
  BY <1>2, <1>4 DEF RealWalk, PakWalkInv
<1>6. t \in Nat /\ s \in Nat /\ s <= Len(dir) /\ s <= Len(dir') /\ t <= Len(dir') /\ t \in 1 .. t
      /\ t - 1 = s
  <2> HIDE DEF s
  <2> QED
    BY <1>1, <1>2
<1>7. PakReals(dir', s)
  <2> HIDE DEF s
  <2> QED
    BY <1>1, <1>2, <1>5, <1>6, PakRealsSame
<1>8. PakReals(was, n) /\ PakReals(was', Len(was'))
  BY <1>1 DEF RealWalk
<1>9. InPak' <=> (i < n /\ IsMember(was[i + 1]))
  BY <1>1 DEF InPak
<1>10. Sum(dir', t, t) = 0
  <2> HIDE DEF t
  <2> QED
    BY <1>1, <1>6, SumOfNone
<1>11. CASE ~IsPak(w)
  <2>1. ~InPak'
    <3>1. i < n => i + 1 \in 1 .. n
      BY <1>2
    <3>2. i < n => ~IsMember(was[i + 1])
      BY <1>2, <1>11, <3>1, SoundAll
    <3> QED
      BY <1>9, <3>2
  <2>2. ~IsPak(dir'[t])
    BY <1>3, <1>11
  <2>3. PakReals(dir', t)
    <3> HIDE DEF s, t
    <3>1. \A x \in 1 .. t : x \in 1 .. s \/ x = t
      BY <1>6
    <3> QED
      BY <1>7, <2>2, <3>1 DEF PakReals, PakReal
  <2> QED
    BY <1>1, <1>8, <2>1, <2>3 DEF RealWalk
<1>12. ASSUME IsPak(w)
       PROVE  /\ w.pak \in Nat /\ i + w.pak <= n
              /\ w.real = 12 + 64 * w.pak + Sum(was, i, i + w.pak)
  <2>1. w.pak \in Nat /\ i + w.pak <= n
    BY <1>2, <1>12, SoundPak
  <2> QED
    BY <1>2, <1>8, <1>12, <2>1 DEF PakReals, PakReal
<1>13. CASE IsPak(w) /\ w.pak = 0
  <2>1. ~InPak'
    <3>1. i < n => i + 1 \in 1 .. n /\ i + 1 = i + 0 + 1
      BY <1>2
    <3>2. i < n => ~IsMember(was[i + 0 + 1])
      BY <1>2, <1>13, <3>1, SoundAfterPak
    <3> QED
      BY <1>9, <3>1, <3>2
  <2>2. w.real = 12 + 64 * w.pak + 0
    <3>1. i + w.pak = i /\ was \in Seq(Entry) /\ i \in Nat /\ i <= n
      BY <1>2, <1>13 DEF Sound
    <3>2. Sum(was, i, i) = 0
      BY <3>1, SumOfNone
    <3> QED
      BY <1>12, <1>13, <3>1, <3>2
  <2>3. PartReal(dir', t, t, 0)
    <3> DEFINE p == dir'[t].pak
    <3>1. dir'[t].real = 12 + 64 * p + 0 /\ p = 0
      BY <1>1, <1>3, <1>13, <2>2
    <3> HIDE DEF p
    <3>2. dir'[t].real = 12 + 64 * p + 0 + 0
      BY <3>1
    <3> QED
      BY <1>10, <3>2 DEF PartReal, p
  <2>4. PakReals(dir', t)
    <3> HIDE DEF s, t, w
    <3>1. dir'[t].pak = t - t /\ \A x \in t + 1 .. t : ~IsPak(dir'[x])
      BY <1>3, <1>6, <1>13
    <3>2. PakReals(dir', t - 1)
      BY <1>6, <1>7
    <3> QED
      BY <1>1, <1>6, <2>3, <3>1, <3>2, PakComplete
  <2> QED
    BY <1>1, <1>8, <2>1, <2>4 DEF RealWalk
<1>14. CASE IsPak(w) /\ w.pak # 0
  <2>1. w.pak \in Nat \ {0} /\ i + w.pak <= n
    BY <1>12, <1>14
  <2>2. i < n /\ i + 1 \in i + 1 .. i + w.pak
    BY <1>2, <2>1
  <2>3. IsMember(was[i + 1]) /\ was[i + 1].pak = (i + 1) - i
    <3>1. \A y \in i + 1 .. i + was[i].pak : IsMember(was[y]) /\ was[y].pak = y - i
      BY <1>2, <1>14, SoundPak
    <3> QED
      BY <2>2, <3>1
  <2>4. InPak' /\ OldHeader' = i
    <3>1. OldHeader' = i + 1 - was[i + 1].pak
      BY <1>1 DEF OldHeader
    <3> QED
      BY <1>2, <1>9, <2>2, <2>3, <3>1
  <2>5. pakdelta' = 0
    <3>1. Passed < n /\ Passed + 1 = i
      BY <1>2
    <3>2. pakdelta = 0
      BY <1>2, <1>14, <3>1 DEF PakWalkInv
    <3> QED
      BY <1>1, <3>2
  <2>6. NewHeader' = t
    <3>1. NewHeader' = i - dedelta + 0
      BY <1>1, <2>4, <2>5 DEF NewHeader
    <3> QED
      BY <1>2, <3>1
  <2>7. OldEnd' = i + w.pak
    BY <1>1, <2>4 DEF OldEnd
  <2>8. PartReal(dir', t, t, Sum(was, i, i + w.pak))
    <3> DEFINE p == w.pak
               x == Sum(was, i, i + p)
    <3>1. x \in Int
      <4>1. was \in Seq(Entry) /\ i \in Nat /\ i + p \in Nat /\ i <= i + p /\ i + p <= Len(was)
        BY <1>2, <2>1 DEF Sound
      <4> HIDE DEF p
      <4> QED
        BY <4>1, SumInt
    <3>2. w.real = 12 + 64 * p + x /\ p \in Nat
      BY <1>12, <1>14
    <3>3. w.real = 12 + 64 * p + 0 + x
      <4> HIDE DEF p, x
      <4> QED
        BY <3>1, <3>2
    <3> QED
      BY <1>1, <1>3, <1>10, <3>3 DEF PartReal
  <2>9. PakReals(dir', NewHeader' - 1)
    BY <1>6, <1>7, <2>6
  <2>10. PartReal(dir', NewHeader', Stay', Sum(was', Passed', OldEnd'))
    <3> HIDE DEF t
    <3> QED
      BY <1>1, <2>6, <2>7, <2>8
  <2> QED
    BY <1>8, <2>4, <2>9, <2>10 DEF RealWalk
<1> QED
  BY <1>11, <1>13, <1>14

\* An entry that is no member and goes leaves the sizes of the others
LEMMA DropOtherReal ==
  ASSUME ArchiveInv, RealWalk, DropEntry
  PROVE  RealWalk'
<1> DEFINE n == Len(was)
           s == Stay
           z == i + Group(was[i])
<1>1. /\ pc = "walk" /\ i <= Len(dir) /\ ~IsMember(was[i]) /\ z \in Int /\ z <= n
      /\ Passed' = z /\ Stay' = s /\ was' = was
      /\ dir' \in Seq(Entry) /\ Len(dir') = n
      /\ (\A x \in 1 .. s : dir'[x] = dir[x])
  <2>1. /\ pc = "walk" /\ i <= Len(dir) /\ ~IsMember(was[i]) /\ Group(was[i]) \in Nat /\ z <= n
        /\ Passed' = z /\ Stay' = s /\ was' = was
        /\ dir' \in Seq(Entry) /\ Len(dir') = n
        /\ (\A x \in 1 .. s : dir'[x] = dir[x])
    BY DropFacts
  <2>2. i \in 1 .. n
    BY <2>1, WalkFacts
  <2>3. z \in Int
    BY <2>1, <2>2
  <2> HIDE DEF s, z, n
  <2> QED
    BY <2>1, <2>3
<1>2. /\ i \in 1 .. n /\ n \in Nat /\ Sound(was)
      /\ s \in 0 .. i - 1 /\ Passed = i - 1 /\ PakWalkInv
      /\ dir \in Seq(Entry) /\ Len(dir) = n /\ Group(was[i]) \in Nat
  BY <1>1, WalkFacts, SoundExtent DEF WalkInv
<1>3. ~InPak
  <2>1. Passed + 1 = i
    BY <1>2
  <2> QED
    BY <1>1, <2>1 DEF InPak
<1>4. PakReals(dir, s) /\ WholePaks(dir, s)
  BY <1>2, <1>3 DEF RealWalk, PakWalkInv
<1>5. PakReals(dir', s)
  <2> HIDE DEF s
  <2>1. s \in Nat /\ s <= Len(dir) /\ s <= Len(dir')
    BY <1>1, <1>2
  <2> QED
    BY <1>1, <1>2, <1>4, <2>1, PakRealsSame
<1>6. ~InPak'
  <2>1. z < n => z + 1 \in 1 .. n
    BY <1>2
  <2>2. z < n => ~IsMember(was[z + 1])
    BY <1>1, <1>2, <2>1, SoundNext
  <2> QED
    BY <1>1, <2>2 DEF InPak
<1> QED
  BY <1>1, <1>5, <1>6 DEF RealWalk

\* what is known of the sizes, at every turn
SizesInv ==
  /\ pc \in {"walk", "copy"} => RealWalk
  /\ pc = "shorten" => PakReals(dir, Len(dir))
  /\ ~Deleting => RealInv

\* Every step of a deletion keeps it
LEMMA SizesDelete ==
  ASSUME Plain, ArchiveInv, SizesInv, DelStep, hdr' = hdr, paksize' = paksize
  PROVE  SizesInv'
<1>1. ASSUME NEW names \in Requests, DeleteRequest(names) PROVE SizesInv'
  <2>1. /\ pc' \in {"walk", "remove"} /\ ~Deleting /\ hdr = 0
        /\ Sound(dir) /\ dir' = dir /\ was' = dir
        /\ i' = 1 /\ dedelta' = 0 /\ pakdelta' = 0
    BY <1>1, RequestFacts
  <2>2. Deleting' /\ (pc' # "copy") /\ (pc' # "shorten")
    BY <2>1 DEF Deleting
  <2>3. ASSUME pc' = "walk" PROVE RealWalk'
    <3>1. PakReals(dir, Len(dir))
      BY <2>1 DEF SizesInv, RealInv
    <3>2. Passed' = 0 /\ Stay' = 0 /\ Len(dir) \in Nat \ {0}
      BY <2>1, <2>2 DEF Passed, Stay, Sound
    <3>3. ~InPak'
      <4>1. 1 \in 1 .. Len(dir) /\ 0 + 1 = 1
        BY <3>2
      <4>2. ~IsMember(dir[1])
        <5>1. SUFFICES ASSUME IsMember(dir[1]) PROVE FALSE
          OBVIOUS
        <5>2. dir[1].pak \in Nat \ {0} /\ 1 - dir[1].pak \in 1 .. Len(dir)
          BY <2>1, <4>1, <5>1, SoundMember
        <5> QED
          BY <5>2
      <4> QED
        BY <2>1, <3>2, <4>1, <4>2 DEF InPak
    <3>4. PakReals(dir', 0)
      BY DEF PakReals
    <3> QED
      BY <2>1, <3>1, <3>2, <3>3, <3>4 DEF RealWalk
  <2> QED
    BY <2>2, <2>3 DEF SizesInv
<1>2. CASE RemoveArchive
  <2>1. pc' = "closed" /\ dir' = << >> /\ hdr = 0
    BY <1>2, RemoveFacts
  <2>2. PakReals(dir', Len(dir'))
    BY <2>1 DEF PakReals
  <2> QED
    BY <2>1, <2>2 DEF SizesInv, RealInv, Deleting
<1>3. ASSUME pc' \in {"walk", "copy"}, RealWalk' PROVE SizesInv'
  BY <1>3 DEF SizesInv, Deleting
<1>4. CASE DropEntry
  BY <1>3, <1>4, DropFacts, DropOtherReal DEF SizesInv
<1>5. CASE DropMember
  BY <1>3, <1>5, MemberFacts, DropMemberReal DEF SizesInv
<1>6. CASE KeepEntry
  BY <1>3, <1>6, KeepFactsOfWalk, KeepMemberReal, KeepOtherReal DEF SizesInv
<1>7. CASE CopyChunk \/ CopyFails
  <2>1. /\ pc = "copy" /\ pc' \in {"walk", "copy"} /\ Passed' = Passed /\ Stay' = Stay
        /\ UNCHANGED <<dir, was, dedelta, pakdelta>>
    BY <1>7, CopyWalk DEF CopyChunk, CopyFails, CopyGoesOn
  <2>2. InPak' = InPak /\ OldHeader' = OldHeader
    BY <2>1 DEF InPak, OldHeader
  <2>3. NewHeader' = NewHeader /\ OldEnd' = OldEnd
    BY <2>1, <2>2 DEF NewHeader, OldEnd
  <2>4. RealWalk'
    BY <2>1, <2>2, <2>3 DEF SizesInv, RealWalk
  <2> QED
    BY <1>3, <2>1, <2>4
<1>8. CASE DeleteHeader
  <2>1. /\ pc = "walk" /\ pc' = "shorten" /\ Sound(dir') /\ Len(dir') = Stay
        /\ \A x \in 1 .. Stay : dir'[x] = dir[x]
    BY <1>8, HeaderFacts
  <2>2. RealWalk /\ WalkInv /\ PakWalkInv /\ Sound(was)
    BY <2>1 DEF SizesInv, ArchiveInv, DelInv, Deleting
  <2>3. /\ dir \in Seq(Entry) /\ Passed = i - 1 /\ Passed \in 0 .. Len(was) /\ Len(dir) = Len(was)
        /\ Len(was) \in Nat /\ i > Len(dir) /\ i \in Nat /\ dedelta \in 0 .. Passed
    BY <1>8, <2>1, <2>2 DEF DeleteHeader, WalkInv, Passed, Sound
  <2>4. ~InPak
    BY <2>3 DEF InPak
  <2> DEFINE s == Stay
  <2>5. PakReals(dir, s) /\ WholePaks(dir, s)
    BY <2>2, <2>4 DEF RealWalk, PakWalkInv
  <2>6. s \in Nat /\ s <= Len(dir)
    BY <2>3 DEF Stay
  <2>7. dir' \in Seq(Entry) /\ Len(dir') = s /\ \A x \in 1 .. s : dir'[x] = dir[x]
    BY <2>1 DEF Sound
  <2> HIDE DEF s
  <2>8. PakReals(dir', s)
    BY <2>3, <2>5, <2>6, <2>7, PakRealsSame
  <2> QED
    BY <2>1, <2>7, <2>8 DEF SizesInv, Deleting
<1>9. CASE DeleteEntries
  <2>1. pc = "shorten" /\ pc' = "closed" /\ dir' = dir
    BY <1>9 DEF DeleteEntries
  <2>2. hdr = 0
    BY <2>1 DEF ArchiveInv, Deleting
  <2>3. PakReals(dir', Len(dir'))
    BY <2>1 DEF SizesInv
  <2> QED
    BY <2>1, <2>2, <2>3 DEF SizesInv, RealInv, Deleting
<1> QED
  BY <1>1, <1>2, <1>4, <1>5, <1>6, <1>7, <1>8, <1>9 DEF DelStep

\* and so does every step of a session, or none
LEMMA SizesNext ==
  ASSUME Plain, ArchiveInv, SizesInv, [ArchiveStep]_soundVars
  PROVE  SizesInv'
<1>1. CASE UNCHANGED soundVars
  <2>1. /\ Passed' = Passed /\ Deleting' = Deleting
    BY <1>1 DEF soundVars, delLocals, Passed, Deleting
  <2>2. Stay' = Stay /\ InPak' = InPak /\ OldHeader' = OldHeader
    BY <1>1, <2>1 DEF soundVars, delLocals, Stay, InPak, OldHeader
  <2>3. NewHeader' = NewHeader /\ OldEnd' = OldEnd
    BY <1>1, <2>2 DEF soundVars, delLocals, NewHeader, OldEnd
  <2>4. RealWalk => RealWalk'
    BY <1>1, <2>1, <2>2, <2>3 DEF soundVars, delLocals, RealWalk
  <2>5. RealInv => RealInv'
    BY <1>1 DEF soundVars, fileVars, RealInv
  <2>6. pc' = pc /\ dir' = dir
    BY <1>1 DEF soundVars
  <2> QED
    BY <2>1, <2>4, <2>5, <2>6 DEF SizesInv
<1>2. CASE AddStep /\ UNCHANGED delLocals
  <2>1. ~Deleting /\ AddInv /\ ShapeInv
    BY <1>2, AddsOnly DEF ArchiveInv
  <2>2. AddInv'
    BY <1>2, <2>1, TypeStep, CurStep, PlaceStep, PakStep, FileStep DEF AddInv
  <2>3. ~Deleting'
    BY <2>2 DEF AddInv, TypeInv, Deleting
  <2>4. RealInv'
    BY <1>2, <2>1, SizeSteps, SizesKeep DEF SizesInv
  <2> QED
    BY <2>3, <2>4 DEF SizesInv, Deleting
<1>3. CASE DelStep /\ UNCHANGED <<abort, fileVars>>
  BY <1>3, SizesDelete DEF fileVars
<1> QED
  BY <1>1, <1>2, <1>3 DEF ArchiveStep

\* For every archive, every pak and every plain request, and whatever fails in the sessions
\* before the directory is written: the header of a finished pak has the size that the .pak file will have when it is extracted
THEOREM ArchivePakReal ==
  ASSUME Plain, PaksFit
  PROVE  ArchiveSpec => []PakRealOK
<1>1. ArchiveInit => damaged \/ SizesInv
  <2> SUFFICES ASSUME ArchiveInit PROVE SizesInv
    OBVIOUS
  <2>1. dir = << >> /\ hdr = 0 /\ pc = "closed"
    BY DEF ArchiveInit, AddInit, IdleFile
  <2> QED
    BY <2>1 DEF SizesInv, RealInv, PakReals, Deleting
<1>2. (damaged \/ ArchiveInv) /\ (damaged \/ SizesInv) /\ [ArchiveNext]_archiveVars
        => (damaged \/ SizesInv)'
  BY SizesNext, ArchiveDamage
<1>3. ASSUME damaged \/ ArchiveInv, damaged \/ SizesInv PROVE PakRealOK
  <2> SUFFICES ASSUME ~damaged, ~Deleting PROVE PakRealOK
    BY DEF PakRealOK
  <2>1. AddInv /\ ShapeInv /\ RealInv
    BY <1>3 DEF ArchiveInv, SizesInv
  <2> DEFINE n == IF hdr = 0 THEN Len(dir) ELSE hdr - 1
  <2>2. dir \in Seq(Entry) /\ hdr \in 0 .. Len(dir) /\ WholePaks(dir, n) /\ PakReals(dir, n)
    BY <2>1 DEF AddInv, TypeInv, SessionTypes, ShapeInv, RealInv
  <2>3. Done \in Seq(Entry) /\ Len(Done) = n /\ n \in Nat /\ n <= Len(dir) /\ DOMAIN Done = 1 .. n
        /\ \A x \in 1 .. n : Done[x] = dir[x]
    BY <2>2 DEF Done
  <2> HIDE DEF n
  <2>4. n <= Len(Done)
    BY <2>3
  <2>5. PakReals(Done, n)
    BY <2>2, <2>3, <2>4, PakRealsSame
  <2> QED
    BY <2>3, <2>5 DEF PakRealOK, PakReals, PakReal, Sum
<1>4. ArchiveSpec => [](damaged \/ ArchiveInv)
  BY ArchiveInvariant
<1> QED
  BY <1>1, <1>2, <1>3, <1>4, PTL DEF ArchiveSpec
=============================================================================
