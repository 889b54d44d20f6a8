-------------------------- MODULE DzArchiveProofs --------------------------
(***************************************************************************)
(* Deleting never damages an archive either, for every archive that        *)
(* sessions can make and every plain request: no entry named twice, and no *)
(* member of a pak that another pak follows directly.  What the walk of    *)
(* dzDeleteFiles has passed is at every turn an archive in itself, and     *)
(* what is still to come fits behind it when moved down by fposdelta.      *)
(***************************************************************************)
EXTENDS DzArchive, DzAddProofs, Induction

LOCAL INSTANCE SequencesExt

\* `pak` is an unsigned short
PaksFit == \A p \in PakName : Len(Paks[p]) < 65536

\* nothing but plain requests
Plain == Unusual = {}

-----------------------------------------------------------------------------
(* The inductive invariant.                                                *)

\* every entry ends before every later one begins
Apart(es, n) ==
  /\ \A x \in 1 .. n : Header <= es[x].ptr /\ 0 <= es[x].size
  /\ \A x, y \in 1 .. n : x < y => EndOf(es[x]) <= es[y].ptr

\* no pak has more members than its header can count
Counts(es, n) == \A x \in 1 .. n : IsPak(es[x]) => es[x].pak < 65536

\* a directory as sessions leave it in a closed file
Sound(es) ==
  /\ es \in Seq(Entry) /\ es # << >>
  /\ Apart(es, Len(es)) /\ WholePaks(es, Len(es)) /\ Counts(es, Len(es))
  /\ Fits(DirectoryOffset(es), Len(es))

\* the list: entries of the old directory in ascending order, from a plain request
ListInv ==
  /\ list \in Seq(1 .. Len(was))
  /\ \A x, y \in 1 .. Len(list) : x < y => list[x] < list[y]
  /\ ~Repeats(was, list) /\ ~AnotherPakFollows(was, list)
  /\ asked = Selected(was, list)

\* how many entries the walk is past, and how many of them stay
Passed == IF pc = "copy" THEN i ELSE i - 1
Stay == Passed - dedelta

\* where the walk is: the rest of the directory is as it was, and the listed entries it
\* is past are exactly those that it has dropped, paks with all their members
WalkInv ==
  /\ Passed \in 0 .. Len(was) /\ i \in Nat
  /\ dir \in Seq(Entry) /\ Len(dir) = Len(was)
  /\ \A x \in Passed + 1 .. Len(was) : dir[x] = was[x]
  /\ dedelta \in 0 .. Passed /\ fposdelta \in Nat /\ pakdelta \in Nat
  /\ dedelta = 0 => fposdelta = 0
  /\ listnum \in 0 .. Len(list)
  /\ \A y \in 1 .. Len(list) : y <= listnum <=> list[y] <= Passed
  /\ \A y \in 1 .. listnum : IsPak(was[list[y]]) => list[y] + was[list[y]].pak <= Passed

\* the entries that stay are in order, and fposdelta is not more than the gap behind them
GapInv ==
  /\ Apart(dir, Stay)
  /\ \A x \in 1 .. Stay : dir[x].ptr + dir[x].size <= DirectoryOffset(was)
  /\ \A y \in Passed + 1 .. Len(was) :
       /\ Header <= was[y].ptr - fposdelta
       /\ \A x \in 1 .. Stay : EndOf(dir[x]) <= was[y].ptr - fposdelta

\* the next entry is a member: of the pak with this header in the old directory, which
\* in the new one is there
InPak == Passed < Len(was) /\ IsMember(was[Passed + 1])
OldHeader == Passed + 1 - was[Passed + 1].pak
NewHeader == OldHeader - dedelta + pakdelta

\* the pak around the walk: its header already counts and spans what will stay of it, and
\* pakdelta is what has been dropped from it
AroundInv ==
  /\ NewHeader \in 1 .. Stay /\ pakdelta <= Passed - OldHeader
  /\ pakdelta # 0 => \E y \in 1 .. listnum : list[y] \in OldHeader + 1 .. Passed
  /\ IsPak(dir[NewHeader]) /\ dir[NewHeader].name = was[OldHeader].name
  /\ dir[NewHeader].pak = was[OldHeader].pak - pakdelta
  /\ dir[NewHeader].ptr + dir[NewHeader].size = was[OldHeader].ptr + was[OldHeader].size - fposdelta
  /\ Members(dir, NewHeader, Stay)
  /\ EndAt(dir, NewHeader, Stay) = EndAt(was, OldHeader, Passed) - fposdelta

\* the paks that stay are whole up to the one around the walk
PakWalkInv ==
  /\ Counts(dir, Stay)
  /\ WholePaks(dir, IF InPak THEN NewHeader - 1 ELSE Stay)
  /\ InPak => AroundInv
  /\ Passed < Len(was) /\ IsPak(was[Passed + 1]) /\ was[Passed + 1].pak # 0 => pakdelta = 0

\* the stream on its way down: the part below curpos has arrived
CopyInv ==
  /\ i \in DOMAIN was /\ 1 <= Stay
  /\ HasData(was[i]) /\ fposdelta # 0
  /\ dir[Stay].ptr = was[i].ptr - fposdelta
  /\ dir[Stay].name = was[i].name /\ dir[Stay].type = was[i].type
  /\ dir[Stay].size = was[i].size /\ dir[Stay].real = was[i].real
  /\ togo \in 1 .. was[i].size /\ curpos = was[i].ptr + was[i].size - togo

\* the variables the code has, and the steps that damage no archive
soundVars == <<disk, dir, pc, abort, fileVars, delLocals>>

ArchiveStep ==
  \/ AddStep /\ UNCHANGED delLocals
  \/ DelStep /\ UNCHANGED <<abort, fileVars>>

\* what holds of the file in the middle of a deletion if it held before
Cells(d, e, p, k0, k1) ==
  \A k \in k0 .. k1 : p + k \in Positions /\ d[p + k] = DataCell(FormOf(e), e.name, k)

StreamWalkInv ==
  /\ \A x \in 1 .. IF pc = "copy" THEN Stay - 1 ELSE Stay : EntryReadable(disk, dir[x])
  /\ \A x \in Passed + 1 .. Len(was) : EntryReadable(disk, was[x])
  /\ pc = "copy" =>
       /\ was[i].real = Real[was[i].name]
       /\ was[i].size = IF was[i].type = "STORE" THEN Real[was[i].name] ELSE Comp[was[i].name]
       /\ Cells(disk, was[i], was[i].ptr - fposdelta, 0, was[i].size - togo - 1)
       /\ Cells(disk, was[i], was[i].ptr, was[i].size - togo, was[i].size - 1)

\* holds whatever goes wrong before the directory is written
DelInv ==
  /\ pc \in {"walk", "copy"} =>
       Sound(was) /\ ListInv /\ WalkInv /\ GapInv /\ PakWalkInv /\ (pc = "copy" => CopyInv)
  /\ pc = "shorten" => Sound(dir) /\ disk[0] = HeaderCell(DirectoryOffset(dir), Len(dir))

\* holds as long as only CleanFaults happen
DelCleanInv ==
  /\ pc \in {"walk", "copy"} => StreamWalkInv
  /\ pc = "shorten" => AllReadable(disk, dir)

ArchiveInv ==
  /\ SessionTypes /\ WalkTypes
  /\ Counts(dir, Len(dir)) \/ pc \in {"walk", "copy"}
  /\ ~Deleting => AddInv /\ ShapeInv /\ DelIdle
  /\ Deleting => hdr = 0 /\ DelInv

ArchiveCleanInv ==
  /\ ~Deleting => CleanInv
  /\ Deleting => abort # 3 /\ DelCleanInv

-----------------------------------------------------------------------------
(* What a sound directory is like.                                         *)

\* types of what is in it
LEMMA SoundTypes ==
  ASSUME NEW es, Sound(es), NEW x \in 1 .. Len(es)
  PROVE  /\ es[x] \in Entry /\ es[x].ptr \in Nat /\ es[x].size \in Nat /\ es[x].real \in Int
         /\ EndOf(es[x]) \in Nat /\ es[x].pak \in Int /\ es[x].ptr <= EndOf(es[x])
         /\ Header <= es[x].ptr
<1>1. es[x] \in Entry /\ Header <= es[x].ptr /\ 0 <= es[x].size
  BY DEF Sound, Apart
<1>2. es[x].ptr \in Int /\ es[x].size \in Int /\ es[x].pak \in Int /\ es[x].real \in Int
  BY <1>1 DEF Entry
<1> QED
  BY <1>1, <1>2 DEF EndOf, Header

\* a pak and what belongs to it
LEMMA SoundPak ==
  ASSUME NEW es, Sound(es), NEW h \in 1 .. Len(es), IsPak(es[h])
  PROVE  /\ es[h].pak \in Nat /\ es[h].pak < 65536 /\ h + es[h].pak <= Len(es)
         /\ es[h].size = EndAt(es, h, h + es[h].pak) - es[h].ptr
         /\ \A y \in h + 1 .. h + es[h].pak :
              IsMember(es[y]) /\ es[y].pak = y - h /\ es[y].ptr = EndAt(es, h, y - 1)
<1>1. WholePaks(es, Len(es)) /\ Counts(es, Len(es))
  BY DEF Sound
<1>2. /\ es[h].pak \in Nat /\ h + es[h].pak <= Len(es) /\ Members(es, h, h + es[h].pak)
      /\ es[h].size = EndAt(es, h, h + es[h].pak) - es[h].ptr
  BY <1>1 DEF WholePaks
<1>3. es[h].pak < 65536
  BY <1>1 DEF Counts
<1> QED
  BY <1>2, <1>3 DEF Members

\* a member and its header
LEMMA SoundMember ==
  ASSUME NEW es, Sound(es), NEW x \in 1 .. Len(es), IsMember(es[x])
  PROVE  /\ es[x].pak \in Nat \ {0}
         /\ x - es[x].pak \in 1 .. Len(es) /\ IsPak(es[x - es[x].pak])
         /\ es[x].pak <= es[x - es[x].pak].pak
         /\ es[x].pak < 65536
<1>1. WholePaks(es, Len(es)) /\ Counts(es, Len(es))
  BY DEF Sound
<1> DEFINE h == x - es[x].pak
<1>2. es[x].pak \in Nat \ {0} /\ 1 <= h /\ IsPak(es[h]) /\ es[x].pak <= es[h].pak
  BY <1>1 DEF WholePaks
<1>3. h \in 1 .. Len(es)
  BY <1>2
<1>4. es[h].pak < 65536 /\ es[h].pak \in Int
  BY <1>1, <1>2, <1>3, SoundTypes DEF Counts
<1> QED
  BY <1>2, <1>3, <1>4

\* how many entries go with an entry
Group(e) == IF IsPak(e) THEN e.pak ELSE 0

\* an entry's extent, which for a pak is that of its members, ends before the next entry
\* that does not belong to it, and before the directory
LEMMA SoundExtent ==
  ASSUME NEW es, Sound(es), NEW x \in 1 .. Len(es)
  PROVE  /\ Group(es[x]) \in Nat /\ x + Group(es[x]) <= Len(es)
         /\ \A y \in 1 .. Len(es) : x + Group(es[x]) < y => es[x].ptr + es[x].size <= es[y].ptr
         /\ es[x].ptr + es[x].size <= DirectoryOffset(es)
<1> DEFINE n == Len(es)
           e == es[x]
           z == x + Group(e)
<1>1. es \in Seq(Entry) /\ n \in Nat
  BY DEF Sound
<1>2. Group(e) \in Nat /\ z <= n
  BY <1>1, SoundPak DEF Group
<1>3. z \in 1 .. n /\ x <= z
  BY <1>1, <1>2
<1>4. /\ e.ptr \in Nat /\ e.size \in Nat /\ EndOf(es[z]) \in Nat /\ EndOf(e) \in Nat
      /\ e.ptr + e.size \in Nat
  BY <1>1, <1>3, SoundTypes
<1>5. e.ptr + e.size = IF z = x THEN e.ptr + e.size ELSE EndOf(es[z])
  <2>1. CASE IsPak(e)
    <3>1. e.size = EndAt(es, x, z) - e.ptr
      BY <2>1, SoundPak DEF Group
    <3> QED
      BY <1>4, <3>1 DEF EndAt
  <2>2. CASE ~IsPak(e)
    BY <2>2 DEF Group
  <2> QED
    BY <2>1, <2>2
<1>6. z = x => e.ptr + e.size = EndOf(e)
  <2>1. CASE IsPak(e)
    <3>1. e.size = EndAt(es, x, z) - e.ptr
      BY <2>1, SoundPak DEF Group
    <3>2. ASSUME z = x PROVE e.size = 0
      BY <1>4, <3>1, <3>2 DEF EndAt
    <3> QED
      BY <1>4, <2>1, <3>2 DEF EndOf, IsPak
  <2>2. CASE ~IsPak(e)
    BY <2>2 DEF EndOf, IsPak
  <2> QED
    BY <2>1, <2>2
<1>7. e.ptr + e.size = EndOf(es[z])
  BY <1>5, <1>6
<1>8. \A y \in 1 .. n : z < y => EndOf(es[z]) <= es[y].ptr
  BY <1>3 DEF Sound, Apart
<1>9. EndOf(es[z]) <= DirectoryOffset(es)
  <2>1. n \in 1 .. n /\ DirectoryOffset(es) = es[n].ptr + es[n].size
    BY <1>1 DEF Sound, DirectoryOffset
  <2>2. es[n].ptr \in Nat /\ es[n].size \in Nat
    BY <2>1, SoundTypes
  <2>3. CASE z = n
    BY <2>1, <2>2, <2>3 DEF EndOf
  <2>4. CASE z # n
    <3>1. EndOf(es[z]) <= es[n].ptr
      BY <1>3, <1>8, <2>1, <2>4
    <3> QED
      BY <1>4, <2>1, <2>2, <3>1
  <2> QED
    BY <2>3, <2>4
<1> QED
  BY <1>2, <1>7, <1>8, <1>9

-----------------------------------------------------------------------------
(* The request and its list.                                               *)

\* q lists 1 .. m so that s ascends
Ascends(s, m, q) ==
  /\ q \in [1 .. m -> 1 .. m]
  /\ \A x, y \in 1 .. m : q[x] = q[y] => x = y
  /\ \A z \in 1 .. m : \E x \in 1 .. m : q[x] = z
  /\ \A x, y \in 1 .. m : x < y => s[q[x]] <= s[q[y]]

\* an order of the first m - 1 extends to one of the first m: s[m] goes before the first
\* that is larger
LEMMA SortOneMore ==
  ASSUME NEW n \in Nat, NEW s \in [1 .. n -> Nat], NEW m \in 1 .. n,
         \E p : Ascends(s, m - 1, p)
  PROVE  \E q : Ascends(s, m, q)
<1> PICK p : Ascends(s, m - 1, p)
  OBVIOUS
<1>1. /\ p \in [1 .. m - 1 -> 1 .. m - 1]
      /\ \A x, y \in 1 .. m - 1 : p[x] = p[y] => x = y
      /\ \A z \in 1 .. m - 1 : \E x \in 1 .. m - 1 : p[x] = z
      /\ \A x, y \in 1 .. m - 1 : x < y => s[p[x]] <= s[p[y]]
  BY DEF Ascends
<1> DEFINE r == [x \in 1 .. m - 1 |-> s[p[x]]]
<1>2. /\ \A x \in 1 .. m - 1 : p[x] \in 1 .. m - 1 /\ r[x] = s[p[x]] /\ r[x] \in Nat
      /\ s[m] \in Nat
  <2>1. \A x \in 1 .. m - 1 : p[x] \in 1 .. m - 1
    BY <1>1
  <2>2. \A z \in 1 .. m - 1 : z \in 1 .. n
    OBVIOUS
  <2> QED
    BY <2>1, <2>2
<1>r. \A x, y \in 1 .. m - 1 : x < y => r[x] <= r[y]
  BY <1>1, <1>2
<1> HIDE DEF r
<1> DEFINE K == {k \in 1 .. m : k < m => s[m] < r[k]}
<1>3. K \in SUBSET Nat /\ m \in K
  OBVIOUS
<1>4. PICK k \in K : \A z \in K : k <= z
  BY <1>3, LeastElement
<1>5. k \in 1 .. m /\ (k < m => s[m] < r[k])
  OBVIOUS
<1>6. \A x \in 1 .. m - 1 : x < k => r[x] <= s[m]
  <2> SUFFICES ASSUME NEW x \in 1 .. m - 1, x < k PROVE r[x] <= s[m]
    OBVIOUS
  <2>1. x \notin K
    BY <1>4, <1>5
  <2> QED
    BY <1>2, <2>1
<1>7. \A x \in 1 .. m - 1 : k <= x => s[m] <= r[x]
  <2> SUFFICES ASSUME NEW x \in 1 .. m - 1, k <= x PROVE s[m] <= r[x]
    OBVIOUS
  <2>1. k \in 1 .. m - 1 /\ s[m] < r[k]
    BY <1>5
  <2>2. r[k] <= r[x]
    BY <1>2, <1>r, <2>1
  <2> QED
    BY <1>2, <2>1, <2>2
<1> HIDE DEF K
<1> DEFINE q == [x \in 1 .. m |-> IF x < k THEN p[x] ELSE IF x = k THEN m ELSE p[x - 1]]
<1>8. /\ \A x \in 1 .. m : x < k => x \in 1 .. m - 1 /\ q[x] = p[x]
      /\ q[k] = m
      /\ \A x \in 1 .. m : k < x => x - 1 \in 1 .. m - 1 /\ k <= x - 1 /\ q[x] = p[x - 1]
  BY <1>5
<1>9. q \in [1 .. m -> 1 .. m]
  <2> SUFFICES ASSUME NEW x \in 1 .. m
               PROVE  (IF x < k THEN p[x] ELSE IF x = k THEN m ELSE p[x - 1]) \in 1 .. m
    OBVIOUS
  <2>1. x < k => x \in 1 .. m - 1
    BY <1>5
  <2>2. k < x => x - 1 \in 1 .. m - 1
    BY <1>5
  <2> QED
    BY <1>2, <1>5, <2>1, <2>2
<1> HIDE DEF q
<1>10. \A x, y \in 1 .. m : q[x] = q[y] => x = y
  <2> SUFFICES ASSUME NEW x \in 1 .. m, NEW y \in 1 .. m, x < y PROVE q[x] # q[y]
    OBVIOUS
  <2>1. CASE y < k
    BY <1>1, <1>5, <1>8, <2>1
  <2>2. CASE y = k
    BY <1>2, <1>5, <1>8, <2>2
  <2>3. CASE k < y /\ x = k
    BY <1>2, <1>5, <1>8, <2>3
  <2>4. CASE k < y /\ k < x
    <3>1. q[x] = p[x - 1] /\ q[y] = p[y - 1] /\ x - 1 # y - 1
      BY <1>8, <2>4
    <3> QED
      BY <1>1, <1>8, <2>4, <3>1
  <2>5. CASE k < y /\ x < k
    <3>1. q[x] = p[x] /\ q[y] = p[y - 1] /\ x \in 1 .. m - 1 /\ y - 1 \in 1 .. m - 1 /\ k <= y - 1
      BY <1>8, <2>5
    <3>2. x # y - 1
      BY <1>5, <2>5, <3>1
    <3> QED
      BY <1>1, <3>1, <3>2
  <2> QED
    BY <1>5, <2>1, <2>2, <2>3, <2>4, <2>5
<1>11. \A z \in 1 .. m : \E x \in 1 .. m : q[x] = z
  <2> SUFFICES ASSUME NEW z \in 1 .. m PROVE \E x \in 1 .. m : q[x] = z
    OBVIOUS
  <2>1. CASE z = m
    BY <1>5, <1>8, <2>1
  <2>2. CASE z # m
    <3>1. PICK x \in 1 .. m - 1 : p[x] = z
      BY <1>1, <2>2
    <3>2. CASE x < k
      BY <1>8, <3>1, <3>2
    <3>3. CASE k <= x
      <4>1. x + 1 \in 1 .. m /\ k < x + 1 /\ (x + 1) - 1 = x
        BY <1>5, <3>3
      <4> QED
        BY <1>8, <3>1, <4>1
    <3> QED
      BY <1>5, <3>2, <3>3
  <2> QED
    BY <2>1, <2>2
<1>12. \A x, y \in 1 .. m : x < y => s[q[x]] <= s[q[y]]
  <2> SUFFICES ASSUME NEW x \in 1 .. m, NEW y \in 1 .. m, x < y PROVE s[q[x]] <= s[q[y]]
    OBVIOUS
  <2>6. ASSUME NEW z \in 1 .. m, z < k PROVE z \in 1 .. m - 1 /\ s[q[z]] = r[z]
    <3>1. z \in 1 .. m - 1 /\ q[z] = p[z]
      BY <1>8, <2>6
    <3> QED
      BY <1>2, <3>1
  <2>7. ASSUME NEW z \in 1 .. m, k < z
        PROVE  z - 1 \in 1 .. m - 1 /\ k <= z - 1 /\ s[q[z]] = r[z - 1]
    <3>1. z - 1 \in 1 .. m - 1 /\ k <= z - 1 /\ q[z] = p[z - 1]
      BY <1>8, <2>7
    <3> QED
      BY <1>2, <3>1
  <2>0. /\ \A z \in 1 .. m : z < k => z \in 1 .. m - 1 /\ s[q[z]] = r[z]
        /\ s[q[k]] = s[m]
        /\ \A z \in 1 .. m : k < z => z - 1 \in 1 .. m - 1 /\ k <= z - 1 /\ s[q[z]] = r[z - 1]
    BY <1>8, <2>6, <2>7
  <2>1. CASE y < k
    <3>1. x \in 1 .. m - 1 /\ y \in 1 .. m - 1 /\ s[q[x]] = r[x] /\ s[q[y]] = r[y]
      BY <1>5, <2>0, <2>1
    <3> QED
      BY <1>r, <3>1
  <2>2. CASE y = k
    BY <1>6, <2>0, <2>2
  <2>3. CASE k < y /\ x = k
    BY <1>7, <2>0, <2>3
  <2>4. CASE k < y /\ k < x
    <3>1. /\ x - 1 \in 1 .. m - 1 /\ y - 1 \in 1 .. m - 1 /\ x - 1 < y - 1
          /\ s[q[x]] = r[x - 1] /\ s[q[y]] = r[y - 1]
      BY <2>0, <2>4
    <3> QED
      BY <1>r, <3>1
  <2>5. CASE k < y /\ x < k
    <3>1. /\ x \in 1 .. m - 1 /\ y - 1 \in 1 .. m - 1 /\ x < y - 1
          /\ s[q[x]] = r[x] /\ s[q[y]] = r[y - 1]
      BY <1>5, <2>0, <2>5
    <3> QED
      BY <1>r, <3>1
  <2> QED
    BY <1>5, <2>1, <2>2, <2>3, <2>4, <2>5
<1>13. Ascends(s, m, q)
  BY <1>9, <1>10, <1>11, <1>12 DEF Ascends
<1> QED
  BY <1>13

\* every sequence of numbers can be sorted
LEMMA SortExists ==
  ASSUME NEW n \in Nat, NEW s \in [1 .. n -> Nat]
  PROVE  \E p : Ascends(s, n, p)
<1> DEFINE S == {m \in 0 .. n : \E p : Ascends(s, m, p)}
<1>1. 0 \in S
  <2>1. Ascends(s, 0, << >>)
    BY DEF Ascends
  <2> QED
    BY <2>1
<1>2. \A m \in 1 .. n : m - 1 \in S => m \in S
  <2> SUFFICES ASSUME NEW m \in 1 .. n, m - 1 \in S PROVE m \in S
    OBVIOUS
  <2>1. \E p : Ascends(s, m - 1, p)
    OBVIOUS
  <2>2. \E p : Ascends(s, m, p)
    BY <2>1, SortOneMore
  <2> QED
    BY <2>2
<1> HIDE DEF S
<1>3. n \in S
  <2>1. 0 .. n \subseteq S
    BY <1>1, <1>2, BoundedInduction
  <2> QED
    BY <2>1
<1> QED
  BY <1>3 DEF S

\* What qsort makes of the list: the same numbers, in order
LEMMA SortedFacts ==
  ASSUME NEW s \in Seq(Nat)
  PROVE  \E p : /\ Ascends(s, Len(s), p)
                /\ Sorted(s) = [x \in 1 .. Len(s) |-> s[p[x]]]
<1> DEFINE D == DOMAIN s
           Good(p) == p \in Bijection(D, D) /\ \A x, y \in D : x < y => s[p[x]] <= s[p[y]]
           q == CHOOSE p \in Bijection(D, D) : \A x, y \in D : x < y => s[p[x]] <= s[p[y]]
<1>1. D = 1 .. Len(s) /\ Len(s) \in Nat /\ s \in [1 .. Len(s) -> Nat]
  OBVIOUS
<1> HIDE DEF D
<1>2. \A p : p \in Bijection(D, D) <=>
               /\ p \in [D -> D] /\ \A x, y \in D : p[x] = p[y] => x = y
               /\ \A z \in D : \E x \in D : p[x] = z
  BY DEF Bijection, Injection, Surjection, IsInjective
<1>3. PICK p : Ascends(s, Len(s), p)
  BY <1>1, SortExists
<1>4. Good(p)
  BY <1>1, <1>2, <1>3 DEF Ascends
<1>5. Good(q)
  BY <1>4
<1>6. Sorted(s) = [x \in D |-> s[q[x]]]
  BY DEF Sorted, D
<1> HIDE DEF q
<1>7. Ascends(s, Len(s), q)
  BY <1>1, <1>2, <1>5 DEF Ascends
<1> QED
  BY <1>1, <1>6, <1>7

-----------------------------------------------------------------------------
(* How paks follow each other.                                             *)

\* behind an entry that is no member, and what belongs to it, no member comes
LEMMA SoundNext ==
  ASSUME NEW es, Sound(es), NEW x \in 1 .. Len(es), ~IsMember(es[x]),
         x + Group(es[x]) + 1 \in 1 .. Len(es)
  PROVE  ~IsMember(es[x + Group(es[x]) + 1])
<1> DEFINE g == Group(es[x])
           y == x + g + 1
           h == y - es[y].pak
<1>1. g \in Nat /\ Len(es) \in Nat
  BY SoundExtent DEF Sound
<1>g. IsPak(es[x]) => g = es[x].pak
  BY DEF Group
<1>p. ~IsPak(es[x]) => g = 0
  BY DEF Group
<1> HIDE DEF g
<1>2. SUFFICES ASSUME IsMember(es[y]) PROVE FALSE
  BY DEF g
<1>3. y \in 1 .. Len(es)
  BY DEF g
<1>4. /\ es[y].pak \in Nat \ {0} /\ h \in 1 .. Len(es) /\ IsPak(es[h])
      /\ es[y].pak <= es[h].pak
  BY <1>2, <1>3, SoundMember
<1>5. /\ es[h].pak \in Nat
      /\ \A z \in h + 1 .. h + es[h].pak : IsMember(es[z])
  BY <1>4, SoundPak
<1>6. y <= h + es[h].pak /\ h < y
  <2> DEFINE a == es[y].pak
             b == es[h].pak
  <2>1. a \in Nat \ {0} /\ b \in Nat /\ a <= b /\ h = y - a /\ y \in Int
    BY <1>3, <1>4, <1>5
  <2> HIDE DEF a, b, h, y
  <2>2. y <= h + b /\ h < y
    BY <2>1
  <2> QED
    BY <2>2 DEF b
<1>7. CASE h < x
  <2>1. x \in h + 1 .. h + es[h].pak
    BY <1>1, <1>4, <1>5, <1>6, <1>7
  <2> QED
    BY <1>5, <2>1
<1>8. CASE h = x
  BY <1>1, <1>4, <1>5, <1>6, <1>8, <1>g
<1>9. CASE x < h
  <2>1. IsPak(es[x]) /\ h \in x + 1 .. x + es[x].pak
    BY <1>1, <1>4, <1>6, <1>9, <1>g, <1>p
  <2>2. IsMember(es[h])
    BY <2>1, SoundPak, SMTT(30)
  <2> QED
    BY <1>4, <2>2 DEF IsMember, IsPak
<1> QED
  BY <1>4, <1>7, <1>8, <1>9

\* the next entry of a pak that has more members belongs to the same pak
LEMMA SoundSamePak ==
  ASSUME NEW es, Sound(es), NEW h \in 1 .. Len(es), IsPak(es[h]),
         NEW x \in h .. h + es[h].pak, x + 1 \in 1 .. Len(es)
  PROVE  /\ x < h + es[h].pak => IsMember(es[x + 1]) /\ es[x + 1].pak = x + 1 - h
         /\ x = h + es[h].pak => ~IsMember(es[x + 1])
<1>1. es[h].pak \in Nat
  BY SoundPak
<1>2. ASSUME x < h + es[h].pak PROVE IsMember(es[x + 1]) /\ es[x + 1].pak = x + 1 - h
  <2>1. x + 1 \in h + 1 .. h + es[h].pak
    BY <1>1, <1>2
  <2> QED
    BY <2>1, SoundPak
<1>3. ASSUME x = h + es[h].pak PROVE ~IsMember(es[x + 1])
  <2>1. ~IsMember(es[h]) /\ Group(es[h]) = es[h].pak
    BY DEF IsMember, IsPak, Group
  <2> QED
    BY <1>3, <2>1, SoundNext
<1> QED
  BY <1>2, <1>3

\* after the last member of a pak, or after a pak without any, comes no member
LEMMA SoundAfterPak ==
  ASSUME NEW es, Sound(es), NEW x \in 1 .. Len(es), IsPak(es[x]),
         x + es[x].pak + 1 \in 1 .. Len(es)
  PROVE  ~IsMember(es[x + es[x].pak + 1])
<1>1. Group(es[x]) = es[x].pak /\ ~IsMember(es[x])
  BY DEF Group, IsPak, IsMember
<1> QED
  BY <1>1, SoundNext

\* all of this of the n entries of a sound directory
LEMMA SoundAll ==
  ASSUME NEW es, Sound(es), NEW n, n = Len(es)
  PROVE  /\ n \in Nat \ {0}
         /\ \A x \in 1 .. n :
              /\ es[x].ptr \in Nat /\ es[x].size \in Nat /\ es[x].pak \in Int
              /\ EndOf(es[x]) \in Nat /\ Header <= es[x].ptr
         /\ \A x \in 1 .. n : IsPak(es[x]) =>
              /\ es[x].pak \in Nat /\ es[x].pak < 65536 /\ x + es[x].pak <= n
              /\ es[x].size = EndAt(es, x, x + es[x].pak) - es[x].ptr
         /\ \A x \in 1 .. n : IsPak(es[x]) => \A y \in x + 1 .. x + es[x].pak :
              IsMember(es[y]) /\ es[y].pak = y - x /\ es[y].ptr = EndAt(es, x, y - 1)
         /\ \A x \in 1 .. n : ~IsPak(es[x]) /\ ~IsMember(es[x]) /\ x + 1 \in 1 .. n =>
              ~IsMember(es[x + 1])
         /\ \A x \in 1 .. n : IsPak(es[x]) /\ x + es[x].pak + 1 \in 1 .. n =>
              ~IsMember(es[x + es[x].pak + 1])
         /\ \A x, y \in 1 .. n : x < y => EndOf(es[x]) <= es[y].ptr
<1>1. n \in Nat \ {0}
  BY DEF Sound
<1>2. \A x \in 1 .. n :
        /\ es[x].ptr \in Nat /\ es[x].size \in Nat /\ es[x].pak \in Int
        /\ EndOf(es[x]) \in Nat /\ Header <= es[x].ptr
  BY SoundTypes
<1>3. \A x \in 1 .. n : IsPak(es[x]) =>
        /\ es[x].pak \in Nat /\ es[x].pak < 65536 /\ x + es[x].pak <= n
        /\ es[x].size = EndAt(es, x, x + es[x].pak) - es[x].ptr
  BY SoundPak
<1>4. \A x \in 1 .. n : IsPak(es[x]) => \A y \in x + 1 .. x + es[x].pak :
        IsMember(es[y]) /\ es[y].pak = y - x /\ es[y].ptr = EndAt(es, x, y - 1)
  BY SoundPak, SMTT(30)
<1>5. ASSUME NEW x \in 1 .. n, ~IsPak(es[x]), ~IsMember(es[x]), x + 1 \in 1 .. n
      PROVE  ~IsMember(es[x + 1])
  <2>1. Group(es[x]) = 0 /\ x + 0 + 1 = x + 1
    BY <1>1, <1>5 DEF Group
  <2> QED
    BY <1>5, <2>1, SoundNext
<1>6. ASSUME NEW x \in 1 .. n, IsPak(es[x]), x + es[x].pak + 1 \in 1 .. n
      PROVE  ~IsMember(es[x + es[x].pak + 1])
  BY <1>6, SoundAfterPak
<1>7. \A x, y \in 1 .. n : x < y => EndOf(es[x]) <= es[y].ptr
  BY DEF Sound, Apart
<1> QED
  BY <1>1, <1>2, <1>3, <1>4, <1>5, <1>6, <1>7

\* a plain entry joins the whole paks before it
LEMMA PlainJoins ==
  ASSUME NEW es, NEW n \in Nat, WholePaks(es, n), ~IsPak(es[n + 1]), es[n + 1].pak = 0
  PROVE  WholePaks(es, n + 1)
<1> SUFFICES ASSUME NEW x \in 1 .. n + 1
             PROVE  /\ IsPak(es[x]) =>
                         /\ es[x].pak \in Nat /\ x + es[x].pak <= n + 1
                         /\ Members(es, x, x + es[x].pak)
                         /\ es[x].size = EndAt(es, x, x + es[x].pak) - es[x].ptr
                    /\ IsMember(es[x]) =>
                         /\ es[x].pak \in Nat \ {0} /\ 1 <= x - es[x].pak
                         /\ IsPak(es[x - es[x].pak])
                         /\ es[x].pak <= es[x - es[x].pak].pak
  BY DEF WholePaks
<1>1. CASE x = n + 1
  BY <1>1 DEF IsMember
<1>2. CASE x \in 1 .. n
  <2>1. IsPak(es[x]) => es[x].pak \in Nat /\ x + es[x].pak <= n
    BY <1>2 DEF WholePaks
  <2> QED
    BY <1>2, <2>1 DEF WholePaks
<1> QED
  BY <1>1, <1>2

-----------------------------------------------------------------------------
(* What the walk finds.                                                    *)

\* where it is
LEMMA WalkFacts ==
  ASSUME ArchiveInv, pc = "walk", i <= Len(dir)
  PROVE  /\ Sound(was) /\ ListInv /\ WalkInv /\ GapInv /\ PakWalkInv
         /\ Len(dir) = Len(was) /\ Len(was) \in Nat /\ i \in 1 .. Len(was) /\ Passed = i - 1
         /\ dir[i] = was[i] /\ was[i] \in Entry /\ dedelta \in 0 .. i - 1
         /\ fposdelta \in Nat /\ pakdelta \in Nat
         /\ Stay = i - 1 - dedelta /\ Stay \in 0 .. i - 1
         /\ hdr = 0 /\ Deleting
<1>1. pc \in {"walk", "copy"} /\ Deleting
  BY DEF Deleting
<1>2. Sound(was) /\ ListInv /\ WalkInv /\ GapInv /\ PakWalkInv /\ hdr = 0
  BY <1>1 DEF ArchiveInv, DelInv
<1>3. Passed = i - 1 /\ Len(was) \in Nat
  BY <1>2 DEF Passed, Sound
<1>4. i \in 1 .. Len(was) /\ Len(dir) = Len(was) /\ dedelta \in 0 .. i - 1
      /\ fposdelta \in Nat /\ pakdelta \in Nat
  BY <1>2, <1>3 DEF WalkInv
<1>5. i \in Passed + 1 .. Len(was)
  BY <1>3, <1>4
<1>6. dir[i] = was[i] /\ was[i] \in Entry
  BY <1>2, <1>4, <1>5, SoundTypes DEF WalkInv
<1> QED
  BY <1>1, <1>2, <1>3, <1>4, <1>6 DEF Stay

\* the member it is at
LEMMA InPakFacts ==
  ASSUME ArchiveInv, pc = "walk", i <= Len(dir), IsMember(was[i])
  PROVE  /\ InPak /\ AroundInv /\ OldHeader = i - was[i].pak
         /\ OldHeader \in 1 .. i - 1 /\ IsPak(was[OldHeader])
         /\ was[i].pak \in Nat \ {0} /\ was[i].pak < 65536
         /\ was[OldHeader].pak \in Nat /\ i <= OldHeader + was[OldHeader].pak
         /\ OldHeader + was[OldHeader].pak <= Len(was)
         /\ NewHeader = i - was[i].pak - dedelta + pakdelta /\ NewHeader \in 1 .. Stay
         /\ pakdelta < was[i].pak
         /\ was[i].ptr = EndAt(was, OldHeader, Passed)
<1>1. /\ Sound(was) /\ PakWalkInv /\ i \in 1 .. Len(was) /\ Passed = i - 1
      /\ dedelta \in Nat /\ pakdelta \in Nat /\ Len(was) \in Nat
  BY WalkFacts
<1>2. Passed + 1 = i
  BY <1>1
<1>3. InPak /\ OldHeader = i - was[i].pak
  <2>1. Passed < Len(was)
    BY <1>1
  <2>2. was[Passed + 1] = was[i]
    BY <1>2
  <2>3. InPak
    BY <2>1, <2>2 DEF InPak
  <2>4. OldHeader = i - was[Passed + 1].pak
    <3>1. was[i].pak \in Int
      BY <1>1, SoundTypes
    <3> QED
      BY <1>1, <2>2, <3>1 DEF OldHeader
  <2> QED
    BY <2>2, <2>3, <2>4
<1>4. AroundInv
  BY <1>1, <1>3 DEF PakWalkInv
<1>5. /\ was[i].pak \in Nat \ {0} /\ OldHeader \in 1 .. Len(was) /\ IsPak(was[OldHeader])
      /\ was[i].pak <= was[OldHeader].pak /\ was[i].pak < 65536
  BY <1>1, <1>3, SoundMember
<1>6. /\ was[OldHeader].pak \in Nat /\ OldHeader + was[OldHeader].pak <= Len(was)
      /\ \A y \in OldHeader + 1 .. OldHeader + was[OldHeader].pak :
           was[y].ptr = EndAt(was, OldHeader, y - 1)
  BY <1>1, <1>5, SoundPak, SMTT(30)
<1>7. i \in OldHeader + 1 .. OldHeader + was[OldHeader].pak
  BY <1>1, <1>3, <1>5, <1>6
<1>8. NewHeader \in 1 .. Stay /\ pakdelta <= Passed - OldHeader
  BY <1>4 DEF AroundInv
<1>9. NewHeader = i - was[i].pak - dedelta + pakdelta
  BY <1>3 DEF NewHeader
<1>10. OldHeader \in 1 .. i - 1 /\ pakdelta < was[i].pak
  BY <1>1, <1>3, <1>5, <1>8
<1>11. was[i].ptr = EndAt(was, OldHeader, Passed)
  BY <1>1, <1>6, <1>7
<1> QED
  BY <1>3, <1>4, <1>5, <1>6, <1>7, <1>8, <1>9, <1>10, <1>11

\* the entry it is at, renumbered
LEMMA RenumberedFacts ==
  ASSUME ArchiveInv, pc = "walk", i <= Len(dir)
  PROVE  /\ Renumbered \in Entry
         /\ Renumbered.name = was[i].name /\ Renumbered.type = was[i].type
         /\ Renumbered.ptr = was[i].ptr /\ Renumbered.size = was[i].size
         /\ Renumbered.real = was[i].real
         /\ ~IsMember(was[i]) => Renumbered.pak = was[i].pak
         /\ IsMember(was[i]) => Renumbered.pak = was[i].pak - pakdelta /\ Renumbered.pak # 0
<1> DEFINE e == was[i]
           k == IF e.pak = 0 THEN 0 ELSE (e.pak - pakdelta) % 65536
<1>1. /\ Sound(was) /\ PakWalkInv /\ i \in 1 .. Len(was) /\ Passed = i - 1
      /\ dir[i] = e /\ e \in Entry /\ pakdelta \in Nat
  BY WalkFacts
<1>2. e.pak \in Int
  BY <1>1 DEF Entry
<1>3. Renumbered = [e EXCEPT !.pak = k]
  BY <1>1 DEF Renumbered
<1>4. k \in Int
  BY <1>1, <1>2
<1>5. ~IsMember(e) => k = e.pak
  <2>1. CASE e.pak = 0
    BY <2>1
  <2>2. CASE e.pak # 0 /\ IsPak(e)
    <3>1. Passed < Len(was) /\ Passed + 1 = i
      BY <1>1
    <3>2. pakdelta = 0
      BY <1>1, <2>2, <3>1 DEF PakWalkInv
    <3>3. e.pak \in Nat /\ e.pak < 65536
      BY <1>1, <2>2, SoundPak
    <3> QED
      BY <3>2, <3>3
  <2> QED
    BY <2>1, <2>2 DEF IsPak, IsMember
<1>6. ASSUME IsMember(e) PROVE k = e.pak - pakdelta /\ k # 0
  <2>1. e.pak \in Nat \ {0} /\ e.pak < 65536 /\ pakdelta < e.pak
    BY <1>6, InPakFacts
  <2> QED
    BY <1>1, <2>1, SMTT(30)
<1> HIDE DEF k, e
<1>7. LET f == [e EXCEPT !.pak = k] IN
        /\ f \in Entry /\ f.name = e.name /\ f.type = e.type /\ f.ptr = e.ptr
        /\ f.size = e.size /\ f.real = e.real /\ f.pak = k
  BY <1>1, <1>4 DEF Entry
<1> QED
  BY <1>3, <1>5, <1>6, <1>7 DEF e

\* whether it is on the list
LEMMA ListedFacts ==
  ASSUME ArchiveInv, pc = "walk", i <= Len(dir)
  PROVE  /\ list \in Seq(1 .. Len(was)) /\ Len(list) \in Nat /\ listnum \in 0 .. Len(list)
         /\ \A y \in 1 .. Len(list) : list[y] \in 1 .. Len(was) /\ (y <= listnum <=> list[y] <= i - 1)
         /\ \A y \in 1 .. listnum : IsPak(was[list[y]]) => list[y] + was[list[y]].pak <= i - 1
         /\ Listed => listnum + 1 \in 1 .. Len(list) /\ list[listnum + 1] = i
         /\ ~Listed => \A y \in 1 .. Len(list) : list[y] # i
<1>1. ListInv /\ WalkInv /\ i \in 1 .. Len(was) /\ Passed = i - 1 /\ Len(was) \in Nat
  BY WalkFacts
<1>2. /\ list \in Seq(1 .. Len(was)) /\ Len(list) \in Nat /\ listnum \in 0 .. Len(list)
      /\ \A x, y \in 1 .. Len(list) : x < y => list[x] < list[y]
  BY <1>1 DEF ListInv, WalkInv
<1>3. /\ \A y \in 1 .. Len(list) : y <= listnum <=> list[y] <= i - 1
      /\ \A y \in 1 .. listnum : IsPak(was[list[y]]) => list[y] + was[list[y]].pak <= i - 1
  BY <1>1 DEF WalkInv
<1>4. \A y \in 1 .. Len(list) : list[y] \in 1 .. Len(was)
  BY <1>2
<1>5. Listed => listnum + 1 \in 1 .. Len(list) /\ list[listnum + 1] = i
  BY <1>2 DEF Listed
<1>6. ASSUME ~Listed, NEW y \in 1 .. Len(list), list[y] = i PROVE FALSE
  <2>1. listnum < y
    BY <1>1, <1>2, <1>3, <1>6
  <2>2. listnum + 1 \in 1 .. Len(list) /\ listnum < Len(list)
    BY <1>2, <2>1
  <2>3. list[listnum + 1] # i /\ list[listnum + 1] \in 1 .. Len(was)
    BY <1>4, <1>6, <2>2 DEF Listed
  <2>4. ~(list[listnum + 1] <= i - 1)
    BY <1>2, <1>3, <2>2
  <2>5. listnum + 1 = y \/ list[listnum + 1] < i
    BY <1>2, <1>6, <2>1, <2>2
  <2> QED
    BY <1>1, <1>6, <2>3, <2>4, <2>5
<1> QED
  BY <1>2, <1>3, <1>4, <1>5, <1>6

-----------------------------------------------------------------------------
(* An entry that stays.                                                    *)

\* what a turn that keeps an entry does: it becomes the last of the new directory
LEMMA KeepFactsOfWalk ==
  ASSUME ArchiveInv, KeepEntry
  PROVE  /\ pc = "walk" /\ i <= Len(dir) /\ ~Listed /\ pc' \in {"walk", "copy"} /\ i' \in Nat
         /\ Passed' = i /\ Stay' = Stay + 1
         /\ UNCHANGED <<disk, list, listnum, fposdelta, dedelta, was, asked>>
         /\ pakdelta' = IF was[i].pak = 0 THEN 0 ELSE pakdelta
         /\ dir' \in Seq(Entry) /\ Len(dir') = Len(was)
         /\ \A x \in 1 .. Stay : dir'[x] = dir[x]
         /\ \A x \in i + 1 .. Len(was) : dir'[x] = was[x]
         /\ dir'[Stay + 1] \in Entry /\ Stay + 1 \in 1 .. i
         /\ dir'[Stay + 1].name = was[i].name /\ dir'[Stay + 1].type = was[i].type
         /\ dir'[Stay + 1].size = was[i].size /\ dir'[Stay + 1].real = was[i].real
         /\ dir'[Stay + 1].ptr = was[i].ptr - fposdelta
         /\ dir'[Stay + 1].pak = Renumbered.pak
         /\ IF dedelta # 0 /\ fposdelta # 0 /\ HasData(was[i]) /\ was[i].size # 0
            THEN pc' = "copy" /\ curpos' = was[i].ptr /\ togo' = was[i].size /\ i' = i
            ELSE pc' = "walk" /\ i' = i + 1 /\ UNCHANGED <<curpos, togo>>
<1>0. /\ pc = "walk" /\ i <= Len(dir) /\ ~Listed
      /\ UNCHANGED <<disk, list, listnum, fposdelta, dedelta, was, asked>>
      /\ pakdelta' = PakDeltaHere
      /\ dir' = IF dedelta = 0
                THEN [dir EXCEPT ![i] = Renumbered]
                ELSE [dir EXCEPT ![i] = Renumbered,
                                 ![i - dedelta] = [Renumbered EXCEPT !.ptr = @ - fposdelta]]
      /\ IF dedelta # 0 /\ fposdelta # 0 /\ HasData(dir[i]) /\ dir[i].size # 0
         THEN pc' = "copy" /\ curpos' = dir[i].ptr /\ togo' = dir[i].size /\ UNCHANGED i
         ELSE i' = i + 1 /\ UNCHANGED <<pc, curpos, togo>>
  BY DEF KeepEntry
<1>1. /\ WalkInv /\ dir[i] = was[i] /\ i \in 1 .. Len(was) /\ Len(dir) = Len(was)
      /\ Len(was) \in Nat /\ Passed = i - 1
      /\ dedelta \in 0 .. i - 1 /\ fposdelta \in Nat /\ Stay = i - 1 - dedelta
      /\ Stay \in 0 .. i - 1
  BY <1>0, WalkFacts
<1>2. /\ dir \in Seq(Entry) /\ (dedelta = 0 => fposdelta = 0)
      /\ \A x \in i .. Len(was) : dir[x] = was[x]
  BY <1>1 DEF WalkInv
<1>3. Renumbered \in Entry /\ Renumbered.ptr \in Int
  <2>1. Renumbered \in Entry
    BY <1>0, RenumberedFacts
  <2> QED
    BY <2>1 DEF Entry
<1> DEFINE R == Renumbered
           p == R.ptr - fposdelta
           M == [R EXCEPT !.ptr = p]
<1>4. R \in Entry /\ p \in Int /\ p = R.ptr - fposdelta
  BY <1>1, <1>3
<1>5. dir' = IF dedelta = 0 THEN [dir EXCEPT ![i] = R] ELSE [dir EXCEPT ![i] = R, ![i - dedelta] = M]
  BY <1>0
<1> HIDE DEF p, R
<1>6. M \in Entry /\ M.name = R.name /\ M.type = R.type /\ M.size = R.size /\ M.real = R.real
      /\ M.ptr = p /\ M.pak = R.pak
  BY <1>4 DEF Entry
<1> HIDE DEF M
<1>7. i - dedelta = Stay + 1 /\ Stay + 1 \in 1 .. i
  BY <1>1
<1>8. /\ dir' \in Seq(Entry) /\ Len(dir') = Len(was)
      /\ \A x \in 1 .. Stay : dir'[x] = dir[x]
      /\ \A x \in i + 1 .. Len(was) : dir'[x] = was[x]
  <2>1. CASE dedelta = 0
    BY <1>1, <1>2, <1>4, <1>5, <1>7, <2>1
  <2>2. CASE dedelta # 0
    <3>1. dir' = [dir EXCEPT ![i] = R, ![Stay + 1] = M]
      BY <1>5, <1>7, <2>2
    <3>2. dir' \in Seq(Entry) /\ Len(dir') = Len(was)
      BY <1>1, <1>2, <1>4, <1>6, <1>7, <3>1
    <3>3. \A x \in 1 .. Stay : dir'[x] = dir[x]
      BY <1>1, <1>2, <1>7, <3>1
    <3>4. \A x \in i + 1 .. Len(was) : dir'[x] = was[x]
      BY <1>1, <1>2, <1>7, <3>1
    <3> QED
      BY <3>2, <3>3, <3>4
  <2> QED
    BY <2>1, <2>2
<1>9. /\ dir'[Stay + 1] \in Entry
      /\ dir'[Stay + 1].name = R.name /\ dir'[Stay + 1].type = R.type
      /\ dir'[Stay + 1].size = R.size /\ dir'[Stay + 1].real = R.real
      /\ dir'[Stay + 1].ptr = p /\ dir'[Stay + 1].pak = R.pak
  <2>1. CASE dedelta = 0
    <3>1. dir'[Stay + 1] = R
      BY <1>1, <1>2, <1>5, <1>7, <2>1
    <3>2. p = R.ptr
      BY <1>2, <1>3, <1>4, <2>1 DEF R
    <3> QED
      BY <1>4, <3>1, <3>2
  <2>2. CASE dedelta # 0
    <3>1. dir'[Stay + 1] = M
      BY <1>1, <1>2, <1>5, <1>7, <2>2
    <3> QED
      BY <1>6, <3>1
  <2> QED
    BY <2>1, <2>2
<1>10. /\ R.name = was[i].name /\ R.type = was[i].type
       /\ R.ptr = was[i].ptr /\ R.size = was[i].size
       /\ R.real = was[i].real
  BY <1>0, RenumberedFacts DEF R
<1>11. pc' \in {"walk", "copy"} /\ i' \in Nat /\ Passed' = i
  BY <1>0, <1>1 DEF Passed
<1>12. Stay' = Stay + 1
  BY <1>0, <1>1, <1>11 DEF Stay
<1>13. pakdelta' = IF was[i].pak = 0 THEN 0 ELSE pakdelta
  BY <1>0, <1>1 DEF PakDeltaHere
<1>14. IF dedelta # 0 /\ fposdelta # 0 /\ HasData(was[i]) /\ was[i].size # 0
       THEN pc' = "copy" /\ curpos' = was[i].ptr /\ togo' = was[i].size /\ i' = i
       ELSE pc' = "walk" /\ i' = i + 1 /\ UNCHANGED <<curpos, togo>>
  BY <1>0, <1>1
<1>15. p = was[i].ptr - fposdelta
  BY <1>4, <1>10
<1> QED
  BY <1>0, <1>7, <1>8, <1>9, <1>10, <1>11, <1>12, <1>13, <1>14, <1>15 DEF R

\* the walk is one entry further
LEMMA KeepWalk ==
  ASSUME ArchiveInv, KeepEntry
  PROVE  WalkInv'
<1>0. pc = "walk" /\ i <= Len(dir) /\ ~Listed
  BY KeepFactsOfWalk
<1>1. /\ i \in 1 .. Len(was) /\ Len(was) \in Nat /\ dedelta \in 0 .. i - 1
      /\ fposdelta \in Nat /\ pakdelta \in Nat /\ WalkInv
  BY <1>0, WalkFacts
<1>2. /\ Passed' = i /\ UNCHANGED <<list, listnum, fposdelta, dedelta, was>> /\ i' \in Nat
      /\ pakdelta' = (IF was[i].pak = 0 THEN 0 ELSE pakdelta)
      /\ dir' \in Seq(Entry) /\ Len(dir') = Len(was)
      /\ \A x \in i + 1 .. Len(was) : dir'[x] = was[x]
  BY KeepFactsOfWalk
<1>3. /\ Len(list) \in Nat /\ listnum \in 0 .. Len(list)
      /\ \A y \in 1 .. Len(list) : list[y] \in 1 .. Len(was) /\ (y <= listnum <=> list[y] <= i - 1)
      /\ \A y \in 1 .. listnum : IsPak(was[list[y]]) => list[y] + was[list[y]].pak <= i - 1
      /\ \A y \in 1 .. Len(list) : list[y] # i
  BY <1>0, ListedFacts
<1>4. \A y \in 1 .. Len(list) : y <= listnum <=> list[y] <= i
  BY <1>1, <1>3
<1>5. \A y \in 1 .. listnum : IsPak(was[list[y]]) => list[y] + was[list[y]].pak <= i
  <2> SUFFICES ASSUME NEW y \in 1 .. listnum, IsPak(was[list[y]])
               PROVE  list[y] + was[list[y]].pak <= i
    OBVIOUS
  <2>1. list[y] + was[list[y]].pak <= i - 1
    BY <1>3
  <2>2. y \in 1 .. Len(list) /\ list[y] \in 1 .. Len(was)
    BY <1>3
  <2>3. was[list[y]].pak \in Int
    BY <1>0, <2>2, WalkFacts, SoundTypes
  <2> QED
    BY <1>1, <2>1, <2>2, <2>3
<1>6. pakdelta' \in Nat
  BY <1>1, <1>2
<1>7. dedelta = 0 => fposdelta = 0
  BY <1>1 DEF WalkInv
<1> QED
  BY <1>1, <1>2, <1>3, <1>4, <1>5, <1>6, <1>7 DEF WalkInv

\* the entry is in order with those before it and those still to come
LEMMA KeepGap ==
  ASSUME ArchiveInv, KeepEntry
  PROVE  GapInv'
<1> DEFINE s == Stay
           e == dir'[s + 1]
           n == Len(was)
<1>0. pc = "walk" /\ i <= Len(dir) /\ ~Listed
  BY KeepFactsOfWalk
<1>1. /\ i \in 1 .. n /\ n \in Nat /\ fposdelta \in Nat /\ Sound(was) /\ GapInv /\ Passed = i - 1
      /\ s \in 0 .. i - 1
  BY <1>0, WalkFacts
<1>2. /\ Passed' = i /\ Stay' = s + 1 /\ UNCHANGED <<fposdelta, was>>
      /\ \A x \in 1 .. s : dir'[x] = dir[x]
      /\ e.size = was[i].size /\ e.ptr = was[i].ptr - fposdelta /\ e.type = was[i].type
  BY KeepFactsOfWalk
<1>3. /\ Apart(dir, s)
      /\ \A x \in 1 .. s : dir[x].ptr + dir[x].size <= DirectoryOffset(was)
      /\ \A y \in i .. n :
           /\ Header <= was[y].ptr - fposdelta
           /\ \A x \in 1 .. s : EndOf(dir[x]) <= was[y].ptr - fposdelta
  BY <1>1 DEF GapInv
<1>4. /\ was[i].ptr \in Nat /\ was[i].size \in Nat /\ EndOf(was[i]) \in Nat
      /\ was[i].ptr + was[i].size <= DirectoryOffset(was)
      /\ DirectoryOffset(was) \in Int
  <2>1. n \in 1 .. n
    BY <1>1
  <2>2. was[n].ptr \in Nat /\ was[n].size \in Nat
    BY <1>1, <2>1, SoundTypes
  <2> QED
    BY <1>1, <2>2, SoundTypes, SoundExtent, SMTT(30) DEF DirectoryOffset
<1>5. EndOf(e) = EndOf(was[i]) - fposdelta
  BY <1>1, <1>2, <1>4 DEF EndOf
<1>6. i \in i .. n /\ Header <= e.ptr /\ 0 <= e.size
  BY <1>1, <1>2, <1>3, <1>4
<1>7. \A x \in 1 .. s : EndOf(dir[x]) <= e.ptr
  BY <1>2, <1>3, <1>6
<1>8. e.ptr + e.size <= DirectoryOffset(was)
  BY <1>1, <1>2, <1>4
<1> HIDE DEF e
<1>9. Apart(dir', s + 1)
  <2>1. \A x \in 1 .. s + 1 : Header <= dir'[x].ptr /\ 0 <= dir'[x].size
    BY <1>1, <1>2, <1>3, <1>6 DEF Apart, e
  <2>2. ASSUME NEW x \in 1 .. s + 1, NEW y \in 1 .. s + 1, x < y
        PROVE  EndOf(dir'[x]) <= dir'[y].ptr
    <3>1. x \in 1 .. s /\ dir'[x] = dir[x]
      BY <1>1, <1>2, <2>2
    <3>2. CASE y = s + 1
      BY <1>7, <3>1, <3>2 DEF e
    <3>3. CASE y \in 1 .. s
      BY <1>2, <1>3, <2>2, <3>1, <3>3 DEF Apart
    <3> QED
      BY <1>1, <3>2, <3>3
  <2> QED
    BY <2>1, <2>2 DEF Apart
<1>10. \A x \in 1 .. s + 1 : dir'[x].ptr + dir'[x].size <= DirectoryOffset(was)
  BY <1>1, <1>2, <1>3, <1>8 DEF e
<1>11. ASSUME NEW y \in i + 1 .. n
       PROVE  /\ Header <= was[y].ptr - fposdelta
              /\ \A x \in 1 .. s + 1 : EndOf(dir'[x]) <= was[y].ptr - fposdelta
  <2>1. y \in i .. n /\ y \in 1 .. n /\ i < y
    BY <1>1
  <2>2. EndOf(was[i]) <= was[y].ptr /\ was[y].ptr \in Nat
    BY <1>1, <2>1, SoundTypes DEF Sound, Apart
  <2>3. EndOf(e) <= was[y].ptr - fposdelta
    BY <1>1, <1>4, <1>5, <2>2
  <2> QED
    BY <1>1, <1>2, <1>3, <2>1, <2>3 DEF e
<1>12. DirectoryOffset(was)' = DirectoryOffset(was)
  BY <1>2
<1> QED
  BY <1>2, <1>9, <1>10, <1>11, <1>12 DEF GapInv

\* the paks of the new directory are whole, or as whole as the walk is past their old ones
LEMMA KeepPak ==
  ASSUME ArchiveInv, KeepEntry
  PROVE  PakWalkInv'
<1> DEFINE s == Stay
           e == dir'[s + 1]
           n == Len(was)
           w == was[i]
<1>0. pc = "walk" /\ i <= Len(dir) /\ ~Listed
  BY KeepFactsOfWalk
<1>1. /\ i \in 1 .. n /\ n \in Nat /\ fposdelta \in Nat /\ Sound(was) /\ Passed = i - 1
      /\ s \in 0 .. i - 1 /\ s = i - 1 - dedelta /\ PakWalkInv /\ pakdelta \in Nat
      /\ dedelta \in 0 .. i - 1 /\ ListInv
  BY <1>0, WalkFacts
<1>2. /\ Passed' = i /\ Stay' = s + 1
      /\ UNCHANGED <<list, listnum, fposdelta, dedelta, was>>
      /\ \A x \in 1 .. s : dir'[x] = dir[x]
      /\ e \in Entry /\ e.name = w.name
      /\ e.size = w.size /\ e.ptr = w.ptr - fposdelta /\ e.type = w.type
      /\ e.pak = Renumbered.pak
      /\ pakdelta' = IF w.pak = 0 THEN 0 ELSE pakdelta
  BY KeepFactsOfWalk
<1>3. /\ w.ptr \in Nat /\ w.size \in Nat /\ w.pak \in Int /\ EndOf(w) \in Nat
      /\ was[i].pak \in Int
  BY <1>1, SoundTypes
<1>4. EndOf(e) = EndOf(w) - fposdelta
  BY <1>1, <1>2, <1>3 DEF EndOf
<1>5. (IsPak(e) <=> IsPak(w)) /\ (IsPak(w) => ~IsMember(w))
  BY <1>2 DEF IsPak, IsMember
<1>6. /\ ~IsMember(w) => e.pak = w.pak
      /\ IsMember(w) => e.pak = w.pak - pakdelta /\ e.pak # 0
  BY <1>0, <1>2, RenumberedFacts
<1>7. /\ InPak' <=> i < n /\ IsMember(was[i + 1])
      /\ OldHeader' = i + 1 - was[i + 1].pak
  BY <1>2 DEF InPak, OldHeader
<1>8. NewHeader' = OldHeader' - dedelta + pakdelta'
  BY <1>2 DEF NewHeader
<1>9. Counts(dir', s + 1)
  <2> SUFFICES ASSUME NEW x \in 1 .. s + 1, IsPak(dir'[x]) PROVE dir'[x].pak < 65536
    BY DEF Counts
  <2>1. CASE x = s + 1
    <3>1. w.pak < 65536
      BY <1>1, <1>5, <2>1, SoundPak
    <3> QED
      BY <1>5, <1>6, <2>1, <3>1
  <2>2. CASE x \in 1 .. s
    BY <1>1, <1>2, <2>2 DEF PakWalkInv, Counts
  <2> QED
    BY <1>1, <2>1, <2>2
<1>n. n = Len(was)
  OBVIOUS
<1>d. n \in Nat /\ n \in 0 .. n /\ \A x \in 1 .. n : x \in DOMAIN was
  BY <1>1 DEF Sound
<1> HIDE DEF e, s, n
<1>s. /\ \A x \in 1 .. n : was[x].ptr \in Int /\ was[x].size \in Int
      /\ \A x \in 1 .. n : IsPak(was[x]) =>
           /\ was[x].pak \in Nat /\ was[x].pak < 65536 /\ x + was[x].pak <= n
           /\ was[x].size = EndAt(was, x, x + was[x].pak) - was[x].ptr
      /\ \A x \in 1 .. n : IsPak(was[x]) => \A y \in x + 1 .. x + was[x].pak :
           IsMember(was[y]) /\ was[y].pak = y - x
      /\ \A x \in 1 .. n : ~IsPak(was[x]) /\ ~IsMember(was[x]) /\ x + 1 \in 1 .. n =>
           ~IsMember(was[x + 1])
      /\ \A x \in 1 .. n : IsPak(was[x]) /\ x + was[x].pak + 1 \in 1 .. n =>
           ~IsMember(was[x + was[x].pak + 1])
  <2>0. Sound(was)
    BY <1>1
  <2>1. \A x \in 1 .. n : was[x].ptr \in Nat /\ was[x].size \in Nat
    BY <2>0, <1>n, SoundAll
  <2>2. \A x \in 1 .. n : IsPak(was[x]) =>
          /\ was[x].pak \in Nat /\ was[x].pak < 65536 /\ x + was[x].pak <= n
          /\ was[x].size = EndAt(was, x, x + was[x].pak) - was[x].ptr
    BY <2>0, <1>n, SoundAll
  <2>3. \A x \in 1 .. n : IsPak(was[x]) => \A y \in x + 1 .. x + was[x].pak :
          IsMember(was[y]) /\ was[y].pak = y - x
    <3> SUFFICES ASSUME NEW x \in 1 .. n, IsPak(was[x]), NEW y \in x + 1 .. x + was[x].pak
                 PROVE  IsMember(was[y]) /\ was[y].pak = y - x
      OBVIOUS
    <3>1. x \in 1 .. Len(was)
      BY <1>n
    <3>2. \A z \in x + 1 .. x + was[x].pak :
            IsMember(was[z]) /\ was[z].pak = z - x /\ was[z].ptr = EndAt(was, x, z - 1)
      BY <2>0, <3>1, SoundPak
    <3> QED
      BY <3>2
  <2>4. \A x \in 1 .. n : ~IsPak(was[x]) /\ ~IsMember(was[x]) /\ x + 1 \in 1 .. n =>
          ~IsMember(was[x + 1])
    BY <2>0, <1>n, SoundAll
  <2>5. ASSUME NEW x \in 1 .. n, IsPak(was[x]), x + was[x].pak + 1 \in 1 .. n
        PROVE  ~IsMember(was[x + was[x].pak + 1])
    <3>1. x \in 1 .. Len(was) /\ x + was[x].pak + 1 \in 1 .. Len(was)
      BY <1>n, <2>5
    <3> QED
      BY <2>0, <2>5, <3>1, SoundAfterPak
  <2>6. \A x \in 1 .. n : was[x].ptr \in Int /\ was[x].size \in Int
    BY <2>1
  <2> QED
    BY <2>2, <2>3, <2>4, <2>5, <2>6
<1>10. CASE IsMember(w)
  <2> DEFINE h == OldHeader
             k == NewHeader
  <2>1. /\ InPak /\ AroundInv /\ h = i - w.pak
        /\ h \in 1 .. i - 1 /\ IsPak(was[h])
        /\ w.pak \in Nat \ {0}
        /\ was[h].pak \in Nat /\ i <= h + was[h].pak /\ h + was[h].pak <= n
        /\ k = i - w.pak - dedelta + pakdelta /\ k \in 1 .. s
        /\ pakdelta < w.pak /\ w.ptr = EndAt(was, h, i - 1)
    BY <1>0, <1>1, <1>10, InPakFacts DEF s, n
  <2>2. /\ pakdelta # 0 => \E y \in 1 .. listnum : list[y] \in h + 1 .. i - 1
        /\ IsPak(dir[k]) /\ dir[k].name = was[h].name
        /\ dir[k].pak = was[h].pak - pakdelta
        /\ dir[k].ptr + dir[k].size = was[h].ptr + was[h].size - fposdelta
        /\ Members(dir, k, s)
        /\ EndAt(dir, k, s) = EndAt(was, h, i - 1) - fposdelta
    BY <1>1, <2>1 DEF AroundInv, s
  <2>3. WholePaks(dir, k - 1)
    BY <1>1, <2>1 DEF PakWalkInv
  <2>4. pakdelta' = pakdelta /\ dir'[k] = dir[k]
    BY <1>2, <2>1
  <2> HIDE DEF h, k
  <2>5. WholePaks(dir', k - 1)
    <3>1. k - 1 \in Int /\ \A x \in 1 .. k - 1 : dir'[x] = dir[x]
      BY <1>1, <1>2, <2>1
    <3> QED
      BY <2>3, <3>1, WholePaksSame, Zenon
  <2>6. EndAt(dir', k, s) = EndAt(dir, k, s)
    BY <1>1, <1>2, <2>1 DEF EndAt
  <2>7. Members(dir', k, s + 1)
    <3> SUFFICES ASSUME NEW x \in k + 1 .. s + 1
                 PROVE  /\ IsMember(dir'[x]) /\ dir'[x].pak = x - k
                        /\ dir'[x].ptr = EndAt(dir', k, x - 1)
      BY DEF Members
    <3>1. CASE x = s + 1
      <4>1. IsMember(e)
        BY <1>2, <1>6, <1>10 DEF IsMember
      <4>2. e.pak = s + 1 - k
        BY <1>1, <1>3, <1>6, <1>10, <2>1
      <4>3. e.ptr = EndAt(dir', k, s)
        BY <1>2, <2>1, <2>2, <2>6
      <4> QED
        <5>1. x - 1 = s /\ dir'[x] = e
          BY <1>1, <3>1 DEF e
        <5>2. k \in Int /\ s \in Int
          BY <1>1, <2>1
        <5>3. e.pak = x - k
          BY <3>1, <4>2, <5>2
        <5> QED
          BY <3>1, <4>1, <4>3, <5>1, <5>3
    <3>2. CASE x \in k + 1 .. s
      <4>1. /\ x \in 1 .. s /\ x - 1 \in 1 .. s
            /\ IsMember(dir[x]) /\ dir[x].pak = x - k /\ dir[x].ptr = EndAt(dir, k, x - 1)
        BY <1>1, <2>1, <2>2, <3>2 DEF Members
      <4> QED
        BY <1>2, <2>4, <4>1 DEF EndAt
    <3> QED
      BY <1>1, <2>1, <3>1, <3>2
  <2>8. EndAt(dir', k, s + 1) = EndAt(was, h, i) - fposdelta
    BY <1>1, <1>4, <2>1 DEF EndAt, e
  <2>9. CASE i < h + was[h].pak
    <3>1. i + 1 \in 1 .. n /\ i \in h .. h + was[h].pak /\ h \in 1 .. n
      BY <1>1, <2>1, <2>9
    <3>2. IsMember(was[i + 1]) /\ was[i + 1].pak = i + 1 - h
      <4>1. i + 1 \in h + 1 .. h + was[h].pak
        BY <1>1, <2>1, <2>9
      <4> QED
        BY <1>s, <2>1, <3>1, <4>1
    <3>3. InPak' /\ OldHeader' = h
      BY <1>1, <1>7, <2>1, <3>1, <3>2
    <3>4. NewHeader' = k
      BY <1>8, <2>4, <3>3 DEF NewHeader, h, k
    <3>5. AroundInv'
      <4>1. k \in 1 .. s + 1 /\ pakdelta <= i - h
        BY <1>1, <2>1
      <4>2. pakdelta # 0 => \E y \in 1 .. listnum : list[y] \in h + 1 .. i
        <5> SUFFICES ASSUME pakdelta # 0 PROVE \E y \in 1 .. listnum : list[y] \in h + 1 .. i
          OBVIOUS
        <5>1. PICK y \in 1 .. listnum : list[y] \in h + 1 .. i - 1
          BY <2>2
        <5>2. list[y] \in h + 1 .. i
          BY <1>1, <2>1, <5>1
        <5> QED
          BY <5>2
      <4> QED
        BY <1>2, <2>2, <2>4, <2>7, <2>8, <3>3, <3>4, <4>1, <4>2 DEF AroundInv
    <3>6. ~IsPak(was[i + 1])
      BY <3>2 DEF IsMember, IsPak
    <3> QED
      BY <1>2, <1>9, <2>5, <3>3, <3>4, <3>5, <3>6 DEF PakWalkInv
  <2>10. CASE i = h + was[h].pak
    <3>1. ~InPak'
      <4>1. SUFFICES ASSUME i < n PROVE ~IsMember(was[i + 1])
        BY <1>7
      <4>2. h \in 1 .. n
        BY <1>1, <2>1
      <4>3. h + was[h].pak + 1 = i + 1 /\ i + 1 \in 1 .. n
        BY <1>1, <2>10, <4>1
      <4> QED
        BY <1>s, <2>1, <4>2, <4>3
    <3>2. was[h].size = EndAt(was, h, i) - was[h].ptr
      <4>1. h \in 1 .. n
        BY <1>1, <2>1
      <4> QED
        <5>1. IsPak(was[h])
          BY <2>1
        <5> QED
          BY <1>s, <2>10, <4>1, <5>1
    <3>3. WholePaks(dir', s + 1)
      <4>1. /\ was[h].ptr \in Int /\ was[h].size \in Int /\ EndAt(was, h, i) \in Int
        <5>1. h \in 1 .. n
          BY <1>1, <2>1
        <5>2. was[h].ptr \in Int /\ was[h].size \in Int
          BY <1>s, <5>1
        <5> QED
          BY <1>3, <5>2 DEF EndAt
      <4>2. dir[k].ptr \in Int /\ dir[k].size \in Int
        <5>1. dir \in Seq(Entry) /\ k \in 1 .. Len(dir)
          BY <1>0, <1>1, <2>1, WalkFacts DEF WalkInv
        <5>2. dir[k] \in Entry
          BY <5>1
        <5> QED
          BY <5>2 DEF Entry
      <4>3. dir'[k].size = EndAt(dir', k, s + 1) - dir'[k].ptr
        BY <1>1, <2>2, <2>4, <2>8, <3>2, <4>1, <4>2
      <4>4. dir'[k].pak = (s + 1) - k
        <5>3. dir'[k].pak = was[h].pak - pakdelta /\ h = i - w.pak /\ was[h].pak \in Int
          BY <2>1, <2>2, <2>4
        <5>4. h \in Int
          BY <1>1, <2>1
        <5>5. i \in Int
          BY <1>1
        <5>6. was[h].pak = i - h
          <6> DEFINE m == was[h].pak
          <6>1. m \in Int /\ i = h + m
            BY <2>10, <5>3, Zenon
          <6> HIDE DEF m
          <6>2. m = i - h
            BY <5>4, <5>5, <6>1
          <6> QED
            BY <6>2, Zenon DEF m
        <5>1. dir'[k].pak = was[h].pak - pakdelta /\ was[h].pak = i - h /\ h = i - w.pak
          BY <5>3, <5>6
        <5>2. k = i - w.pak - dedelta + pakdelta /\ s = i - 1 - dedelta
          BY <1>1, <2>1 DEF s
        <5> QED
          BY <1>1, <1>3, <5>1, <5>2
      <4>5. k \in Nat \ {0} /\ s + 1 \in Nat /\ k <= s + 1 /\ IsPak(dir'[k])
        BY <1>1, <2>1, <2>2, <2>4
      <4> QED
        BY <2>5, <2>7, <4>3, <4>4, <4>5, PakJoins, Zenon
    <3>4. ASSUME i < n, IsPak(was[i + 1]), was[i + 1].pak # 0 PROVE pakdelta' = 0
      <4>1. SUFFICES ASSUME pakdelta # 0 PROVE FALSE
        BY <2>4
      <4>2. PICK y \in 1 .. listnum : list[y] \in h + 1 .. i - 1
        BY <2>2, <4>1
      <4>3. y \in 1 .. Len(list)
        BY <1>0, ListedFacts
      <4>4. h \in 1 .. n /\ list[y] \in h + 1 .. h + was[h].pak
        BY <1>1, <2>1, <4>2
      <4>5. IsMember(was[list[y]]) /\ was[list[y]].pak = list[y] - h
        BY <1>s, <2>1, <4>4
      <4>6. list[y] - was[list[y]].pak = h
        BY <2>1, <4>4, <4>5, SMTT(40)
      <4>7. h + was[h].pak + 1 = i + 1 /\ i + 1 \in DOMAIN was
        <5>1. i + 1 \in 1 .. n
          BY <1>1, <3>4
        <5> QED
          BY <1>1, <1>d, <2>1, <2>10, <5>1, Zenon
      <4>8. AnotherPakFollows(was, list)
        <5>1. h \in DOMAIN was
          BY <1>1, <1>d, <4>4
        <5> QED
          BY <3>4, <4>3, <4>5, <4>6, <4>7, <5>1 DEF AnotherPakFollows
      <4> QED
        BY <1>1, <4>8 DEF ListInv
    <3> QED
      BY <1>2, <1>9, <3>1, <3>3, <3>4 DEF PakWalkInv, n
  <2> QED
    BY <1>1, <2>1, <2>9, <2>10
<1>11. CASE ~IsMember(w)
  <2>1. Passed + 1 = i
    BY <1>1
  <2>2. WholePaks(dir, s)
    BY <1>1, <1>11, <2>1 DEF PakWalkInv, InPak, s
  <2>3. WholePaks(dir', s)
    BY <1>1, <1>2, <2>2, WholePaksSame
  <2>4. CASE ~IsPak(w)
    <3>1. w.pak = 0 /\ e.pak = 0 /\ pakdelta' = 0
      BY <1>2, <1>6, <1>11, <2>4 DEF IsMember, IsPak
    <3>2. WholePaks(dir', s + 1)
      BY <1>1, <1>5, <2>3, <2>4, <3>1, PlainJoins DEF e
    <3>3. ~InPak'
      <4>1. SUFFICES ASSUME i < n PROVE ~IsMember(was[i + 1])
        BY <1>7
      <4>2. i + 1 \in 1 .. n
        BY <1>1, <4>1
      <4> QED
        BY <1>1, <1>11, <1>s, <2>4, <4>2
    <3> QED
      BY <1>2, <1>9, <3>1, <3>2, <3>3 DEF PakWalkInv
  <2>5. CASE IsPak(w) /\ w.pak = 0
    <3>1. e.pak = 0 /\ pakdelta' = 0 /\ i + w.pak = i
      BY <1>1, <1>2, <1>6, <1>11, <2>5
    <3>2. w.size = 0
      <4>1. w.size = EndAt(was, i, i) - w.ptr
        BY <1>1, <1>s, <2>5, <3>1
      <4> QED
        BY <1>3, <4>1 DEF EndAt
    <3>3. WholePaks(dir', s + 1)
      <4>1. Members(dir', s + 1, s + 1)
        BY <1>1 DEF Members
      <4>2. e.size = EndAt(dir', s + 1, s + 1) - e.ptr
        BY <1>1, <1>2, <1>3, <3>2 DEF EndAt, e
      <4>3. s + 1 \in Nat \ {0} /\ (s + 1) - 1 = s /\ e.pak = (s + 1) - (s + 1)
        BY <1>1, <3>1
      <4> QED
        BY <1>5, <2>3, <2>5, <4>1, <4>2, <4>3, PakJoins DEF e
    <3>4. ~InPak'
      <4>1. SUFFICES ASSUME i < n PROVE ~IsMember(was[i + 1])
        BY <1>7
      <4>2. i + was[i].pak + 1 = i + 1 /\ i + 1 \in 1 .. n
        BY <1>1, <2>5, <4>1
      <4> QED
        BY <1>1, <1>s, <2>5, <4>2
    <3> QED
      BY <1>2, <1>9, <3>1, <3>3, <3>4 DEF PakWalkInv
  <2>6. CASE IsPak(w) /\ w.pak # 0
    <3>1. w.pak \in Nat \ {0} /\ i + w.pak <= n
      BY <1>1, <1>s, <2>6
    <3>2. i + 1 \in 1 .. n /\ i \in i .. i + w.pak /\ i < i + w.pak
      BY <1>1, <3>1
    <3>3. IsMember(was[i + 1]) /\ was[i + 1].pak = i + 1 - i
      <4>1. i + 1 \in i + 1 .. i + w.pak
        BY <1>1, <3>1
      <4> QED
        BY <1>1, <1>s, <2>6, <4>1
    <3>4. pakdelta = 0 /\ pakdelta' = 0
      <4>1. Passed < n
        BY <1>1
      <4> QED
        BY <1>1, <1>2, <2>1, <2>6, <4>1 DEF PakWalkInv, n
    <3>5. InPak' /\ OldHeader' = i
      BY <1>1, <1>7, <3>2, <3>3
    <3>6. NewHeader' = s + 1
      BY <1>1, <1>8, <3>4, <3>5
    <3>7. AroundInv'
      <4>1. s + 1 \in 1 .. s + 1 /\ 0 <= i - i /\ e.pak = w.pak - 0
        BY <1>1, <1>3, <1>6, <1>11
      <4>2. Members(dir', s + 1, s + 1) /\ EndAt(dir', s + 1, s + 1) = e.ptr /\ EndAt(was, i, i) = w.ptr
        BY <1>1 DEF Members, EndAt, e
      <4>3. e.ptr + e.size = w.ptr + w.size - fposdelta
        BY <1>1, <1>2, <1>3
      <4> QED
        BY <1>2, <1>5, <2>6, <3>4, <3>5, <3>6, <4>1, <4>2, <4>3 DEF AroundInv, e
    <3>8. WholePaks(dir', NewHeader' - 1) /\ ~IsPak(was[i + 1])
      <4>1. NewHeader' - 1 = s
        BY <1>1, <3>6
      <4> QED
        BY <2>3, <3>3, <4>1 DEF IsMember, IsPak
    <3> QED
      BY <1>2, <1>9, <3>5, <3>7, <3>8 DEF PakWalkInv
  <2> QED
    BY <2>4, <2>5, <2>6
<1> QED
  BY <1>10, <1>11

-----------------------------------------------------------------------------
(* A listed file, folder or whole pak.                                     *)

\* what the turn does: the walk goes past the entry and all that belongs to it
LEMMA DropFacts ==
  ASSUME ArchiveInv, DropEntry
  PROVE  /\ pc = "walk" /\ i <= Len(dir) /\ Listed /\ pc' = "walk" /\ i' \in Nat
         /\ ~IsMember(was[i]) /\ Group(was[i]) \in Nat /\ i + Group(was[i]) <= Len(was)
         /\ Passed' = i + Group(was[i]) /\ Stay' = Stay
         /\ UNCHANGED <<disk, list, was, asked, curpos, togo>>
         /\ listnum' = listnum + 1 /\ fposdelta' = fposdelta + was[i].size
         /\ dedelta' = dedelta + Group(was[i]) + 1
         /\ pakdelta' = IF was[i].pak = 0 THEN 0 ELSE pakdelta
         /\ dir' \in Seq(Entry) /\ Len(dir') = Len(was)
         /\ \A x \in 1 .. Stay : dir'[x] = dir[x]
         /\ \A x \in i + 1 .. Len(was) : dir'[x] = was[x]
<1>0. /\ pc = "walk" /\ i <= Len(dir) /\ Listed
      /\ Renumbered.type = "PAK" \/ Renumbered.pak = 0
      /\ listnum' = listnum + 1
      /\ fposdelta' = fposdelta + dir[i].size
      /\ IF Renumbered.type = "PAK"
         THEN dedelta' = dedelta + Renumbered.pak + 1 /\ i' = i + Renumbered.pak + 1
         ELSE dedelta' = dedelta + 1 /\ i' = i + 1
      /\ pakdelta' = PakDeltaHere
      /\ dir' = [dir EXCEPT ![i] = Renumbered]
      /\ UNCHANGED <<disk, pc, list, curpos, togo, was, asked>>
  BY DEF DropEntry, Freed
<1>1. /\ WalkInv /\ dir[i] = was[i] /\ i \in 1 .. Len(was) /\ Len(dir) = Len(was)
      /\ Len(was) \in Nat /\ Passed = i - 1 /\ Sound(was)
      /\ dedelta \in 0 .. i - 1 /\ fposdelta \in Nat /\ Stay = i - 1 - dedelta
      /\ Stay \in 0 .. i - 1
  BY <1>0, WalkFacts
<1>2. /\ dir \in Seq(Entry)
      /\ \A x \in i .. Len(was) : dir[x] = was[x]
  BY <1>1 DEF WalkInv
<1>3. /\ Renumbered \in Entry /\ Renumbered.type = was[i].type
      /\ ~IsMember(was[i]) => Renumbered.pak = was[i].pak
      /\ IsMember(was[i]) => Renumbered.pak # 0
  BY <1>0, RenumberedFacts
<1>4. ~IsMember(was[i])
  BY <1>0, <1>3 DEF IsMember
<1> DEFINE g == Group(was[i])
<1>5. g \in Nat /\ i + g <= Len(was)
  BY <1>1, SoundExtent
<1>6. dedelta' = dedelta + g + 1 /\ i' = i + g + 1
  <2>1. CASE IsPak(was[i])
    BY <1>0, <1>3, <1>4, <2>1 DEF Group, IsPak
  <2>2. CASE ~IsPak(was[i])
    BY <1>0, <1>1, <1>3, <2>2 DEF Group, IsPak
  <2> QED
    BY <2>1, <2>2
<1> HIDE DEF g
<1>7. Passed' = i + g /\ i' \in Nat
  BY <1>0, <1>1, <1>5, <1>6, SMTT(30) DEF Passed
<1>8. Stay' = Stay
  BY <1>1, <1>5, <1>6, <1>7 DEF Stay
<1>9. /\ dir' \in Seq(Entry) /\ Len(dir') = Len(was)
      /\ \A x \in 1 .. Stay : dir'[x] = dir[x]
      /\ \A x \in i + 1 .. Len(was) : dir'[x] = was[x]
  BY <1>0, <1>1, <1>2, <1>3
<1>10. pakdelta' = IF was[i].pak = 0 THEN 0 ELSE pakdelta
  BY <1>0, <1>1 DEF PakDeltaHere
<1> QED
  BY <1>0, <1>1, <1>4, <1>5, <1>6, <1>7, <1>8, <1>9, <1>10 DEF g

\* the walk is past the whole pak, none of whose members is listed besides
LEMMA DropWalk ==
  ASSUME ArchiveInv, DropEntry
  PROVE  WalkInv'
<1> DEFINE n == Len(was)
           g == Group(was[i])
           q == i + g
<1>0. pc = "walk" /\ i <= Len(dir) /\ Listed
  BY DropFacts
<1>1. /\ i \in 1 .. n /\ n \in Nat /\ dedelta \in 0 .. i - 1
      /\ fposdelta \in Nat /\ pakdelta \in Nat /\ Sound(was) /\ ListInv
  BY <1>0, WalkFacts
<1>2. /\ g \in Nat /\ q <= n /\ Passed' = q /\ i' \in Nat
      /\ UNCHANGED <<list, was>>
      /\ listnum' = listnum + 1 /\ fposdelta' = fposdelta + was[i].size
      /\ dedelta' = dedelta + g + 1
      /\ pakdelta' = (IF was[i].pak = 0 THEN 0 ELSE pakdelta)
      /\ dir' \in Seq(Entry) /\ Len(dir') = n
      /\ \A x \in i + 1 .. n : dir'[x] = was[x]
  BY DropFacts
<1>3. /\ Len(list) \in Nat /\ listnum \in 0 .. Len(list)
      /\ \A y \in 1 .. Len(list) : list[y] \in 1 .. n /\ (y <= listnum <=> list[y] <= i - 1)
      /\ \A y \in 1 .. listnum : IsPak(was[list[y]]) => list[y] + was[list[y]].pak <= i - 1
      /\ listnum + 1 \in 1 .. Len(list) /\ list[listnum + 1] = i
  BY <1>0, ListedFacts
<1>4. was[i].size \in Nat
  BY <1>1, SoundTypes
<1>g. IsPak(was[i]) => g = was[i].pak
  BY DEF Group
<1>h. ~IsPak(was[i]) => g = 0
  BY DEF Group
<1>a. \A x, y \in 1 .. Len(list) : x < y => list[x] < list[y]
  BY <1>1 DEF ListInv
<1>b. ~ \E x, y \in 1 .. Len(list) :
           IsPak(was[list[x]]) /\ list[y] \in list[x] + 1 .. list[x] + was[list[x]].pak
  BY <1>1 DEF ListInv, Repeats
<1> HIDE DEF g, q, n
<1>5. ASSUME NEW y \in 1 .. Len(list) PROVE y <= listnum + 1 <=> list[y] <= q
  <2>0. list[y] \in Int /\ (y <= listnum <=> list[y] <= i - 1) /\ q = i + g
    BY <1>1, <1>3 DEF q
  <2>1. CASE y <= listnum
    BY <1>1, <1>2, <1>3, <2>0, <2>1
  <2>2. CASE y = listnum + 1
    BY <1>1, <1>2, <1>3, <2>0, <2>2
  <2>3. CASE listnum + 1 < y
    <3>1. i < list[y]
      BY <1>3, <1>a, <2>3
    <3>2. SUFFICES ASSUME list[y] <= q PROVE FALSE
      BY <1>3, <2>3
    <3>3. IsPak(was[i]) /\ list[y] \in i + 1 .. i + was[i].pak
      BY <1>1, <1>2, <1>g, <1>h, <2>0, <3>1, <3>2
    <3>4. IsPak(was[list[listnum + 1]])
          /\ list[y] \in list[listnum + 1] + 1 .. list[listnum + 1] + was[list[listnum + 1]].pak
      BY <1>3, <3>3
    <3> QED
      BY <1>3, <1>b, <3>4
  <2> QED
    BY <1>3, <2>1, <2>2, <2>3
<1>6. ASSUME NEW y \in 1 .. listnum + 1, IsPak(was[list[y]])
      PROVE  list[y] + was[list[y]].pak <= q
  <2>1. CASE y = listnum + 1
    <3>1. list[y] = i
      BY <1>3, <2>1
    <3>2. list[y] + was[list[y]].pak = i + was[i].pak
      BY <3>1
    <3> QED
      BY <1>1, <1>2, <1>6, <1>g, <3>1, <3>2 DEF q
  <2>2. CASE y \in 1 .. listnum
    <3>1. list[y] + was[list[y]].pak <= i - 1
      BY <1>3, <1>6, <2>2
    <3>2. y \in 1 .. Len(list)
      BY <1>3, <2>2
    <3>3. list[y] \in 1 .. n
      BY <1>3, <3>2
    <3>4. was[list[y]].pak \in Int
      BY <1>1, <3>3, SoundTypes DEF n
    <3> DEFINE a == list[y]
               b == was[a].pak
    <3>5. a \in Int /\ b \in Int /\ a + b <= i - 1 /\ g \in Nat /\ i \in Int
      BY <1>1, <1>2, <3>1, <3>3, <3>4
    <3> HIDE DEF a, b
    <3>6. a + b <= q
      BY <3>5 DEF q
    <3> QED
      BY <3>6 DEF a, b
  <2> QED
    BY <1>3, <2>1, <2>2
<1>7. /\ fposdelta' \in Nat /\ pakdelta' \in Nat /\ dedelta' # 0
      /\ dedelta' \in 0 .. q /\ q \in 0 .. n /\ listnum' \in 0 .. Len(list)
  <2>1. /\ g \in Nat /\ q <= n /\ q = i + g /\ i \in 1 .. n /\ n \in Nat /\ dedelta \in 0 .. i - 1
        /\ dedelta' = dedelta + g + 1
    BY <1>1, <1>2 DEF q
  <2>2. dedelta' # 0 /\ dedelta' \in 0 .. q /\ q \in 0 .. n
    BY <2>1
  <2>3. fposdelta' \in Nat /\ pakdelta' \in Nat
    BY <1>1, <1>2, <1>4
  <2>4. listnum' \in 0 .. Len(list)
    BY <1>2, <1>3
  <2> QED
    BY <2>2, <2>3, <2>4
<1>8. \A x \in q + 1 .. n : dir'[x] = was[x]
  <2>1. g \in Nat /\ q = i + g /\ i \in Nat /\ \A x \in i + 1 .. n : dir'[x] = was[x]
    BY <1>1, <1>2 DEF q
  <2> QED
    BY <2>1
<1> QED
  BY <1>2, <1>5, <1>6, <1>7, <1>8 DEF WalkInv, n

\* the gap grows by what the entry and its members take, and no more
LEMMA DropGap ==
  ASSUME ArchiveInv, DropEntry
  PROVE  GapInv'
<1> DEFINE s == Stay
           n == Len(was)
           q == i + Group(was[i])
<1>0. pc = "walk" /\ i <= Len(dir) /\ Listed
  BY DropFacts
<1>1. /\ i \in 1 .. n /\ n \in Nat /\ fposdelta \in Nat /\ Sound(was) /\ GapInv /\ Passed = i - 1
      /\ s \in 0 .. i - 1
  BY <1>0, WalkFacts
<1>2. /\ Passed' = q /\ Stay' = s /\ was' = was /\ fposdelta' = fposdelta + was[i].size
      /\ \A x \in 1 .. s : dir'[x] = dir[x]
      /\ q \in i .. n
  BY <1>1, DropFacts
<1>3. /\ Apart(dir, s)
      /\ \A x \in 1 .. s : dir[x].ptr + dir[x].size <= DirectoryOffset(was)
      /\ \A y \in i .. n :
           /\ Header <= was[y].ptr - fposdelta
           /\ \A x \in 1 .. s : EndOf(dir[x]) <= was[y].ptr - fposdelta
  BY <1>1 DEF GapInv
<1>4. /\ was[i].ptr \in Nat /\ was[i].size \in Nat
      /\ \A y \in 1 .. n : was[y].ptr \in Nat
  BY <1>1, SoundTypes
<1>5. \A y \in 1 .. n : q < y => was[i].ptr + was[i].size <= was[y].ptr
  BY <1>1, SoundExtent
<1>6. \A x \in 1 .. s : EndOf(dir[x]) \in Int
  <2> SUFFICES ASSUME NEW x \in 1 .. s PROVE EndOf(dir[x]) \in Int
    OBVIOUS
  <2>1. dir \in Seq(Entry) /\ x \in 1 .. Len(dir)
    BY <1>0, <1>1, WalkFacts DEF WalkInv
  <2>2. dir[x] \in Entry
    BY <2>1
  <2>3. dir[x].ptr \in Int /\ dir[x].size \in Int
    BY <2>2 DEF Entry
  <2> QED
    BY <2>3 DEF EndOf
<1> HIDE DEF s, n, q
<1>7. ASSUME NEW y \in q + 1 .. n
      PROVE  /\ Header <= was[y].ptr - fposdelta'
             /\ \A x \in 1 .. s : EndOf(dir'[x]) <= was[y].ptr - fposdelta'
  <2>1. y \in 1 .. n /\ q < y /\ i \in i .. n
    BY <1>1, <1>2
  <2>2. was[i].ptr - fposdelta <= was[y].ptr - fposdelta'
    BY <1>1, <1>2, <1>4, <1>5, <2>1
  <2>3. was[y].ptr - fposdelta' \in Int /\ was[i].ptr - fposdelta \in Int
    BY <1>1, <1>2, <1>4, <2>1
  <2>4. Header <= was[i].ptr - fposdelta
    BY <1>3, <2>1
  <2>5. \A x \in 1 .. s : EndOf(dir'[x]) <= was[i].ptr - fposdelta /\ EndOf(dir'[x]) \in Int
    BY <1>2, <1>3, <1>6, <2>1
  <2> QED
    BY <2>2, <2>3, <2>4, <2>5 DEF Header
<1>8. Apart(dir', s)
  BY <1>2, <1>3 DEF Apart
<1> QED
  BY <1>2, <1>3, <1>7, <1>8 DEF GapInv, n

\* the paks before it stay whole, and what follows it belongs to no pak that was begun
LEMMA DropPak ==
  ASSUME ArchiveInv, DropEntry
  PROVE  PakWalkInv'
<1> DEFINE s == Stay
           n == Len(was)
           q == i + Group(was[i])
<1>0. pc = "walk" /\ i <= Len(dir) /\ Listed
  BY DropFacts
<1>1. /\ i \in 1 .. n /\ n \in Nat /\ Sound(was) /\ PakWalkInv /\ Passed = i - 1
      /\ s \in 0 .. i - 1
  BY <1>0, WalkFacts
<1>2. /\ Passed' = q /\ Stay' = s /\ was' = was
      /\ \A x \in 1 .. s : dir'[x] = dir[x]
      /\ q \in i .. n /\ ~IsMember(was[i])
      /\ pakdelta' = (IF was[i].pak = 0 THEN 0 ELSE pakdelta)
  BY <1>1, DropFacts
<1>3. Passed + 1 = i /\ Passed < n
  BY <1>1
<1>4. Counts(dir, s) /\ WholePaks(dir, s)
  BY <1>1, <1>2, <1>3 DEF PakWalkInv, InPak
<1>5. Counts(dir', s)
  BY <1>2, <1>4 DEF Counts
<1>6. WholePaks(dir', s)
  BY <1>1, <1>2, <1>4, WholePaksSame
<1>7. ~InPak'
  <2>1. SUFFICES ASSUME q < n PROVE ~IsMember(was[q + 1])
    BY <1>2 DEF InPak
  <2>2. q + 1 \in 1 .. n
    BY <1>1, <1>2, <2>1
  <2> QED
    BY <1>1, <1>2, <2>2, SoundNext
<1>8. pakdelta' = 0
  <2>1. CASE IsPak(was[i]) /\ was[i].pak # 0
    BY <1>1, <1>2, <1>3, <2>1 DEF PakWalkInv
  <2>2. CASE ~(IsPak(was[i]) /\ was[i].pak # 0)
    BY <1>2, <2>2 DEF IsPak, IsMember
  <2> QED
    BY <2>1, <2>2
<1> QED
  BY <1>2, <1>5, <1>6, <1>7, <1>8 DEF PakWalkInv

-----------------------------------------------------------------------------
(* A listed member.                                                        *)

\* what the turn does: the header in the new directory gives up the member
LEMMA MemberFacts ==
  ASSUME ArchiveInv, DropMember
  PROVE  /\ pc = "walk" /\ i <= Len(dir) /\ Listed /\ pc' = "walk" /\ i' = i + 1
         /\ IsMember(was[i]) /\ Passed' = i /\ Stay' = Stay
         /\ UNCHANGED <<disk, list, was, asked, curpos, togo>>
         /\ listnum' = listnum + 1 /\ fposdelta' = fposdelta + was[i].size
         /\ dedelta' = dedelta + 1 /\ pakdelta' = pakdelta + 1
         /\ dir' \in Seq(Entry) /\ Len(dir') = Len(was)
         /\ \A x \in 1 .. Stay : x # NewHeader => dir'[x] = dir[x]
         /\ \A x \in i + 1 .. Len(was) : dir'[x] = was[x]
         /\ NewHeader \in 1 .. Stay
         /\ dir'[NewHeader].name = dir[NewHeader].name
         /\ dir'[NewHeader].type = dir[NewHeader].type
         /\ dir'[NewHeader].ptr = dir[NewHeader].ptr
         /\ dir'[NewHeader].size = dir[NewHeader].size - was[i].size
         /\ dir'[NewHeader].pak = dir[NewHeader].pak - 1
         /\ dir'[NewHeader].real = dir[NewHeader].real - (64 + was[i].real)
<1> DEFINE h == i - Renumbered.pak - dedelta
<1>0. /\ pc = "walk" /\ i <= Len(dir) /\ Listed
      /\ Renumbered.type # "PAK" /\ Renumbered.pak # 0
      /\ listnum' = listnum + 1
      /\ fposdelta' = fposdelta + dir[i].size
      /\ dedelta' = dedelta + 1 /\ i' = i + 1
      /\ pakdelta' = PakDeltaHere + 1
      /\ dir' = [dir EXCEPT ![i] = Renumbered, ![h] = Without(@, dir[i])]
      /\ UNCHANGED <<disk, pc, list, curpos, togo, was, asked>>
  BY DEF DropMember, Freed
<1>1. /\ WalkInv /\ dir[i] = was[i] /\ i \in 1 .. Len(was) /\ Len(dir) = Len(was)
      /\ Len(was) \in Nat /\ Passed = i - 1 /\ was[i] \in Entry
      /\ dedelta \in 0 .. i - 1 /\ fposdelta \in Nat /\ Stay = i - 1 - dedelta
      /\ Stay \in 0 .. i - 1 /\ pakdelta \in Nat
  BY <1>0, WalkFacts
<1>2. /\ dir \in Seq(Entry)
      /\ \A x \in i .. Len(was) : dir[x] = was[x]
  BY <1>1 DEF WalkInv
<1>3. /\ Renumbered \in Entry /\ Renumbered.type = was[i].type
      /\ ~IsMember(was[i]) => Renumbered.pak = was[i].pak
      /\ IsMember(was[i]) => Renumbered.pak = was[i].pak - pakdelta
  BY <1>0, RenumberedFacts
<1>4. IsMember(was[i])
  BY <1>0, <1>3 DEF IsMember
<1>5. /\ NewHeader = i - was[i].pak - dedelta + pakdelta /\ NewHeader \in 1 .. Stay
      /\ was[i].pak \in Nat \ {0}
  BY <1>0, <1>4, InPakFacts
<1>6. h = NewHeader
  BY <1>1, <1>3, <1>4, <1>5, SMTT(30)
<1> DEFINE k == NewHeader
           R == Renumbered
           W == Without(dir[k], was[i])
<1>7. dir' = [dir EXCEPT ![i] = R, ![k] = Without(@, was[i])]
  BY <1>0, <1>1, <1>6
<1>8. k \in 1 .. Stay /\ R \in Entry /\ k # i /\ k \in 1 .. Len(was)
  <2>1. k \in 1 .. Stay /\ R \in Entry
    BY <1>3, <1>5
  <2>2. Stay \in 0 .. i - 1 /\ i \in 1 .. Len(was)
    BY <1>1
  <2> HIDE DEF k, R
  <2> QED
    BY <2>1, <2>2
<1> HIDE DEF h, k, R
<1>9. dir' = [dir EXCEPT ![i] = R, ![k] = W]
  BY <1>1, <1>2, <1>7, <1>8
<1>10. /\ W \in Entry /\ W.name = dir[k].name /\ W.type = dir[k].type /\ W.ptr = dir[k].ptr
       /\ W.size = dir[k].size - was[i].size /\ W.pak = dir[k].pak - 1
       /\ W.real = dir[k].real - (64 + was[i].real)
  <2> DEFINE f == dir[k]
             p == f.pak - 1
             r == f.real - (64 + was[i].real)
             z == f.size - was[i].size
  <2>1. f \in Entry
    BY <1>1, <1>2, <1>8
  <2>2. p \in Int /\ r \in Int /\ z \in Int
    <3>1. f.pak \in Int /\ f.real \in Int /\ f.size \in Int
      BY <2>1 DEF Entry
    <3>2. was[i].real \in Int /\ was[i].size \in Int
      BY <1>1 DEF Entry
    <3> QED
      BY <3>1, <3>2
  <2>3. W = [f EXCEPT !.pak = p, !.real = r, !.size = z]
    BY DEF Without
  <2> HIDE DEF f, p, r, z, W
  <2>4. /\ W \in Entry /\ W.name = f.name /\ W.type = f.type /\ W.ptr = f.ptr
        /\ W.size = z /\ W.pak = p /\ W.real = r
    BY <2>1, <2>2, <2>3 DEF Entry
  <2> QED
    BY <2>4 DEF f, p, r, z
<1> HIDE DEF W
<1>11. /\ dir' \in Seq(Entry) /\ Len(dir') = Len(was)
       /\ \A x \in 1 .. Stay : x # k => dir'[x] = dir[x]
       /\ \A x \in i + 1 .. Len(was) : dir'[x] = was[x]
       /\ dir'[k] = W
  BY <1>1, <1>2, <1>8, <1>9, <1>10
<1>12. Passed' = i
  BY <1>0, <1>1 DEF Passed
<1>13. Stay' = Stay
  BY <1>0, <1>1, <1>12 DEF Stay
<1>14. pakdelta' = pakdelta + 1
  BY <1>0, <1>1, <1>5 DEF PakDeltaHere
<1> QED
  BY <1>0, <1>1, <1>4, <1>8, <1>10, <1>11, <1>12, <1>13, <1>14 DEF k

\* the walk is one entry further
LEMMA MemberWalk ==
  ASSUME ArchiveInv, DropMember
  PROVE  WalkInv'
<1> DEFINE n == Len(was)
<1>0. pc = "walk" /\ i <= Len(dir) /\ Listed
  BY MemberFacts
<1>1. /\ i \in 1 .. n /\ n \in Nat /\ dedelta \in 0 .. i - 1
      /\ fposdelta \in Nat /\ pakdelta \in Nat /\ Sound(was) /\ ListInv
  BY <1>0, WalkFacts
<1>2. /\ Passed' = i /\ i' = i + 1
      /\ UNCHANGED <<list, was>> /\ IsMember(was[i])
      /\ listnum' = listnum + 1 /\ fposdelta' = fposdelta + was[i].size
      /\ dedelta' = dedelta + 1 /\ pakdelta' = pakdelta + 1
      /\ dir' \in Seq(Entry) /\ Len(dir') = n
      /\ \A x \in i + 1 .. n : dir'[x] = was[x]
  BY MemberFacts
<1>3. /\ Len(list) \in Nat /\ listnum \in 0 .. Len(list)
      /\ \A y \in 1 .. Len(list) : list[y] \in 1 .. n /\ (y <= listnum <=> list[y] <= i - 1)
      /\ \A y \in 1 .. listnum : IsPak(was[list[y]]) => list[y] + was[list[y]].pak <= i - 1
      /\ listnum + 1 \in 1 .. Len(list) /\ list[listnum + 1] = i
  BY <1>0, ListedFacts
<1>4. was[i].size \in Nat
  BY <1>1, SoundTypes
<1>a. \A x, y \in 1 .. Len(list) : x < y => list[x] < list[y]
  BY <1>1 DEF ListInv
<1> HIDE DEF n
<1>5. ASSUME NEW y \in 1 .. Len(list) PROVE y <= listnum + 1 <=> list[y] <= i
  <2>0. list[y] \in Int /\ (y <= listnum <=> list[y] <= i - 1)
    BY <1>1, <1>3
  <2>1. CASE y <= listnum
    BY <1>1, <1>3, <2>0, <2>1
  <2>2. CASE y = listnum + 1
    BY <1>1, <1>3, <2>0, <2>2
  <2>3. CASE listnum + 1 < y
    <3>1. i < list[y]
      BY <1>3, <1>a, <2>3
    <3> QED
      BY <1>1, <1>3, <2>0, <2>3, <3>1
  <2> QED
    BY <1>3, <2>1, <2>2, <2>3
<1>6. ASSUME NEW y \in 1 .. listnum + 1, IsPak(was[list[y]])
      PROVE  list[y] + was[list[y]].pak <= i
  <2>1. y # listnum + 1
    BY <1>2, <1>3, <1>6 DEF IsMember, IsPak
  <2>2. y \in 1 .. listnum
    BY <1>3, <2>1
  <2>3. list[y] + was[list[y]].pak <= i - 1
    BY <1>3, <1>6, <2>2
  <2>4. y \in 1 .. Len(list)
    BY <1>3, <2>2
  <2>5. list[y] \in 1 .. n
    BY <1>3, <2>4
  <2>6. was[list[y]].pak \in Int
    BY <1>1, <2>5, SoundTypes DEF n
  <2> QED
    BY <1>1, <2>3, <2>5, <2>6
<1>7. /\ fposdelta' \in Nat /\ pakdelta' \in Nat /\ dedelta' # 0 /\ i' \in Nat
      /\ dedelta' \in 0 .. i /\ i \in 0 .. n /\ listnum' \in 0 .. Len(list)
  BY <1>1, <1>2, <1>3, <1>4, SMTT(30)
<1> QED
  BY <1>2, <1>5, <1>6, <1>7 DEF WalkInv, n

\* the header still spans what is before it in the pak, and the gap grows by the member
LEMMA MemberGap ==
  ASSUME ArchiveInv, DropMember
  PROVE  GapInv'
<1> DEFINE s == Stay
           n == Len(was)
           k == NewHeader
           h == OldHeader
<1>0. pc = "walk" /\ i <= Len(dir) /\ Listed /\ IsMember(was[i])
  BY MemberFacts
<1>1. /\ i \in 1 .. n /\ n \in Nat /\ fposdelta \in Nat /\ Sound(was) /\ GapInv /\ Passed = i - 1
      /\ s \in 0 .. i - 1
  BY <1>0, WalkFacts
<1>2. /\ Passed' = i /\ Stay' = s /\ was' = was /\ fposdelta' = fposdelta + was[i].size
      /\ \A x \in 1 .. s : x # k => dir'[x] = dir[x]
      /\ k \in 1 .. s /\ dir'[k].type = dir[k].type /\ dir'[k].ptr = dir[k].ptr
      /\ dir'[k].size = dir[k].size - was[i].size
  BY MemberFacts
<1>3. /\ Apart(dir, s)
      /\ \A x \in 1 .. s : dir[x].ptr + dir[x].size <= DirectoryOffset(was)
      /\ \A y \in i .. n :
           /\ Header <= was[y].ptr - fposdelta
           /\ \A x \in 1 .. s : EndOf(dir[x]) <= was[y].ptr - fposdelta
  BY <1>1 DEF GapInv
<1>n. n = Len(was)
  OBVIOUS
<1>4. /\ was[i].ptr \in Nat /\ was[i].size \in Nat
      /\ \A y \in 1 .. n : was[y].ptr \in Nat /\ was[y].size \in Nat /\ EndOf(was[y]) \in Nat
  BY <1>1, SoundTypes
<1>5. \A x, y \in 1 .. n : x < y => EndOf(was[x]) <= was[y].ptr
  BY <1>1, SoundAll
<1>6. EndOf(was[i]) = was[i].ptr + was[i].size
  BY <1>0 DEF IsMember, EndOf
<1>7. \A x \in 1 .. s : dir[x].ptr \in Int /\ dir[x].size \in Int /\ EndOf(dir[x]) \in Int
  <2> SUFFICES ASSUME NEW x \in 1 .. s
               PROVE  dir[x].ptr \in Int /\ dir[x].size \in Int /\ EndOf(dir[x]) \in Int
    OBVIOUS
  <2>1. dir \in Seq(Entry) /\ x \in 1 .. Len(dir)
    BY <1>0, <1>1, WalkFacts DEF WalkInv
  <2>2. dir[x] \in Entry
    BY <2>1
  <2>3. dir[x].ptr \in Int /\ dir[x].size \in Int
    BY <2>2 DEF Entry
  <2> QED
    BY <2>3 DEF EndOf
<1>8. /\ AroundInv /\ h \in 1 .. i - 1 /\ IsPak(was[h]) /\ was[h].pak \in Nat
      /\ i <= h + was[h].pak /\ h + was[h].pak <= n
  BY <1>0, InPakFacts
<1>9. IsPak(dir[k]) /\ dir[k].ptr + dir[k].size = was[h].ptr + was[h].size - fposdelta
  BY <1>8 DEF AroundInv
<1>10. DirectoryOffset(was) \in Int
  BY <1>1, <1>4 DEF DirectoryOffset
<1> HIDE DEF s, n, k, h
<1>11. 0 <= dir'[k].size
  <2> DEFINE z == h + was[h].pak
  <2>1. z \in 1 .. n /\ i <= z /\ h < z /\ h \in 1 .. n
    BY <1>1, <1>8
  <2>2. was[h].size = EndAt(was, h, z) - was[h].ptr
    BY <1>1, <1>8, <2>1, SoundPak DEF n
  <2> HIDE DEF z
  <2>3. EndAt(was, h, z) = EndOf(was[z])
    BY <2>1, <1>1 DEF EndAt
  <2>4. EndOf(was[i]) <= EndOf(was[z])
    <3>1. CASE i = z
      BY <1>4, <2>1, <3>1
    <3>2. CASE i # z
      <4>1. EndOf(was[i]) <= was[z].ptr /\ was[z].ptr <= EndOf(was[z])
        <5>1. i < z
          BY <1>1, <2>1, <3>2
        <5>2. was[z].ptr <= EndOf(was[z])
          BY <1>4, <2>1 DEF EndOf
        <5> QED
          BY <1>1, <1>5, <2>1, <5>1, <5>2
      <4> QED
        BY <1>1, <1>4, <2>1, <4>1
    <3> QED
      BY <3>1, <3>2
  <2>5. dir[k].ptr + dir[k].size = EndOf(was[z]) - fposdelta
    BY <1>1, <1>4, <1>9, <2>1, <2>2, <2>3
  <2>6. dir[k].ptr <= was[i].ptr - fposdelta
    <3>1. i \in i .. n
      BY <1>1
    <3>2. EndOf(dir[k]) <= was[i].ptr - fposdelta
      BY <1>2, <1>3, <3>1
    <3> QED
      BY <1>9, <3>2 DEF EndOf, IsPak
  <2>7. dir[k].ptr \in Int /\ dir[k].size \in Int
    BY <1>2, <1>7
  <2> QED
    BY <1>1, <1>2, <1>4, <1>6, <2>1, <2>4, <2>5, <2>6, <2>7
<1>12. \A x \in 1 .. s : dir'[x].ptr = dir[x].ptr /\ 0 <= dir'[x].size /\ EndOf(dir'[x]) = EndOf(dir[x])
                         /\ dir'[x].ptr + dir'[x].size <= DirectoryOffset(was)
  <2> SUFFICES ASSUME NEW x \in 1 .. s
               PROVE  /\ dir'[x].ptr = dir[x].ptr /\ 0 <= dir'[x].size
                      /\ EndOf(dir'[x]) = EndOf(dir[x])
                      /\ dir'[x].ptr + dir'[x].size <= DirectoryOffset(was)
    OBVIOUS
  <2>1. CASE x = k
    <3>1. EndOf(dir'[x]) = EndOf(dir[x])
      BY <1>2, <1>9, <2>1 DEF EndOf, IsPak
    <3>2. dir[x].ptr + dir[x].size <= DirectoryOffset(was)
      BY <1>3
    <3>3. dir'[x].ptr + dir'[x].size <= DirectoryOffset(was)
      BY <1>2, <1>4, <1>7, <1>10, <2>1, <3>2
    <3> QED
      BY <1>2, <1>11, <2>1, <3>1, <3>3
  <2>2. CASE x # k
    BY <1>2, <1>3, <2>2 DEF Apart
  <2> QED
    BY <2>1, <2>2
<1>13. Apart(dir', s)
  BY <1>3, <1>12 DEF Apart
<1>14. ASSUME NEW y \in i + 1 .. n
       PROVE  /\ Header <= was[y].ptr - fposdelta'
              /\ \A x \in 1 .. s : EndOf(dir'[x]) <= was[y].ptr - fposdelta'
  <2>1. y \in 1 .. n /\ i < y /\ i \in i .. n
    BY <1>1
  <2>2. was[i].ptr + was[i].size <= was[y].ptr
    BY <1>1, <1>5, <1>6, <2>1
  <2>3. was[i].ptr - fposdelta <= was[y].ptr - fposdelta'
    BY <1>1, <1>2, <1>4, <2>1, <2>2
  <2>4. was[y].ptr - fposdelta' \in Int /\ was[i].ptr - fposdelta \in Int
    BY <1>1, <1>2, <1>4, <2>1
  <2>5. Header <= was[i].ptr - fposdelta
    BY <1>3, <2>1
  <2>6. \A x \in 1 .. s : EndOf(dir'[x]) <= was[i].ptr - fposdelta /\ EndOf(dir'[x]) \in Int
    BY <1>3, <1>7, <1>12, <2>1
  <2> QED
    BY <2>3, <2>4, <2>5, <2>6 DEF Header
<1> QED
  BY <1>2, <1>12, <1>13, <1>14 DEF GapInv, n

\* the header counts and spans what stays of its pak
LEMMA MemberPak ==
  ASSUME ArchiveInv, DropMember
  PROVE  PakWalkInv'
<1> DEFINE s == Stay
           n == Len(was)
           w == was[i]
           k == NewHeader
           h == OldHeader
<1>0. pc = "walk" /\ i <= Len(dir) /\ Listed /\ IsMember(w)
  BY MemberFacts
<1>1. /\ i \in 1 .. n /\ n \in Nat /\ fposdelta \in Nat /\ Sound(was) /\ Passed = i - 1
      /\ s \in 0 .. i - 1 /\ s = i - 1 - dedelta /\ PakWalkInv /\ pakdelta \in Nat
      /\ dedelta \in 0 .. i - 1 /\ ListInv
  BY <1>0, WalkFacts
<1>2. /\ Passed' = i /\ Stay' = s
      /\ UNCHANGED <<list, was>> /\ listnum' = listnum + 1
      /\ fposdelta' = fposdelta + w.size
      /\ dedelta' = dedelta + 1 /\ pakdelta' = pakdelta + 1
      /\ \A x \in 1 .. s : x # k => dir'[x] = dir[x]
      /\ k \in 1 .. s
      /\ dir'[k].name = dir[k].name /\ dir'[k].type = dir[k].type
      /\ dir'[k].ptr = dir[k].ptr /\ dir'[k].size = dir[k].size - w.size
      /\ dir'[k].pak = dir[k].pak - 1
  BY MemberFacts
<1>3. /\ InPak /\ AroundInv /\ h = i - w.pak
      /\ h \in 1 .. i - 1 /\ IsPak(was[h])
      /\ w.pak \in Nat \ {0}
      /\ was[h].pak \in Nat /\ i <= h + was[h].pak /\ h + was[h].pak <= n
      /\ k = i - w.pak - dedelta + pakdelta
      /\ pakdelta < w.pak /\ w.ptr = EndAt(was, h, Passed)
  BY <1>0, InPakFacts
<1>4. /\ InPak' <=> i < n /\ IsMember(was[i + 1])
      /\ OldHeader' = i + 1 - was[i + 1].pak
  BY <1>2 DEF InPak, OldHeader
<1>5. NewHeader' = OldHeader' - (dedelta + 1) + (pakdelta + 1)
  BY <1>2 DEF NewHeader
<1>6. /\ IsPak(dir[k]) /\ dir[k].name = was[h].name
      /\ dir[k].pak = was[h].pak - pakdelta
      /\ dir[k].ptr + dir[k].size = was[h].ptr + was[h].size - fposdelta
      /\ Members(dir, k, s)
      /\ EndAt(dir, k, s) = EndAt(was, h, Passed) - fposdelta
      /\ pakdelta <= Passed - h
  BY <1>3 DEF AroundInv
<1>7. WholePaks(dir, k - 1) /\ Counts(dir, s)
  BY <1>1, <1>3 DEF PakWalkInv
<1>8. w.ptr \in Nat /\ w.size \in Nat /\ EndOf(w) = w.ptr + w.size
  <2>1. w.ptr \in Nat /\ w.size \in Nat
    BY <1>1, SoundTypes
  <2> QED
    BY <1>0, <2>1 DEF EndOf, IsMember
<1>9. /\ was[h].ptr \in Int /\ was[h].size \in Int
      /\ was[h].size = EndAt(was, h, h + was[h].pak) - was[h].ptr
      /\ \A y \in h + 1 .. h + was[h].pak : IsMember(was[y]) /\ was[y].pak = y - h
  <2>1. h \in 1 .. n
    BY <1>1, <1>3
  <2>2. was[h].ptr \in Nat /\ was[h].size \in Nat
    BY <1>1, <2>1, SoundTypes
  <2>5. Sound(was) /\ IsPak(was[h])
    BY <1>1, <1>3
  <2>3. was[h].size = EndAt(was, h, h + was[h].pak) - was[h].ptr
    BY <2>1, <2>5, SoundPak
  <2>4. \A y \in h + 1 .. h + was[h].pak : IsMember(was[y]) /\ was[y].pak = y - h
    BY <2>1, <2>5, SoundPak
  <2> QED
    BY <2>2, <2>3, <2>4
<1>10. /\ i + 1 \in 1 .. n /\ i < h + was[h].pak => IsMember(was[i + 1]) /\ was[i + 1].pak = i + 1 - h
       /\ i + 1 \in 1 .. n /\ i = h + was[h].pak => ~IsMember(was[i + 1])
  <2> DEFINE b == was[h].pak
  <2>1. h \in 1 .. n /\ i \in h .. h + b
    <3>1. h \in 1 .. i - 1 /\ b \in Nat /\ i <= h + b /\ i \in 1 .. n /\ n \in Nat
      BY <1>1, <1>3
    <3> HIDE DEF b, h, n
    <3> QED
      BY <3>1
  <2> QED
    BY <1>1, <1>3, <2>1, SoundSamePak
<1>11. dir[k].ptr \in Int /\ dir[k].size \in Int /\ dir[k].pak \in Int
  <2>1. dir \in Seq(Entry) /\ k \in 1 .. Len(dir)
    BY <1>0, <1>1, <1>2, WalkFacts DEF WalkInv
  <2>2. dir[k] \in Entry
    BY <2>1
  <2> QED
    BY <2>2 DEF Entry
<1>12. i + 1 \in 1 .. n => i + 1 \in DOMAIN was
  BY <1>1 DEF Sound
<1>14. /\ listnum \in Nat /\ listnum + 1 \in 1 .. listnum + 1 /\ list[listnum + 1] = i
       /\ listnum + 1 \in 1 .. Len(list)
  BY <1>0, ListedFacts
<1> HIDE DEF s, n, w, k, h
<1>15. Counts(dir', s)
  <2> SUFFICES ASSUME NEW x \in 1 .. s, IsPak(dir'[x]) PROVE dir'[x].pak < 65536
    BY DEF Counts
  <2>1. CASE x = k
    <3>1. dir[k].pak < 65536
      BY <1>2, <1>6, <1>7 DEF Counts
    <3> QED
      BY <1>2, <1>11, <2>1, <3>1
  <2>2. CASE x # k
    BY <1>2, <1>7, <2>2 DEF Counts
  <2> QED
    BY <2>1, <2>2
<1>16. WholePaks(dir', k - 1)
  <2>1. k - 1 \in Int /\ \A x \in 1 .. k - 1 : dir'[x] = dir[x]
    BY <1>1, <1>2
  <2> QED
    BY <1>7, <2>1, WholePaksSame, Zenon
<1>17. EndAt(dir', k, s) = EndAt(dir, k, s)
  BY <1>1, <1>2 DEF EndAt
<1>18. Members(dir', k, s)
  <2> SUFFICES ASSUME NEW x \in k + 1 .. s
               PROVE  /\ IsMember(dir'[x]) /\ dir'[x].pak = x - k
                      /\ dir'[x].ptr = EndAt(dir', k, x - 1)
    BY DEF Members
  <2>1. x \in 1 .. s /\ x # k /\ x - 1 \in 1 .. s /\ k \in Int
    BY <1>1, <1>2
  <2>2. IsMember(dir[x]) /\ dir[x].pak = x - k /\ dir[x].ptr = EndAt(dir, k, x - 1)
    BY <1>6 DEF Members
  <2>3. EndAt(dir', k, x - 1) = EndAt(dir, k, x - 1)
    BY <1>2, <2>1 DEF EndAt
  <2> QED
    BY <1>2, <2>1, <2>2, <2>3
<1>19. EndAt(was, h, i) = EndOf(w) /\ h # i
  BY <1>1, <1>3 DEF EndAt, w
<1>20. EndAt(dir', k, s) = EndAt(was, h, i) - fposdelta'
  BY <1>1, <1>2, <1>3, <1>6, <1>8, <1>17, <1>19
<1>21. IsPak(dir'[k])
  BY <1>2, <1>6 DEF IsPak
<1>22. CASE i < h + was[h].pak
  <2>1. i + 1 \in 1 .. n
    BY <1>1, <1>3, <1>22
  <2>2. IsMember(was[i + 1]) /\ was[i + 1].pak = i + 1 - h
    BY <1>10, <1>22, <2>1
  <2>3. InPak' /\ OldHeader' = h
    BY <1>1, <1>3, <1>4, <2>1, <2>2
  <2>4. NewHeader' = k
    <3>1. k = h - dedelta + pakdelta
      BY <1>3
    <3>2. h \in Int /\ dedelta \in Int /\ pakdelta \in Int
      BY <1>1, <1>3
    <3> QED
      BY <1>5, <2>3, <3>1, <3>2
  <2>5. pakdelta + 1 <= i - h
    BY <1>1, <1>3, <1>6
  <2>6. list[listnum + 1] \in h + 1 .. i
    <3>1. h \in 1 .. i - 1 /\ i \in Int
      BY <1>1, <1>3
    <3> HIDE DEF h
    <3> QED
      BY <1>14, <3>1
  <2>7. dir'[k].pak = was[h].pak - (pakdelta + 1)
    BY <1>1, <1>2, <1>3, <1>6
  <2>8. dir'[k].ptr + dir'[k].size = was[h].ptr + was[h].size - fposdelta'
    BY <1>1, <1>2, <1>6, <1>8, <1>9, <1>11
  <2>9. dir'[k].name = was[h].name
    BY <1>2, <1>6
  <2>10. AroundInv'
    BY <1>2, <1>14, <1>18, <1>20, <1>21, <2>3, <2>4, <2>5, <2>6, <2>7, <2>8, <2>9 DEF AroundInv
  <2>11. ~IsPak(was[i + 1])
    BY <2>2 DEF IsMember, IsPak
  <2> QED
    BY <1>2, <1>15, <1>16, <2>3, <2>4, <2>10, <2>11 DEF PakWalkInv
<1>23. CASE ~(i < h + was[h].pak)
  <2>1. i = h + was[h].pak
    BY <1>1, <1>3, <1>23
  <2>2. ~InPak'
    <3>1. SUFFICES ASSUME i < n PROVE ~IsMember(was[i + 1])
      BY <1>4
    <3>2. i + 1 \in 1 .. n
      BY <1>1, <3>1
    <3> QED
      BY <1>10, <2>1, <3>2
  <2>3. dir'[k].size = EndAt(dir', k, s) - dir'[k].ptr
    <3>1. was[h].size = EndOf(w) - was[h].ptr
      BY <1>9, <1>19, <2>1
    <3>2. dir[k].ptr + dir[k].size = EndOf(w) - fposdelta
      BY <1>1, <1>6, <1>8, <1>9, <3>1
    <3>3. EndAt(dir', k, s) = EndOf(w) - (fposdelta + w.size) /\ EndOf(w) \in Int
      BY <1>2, <1>8, <1>19, <1>20
    <3>4. dir'[k].size = dir[k].size - w.size /\ dir'[k].ptr = dir[k].ptr
      BY <1>2
    <3> QED
      <4> DEFINE a == dir[k].size
                 b == dir[k].ptr
                 c == w.size
                 m == EndOf(w)
                 f == fposdelta
      <4>1. a \in Int /\ b \in Int /\ c \in Int /\ m \in Int /\ f \in Int /\ b + a = m - f
        BY <1>1, <1>8, <1>11, <3>2, <3>3
      <4>2. dir'[k].size = a - c /\ dir'[k].ptr = b /\ EndAt(dir', k, s) = m - (f + c)
        BY <3>3, <3>4
      <4> HIDE DEF a, b, c, m, f
      <4> QED
        BY <4>1, <4>2
  <2>4. dir'[k].pak = s - k
    <3>1. was[h].pak \in Int /\ h \in Int /\ i \in Int /\ h = i - w.pak /\ w.pak \in Int
      BY <1>1, <1>3
    <3>2. was[h].pak = w.pak
      <4> DEFINE m == was[h].pak
                 v == w.pak
      <4>1. m \in Int /\ v \in Int /\ h = i - v /\ i = h + m
        BY <2>1, <3>1
      <4> HIDE DEF m, v
      <4>2. m = v
        BY <3>1, <4>1
      <4> QED
        BY <4>2 DEF m, v
    <3>3. dir'[k].pak = w.pak - pakdelta - 1
      BY <1>2, <1>6, <3>2
    <3>4. k = i - w.pak - dedelta + pakdelta
      BY <1>3
    <3> QED
      BY <1>1, <3>1, <3>3, <3>4
  <2>5. WholePaks(dir', s)
    <3>1. k \in Nat \ {0} /\ s \in Nat /\ k <= s
      BY <1>1, <1>2
    <3> QED
      BY <1>16, <1>18, <1>21, <2>3, <2>4, <3>1, PakJoins, Zenon
  <2>6. ~(i < n /\ IsPak(was[i + 1]) /\ was[i + 1].pak # 0)
    <3> SUFFICES ASSUME i < n, IsPak(was[i + 1]), was[i + 1].pak # 0 PROVE FALSE
      OBVIOUS
    <3>1. i \in h + 1 .. h + was[h].pak
      BY <1>1, <1>3
    <3>2. IsMember(was[i]) /\ was[i].pak = i - h
      BY <1>9, <3>1
    <3>3. list[listnum + 1] - was[list[listnum + 1]].pak = h
      <4>1. i - was[i].pak = h
        BY <1>1, <1>3, <3>2
      <4> QED
        BY <1>14, <4>1
    <3>4. i + 1 \in 1 .. n
      BY <1>1
    <3>5. h + was[h].pak + 1 = i + 1 /\ i + 1 \in DOMAIN was
      BY <1>12, <2>1, <3>4
    <3>6. IsMember(was[list[listnum + 1]])
      BY <1>14, <3>2
    <3>8. h \in DOMAIN was
      <4>1. h \in 1 .. n
        BY <1>1, <1>3
      <4>2. DOMAIN was = 1 .. n
        BY <1>1 DEF Sound, n
      <4> QED
        BY <4>1, <4>2
    <3>7. AnotherPakFollows(was, list)
      BY <1>14, <3>3, <3>5, <3>6, <3>8 DEF AnotherPakFollows
    <3> QED
      BY <1>1, <3>7 DEF ListInv
  <2>7. ~(Passed < Len(was) /\ IsPak(was[Passed + 1]) /\ was[Passed + 1].pak # 0)'
    BY <1>2, <2>6 DEF n
  <2> QED
    BY <1>2, <1>15, <2>2, <2>5, <2>7 DEF PakWalkInv
<1> QED
  BY <1>22, <1>23

-----------------------------------------------------------------------------
(* Streams on their way down.                                              *)

\* an entry that differs from a readable one at most in its number is readable; it may
\* also have moved if there is no stream to move
LEMMA ReadableAlike ==
  ASSUME NEW d, NEW e, NEW f, EntryReadable(d, f),
         e.name = f.name, e.type = f.type, e.size = f.size, e.real = f.real, f.size \in Nat,
         HasData(f) /\ f.size # 0 => e.ptr = f.ptr
  PROVE  EntryReadable(d, e)
<1> SUFFICES ASSUME HasData(e)
             PROVE  /\ e.real = Real[e.name]
                    /\ e.size = IF e.type = "STORE" THEN Real[e.name] ELSE Comp[e.name]
                    /\ \A k \in 0 .. e.size - 1 :
                         e.ptr + k \in DOMAIN d /\ d[e.ptr + k] = DataCell(FormOf(e), e.name, k)
  BY DEF EntryReadable
<1>1. HasData(f) /\ FormOf(f) = FormOf(e)
  BY DEF HasData, FormOf
<1>2. /\ f.real = Real[f.name]
      /\ f.size = IF f.type = "STORE" THEN Real[f.name] ELSE Comp[f.name]
      /\ \A k \in 0 .. f.size - 1 :
           f.ptr + k \in DOMAIN d /\ d[f.ptr + k] = DataCell(FormOf(f), f.name, k)
  BY <1>1 DEF EntryReadable
<1>3. ASSUME NEW k \in 0 .. e.size - 1 PROVE e.ptr = f.ptr
  BY <1>1
<1> QED
  BY <1>1, <1>2, <1>3

\* a pak header has no stream
LEMMA PakReadable == ASSUME NEW d, NEW e, IsPak(e) PROVE EntryReadable(d, e)
  BY DEF EntryReadable, IsPak, HasData

\* an entry that stays can be read where it is or is about to be copied
LEMMA KeepStreams ==
  ASSUME ArchiveInv, KeepEntry, StreamWalkInv
  PROVE  StreamWalkInv'
<1> DEFINE s == Stay
           n == Len(was)
           w == was[i]
           e == dir'[s + 1]
<1>0. pc = "walk" /\ i <= Len(dir)
  BY KeepFactsOfWalk
<1>1. /\ i \in 1 .. n /\ n \in Nat /\ fposdelta \in Nat /\ Sound(was) /\ Passed = i - 1
      /\ s \in 0 .. i - 1 /\ WalkInv
  BY <1>0, WalkFacts
<1>2. /\ Passed' = i /\ Stay' = s + 1 /\ UNCHANGED <<disk, fposdelta, was>>
      /\ \A x \in 1 .. s : dir'[x] = dir[x]
      /\ e.name = w.name /\ e.type = w.type /\ e.size = w.size /\ e.real = w.real
      /\ e.ptr = w.ptr - fposdelta
      /\ IF dedelta # 0 /\ fposdelta # 0 /\ HasData(w) /\ w.size # 0
         THEN pc' = "copy" /\ curpos' = w.ptr /\ togo' = w.size /\ i' = i
         ELSE pc' = "walk" /\ i' = i + 1 /\ UNCHANGED <<curpos, togo>>
  BY KeepFactsOfWalk
<1>3. w.ptr \in Nat /\ w.size \in Nat
  BY <1>1, SoundTypes
<1>4. /\ \A x \in 1 .. s : EntryReadable(disk, dir[x])
      /\ \A x \in i .. n : EntryReadable(disk, was[x])
  BY <1>0, <1>1 DEF StreamWalkInv
<1>5. /\ \A x \in 1 .. s : EntryReadable(disk, dir'[x])
      /\ \A x \in i + 1 .. n : EntryReadable(disk, was[x])
  BY <1>1, <1>2, <1>4
<1>6. EntryReadable(disk, w)
  BY <1>1, <1>4
<1>d. DOMAIN disk = Positions /\ (dedelta = 0 => fposdelta = 0)
  BY <1>1 DEF ArchiveInv, SessionTypes, WalkInv
<1>7. CASE dedelta # 0 /\ fposdelta # 0 /\ HasData(w) /\ w.size # 0
  <2>1. pc' = "copy" /\ togo' = w.size /\ i' = i
    BY <1>2, <1>7
  <2>2. /\ w.real = Real[w.name]
        /\ w.size = IF w.type = "STORE" THEN Real[w.name] ELSE Comp[w.name]
        /\ \A k \in 0 .. w.size - 1 :
             w.ptr + k \in Positions /\ disk[w.ptr + k] = DataCell(FormOf(w), w.name, k)
    BY <1>6, <1>7, <1>d DEF EntryReadable
  <2>3. Cells(disk, w, w.ptr - fposdelta, 0, w.size - w.size - 1)
    BY <1>3 DEF Cells
  <2>4. w.size - w.size = 0
    BY <1>3
  <2>5. Cells(disk, w, w.ptr, w.size - w.size, w.size - 1)
    BY <2>2, <2>4 DEF Cells
  <2>6. Stay' - 1 = s
    BY <1>1, <1>2
  <2> QED
    BY <1>2, <1>5, <2>1, <2>2, <2>3, <2>5, <2>6 DEF StreamWalkInv
<1>8. CASE ~(dedelta # 0 /\ fposdelta # 0 /\ HasData(w) /\ w.size # 0)
  <2>1. pc' = "walk"
    BY <1>2, <1>8
  <2>2. HasData(w) /\ w.size # 0 => e.ptr = w.ptr
    BY <1>2, <1>3, <1>8, <1>d
  <2>3. EntryReadable(disk, e)
    BY <1>2, <1>3, <1>6, <2>2, ReadableAlike
  <2>4. \A x \in 1 .. s + 1 : EntryReadable(disk, dir'[x])
    BY <1>1, <1>5, <2>3
  <2> QED
    BY <1>2, <1>5, <2>1, <2>4 DEF StreamWalkInv
<1> QED
  BY <1>7, <1>8

\* and then the copy begins as it should
LEMMA KeepCopy ==
  ASSUME ArchiveInv, KeepEntry, pc' = "copy"
  PROVE  CopyInv'
<1> DEFINE s == Stay
           w == was[i]
<1>0. pc = "walk" /\ i <= Len(dir)
  BY KeepFactsOfWalk
<1>1. /\ i \in 1 .. Len(was) /\ fposdelta \in Nat /\ Sound(was) /\ s \in 0 .. i - 1
  BY <1>0, WalkFacts
<1>2. /\ Stay' = s + 1 /\ UNCHANGED <<fposdelta, was>>
      /\ dir'[s + 1].name = w.name /\ dir'[s + 1].type = w.type /\ dir'[s + 1].size = w.size
      /\ dir'[s + 1].real = w.real /\ dir'[s + 1].ptr = w.ptr - fposdelta
      /\ fposdelta # 0 /\ HasData(w) /\ w.size # 0
      /\ curpos' = w.ptr /\ togo' = w.size /\ i' = i
  BY KeepFactsOfWalk
<1>3. w.ptr \in Nat /\ w.size \in Nat
  BY <1>1, SoundTypes
<1>4. i \in DOMAIN was /\ 1 <= s + 1 /\ w.size \in 1 .. w.size
      /\ w.ptr = w.ptr + w.size - w.size
  BY <1>1, <1>2, <1>3 DEF Sound
<1> QED
  BY <1>2, <1>4 DEF CopyInv

\* dropping an entry or a whole pak loses no other stream
LEMMA DropStreams ==
  ASSUME ArchiveInv, DropEntry, StreamWalkInv
  PROVE  StreamWalkInv'
<1>1. /\ pc = "walk" /\ pc' = "walk" /\ Passed' = i + Group(was[i]) /\ Stay' = Stay
      /\ Group(was[i]) \in Nat /\ i + Group(was[i]) <= Len(was)
      /\ UNCHANGED <<disk, was>> /\ i <= Len(dir)
      /\ \A x \in 1 .. Stay : dir'[x] = dir[x]
  BY DropFacts
<1>2. Passed = i - 1 /\ i \in 1 .. Len(was) /\ Len(was) \in Nat
  BY <1>1, WalkFacts
<1>3. /\ \A x \in 1 .. Stay : EntryReadable(disk, dir[x])
      /\ \A x \in i .. Len(was) : EntryReadable(disk, was[x])
  BY <1>1, <1>2 DEF StreamWalkInv
<1>4. \A x \in i + Group(was[i]) + 1 .. Len(was) : x \in i .. Len(was)
  BY <1>1, <1>2
<1> QED
  BY <1>1, <1>3, <1>4 DEF StreamWalkInv

\* dropping a member loses no other stream
LEMMA MemberStreams ==
  ASSUME ArchiveInv, DropMember, StreamWalkInv
  PROVE  StreamWalkInv'
<1>1. /\ pc = "walk" /\ pc' = "walk" /\ Passed' = i /\ Stay' = Stay
      /\ UNCHANGED <<disk, was>> /\ i <= Len(dir) /\ IsMember(was[i])
      /\ \A x \in 1 .. Stay : x # NewHeader => dir'[x] = dir[x]
      /\ dir'[NewHeader].type = dir[NewHeader].type
  BY MemberFacts
<1>2. Passed = i - 1 /\ i \in 1 .. Len(was) /\ Len(was) \in Nat
  BY <1>1, WalkFacts
<1>3. IsPak(dir[NewHeader])
  BY <1>1, InPakFacts DEF AroundInv
<1>4. /\ \A x \in 1 .. Stay : EntryReadable(disk, dir[x])
      /\ \A x \in i .. Len(was) : EntryReadable(disk, was[x])
  BY <1>1, <1>2 DEF StreamWalkInv
<1>5. EntryReadable(disk, dir'[NewHeader])
  BY <1>1, <1>3, PakReadable DEF IsPak
<1>6. \A x \in 1 .. Stay : EntryReadable(disk, dir'[x])
  BY <1>1, <1>4, <1>5
<1>7. \A x \in i + 1 .. Len(was) : EntryReadable(disk, was[x])
  BY <1>2, <1>4
<1> QED
  BY <1>1, <1>6, <1>7 DEF StreamWalkInv

\* where the copy is: what it reads lies before the old directory's place, what it writes
\* behind everything that stays, and all of it before what is still to come
LEMMA CopyFacts ==
  ASSUME ArchiveInv, pc = "copy"
  PROVE  /\ Sound(was) /\ ListInv /\ WalkInv /\ GapInv /\ PakWalkInv /\ CopyInv
         /\ hdr = 0 /\ i \in 1 .. Len(was) /\ Len(was) \in Nat /\ Passed = i
         /\ Stay \in 1 .. i /\ fposdelta \in Nat \ {0}
         /\ was[i] \in Entry /\ was[i].ptr \in Nat /\ was[i].size \in Nat
         /\ togo \in 1 .. was[i].size /\ curpos = was[i].ptr + was[i].size - togo
         /\ dir[Stay].ptr = was[i].ptr - fposdelta /\ dir[Stay].type = was[i].type
         /\ dir[Stay].name = was[i].name /\ dir[Stay].size = was[i].size
         /\ dir[Stay].real = was[i].real /\ HasData(was[i])
         /\ Header <= was[i].ptr - fposdelta /\ was[i].ptr + was[i].size <= Cap
         /\ \A y \in i + 1 .. Len(was) : was[i].ptr + was[i].size <= was[y].ptr
<1>1. /\ Sound(was) /\ ListInv /\ WalkInv /\ GapInv /\ PakWalkInv /\ CopyInv
      /\ hdr = 0 /\ Passed = i
  BY DEF ArchiveInv, DelInv, Deleting, Passed
<1>2. /\ i \in 1 .. Len(was) /\ Len(was) \in Nat
      /\ fposdelta \in Nat \ {0} /\ dedelta \in 0 .. i
      /\ togo \in 1 .. was[i].size /\ curpos = was[i].ptr + was[i].size - togo
      /\ dir[Stay].ptr = was[i].ptr - fposdelta /\ dir[Stay].type = was[i].type
      /\ dir[Stay].name = was[i].name /\ dir[Stay].size = was[i].size
      /\ dir[Stay].real = was[i].real /\ HasData(was[i]) /\ 1 <= Stay
  BY <1>1 DEF Sound, WalkInv, CopyInv
<1>3. Stay \in 1 .. i
  BY <1>1, <1>2 DEF Stay
<1>4. was[i] \in Entry /\ was[i].ptr \in Nat /\ was[i].size \in Nat
  BY <1>1, <1>2, SoundTypes
<1>5. Header <= was[i].ptr - fposdelta
  BY <1>1, <1>2, <1>3 DEF GapInv, Apart
<1>6. /\ Group(was[i]) = 0 /\ EndOf(was[i]) = was[i].ptr + was[i].size
  BY <1>2 DEF Group, IsPak, HasData, EndOf
<1>7. was[i].ptr + was[i].size <= Cap
  <2>1. was[i].ptr + was[i].size <= DirectoryOffset(was)
    BY <1>1, <1>2, SoundExtent
  <2>2. DirectoryOffset(was) + Len(was) <= Cap
    BY <1>1 DEF Sound, Fits
  <2>3. DirectoryOffset(was) \in Int
    <3>1. Len(was) \in 1 .. Len(was)
      BY <1>2, SMTT(30)
    <3>2. was[Len(was)].ptr \in Nat /\ was[Len(was)].size \in Nat
      BY <1>1, <3>1, SoundTypes
    <3> QED
      BY <3>2 DEF DirectoryOffset
  <2> QED
    BY <1>2, <1>4, <2>1, <2>2, <2>3, FormatAssumption
<1>8. \A y \in i + 1 .. Len(was) : was[i].ptr + was[i].size <= was[y].ptr
  <2> SUFFICES ASSUME NEW y \in i + 1 .. Len(was)
               PROVE  was[i].ptr + was[i].size <= was[y].ptr
    OBVIOUS
  <2>1. y \in 1 .. Len(was) /\ i < y
    BY <1>2
  <2> QED
    BY <1>1, <1>2, <1>6, <2>1 DEF Sound, Apart
<1> QED
  BY <1>1, <1>2, <1>3, <1>4, <1>5, <1>7, <1>8

\* a turn of the copy loop, in numbers of its own: m cells of the stream have arrived, c
\* more are copied
LEMMA CopyStep ==
  ASSUME ArchiveInv, CopyGoesOn
  PROVE  \E m \in Nat, c \in Nat \ {0} :
           /\ m + c <= was[i].size /\ togo = was[i].size - m /\ ChunkSize = c
           /\ \A v \in 0 .. c : CopyTo(v) =
                [x \in Positions |->
                   IF x \in was[i].ptr - fposdelta + m .. was[i].ptr - fposdelta + m + v - 1
                   THEN disk[x + fposdelta] ELSE disk[x]]
           /\ IF m + c = was[i].size
              THEN pc' = "walk" /\ i' = i + 1
              ELSE /\ pc' = "copy" /\ i' = i
                   /\ togo' = was[i].size - (m + c) /\ curpos' = was[i].ptr + (m + c)
<1> DEFINE c == IF togo > Chunk THEN Chunk ELSE togo
           z == was[i].size
           p == was[i].ptr
           m == z - togo
<1>1. /\ pc = "copy" /\ ChunkSize = c
      /\ IF togo = c
         THEN pc' = "walk" /\ i' = i + 1 /\ curpos' = 0 /\ togo' = 0
         ELSE curpos' = curpos + c /\ togo' = togo - c /\ UNCHANGED <<pc, i>>
  BY DEF CopyGoesOn, ChunkSize
<1>2. /\ fposdelta \in Nat /\ p \in Nat /\ z \in Nat /\ togo \in 1 .. z /\ curpos = p + z - togo
  BY <1>1, CopyFacts
<1>3. DOMAIN disk = Positions
  BY DEF ArchiveInv, SessionTypes
<1>4. c \in Nat \ {0} /\ c <= togo
  BY <1>2, DeleteAssumption
<1>5. m \in Nat /\ togo = z - m /\ curpos = p + m
  BY <1>2
<1> HIDE DEF c, m, z, p
<1>6. \A v \in 0 .. c : /\ curpos - fposdelta = p - fposdelta + m
                       /\ curpos - fposdelta + v - 1 = p - fposdelta + m + v - 1
  BY <1>2, <1>4, <1>5
<1>7. \A v \in 0 .. c : CopyTo(v) =
        [x \in Positions |-> IF x \in p - fposdelta + m .. p - fposdelta + m + v - 1
                             THEN disk[x + fposdelta] ELSE disk[x]]
  BY <1>3, <1>6 DEF CopyTo
<1>8. m + c <= z
  BY <1>2, <1>4, <1>5
<1>9. IF m + c = z
      THEN pc' = "walk" /\ i' = i + 1
      ELSE pc' = "copy" /\ i' = i /\ togo' = z - (m + c) /\ curpos' = p + (m + c)
  <2>1. m + c = z <=> togo = c
    BY <1>2, <1>4, <1>5
  <2>2. z - (m + c) = togo - c /\ p + (m + c) = curpos + c
    BY <1>2, <1>4, <1>5
  <2> QED
    BY <1>1, <2>1, <2>2
<1> QED
  BY <1>1, <1>4, <1>5, <1>7, <1>8, <1>9 DEF p, z

\* the same when all of the chunk gets there
LEMMA ChunkStep ==
  ASSUME ArchiveInv, CopyChunk
  PROVE  \E m \in Nat, c \in Nat \ {0} :
           /\ m + c <= was[i].size /\ togo = was[i].size - m
           /\ disk' = [x \in Positions |->
                         IF x \in was[i].ptr - fposdelta + m .. was[i].ptr - fposdelta + m + c - 1
                         THEN disk[x + fposdelta] ELSE disk[x]]
           /\ IF m + c = was[i].size
              THEN pc' = "walk" /\ i' = i + 1
              ELSE /\ pc' = "copy" /\ i' = i
                   /\ togo' = was[i].size - (m + c) /\ curpos' = was[i].ptr + (m + c)
<1>1. CopyGoesOn /\ disk' = CopyTo(ChunkSize)
  BY DEF CopyChunk
<1>2. PICK m \in Nat, c \in Nat \ {0} :
           /\ m + c <= was[i].size /\ togo = was[i].size - m /\ ChunkSize = c
           /\ \A v \in 0 .. c : CopyTo(v) =
                [x \in Positions |->
                   IF x \in was[i].ptr - fposdelta + m .. was[i].ptr - fposdelta + m + v - 1
                   THEN disk[x + fposdelta] ELSE disk[x]]
           /\ IF m + c = was[i].size
              THEN pc' = "walk" /\ i' = i + 1
              ELSE /\ pc' = "copy" /\ i' = i
                   /\ togo' = was[i].size - (m + c) /\ curpos' = was[i].ptr + (m + c)
  BY <1>1, CopyStep
<1>3. c \in 0 .. c
  OBVIOUS
<1>4. disk' = [x \in Positions |->
                 IF x \in was[i].ptr - fposdelta + m .. was[i].ptr - fposdelta + m + c - 1
                 THEN disk[x + fposdelta] ELSE disk[x]]
  BY <1>1, <1>2, <1>3
<1> QED
  BY <1>2, <1>4

\* the file stays a file, however much of the chunk gets there
LEMMA CopyCells ==
  ASSUME ArchiveInv, CopyGoesOn, NEW v \in 0 .. ChunkSize
  PROVE  DOMAIN CopyTo(v) = Positions /\ \A x \in Positions : CellOK(CopyTo(v)[x])
<1>1. pc = "copy"
  BY DEF CopyGoesOn
<1>2. /\ fposdelta \in Nat /\ was[i].ptr \in Nat /\ was[i].size \in Nat
      /\ was[i].ptr + was[i].size <= Cap
  BY <1>1, CopyFacts
<1>3. PICK m \in Nat : \E c \in Nat \ {0} :
        /\ m + c <= was[i].size /\ ChunkSize = c
        /\ \A u \in 0 .. c : CopyTo(u) =
             [x \in Positions |->
                IF x \in was[i].ptr - fposdelta + m .. was[i].ptr - fposdelta + m + u - 1
                THEN disk[x + fposdelta] ELSE disk[x]]
  BY CopyStep
<1> DEFINE d == CopyTo(v)
<1>7. /\ v \in Nat /\ m + v <= was[i].size
      /\ d = [x \in Positions |->
                IF x \in was[i].ptr - fposdelta + m .. was[i].ptr - fposdelta + m + v - 1
                THEN disk[x + fposdelta] ELSE disk[x]]
  BY <1>2, <1>3
<1> HIDE DEF d
<1>4. \A x \in Positions : CellOK(disk[x])
  BY DEF ArchiveInv, SessionTypes
<1>5. ASSUME NEW x \in Positions,
             x \in was[i].ptr - fposdelta + m .. was[i].ptr - fposdelta + m + v - 1
      PROVE  x + fposdelta \in Positions
  <2> DEFINE p == was[i].ptr
             z == was[i].size
  <2>1. /\ p \in Nat /\ z \in Nat /\ p + z <= Cap /\ fposdelta \in Nat /\ m + v <= z
        /\ x \in 0 .. Cap - 1 /\ p - fposdelta + m <= x /\ x <= p - fposdelta + m + v - 1
        /\ Cap \in Nat
    BY <1>2, <1>5, <1>7, FormatAssumption DEF Positions
  <2> HIDE DEF p, z
  <2>2. x + fposdelta \in 0 .. Cap - 1
    BY <2>1
  <2> QED
    BY <2>2 DEF Positions
<1>6. ASSUME NEW x \in Positions PROVE CellOK(d[x])
  <2>1. CASE x \in was[i].ptr - fposdelta + m .. was[i].ptr - fposdelta + m + v - 1
    <3>1. d[x] = disk[x + fposdelta]
      BY <1>7, <2>1
    <3> QED
      BY <1>4, <1>5, <2>1, <3>1
  <2>2. CASE x \notin was[i].ptr - fposdelta + m .. was[i].ptr - fposdelta + m + v - 1
    BY <1>4, <1>7, <2>2
  <2> QED
    BY <2>1, <2>2
<1> QED
  BY <1>6, <1>7 DEF d

\* also when the rest of it is garbage
LEMMA CopyType ==
  ASSUME ArchiveInv, CopyChunk \/ CopyFails
  PROVE  DOMAIN disk' = Positions /\ \A x \in Positions : CellOK(disk'[x])
<1>1. CopyGoesOn /\ pc = "copy"
  BY DEF CopyChunk, CopyFails, CopyGoesOn
<1>2. fposdelta \in Nat /\ curpos \in Nat /\ togo \in Nat \ {0}
  BY <1>1, CopyFacts DEF ArchiveInv, WalkTypes
<1>3. ChunkSize \in Nat \ {0}
  BY <1>2, DeleteAssumption DEF ChunkSize
<1>4. CASE CopyChunk
  BY <1>1, <1>3, <1>4, CopyCells DEF CopyChunk
<1>5. CASE CopyFails
  <2>1. PICK v \in 0 .. ChunkSize - 1 :
          \/ disk' = PutJunk(CopyTo(v), curpos - fposdelta + v, ChunkSize - v)
          \/ disk' = CopyTo(v)
    BY <1>5 DEF CopyFails
  <2>2. v \in 0 .. ChunkSize
    BY <1>3
  <2>3. DOMAIN CopyTo(v) = Positions /\ \A x \in Positions : CellOK(CopyTo(v)[x])
    BY <1>1, <2>2, CopyCells
  <2>4. curpos - fposdelta + v \in Int /\ ChunkSize - v \in Int
    BY <1>2, <1>3, <2>2
  <2> QED
    BY <2>1, <2>3, <2>4, PutJunkType
<1> QED
  BY <1>4, <1>5

\* a turn changes nothing of where the walk is
LEMMA CopyWalk ==
  ASSUME ArchiveInv, CopyChunk \/ CopyFails
  PROVE  /\ WalkInv' /\ GapInv' /\ PakWalkInv' /\ Sound(was)' /\ ListInv'
         /\ pc' \in {"walk", "copy"} /\ (pc' = "copy" => CopyInv')
         /\ Passed' = Passed /\ Stay' = Stay /\ i' \in Nat
<1>1. /\ pc = "copy" /\ UNCHANGED <<dir, list, listnum, fposdelta, dedelta, pakdelta, was, asked>>
      /\ CopyGoesOn
  BY DEF CopyChunk, CopyFails, CopyGoesOn
<1>2. /\ Sound(was) /\ ListInv /\ WalkInv /\ GapInv /\ PakWalkInv /\ CopyInv
      /\ i \in 1 .. Len(was) /\ Passed = i /\ was[i].size \in Nat /\ was[i].ptr \in Nat
  BY <1>1, CopyFacts
<1>3. PICK m \in Nat, c \in Nat \ {0} :
        /\ m + c <= was[i].size
        /\ IF m + c = was[i].size
           THEN pc' = "walk" /\ i' = i + 1
           ELSE /\ pc' = "copy" /\ i' = i
                /\ togo' = was[i].size - (m + c) /\ curpos' = was[i].ptr + (m + c)
  BY <1>1, CopyStep
<1>4. Passed' = Passed /\ i' \in Nat /\ pc' \in {"walk", "copy"}
  BY <1>2, <1>3 DEF Passed
<1>5. Stay' = Stay
  BY <1>1, <1>4 DEF Stay
<1>6. WalkInv'
  BY <1>1, <1>2, <1>4 DEF WalkInv
<1>7. GapInv'
  BY <1>1, <1>2, <1>4, <1>5 DEF GapInv
<1>8. InPak' = InPak /\ OldHeader' = OldHeader /\ NewHeader' = NewHeader
  BY <1>1, <1>4 DEF InPak, OldHeader, NewHeader
<1>9. AroundInv => AroundInv'
  BY <1>1, <1>4, <1>5, <1>8 DEF AroundInv
<1>10. PakWalkInv'
  BY <1>1, <1>2, <1>4, <1>5, <1>8, <1>9 DEF PakWalkInv
<1>11. ListInv' /\ Sound(was)'
  BY <1>1, <1>2 DEF ListInv
<1>12. ASSUME pc' = "copy" PROVE CopyInv'
  <2>1. /\ i' = i /\ m + c # was[i].size
        /\ togo' = was[i].size - (m + c) /\ curpos' = was[i].ptr + (m + c)
    BY <1>3, <1>12
  <2>2. togo' \in 1 .. was[i].size /\ curpos' = was[i].ptr + was[i].size - togo'
    BY <1>2, <1>3, <2>1
  <2> QED
    BY <1>1, <1>2, <1>5, <2>1, <2>2 DEF CopyInv
<1> QED
  BY <1>4, <1>5, <1>6, <1>7, <1>10, <1>11, <1>12

\* an entry that begins where a write has ended stays readable
LEMMA ReadableAbove ==
  ASSUME NEW d, NEW d2, NEW p \in Int, DOMAIN d2 = DOMAIN d,
         \A x \in DOMAIN d : p <= x => d2[x] = d[x],
         NEW e \in Entry, p <= e.ptr, EntryReadable(d, e)
  PROVE  EntryReadable(d2, e)
<1> SUFFICES ASSUME HasData(e), NEW k \in 0 .. e.size - 1
             PROVE  e.ptr + k \in DOMAIN d2 /\ d2[e.ptr + k] = DataCell(FormOf(e), e.name, k)
  BY DEF EntryReadable
<1>1. e.ptr \in Int /\ e.size \in Int
  BY DEF Entry
<1>2. p <= e.ptr + k
  BY <1>1
<1>3. e.ptr + k \in DOMAIN d /\ d[e.ptr + k] = DataCell(FormOf(e), e.name, k)
  BY DEF EntryReadable
<1> QED
  BY <1>2, <1>3

\* a turn moves its cells onto nothing that is still needed: neither what has come to rest
\* below, nor what is still to be read of the same stream, nor what comes behind it
LEMMA CopyStreams ==
  ASSUME ArchiveInv, CopyChunk, StreamWalkInv
  PROVE  StreamWalkInv'
<1> DEFINE w == was[i]
           f == fposdelta
           p == w.ptr
           z == w.size
           a == p - f
           s == Stay
<1>1. pc = "copy" /\ UNCHANGED <<dir, fposdelta, dedelta, was>>
  BY DEF CopyChunk, CopyGoesOn
<1>2. PICK m \in Nat, c \in Nat \ {0} :
        /\ m + c <= z /\ togo = z - m
        /\ disk' = [x \in Positions |-> IF x \in a + m .. a + m + c - 1
                                        THEN disk[x + f] ELSE disk[x]]
        /\ IF m + c = z
           THEN pc' = "walk" /\ i' = i + 1
           ELSE pc' = "copy" /\ i' = i /\ togo' = z - (m + c)
  BY ChunkStep
<1>3. /\ GapInv /\ WalkInv /\ i \in 1 .. Len(was) /\ Len(was) \in Nat /\ Passed = i
      /\ s \in 1 .. i /\ f \in Nat \ {0} /\ p \in Nat /\ z \in Nat /\ Sound(was)
      /\ dir[s].ptr = a /\ dir[s].type = w.type
      /\ dir[s].name = w.name /\ dir[s].size = z /\ dir[s].real = w.real /\ HasData(w)
      /\ Header <= a /\ \A y \in i + 1 .. Len(was) : p + z <= was[y].ptr
  BY <1>1, CopyFacts
<1>4. Passed' = i /\ Stay' = s
  BY <1>3, CopyWalk
<1>5. DOMAIN disk = Positions /\ DOMAIN disk' = Positions
  BY CopyType DEF ArchiveInv, SessionTypes
<1>6. /\ \A x \in 1 .. s - 1 : EntryReadable(disk, dir[x])
      /\ \A x \in i + 1 .. Len(was) : EntryReadable(disk, was[x])
      /\ w.real = Real[w.name]
      /\ z = IF w.type = "STORE" THEN Real[w.name] ELSE Comp[w.name]
      /\ Cells(disk, w, a, 0, z - togo - 1)
      /\ Cells(disk, w, p, z - togo, z - 1)
  BY <1>1, <1>3 DEF StreamWalkInv
<1>7. z - togo = m /\ a \in Nat /\ a + f = p /\ a + m + c <= p + z
  <2>1. p \in Nat /\ z \in Nat /\ f \in Nat /\ Header <= a /\ m + c <= z /\ togo = z - m
    BY <1>2, <1>3
  <2> HIDE DEF w, f, p, z, s
  <2>2. a \in Nat /\ a + f = p
    BY <2>1 DEF Header
  <2>3. a <= p
    BY <2>1
  <2> HIDE DEF a
  <2> QED
    BY <2>1, <2>2, <2>3
<1>8. Apart(dir, s) /\ dir \in Seq(Entry) /\ Len(dir) = Len(was)
  BY <1>3 DEF GapInv, WalkInv
<1>a. ASSUME NEW y \in i + 1 .. Len(was) PROVE was[y] \in Entry /\ was[y].ptr \in Int
  <2>1. y \in 1 .. Len(was)
    BY <1>3
  <2> QED
    BY <1>3, <2>1, SoundTypes
<1>b. Cells(disk, w, a, 0, m - 1) /\ Cells(disk, w, p, m, z - 1)
  BY <1>6, <1>7
<1> HIDE DEF w, f, p, z, a, s
<1>9. SameBelow(disk, disk', a)
  BY <1>2, <1>5, <1>7 DEF SameBelow
<1>10. \A x \in DOMAIN disk : p + z <= x => disk'[x] = disk[x]
  <2> SUFFICES ASSUME NEW x \in Positions, p + z <= x PROVE disk'[x] = disk[x]
    BY <1>5
  <2>1. x \notin a + m .. a + m + c - 1
    BY <1>2, <1>3, <1>7 DEF Positions
  <2> QED
    BY <1>2, <2>1
<1>11. \A x \in 1 .. s - 1 : EntryReadable(disk', dir[x])
  <2> SUFFICES ASSUME NEW x \in 1 .. s - 1 PROVE EntryReadable(disk', dir[x])
    OBVIOUS
  <2>1. x \in 1 .. s /\ s \in 1 .. s /\ x < s /\ x \in 1 .. Len(dir)
    BY <1>3, <1>8
  <2>2. EndOf(dir[x]) <= a /\ Header <= dir[x].ptr
    BY <1>3, <1>8, <2>1 DEF Apart
  <2>3. dir[x] \in Entry
    BY <1>8, <2>1
  <2> QED
    BY <1>6, <1>7, <1>9, <2>2, <2>3, ReadableStays
<1>12. \A y \in i + 1 .. Len(was) : EntryReadable(disk', was[y])
  <2> SUFFICES ASSUME NEW y \in i + 1 .. Len(was) PROVE EntryReadable(disk', was[y])
    OBVIOUS
  <2>1. p + z <= was[y].ptr /\ was[y] \in Entry /\ p + z \in Int /\ EntryReadable(disk, was[y])
    BY <1>3, <1>6, <1>a
  <2> QED
    BY <1>5, <1>10, <2>1, ReadableAbove
<1>13. Cells(disk', w, a, 0, m + c - 1)
  <2> SUFFICES ASSUME NEW k \in 0 .. m + c - 1
               PROVE  a + k \in Positions /\ disk'[a + k] = DataCell(FormOf(w), w.name, k)
    BY DEF Cells
  <2>1. CASE k < m
    <3>1. k \in 0 .. m - 1
      BY <1>2, <2>1
    <3>2. a + k \in Positions /\ disk[a + k] = DataCell(FormOf(w), w.name, k)
      BY <1>b, <3>1 DEF Cells
    <3>3. a + k \notin a + m .. a + m + c - 1
      BY <1>2, <1>7, <2>1
    <3> QED
      BY <1>2, <3>2, <3>3
  <2>2. CASE m <= k
    <3>1. k \in m .. z - 1
      BY <1>2, <1>3, <2>2
    <3>2. p + k \in Positions /\ disk[p + k] = DataCell(FormOf(w), w.name, k)
      BY <1>b, <3>1 DEF Cells
    <3>3. a + k \in a + m .. a + m + c - 1
      BY <1>2, <1>7, <2>2
    <3>4. (a + k) + f = p + k /\ a + k \in Positions
      BY <1>3, <1>7, <3>2, FormatAssumption DEF Positions
    <3> QED
      BY <1>2, <3>2, <3>3, <3>4
  <2> QED
    BY <1>2, <2>1, <2>2
<1>14. Cells(disk', w, p, m + c, z - 1)
  <2> SUFFICES ASSUME NEW k \in m + c .. z - 1
               PROVE  p + k \in Positions /\ disk'[p + k] = DataCell(FormOf(w), w.name, k)
    BY DEF Cells
  <2>1. k \in m .. z - 1
    BY <1>2, <1>3
  <2>2. p + k \in Positions /\ disk[p + k] = DataCell(FormOf(w), w.name, k)
    BY <1>b, <2>1 DEF Cells
  <2>3. p + k \notin a + m .. a + m + c - 1
    BY <1>2, <1>3, <1>7
  <2> QED
    BY <1>2, <2>2, <2>3
<1>15. CASE m + c = z
  <2>1. pc' = "walk"
    BY <1>2, <1>15
  <2>2. EntryReadable(disk', dir[s])
    <3> SUFFICES ASSUME NEW k \in 0 .. z - 1
                 PROVE  a + k \in Positions /\ disk'[a + k] = DataCell(FormOf(w), w.name, k)
      BY <1>3, <1>5, <1>6 DEF EntryReadable, FormOf
    <3> QED
      BY <1>13, <1>15 DEF Cells
  <2>3. \A x \in 1 .. s : EntryReadable(disk', dir[x])
    BY <1>3, <1>11, <2>2
  <2> QED
    BY <1>1, <1>4, <1>12, <2>1, <2>3 DEF StreamWalkInv
<1>16. CASE m + c # z
  <2>1. pc' = "copy" /\ i' = i /\ togo' = z - (m + c)
    BY <1>2, <1>16
  <2>2. z - togo' = m + c
    BY <1>2, <1>3, <2>1
  <2>3. was'[i'] = w /\ fposdelta' = f
    BY <1>1, <2>1 DEF w, f
  <2>4. /\ Cells(disk', w, a, 0, z - togo' - 1) /\ Cells(disk', w, p, z - togo', z - 1)
    BY <1>13, <1>14, <2>2
  <2>5. w.ptr - f = a /\ w.ptr = p /\ w.size = z
    BY DEF a, p, z
  <2>6. /\ Cells(disk', was'[i'], was'[i'].ptr - fposdelta', 0, was'[i'].size - togo' - 1)
        /\ Cells(disk', was'[i'], was'[i'].ptr, was'[i'].size - togo', was'[i'].size - 1)
    BY <2>3, <2>4, <2>5
  <2>7. /\ was'[i'].real = Real[was'[i'].name]
        /\ was'[i'].size = IF was'[i'].type = "STORE" THEN Real[was'[i'].name] ELSE Comp[was'[i'].name]
    BY <1>6, <2>3, <2>5
  <2> QED
    BY <1>1, <1>4, <1>11, <1>12, <2>1, <2>6, <2>7 DEF StreamWalkInv, Cells
<1> QED
  BY <1>15, <1>16

-----------------------------------------------------------------------------
(* The beginning of a deletion.                                            *)

\* a name that is found is found in the directory
LEMMA FindFacts ==
  ASSUME NEW d, NEW nm, Find(d, nm) # 0
  PROVE  Find(d, nm) \in DOMAIN d
  BY DEF Find, SelectInSeq, Min

\* k adds up how much goes with each listed entry
LEMMA CountedIs ==
  ASSUME NEW d, NEW l, NEW m \in Nat, m = Len(l), DOMAIN l = 1 .. m,
         NEW v \in [1 .. m -> Int], \A y \in 1 .. m : v[y] = Group(d[l[y]])
  PROVE  \E g : FoldsUp(g, m, v) /\ Counted(d, l) = m + First(g, m)
<1> DEFINE part(x) == IF IsPak(d[x]) THEN d[x].pak ELSE 0
           step(g, S) == IF S = {} THEN 0
                         ELSE LET x == CHOOSE x \in S : \A y \in S : x >= y
                              IN  g[S \ {x}] + part(l[x])
           folds(g) == g = [S \in SUBSET DOMAIN l |-> step(g, S)]
           r == CHOOSE g : folds(g)
<1>1. Counted(d, l) = Len(l) + r[DOMAIN l]
  BY DEF Counted, FoldLeft, MapThenFoldSet, Max
<1>2. ASSUME NEW g PROVE FoldsUp(g, m, v) <=> folds(g)
  <2> DEFINE sum(S) == IF S = {} THEN 0 ELSE g[S \ {Largest(S)}] + v[Largest(S)]
  <2>1. ASSUME NEW S \in SUBSET (1 .. m) PROVE sum(S) = step(g, S)
    <3>1. CASE S = {}
      BY <3>1
    <3>2. CASE S # {}
      <4>1. Largest(S) \in 1 .. m
        BY <3>2, LargestOf
      <4>2. v[Largest(S)] = part(l[Largest(S)])
        BY <4>1 DEF Group
      <4> QED
        BY <3>2, <4>2 DEF Largest
    <3> QED
      BY <3>1, <3>2
  <2>2. FoldsUp(g, m, v) <=> g = [S \in SUBSET (1 .. m) |-> sum(S)]
    BY DEF FoldsUp
  <2> HIDE DEF sum, step
  <2> QED
    BY <2>1, <2>2
<1>3. PICK g : FoldsUp(g, m, v)
  <2>1. m \in Nat /\ v \in [1 .. m -> Int]
    OBVIOUS
  <2> QED
    BY ONLY <2>1, FoldExists, Zenon
<1> HIDE DEF folds
<1>4. folds(r)
  BY <1>2, <1>3
<1>5. FoldsUp(r, m, v)
  BY <1>2, <1>4
<1> HIDE DEF r
<1> QED
  BY <1>1, <1>5 DEF First

\* what the sorted list means is what the names meant, and a plain request makes it
\* strictly ascending
LEMMA SortedList ==
  ASSUME NEW d, NEW n \in Nat, NEW l \in Seq(1 .. n), ~Repeats(d, l), ~AnotherPakFollows(d, l)
  PROVE  /\ Sorted(l) \in Seq(1 .. n)
         /\ \A x, y \in 1 .. Len(Sorted(l)) : x < y => Sorted(l)[x] < Sorted(l)[y]
         /\ ~Repeats(d, Sorted(l)) /\ ~AnotherPakFollows(d, Sorted(l))
         /\ Selected(d, Sorted(l)) = Selected(d, l)
<1> DEFINE m == Len(l)
           r == Sorted(l)
<1>1. m \in Nat /\ l \in Seq(Nat) /\ \A x \in 1 .. m : l[x] \in 1 .. n
  OBVIOUS
<1>2. PICK p : Ascends(l, m, p) /\ r = [x \in 1 .. m |-> l[p[x]]]
  BY <1>1, SortedFacts
<1>3. /\ \A x \in 1 .. m : p[x] \in 1 .. m
      /\ \A x, y \in 1 .. m : p[x] = p[y] => x = y
      /\ \A z \in 1 .. m : \E x \in 1 .. m : p[x] = z
      /\ \A x, y \in 1 .. m : x < y => l[p[x]] <= l[p[y]]
  BY <1>2 DEF Ascends
<1>4. \A x \in 1 .. m : p[x] \in 1 .. m /\ r[x] = l[p[x]] /\ r[x] \in 1 .. n
  BY <1>1, <1>2, <1>3
<1>5. r \in Seq(1 .. n) /\ Len(r) = m
  <2>1. r \in [1 .. m -> 1 .. n]
    BY <1>2, <1>4
  <2> QED
    BY <1>1, <2>1
<1> HIDE DEF r, m
<1>6. /\ \A x, y \in 1 .. m : x # y => l[x] # l[y]
      /\ ~ \E x, y \in 1 .. m : IsPak(d[l[x]]) /\ l[y] \in l[x] + 1 .. l[x] + d[l[x]].pak
  BY DEF Repeats, m
<1>7. \A x, y \in 1 .. m : x < y => r[x] < r[y]
  <2> SUFFICES ASSUME NEW x \in 1 .. m, NEW y \in 1 .. m, x < y PROVE r[x] < r[y]
    OBVIOUS
  <2>1. p[x] # p[y] /\ p[x] \in 1 .. m /\ p[y] \in 1 .. m
    <3>1. x \in Int /\ y \in Int /\ x # y
      BY <1>1
    <3> QED
      BY <1>3, <3>1
  <2>2. r[x] = l[p[x]] /\ r[y] = l[p[y]] /\ r[x] \in Int /\ r[y] \in Int
    BY <1>4
  <2>3. l[p[x]] # l[p[y]]
    BY <1>6, <2>1
  <2>4. l[p[x]] <= l[p[y]]
    BY <1>3
  <2>5. r[x] # r[y] /\ r[x] <= r[y]
    BY <2>2, <2>3, <2>4
  <2> QED
    BY <2>2, <2>5
<1>8. ~Repeats(d, r)
  <2>1. \A x, y \in 1 .. m : x # y => r[x] # r[y]
    <3> SUFFICES ASSUME NEW x \in 1 .. m, NEW y \in 1 .. m, x # y PROVE r[x] # r[y]
      OBVIOUS
    <3>1. p[x] # p[y] /\ p[x] \in 1 .. m /\ p[y] \in 1 .. m
      BY <1>3
    <3>2. r[x] = l[p[x]] /\ r[y] = l[p[y]]
      BY <1>4
    <3>3. l[p[x]] # l[p[y]]
      BY <1>6, <3>1
    <3> QED
      BY <3>2, <3>3
  <2>2. ASSUME NEW x \in 1 .. m, NEW y \in 1 .. m,
               IsPak(d[r[x]]), r[y] \in r[x] + 1 .. r[x] + d[r[x]].pak
        PROVE  FALSE
    <3>1. /\ p[x] \in 1 .. m /\ p[y] \in 1 .. m
          /\ IsPak(d[l[p[x]]]) /\ l[p[y]] \in l[p[x]] + 1 .. l[p[x]] + d[l[p[x]]].pak
      BY <1>4, <2>2
    <3> QED
      BY <1>6, <3>1
  <2> QED
    BY <1>5, <2>1, <2>2 DEF Repeats
<1>9. ~AnotherPakFollows(d, r)
  <2> DEFINE Bad(t) == LET h == t - d[t].pak
                           next == h + d[h].pak + 1
                       IN h \in DOMAIN d /\ next \in DOMAIN d /\ IsPak(d[next]) /\ d[next].pak # 0
  <2>1. \A x \in 1 .. m : ~(IsMember(d[l[x]]) /\ Bad(l[x]))
    BY ZenonT(40) DEF AnotherPakFollows, m
  <2>2. AnotherPakFollows(d, r) => \E x \in 1 .. m : IsMember(d[r[x]]) /\ Bad(r[x])
    BY <1>5, Zenon DEF AnotherPakFollows
  <2> HIDE DEF Bad
  <2> QED
    BY <1>4, <2>1, <2>2, SMTT(40)
<1>10. Selected(d, r) = Selected(d, l)
  <2> DEFINE In(x, t) == x = t \/ (IsPak(d[t]) /\ x \in t .. t + d[t].pak)
  <2>1. /\ Selected(d, r) = {x \in DOMAIN d : \E y \in 1 .. m : In(x, r[y])}
        /\ Selected(d, l) = {x \in DOMAIN d : \E y \in 1 .. m : In(x, l[y])}
    BY <1>5 DEF Selected, m
  <2> HIDE DEF In
  <2>2. ASSUME NEW x \in DOMAIN d, NEW y \in 1 .. m, In(x, l[y])
        PROVE  \E z \in 1 .. m : In(x, r[z])
    <3>1. PICK z \in 1 .. m : p[z] = y
      BY <1>3
    <3>2. r[z] = l[y]
      BY <1>4, <3>1
    <3> QED
      BY <2>2, <3>2
  <2>3. ASSUME NEW x \in DOMAIN d, NEW y \in 1 .. m, In(x, r[y])
        PROVE  \E z \in 1 .. m : In(x, l[z])
    BY <1>4, <2>3
  <2> QED
    BY <2>1, <2>2, <2>3
<1> QED
  BY <1>5, <1>7, <1>8, <1>9, <1>10 DEF r

\* what a closed archive is to a deletion: sound, and read back as the session left it
LEMMA ClosedFacts ==
  ASSUME ArchiveInv, pc = "closed", Created
  PROVE  Sound(dir) /\ ReadDirectory(disk) = dir /\ hdr = 0
<1>1. AddInv /\ ShapeInv /\ Counts(dir, Len(dir))
  BY DEF ArchiveInv, Deleting
<1>2. hdr = 0
  BY <1>1 DEF AddInv, PakInv
<1>3. ReadDirectory(disk) = dir /\ dir # << >> /\ Fits(DirectoryOffset(dir), Len(dir))
  BY <1>1, ReopenFacts DEF AddInv, FileInv, HeaderWritten
<1>4. dir \in Seq(Entry) /\ WholePaks(dir, Len(dir))
  BY <1>1, <1>2 DEF AddInv, TypeInv, SessionTypes, ShapeInv
<1>5. Apart(dir, Len(dir))
  BY <1>1, <1>4 DEF AddInv, PlaceInv, Apart
<1> QED
  BY <1>1, <1>2, <1>3, <1>4, <1>5 DEF Sound

\* the file goes when as many entries are named as there are
Removes(d, l, next) == next = "remove" => Counted(d, l) = Len(d)

\* a plain request starts the walk, or the removal, from such an archive
LEMMA RequestFacts ==
  ASSUME Plain, ArchiveInv, NEW names \in Requests, DeleteRequest(names)
  PROVE  /\ pc = "closed" /\ pc' \in {"walk", "remove"} /\ ~Deleting /\ hdr = 0
         /\ Sound(dir) /\ dir' = dir /\ was' = dir /\ disk' = disk /\ Created
         /\ list' \in Seq(1 .. Len(dir)) /\ ListInv' /\ asked' \subseteq DOMAIN dir
         /\ \A y \in 1 .. Len(list') : list'[y] \in 1 .. Len(dir)
         /\ i' = 1 /\ listnum' = 0 /\ fposdelta' = 0 /\ dedelta' = 0 /\ pakdelta' = 0
         /\ curpos' = 0 /\ togo' = 0
         /\ \E l \in Seq(1 .. Len(dir)) :
              ~Repeats(dir, l) /\ asked' = Selected(dir, l) /\ Removes(dir, l, pc')
<1> DEFINE d == ReadDirectory(disk)
           l == [x \in DOMAIN names |-> Find(d, names[x])]
<1>1. /\ pc = "closed" /\ Created
      /\ \A x \in DOMAIN l : l[x] # 0
      /\ Allowed(d, l)
      /\ was' = d /\ asked' = Selected(d, l)
      /\ dir' = d
      /\ list' = Sorted(l) /\ i' = 1
      /\ pc' \in {"remove", "walk"} /\ Removes(d, l, pc')
      /\ UNCHANGED <<disk, listnum, fposdelta, dedelta, pakdelta, curpos, togo>>
  BY DEF DeleteRequest, Removes
<1>2. Sound(dir) /\ d = dir /\ hdr = 0 /\ ~Deleting /\ DelIdle
  BY <1>1, ClosedFacts DEF ArchiveInv, Deleting
<1> HIDE DEF d
<1>3. Len(dir) \in Nat /\ DOMAIN dir = 1 .. Len(dir)
  BY <1>2 DEF Sound
<1>4. l \in Seq(1 .. Len(dir))
  <2>1. PICK n \in 1 .. MaxRequest : names \in [1 .. n -> Name]
    BY DEF Requests
  <2>2. n \in Nat
    BY DeleteAssumption
  <2>3. \A x \in 1 .. n : l[x] = Find(d, names[x]) /\ x \in DOMAIN l
    BY <2>1
  <2>4. \A x \in 1 .. n : l[x] \in 1 .. Len(dir)
    BY <1>1, <1>2, <1>3, <2>3, FindFacts
  <2>5. l \in [1 .. n -> 1 .. Len(dir)]
    BY <2>1, <2>4
  <2> QED
    BY <2>2, <2>5
<1> HIDE DEF l
<1>5. ~Repeats(dir, l) /\ ~AnotherPakFollows(dir, l)
  BY <1>1, <1>2 DEF Allowed, Plain
<1>6. /\ list' \in Seq(1 .. Len(dir))
      /\ \A x, y \in 1 .. Len(list') : x < y => list'[x] < list'[y]
      /\ ~Repeats(dir, list') /\ ~AnotherPakFollows(dir, list')
      /\ asked' = Selected(dir, list')
  BY <1>1, <1>2, <1>3, <1>4, <1>5, SortedList
<1>7. was' = dir
  BY <1>1, <1>2
<1>8. ListInv'
  BY <1>6, <1>7 DEF ListInv
<1>9. asked' \subseteq DOMAIN dir
  BY <1>6 DEF Selected
<1>10. \A y \in 1 .. Len(list') : list'[y] \in 1 .. Len(dir)
  BY <1>6
<1>11. ~Repeats(dir, l) /\ asked' = Selected(dir, l) /\ Removes(dir, l, pc')
  BY <1>1, <1>2, <1>5
<1> QED
  BY <1>1, <1>2, <1>4, <1>11, <1>6, <1>7, <1>8, <1>9, <1>10 DEF DelIdle

\* ... where nothing is passed yet and nothing has to move
LEMMA RequestInv ==
  ASSUME Plain, ArchiveInv, NEW names \in Requests, DeleteRequest(names), pc' = "walk"
  PROVE  Sound(was)' /\ ListInv' /\ WalkInv' /\ GapInv' /\ PakWalkInv'
<1>1. /\ Sound(dir) /\ dir' = dir /\ was' = dir /\ ListInv' /\ list' \in Seq(1 .. Len(dir))
      /\ \A y \in 1 .. Len(list') : list'[y] \in 1 .. Len(dir)
      /\ i' = 1 /\ listnum' = 0 /\ fposdelta' = 0 /\ dedelta' = 0 /\ pakdelta' = 0
  BY RequestFacts
<1>2. Passed' = 0 /\ Stay' = 0
  BY <1>1 DEF Passed, Stay
<1>3. Len(dir) \in Nat \ {0} /\ dir \in Seq(Entry)
  BY <1>1 DEF Sound
<1>4. Len(list') \in Nat
  BY <1>1
<1>5. WalkInv'
  BY <1>1, <1>2, <1>3, <1>4 DEF WalkInv
<1>6. GapInv'
  <2>1. \A y \in 1 .. Len(dir) : Header <= dir[y].ptr - 0
    BY <1>1, SoundTypes
  <2>2. Apart(dir, 0)
    BY DEF Apart
  <2> QED
    BY <1>1, <1>2, <2>1, <2>2 DEF GapInv
<1>7. ~IsMember(dir[1])
  <2>1. 1 \in 1 .. Len(dir)
    BY <1>3
  <2>2. SUFFICES ASSUME IsMember(dir[1]) PROVE FALSE
    OBVIOUS
  <2>3. dir[1].pak \in Nat \ {0} /\ 1 - dir[1].pak \in 1 .. Len(dir)
    BY <1>1, <2>1, <2>2, SoundMember
  <2> QED
    BY <2>3
<1>8. ~InPak'
  BY <1>1, <1>2, <1>7 DEF InPak
<1>9. PakWalkInv'
  <2>1. Counts(dir, 0) /\ WholePaks(dir, 0)
    BY DEF Counts, WholePaks
  <2> QED
    BY <1>1, <1>2, <1>8, <2>1 DEF PakWalkInv
<1>10. Sound(was)'
  BY <1>1
<1> QED
  BY <1>1, <1>5, <1>6, <1>9, <1>10

-----------------------------------------------------------------------------
(* Its end.                                                                *)

\* the records that are left over are cut off, and what remains is an archive
LEMMA HeaderFacts ==
  ASSUME ArchiveInv, DeleteHeader
  PROVE  /\ pc = "walk" /\ pc' = "shorten" /\ Sound(dir') /\ hdr = 0
         /\ disk' = PutHeader(disk, DirectoryOffset(dir'), Len(dir'))
         /\ DirectoryOffset(dir') \in Nat /\ Len(dir') \in Nat
         /\ Len(dir') = Stay /\ (\A x \in 1 .. Stay : dir'[x] = dir[x])
         /\ UNCHANGED delLocals
<1>1. /\ pc = "walk" /\ i > Len(dir) /\ pc' = "shorten" /\ UNCHANGED delLocals
      /\ dir' = SubSeq(dir, 1, Len(dir) - dedelta) /\ dir' # << >>
      /\ disk' = PutHeader(disk, DirectoryOffset(dir'), Len(dir'))
  BY DEF DeleteHeader
<1>2. Sound(was) /\ WalkInv /\ GapInv /\ PakWalkInv /\ hdr = 0
  BY <1>1 DEF ArchiveInv, DelInv, Deleting
<1>3. Passed = i - 1 /\ Len(was) \in Nat
  BY <1>1, <1>2 DEF Passed, Sound
<1>4. /\ Passed = Len(was) /\ dir \in Seq(Entry) /\ Len(dir) = Len(was)
      /\ dedelta \in 0 .. Len(was)
  BY <1>1, <1>2, <1>3 DEF WalkInv
<1>5. Stay = Len(dir) - dedelta /\ Stay \in 0 .. Len(was)
  BY <1>3, <1>4 DEF Stay
<1>6. /\ dir' \in Seq(Entry) /\ Len(dir') = Stay /\ \A x \in 1 .. Stay : dir'[x] = dir[x]
  BY <1>1, <1>4, <1>5
<1>7. Stay \in 1 .. Len(was)
  BY <1>1, <1>5, <1>6
<1>8. Apart(dir', Stay)
  BY <1>2, <1>6 DEF GapInv, Apart
<1>9. ~InPak
  BY <1>3, <1>4 DEF InPak
<1>10. WholePaks(dir, Stay) /\ Counts(dir, Stay)
  BY <1>2, <1>9 DEF PakWalkInv
<1>11. WholePaks(dir', Stay)
  <2>1. Stay \in Int
    BY <1>5
  <2> QED
    BY <1>6, <1>10, <2>1, WholePaksSame
<1>12. Counts(dir', Stay)
  BY <1>6, <1>10 DEF Counts
<1>13. DirectoryOffset(dir') <= DirectoryOffset(was)
  <2>1. DirectoryOffset(dir') = dir[Stay].ptr + dir[Stay].size
    BY <1>6, <1>7 DEF DirectoryOffset
  <2> QED
    BY <1>2, <1>7, <2>1 DEF GapInv
<1>14. DirectoryOffset(dir') \in Nat /\ DirectoryOffset(was) \in Int
  <2>1. Stay \in 1 .. Stay /\ Len(was) \in 1 .. Len(was)
    BY <1>7
  <2>2. dir'[Stay] \in Entry /\ Header <= dir'[Stay].ptr /\ 0 <= dir'[Stay].size
    BY <1>6, <1>8, <2>1 DEF Apart
  <2>3. dir'[Stay].ptr \in Int /\ dir'[Stay].size \in Int
    BY <2>2 DEF Entry
  <2>4. was[Len(was)].ptr \in Nat /\ was[Len(was)].size \in Nat
    BY <1>2, <2>1, SoundTypes
  <2> QED
    BY <1>6, <2>2, <2>3, <2>4 DEF DirectoryOffset, Header
<1>15. Fits(DirectoryOffset(dir'), Len(dir'))
  <2>1. DirectoryOffset(was) + Len(was) <= Cap
    BY <1>2 DEF Sound, Fits
  <2> QED
    BY <1>3, <1>6, <1>7, <1>13, <1>14, <2>1, FormatAssumption DEF Fits
<1>16. Sound(dir')
  BY <1>1, <1>6, <1>8, <1>11, <1>12, <1>15 DEF Sound
<1> QED
  BY <1>1, <1>2, <1>6, <1>7, <1>14, <1>16

\* the header is a cell like any other, and the streams stay where they are
LEMMA HeaderDisk ==
  ASSUME ArchiveInv, DeleteHeader
  PROVE  /\ DOMAIN disk' = Positions /\ \A x \in Positions : CellOK(disk'[x])
         /\ disk'[0] = HeaderCell(DirectoryOffset(dir'), Len(dir'))
         /\ StreamWalkInv => AllReadable(disk', dir')
<1>1. /\ pc = "walk" /\ Sound(dir')
      /\ disk' = PutHeader(disk, DirectoryOffset(dir'), Len(dir'))
      /\ DirectoryOffset(dir') \in Nat /\ Len(dir') \in Nat
      /\ Len(dir') = Stay /\ (\A x \in 1 .. Stay : dir'[x] = dir[x])
  BY HeaderFacts
<1>2. /\ DOMAIN disk = Positions /\ \A x \in Positions : CellOK(disk[x])
      /\ 0 \in Positions
  BY FormatAssumption DEF ArchiveInv, SessionTypes, Positions
<1>3. CellOK(HeaderCell(DirectoryOffset(dir'), Len(dir')))
  BY <1>1, CellsAreCells
<1> DEFINE c == HeaderCell(DirectoryOffset(dir'), Len(dir'))
<1>4. disk' = [disk EXCEPT ![0] = c]
  BY <1>1 DEF PutHeader
<1> HIDE DEF c
<1>5. /\ DOMAIN disk' = Positions /\ disk'[0] = c
      /\ \A x \in Positions : x # 0 => disk'[x] = disk[x]
  BY <1>2, <1>4
<1>6. \A x \in Positions : CellOK(disk'[x])
  BY <1>2, <1>3, <1>5 DEF c
<1>7. ASSUME StreamWalkInv PROVE AllReadable(disk', dir')
  <2> SUFFICES ASSUME NEW x \in DOMAIN dir' PROVE EntryReadable(disk', dir'[x])
    BY DEF AllReadable
  <2> DEFINE e == dir'[x]
             q == EndOf(e)
  <2>1. dir' \in Seq(Entry) /\ x \in 1 .. Len(dir')
    BY <1>1 DEF Sound
  <2>2. e \in Entry /\ q \in Int /\ Header <= e.ptr
    BY <1>1, <2>1, SoundTypes
  <2>3. EntryReadable(disk, e)
    BY <1>1, <1>7, <2>1 DEF StreamWalkInv
  <2>4. SameBelow(disk, disk', q)
    BY <1>2, <1>5 DEF SameBelow, Header
  <2> HIDE DEF e
  <2>5. q <= q
    BY <2>2
  <2>6. EntryReadable(disk', e)
    BY <2>2, <2>3, <2>4, <2>5, ReadableStays
  <2> QED
    BY <2>6 DEF e
<1> QED
  BY <1>5, <1>6, <1>7 DEF c

\* the file is closed and its header leads to the records of a sound directory
ClosedSound ==
  /\ Sound(dir) /\ SessionTypes /\ pc = "closed" /\ hdr = 0
  /\ disk[0] = HeaderCell(DirectoryOffset(dir), Len(dir))
  /\ \A k \in 1 .. Len(dir) : disk[DirectoryOffset(dir) + k - 1] = DirCell(dir[k])

\* and then it is an archive as a session leaves it
LEMMA SoundIsClosed == ClosedSound => AddInv /\ ShapeInv
<1> SUFFICES ASSUME ClosedSound PROVE AddInv /\ ShapeInv
  OBVIOUS
<1> USE DEF ClosedSound
<1>1. TypeInv
  BY DEF TypeInv, Deleting
<1>2. CurInv
  BY DEF CurInv
<1>3. PlaceInv
  <2>1. DOMAIN dir = 1 .. Len(dir) /\ Apart(dir, Len(dir))
    BY DEF Sound
  <2> QED
    BY <2>1 DEF PlaceInv, Apart
<1>4. PakInv
  BY DEF PakInv
<1>5. Created
  BY HeaderIsNotFree DEF Created
<1>6. FileInv
  BY <1>5 DEF FileInv, HeaderWritten, Sound
<1>7. ShapeInv
  BY DEF ShapeInv, Sound
<1> QED
  BY <1>1, <1>2, <1>3, <1>4, <1>6, <1>7 DEF AddInv

\* the records are written behind the last stream, and the file is cut off behind them
LEMMA EntriesDisk ==
  ASSUME ArchiveInv, DeleteEntries
  PROVE  /\ pc = "shorten" /\ pc' = "closed" /\ dir' = dir /\ hdr = 0 /\ Sound(dir) /\ BecomeIdle
         /\ DOMAIN disk' = Positions /\ \A x \in Positions : CellOK(disk'[x])
         /\ disk'[0] = HeaderCell(DirectoryOffset(dir), Len(dir))
         /\ \A k \in 1 .. Len(dir) : disk'[DirectoryOffset(dir) + k - 1] = DirCell(dir[k])
         /\ AllReadable(disk, dir) => AllReadable(disk', dir)
<1> DEFINE o == DirectoryOffset(dir)
           n == Len(dir)
<1>1. /\ pc = "shorten" /\ pc' = "closed" /\ dir' = dir /\ BecomeIdle
      /\ disk' = Truncate(PutDirectory(disk, o, dir), o + n)
  BY DEF DeleteEntries
<1>2. hdr = 0 /\ Sound(dir) /\ disk[0] = HeaderCell(o, n)
  BY <1>1 DEF ArchiveInv, DelInv, Deleting
<1>3. DOMAIN disk = Positions /\ \A x \in Positions : CellOK(disk[x])
  BY DEF ArchiveInv, SessionTypes
<1>4. dir \in Seq(Entry) /\ n \in Nat \ {0} /\ o + n <= Cap /\ Apart(dir, n)
  BY <1>2 DEF Sound, Fits
<1>l. /\ n \in 1 .. n /\ o = dir[n].ptr + dir[n].size
      /\ dir[n].ptr \in Nat /\ dir[n].size \in Nat /\ Header <= dir[n].ptr
  <2>1. n \in 1 .. n
    BY <1>4
  <2> QED
    BY <1>2, <2>1, SoundTypes DEF DirectoryOffset
<1>5. \A x \in 1 .. n : EndOf(dir[x]) \in Nat /\ Header <= dir[x].ptr /\ EndOf(dir[x]) <= o
  <2> SUFFICES ASSUME NEW x \in 1 .. n
               PROVE  EndOf(dir[x]) \in Nat /\ Header <= dir[x].ptr /\ EndOf(dir[x]) <= o
    OBVIOUS
  <2>1. EndOf(dir[x]) \in Nat /\ Header <= dir[x].ptr
    BY <1>2, SoundTypes
  <2> HIDE DEF o, n
  <2>4. CASE x = n
    BY <1>l, <2>4 DEF EndOf
  <2>5. CASE x # n
    <3>1. EndOf(dir[x]) <= dir[n].ptr
      BY <1>4, <1>l, <2>5 DEF Apart
    <3> QED
      BY <1>l, <2>1, <3>1
  <2> QED
    BY <2>1, <2>4, <2>5
<1>6. o \in Nat /\ Header <= o
  <2> HIDE DEF o, n
  <2> QED
    BY <1>l DEF Header
<1>7. disk' = [x \in Positions |-> IF x >= o + n THEN Free
                                   ELSE IF x \in o .. o + n - 1 THEN DirCell(dir[x - o + 1])
                                   ELSE disk[x]]
  BY <1>1, <1>3 DEF Truncate, PutDirectory
<1> HIDE DEF o, n
<1>8. \A x \in Positions : CellOK(disk'[x])
  <2> SUFFICES ASSUME NEW x \in Positions PROVE CellOK(disk'[x])
    OBVIOUS
  <2>1. CASE x >= o + n
    BY <1>7, <2>1, CellsAreCells
  <2>2. CASE ~(x >= o + n) /\ x \in o .. o + n - 1
    <3>1. x - o + 1 \in 1 .. n
      BY <1>4, <1>6, <2>2
    <3>2. dir[x - o + 1] \in Entry
      BY <1>4, <3>1 DEF n
    <3>3. disk'[x] = DirCell(dir[x - o + 1])
      BY <1>7, <2>2
    <3> QED
      BY <3>2, <3>3, CellsAreCells
  <2>3. CASE ~(x >= o + n) /\ x \notin o .. o + n - 1
    BY <1>3, <1>7, <2>3
  <2> QED
    BY <2>1, <2>2, <2>3
<1>9. /\ DOMAIN disk' = Positions
      /\ \A x \in Positions : x < o => disk'[x] = disk[x]
  BY <1>4, <1>6, <1>7, FormatAssumption DEF Positions
<1>10. disk'[0] = HeaderCell(o, n)
  BY <1>2, <1>6, <1>9, FormatAssumption DEF Positions, Header
<1>11. \A k \in 1 .. n : disk'[o + k - 1] = DirCell(dir[k])
  <2> SUFFICES ASSUME NEW k \in 1 .. n PROVE disk'[o + k - 1] = DirCell(dir[k])
    OBVIOUS
  <2> DEFINE x == o + k - 1
  <2>1. x \in Positions /\ ~(x >= o + n) /\ x \in o .. o + n - 1 /\ x - o + 1 = k
    BY <1>4, <1>6, FormatAssumption DEF Positions
  <2> HIDE DEF x
  <2>2. disk'[x] = DirCell(dir[k])
    BY <1>7, <2>1
  <2> QED
    BY <2>2 DEF x
<1>12. ASSUME AllReadable(disk, dir) PROVE AllReadable(disk', dir)
  <2>1. SameBelow(disk, disk', o)
    BY <1>3, <1>9 DEF SameBelow
  <2>2. \A x \in DOMAIN dir : Header <= dir[x].ptr /\ EndOf(dir[x]) <= o
    BY <1>4, <1>5 DEF n
  <2> QED
    BY <1>4, <1>6, <1>12, <2>1, <2>2, AllStay
<1> QED
  BY <1>1, <1>2, <1>8, <1>9, <1>10, <1>11, <1>12 DEF o, n

\* when nothing is to stay the file goes
LEMMA RemoveFacts ==
  ASSUME ArchiveInv, RemoveArchive
  PROVE  /\ pc = "remove" /\ pc' = "closed" /\ dir' = << >> /\ hdr = 0 /\ BecomeIdle
         /\ DOMAIN disk' = Positions /\ (\A x \in Positions : CellOK(disk'[x]))
         /\ disk'[0] = Free
<1>1. pc = "remove" /\ pc' = "closed" /\ dir' = << >> /\ BecomeIdle /\ disk' = [x \in Positions |-> Free]
  BY DEF RemoveArchive
<1>2. hdr = 0
  BY <1>1 DEF ArchiveInv, Deleting
<1> QED
  BY <1>1, <1>2, CellsAreCells, FormatAssumption DEF Positions

-----------------------------------------------------------------------------
(* Every step of a deletion keeps the invariant.                           *)

\* what the steps of the walk have in common
LEMMA WalkStep ==
  ASSUME ArchiveInv, UNCHANGED <<abort, fileVars>>, pc' \in {"walk", "copy"}, hdr = 0,
         DOMAIN disk' = Positions, \A x \in Positions : CellOK(disk'[x]),
         Sound(was)', ListInv', WalkInv', GapInv', PakWalkInv', pc' = "copy" => CopyInv',
         curpos' \in Nat, togo' \in Nat
  PROVE  ArchiveInv'
<1>1. Deleting' /\ hdr' = 0
  BY DEF Deleting, fileVars
<1>2. DelInv'
  BY DEF DelInv
<1>3. dir' \in Seq(Entry) /\ Len(dir') \in Nat
  BY DEF WalkInv
<1>4. SessionTypes'
  <2>1. SessionTypes
    BY DEF ArchiveInv
  <2> QED
    BY <1>1, <1>3, <2>1 DEF SessionTypes, fileVars
<1>5. WalkTypes'
  <2>1. was' \in Seq(Entry) /\ Len(was') \in Nat
    BY DEF Sound
  <2>2. list' \in Seq(1 .. Len(was')) /\ asked' \subseteq DOMAIN was'
    BY DEF ListInv, Selected
  <2>3. list' \in Seq(Nat \ {0})
    BY <2>1, <2>2
  <2>4. dedelta' \in 0 .. Len(was') /\ listnum' \in 0 .. Len(list')
    BY <2>1 DEF WalkInv
  <2>5. i' \in Nat /\ fposdelta' \in Nat /\ pakdelta' \in Nat
    BY DEF WalkInv
  <2> QED
    BY <1>3, <2>1, <2>2, <2>3, <2>4, <2>5 DEF WalkTypes
<1> QED
  BY <1>1, <1>2, <1>4, <1>5 DEF ArchiveInv

\* a closed file is at rest
LEMMA ClosedStep ==
  ASSUME ArchiveInv, UNCHANGED <<abort, fileVars>>, pc' = "closed", hdr = 0, BecomeIdle,
         DOMAIN disk' = Positions, \A x \in Positions : CellOK(disk'[x]),
         dir' \in Seq(Entry), Counts(dir', Len(dir')),
         SessionTypes' => (AddInv /\ ShapeInv)'
  PROVE  ArchiveInv'
<1>1. ~Deleting' /\ hdr' = 0 /\ DelIdle'
  BY DEF Deleting, fileVars, BecomeIdle, DelIdle
<1>2. Len(dir') \in Nat
  OBVIOUS
<1>3. SessionTypes'
  <2>1. SessionTypes
    BY DEF ArchiveInv
  <2> QED
    BY <1>1, <1>2, <2>1 DEF SessionTypes, fileVars
<1>4. WalkTypes'
  BY DEF BecomeIdle, WalkTypes
<1> QED
  BY <1>1, <1>3, <1>4 DEF ArchiveInv

\* a plain request
LEMMA RequestStep ==
  ASSUME Plain, ArchiveInv, NEW names \in Requests, DeleteRequest(names),
         UNCHANGED <<abort, fileVars>>
  PROVE  ArchiveInv'
<1>1. /\ pc' \in {"walk", "remove"} /\ ~Deleting /\ hdr = 0
      /\ Sound(dir) /\ dir' = dir /\ was' = dir /\ disk' = disk
      /\ list' \in Seq(1 .. Len(dir)) /\ ListInv' /\ asked' \subseteq DOMAIN dir
      /\ i' = 1 /\ listnum' = 0 /\ fposdelta' = 0 /\ dedelta' = 0 /\ pakdelta' = 0
      /\ curpos' = 0 /\ togo' = 0
  BY RequestFacts
<1>2. DOMAIN disk = Positions /\ \A x \in Positions : CellOK(disk[x])
  BY DEF ArchiveInv, SessionTypes
<1>3. CASE pc' = "walk"
  <2>1. Sound(was)' /\ ListInv' /\ WalkInv' /\ GapInv' /\ PakWalkInv'
    BY <1>3, RequestInv
  <2>2. pc' \in {"walk", "copy"} /\ (pc' = "copy" => CopyInv') /\ curpos' \in Nat /\ togo' \in Nat
    BY <1>1, <1>3
  <2>3. DOMAIN disk' = Positions /\ \A x \in Positions : CellOK(disk'[x])
    BY <1>1, <1>2
  <2> QED
    BY <1>1, <2>1, <2>2, <2>3, WalkStep
<1>4. CASE pc' = "remove"
  <2>1. Deleting' /\ hdr' = 0
    BY <1>1, <1>4 DEF Deleting, fileVars
  <2>2. DelInv'
    BY <1>4 DEF DelInv
  <2>3. dir \in Seq(Entry) /\ Len(dir) \in Nat /\ Counts(dir, Len(dir))
    BY <1>1 DEF Sound
  <2>4. SessionTypes'
    <3>1. SessionTypes
      BY DEF ArchiveInv
    <3> QED
      BY <1>1, <2>1, <2>3, <3>1 DEF SessionTypes, fileVars
  <2>5. WalkTypes'
    <3>1. list' \in Seq(Nat \ {0}) /\ Len(list') \in Nat
      BY <1>1, <2>3
    <3> QED
      BY <1>1, <2>3, <3>1 DEF WalkTypes
  <2> QED
    BY <1>1, <2>1, <2>2, <2>3, <2>4, <2>5 DEF ArchiveInv
<1> QED
  BY <1>1, <1>3, <1>4

\* the turns of the walk
LEMMA TurnStep ==
  ASSUME ArchiveInv, DropEntry \/ DropMember \/ KeepEntry \/ CopyChunk \/ CopyFails,
         UNCHANGED <<abort, fileVars>>
  PROVE  ArchiveInv'
<1>1. /\ DOMAIN disk = Positions /\ \A x \in Positions : CellOK(disk[x])
      /\ curpos \in Nat /\ togo \in Nat
  BY DEF ArchiveInv, SessionTypes, WalkTypes
<1>2. CASE DropEntry
  <2>1. pc = "walk" /\ i <= Len(dir) /\ pc' = "walk" /\ UNCHANGED <<disk, list, was, asked, curpos, togo>>
    BY <1>2, DropFacts
  <2>2. Sound(was) /\ ListInv /\ hdr = 0
    BY <2>1, WalkFacts
  <2>3. Sound(was)' /\ ListInv'
    BY <2>1, <2>2 DEF ListInv
  <2>4. WalkInv' /\ GapInv' /\ PakWalkInv'
    BY <1>2, DropWalk, DropGap, DropPak
  <2> QED
    BY <1>1, <2>1, <2>2, <2>3, <2>4, WalkStep
<1>3. CASE DropMember
  <2>1. pc = "walk" /\ i <= Len(dir) /\ pc' = "walk" /\ UNCHANGED <<disk, list, was, asked, curpos, togo>>
    BY <1>3, MemberFacts
  <2>2. Sound(was) /\ ListInv /\ hdr = 0
    BY <2>1, WalkFacts
  <2>3. Sound(was)' /\ ListInv'
    BY <2>1, <2>2 DEF ListInv
  <2>4. WalkInv' /\ GapInv' /\ PakWalkInv'
    BY <1>3, MemberWalk, MemberGap, MemberPak
  <2> QED
    BY <1>1, <2>1, <2>2, <2>3, <2>4, WalkStep
<1>4. CASE KeepEntry
  <2>1. /\ pc = "walk" /\ i <= Len(dir) /\ pc' \in {"walk", "copy"} /\ UNCHANGED <<disk, list, was, asked>>
        /\ (curpos' = was[i].ptr /\ togo' = was[i].size) \/ UNCHANGED <<curpos, togo>>
    BY <1>4, KeepFactsOfWalk
  <2>2. Sound(was) /\ ListInv /\ hdr = 0 /\ i \in 1 .. Len(was)
    BY <2>1, WalkFacts
  <2>3. Sound(was)' /\ ListInv'
    BY <2>1, <2>2 DEF ListInv
  <2>4. WalkInv' /\ GapInv' /\ PakWalkInv' /\ (pc' = "copy" => CopyInv')
    BY <1>4, KeepWalk, KeepGap, KeepPak, KeepCopy
  <2>5. was[i].ptr \in Nat /\ was[i].size \in Nat
    BY <2>2, SoundTypes
  <2>6. curpos' \in Nat /\ togo' \in Nat
    BY <1>1, <2>1, <2>5
  <2> QED
    BY <1>1, <2>1, <2>2, <2>3, <2>4, <2>6, WalkStep
<1>5. CASE CopyChunk \/ CopyFails
  <2>1. pc = "copy" /\ CopyGoesOn
    BY <1>5 DEF CopyChunk, CopyFails, CopyGoesOn
  <2>2. hdr = 0 /\ was[i].ptr \in Nat /\ was[i].size \in Nat
    BY <2>1, CopyFacts
  <2>3. /\ WalkInv' /\ GapInv' /\ PakWalkInv' /\ Sound(was)' /\ ListInv'
        /\ pc' \in {"walk", "copy"} /\ (pc' = "copy" => CopyInv')
    BY <1>5, CopyWalk
  <2>4. DOMAIN disk' = Positions /\ \A x \in Positions : CellOK(disk'[x])
    BY <1>5, CopyType
  <2>5. curpos' \in Nat /\ togo' \in Nat
    <3>1. CASE togo = ChunkSize
      BY <2>1, <3>1 DEF CopyGoesOn
    <3>2. CASE togo # ChunkSize
      BY <1>1, <2>1, <3>2, DeleteAssumption DEF CopyGoesOn, ChunkSize
    <3> QED
      BY <3>1, <3>2
  <2> QED
    BY <2>2, <2>3, <2>4, <2>5, WalkStep
<1> QED
  BY <1>2, <1>3, <1>4, <1>5

\* its end
LEMMA EndStep ==
  ASSUME ArchiveInv, DeleteHeader \/ DeleteEntries \/ RemoveArchive, UNCHANGED <<abort, fileVars>>
  PROVE  ArchiveInv'
<1>1. CASE DeleteHeader
  <2>1. pc' = "shorten" /\ Sound(dir') /\ hdr = 0 /\ UNCHANGED delLocals
    BY <1>1, HeaderFacts
  <2>2. /\ DOMAIN disk' = Positions /\ \A x \in Positions : CellOK(disk'[x])
        /\ disk'[0] = HeaderCell(DirectoryOffset(dir'), Len(dir'))
    BY <1>1, HeaderDisk
  <2>3. Deleting' /\ hdr' = 0
    BY <2>1 DEF Deleting, fileVars
  <2>4. DelInv'
    BY <2>1, <2>2 DEF DelInv
  <2>5. dir' \in Seq(Entry) /\ Len(dir') \in Nat /\ Counts(dir', Len(dir'))
    BY <2>1 DEF Sound
  <2>6. SessionTypes'
    <3>1. SessionTypes
      BY DEF ArchiveInv
    <3> QED
      BY <2>2, <2>3, <2>5, <3>1 DEF SessionTypes, fileVars
  <2>7. WalkTypes'
    BY <2>1, <2>5 DEF ArchiveInv, WalkTypes, delLocals
  <2> QED
    BY <2>3, <2>4, <2>5, <2>6, <2>7 DEF ArchiveInv
<1>2. CASE DeleteEntries
  <2>1. /\ pc' = "closed" /\ dir' = dir /\ hdr = 0 /\ Sound(dir) /\ BecomeIdle
        /\ DOMAIN disk' = Positions /\ \A x \in Positions : CellOK(disk'[x])
        /\ disk'[0] = HeaderCell(DirectoryOffset(dir), Len(dir))
        /\ \A k \in 1 .. Len(dir) : disk'[DirectoryOffset(dir) + k - 1] = DirCell(dir[k])
    BY <1>2, EntriesDisk
  <2>2. dir' \in Seq(Entry) /\ Counts(dir', Len(dir'))
    BY <2>1 DEF Sound
  <2>3. hdr' = 0
    BY <2>1 DEF fileVars
  <2>4. SessionTypes' => ClosedSound'
    BY <2>1, <2>3 DEF ClosedSound
  <2>5. ClosedSound' => (AddInv /\ ShapeInv)'
    BY SoundIsClosed, PTL
  <2>6. SessionTypes' => (AddInv /\ ShapeInv)'
    BY <2>4, <2>5
  <2> QED
    BY <2>1, <2>2, <2>6, ClosedStep
<1>3. CASE RemoveArchive
  <2>1. /\ pc' = "closed" /\ dir' = << >> /\ hdr = 0 /\ BecomeIdle
        /\ DOMAIN disk' = Positions /\ (\A x \in Positions : CellOK(disk'[x]))
        /\ disk'[0] = Free
    BY <1>3, RemoveFacts
  <2>2. dir' \in Seq(Entry) /\ Counts(dir', Len(dir'))
    BY <2>1 DEF Counts
  <2>3. hdr' = 0 /\ ~Created' /\ ~Deleting'
    BY <2>1 DEF Created, Deleting, fileVars
  <2>4. CurInv' /\ PlaceInv' /\ PakInv' /\ FileInv'
    BY <2>1, <2>3 DEF CurInv, PlaceInv, PakInv, FileInv
  <2>5. ShapeInv'
    BY <2>1, <2>3 DEF ShapeInv, WholePaks
  <2>6. SessionTypes' => (AddInv /\ ShapeInv)'
    BY <2>3, <2>4, <2>5 DEF AddInv, TypeInv
  <2> QED
    BY <2>1, <2>2, <2>6, ClosedStep
<1> QED
  BY <1>1, <1>2, <1>3

\* a deletion damages no stream if every chunk is copied
LEMMA DeleteCleanStep ==
  ASSUME Plain, Faults \subseteq CleanFaults, ArchiveInv, ArchiveCleanInv, DelStep, UNCHANGED <<abort, fileVars>>
  PROVE  ArchiveCleanInv'
<1>1. abort' = abort
  OBVIOUS
<1>2. abort # 3
  <2>1. CASE Deleting
    BY <2>1 DEF ArchiveCleanInv
  <2>2. CASE ~Deleting
    <3>1. PosInv
      BY <2>2 DEF ArchiveCleanInv, CleanInv
    <3>2. ~Deleting => pc # "compress" \/ ~DelStep
      BY DEF DelStep, DeleteRequest, RemoveArchive, DropEntry, DropMember, KeepEntry, CopyChunk,
             CopyFails, CopyGoesOn, DeleteHeader, DeleteEntries
    <3> QED
      BY <2>2, <3>1, <3>2 DEF PosInv
  <2> QED
    BY <2>1, <2>2
<1>3. ASSUME pc \in {"walk", "copy"} PROVE StreamWalkInv
  BY <1>3 DEF ArchiveCleanInv, DelCleanInv, Deleting
<1>4. ASSUME pc' \in {"walk", "copy"}, StreamWalkInv' PROVE ArchiveCleanInv'
  BY <1>1, <1>2, <1>4 DEF ArchiveCleanInv, DelCleanInv, Deleting
<1>5. ASSUME pc' = "closed", AllReadable(disk', dir') PROVE ArchiveCleanInv'
  BY <1>1, <1>2, <1>5 DEF ArchiveCleanInv, Deleting, CleanInv, PosInv, StreamInv
<1>6. ASSUME NEW names \in Requests, DeleteRequest(names) PROVE ArchiveCleanInv'
  <2>1. /\ pc' \in {"walk", "remove"} /\ ~Deleting /\ Sound(dir) /\ dir' = dir /\ was' = dir
        /\ disk' = disk /\ i' = 1 /\ dedelta' = 0
    BY <1>6, RequestFacts
  <2>2. CASE pc' = "remove"
    BY <1>1, <1>2, <2>2 DEF ArchiveCleanInv, DelCleanInv, Deleting
  <2>3. CASE pc' = "walk"
    <3>1. Passed' = 0 /\ Stay' = 0
      BY <2>1, <2>3 DEF Passed, Stay
    <3>2. AllReadable(disk, dir)
      BY <2>1 DEF ArchiveCleanInv, CleanInv, StreamInv
    <3>3. \A x \in 1 .. Len(dir) : EntryReadable(disk, dir[x])
      BY <2>1, <3>2 DEF AllReadable, Sound
    <3>4. StreamWalkInv'
      BY <2>1, <2>3, <3>1, <3>3 DEF StreamWalkInv
    <3> QED
      BY <1>4, <2>3, <3>4
  <2> QED
    BY <2>1, <2>2, <2>3
<1>7. CASE RemoveArchive
  BY <1>5, <1>7, RemoveFacts DEF AllReadable
<1>8. CASE DropEntry
  <2>1. pc = "walk" /\ pc' = "walk"
    BY <1>8, DropFacts
  <2> QED
    BY <1>3, <1>4, <1>8, <2>1, DropStreams
<1>9. CASE DropMember
  <2>1. pc = "walk" /\ pc' = "walk"
    BY <1>9, MemberFacts
  <2> QED
    BY <1>3, <1>4, <1>9, <2>1, MemberStreams
<1>10. CASE KeepEntry
  <2>1. pc = "walk" /\ pc' \in {"walk", "copy"}
    BY <1>10, KeepFactsOfWalk
  <2> QED
    BY <1>3, <1>4, <1>10, <2>1, KeepStreams
<1>11. CASE CopyChunk
  <2>1. pc = "copy" /\ pc' \in {"walk", "copy"}
    BY <1>11, CopyWalk DEF CopyChunk, CopyGoesOn
  <2> QED
    BY <1>3, <1>4, <1>11, <2>1, CopyStreams
<1>12. CASE DeleteHeader
  <2>1. pc = "walk" /\ pc' = "shorten"
    BY <1>12, HeaderFacts
  <2>2. AllReadable(disk', dir')
    BY <1>3, <1>12, <2>1, HeaderDisk
  <2> QED
    BY <1>1, <1>2, <2>1, <2>2 DEF ArchiveCleanInv, DelCleanInv, Deleting
<1>13. CASE DeleteEntries
  <2>1. pc = "shorten" /\ pc' = "closed" /\ dir' = dir
    BY <1>13, EntriesDisk
  <2>2. AllReadable(disk, dir)
    BY <2>1 DEF ArchiveCleanInv, DelCleanInv, Deleting
  <2>3. AllReadable(disk', dir')
    BY <1>13, <2>1, <2>2, EntriesDisk
  <2> QED
    BY <1>5, <2>1, <2>3
<1>14. ~CopyFails
  BY DEF CopyFails, CleanFaults
<1> QED
  BY <1>6, <1>7, <1>8, <1>9, <1>10, <1>11, <1>12, <1>13, <1>14 DEF DelStep

-----------------------------------------------------------------------------
(* Every step of a session that adds keeps it too.                         *)

\* no pak is added with more members than can be counted
LEMMA CountsStep ==
  ASSUME PaksFit, AddInv, Counts(dir, Len(dir)), AddStep
  PROVE  Counts(dir', Len(dir'))
<1>1. dir \in Seq(Entry) /\ Len(dir) \in Nat /\ total \in Nat /\ hdr \in 0 .. Len(dir)
  BY DEF AddInv, TypeInv, SessionTypes
<1>2. ASSUME dir' = dir PROVE Counts(dir', Len(dir'))
  BY <1>2
<1>3. ASSUME NEW e \in Entry, dir' = Append(dir, e), IsPak(e) => e.pak < 65536
      PROVE  Counts(dir', Len(dir'))
  <2>1. /\ Len(dir') = Len(dir) + 1 /\ dir'[Len(dir) + 1] = e
        /\ \A x \in 1 .. Len(dir) : dir'[x] = dir[x]
    BY <1>1, <1>3
  <2> QED
    BY <1>1, <1>3, <2>1 DEF Counts
<1>4. CASE Create
  <2>1. dir' = << >>
    BY <1>4 DEF Create
  <2> QED
    BY <2>1 DEF Counts
<1>5. CASE OpenForAdd
  BY <1>2, <1>5, ReopenFacts DEF OpenForAdd
<1>6. ASSUME NEW n \in DirName, AddFolder(n) PROVE Counts(dir', Len(dir'))
  <2> DEFINE e == StartEntry(n, "DIR", 0, 0)
  <2>1. e \in Entry /\ e.type = "DIR"
    BY <1>1, StartEntryType DEF Name, Type
  <2>2. dir' = dir \/ dir' = Append(dir, e)
    BY <1>6 DEF AddFolder
  <2> HIDE DEF e
  <2> QED
    BY <1>2, <1>3, <2>1, <2>2 DEF IsPak
<1>7. ASSUME NEW p \in PakName, StartPak(p) PROVE Counts(dir', Len(dir'))
  <2> DEFINE e == StartEntry(p, "PAK", 0, Len(Paks[p]))
  <2>1. Len(Paks[p]) \in Nat /\ Len(Paks[p]) < 65536
    BY AddAssumption DEF PaksFit
  <2>2. e \in Entry /\ e.pak = Len(Paks[p])
    BY <1>1, <2>1, StartEntryType, StartEntryNumber DEF Name, Type
  <2>3. dir' = Append(dir, e)
    BY <1>7 DEF StartPak
  <2> HIDE DEF e
  <2> QED
    BY <1>3, <2>1, <2>2, <2>3
<1>9. CASE FinishCompressed \/ FinishShortTail
  <2>1. pc = "compress"
    BY <1>9 DEF FinishCompressed, FinishShortTail, InputDone
  <2>2. Compressed(cur) \in Entry /\ Compressed(cur).type = "NORMAL"
    BY <2>1, KeptEntries
  <2>3. dir' = Append(dir, Compressed(cur))
    BY <1>9 DEF FinishCompressed, FinishShortTail, Keep
  <2> QED
    BY <1>3, <2>2, <2>3 DEF IsPak
<1>10. CASE FinishStored \/ FinishShortStore
  <2>1. pc = "compress"
    BY <1>10 DEF FinishStored, FinishShortStore, InputDone
  <2>2. Stored(cur) \in Entry /\ Stored(cur).type = "STORE"
    BY <2>1, KeptEntries
  <2>3. dir' = Append(dir, Stored(cur))
    BY <1>10 DEF FinishStored, FinishShortStore, Keep
  <2> QED
    BY <1>3, <2>2, <2>3 DEF IsPak
<1>11. CASE AbortPak
  <2>1. dir' = SubSeq(dir, 1, hdr - 1) /\ hdr # 0
    BY <1>11 DEF AbortPak, BeforePak
  <2>2. Len(dir') = hdr - 1 /\ \A x \in 1 .. hdr - 1 : dir'[x] = dir[x] /\ x \in 1 .. Len(dir)
    BY <1>1, <2>1
  <2> QED
    BY <2>2 DEF Counts
<1>12. CASE FinishPak
  <2> DEFINE s == Spanning(dir[hdr])
  <2>1. pc = "member" /\ dir' = [dir EXCEPT ![hdr] = s]
    BY <1>12 DEF FinishPak
  <2>2. hdr \in DOMAIN dir /\ s \in Entry /\ s.pak = dir[hdr].pak /\ IsPak(dir[hdr])
    BY <2>1, SpanningFacts DEF IsPak
  <2> HIDE DEF s
  <2>3. Len(dir') = Len(dir) /\ dir'[hdr] = s /\ \A x \in 1 .. Len(dir) : x # hdr => dir'[x] = dir[x]
    BY <1>1, <2>1, <2>2
  <2> QED
    BY <1>1, <2>2, <2>3 DEF Counts
<1>13. CASE RemoveEmpty \/ WriteHeader \/ WriteEntries
  BY <1>2, <1>13 DEF RemoveEmpty, WriteHeader, WriteEntries
<1>14. CASE StartMember \/ CompressBlock \/ ReadFails \/ WriteFails \/ UserAbort \/ AbortEntry
  BY <1>2, <1>14 DEF StartMember, CompressBlock, ReadFails, WriteFails, UserAbort, AbortEntry
<1>15. ASSUME NEW b \in Blob, StartFile(b) PROVE Counts(dir', Len(dir'))
  BY <1>2, <1>15 DEF StartFile
<1>16. ASSUME NEW p \in PakName, PakUnreadable(p) PROVE Counts(dir', Len(dir'))
  BY <1>2, <1>16 DEF PakUnreadable
<1>17. CASE CreateFails
  BY <1>17 DEF CreateFails, Counts
<1> QED
  BY <1>4, <1>5, <1>6, <1>7, <1>9, <1>10, <1>11, <1>12, <1>13, <1>14, <1>15, <1>16, <1>17
  DEF AddStep

\* an action of a session that adds is none of a deletion
LEMMA AddsOnly ==
  ASSUME AddStep
  PROVE  ~Deleting
<1>1. pc \in {"closed", "ready", "member", "compress", "entries"}
  BY DEF AddStep, Create, OpenForAdd, StartFile, AddFolder, StartPak, PakUnreadable, NextInput,
         StartMember, CompressBlock, ReadFails, WriteFails, UserAbort, FinishCompressed,
         FinishShortTail, FinishStored, FinishShortStore, InputDone, AbortEntry, AbortPak,
         FinishPak, WriteHeader, WriteEntries, RemoveEmpty, CreateFails
<1> QED
  BY <1>1 DEF Deleting

\* so what is known of adding alone carries over
LEMMA AddingStep ==
  ASSUME PaksFit, ArchiveInv, AddStep, UNCHANGED delLocals
  PROVE  ArchiveInv'
<1>1. ~Deleting /\ AddInv /\ ShapeInv /\ DelIdle /\ WalkTypes /\ Counts(dir, Len(dir))
  BY AddsOnly DEF ArchiveInv, Deleting
<1>2. AddInv' /\ ShapeInv'
  BY <1>1, TypeStep, CurStep, PlaceStep, PakStep, FileStep, ShapeStep DEF AddInv
<1>3. ~Deleting' /\ SessionTypes'
  BY <1>2 DEF AddInv, TypeInv
<1>4. DelIdle'
  BY <1>1 DEF DelIdle, delLocals
<1>5. WalkTypes'
  <2>1. dir' \in Seq(Entry)
    BY <1>3 DEF SessionTypes
  <2> QED
    BY <1>1, <2>1 DEF WalkTypes, delLocals
<1>6. Counts(dir', Len(dir'))
  BY <1>1, CountsStep
<1> QED
  BY <1>2, <1>3, <1>4, <1>5, <1>6 DEF ArchiveInv

\* and with clean faults so does what is known of the streams
LEMMA AddCleanStep ==
  ASSUME Faults \subseteq CleanFaults, ArchiveInv, ArchiveCleanInv, AddStep
  PROVE  ArchiveCleanInv'
<1>1. ~Deleting /\ AddInv /\ CleanInv
  BY AddsOnly DEF ArchiveInv, ArchiveCleanInv
<1>2. CleanInv' /\ TypeInv'
  BY <1>1, TypeStep, PosStep, StreamStep DEF CleanInv
<1> QED
  BY <1>2 DEF TypeInv, ArchiveCleanInv

-----------------------------------------------------------------------------
(* The theorems.                                                           *)

\* before the first session there is no archive that could be damaged
LEMMA ArchiveStart == ArchiveInit => ArchiveInv /\ ArchiveCleanInv
<1> SUFFICES ASSUME ArchiveInit PROVE ArchiveInv /\ ArchiveCleanInv
  OBVIOUS
<1>1. AddInv /\ CleanInv /\ DelIdle
  BY InitInv DEF ArchiveInit
<1>2. dir = << >> /\ hdr = 0 /\ pc = "closed"
  BY DEF ArchiveInit, AddInit, IdleFile
<1>3. ~Deleting /\ SessionTypes
  BY <1>1 DEF AddInv, TypeInv
<1>4. ShapeInv /\ Counts(dir, Len(dir))
  BY <1>2 DEF ShapeInv, WholePaks, Counts
<1>5. WalkTypes
  BY <1>1, <1>2 DEF DelIdle, WalkTypes
<1> QED
  BY <1>1, <1>3, <1>4, <1>5 DEF ArchiveInv, ArchiveCleanInv

\* nothing changes in a step that changes nothing
LEMMA ArchiveIdles ==
  ASSUME UNCHANGED soundVars
  PROVE  /\ ArchiveInv => ArchiveInv'
         /\ ArchiveCleanInv => ArchiveCleanInv'
<1> USE DEF soundVars, fileVars, delLocals
<1>1. Deleting' = Deleting /\ Created' = Created /\ Passed' = Passed
  BY DEF Deleting, Created, Passed
<1>2. Stay' = Stay /\ InPak' = InPak /\ OldHeader' = OldHeader
  BY <1>1 DEF Stay, InPak, OldHeader
<1>3. NewHeader' = NewHeader
  BY <1>2 DEF NewHeader
<1>4. SessionTypes' = SessionTypes /\ WalkTypes' = WalkTypes /\ DelIdle' = DelIdle
  BY <1>1 DEF SessionTypes, WalkTypes, DelIdle
<1>5. AddInv => AddInv'
  <2>1. TypeInv => TypeInv'
    BY <1>1, <1>4 DEF TypeInv
  <2>2. CurInv => CurInv'
    BY DEF CurInv
  <2>3. PlaceInv => PlaceInv'
    BY DEF PlaceInv
  <2>4. PakInv => PakInv'
    BY DEF PakInv
  <2>5. FileInv => FileInv'
    BY <1>1 DEF FileInv, HeaderWritten
  <2> QED
    BY <2>1, <2>2, <2>3, <2>4, <2>5 DEF AddInv
<1>6. ShapeInv => ShapeInv'
  BY DEF ShapeInv
<1>7. CleanInv => CleanInv'
  BY DEF CleanInv, PosInv, StreamInv
<1>8. DelInv => DelInv'
  <2>1. ListInv => ListInv'
    BY DEF ListInv
  <2>2. WalkInv => WalkInv'
    BY <1>1 DEF WalkInv
  <2>3. GapInv => GapInv'
    BY <1>1, <1>2 DEF GapInv
  <2>4. AroundInv => AroundInv'
    BY <1>1, <1>2, <1>3 DEF AroundInv
  <2>5. PakWalkInv => PakWalkInv'
    BY <1>1, <1>2, <1>3, <2>4 DEF PakWalkInv
  <2>6. CopyInv => CopyInv'
    BY <1>2 DEF CopyInv
  <2>7. Sound(was)' = Sound(was) /\ Sound(dir)' = Sound(dir)
    OBVIOUS
  <2> QED
    BY <2>1, <2>2, <2>3, <2>5, <2>6, <2>7 DEF DelInv
<1>9. DelCleanInv => DelCleanInv'
  BY <1>1, <1>2 DEF DelCleanInv, StreamWalkInv
<1> QED
  BY <1>1, <1>4, <1>5, <1>6, <1>7, <1>8, <1>9 DEF ArchiveInv, ArchiveCleanInv

\* a step that does not damage the archive is one of ArchiveStep
LEMMA ArchiveDamage ==
  ASSUME [ArchiveNext]_archiveVars
  PROVE  /\ damaged' = TRUE \/ damaged' = damaged
         /\ ~damaged' => ~damaged /\ [ArchiveStep]_soundVars
<1>1. CASE AddStep /\ UNCHANGED damaged /\ UNCHANGED delLocals
  BY <1>1 DEF ArchiveStep
<1>2. CASE DelStep /\ UNCHANGED damaged /\ UNCHANGED <<abort, fileVars>>
  BY <1>2 DEF ArchiveStep
<1>3. CASE damaged' = TRUE
  BY <1>3
<1>4. CASE UNCHANGED archiveVars
  BY <1>4 DEF archiveVars, soundVars
<1> QED
  BY <1>1, <1>2, <1>3, <1>4 DEF ArchiveNext, AddNext, DelNext

\* Any number of sessions that add and delete, failing in whatever way: between them, and
\* at every turn of the walk of dzDeleteFiles, the directory is what ArchiveInv says, until
\* a write of dzWriteDirectory fails
THEOREM ArchiveInvariant ==
  ASSUME Plain, PaksFit
  PROVE  ArchiveSpec => [](damaged \/ ArchiveInv)
<1>1. ArchiveInv /\ [ArchiveStep]_soundVars => ArchiveInv'
  <2> SUFFICES ASSUME ArchiveInv, [ArchiveStep]_soundVars PROVE ArchiveInv'
    OBVIOUS
  <2>1. CASE UNCHANGED soundVars
    BY <2>1, ArchiveIdles
  <2>2. CASE AddStep /\ UNCHANGED delLocals
    BY <2>2, AddingStep
  <2>3. CASE DelStep /\ UNCHANGED <<abort, fileVars>>
    BY <2>3, RequestStep, TurnStep, EndStep DEF DelStep
  <2> QED
    BY <2>1, <2>2, <2>3 DEF ArchiveStep
<1>2. (damaged \/ ArchiveInv) /\ [ArchiveNext]_archiveVars => (damaged \/ ArchiveInv)'
  BY <1>1, ArchiveDamage
<1> QED
  BY <1>2, ArchiveStart, PTL DEF ArchiveSpec

\* With clean faults no deletion loses a stream either
THEOREM ArchiveCleanInvariant ==
  ASSUME Plain, PaksFit, Faults \subseteq CleanFaults
  PROVE  ArchiveSpec => [](damaged \/ (ArchiveInv /\ ArchiveCleanInv))
<1>1. ArchiveInv /\ ArchiveCleanInv /\ [ArchiveStep]_soundVars => ArchiveCleanInv'
  <2> SUFFICES ASSUME ArchiveInv, ArchiveCleanInv, [ArchiveStep]_soundVars
               PROVE  ArchiveCleanInv'
    OBVIOUS
  <2>1. CASE UNCHANGED soundVars
    BY <2>1, ArchiveIdles
  <2>2. CASE AddStep /\ UNCHANGED delLocals
    BY <2>2, AddCleanStep
  <2>3. CASE DelStep /\ UNCHANGED <<abort, fileVars>>
    BY <2>3, DeleteCleanStep
  <2> QED
    BY <2>1, <2>2, <2>3 DEF ArchiveStep
<1>2. ArchiveSpec => [](damaged \/ ArchiveInv)
  BY ArchiveInvariant
<1>3. (damaged \/ ArchiveInv) /\ (damaged \/ ArchiveCleanInv) /\ [ArchiveNext]_archiveVars
        => (damaged \/ ArchiveCleanInv)'
  BY <1>1, ArchiveDamage
<1>4. ArchiveSpec => [](damaged \/ ArchiveCleanInv)
  BY <1>2, <1>3, ArchiveStart, PTL DEF ArchiveSpec
<1> QED
  BY <1>2, <1>4, PTL

\* The walk's indices and counters never leave their sequences, whatever fails before the
\* directory is written
THEOREM DeleteTypeCorrect ==
  ASSUME Plain, PaksFit
  PROVE  ArchiveSpec => [](AddTypeOK /\ DeleteTypeOK)
<1>1. damaged \in BOOLEAN /\ (damaged \/ ArchiveInv) => AddTypeOK /\ DeleteTypeOK
  BY DEF ArchiveInv, AddTypeOK, DeleteTypeOK
<1>3. ArchiveInit => damaged \in BOOLEAN
  BY DEF ArchiveInit, AddInit
<1>4. damaged \in BOOLEAN /\ [ArchiveNext]_archiveVars => (damaged \in BOOLEAN)'
  BY ArchiveDamage
<1>5. ArchiveSpec => [](damaged \in BOOLEAN)
  BY <1>3, <1>4, PTL DEF ArchiveSpec
<1>2. ArchiveSpec => [](damaged \/ ArchiveInv)
  BY ArchiveInvariant
<1> QED
  BY <1>1, <1>2, <1>5, PTL

\* Adding and deleting in any order never makes entries overlap, and leaves every pak
\* header counting, numbering and spanning exactly the members that are left, whatever
\* fails before the directory is written
THEOREM ArchiveLayoutOK ==
  ASSUME Plain, PaksFit
  PROVE  ArchiveSpec => []LayoutOK
<1>1. damaged \/ ArchiveInv => LayoutOK
  <2> SUFFICES ASSUME ArchiveInv, ~Deleting PROVE LayoutOK
    BY DEF LayoutOK
  <2> QED
    BY LayoutFacts DEF ArchiveInv
<1>2. ArchiveSpec => [](damaged \/ ArchiveInv)
  BY ArchiveInvariant
<1> QED
  BY <1>1, <1>2, PTL

\* After a deletion too, and also when its copying has failed, the file's directory is the one
\* dzDeleteFiles had in memory, unless a write of dzWriteDirectory itself has failed
THEOREM ArchiveDirectoryWritten ==
  ASSUME Plain, PaksFit
  PROVE  ArchiveSpec => []FileMatchesDirectory
<1>1. damaged \/ ArchiveInv => FileMatchesDirectory
  BY ClosedFacts, ReopenFacts DEF ArchiveInv, Deleting, FileMatchesDirectory
<1>2. ArchiveSpec => [](damaged \/ ArchiveInv)
  BY ArchiveInvariant
<1> QED
  BY <1>1, <1>2, PTL

\* fposdelta never moves a stream onto the header or onto one that stays
THEOREM GapAlwaysSafe ==
  ASSUME Plain, PaksFit
  PROVE  ArchiveSpec => []GapSafe
<1>1. damaged \/ ArchiveInv => GapSafe
  <2> SUFFICES ASSUME ArchiveInv, pc = "walk", i <= Len(dir), dedelta > 0
               PROVE  /\ 0 <= fposdelta
                      /\ (IF i - dedelta = 1 THEN Header ELSE EndOf(dir[i - dedelta - 1]))
                           <= dir[i].ptr - fposdelta
    BY DEF GapSafe
  <2>1. /\ GapInv /\ i \in 1 .. Len(was) /\ Passed = i - 1 /\ dir[i] = was[i] /\ Len(was) \in Nat
        /\ dedelta \in 0 .. i - 1 /\ fposdelta \in Nat /\ Stay = i - 1 - dedelta
        /\ Stay \in 0 .. i - 1
    BY WalkFacts
  <2> DEFINE n == Len(was)
             w == was[i]
             s == Stay
  <2>2. i \in Passed + 1 .. n
    BY <2>1
  <2>3. Header <= w.ptr - fposdelta /\ \A x \in 1 .. s : EndOf(dir[x]) <= w.ptr - fposdelta
    BY <2>1, <2>2 DEF GapInv
  <2>4. dir[i] = w
    BY <2>1
  <2> HIDE DEF n, w
  <2>5. CASE i - dedelta = 1
    BY <2>1, <2>3, <2>4, <2>5
  <2>6. CASE i - dedelta # 1
    <3>1. i - dedelta - 1 = s /\ s \in 1 .. s
      BY <2>1, <2>6
    <3>2. EndOf(dir[i - dedelta - 1]) <= w.ptr - fposdelta
      BY <2>3, <3>1
    <3> QED
      BY <2>1, <2>4, <2>6, <3>2
  <2> QED
    BY <2>5, <2>6
<1>2. ArchiveSpec => [](damaged \/ ArchiveInv)
  BY ArchiveInvariant
<1> QED
  BY <1>1, <1>2, PTL

\* With clean faults no turn of the walk, and no turn of the copying in it, loses a cell of a
\* stream that stays: each is where one of the two directories says, or on its way in two parts
THEOREM WalkAlwaysReadable ==
  ASSUME Plain, PaksFit, Faults \subseteq CleanFaults
  PROVE  ArchiveSpec => []WalkReadable
<1>1. damaged \/ (ArchiveInv /\ ArchiveCleanInv) => WalkReadable
  <2> DEFINE s == i - 1 - dedelta
             es == SubSeq(dir, 1, s)
  <2> SUFFICES ASSUME ArchiveInv, ArchiveCleanInv, pc \in {"walk", "copy"}
               PROVE  /\ AllReadable(disk, es)
                      /\ \A x \in i + 1 .. Len(was) : EntryReadable(disk, was[x])
                      /\ i <= Len(was) => IF pc = "walk" THEN EntryReadable(disk, was[i])
                                                         ELSE HalfMoved(was[i], was[i].ptr)
    BY DEF WalkReadable
  <2>1. WalkInv /\ StreamWalkInv /\ Sound(was)
    BY DEF ArchiveInv, ArchiveCleanInv, DelInv, DelCleanInv, Deleting
  <2>2. /\ Passed = IF pc = "copy" THEN i ELSE i - 1
        /\ s = IF pc = "copy" THEN Stay - 1 ELSE Stay
    BY <2>1 DEF Passed, Stay, WalkInv
  <2>3. /\ Len(was) \in Nat /\ i \in Nat /\ s \in 0 .. Len(was)
        /\ dir \in Seq(Entry) /\ Len(dir) = Len(was)
    <3>1. CASE pc = "walk"
      BY <2>1, <2>2, <3>1 DEF WalkInv, Sound
    <3>2. CASE pc = "copy"
      <4>1. Stay \in 1 .. i /\ i \in 1 .. Len(was)
        BY <3>2, CopyFacts
      <4> QED
        BY <2>1, <2>2, <3>2, <4>1 DEF WalkInv, Sound
    <3> QED
      BY <3>1, <3>2
  <2>4. /\ \A x \in 1 .. s : EntryReadable(disk, dir[x])
        /\ \A x \in Passed + 1 .. Len(was) : EntryReadable(disk, was[x])
    BY <2>1, <2>2 DEF StreamWalkInv
  <2>5. \A x \in i + 1 .. Len(was) : EntryReadable(disk, was[x])
    <3> SUFFICES ASSUME NEW x \in i + 1 .. Len(was) PROVE EntryReadable(disk, was[x])
      OBVIOUS
    <3>1. x \in Passed + 1 .. Len(was)
      BY <2>2, <2>3
    <3> QED
      BY <2>4, <3>1
  <2> HIDE DEF s
  <2>7. Len(es) = s /\ \A x \in 1 .. s : es[x] = dir[x]
    BY <2>3
  <2>8. AllReadable(disk, es)
    BY <2>3, <2>4, <2>7 DEF AllReadable
  <2>9. ASSUME pc = "walk", i <= Len(was) PROVE EntryReadable(disk, was[i])
    <3>1. i \in Passed + 1 .. Len(was)
      BY <2>2, <2>3, <2>9
    <3> QED
      BY <2>4, <3>1
  <2>10. ASSUME pc = "copy" PROVE HalfMoved(was[i], was[i].ptr)
    <3> DEFINE p == was[i].ptr
               z == was[i].size
               m == z - togo
    <3>1. /\ p \in Nat /\ z \in Nat /\ togo \in 1 .. z /\ curpos = p + z - togo
          /\ fposdelta \in Nat
      BY <2>10, CopyFacts
    <3>2. Cells(disk, was[i], p - fposdelta, 0, m - 1) /\ Cells(disk, was[i], p, m, z - 1)
      BY <2>1, <2>10 DEF StreamWalkInv
    <3>3. DOMAIN disk = Positions
      BY DEF ArchiveInv, SessionTypes
    <3> HIDE DEF p, z
    <3> SUFFICES ASSUME NEW k \in 0 .. z - 1
                 PROVE  LET x == IF p + k < curpos THEN p + k - fposdelta ELSE p + k IN
                          x \in Positions /\ disk[x] = DataCell(FormOf(was[i]), was[i].name, k)
      BY <3>3 DEF HalfMoved, p, z
    <3>4. CASE p + k < curpos
      <4>1. k \in 0 .. m - 1 /\ p + k - fposdelta = p - fposdelta + k
        BY <3>1, <3>4
      <4> HIDE DEF m
      <4> QED
        BY <3>2, <3>4, <4>1 DEF Cells
    <3>5. CASE ~(p + k < curpos)
      <4>1. k \in m .. z - 1
        BY <3>1, <3>5
      <4> HIDE DEF m
      <4> QED
        BY <3>2, <3>5, <4>1 DEF Cells
    <3> QED
      BY <3>4, <3>5
  <2> QED
    BY <2>5, <2>8, <2>9, <2>10
<1>2. ArchiveSpec => [](damaged \/ (ArchiveInv /\ ArchiveCleanInv))
  BY ArchiveCleanInvariant
<1> QED
  BY <1>1, <1>2, PTL

\* With clean faults every entry can be extracted after any number of sessions of both kinds,
\* until a write of dzWriteDirectory fails
THEOREM ArchiveReadable ==
  ASSUME Plain, PaksFit, Faults \subseteq CleanFaults
  PROVE  ArchiveSpec => [](EntriesReadable /\ PositionsAgree)
<1>1. damaged \/ (ArchiveInv /\ ArchiveCleanInv) => EntriesReadable
  BY DEF ArchiveCleanInv, CleanInv, StreamInv, EntriesReadable
<1>2. damaged \/ (ArchiveInv /\ ArchiveCleanInv) => PositionsAgree
  <2>1. damaged \/ Deleting => PositionsAgree
    BY DEF PositionsAgree, Deleting
  <2> QED
    BY <2>1, PositionFacts DEF ArchiveInv, ArchiveCleanInv
<1>3. ArchiveSpec => [](damaged \/ (ArchiveInv /\ ArchiveCleanInv))
  BY ArchiveCleanInvariant
<1> QED
  BY <1>1, <1>2, <1>3, PTL

\* ... and adding to an archive after deletions writes over none of its streams either, not
\* even when the write of its directory fails
THEOREM ArchiveStreamsKept ==
  ASSUME Plain, PaksFit, Faults \subseteq CleanFaults
  PROVE  ArchiveSpec => StreamsKept
<1>1. (damaged \/ (ArchiveInv /\ ArchiveCleanInv)) /\ [ArchiveNext]_archiveVars => [KeptStep]_addVars
  <2> SUFFICES ASSUME ArchiveInv, ArchiveCleanInv, [ArchiveNext]_archiveVars, ~Deleting
               PROVE  KeptStep \/ UNCHANGED addVars
    BY DEF KeptStep
  <2>1. AddInv /\ CleanInv /\ ShapeInv
    BY DEF ArchiveInv, ArchiveCleanInv
  <2>2. CASE UNCHANGED archiveVars
    BY <2>2 DEF archiveVars, addVars
  <2>3. CASE AddNext
    BY <2>1, <2>3, StreamsStay DEF AddNext
  <2>4. CASE DelNext
    <3>1. disk' = disk
      BY <2>4 DEF DelNext, DelStep, Deleting, DeleteRequest, RemoveArchive, DropEntry, DropMember,
                  KeepEntry, CopyChunk, CopyFails, CopyGoesOn, DeleteHeader, DeleteEntries,
                  DeleteHeaderFails, DeleteEntriesFail
    <3> QED
      BY <3>1 DEF KeptStep
  <2> QED
    BY <2>2, <2>3, <2>4 DEF ArchiveNext
<1>2. ArchiveSpec => [](damaged \/ (ArchiveInv /\ ArchiveCleanInv))
  BY ArchiveCleanInvariant
<1>3. ArchiveSpec => [][KeptStep]_addVars
  BY <1>1, <1>2, PTL DEF ArchiveSpec
<1> QED
  BY <1>3, PTL DEF StreamsKept, KeptStep
=============================================================================
