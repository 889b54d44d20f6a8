---------------------------- MODULE DzAddProofs ----------------------------
(***************************************************************************)
(* Adding never damages an archive, for every set of blobs, paks and       *)
(* sizes: as long as a file fails, if it fails, before any of it was put   *)
(* out, and the tail of a stream is written whole, every entry of the      *)
(* directory can be read back, in the session and after it, and no stream  *)
(* that was there is written over.  Whatever fails, entries stay apart and *)
(* paks whole.  All of it ends where a write of dzWriteDirectory fails,    *)
(* which the code does not look at: the theorems are about archives that   *)
(* are not `damaged`, and the step that damages one still spares the       *)
(* streams.                                                                *)
(***************************************************************************)
EXTENDS DzAdd, TLAPS

CleanFaults == {"read", "write", "abort", "directory"}

-----------------------------------------------------------------------------
(* The inductive invariant.                                                *)

TypeInv == SessionTypes /\ ~Deleting

\* the entry being compressed is a plain one and its stream not yet finished
CurInv ==
  pc = "compress" =>
    /\ cur.name \in Blob /\ cur.type = "NORMAL"
    /\ cur.real = Real[cur.name]
    /\ out < Comp[cur.name] /\ fed <= Real[cur.name]
    /\ Header <= cur.ptr /\ cur.ptr <= total
    /\ abort = 0 => total = cur.ptr + out

\* every entry ends before every later one begins, and before the next one will
PlaceInv ==
  /\ \A x \in DOMAIN dir : Header <= dir[x].ptr /\ 0 <= dir[x].size
  /\ \A x, y \in DOMAIN dir : x < y => EndOf(dir[x]) <= dir[y].ptr
  /\ pc # "closed" => Header <= total /\ \A x \in DOMAIN dir : EndOf(dir[x]) <= total
  /\ pc = "compress" => \A x \in DOMAIN dir : EndOf(dir[x]) <= cur.ptr

\* a pak is being filled exactly between its header and its last member
PakInv ==
  /\ pc \in {"closed", "ready", "entries"} => hdr = 0
  /\ pc = "member" => hdr # 0
  /\ hdr # 0 => dir[hdr].type = "PAK" /\ dir[hdr].ptr <= total

\* where the file position is
PosInv ==
  /\ abort = 0 /\ pc \in {"ready", "member", "compress"} => fpos = total
  /\ abort = 3 => pc = "compress" /\ total = (IF hdr = 0 THEN cur.ptr ELSE dir[hdr].ptr)

\* what is in the file
StreamInv ==
  /\ AllReadable(disk, dir)
  /\ abort = 0 /\ pc = "compress" =>
       \A k \in 0 .. out - 1 :
         cur.ptr + k \in Positions /\ disk[cur.ptr + k] = DataCell("zlib", cur.name, k)

HeaderWritten ==
  /\ dir # << >>
  /\ Fits(DirectoryOffset(dir), Len(dir))
  /\ disk[0] = HeaderCell(DirectoryOffset(dir), Len(dir))

FileInv ==
  /\ pc = "entries" => HeaderWritten /\ fpos = DirectoryOffset(dir)
  /\ pc = "closed" /\ Created =>
       /\ HeaderWritten
       /\ \A k \in 1 .. Len(dir) : disk[DirectoryOffset(dir) + k - 1] = DirCell(dir[k])
  /\ pc = "closed" /\ ~Created => dir = << >>

\* holds whatever goes wrong before the directory is written
AddInv == TypeInv /\ CurInv /\ PlaceInv /\ PakInv /\ FileInv

\* holds as long as only CleanFaults happen
CleanInv == PosInv /\ StreamInv

-----------------------------------------------------------------------------
(* Writing cells.                                                          *)

\* Every cell the program writes is a well-formed one
LEMMA CellsAreCells ==
  /\ CellOK(Free) /\ CellOK(Junk)
  /\ \A e \in Entry : CellOK(DirCell(e))
  /\ \A o, n \in Nat : CellOK(HeaderCell(o, n))
  /\ \A f \in {"zlib", "raw"}, b \in Blob, k \in Nat : CellOK(DataCell(f, b, k))
<1>1. CellOK(Free) /\ CellOK(Junk)
  BY DEF CellOK
<1>2. \A e \in Entry : CellOK(DirCell(e))
  BY DEF CellOK, DirCell
<1>3. \A o, n \in Nat : CellOK(HeaderCell(o, n))
  BY DEF CellOK, HeaderCell
<1>4. \A f \in {"zlib", "raw"}, b \in Blob, k \in Nat : CellOK(DataCell(f, b, k))
  BY DEF CellOK, DataCell
<1> QED
  BY <1>1, <1>2, <1>3, <1>4

\* Writing a stretch of a stream keeps the file a file ...
LEMMA PutDataType ==
  ASSUME NEW d, DOMAIN d = Positions, \A x \in Positions : CellOK(d[x]),
         NEW p \in Int, NEW n \in Int, NEW f \in {"zlib", "raw"}, NEW b \in Blob,
         NEW k0 \in Nat
  PROVE  /\ DOMAIN PutData(d, p, n, f, b, k0) = Positions
         /\ \A x \in Positions : CellOK(PutData(d, p, n, f, b, k0)[x])
<1> SUFFICES ASSUME NEW x \in Positions
             PROVE  CellOK(PutData(d, p, n, f, b, k0)[x])
  BY DEF PutData
<1>1. CASE x \in p .. p + n - 1
  <2>1. k0 + x - p \in Nat
    BY <1>1, FormatAssumption DEF Positions
  <2> QED
    BY <1>1, <2>1, CellsAreCells DEF PutData
<1>2. CASE x \notin p .. p + n - 1
  BY <1>2 DEF PutData
<1> QED
  BY <1>1, <1>2

\* ... and so does writing garbage
LEMMA PutJunkType ==
  ASSUME NEW d, DOMAIN d = Positions, \A x \in Positions : CellOK(d[x]),
         NEW p \in Int, NEW n \in Int
  PROVE  /\ DOMAIN PutJunk(d, p, n) = Positions
         /\ \A x \in Positions : CellOK(PutJunk(d, p, n)[x])
  BY CellsAreCells DEF PutJunk

\* d2 differs from d only from p on
SameBelow(d, d2, p) == DOMAIN d2 = DOMAIN d /\ \A x \in DOMAIN d : Header <= x /\ x < p => d2[x] = d[x]

\* An entry that ends where a write begins stays readable
LEMMA ReadableStays ==
  ASSUME NEW d, NEW d2, NEW p \in Int, SameBelow(d, d2, p),
         NEW e \in Entry, HasData(e) => EndOf(e) <= p /\ Header <= e.ptr, EntryReadable(d, e)
  PROVE  EntryReadable(d2, e)
<1> SUFFICES ASSUME HasData(e), NEW k \in 0 .. e.size - 1
             PROVE  e.ptr + k \in DOMAIN d2 /\ d2[e.ptr + k] = DataCell(FormOf(e), e.name, k)
  BY DEF EntryReadable
<1>1. e.ptr \in Int /\ e.size \in Int /\ EndOf(e) = e.ptr + e.size
  BY DEF Entry, EndOf, HasData
<1>2. e.ptr + k < p /\ Header <= e.ptr + k
  BY <1>1 DEF Header
<1>3. e.ptr + k \in DOMAIN d /\ d[e.ptr + k] = DataCell(FormOf(e), e.name, k)
  BY DEF EntryReadable
<1> QED
  BY <1>2, <1>3 DEF SameBelow

\* Writing a stream or garbage touches nothing below the position it starts at
LEMMA PutDataAbove ==
  ASSUME NEW d, NEW p \in Int, NEW n \in Int, NEW f, NEW b, NEW k0
  PROVE  SameBelow(d, PutData(d, p, n, f, b, k0), p)
  BY DEF SameBelow, PutData

\* and the same for garbage
LEMMA PutJunkAbove ==
  ASSUME NEW d, NEW p \in Int, NEW n \in Int
  PROVE  SameBelow(d, PutJunk(d, p, n), p)
  BY DEF SameBelow, PutJunk

-----------------------------------------------------------------------------
(* The invariant holds initially.                                          *)

\* the empty file system before the first session satisfies the invariant
LEMMA InitInv == AddInit => AddInv /\ CleanInv
<1> SUFFICES ASSUME AddInit PROVE AddInv /\ CleanInv
  OBVIOUS
<1> USE DEF AddInit, IdleFile
<1>1. NoEntry \in Entry
  BY FormatAssumption DEF NoEntry, Entry, Type, Name
<1>2. TypeInv
  BY <1>1, CellsAreCells, FormatAssumption DEF TypeInv, SessionTypes, Deleting
<1>3. ~Created
  BY FormatAssumption DEF Created, Positions, Free
<1>4. CurInv /\ PlaceInv /\ PakInv /\ PosInv
  BY DEF CurInv, PlaceInv, PakInv, PosInv
<1>5. StreamInv /\ FileInv
  BY <1>3 DEF StreamInv, FileInv, AllReadable
<1> QED
  BY <1>2, <1>4, <1>5 DEF AddInv, CleanInv

-----------------------------------------------------------------------------
(* The entries the program builds.                                         *)

\* the placeholder between two entries is an entry like any other
LEMMA NoEntryIsEntry == NoEntry \in Entry
  BY FormatAssumption DEF NoEntry, Entry, Type, Name

\* startdirentry builds an entry that is empty and begins at totalsize
LEMMA StartEntryType ==
  ASSUME total \in Nat, NEW n \in Name, NEW t \in Type, NEW r \in Nat, NEW k \in Nat
  PROVE  /\ StartEntry(n, t, r, k) \in Entry
         /\ StartEntry(n, t, r, k).ptr = total /\ StartEntry(n, t, r, k).size = 0
         /\ StartEntry(n, t, r, k).type = t /\ StartEntry(n, t, r, k).name = n
         /\ StartEntry(n, t, r, k).real = r
  BY DEF StartEntry, Entry

\* ... and has the number it is given
LEMMA StartEntryNumber ==
  ASSUME NEW n, NEW t, NEW r, NEW k
  PROVE  StartEntry(n, t, r, k).pak = k
  BY DEF StartEntry

-----------------------------------------------------------------------------
(* Type correctness is preserved by every action.                          *)

\* what the actions that compress may rely on
LEMMA CurFacts ==
  ASSUME AddInv, pc = "compress"
  PROVE  /\ cur \in Entry /\ cur.name \in Blob /\ cur.real = Real[cur.name]
         /\ Real[cur.name] \in Nat /\ Comp[cur.name] \in Nat \ {0}
         /\ cur.real \in Nat /\ cur.ptr \in Nat /\ cur.type = "NORMAL"
         /\ Pending \in Nat /\ Rest \in Nat \ {0} /\ Comp[cur.name] = out + Rest
         /\ Pending = Rest - 1
         /\ Header <= cur.ptr /\ cur.ptr <= total
         /\ fpos \in Nat /\ total \in Nat /\ out \in Nat
         /\ abort = 0 => total = cur.ptr + out
<1>1. cur \in Entry /\ fpos \in Nat /\ total \in Nat /\ out \in Nat
  BY DEF AddInv, TypeInv, SessionTypes
<1>2. cur.name \in Blob /\ cur.real = Real[cur.name] /\ cur.type = "NORMAL" /\ out < Comp[cur.name]
      /\ (abort = 0 => total = cur.ptr + out)
  BY DEF AddInv, CurInv
<1>3. Real[cur.name] \in Nat /\ Comp[cur.name] \in Nat \ {0}
  BY <1>2, FormatAssumption
<1>4. Header <= cur.ptr /\ cur.ptr <= total /\ cur.ptr \in Int
  BY <1>1 DEF AddInv, CurInv, Entry
<1> QED
  BY <1>1, <1>2, <1>3, <1>4 DEF Pending, Rest, Header

\* an entry that finishdirentry keeps, compressed or stored, is an entry
LEMMA KeptEntries ==
  ASSUME AddInv, pc = "compress"
  PROVE  /\ Compressed(cur) \in Entry /\ Compressed(cur).real = Real[cur.name]
         /\ Compressed(cur).ptr = cur.ptr /\ Compressed(cur).size = Comp[cur.name]
         /\ Compressed(cur).type = "NORMAL" /\ Compressed(cur).name = cur.name
         /\ Compressed(cur).pak = cur.pak /\ Stored(cur).pak = cur.pak
         /\ Stored(cur) \in Entry /\ Stored(cur).real = Real[cur.name]
         /\ Stored(cur).ptr = cur.ptr /\ Stored(cur).size = Real[cur.name]
         /\ Stored(cur).type = "STORE" /\ Stored(cur).name = cur.name
<1> DEFINE n == Comp[cur.name]
           m == cur.real
<1>1. cur \in Entry /\ cur.type = "NORMAL" /\ cur.real = Real[cur.name] /\ n \in Int /\ m \in Int
  BY CurFacts
<1>2. Compressed(cur) = [cur EXCEPT !.size = n] /\ Stored(cur) = [cur EXCEPT !.size = m, !.type = "STORE"]
  BY DEF Compressed, Stored
<1>3. m = Real[cur.name] /\ n = Comp[cur.name]
  BY <1>1
<1> HIDE DEF n, m
<1>4. [cur EXCEPT !.size = n] \in Entry /\ [cur EXCEPT !.size = m, !.type = "STORE"] \in Entry
  BY <1>1 DEF Entry, Type
<1>5. LET e == [cur EXCEPT !.size = n] IN
        /\ e.real = cur.real /\ e.ptr = cur.ptr /\ e.size = n /\ e.type = cur.type
        /\ e.name = cur.name /\ e.pak = cur.pak
  BY <1>1 DEF Entry
<1>6. LET e == [cur EXCEPT !.size = m, !.type = "STORE"] IN
        /\ e.real = cur.real /\ e.ptr = cur.ptr /\ e.size = m /\ e.type = "STORE"
        /\ e.name = cur.name /\ e.pak = cur.pak
  BY <1>1 DEF Entry
<1> QED
  BY <1>1, <1>2, <1>3, <1>4, <1>5, <1>6

\* a finished pak header
LEMMA SpanningFacts ==
  ASSUME AddInv, pc = "member"
  PROVE  /\ hdr \in DOMAIN dir /\ dir[hdr].type = "PAK" /\ Spanning(dir[hdr]) \in Entry
         /\ Spanning(dir[hdr]).ptr = dir[hdr].ptr /\ Spanning(dir[hdr]).type = "PAK"
         /\ Spanning(dir[hdr]).pak = dir[hdr].pak
         /\ Spanning(dir[hdr]).size = total - dir[hdr].ptr
         /\ 0 <= Spanning(dir[hdr]).size
<1>1. hdr \in DOMAIN dir /\ dir[hdr].type = "PAK" /\ dir[hdr].ptr <= total
  BY DEF AddInv, TypeInv, SessionTypes, PakInv
<1>2. dir[hdr] \in Entry /\ total \in Int /\ paksize \in Int
  BY <1>1 DEF AddInv, TypeInv, SessionTypes
<1>3. dir[hdr].ptr \in Int
  BY <1>2 DEF Entry
<1>4. total - dir[hdr].ptr \in Int /\ 0 <= total - dir[hdr].ptr
  BY <1>1, <1>2, <1>3
<1> DEFINE h == dir[hdr]
           n == total - h.ptr
           r == paksize
<1>5. /\ h \in Entry /\ n \in Int /\ r \in Int
      /\ h = dir[hdr] /\ 0 <= n /\ Spanning(dir[hdr]) = [h EXCEPT !.size = n, !.real = r]
  BY <1>2, <1>4 DEF Spanning
<1> HIDE DEF h, n, r
<1>6. LET e == [h EXCEPT !.size = n, !.real = r] IN
        e \in Entry /\ e.ptr = h.ptr /\ e.type = h.type /\ e.size = n /\ e.pak = h.pak
  BY <1>5 DEF Entry
<1>7. n = total - dir[hdr].ptr
  BY DEF n, h
<1> QED
  BY <1>1, <1>5, <1>6, <1>7

\* the place where the directory goes lies behind every stream
LEMMA OffsetFacts ==
  ASSUME AddInv, dir # << >>
  PROVE  /\ DirectoryOffset(dir) \in Nat /\ Header <= DirectoryOffset(dir)
         /\ \A x \in DOMAIN dir : EndOf(dir[x]) <= DirectoryOffset(dir)
<1>1. dir \in Seq(Entry) /\ Len(dir) \in DOMAIN dir
  BY DEF AddInv, TypeInv, SessionTypes
<1>2. \A x \in DOMAIN dir : dir[x].ptr \in Int /\ dir[x].size \in Int
  <2>1. \A x \in DOMAIN dir : dir[x] \in Entry
    BY <1>1
  <2> QED
    BY <2>1 DEF Entry
<1>3. /\ \A x \in DOMAIN dir : Header <= dir[x].ptr /\ 0 <= dir[x].size
      /\ \A x, y \in DOMAIN dir : x < y => EndOf(dir[x]) <= dir[y].ptr
  BY DEF AddInv, PlaceInv
<1>4. DirectoryOffset(dir) \in Nat /\ Header <= DirectoryOffset(dir)
  BY <1>1, <1>2, <1>3 DEF DirectoryOffset, Header
<1>5. ASSUME NEW x \in DOMAIN dir PROVE EndOf(dir[x]) <= DirectoryOffset(dir)
  <2>1. CASE x = Len(dir)
    BY <1>1, <1>2, <1>3, <2>1 DEF DirectoryOffset, EndOf
  <2>2. CASE x < Len(dir)
    <3>1. EndOf(dir[x]) \in Int
      BY <1>2 DEF EndOf
    <3> QED
      BY <1>1, <1>2, <1>3, <2>2, <3>1 DEF DirectoryOffset
  <2> QED
    BY <1>1, <2>1, <2>2
<1> QED
  BY <1>4, <1>5

\* a file that was closed holds its directory
LEMMA ReopenFacts ==
  ASSUME AddInv, pc = "closed", Created
  PROVE  /\ dir # << >> /\ DirectoryReadable(disk) /\ Begun(disk)
         /\ ReadDirectory(disk) = dir /\ AppendAt(disk) = DirectoryOffset(dir)
<1>1. /\ dir # << >> /\ Fits(DirectoryOffset(dir), Len(dir))
      /\ disk[0] = HeaderCell(DirectoryOffset(dir), Len(dir))
      /\ \A k \in 1 .. Len(dir) : disk[DirectoryOffset(dir) + k - 1] = DirCell(dir[k])
  BY DEF AddInv, FileInv, HeaderWritten
<1>2. disk[0][1] = "header" /\ disk[0][2] = DirectoryOffset(dir) /\ disk[0][3] = Len(dir)
  BY <1>1 DEF HeaderCell
<1>3. \A k \in 1 .. Len(dir) :
        LET c == disk[DirectoryOffset(dir) + k - 1] IN c[1] = "entry" /\ c[2] = dir[k]
  BY <1>1 DEF DirCell
<1>4. dir \in Seq(Entry)
  BY DEF AddInv, TypeInv, SessionTypes
<1>5. DirectoryReadable(disk)
  BY <1>1, <1>2, <1>3, OffsetFacts DEF DirectoryReadable, Fits, Begun
<1>6. ReadDirectory(disk) = dir
  BY <1>2, <1>3, <1>4 DEF ReadDirectory
<1> QED
  BY <1>1, <1>2, <1>5, <1>6 DEF AppendAt, Begun

\* every action leaves a file of cells
LEMMA DiskStep ==
  ASSUME AddInv, [AddStep]_addVars
  PROVE  DOMAIN disk' = Positions /\ \A x \in Positions : CellOK(disk'[x])
<1> DEFINE OK(d) == DOMAIN d = Positions /\ \A x \in Positions : CellOK(d[x])
<1>1. OK(disk) /\ dir \in Seq(Entry) /\ fpos \in Nat
  BY DEF AddInv, TypeInv, SessionTypes
<1>2. ASSUME NEW d, OK(d), NEW p \in Nat, NEW n \in Int, NEW f \in {"zlib", "raw"},
             NEW b \in Blob, NEW k \in Nat
      PROVE  OK(PutData(d, p, n, f, b, k))
  BY <1>2, PutDataType
<1>3. ASSUME NEW n \in Int PROVE OK(PutJunk(disk, fpos, n))
  BY <1>1, PutJunkType
<1>4. CASE Create
  <2>1. CellOK(Free) /\ CellOK(HeaderCell(0, 0))
    BY CellsAreCells
  <2> QED
    BY <1>4, <2>1 DEF Create
<1>5. CASE CompressBlock
  <2>1. pc = "compress" /\ \E w \in 0 .. Pending : disk' = PutData(disk, fpos, w, "zlib", cur.name, out)
    BY <1>5 DEF CompressBlock
  <2>2. cur.name \in Blob /\ out \in Nat /\ Pending \in Nat
    BY <2>1, CurFacts
  <2> HIDE DEF OK
  <2>3. \A w \in 0 .. Pending : OK(PutData(disk, fpos, w, "zlib", cur.name, out))
    BY <1>1, <1>2, <2>2
  <2> QED
    BY <2>1, <2>3 DEF OK
<1>6. CASE ReadFails
  <2>1. pc = "compress" /\ \E w \in 0 .. Pending : disk' = PutJunk(disk, fpos, w)
    BY <1>6 DEF ReadFails
  <2>2. Pending \in Nat
    BY <2>1, CurFacts
  <2> HIDE DEF OK
  <2>3. \A w \in 0 .. Pending : OK(PutJunk(disk, fpos, w))
    BY <1>3, <2>2
  <2> QED
    BY <2>1, <2>3 DEF OK
<1>7. CASE WriteFails
  <2>1. pc = "compress" /\ \E w \in 1 .. Pending : \E v \in 0 .. w - 1 :
                              disk' = PutData(disk, fpos, v, "zlib", cur.name, out)
    BY <1>7 DEF WriteFails
  <2>2. cur.name \in Blob /\ out \in Nat /\ Pending \in Nat
    BY <2>1, CurFacts
  <2> HIDE DEF OK
  <2>3. \A v \in Int : OK(PutData(disk, fpos, v, "zlib", cur.name, out))
    BY <1>1, <1>2, <2>2
  <2> QED
    BY <2>1, <2>2, <2>3 DEF OK
<1>8. CASE FinishCompressed \/ FinishShortTail
  <2>1. pc = "compress" /\ \E v \in Int : disk' = PutData(disk, fpos, v, "zlib", cur.name, out)
    <3>1. CASE FinishCompressed
      <4>1. pc = "compress" /\ disk' = PutData(disk, fpos, Rest, "zlib", cur.name, out)
        BY <3>1 DEF FinishCompressed, InputDone
      <4>2. Rest \in Int
        BY <4>1, CurFacts
      <4> QED
        BY <4>1, <4>2
    <3>2. CASE FinishShortTail
      BY <3>2 DEF FinishShortTail, InputDone
    <3> QED
      BY <1>8, <3>1, <3>2
  <2>2. cur.name \in Blob /\ out \in Nat
    BY <2>1, CurFacts
  <2> HIDE DEF OK
  <2>3. \A v \in Int : OK(PutData(disk, fpos, v, "zlib", cur.name, out))
    BY <1>1, <1>2, <2>2
  <2> QED
    BY <2>1, <2>3 DEF OK
<1>9. CASE FinishStored \/ FinishShortStore
  <2>1. pc = "compress"
    BY <1>9 DEF FinishStored, FinishShortStore, InputDone
  <2>2. cur.name \in Blob /\ out \in Nat /\ cur.ptr \in Nat /\ cur.real \in Nat /\ Rest \in Nat
    BY <2>1, CurFacts
  <2>3. \E n \in Int : disk' = StoreOver(n)
    BY <1>9, <2>2 DEF FinishStored, FinishShortStore
  <2> HIDE DEF OK
  <2>4. OK(PutData(disk, fpos, Rest, "zlib", cur.name, out))
    BY <1>1, <1>2, <2>2
  <2>5. \A n \in Int : OK(StoreOver(n))
    BY <1>2, <2>2, <2>4 DEF StoreOver
  <2> QED
    BY <2>3, <2>5 DEF OK
<1>10. CASE WriteHeader
  <2>1. CellOK(HeaderCell(DirectoryOffset(dir), Len(dir)))
    BY <1>1, <1>10, OffsetFacts, CellsAreCells DEF WriteHeader
  <2> QED
    BY <1>1, <1>10, <2>1 DEF WriteHeader, PutHeader
<1>11. CASE WriteEntries
  <2>1. \A x \in fpos .. fpos + Len(dir) - 1 : dir[x - fpos + 1] \in Entry
    BY <1>1
  <2> QED
    BY <1>1, <1>11, <2>1, CellsAreCells DEF WriteEntries, PutDirectory
<1>12. CASE RemoveEmpty
  BY <1>12, CellsAreCells DEF RemoveEmpty
<1>13. CASE UNCHANGED disk
  BY <1>1, <1>13
<1> QED
  BY <1>4, <1>5, <1>6, <1>7, <1>8, <1>9, <1>10, <1>11, <1>12, <1>13
  DEF AddStep, OpenForAdd, StartFile, AddFolder, StartPak, PakUnreadable, StartMember,
      CreateFails, UserAbort, AbortEntry, AbortPak, FinishPak, addVars

\* what keeping an entry does to everything but the file and its positions
LEMMA KeepFacts ==
  ASSUME AddInv, pc = "compress", NEW e \in Entry, e.real \in Nat, NEW a \in {0, 1, 3}, Keep(e, a)
  PROVE  /\ dir' = Append(dir, e) /\ dir' \in Seq(Entry) /\ Len(dir') = Len(dir) + 1
         /\ \A x \in DOMAIN dir : dir'[x] = dir[x]
         /\ dir'[Len(dir')] = e
         /\ cur' \in Entry /\ fed' \in Nat /\ out' \in Nat
         /\ paksize' \in Nat /\ abort' \in {0, 1, 3}
         /\ hdr' = hdr /\ hdr \in 0 .. Len(dir) /\ todo' \in Seq(Blob)
         /\ pc' = (IF hdr = 0 THEN "ready" ELSE "member")
         /\ a # 3 => abort' = a
<1>1. /\ dir \in Seq(Entry) /\ paksize \in Nat /\ todo \in Seq(Blob) /\ hdr \in 0 .. Len(dir)
  BY DEF AddInv, TypeInv, SessionTypes
<1>2. dir' = Append(dir, e) /\ hdr' = hdr /\ todo' = todo /\ pc' = NextPc /\ abort' = AfterEntry(a)
  BY DEF Keep
<1>3. paksize' \in Nat
  BY <1>1 DEF Keep, PaksizeWith
<1>4. abort' \in {0, 1, 3} /\ (a # 3 => abort' = a)
  BY <1>2 DEF AfterEntry, AfterFile
<1>5. cur' \in Entry /\ fed' \in Nat /\ out' \in Nat
  BY NoEntryIsEntry DEF Keep, ForgetEntry
<1> QED
  BY <1>1, <1>2, <1>3, <1>4, <1>5 DEF NextPc

\* every step keeps the types and the bounds on positions, counts and indices
LEMMA TypeStep ==
  ASSUME AddInv, [AddStep]_addVars
  PROVE  TypeInv'
<1>1. TypeInv
  BY DEF AddInv
<1>2. DOMAIN disk' = Positions /\ \A x \in Positions : CellOK(disk'[x])
  BY DiskStep
<1> USE <1>1, <1>2 DEF TypeInv, SessionTypes, Deleting
<1>3. CASE Create \/ CreateFails
  <2>1. hdr = 0
    BY <1>3 DEF Create, CreateFails, AddInv, PakInv
  <2>2. CASE Create
    BY <2>1, <2>2 DEF Create, Header
  <2>3. CASE CreateFails
    BY <2>1, <2>3 DEF CreateFails, Header
  <2> QED
    BY <1>3, <2>2, <2>3
<1>4. CASE OpenForAdd
  <2>1. ReadDirectory(disk) = dir /\ AppendAt(disk) \in Nat
    BY <1>4, ReopenFacts, OffsetFacts DEF OpenForAdd
  <2> QED
    BY <1>4, <2>1 DEF OpenForAdd
<1>5. ASSUME NEW b \in Blob, StartFile(b) PROVE TypeInv'
  <2>1. cur' \in Entry
    BY <1>5, StartEntryType, FormatAssumption, SMTT(30) DEF StartFile, Name, Type
  <2> QED
    BY <1>5, <2>1 DEF StartFile
<1>6. ASSUME NEW n \in DirName, AddFolder(n) PROVE TypeInv'
  <2>1. StartEntry(n, "DIR", 0, 0) \in Entry
    BY StartEntryType DEF Name, Type
  <2> QED
    BY <1>6, <2>1, SMTT(30) DEF AddFolder, NextInput
<1>7. ASSUME NEW p \in PakName, StartPak(p) PROVE TypeInv'
  <2>1. Paks[p] \in Seq(Blob)
    BY AddAssumption
  <2>2. StartEntry(p, "PAK", 0, Len(Paks[p])) \in Entry
    BY <2>1, StartEntryType DEF Name, Type
  <2> QED
    BY <1>7, <2>1, <2>2 DEF StartPak, NextInput
<1>8. ASSUME NEW p \in PakName, PakUnreadable(p) PROVE TypeInv'
  BY <1>8 DEF PakUnreadable, NextInput
<1>9. CASE StartMember
  <2>1. Head(todo) \in Blob /\ Tail(todo) \in Seq(Blob)
    BY <1>9 DEF StartMember
  <2>2. Real[Head(todo)] \in Nat /\ Len(dir) + 1 - hdr \in Nat
    BY <2>1, FormatAssumption
  <2>3. cur' \in Entry
    BY <1>9, <2>1, <2>2, StartEntryType, ZenonT(40) DEF StartMember, Name, Type
  <2> QED
    BY <1>9, <2>1, <2>3 DEF StartMember
<1>10. CASE CompressBlock
  <2>1. Pending \in Nat
    BY <1>10, CurFacts DEF CompressBlock
  <2> QED
    BY <1>10, <2>1 DEF CompressBlock
<1>11. CASE ReadFails
  <2>1. Pending \in Nat
    BY <1>11, CurFacts DEF ReadFails
  <2> QED
    BY <1>11, <2>1 DEF ReadFails
<1>12. CASE WriteFails
  <2>1. Pending \in Nat
    BY <1>12, CurFacts DEF WriteFails
  <2>2. fpos' \in Nat /\ total' \in Nat /\ out' \in Nat
    BY <1>12, <2>1 DEF WriteFails
  <2> QED
    BY <1>12, <2>2 DEF WriteFails
<1>13. CASE UserAbort
  BY <1>13 DEF UserAbort, fileVars
<1>14. ASSUME NEW e \in {Compressed(cur), Stored(cur)}, NEW a \in {0, 1, 3}, Keep(e, a),
              pc = "compress", fpos' \in Nat, total' \in Nat
       PROVE  TypeInv'
  <2>1. e \in Entry /\ e.real \in Nat
    BY <1>14, KeptEntries, CurFacts
  <2> QED
    BY <1>14, <2>1, KeepFacts, SMTT(30)
<1>15. CASE FinishCompressed
  <2>1. pc = "compress" /\ Keep(Compressed(cur), 0)
    BY <1>15 DEF FinishCompressed, InputDone
  <2>2. Rest \in Nat
    BY <2>1, CurFacts
  <2>3. fpos' \in Nat /\ total' \in Nat
    BY <1>15, <2>2 DEF FinishCompressed
  <2> QED
    BY <1>14, <2>1, <2>3
<1>16. CASE FinishShortTail
  <2>1. pc = "compress" /\ Keep(Compressed(cur), 1)
    BY <1>16 DEF FinishShortTail, InputDone
  <2>2. Rest \in Nat
    BY <2>1, CurFacts
  <2>3. fpos' \in Nat /\ total' \in Nat
    BY <1>16, <2>2 DEF FinishShortTail
  <2> QED
    BY <1>14, <2>1, <2>3
<1>17. CASE FinishStored
  <2>1. pc = "compress" /\ Keep(Stored(cur), 0)
    BY <1>17 DEF FinishStored, InputDone
  <2>2. cur.ptr \in Nat /\ cur.real \in Nat
    BY <2>1, CurFacts
  <2>3. fpos' \in Nat /\ total' \in Nat
    BY <1>17, <2>2 DEF FinishStored, StoredTotal
  <2> QED
    BY <1>14, <2>1, <2>3
<1>18. CASE FinishShortStore
  <2>1. pc = "compress" /\ cur.ptr \in Nat /\ cur.real \in Nat
    BY <1>18, CurFacts DEF FinishShortStore, InputDone
  <2>2. fpos' \in Nat /\ total' \in Nat
    BY <1>18, <2>1, SMTT(30) DEF FinishShortStore, StoredTotal
  <2>3. Keep(Stored(cur), 1) \/ Keep(Stored(cur), 3)
    BY <1>18 DEF FinishShortStore
  <2> QED
    BY <1>14, <2>1, <2>2, <2>3
<1>19. CASE AbortEntry
  BY <1>19, CurFacts, NoEntryIsEntry DEF AbortEntry, InputDone, AfterFile, ForgetEntry
<1>20. CASE AbortPak
  <2>1. dir' \in Seq(Entry)
    BY <1>20 DEF AbortPak, BeforePak
  <2>2. dir[hdr] \in Entry /\ Header <= dir[hdr].ptr /\ fpos' = dir[hdr].ptr
    BY <1>20 DEF AbortPak, AddInv, PlaceInv
  <2>3. dir[hdr].ptr \in Int
    BY <2>2 DEF Entry
  <2>4. fpos' \in Nat
    BY <2>2, <2>3 DEF Header
  <2> QED
    BY <1>20, <2>1, <2>4, NoEntryIsEntry DEF AbortPak, LeavePak, AfterFile, ForgetEntry
<1>21. CASE FinishPak
  <2>1. dir' \in Seq(Entry) /\ Len(dir') = Len(dir)
    BY <1>21, SpanningFacts DEF FinishPak
  <2> QED
    BY <1>21, <2>1 DEF FinishPak, LeavePak, AfterFile
<1>22. CASE WriteHeader
  BY <1>22, OffsetFacts DEF WriteHeader
<1>23. CASE WriteEntries
  BY <1>23 DEF WriteEntries, ForgetSession
<1>24. CASE RemoveEmpty
  BY <1>24 DEF RemoveEmpty, ForgetSession
<1>25. CASE UNCHANGED addVars
  BY <1>25 DEF addVars, fileVars
<1> QED
  BY <1>3, <1>4, <1>5, <1>6, <1>7, <1>8, <1>9, <1>10, <1>11, <1>12, <1>13, <1>15, <1>16,
     <1>17, <1>18, <1>19, <1>20, <1>21, <1>22, <1>23, <1>24, <1>25 DEF AddStep

-----------------------------------------------------------------------------
(* The other parts of the invariant.                                       *)

\* every step keeps what is known of the entry under compression
LEMMA CurStep ==
  ASSUME AddInv, [AddStep]_addVars
  PROVE  CurInv'
<1>1. TypeInv /\ CurInv /\ PlaceInv
  BY DEF AddInv
<1>2. ASSUME pc' # "compress" PROVE CurInv'
  BY <1>2 DEF CurInv
<1>3. ASSUME NEW b \in Blob, NEW k \in Nat, cur' = StartEntry(b, "NORMAL", Real[b], k),
             fed' = 0, out' = 0, total' = total, pc # "closed"
      PROVE  CurInv'
  <2>1. total \in Nat /\ Header <= total /\ Real[b] \in Nat /\ Comp[b] \in Nat \ {0}
    BY <1>1, <1>3, FormatAssumption DEF TypeInv, SessionTypes, PlaceInv
  <2>2. cur'.name = b /\ cur'.type = "NORMAL" /\ cur'.real = Real[b] /\ cur'.ptr = total
    BY <1>3, <2>1, StartEntryType DEF Name, Type
  <2> QED
    BY <1>3, <2>1, <2>2 DEF CurInv
<1>4. ASSUME NEW b \in Blob, StartFile(b) PROVE CurInv'
  BY <1>3, <1>4 DEF StartFile, NextInput
<1>5. CASE StartMember
  <2>1. Head(todo) \in Blob /\ Len(dir) + 1 - hdr \in Nat
    BY <1>1, <1>5 DEF StartMember, TypeInv, SessionTypes
  <2> QED
    BY <1>3, <1>5, <2>1 DEF StartMember
<1>6. ASSUME pc = "compress", cur' = cur, NEW w \in 0 .. Pending, out' = out + w, total' = total + w,
             fed' \in {fed, fed + 1}, fed < Real[cur.name], abort = 0
      PROVE  CurInv'
  <2>1. fed \in Nat /\ fed' <= Real[cur.name]
    BY <1>1, <1>6, CurFacts, SMTT(30) DEF TypeInv, SessionTypes
  <2> QED
    BY <1>1, <1>6, <2>1, CurFacts DEF CurInv
<1>7. CASE CompressBlock
  BY <1>6, <1>7 DEF CompressBlock
<1>8. CASE ReadFails
  BY <1>6, <1>8 DEF ReadFails
<1>9. CASE WriteFails
  <2>1. pc = "compress" /\ Pending \in Nat
    BY <1>9, CurFacts DEF WriteFails
  <2>2. PICK w \in 0 .. Pending : out' = out + w /\ total' = total + w
    BY <1>9, <2>1 DEF WriteFails
  <2> QED
    BY <1>6, <1>9, <2>2 DEF WriteFails
<1>10. CASE UserAbort \/ UNCHANGED addVars
  BY <1>1, <1>10 DEF CurInv, UserAbort, addVars, fileVars
<1>11. ASSUME NEW n \in DirName, AddFolder(n) PROVE CurInv'
  BY <1>2, <1>11 DEF AddFolder, NextInput
<1>12. ASSUME NEW p \in PakName, StartPak(p) \/ PakUnreadable(p) PROVE CurInv'
  BY <1>2, <1>12 DEF StartPak, PakUnreadable, NextInput
<1>13. CASE \/ Create \/ CreateFails \/ OpenForAdd \/ AbortEntry \/ AbortPak \/ FinishPak
            \/ WriteHeader \/ WriteEntries \/ RemoveEmpty
  BY <1>2, <1>13 DEF Create, CreateFails, OpenForAdd, AbortEntry, AbortPak, FinishPak, WriteHeader,
                     WriteEntries, RemoveEmpty
<1>14. CASE FinishCompressed \/ FinishShortTail \/ FinishStored \/ FinishShortStore
  BY <1>2, <1>14 DEF FinishCompressed, FinishShortTail, FinishStored, FinishShortStore, Keep, NextPc
<1> QED
  BY <1>4, <1>5, <1>7, <1>8, <1>9, <1>10, <1>11, <1>12, <1>13, <1>14 DEF AddStep

\* every step keeps hdr on the header of the pak being filled, and only there
LEMMA PakStep ==
  ASSUME AddInv, [AddStep]_addVars
  PROVE  PakInv'
<1>1. TypeInv /\ PlaceInv /\ PakInv
  BY DEF AddInv
<1>2. total \in Nat /\ dir \in Seq(Entry) /\ hdr \in 0 .. Len(dir)
  BY <1>1 DEF TypeInv, SessionTypes
<1>3. ASSUME hdr = 0, hdr' = 0, pc' # "member" PROVE PakInv'
  BY <1>3 DEF PakInv
<1>4. CASE Create \/ CreateFails \/ OpenForAdd \/ WriteHeader \/ WriteEntries \/ RemoveEmpty
  BY <1>1, <1>3, <1>4 DEF PakInv, Create, CreateFails, OpenForAdd, WriteHeader, WriteEntries, RemoveEmpty
<1>5. ASSUME NEW b \in Blob, StartFile(b) PROVE PakInv'
  BY <1>1, <1>3, <1>5 DEF PakInv, StartFile, NextInput
<1>6. ASSUME NEW n \in DirName, AddFolder(n) PROVE PakInv'
  BY <1>1, <1>3, <1>6 DEF PakInv, AddFolder, NextInput
<1>7. ASSUME NEW p \in PakName, StartPak(p) PROVE PakInv'
  <2>1. Len(Paks[p]) \in Nat
    BY AddAssumption
  <2> DEFINE e == StartEntry(p, "PAK", 0, Len(Paks[p]))
  <2>2. e \in Entry /\ e.ptr = total /\ e.type = "PAK"
    BY <1>2, <2>1, StartEntryType DEF Name, Type
  <2>5. dir' = Append(dir, e)
    BY <1>7 DEF StartPak
  <2> HIDE DEF e
  <2>3. hdr' = Len(dir) + 1 /\ pc' = "member" /\ total' = total
    BY <1>7 DEF StartPak
  <2>4. dir'[hdr'].ptr = total /\ dir'[hdr'].type = "PAK"
    BY <1>2, <2>2, <2>3, <2>5
  <2> QED
    BY <1>2, <2>3, <2>4 DEF PakInv
<1>8. ASSUME NEW p \in PakName, PakUnreadable(p) PROVE PakInv'
  BY <1>1, <1>3, <1>8 DEF PakInv, PakUnreadable, NextInput
<1>9. CASE StartMember
  BY <1>1, <1>9 DEF PakInv, StartMember
<1>10. ASSUME dir' = dir, hdr' = hdr, pc' = "compress", pc = "compress",
              total' \in Nat, total <= total'
       PROVE  PakInv'
  <2>1. ASSUME hdr # 0 PROVE dir[hdr].ptr \in Int
    <3>1. dir[hdr] \in Entry
      BY <1>2, <2>1
    <3> QED
      BY <3>1 DEF Entry
  <2> QED
    BY <1>1, <1>2, <1>10, <2>1 DEF PakInv
<1>11. CASE CompressBlock \/ ReadFails \/ WriteFails
  <2>1. pc = "compress" /\ Pending \in Nat
    BY <1>11, CurFacts DEF CompressBlock, ReadFails, WriteFails
  <2>2. \E w \in Nat : total' = total + w
    BY <1>11, <2>1 DEF CompressBlock, ReadFails, WriteFails
  <2> QED
    BY <1>2, <1>10, <1>11, <2>1, <2>2 DEF CompressBlock, ReadFails, WriteFails
<1>12. CASE UserAbort \/ UNCHANGED addVars
  BY <1>1, <1>12 DEF PakInv, UserAbort, addVars, fileVars
<1>13. ASSUME pc = "compress", total' \in Nat, cur.ptr <= total',
              NEW e \in {Compressed(cur), Stored(cur)}, NEW a \in {0, 1, 3}, Keep(e, a)
       PROVE  PakInv'
  <2>1. e \in Entry /\ e.real \in Nat
    BY <1>13, KeptEntries, CurFacts
  <2>2. /\ dir' \in Seq(Entry) /\ hdr' = hdr /\ pc' = (IF hdr = 0 THEN "ready" ELSE "member")
        /\ \A x \in DOMAIN dir : dir'[x] = dir[x]
    BY <1>13, <2>1, KeepFacts
  <2>3. ASSUME hdr # 0 PROVE dir[hdr].type = "PAK" /\ dir[hdr].ptr <= total'
    <3>1. dir[hdr] \in Entry /\ dir[hdr].type = "PAK" /\ EndOf(dir[hdr]) <= cur.ptr
      BY <1>1, <1>2, <1>13, <2>3 DEF PakInv, PlaceInv
    <3>2. dir[hdr].ptr \in Int /\ dir[hdr].ptr <= cur.ptr /\ cur.ptr \in Int
      BY <1>13, <3>1, CurFacts DEF EndOf, Entry
    <3> QED
      BY <1>13, <3>1, <3>2
  <2>4. ASSUME hdr # 0 PROVE dir'[hdr] = dir[hdr]
    BY <1>2, <2>2, <2>4
  <2> QED
    BY <2>2, <2>3, <2>4 DEF PakInv
<1>14. CASE FinishCompressed \/ FinishShortTail
  <2>1. pc = "compress" /\ total' = total + Rest /\ \E a \in {0, 1, 3} : Keep(Compressed(cur), a)
    BY <1>14 DEF FinishCompressed, FinishShortTail, InputDone
  <2>2. total' \in Nat /\ cur.ptr <= total'
    BY <2>1, CurFacts
  <2> QED
    BY <1>13, <2>1, <2>2
<1>15. CASE FinishStored \/ FinishShortStore
  <2>1. pc = "compress" /\ total' = cur.ptr + cur.real /\ \E a \in {0, 1, 3} : Keep(Stored(cur), a)
    BY <1>15 DEF FinishStored, FinishShortStore, InputDone, StoredTotal
  <2>2. total' \in Nat /\ cur.ptr <= total'
    BY <2>1, CurFacts
  <2> QED
    BY <1>13, <2>1, <2>2
<1>16. CASE AbortEntry
  BY <1>3, <1>16 DEF AbortEntry
<1>17. CASE AbortPak
  BY <1>17 DEF AbortPak, LeavePak, PakInv
<1>18. CASE FinishPak
  BY <1>18 DEF FinishPak, LeavePak, PakInv
<1> QED
  BY <1>4, <1>5, <1>6, <1>7, <1>8, <1>9, <1>11, <1>12, <1>14, <1>15, <1>16, <1>17, <1>18
  DEF AddStep

\* the directory grows by an entry that begins at or after the end of all others
LEMMA PlaceAppend ==
  ASSUME dir \in Seq(Entry), NEW e \in Entry, NEW t \in Int, NEW s \in Int,
         \A x \in DOMAIN dir : Header <= dir[x].ptr /\ 0 <= dir[x].size,
         \A x, y \in DOMAIN dir : x < y => EndOf(dir[x]) <= dir[y].ptr,
         \A x \in DOMAIN dir : EndOf(dir[x]) <= s,
         s <= e.ptr, Header <= e.ptr, 0 <= e.size, EndOf(e) <= t,
         dir' = Append(dir, e)
  PROVE  /\ \A x \in DOMAIN dir' : Header <= dir'[x].ptr /\ 0 <= dir'[x].size
         /\ \A x, y \in DOMAIN dir' : x < y => EndOf(dir'[x]) <= dir'[y].ptr
         /\ \A x \in DOMAIN dir' : EndOf(dir'[x]) <= t
<1>1. /\ dir' \in Seq(Entry) /\ Len(dir') = Len(dir) + 1
      /\ \A x \in DOMAIN dir : dir'[x] = dir[x]
      /\ dir'[Len(dir) + 1] = e
      /\ DOMAIN dir = 1 .. Len(dir) /\ DOMAIN dir' = 1 .. Len(dir) + 1
  OBVIOUS
<1>2. \A f \in Entry : f.ptr \in Int /\ f.size \in Int
  BY DEF Entry
<1>3. \A f \in Entry : EndOf(f) \in Int
  BY <1>2 DEF EndOf
<1>4. e.ptr <= EndOf(e)
  BY <1>2 DEF EndOf
<1>5. \A x \in DOMAIN dir' : x \in DOMAIN dir \/ x = Len(dir) + 1
  BY <1>1
<1>6. \A x \in DOMAIN dir : dir[x] \in Entry
  OBVIOUS
<1>7. \A x \in DOMAIN dir : EndOf(dir[x]) <= e.ptr
  BY <1>2, <1>3, <1>6
<1>8. \A x \in DOMAIN dir : EndOf(dir[x]) <= t
  BY <1>2, <1>3, <1>4, <1>6, <1>7
<1>9. \A x \in DOMAIN dir' : Header <= dir'[x].ptr /\ 0 <= dir'[x].size
  BY <1>1, <1>5
<1>10. \A x, y \in DOMAIN dir' : x < y => EndOf(dir'[x]) <= dir'[y].ptr
  <2> SUFFICES ASSUME NEW x \in DOMAIN dir', NEW y \in DOMAIN dir', x < y
               PROVE  EndOf(dir'[x]) <= dir'[y].ptr
    OBVIOUS
  <2>1. x \in DOMAIN dir
    BY <1>1
  <2>2. CASE y \in DOMAIN dir
    BY <1>1, <2>1, <2>2
  <2>3. CASE y = Len(dir) + 1
    BY <1>1, <1>7, <2>1, <2>3
  <2> QED
    BY <1>5, <2>2, <2>3
<1>11. \A x \in DOMAIN dir' : EndOf(dir'[x]) <= t
  BY <1>1, <1>5, <1>8
<1> QED
  BY <1>9, <1>10, <1>11

\* every step keeps the entries apart and in order
LEMMA PlaceStep ==
  ASSUME AddInv, [AddStep]_addVars
  PROVE  PlaceInv'
<1> DEFINE P1(d) == \A x \in DOMAIN d : Header <= d[x].ptr /\ 0 <= d[x].size
           P2(d) == \A x, y \in DOMAIN d : x < y => EndOf(d[x]) <= d[y].ptr
           P3(d, t) == \A x \in DOMAIN d : EndOf(d[x]) <= t
<1>1. total \in Nat /\ dir \in Seq(Entry) /\ hdr \in 0 .. Len(dir) /\ total' \in Nat /\ dir' \in Seq(Entry)
  BY TypeStep DEF AddInv, TypeInv, SessionTypes
<1>2. P1(dir) /\ P2(dir) /\ (pc # "closed" => Header <= total /\ P3(dir, total))
      /\ (pc = "compress" => P3(dir, cur.ptr))
  BY DEF AddInv, PlaceInv
<1>3. ASSUME P1(dir'), P2(dir'), pc' # "closed" => Header <= total' /\ P3(dir', total'),
             pc' = "compress" => P3(dir', cur'.ptr)
      PROVE  PlaceInv'
  BY <1>3 DEF PlaceInv
<1>4. ASSUME NEW n \in Name, NEW t \in {"PAK", "DIR"}, NEW k \in Nat, pc # "closed", pc' # "compress",
             dir' = Append(dir, StartEntry(n, t, 0, k)), total' = total
      PROVE  PlaceInv'
  <2> DEFINE e == StartEntry(n, t, 0, k)
  <2>1. e \in Entry /\ e.ptr = total /\ e.size = 0 /\ e.type = t
    BY <1>1, StartEntryType, SMTT(30) DEF Type
  <2>2. dir' = Append(dir, e)
    BY <1>4
  <2>3. EndOf(e) <= total
    BY <1>1, <2>1 DEF EndOf
  <2> HIDE DEF e
  <2>4. P1(dir') /\ P2(dir') /\ P3(dir', total)
    BY <1>1, <1>2, <1>4, <2>1, <2>2, <2>3, PlaceAppend
  <2> QED
    BY <1>2, <1>3, <1>4, <2>4
<1>5. ASSUME pc = "compress", NEW e \in {Compressed(cur), Stored(cur)}, NEW a \in {0, 1, 3}, Keep(e, a),
             total' = cur.ptr + e.size
      PROVE  PlaceInv'
  <2>1. /\ e \in Entry /\ e.real \in Nat /\ e.ptr = cur.ptr /\ e.size \in Nat
        /\ e.type \in {"NORMAL", "STORE"} /\ cur.ptr \in Nat /\ Header <= cur.ptr
    BY <1>5, KeptEntries, CurFacts
  <2>2. EndOf(e) <= total'
    BY <1>5, <2>1 DEF EndOf
  <2>3. dir' = Append(dir, e) /\ pc' # "compress"
    BY <1>5, <2>1, KeepFacts
  <2>4. P1(dir) /\ P2(dir) /\ P3(dir, cur.ptr) /\ cur.ptr <= e.ptr /\ Header <= e.ptr /\ 0 <= e.size
    BY <1>2, <1>5, <2>1
  <2>5. P1(dir') /\ P2(dir') /\ P3(dir', total')
    BY <1>1, <2>1, <2>2, <2>3, <2>4, PlaceAppend
  <2> QED
    BY <1>3, <1>5, <2>1, <2>3, <2>5 DEF Header
<1>6. ASSUME dir' = dir, pc # "closed", total <= total', pc' = "compress" => P3(dir, cur'.ptr)
      PROVE  PlaceInv'
  <2>1. \A x \in DOMAIN dir : EndOf(dir[x]) \in Int
    <3>1. \A f \in Entry : f.ptr \in Int /\ f.size \in Int
      BY DEF Entry
    <3> QED
      BY <1>1, <3>1 DEF EndOf
  <2>2. P3(dir, total')
    BY <1>1, <1>2, <1>6, <2>1
  <2> QED
    BY <1>1, <1>2, <1>3, <1>6, <2>2 DEF Header
<1>7. CASE Create \/ CreateFails
  BY <1>3, <1>7 DEF Create, CreateFails, Header
<1>8. CASE OpenForAdd
  <2>1. dir' = dir /\ total' = DirectoryOffset(dir) /\ dir # << >> /\ pc' = "ready"
    BY <1>8, ReopenFacts DEF OpenForAdd
  <2> QED
    BY <1>2, <1>3, <2>1, OffsetFacts
<1>9. ASSUME NEW b \in Blob, StartFile(b) PROVE PlaceInv'
  <2>1. cur' = StartEntry(b, "NORMAL", Real[b], 0) /\ Real[b] \in Nat
    BY <1>9, FormatAssumption DEF StartFile
  <2>2. b \in Name /\ "NORMAL" \in Type /\ 0 \in Nat
    BY DEF Name, Type
  <2>3. cur'.ptr = total
    BY <1>1, <2>1, <2>2, StartEntryType
  <2> QED
    BY <1>1, <1>2, <1>6, <1>9, <2>3 DEF StartFile, NextInput
<1>10. ASSUME NEW n \in DirName, AddFolder(n) PROVE PlaceInv'
  <2>1. pc = "ready" /\ pc' = "ready" /\ total' = total
    BY <1>10 DEF AddFolder, NextInput
  <2>2. CASE abort = 0
    BY <1>4, <1>10, <2>1, <2>2 DEF AddFolder, Name
  <2>3. CASE abort # 0
    BY <1>1, <1>6, <1>10, <2>1, <2>3 DEF AddFolder
  <2> QED
    BY <2>2, <2>3
<1>11. ASSUME NEW p \in PakName, StartPak(p) PROVE PlaceInv'
  <2>1. Len(Paks[p]) \in Nat
    BY AddAssumption
  <2> QED
    BY <1>4, <1>11, <2>1 DEF StartPak, NextInput, Name
<1>12. ASSUME NEW p \in PakName, PakUnreadable(p) PROVE PlaceInv'
  BY <1>1, <1>6, <1>12 DEF PakUnreadable, NextInput
<1>13. CASE StartMember
  <2>1. Head(todo) \in Blob /\ Real[Head(todo)] \in Nat /\ Len(dir) + 1 - hdr \in Nat
    BY <1>1, <1>13, FormatAssumption DEF StartMember, AddInv, TypeInv, SessionTypes
  <2>2. cur'.ptr = total
    BY <1>1, <1>13, <2>1, StartEntryType, SMTT(30) DEF StartMember, Name, Type
  <2> QED
    BY <1>1, <1>2, <1>6, <1>13, <2>2 DEF StartMember
<1>14. CASE CompressBlock \/ ReadFails \/ WriteFails
  <2>1. pc = "compress" /\ Pending \in Nat /\ dir' = dir /\ cur' = cur
    BY <1>14, CurFacts DEF CompressBlock, ReadFails, WriteFails
  <2>2. total <= total'
    BY <1>1, <1>14, <2>1 DEF CompressBlock, ReadFails, WriteFails
  <2> QED
    BY <1>2, <1>6, <2>1, <2>2
<1>15. CASE UserAbort \/ UNCHANGED addVars
  BY <1>2, <1>3, <1>15 DEF UserAbort, addVars, fileVars
<1>16. CASE FinishCompressed \/ FinishShortTail
  <2>1. pc = "compress" /\ total' = total + Rest /\ \E a \in {0, 1, 3} : Keep(Compressed(cur), a)
    BY <1>16 DEF FinishCompressed, FinishShortTail, InputDone
  <2>2. abort = 0
    BY <1>16 DEF FinishCompressed, FinishShortTail
  <2>3. Compressed(cur).size = Comp[cur.name] /\ total' = cur.ptr + Comp[cur.name]
    BY <2>1, <2>2, KeptEntries, CurFacts
  <2> QED
    BY <1>5, <2>1, <2>3
<1>17. CASE FinishStored \/ FinishShortStore
  <2>1. pc = "compress" /\ total' = cur.ptr + cur.real /\ \E a \in {0, 1, 3} : Keep(Stored(cur), a)
    BY <1>17 DEF FinishStored, FinishShortStore, InputDone, StoredTotal
  <2>2. Stored(cur).size = cur.real
    BY <2>1, KeptEntries, CurFacts
  <2> QED
    BY <1>5, <2>1, <2>2
<1>18. CASE AbortEntry
  BY <1>1, <1>6, <1>18 DEF AbortEntry, InputDone
<1>19. CASE AbortPak
  <2>1. /\ dir' = SubSeq(dir, 1, hdr - 1) /\ hdr \in DOMAIN dir /\ total' = total
        /\ pc # "closed" /\ pc' = "ready"
    BY <1>1, <1>19 DEF AbortPak, BeforePak, InputDone
  <2>2. DOMAIN dir' \subseteq DOMAIN dir /\ \A x \in DOMAIN dir' : dir'[x] = dir[x]
    BY <1>1, <2>1
  <2> QED
    BY <1>2, <1>3, <2>1, <2>2
<1>20. CASE FinishPak
  <2>1. pc = "member" /\ dir' = [dir EXCEPT ![hdr] = Spanning(@)] /\ total' = total /\ pc' = "ready"
    BY <1>20 DEF FinishPak
  <2>2. /\ DOMAIN dir' = DOMAIN dir
        /\ \A x \in DOMAIN dir : /\ dir'[x].ptr = dir[x].ptr /\ EndOf(dir'[x]) = EndOf(dir[x])
                                 /\ 0 <= dir'[x].size
    <3>1. ASSUME NEW x \in DOMAIN dir, x # hdr PROVE dir'[x] = dir[x]
      BY <2>1, <3>1
    <3>2. dir'[hdr] = Spanning(dir[hdr])
      BY <2>1, SpanningFacts
    <3>3. EndOf(dir'[hdr]) = EndOf(dir[hdr])
      BY <2>1, <3>2, SpanningFacts DEF EndOf
    <3> QED
      BY <1>2, <2>1, <3>1, <3>2, <3>3, SpanningFacts
  <2> QED
    BY <1>2, <1>3, <2>1, <2>2
<1>21. CASE WriteHeader \/ WriteEntries \/ RemoveEmpty
  BY <1>1, <1>2, <1>3, <1>21 DEF WriteHeader, WriteEntries, RemoveEmpty, ForgetSession
<1> QED
  BY <1>7, <1>8, <1>9, <1>10, <1>11, <1>12, <1>13, <1>14, <1>15, <1>16, <1>17, <1>18, <1>19,
     <1>20, <1>21 DEF AddStep

\* a file with a header exists
LEMMA HeaderIsNotFree == ASSUME NEW o, NEW n PROVE HeaderCell(o, n) # Free
  BY DEF HeaderCell, Free

\* every step keeps the file and its directory in step once they are written
LEMMA FileStep ==
  ASSUME AddInv, [AddStep]_addVars
  PROVE  FileInv'
<1>1. /\ TypeInv /\ FileInv
      /\ 0 \in Positions /\ DOMAIN disk = Positions /\ dir \in Seq(Entry)
  BY FormatAssumption DEF AddInv, TypeInv, SessionTypes, Positions
<1>2. ASSUME pc' \notin {"entries", "closed"} PROVE FileInv'
  BY <1>2 DEF FileInv
<1>3. CASE WriteHeader
  <2>1. /\ dir # << >> /\ dir' = dir /\ Fits(DirectoryOffset(dir), Len(dir))
        /\ fpos' = DirectoryOffset(dir) /\ pc' = "entries"
        /\ disk' = PutHeader(disk, DirectoryOffset(dir), Len(dir))
    BY <1>3 DEF WriteHeader
  <2>2. disk'[0] = HeaderCell(DirectoryOffset(dir), Len(dir))
    BY <1>1, <2>1 DEF PutHeader
  <2> QED
    BY <2>1, <2>2 DEF FileInv, HeaderWritten
<1>4. CASE WriteEntries
  <2>1. /\ HeaderWritten /\ fpos = DirectoryOffset(dir) /\ dir' = dir /\ pc' = "closed"
        /\ disk' = PutDirectory(disk, fpos, dir)
    BY <1>1, <1>4 DEF WriteEntries, FileInv
  <2>2. DirectoryOffset(dir) \in Nat /\ Header <= DirectoryOffset(dir)
    BY <2>1, OffsetFacts DEF HeaderWritten
  <2>3. disk'[0] = HeaderCell(DirectoryOffset(dir), Len(dir))
    BY <1>1, <2>1, <2>2 DEF PutDirectory, HeaderWritten, Header
  <2>4. ASSUME NEW k \in 1 .. Len(dir)
        PROVE  disk'[DirectoryOffset(dir) + k - 1] = DirCell(dir[k])
    <3> DEFINE x == DirectoryOffset(dir) + k - 1
    <3>1. x \in Positions
      BY <2>1, <2>2, FormatAssumption DEF HeaderWritten, Fits, Positions
    <3>2. x \in fpos .. fpos + Len(dir) - 1 /\ x - fpos + 1 = k
      BY <1>1, <2>1, <2>2
    <3> QED
      BY <1>1, <2>1, <3>1, <3>2 DEF PutDirectory
  <2>5. HeaderWritten' /\ Created'
    BY <2>1, <2>3, HeaderIsNotFree DEF HeaderWritten, Created
  <2> QED
    BY <2>1, <2>4, <2>5 DEF FileInv
<1>5. CASE RemoveEmpty
  <2>1. ~Created' /\ dir' = << >> /\ pc' = "closed"
    BY <1>1, <1>5 DEF RemoveEmpty, Created
  <2> QED
    BY <2>1 DEF FileInv
<1>6. CASE UNCHANGED addVars
  BY <1>1, <1>6 DEF addVars, fileVars, FileInv, HeaderWritten, Created
<1>7. CASE \/ Create \/ CreateFails \/ OpenForAdd \/ StartMember \/ CompressBlock \/ ReadFails
           \/ WriteFails \/ UserAbort
  BY <1>2, <1>7 DEF Create, CreateFails, OpenForAdd, StartMember, CompressBlock, ReadFails, WriteFails, UserAbort
<1>8. ASSUME NEW b \in Blob, StartFile(b) PROVE FileInv'
  BY <1>2, <1>8 DEF StartFile
<1>9. ASSUME NEW n \in DirName, AddFolder(n) PROVE FileInv'
  BY <1>2, <1>9 DEF AddFolder, NextInput
<1>10. ASSUME NEW p \in PakName, StartPak(p) \/ PakUnreadable(p) PROVE FileInv'
  BY <1>2, <1>10 DEF StartPak, PakUnreadable, NextInput
<1>11. CASE FinishCompressed \/ FinishShortTail \/ FinishStored \/ FinishShortStore
  BY <1>2, <1>11 DEF FinishCompressed, FinishShortTail, FinishStored, FinishShortStore, Keep, NextPc
<1>12. CASE AbortEntry \/ AbortPak \/ FinishPak
  BY <1>2, <1>12 DEF AbortEntry, AbortPak, FinishPak
<1> QED
  BY <1>3, <1>4, <1>5, <1>6, <1>7, <1>8, <1>9, <1>10, <1>11, <1>12 DEF AddStep

-----------------------------------------------------------------------------
(* The theorems that hold whatever goes wrong.                             *)

\* a step that does not damage the archive is one of AddStep
LEMMA DamageStep ==
  ASSUME [AddNext]_sessionVars
  PROVE  /\ damaged' = TRUE \/ damaged' = damaged
         /\ ~damaged' => ~damaged /\ [AddStep]_addVars
<1>1. CASE AddStep /\ UNCHANGED damaged
  BY <1>1
<1>2. CASE damaged' = TRUE
  BY <1>2
<1>3. CASE UNCHANGED sessionVars
  BY <1>3 DEF sessionVars
<1> QED
  BY <1>1, <1>2, <1>3 DEF AddNext

\* What every session of `dzip` and `dzip -a` maintains whatever fails, until a write of
\* dzWriteDirectory does: types, the entry under construction, the placing of the entries
\* and the written directory
THEOREM AddInvariant == AddSpec => [](damaged \/ AddInv)
<1>1. AddInit => AddInv
  BY InitInv
<1>2. AddInv /\ [AddStep]_addVars => AddInv'
  BY TypeStep, CurStep, PlaceStep, PakStep, FileStep DEF AddInv
<1>3. (damaged \/ AddInv) /\ [AddNext]_sessionVars => (damaged \/ AddInv)'
  BY <1>2, DamageStep
<1> QED
  BY <1>1, <1>3, PTL DEF AddSpec

\* Every variable keeps its type: no position, count or index is ever negative or outside
\* its sequence, whatever fails in a session of `dzip` or `dzip -a` on an archive whose
\* directory could always be written
THEOREM AddTypeCorrect == AddSpec => []AddTypeOK
<1>1. AddInv => SessionTypes
  BY DEF AddInv, TypeInv
<1>2. AddInit => damaged \in BOOLEAN
  BY DEF AddInit
<1>3. damaged \in BOOLEAN /\ [AddNext]_sessionVars => (damaged \in BOOLEAN)'
  BY DamageStep
<1>4. AddSpec => [](damaged \in BOOLEAN)
  BY <1>2, <1>3, PTL DEF AddSpec
<1>5. damaged \in BOOLEAN /\ (damaged \/ AddInv) => AddTypeOK
  BY <1>1 DEF AddTypeOK
<1> QED
  BY <1>4, <1>5, AddInvariant, PTL

\* Unless a write of dzWriteDirectory fails, the file's directory is after every session the
\* one the session had in memory, and dzReadDirectory accepts it: failed reads, failed
\* writes of streams and aborts never leave a header that points elsewhere
THEOREM DirectoryWritten == AddSpec => []FileMatchesDirectory
<1>1. damaged \/ AddInv => FileMatchesDirectory
  BY ReopenFacts DEF FileMatchesDirectory
<1> QED
  BY <1>1, AddInvariant, PTL

-----------------------------------------------------------------------------
(* Clean faults: the positions agree.                                      *)

\* with clean faults a read can only fail before anything of its file or pak is out
LEMMA CleanRead ==
  ASSUME Faults \subseteq CleanFaults, NEW s, NEW e, ReadFault(s, e) \in Faults
  PROVE  e = s
  BY DEF ReadFault, CleanFaults

\* with clean faults neither Infile_Store nor end_zlib_compression stops early
LEMMA NoShortWrites ==
  ASSUME Faults \subseteq CleanFaults
  PROVE  ~FinishShortTail /\ ~FinishShortStore
  BY DEF CleanFaults, FinishShortTail, FinishShortStore

\* every step with clean faults keeps the file position on totalsize
LEMMA PosStep ==
  ASSUME Faults \subseteq CleanFaults, AddInv, CleanInv, [AddStep]_addVars
  PROVE  PosInv'
<1>1. PosInv /\ PakInv /\ PlaceInv
  BY DEF CleanInv, AddInv
<1>2. /\ abort \in {0, 1, 3} /\ total \in Nat /\ hdr \in 0 .. Len(dir) /\ dir \in Seq(Entry)
      /\ (abort = 3 => pc = "compress")
  BY <1>1 DEF AddInv, TypeInv, SessionTypes, PosInv
<1>3. ASSUME abort' \in {0, 1}, fpos' = total' PROVE PosInv'
  BY <1>3 DEF PosInv
<1>4. ASSUME abort' = 1 PROVE PosInv'
  BY <1>4 DEF PosInv
<1>5. ASSUME pc # "compress", abort' = abort, fpos' = fpos, total' = total,
             pc \in {"ready", "member"}
      PROVE  PosInv'
  BY <1>1, <1>2, <1>5 DEF PosInv
<1>6. CASE Create \/ OpenForAdd
  BY <1>3, <1>6 DEF Create, OpenForAdd
<1>7. ASSUME NEW b \in Blob, StartFile(b) PROVE PosInv'
  BY <1>5, <1>7 DEF StartFile, NextInput
<1>8. ASSUME NEW n \in DirName, AddFolder(n) PROVE PosInv'
  <2>1. pc = "ready" /\ abort' = abort /\ total' = total
    BY <1>8 DEF AddFolder, NextInput
  <2>2. CASE abort = 0
    BY <1>5, <1>8, <2>1, <2>2 DEF AddFolder
  <2>3. CASE abort # 0
    BY <1>2, <1>4, <2>1, <2>3
  <2> QED
    BY <2>2, <2>3
<1>9. ASSUME NEW p \in PakName, StartPak(p) PROVE PosInv'
  BY <1>5, <1>9 DEF StartPak, NextInput
<1>10. ASSUME NEW p \in PakName, PakUnreadable(p) PROVE PosInv'
  BY <1>3, <1>10 DEF PakUnreadable, NextInput
<1>11. CASE StartMember
  <2>1. CASE abort' = abort
    BY <1>5, <1>11, <2>1 DEF StartMember
  <2>2. CASE ReadFault(dir[hdr].ptr, total) \in Faults /\ abort' = 3
    <3>1. total = dir[hdr].ptr
      BY <2>2, CleanRead
    <3> QED
      BY <1>1, <1>11, <2>2, <3>1 DEF StartMember, PosInv, PakInv
  <2> QED
    BY <1>11, <2>1, <2>2 DEF StartMember
<1>12. CASE CompressBlock
  <2>1. fpos = total /\ abort' = 0
    BY <1>1, <1>12 DEF CompressBlock, PosInv
  <2> QED
    BY <1>3, <1>12, <2>1 DEF CompressBlock
<1>13. CASE ReadFails
  <2>1. total' = (IF hdr = 0 THEN cur.ptr ELSE dir[hdr].ptr)
    BY <1>13, CleanRead DEF ReadFails
  <2> QED
    BY <1>13, <2>1 DEF ReadFails, PosInv
<1>14. CASE CreateFails \/ WriteFails \/ UserAbort
  BY <1>4, <1>14 DEF CreateFails, WriteFails, UserAbort
<1>15. CASE FinishCompressed
  <2>1. pc = "compress" /\ abort = 0 /\ Keep(Compressed(cur), 0)
    BY <1>15 DEF FinishCompressed, InputDone
  <2>2. abort' = 0
    BY <2>1 DEF Keep, AfterEntry, AfterFile
  <2>3. fpos' = total'
    BY <1>1, <1>15, <2>1 DEF FinishCompressed, PosInv
  <2> QED
    BY <1>3, <2>2, <2>3
<1>16. CASE FinishStored
  <2>1. Keep(Stored(cur), 0) /\ fpos' = total'
    BY <1>16 DEF FinishStored, StoredTotal
  <2>2. abort' = 0
    BY <2>1 DEF Keep, AfterEntry, AfterFile
  <2> QED
    BY <1>3, <2>1, <2>2
<1>17. CASE AbortEntry
  <2>1. /\ pc = "compress" /\ abort # 0 /\ hdr = 0 /\ fpos' = cur.ptr /\ total' = total
        /\ abort' = AfterFile(abort)
    BY <1>17 DEF AbortEntry, InputDone
  <2>2. CASE abort = 3
    BY <1>1, <1>3, <2>1, <2>2 DEF PosInv, AfterFile
  <2>3. CASE abort = 1
    BY <1>4, <2>1, <2>3 DEF AfterFile
  <2> QED
    BY <1>2, <2>1, <2>2, <2>3
<1>18. CASE AbortPak
  <2>1. /\ pc = "compress" /\ abort # 0 /\ hdr # 0 /\ fpos' = dir[hdr].ptr /\ total' = total
        /\ abort' = AfterFile(abort)
    BY <1>18 DEF AbortPak, InputDone
  <2>2. CASE abort = 3
    BY <1>1, <1>3, <2>1, <2>2 DEF PosInv, AfterFile
  <2>3. CASE abort = 1
    BY <1>4, <2>1, <2>3 DEF AfterFile
  <2> QED
    BY <1>2, <2>1, <2>2, <2>3
<1>19. CASE FinishPak
  BY <1>1, <1>2, <1>19 DEF FinishPak, PosInv, AfterFile
<1>20. CASE WriteHeader
  BY <1>1, <1>2, <1>20 DEF WriteHeader, PosInv
<1>21. CASE WriteEntries \/ RemoveEmpty
  BY <1>3, <1>21 DEF WriteEntries, RemoveEmpty, ForgetSession
<1>22. CASE UNCHANGED addVars
  BY <1>1, <1>22 DEF addVars, fileVars, PosInv
<1> QED
  BY <1>6, <1>7, <1>8, <1>9, <1>10, <1>11, <1>12, <1>13, <1>14, <1>15, <1>16, <1>17, <1>18,
     <1>19, <1>20, <1>21, <1>22, NoShortWrites DEF AddStep

-----------------------------------------------------------------------------
(* Clean faults: the streams are whole.                                    *)

\* a write at or behind the end of every stream damages none
LEMMA AllStay ==
  ASSUME dir \in Seq(Entry), NEW d, NEW d2, NEW p \in Int, SameBelow(d, d2, p),
         \A x \in DOMAIN dir : Header <= dir[x].ptr /\ EndOf(dir[x]) <= p,
         AllReadable(d, dir)
  PROVE  AllReadable(d2, dir)
<1> SUFFICES ASSUME NEW x \in DOMAIN dir PROVE EntryReadable(d2, dir[x])
  BY DEF AllReadable
<1>1. dir[x] \in Entry /\ EntryReadable(d, dir[x])
  BY DEF AllReadable
<1>2. Header <= dir[x].ptr /\ EndOf(dir[x]) <= p
  OBVIOUS
<1> QED
  BY <1>1, <1>2, ReadableStays

\* a readable entry joins readable entries
LEMMA AllAppend ==
  ASSUME dir \in Seq(Entry), NEW d, NEW e, AllReadable(d, dir), EntryReadable(d, e)
  PROVE  AllReadable(d, Append(dir, e))
<1> SUFFICES ASSUME NEW x \in DOMAIN Append(dir, e) PROVE EntryReadable(d, Append(dir, e)[x])
  BY DEF AllReadable
<1>1. CASE x \in DOMAIN dir
  BY <1>1 DEF AllReadable
<1>2. CASE x = Len(dir) + 1
  BY <1>2
<1> QED
  BY <1>1, <1>2

\* every step with clean faults keeps every finished stream, and the one being written, intact
LEMMA StreamStep ==
  ASSUME Faults \subseteq CleanFaults, AddInv, CleanInv, [AddStep]_addVars
  PROVE  StreamInv'
<1>1. /\ AllReadable(disk, dir)
      /\ (abort = 0 /\ pc \in {"ready", "member", "compress"} => fpos = total)
  BY DEF CleanInv, StreamInv, PosInv
<1>2. /\ DOMAIN disk = Positions /\ dir \in Seq(Entry) /\ total \in Nat /\ fpos \in Nat
      /\ hdr \in 0 .. Len(dir)
  BY DEF AddInv, TypeInv, SessionTypes
<1>3. /\ \A x \in DOMAIN dir : Header <= dir[x].ptr
      /\ (pc # "closed" => \A x \in DOMAIN dir : EndOf(dir[x]) <= total)
      /\ (pc = "compress" => \A x \in DOMAIN dir : EndOf(dir[x]) <= cur.ptr)
  BY DEF AddInv, PlaceInv
<1>a. Cap \in Nat /\ Positions = 0 .. Cap - 1
  BY FormatAssumption DEF Positions
<1>4. ASSUME AllReadable(disk', dir'), pc' # "compress" \/ abort' # 0 PROVE StreamInv'
  BY <1>4 DEF StreamInv
<1>5. ASSUME disk' = disk, dir' = dir, pc' # "compress" \/ abort' # 0 \/ out' = 0 PROVE StreamInv'
  BY <1>1, <1>5 DEF StreamInv
<1>6. ASSUME pc = "compress", abort = 0, disk' = disk \/ SameBelow(disk, disk', fpos) PROVE AllReadable(disk', dir)
  BY <1>1, <1>2, <1>3, <1>6, AllStay
<1>7. CASE Create \/ CreateFails
  BY <1>4, <1>7 DEF Create, CreateFails, AllReadable
<1>8. CASE OpenForAdd
  <2>1. dir' = dir
    BY <1>8, ReopenFacts DEF OpenForAdd
  <2> QED
    BY <1>5, <1>8, <2>1 DEF OpenForAdd
<1>9. ASSUME NEW b \in Blob, StartFile(b) PROVE StreamInv'
  BY <1>5, <1>9 DEF StartFile
<1>10. ASSUME NEW n \in Name, NEW t \in {"PAK", "DIR"}, NEW k \in Nat, disk' = disk, pc' # "compress",
              dir' = Append(dir, StartEntry(n, t, 0, k))
       PROVE  StreamInv'
  <2>1. StartEntry(n, t, 0, k).type = t
    BY <1>2, StartEntryType DEF Type
  <2>2. EntryReadable(disk, StartEntry(n, t, 0, k))
    BY <2>1 DEF EntryReadable, HasData
  <2> QED
    BY <1>1, <1>2, <1>4, <1>10, <2>2, AllAppend
<1>11. ASSUME NEW n \in DirName, AddFolder(n) PROVE StreamInv'
  <2>1. disk' = disk /\ pc' = "ready"
    BY <1>11 DEF AddFolder, NextInput
  <2>2. CASE abort = 0
    BY <1>10, <1>11, <2>1, <2>2 DEF AddFolder, Name
  <2>3. CASE abort # 0
    BY <1>5, <1>11, <2>1, <2>3 DEF AddFolder
  <2> QED
    BY <2>2, <2>3
<1>12. ASSUME NEW p \in PakName, StartPak(p) PROVE StreamInv'
  <2>1. Len(Paks[p]) \in Nat
    BY AddAssumption
  <2> QED
    BY <1>10, <1>12, <2>1 DEF StartPak, Name
<1>13. ASSUME NEW p \in PakName, PakUnreadable(p) PROVE StreamInv'
  BY <1>5, <1>13 DEF PakUnreadable, NextInput
<1>14. CASE StartMember
  BY <1>5, <1>14 DEF StartMember
<1>15. CASE CompressBlock
  <2>1. pc = "compress" /\ abort = 0 /\ dir' = dir /\ cur' = cur /\ abort' = 0 /\ pc' = "compress"
    BY <1>15 DEF CompressBlock
  <2>2. PICK w \in 0 .. Pending :
          /\ Fits(fpos, w) /\ disk' = PutData(disk, fpos, w, "zlib", cur.name, out) /\ out' = out + w
    BY <1>15 DEF CompressBlock
  <2>3. /\ w \in Nat /\ fpos = cur.ptr + out /\ out \in Nat /\ cur.ptr \in Nat /\ Header <= cur.ptr
    BY <1>1, <2>1, <2>2, CurFacts
  <2>6. SameBelow(disk, disk', fpos)
    BY <1>2, <2>2, <2>3, PutDataAbove
  <2>4. AllReadable(disk', dir')
    BY <1>6, <2>1, <2>6
  <2>5. ASSUME NEW k \in 0 .. out' - 1
        PROVE  cur.ptr + k \in Positions /\ disk'[cur.ptr + k] = DataCell("zlib", cur.name, k)
    <3>1. CASE k < out
      <4>1. cur.ptr + k \in Positions /\ disk[cur.ptr + k] = DataCell("zlib", cur.name, k)
        BY <2>1, <2>3, <3>1 DEF CleanInv, StreamInv
      <4>2. cur.ptr + k \notin fpos .. fpos + w - 1
        BY <2>3, <3>1
      <4> QED
        BY <1>2, <2>2, <4>1, <4>2 DEF PutData
    <3>2. CASE out <= k
      <4>1. cur.ptr + k \in fpos .. fpos + w - 1 /\ out + (cur.ptr + k) - fpos = k
        BY <2>2, <2>3, <3>2
      <4>2. cur.ptr + k \in Positions
        <5>1. fpos + w <= Cap /\ fpos \in Nat
          BY <1>2, <2>2 DEF Fits
        <5>2. fpos <= cur.ptr + k /\ cur.ptr + k < fpos + w /\ cur.ptr + k \in Int
          BY <2>3, <4>1, <5>1
        <5> QED
          BY <1>a, <2>3, <5>1, <5>2
      <4> QED
        BY <1>2, <2>2, <4>1, <4>2 DEF PutData
    <3> QED
      BY <2>3, <3>1, <3>2
  <2> QED
    BY <2>1, <2>4, <2>5 DEF StreamInv
<1>16. CASE ReadFails
  <2>1. pc = "compress" /\ abort = 0 /\ dir' = dir /\ abort' = 3
        /\ \E w \in 0 .. Pending : disk' = PutJunk(disk, fpos, w)
    BY <1>16 DEF ReadFails
  <2>2. Pending \in Nat
    BY <2>1, CurFacts
  <2>3. SameBelow(disk, disk', fpos)
    BY <1>2, <2>1, <2>2, PutJunkAbove
  <2> QED
    BY <1>4, <1>6, <2>1, <2>3
<1>17. CASE WriteFails
  <2>1. pc = "compress" /\ abort = 0 /\ dir' = dir /\ abort' = 1
        /\ \E v \in Int : disk' = PutData(disk, fpos, v, "zlib", cur.name, out)
    BY <1>17 DEF WriteFails
  <2>2. SameBelow(disk, disk', fpos)
    <3>1. PICK v \in Int : disk' = PutData(disk, fpos, v, "zlib", cur.name, out)
      BY <2>1
    <3> QED
      BY <1>2, <3>1, PutDataAbove
  <2> QED
    BY <1>4, <1>6, <2>1, <2>2
<1>18. CASE UserAbort
  BY <1>5, <1>18 DEF UserAbort, fileVars
<1>19. CASE AbortEntry
  BY <1>5, <1>19 DEF AbortEntry
<1>20. CASE AbortPak
  <2>1. dir' = SubSeq(dir, 1, hdr - 1) /\ disk' = disk /\ pc' = "ready"
    BY <1>20 DEF AbortPak, BeforePak
  <2>2. DOMAIN dir' \subseteq DOMAIN dir /\ \A x \in DOMAIN dir' : dir'[x] = dir[x]
    BY <1>2, <2>1
  <2> QED
    BY <1>1, <1>4, <2>1, <2>2 DEF AllReadable
<1>21. CASE FinishPak
  <2>1. pc = "member" /\ dir' = [dir EXCEPT ![hdr] = Spanning(@)] /\ disk' = disk /\ pc' = "ready"
    BY <1>21 DEF FinishPak
  <2>2. EntryReadable(disk, Spanning(dir[hdr]))
    BY <2>1, SpanningFacts DEF EntryReadable, HasData
  <2>3. AllReadable(disk, dir')
    BY <1>1, <2>1, <2>2 DEF AllReadable
  <2> QED
    BY <1>4, <2>1, <2>3
<1>22. CASE WriteHeader
  <2>1. dir' = dir /\ pc' = "entries" /\ SameBelow(disk, disk', total)
    BY <1>22 DEF WriteHeader, PutHeader, SameBelow, Header
  <2>2. AllReadable(disk', dir')
    BY <1>1, <1>2, <1>3, <1>22, <2>1, AllStay DEF WriteHeader
  <2> QED
    BY <1>4, <2>1, <2>2
<1>23. CASE WriteEntries
  <2>1. dir' = dir /\ pc' = "closed" /\ dir # << >> /\ fpos = DirectoryOffset(dir)
    BY <1>23 DEF WriteEntries, AddInv, FileInv, HeaderWritten
  <2>2. SameBelow(disk, disk', fpos)
    BY <1>2, <1>23 DEF WriteEntries, PutDirectory, SameBelow
  <2>3. AllReadable(disk', dir')
    BY <1>1, <1>2, <1>3, <2>1, <2>2, OffsetFacts, AllStay
  <2> QED
    BY <1>4, <2>1, <2>3
<1>24. CASE RemoveEmpty
  BY <1>4, <1>24 DEF RemoveEmpty, AllReadable
<1>25. CASE UNCHANGED addVars
  BY <1>25 DEF addVars, fileVars, CleanInv, StreamInv
<1>26. CASE FinishCompressed
  <2> DEFINE e == Compressed(cur)
  <2>1. /\ pc = "compress" /\ abort = 0 /\ Fits(fpos, Rest)
        /\ disk' = PutData(disk, fpos, Rest, "zlib", cur.name, out)
        /\ dir' = Append(dir, e) /\ pc' # "compress"
    BY <1>26 DEF FinishCompressed, InputDone, Keep, NextPc
  <2>2. /\ Rest \in Nat /\ fpos = cur.ptr + out /\ out \in Nat /\ cur.ptr \in Nat /\ Header <= cur.ptr
        /\ Comp[cur.name] = out + Rest
    BY <1>1, <2>1, CurFacts
  <2>8. SameBelow(disk, disk', fpos)
    BY <1>2, <2>1, <2>2, PutDataAbove
  <2>3. AllReadable(disk', dir)
    BY <1>6, <2>1, <2>8
  <2>4. ASSUME NEW k \in 0 .. Comp[cur.name] - 1
        PROVE  cur.ptr + k \in Positions /\ disk'[cur.ptr + k] = DataCell("zlib", cur.name, k)
    <3>1. CASE k < out
      <4>1. cur.ptr + k \in Positions /\ disk[cur.ptr + k] = DataCell("zlib", cur.name, k)
        BY <2>1, <2>2, <3>1 DEF CleanInv, StreamInv
      <4>2. cur.ptr + k \notin fpos .. fpos + Rest - 1
        BY <2>2, <3>1
      <4> QED
        BY <1>2, <2>1, <4>1, <4>2 DEF PutData
    <3>2. CASE out <= k
      <4>1. cur.ptr + k \in fpos .. fpos + Rest - 1 /\ out + (cur.ptr + k) - fpos = k
        BY <2>2, <3>2
      <4>2. cur.ptr + k \in Positions
        <5>1. fpos + Rest <= Cap /\ fpos \in Nat
          BY <1>2, <2>1 DEF Fits
        <5>2. fpos <= cur.ptr + k /\ cur.ptr + k < fpos + Rest /\ cur.ptr + k \in Int
          BY <2>2, <4>1, <5>1
        <5> QED
          BY <1>a, <2>2, <5>1, <5>2
      <4> QED
        BY <1>2, <2>1, <4>1, <4>2 DEF PutData
    <3> QED
      BY <2>2, <3>1, <3>2
  <2>5. /\ e.real = Real[cur.name] /\ e.ptr = cur.ptr /\ e.size = Comp[cur.name]
        /\ e.type = "NORMAL" /\ e.name = cur.name
    BY <2>1, KeptEntries
  <2>6. DOMAIN disk' = Positions
    BY <1>2, <2>1 DEF PutData
  <2> HIDE DEF e
  <2>7. EntryReadable(disk', e)
    BY <2>4, <2>5, <2>6 DEF EntryReadable, FormOf
  <2> QED
    BY <1>2, <1>4, <2>1, <2>3, <2>7, AllAppend
<1>27. CASE FinishStored
  <2> DEFINE e == Stored(cur)
             d == PutData(disk, fpos, Rest, "zlib", cur.name, out)
  <2>1. /\ pc = "compress" /\ abort = 0 /\ Fits(fpos, Rest) /\ ~Shrunk
        /\ disk' = PutData(d, cur.ptr, cur.real, "raw", cur.name, 0)
        /\ dir' = Append(dir, e) /\ pc' # "compress"
    BY <1>27 DEF FinishStored, InputDone, Keep, NextPc, StoreOver
  <2>2. /\ Rest \in Nat /\ fpos = cur.ptr + out /\ out \in Nat /\ cur.ptr \in Nat /\ Header <= cur.ptr
        /\ Comp[cur.name] = out + Rest /\ cur.real \in Nat /\ cur.real = Real[cur.name]
    BY <1>1, <2>1, CurFacts
  <2>3. cur.real < Comp[cur.name]
    BY <2>1, <2>2 DEF Shrunk
  <2>4. SameBelow(disk, d, cur.ptr) /\ SameBelow(d, disk', cur.ptr)
    <3>1. SameBelow(disk, d, fpos)
      BY <1>2, <2>2, PutDataAbove
    <3>2. SameBelow(disk, d, cur.ptr)
      BY <1>2, <2>2, <3>1 DEF SameBelow, Positions
    <3> HIDE DEF d
    <3>3. SameBelow(d, disk', cur.ptr)
      BY <2>1, <2>2, PutDataAbove
    <3> QED
      BY <3>2, <3>3
  <2>5. AllReadable(disk', dir)
    <3> HIDE DEF d
    <3>1. \A x \in DOMAIN dir : Header <= dir[x].ptr /\ EndOf(dir[x]) <= cur.ptr
      BY <1>3, <2>1
    <3>2. AllReadable(d, dir)
      BY <1>1, <1>2, <2>2, <2>4, <3>1, AllStay
    <3> QED
      BY <1>2, <2>2, <2>4, <3>1, <3>2, AllStay
  <2>6. DOMAIN disk' = Positions
    BY <1>2, <2>1 DEF PutData
  <2>7. ASSUME NEW k \in 0 .. cur.real - 1
        PROVE  cur.ptr + k \in Positions /\ disk'[cur.ptr + k] = DataCell("raw", cur.name, k)
    <3>1. cur.ptr + k \in cur.ptr .. cur.ptr + cur.real - 1 /\ 0 + (cur.ptr + k) - cur.ptr = k
      BY <2>2
    <3>2. cur.ptr + k \in Positions
      <4>1. cur.ptr + Comp[cur.name] <= Cap
        BY <2>1, <2>2 DEF Fits
      <4>2. 0 <= cur.ptr + k /\ cur.ptr + k < Cap /\ cur.ptr + k \in Int
        BY <1>a, <2>2, <2>3, <4>1, SMTT(30)
      <4> QED
        BY <1>a, <4>2
    <3>3. DOMAIN d = Positions
      BY <1>2 DEF PutData
    <3> HIDE DEF d
    <3> QED
      BY <2>1, <3>1, <3>2, <3>3 DEF PutData
  <2>8. /\ e.real = Real[cur.name] /\ e.ptr = cur.ptr /\ e.size = Real[cur.name]
        /\ e.type = "STORE" /\ e.name = cur.name
    BY <2>1, KeptEntries
  <2> HIDE DEF e, d
  <2>9. EntryReadable(disk', e)
    BY <2>2, <2>6, <2>7, <2>8 DEF EntryReadable, FormOf
  <2> QED
    BY <1>2, <1>4, <2>1, <2>5, <2>9, AllAppend
<1> QED
  BY <1>7, <1>8, <1>9, <1>11, <1>12, <1>13, <1>14, <1>15, <1>16, <1>17, <1>18, <1>19, <1>20,
     <1>21, <1>22, <1>23, <1>24, <1>25, <1>26, <1>27, NoShortWrites DEF AddStep

-----------------------------------------------------------------------------
(* The theorems that hold when faults are clean.                           *)

\* With clean faults the file position also agrees with totalsize and the streams are intact
THEOREM CleanInvariant ==
  ASSUME Faults \subseteq CleanFaults
  PROVE  AddSpec => [](damaged \/ (AddInv /\ CleanInv))
<1>1. AddInit => AddInv /\ CleanInv
  BY InitInv
<1>2. AddInv /\ CleanInv /\ [AddStep]_addVars => (AddInv /\ CleanInv)'
  <2>1. AddInv /\ [AddStep]_addVars => AddInv'
    BY TypeStep, CurStep, PlaceStep, PakStep, FileStep DEF AddInv
  <2>2. AddInv /\ CleanInv /\ [AddStep]_addVars => CleanInv'
    BY PosStep, StreamStep DEF CleanInv
  <2> QED
    BY <2>1, <2>2
<1>3. (damaged \/ (AddInv /\ CleanInv)) /\ [AddNext]_sessionVars => (damaged \/ (AddInv /\ CleanInv))'
  BY <1>2, DamageStep
<1> QED
  BY <1>1, <1>3, PTL DEF AddSpec

\* In every session whose failures are clean - a file that cannot be read at all, a write
\* that fails while a file is compressed, an abort - each entry of the directory can be
\* extracted at every moment: startdirentry, dzWrite, the store branch of finishdirentry
\* and the aborts keep the recorded positions and the file together (until a write of the
\* directory itself fails)
THEOREM CleanAddsAreReadable ==
  ASSUME Faults \subseteq CleanFaults
  PROVE  AddSpec => []EntriesReadable
<1>1. damaged \/ (AddInv /\ CleanInv) => EntriesReadable
  BY DEF CleanInv, StreamInv, EntriesReadable
<1>2. AddSpec => [](damaged \/ (AddInv /\ CleanInv))
  BY CleanInvariant
<1> QED
  BY <1>1, <1>2, PTL

\* between files of a session that goes on, the next stream goes behind all others
LEMMA PositionFacts == AddInv /\ CleanInv => PositionsAgree
<1> SUFFICES ASSUME AddInv, CleanInv, pc = "ready", abort = 0
             PROVE  fpos = total /\ DataEnd(dir) <= total
  BY DEF PositionsAgree
<1>1. fpos = total
  BY DEF CleanInv, PosInv
<1>2. /\ dir \in Seq(Entry) /\ Header <= total
      /\ \A x \in DOMAIN dir : EndOf(dir[x]) <= total
  BY DEF AddInv, TypeInv, SessionTypes, PlaceInv
<1> QED
  BY <1>1, <1>2 DEF DataEnd

\* The contract of dzCompressFile under the same assumption: unless the session was aborted,
\* the file position is the totalsize that the next entry will record
THEOREM CleanAddsKeepPositions ==
  ASSUME Faults \subseteq CleanFaults
  PROVE  AddSpec => []PositionsAgree
<1>1. AddSpec => [](damaged \/ (AddInv /\ CleanInv))
  BY CleanInvariant
<1>2. damaged \/ (AddInv /\ CleanInv) => PositionsAgree
  BY PositionFacts DEF PositionsAgree
<1> QED
  BY <1>1, <1>2, PTL

-----------------------------------------------------------------------------
(* Paks: a finished header counts, numbers and spans exactly its members.  *)

\* where the stream after entry n of the pak with header h begins
EndAt(es, h, n) == IF n = h THEN es[h].ptr ELSE EndOf(es[n])

\* the entries after h up to n are members of h's pak, each where the one before ends
Members(es, h, n) ==
  \A x \in h + 1 .. n :
    IsMember(es[x]) /\ es[x].pak = x - h /\ es[x].ptr = EndAt(es, h, x - 1)

\* every pak among the first n entries is whole
WholePaks(es, n) ==
  \A x \in 1 .. n :
    /\ IsPak(es[x]) =>
         /\ es[x].pak \in Nat /\ x + es[x].pak <= n
         /\ Members(es, x, x + es[x].pak)
         /\ es[x].size = EndAt(es, x, x + es[x].pak) - es[x].ptr
    /\ IsMember(es[x]) =>
         /\ es[x].pak \in Nat \ {0} /\ 1 <= x - es[x].pak
         /\ IsPak(es[x - es[x].pak])
         /\ es[x].pak <= es[x - es[x].pak].pak

\* finished paks are whole; the pak being filled has its first members and still waits
\* for exactly those in todo and the one in cur
ShapeInv ==
  /\ WholePaks(dir, IF hdr = 0 THEN Len(dir) ELSE hdr - 1)
  /\ hdr # 0 =>
       /\ Members(dir, hdr, Len(dir))
       /\ dir[hdr].pak = Len(dir) - hdr + Len(todo) + (IF pc = "compress" THEN 1 ELSE 0)
       /\ pc = "member" => total = EndAt(dir, hdr, Len(dir))
       /\ pc = "compress" => cur.ptr = EndAt(dir, hdr, Len(dir))
  /\ pc = "compress" => cur.pak = IF hdr = 0 THEN 0 ELSE Len(dir) + 1 - hdr

\* only the entries from the header to the last member decide what Members says
LEMMA MembersSame ==
  ASSUME NEW es, NEW es2, NEW h \in Int, NEW n \in Int, Members(es, h, n),
         \A x \in h .. n : es2[x] = es[x]
  PROVE  Members(es2, h, n)
<1> SUFFICES ASSUME NEW x \in h + 1 .. n
             PROVE  IsMember(es2[x]) /\ es2[x].pak = x - h /\ es2[x].ptr = EndAt(es2, h, x - 1)
  BY DEF Members
<1>1. es2[x] = es[x] /\ es2[x - 1] = es[x - 1] /\ es2[h] = es[h]
  OBVIOUS
<1> QED
  BY <1>1 DEF Members, EndAt

\* only the first n entries decide whether the paks among them are whole
LEMMA WholePaksSame ==
  ASSUME NEW es, NEW es2, NEW n \in Int, WholePaks(es, n), \A x \in 1 .. n : es2[x] = es[x]
  PROVE  WholePaks(es2, n)
<1> SUFFICES ASSUME NEW x \in 1 .. n
             PROVE  /\ IsPak(es2[x]) =>
                         /\ es2[x].pak \in Nat /\ x + es2[x].pak <= n
                         /\ Members(es2, x, x + es2[x].pak)
                         /\ es2[x].size = EndAt(es2, x, x + es2[x].pak) - es2[x].ptr
                    /\ IsMember(es2[x]) =>
                         /\ es2[x].pak \in Nat \ {0} /\ 1 <= x - es2[x].pak
                         /\ IsPak(es2[x - es2[x].pak])
                         /\ es2[x].pak <= es2[x - es2[x].pak].pak
  BY DEF WholePaks
<1>1. es2[x] = es[x]
  OBVIOUS
<1>2. ASSUME IsPak(es2[x])
      PROVE  /\ es2[x].pak \in Nat /\ x + es2[x].pak <= n
             /\ Members(es2, x, x + es2[x].pak)
             /\ es2[x].size = EndAt(es2, x, x + es2[x].pak) - es2[x].ptr
  <2> DEFINE k == es[x].pak
  <2>1. /\ k \in Nat /\ x + k <= n /\ Members(es, x, x + k)
        /\ es[x].size = EndAt(es, x, x + k) - es[x].ptr /\ es2[x].pak = k
    BY <1>1, <1>2 DEF WholePaks
  <2> HIDE DEF k
  <2>2. \A y \in x .. x + k : es2[y] = es[y]
    BY <2>1
  <2>3. Members(es2, x, x + k)
    BY <2>1, <2>2, MembersSame
  <2>4. EndAt(es2, x, x + k) = EndAt(es, x, x + k)
    BY <2>1, <2>2 DEF EndAt
  <2> QED
    BY <1>1, <2>1, <2>3, <2>4
<1>3. ASSUME IsMember(es2[x])
      PROVE  /\ es2[x].pak \in Nat \ {0} /\ 1 <= x - es2[x].pak
             /\ IsPak(es2[x - es2[x].pak])
             /\ es2[x].pak <= es2[x - es2[x].pak].pak
  <2> DEFINE k == es[x].pak
  <2>1. k \in Nat \ {0} /\ 1 <= x - k /\ IsPak(es[x - k]) /\ k <= es[x - k].pak /\ es2[x].pak = k
    BY <1>1, <1>3 DEF WholePaks
  <2> QED
    BY <2>1
<1> QED
  BY <1>2, <1>3

\* a file or folder outside a pak leaves the paks whole
LEMMA PlainAppend ==
  ASSUME NEW es \in Seq(Entry), NEW e \in Entry, WholePaks(es, Len(es)), ~IsPak(e), e.pak = 0
  PROVE  WholePaks(Append(es, e), Len(es) + 1)
<1> DEFINE es2 == Append(es, e)
           n == Len(es)
<1>1. n \in Nat /\ es2[n + 1] = e /\ \A x \in 1 .. n : es2[x] = es[x]
  OBVIOUS
<1> HIDE DEF es2, n
<1>2. WholePaks(es2, n)
  BY <1>1, WholePaksSame DEF n
<1>3. ~IsMember(es2[n + 1])
  BY <1>1 DEF IsMember
<1>4. \A x \in 1 .. n + 1 : x \in 1 .. n \/ x = n + 1
  BY <1>1
<1> SUFFICES ASSUME NEW x \in 1 .. n
             PROVE  /\ IsPak(es2[x]) =>
                         /\ es2[x].pak \in Nat /\ x + es2[x].pak <= n + 1
                         /\ Members(es2, x, x + es2[x].pak)
                         /\ es2[x].size = EndAt(es2, x, x + es2[x].pak) - es2[x].ptr
                    /\ IsMember(es2[x]) =>
                         /\ es2[x].pak \in Nat \ {0} /\ 1 <= x - es2[x].pak
                         /\ IsPak(es2[x - es2[x].pak])
                         /\ es2[x].pak <= es2[x - es2[x].pak].pak
  BY <1>1, <1>3, <1>4 DEF WholePaks, es2, n
<1> QED
  BY <1>1, <1>2 DEF WholePaks

\* a pak that has got all its members joins the whole ones
LEMMA PakJoins ==
  ASSUME NEW es, NEW h \in Nat \ {0}, NEW n \in Nat, h <= n,
         WholePaks(es, h - 1), IsPak(es[h]), Members(es, h, n),
         es[h].pak = n - h, es[h].size = EndAt(es, h, n) - es[h].ptr
  PROVE  WholePaks(es, n)
<1> SUFFICES ASSUME NEW x \in 1 .. n
             PROVE  /\ IsPak(es[x]) =>
                         /\ es[x].pak \in Nat /\ x + es[x].pak <= n
                         /\ Members(es, x, x + es[x].pak)
                         /\ es[x].size = EndAt(es, x, x + es[x].pak) - es[x].ptr
                    /\ IsMember(es[x]) =>
                         /\ es[x].pak \in Nat \ {0} /\ 1 <= x - es[x].pak
                         /\ IsPak(es[x - es[x].pak])
                         /\ es[x].pak <= es[x - es[x].pak].pak
  BY DEF WholePaks
<1>1. CASE x < h
  <2>1. x \in 1 .. h - 1
    BY <1>1
  <2> QED
    BY <2>1 DEF WholePaks
<1>2. CASE x = h
  <2>1. h + (n - h) = n /\ n - h \in Nat
    OBVIOUS
  <2>2. ~IsMember(es[h])
    BY DEF IsPak, IsMember
  <2> QED
    BY <1>2, <2>1, <2>2
<1>3. CASE h < x
  <2>1. IsMember(es[x]) /\ es[x].pak = x - h
    BY <1>3 DEF Members
  <2>2. ~IsPak(es[x])
    BY <2>1 DEF IsPak, IsMember
  <2>3. x - (x - h) = h /\ x - h \in Nat \ {0} /\ x - h <= n - h
    BY <1>3
  <2> QED
    BY <2>1, <2>2, <2>3
<1> QED
  BY <1>1, <1>2, <1>3

\* a member joins its pak where the one before it ended
LEMMA MemberJoins ==
  ASSUME NEW es \in Seq(Entry), NEW e \in Entry, NEW h \in 1 .. Len(es),
         Members(es, h, Len(es)), ~IsPak(e), e.pak = Len(es) + 1 - h,
         e.ptr = EndAt(es, h, Len(es))
  PROVE  Members(Append(es, e), h, Len(es) + 1)
<1> DEFINE es2 == Append(es, e)
           n == Len(es)
<1>1. n \in Nat /\ h \in 1 .. n /\ es2[n + 1] = e /\ \A x \in 1 .. n : es2[x] = es[x]
  OBVIOUS
<1>2. Members(es, h, n) /\ e.pak = n + 1 - h /\ e.ptr = EndAt(es, h, n)
  OBVIOUS
<1> HIDE DEF es2, n
<1>3. Members(es2, h, n)
  BY <1>1, <1>2, MembersSame
<1>4. EndAt(es2, h, n) = EndAt(es, h, n)
  <2>1. es2[h] = es[h] /\ es2[n] = es[n]
    BY <1>1
  <2> QED
    BY <2>1 DEF EndAt
<1>5. IsMember(e)
  BY <1>1, <1>2 DEF IsMember, IsPak
<1>6. Members(es2, h, n + 1)
  <2> SUFFICES ASSUME NEW x \in h + 1 .. n + 1
               PROVE  IsMember(es2[x]) /\ es2[x].pak = x - h /\ es2[x].ptr = EndAt(es2, h, x - 1)
    BY DEF Members
  <2>1. CASE x = n + 1
    BY <1>1, <1>2, <1>4, <1>5, <2>1
  <2>2. CASE x # n + 1
    BY <1>1, <1>3, <2>2 DEF Members
  <2> QED
    BY <2>1, <2>2
<1> QED
  BY <1>6 DEF es2, n

\* what WholePaks says is what LayoutOK asks of the paks
LEMMA WholeIsShape ==
  ASSUME NEW es \in Seq(Entry), WholePaks(es, Len(es))
  PROVE  PakShape(es)
<1> SUFFICES ASSUME NEW x \in DOMAIN es
             PROVE  /\ IsPak(es[x]) =>
                         /\ x + es[x].pak \in DOMAIN es
                         /\ \A k \in 1 .. es[x].pak : IsMember(es[x + k]) /\ es[x + k].pak = k
                         /\ es[x].size = IF es[x].pak = 0 THEN 0
                                          ELSE EndOf(es[x + es[x].pak]) - es[x].ptr
                    /\ IsMember(es[x]) =>
                         /\ x - es[x].pak \in DOMAIN es
                         /\ IsPak(es[x - es[x].pak])
                         /\ es[x].pak <= es[x - es[x].pak].pak
  BY DEF PakShape
<1>1. x \in 1 .. Len(es) /\ es[x] \in Entry /\ DOMAIN es = 1 .. Len(es) /\ Len(es) \in Nat
  OBVIOUS
<1>2. ASSUME IsPak(es[x])
      PROVE  /\ x + es[x].pak \in DOMAIN es
             /\ \A k \in 1 .. es[x].pak : IsMember(es[x + k]) /\ es[x + k].pak = k
             /\ es[x].size = IF es[x].pak = 0 THEN 0
                              ELSE EndOf(es[x + es[x].pak]) - es[x].ptr
  <2>1. /\ es[x].pak \in Nat /\ x + es[x].pak <= Len(es) /\ Members(es, x, x + es[x].pak)
        /\ es[x].size = EndAt(es, x, x + es[x].pak) - es[x].ptr
    BY <1>1, <1>2 DEF WholePaks
  <2>2. ASSUME NEW k \in 1 .. es[x].pak PROVE IsMember(es[x + k]) /\ es[x + k].pak = k
    <3>1. x + k \in x + 1 .. x + es[x].pak /\ (x + k) - x = k
      BY <1>1, <2>1
    <3> QED
      BY <2>1, <3>1 DEF Members
  <2>3. es[x].ptr \in Int
    BY <1>1 DEF Entry
  <2>4. CASE es[x].pak = 0
    BY <1>1, <2>1, <2>3, <2>4 DEF EndAt
  <2>5. CASE es[x].pak # 0
    BY <1>1, <2>1, <2>2, <2>5 DEF EndAt
  <2> QED
    BY <2>4, <2>5, <1>1, <2>1, <2>2
<1>3. ASSUME IsMember(es[x])
      PROVE  /\ x - es[x].pak \in DOMAIN es
             /\ IsPak(es[x - es[x].pak])
             /\ es[x].pak <= es[x - es[x].pak].pak
  BY <1>1, <1>3 DEF WholePaks
<1> QED
  BY <1>2, <1>3

\* every step keeps the finished paks whole and the count of the one being filled
LEMMA ShapeStep ==
  ASSUME AddInv, ShapeInv, [AddStep]_addVars
  PROVE  ShapeInv'
<1>1. /\ total \in Nat /\ dir \in Seq(Entry) /\ hdr \in 0 .. Len(dir) /\ todo \in Seq(Blob)
      /\ (pc \in {"closed", "ready", "entries"} => hdr = 0) /\ (pc = "member" => hdr # 0)
      /\ (hdr # 0 => IsPak(dir[hdr]))
  BY DEF AddInv, TypeInv, SessionTypes, PakInv, IsPak
<1>2. ASSUME UNCHANGED <<dir, hdr, todo, pc>>, pc = "compress" => cur' = cur,
             pc = "member" => total' = total
      PROVE  ShapeInv'
  BY <1>2 DEF ShapeInv
<1>3. ASSUME hdr = 0, hdr' = 0, dir' = dir, pc' # "compress"
      PROVE  ShapeInv'
  BY <1>3 DEF ShapeInv
<1>4. ASSUME hdr = 0, hdr' = 0, pc' # "compress", NEW e \in Entry, ~IsPak(e), e.pak = 0,
             dir' = Append(dir, e)
      PROVE  ShapeInv'
  <2>1. WholePaks(dir, Len(dir))
    BY <1>4 DEF ShapeInv
  <2>2. WholePaks(dir', Len(dir) + 1) /\ Len(dir') = Len(dir) + 1
    BY <1>1, <1>4, <2>1, PlainAppend
  <2> QED
    BY <1>4, <2>2 DEF ShapeInv
<1>5. CASE Create \/ CreateFails
  <2>1. dir' = << >> /\ hdr' = 0 /\ pc' = "ready"
    BY <1>1, <1>5 DEF Create, CreateFails
  <2> QED
    BY <2>1 DEF ShapeInv, WholePaks
<1>6. CASE OpenForAdd
  <2>1. dir' = dir
    BY <1>6, ReopenFacts DEF OpenForAdd
  <2> QED
    BY <1>1, <1>3, <1>6, <2>1 DEF OpenForAdd
<1>7. ASSUME NEW b \in Blob, StartFile(b) PROVE ShapeInv'
  <2>1. /\ pc = "ready" /\ hdr = 0 /\ cur' = StartEntry(b, "NORMAL", Real[b], 0)
        /\ dir' = dir /\ hdr' = hdr /\ Real[b] \in Nat
    BY <1>1, <1>7, FormatAssumption DEF StartFile, NextInput
  <2>2. cur'.pak = 0
    BY <2>1, StartEntryNumber
  <2> QED
    BY <2>1, <2>2 DEF ShapeInv
<1>8. ASSUME NEW n \in DirName, AddFolder(n) PROVE ShapeInv'
  <2> DEFINE e == StartEntry(n, "DIR", 0, 0)
  <2>1. e \in Entry /\ e.pak = 0 /\ e.type = "DIR"
    BY <1>1, StartEntryType, StartEntryNumber DEF Name, Type
  <2>2. /\ pc = "ready" /\ hdr = 0 /\ hdr' = 0 /\ pc' = "ready"
        /\ dir' = dir \/ dir' = Append(dir, e)
    BY <1>1, <1>8 DEF AddFolder, NextInput
  <2> HIDE DEF e
  <2> QED
    BY <1>3, <1>4, <2>1, <2>2 DEF IsPak
<1>9. ASSUME NEW p \in PakName, StartPak(p) PROVE ShapeInv'
  <2> DEFINE e == StartEntry(p, "PAK", 0, Len(Paks[p]))
             h == Len(dir) + 1
  <2>1. Paks[p] \in Seq(Blob) /\ Len(Paks[p]) \in Nat
    BY AddAssumption
  <2> DEFINE k == Len(Paks[p])
  <2>k. k \in Nat
    BY <2>1
  <2> HIDE DEF k
  <2>2. e \in Entry /\ e.ptr = total /\ e.pak = Len(Paks[p])
    <3>1. e = StartEntry(p, "PAK", 0, k)
      BY DEF k
    <3>2. e \in Entry /\ e.ptr = total /\ e.pak = k
      BY <1>1, <2>k, <3>1, StartEntryType, StartEntryNumber DEF Name, Type
    <3> QED
      BY <3>2 DEF k
  <2>3. /\ hdr = 0 /\ dir' = Append(dir, e) /\ hdr' = h /\ todo' = Paks[p] /\ pc' = "member"
        /\ total' = total
    BY <1>1, <1>9 DEF StartPak, NextInput
  <2> HIDE DEF e
  <2>4. /\ Len(dir') = h /\ h # 0 /\ h - 1 = Len(dir) /\ dir'[h] = e
        /\ \A x \in 1 .. Len(dir) : dir'[x] = dir[x]
    BY <1>1, <2>2, <2>3
  <2>8. WholePaks(dir, Len(dir)) /\ Len(dir) \in Int
    BY <1>1, <2>3 DEF ShapeInv
  <2>5. WholePaks(dir', Len(dir))
    BY <2>4, <2>8, WholePaksSame, Zenon
  <2>6. Members(dir', h, h) /\ EndAt(dir', h, h) = total
    BY <1>1, <2>2, <2>4 DEF Members, EndAt
  <2>7. dir'[h].pak = h - h + Len(todo') + 0
    BY <1>1, <2>1, <2>2, <2>3, <2>4
  <2> HIDE DEF h
  <2> QED
    BY <2>3, <2>4, <2>5, <2>6, <2>7 DEF ShapeInv
<1>10. ASSUME NEW p \in PakName, PakUnreadable(p) PROVE ShapeInv'
  BY <1>1, <1>3, <1>10 DEF PakUnreadable, NextInput
<1>11. CASE StartMember
  <2>1. /\ pc = "member" /\ todo # << >> /\ todo' = Tail(todo) /\ pc' = "compress"
        /\ cur' = StartEntry(Head(todo), "NORMAL", Real[Head(todo)], Len(dir) + 1 - hdr)
        /\ dir' = dir /\ hdr' = hdr
    BY <1>11 DEF StartMember
  <2>2. Head(todo) \in Blob /\ Real[Head(todo)] \in Nat /\ Len(dir) + 1 - hdr \in Nat
        /\ Len(todo') = Len(todo) - 1 /\ Len(todo) \in Nat
    BY <1>1, <2>1, FormatAssumption
  <2>3. cur'.pak = Len(dir) + 1 - hdr /\ cur'.ptr = total
    <3> DEFINE k == Len(dir) + 1 - hdr
    <3>1. k \in Nat /\ cur' = StartEntry(Head(todo), "NORMAL", Real[Head(todo)], k)
      BY <2>1, <2>2
    <3> HIDE DEF k
    <3>2. Head(todo) \in Name /\ "NORMAL" \in Type /\ Real[Head(todo)] \in Nat
      BY <2>2 DEF Name, Type
    <3>3. cur'.ptr = total
      BY <1>1, <3>1, <3>2, StartEntryType
    <3>4. cur'.pak = k
      BY <3>1, StartEntryNumber
    <3> QED
      BY <3>3, <3>4 DEF k
  <2>4. /\ hdr # 0 /\ WholePaks(dir, hdr - 1) /\ Members(dir, hdr, Len(dir))
        /\ dir[hdr].pak = Len(dir) - hdr + Len(todo) + 0
        /\ total = EndAt(dir, hdr, Len(dir))
    BY <1>1, <2>1 DEF ShapeInv
  <2>5. dir[hdr].pak = Len(dir) - hdr + Len(todo') + 1
    BY <1>1, <2>2, <2>4
  <2> QED
    BY <2>1, <2>3, <2>4, <2>5 DEF ShapeInv
<1>12. CASE CompressBlock \/ ReadFails \/ WriteFails
  BY <1>2, <1>12 DEF CompressBlock, ReadFails, WriteFails
<1>13. CASE UserAbort \/ UNCHANGED addVars
  BY <1>2, <1>13 DEF UserAbort, addVars, fileVars
<1>14. ASSUME pc = "compress", NEW e \in {Compressed(cur), Stored(cur)}, NEW a \in {0, 1, 3}, Keep(e, a),
              total' = cur.ptr + e.size
       PROVE  ShapeInv'
  <2>1. /\ e \in Entry /\ e.real \in Nat /\ e.ptr = cur.ptr /\ e.pak = cur.pak /\ ~IsPak(e)
    BY <1>14, KeptEntries, CurFacts DEF IsPak
  <2>2. /\ dir' = Append(dir, e) /\ hdr' = hdr /\ pc' # "compress" /\ todo' = todo
        /\ Len(dir') = Len(dir) + 1 /\ \A x \in DOMAIN dir : dir'[x] = dir[x]
        /\ dir'[Len(dir) + 1] = e
    BY <1>14, <2>1, KeepFacts DEF Keep
  <2>3. CASE hdr = 0
    <3>1. e.pak = 0
      BY <1>14, <2>1, <2>3 DEF ShapeInv
    <3> QED
      BY <1>4, <2>1, <2>2, <2>3, <3>1
  <2>4. CASE hdr # 0
    <3>1. /\ WholePaks(dir, hdr - 1) /\ Members(dir, hdr, Len(dir))
          /\ dir[hdr].pak = Len(dir) - hdr + Len(todo) + 1
          /\ cur.ptr = EndAt(dir, hdr, Len(dir)) /\ cur.pak = Len(dir) + 1 - hdr
      BY <1>14, <2>4 DEF ShapeInv
    <3>2. Members(dir', hdr, Len(dir) + 1)
      <4>1. hdr \in 1 .. Len(dir)
        BY <1>1, <2>4
      <4> QED
        BY <1>1, <2>1, <2>2, <3>1, <4>1, MemberJoins
    <3>3. WholePaks(dir', hdr - 1)
      <4>1. hdr - 1 \in Int /\ \A x \in 1 .. hdr - 1 : dir'[x] = dir[x]
        BY <1>1, <2>2
      <4> QED
        BY <3>1, <4>1, WholePaksSame, Zenon
    <3>4. dir'[hdr] = dir[hdr] /\ Len(dir) + 1 # hdr
      BY <1>1, <2>2, <2>4
    <3>5. total' = EndAt(dir', hdr, Len(dir) + 1)
      BY <1>14, <2>1, <2>2, <3>4 DEF EndAt, EndOf, IsPak
    <3>6. dir'[hdr].pak = Len(dir') - hdr + Len(todo') + 0
      BY <1>1, <2>2, <3>1, <3>4
    <3> QED
      BY <2>2, <2>4, <3>2, <3>3, <3>5, <3>6 DEF ShapeInv
  <2> QED
    BY <2>3, <2>4
<1>15. CASE FinishCompressed \/ FinishShortTail
  <2>1. pc = "compress" /\ abort = 0 /\ total' = total + Rest /\ \E a \in {0, 1, 3} : Keep(Compressed(cur), a)
    BY <1>15 DEF FinishCompressed, FinishShortTail, InputDone
  <2>2. Compressed(cur).size = Comp[cur.name] /\ total' = cur.ptr + Comp[cur.name]
    BY <2>1, KeptEntries, CurFacts
  <2> QED
    BY <1>14, <2>1, <2>2
<1>16. CASE FinishStored \/ FinishShortStore
  <2>1. pc = "compress" /\ total' = cur.ptr + cur.real /\ \E a \in {0, 1, 3} : Keep(Stored(cur), a)
    BY <1>16 DEF FinishStored, FinishShortStore, InputDone, StoredTotal
  <2>2. Stored(cur).size = cur.real
    BY <2>1, KeptEntries, CurFacts
  <2> QED
    BY <1>14, <2>1, <2>2
<1>17. CASE AbortEntry
  BY <1>3, <1>17 DEF AbortEntry
<1>18. CASE AbortPak
  <2>1. /\ hdr \in 1 .. Len(dir) /\ dir' = SubSeq(dir, 1, hdr - 1) /\ hdr' = 0 /\ pc' = "ready"
    BY <1>1, <1>18 DEF AbortPak, BeforePak, LeavePak
  <2>2. Len(dir') = hdr - 1 /\ hdr - 1 \in Nat /\ \A x \in 1 .. hdr - 1 : dir'[x] = dir[x]
    BY <1>1, <2>1
  <2>3. WholePaks(dir, hdr - 1) /\ hdr - 1 \in Int
    BY <2>1, <2>2 DEF ShapeInv
  <2>4. WholePaks(dir', hdr - 1)
    BY <2>2, <2>3, WholePaksSame, Zenon
  <2> QED
    BY <2>1, <2>2, <2>4 DEF ShapeInv
<1>19. CASE FinishPak
  <2>1. /\ pc = "member" /\ todo = << >> /\ hdr \in 1 .. Len(dir) /\ hdr' = 0 /\ pc' = "ready"
        /\ dir' = [dir EXCEPT ![hdr] = Spanning(@)]
    BY <1>1, <1>19 DEF FinishPak, LeavePak
  <2>2. /\ Len(dir') = Len(dir) /\ \A x \in 1 .. Len(dir) : x # hdr => dir'[x] = dir[x]
        /\ dir'[hdr] = Spanning(dir[hdr])
    BY <1>1, <2>1
  <2>3. /\ dir'[hdr].ptr = dir[hdr].ptr /\ IsPak(dir'[hdr]) /\ dir'[hdr].pak = dir[hdr].pak
        /\ dir'[hdr].size = total - dir[hdr].ptr
    BY <2>1, <2>2, SpanningFacts DEF IsPak
  <2>4. /\ WholePaks(dir, hdr - 1) /\ Members(dir, hdr, Len(dir))
        /\ dir[hdr].pak = Len(dir) - hdr + 0 + 0
        /\ total = EndAt(dir, hdr, Len(dir))
    BY <1>1, <2>1 DEF ShapeInv
  <2>5. \A n \in hdr .. Len(dir) : EndAt(dir', hdr, n) = EndAt(dir, hdr, n)
    BY <1>1, <2>1, <2>2, <2>3 DEF EndAt
  <2>6. Members(dir', hdr, Len(dir))
    <3> SUFFICES ASSUME NEW x \in hdr + 1 .. Len(dir)
                 PROVE  IsMember(dir'[x]) /\ dir'[x].pak = x - hdr /\ dir'[x].ptr = EndAt(dir', hdr, x - 1)
      BY DEF Members
    <3>1. dir'[x] = dir[x] /\ x - 1 \in hdr .. Len(dir)
      BY <2>1, <2>2
    <3> QED
      BY <2>4, <2>5, <3>1 DEF Members
  <2>7. WholePaks(dir', hdr - 1)
    <3>1. hdr - 1 \in Int /\ \A x \in 1 .. hdr - 1 : dir'[x] = dir[x]
      BY <1>1, <2>1, <2>2
    <3> QED
      BY <2>4, <3>1, WholePaksSame, Zenon
  <2>8. dir'[hdr].size = EndAt(dir', hdr, Len(dir)) - dir'[hdr].ptr /\ dir'[hdr].pak = Len(dir) - hdr
    <3>1. Len(dir) \in hdr .. Len(dir) /\ Len(dir) - hdr + 0 + 0 = Len(dir) - hdr
      BY <1>1, <2>1
    <3> QED
      BY <2>3, <2>4, <2>5, <3>1
  <2>9. WholePaks(dir', Len(dir))
    <3>1. hdr \in Nat \ {0} /\ Len(dir) \in Nat /\ hdr <= Len(dir)
      BY <1>1, <2>1
    <3> QED
      BY <2>3, <2>6, <2>7, <2>8, <3>1, PakJoins, Zenon
  <2> QED
    BY <2>1, <2>2, <2>9 DEF ShapeInv
<1>20. CASE WriteHeader \/ WriteEntries \/ RemoveEmpty
  BY <1>1, <1>3, <1>20 DEF WriteHeader, WriteEntries, RemoveEmpty, ForgetSession
<1> QED
  BY <1>5, <1>6, <1>7, <1>8, <1>9, <1>10, <1>11, <1>12, <1>13, <1>15, <1>16, <1>17, <1>18, <1>19,
     <1>20 DEF AddStep

\* whatever goes wrong before the directory is written, paks are whole or are being filled
THEOREM ShapeInvariant == AddSpec => [](damaged \/ (AddInv /\ ShapeInv))
<1>1. AddInit => ShapeInv
  BY DEF AddInit, IdleFile, ShapeInv, WholePaks
<1>2. AddInv /\ ShapeInv /\ [AddStep]_addVars => ShapeInv'
  BY ShapeStep
<1>3. (damaged \/ AddInv) /\ (damaged \/ ShapeInv) /\ [AddNext]_sessionVars => (damaged \/ ShapeInv)'
  BY <1>2, DamageStep
<1>4. AddSpec => [](damaged \/ ShapeInv)
  BY <1>1, <1>3, AddInvariant, PTL DEF AddSpec
<1> QED
  BY <1>4, AddInvariant, PTL

\* what is finished at any moment is a directory in itself
LEMMA DoneFacts ==
  ASSUME AddInv, ShapeInv
  PROVE  /\ Done \in Seq(Entry) /\ WholePaks(Done, Len(Done)) /\ Len(Done) <= Len(dir)
         /\ \A x \in DOMAIN Done : x \in DOMAIN dir /\ Done[x] = dir[x]
<1>1. dir \in Seq(Entry) /\ hdr \in 0 .. Len(dir)
  BY DEF AddInv, TypeInv, SessionTypes
<1>2. CASE hdr = 0
  BY <1>1, <1>2 DEF Done, ShapeInv
<1>3. CASE hdr # 0
  <2>1. Done = SubSeq(dir, 1, hdr - 1) /\ hdr \in 1 .. Len(dir) /\ WholePaks(dir, hdr - 1)
    BY <1>1, <1>3 DEF Done, ShapeInv
  <2>2. Done \in Seq(Entry) /\ Len(Done) = hdr - 1 /\ \A x \in 1 .. hdr - 1 : Done[x] = dir[x]
    BY <1>1, <2>1
  <2>3. hdr - 1 \in Int
    BY <2>1
  <2>4. WholePaks(Done, hdr - 1)
    BY <2>1, <2>2, <2>3, WholePaksSame, Zenon
  <2> QED
    BY <1>1, <2>1, <2>2, <2>4
<1> QED
  BY <1>2, <1>3

\* and so it is laid out as LayoutOK says
LEMMA LayoutFacts == AddInv /\ ShapeInv => LayoutOK
<1> SUFFICES ASSUME AddInv, ShapeInv PROVE Ordered(Done) /\ PakShape(Done)
  BY DEF LayoutOK
<1>1. PakShape(Done)
  BY DoneFacts, WholeIsShape
<1>2. /\ \A x \in DOMAIN dir : Header <= dir[x].ptr /\ 0 <= dir[x].size
      /\ \A x, y \in DOMAIN dir : x < y => EndOf(dir[x]) <= dir[y].ptr
  BY DEF AddInv, PlaceInv
<1>3. Done \in Seq(Entry) /\ \A x \in DOMAIN Done : x \in DOMAIN dir /\ Done[x] = dir[x]
  BY DoneFacts
<1>4. \A x \in DOMAIN Done : x + 1 \in DOMAIN Done => EndOf(Done[x]) <= Done[x + 1].ptr
  BY <1>2, <1>3
<1> QED
  BY <1>1, <1>2, <1>3, <1>4 DEF Ordered

\* Whatever fails in a session before its directory is written, entries never overlap and
\* every finished pak header counts, numbers and spans exactly its members
THEOREM LayoutAlwaysOK == AddSpec => []LayoutOK
<1>1. damaged \/ (AddInv /\ ShapeInv) => LayoutOK
  BY LayoutFacts DEF LayoutOK
<1> QED
  BY <1>1, ShapeInvariant, PTL

-----------------------------------------------------------------------------
(* Clean faults: an append never writes over what was there.               *)

\* With clean faults whatever a step writes lies behind every stream of the directory
LEMMA WritesAreBehind ==
  ASSUME Faults \subseteq CleanFaults, AddInv, CleanInv, [AddStep]_addVars
  PROVE  \/ disk' = disk
         \/ dir = << >>
         \/ \E p \in Int : SameBelow(disk, disk', p) /\ \A x \in DOMAIN dir : EndOf(dir[x]) <= p
<1>1. /\ DOMAIN disk = Positions /\ dir \in Seq(Entry) /\ total \in Nat /\ fpos \in Nat
      /\ (abort = 0 /\ pc = "compress" => fpos = total)
      /\ (pc # "closed" => \A x \in DOMAIN dir : EndOf(dir[x]) <= total)
      /\ (pc = "compress" => \A x \in DOMAIN dir : EndOf(dir[x]) <= cur.ptr)
  BY DEF AddInv, TypeInv, SessionTypes, PlaceInv, CleanInv, PosInv
<1>3. CASE Create
  BY <1>3 DEF Create, AddInv, FileInv
<1>4. ASSUME pc = "compress", abort = 0, SameBelow(disk, disk', fpos)
      PROVE  \E p \in Int : SameBelow(disk, disk', p) /\ \A x \in DOMAIN dir : EndOf(dir[x]) <= p
  <2>1. \A x \in DOMAIN dir : EndOf(dir[x]) <= fpos
    BY <1>1, <1>4
  <2> QED
    BY <1>1, <1>4, <2>1
<1>5. CASE CompressBlock
  <2>1. pc = "compress" /\ abort = 0 /\ \E w \in 0 .. Pending : disk' = PutData(disk, fpos, w, "zlib", cur.name, out)
    BY <1>5 DEF CompressBlock
  <2>2. PICK w \in Int : disk' = PutData(disk, fpos, w, "zlib", cur.name, out)
    BY <2>1, CurFacts
  <2> QED
    BY <1>1, <1>4, <2>1, <2>2, PutDataAbove
<1>6. CASE ReadFails
  <2>1. pc = "compress" /\ abort = 0 /\ \E w \in 0 .. Pending : disk' = PutJunk(disk, fpos, w)
    BY <1>6 DEF ReadFails
  <2>2. PICK w \in Int : disk' = PutJunk(disk, fpos, w)
    BY <2>1, CurFacts
  <2> QED
    BY <1>1, <1>4, <2>1, <2>2, PutJunkAbove
<1>7. CASE WriteFails
  <2>1. pc = "compress" /\ abort = 0 /\ \E v \in Int : disk' = PutData(disk, fpos, v, "zlib", cur.name, out)
    BY <1>7 DEF WriteFails
  <2>2. PICK v \in Int : disk' = PutData(disk, fpos, v, "zlib", cur.name, out)
    BY <2>1
  <2> QED
    BY <1>1, <1>4, <2>1, <2>2, PutDataAbove
<1>8. CASE FinishCompressed
  <2>1. /\ pc = "compress" /\ abort = 0
        /\ disk' = PutData(disk, fpos, Rest, "zlib", cur.name, out)
    BY <1>8 DEF FinishCompressed, InputDone
  <2>2. Rest \in Int
    BY <2>1, CurFacts
  <2> QED
    BY <1>1, <1>4, <2>1, <2>2, PutDataAbove
<1>9. CASE FinishStored
  <2> DEFINE d == PutData(disk, fpos, Rest, "zlib", cur.name, out)
  <2>1. /\ pc = "compress" /\ abort = 0
        /\ disk' = PutData(d, cur.ptr, cur.real, "raw", cur.name, 0)
    BY <1>9 DEF FinishStored, InputDone, StoreOver
  <2>2. Rest \in Int /\ cur.ptr \in Int /\ cur.ptr <= fpos /\ cur.real \in Int
    BY <1>1, <2>1, CurFacts
  <2>3. SameBelow(disk, d, fpos)
    BY <1>1, <2>2, PutDataAbove
  <2> HIDE DEF d
  <2>4. SameBelow(d, disk', cur.ptr)
    BY <2>1, <2>2, PutDataAbove
  <2>5. SameBelow(disk, disk', cur.ptr)
    BY <1>1, <2>2, <2>3, <2>4 DEF SameBelow, Positions
  <2> QED
    BY <1>1, <2>1, <2>2, <2>5
<1>10. CASE WriteHeader
  <2>1. pc = "ready" /\ SameBelow(disk, disk', total)
    BY <1>10 DEF WriteHeader, PutHeader, SameBelow, Header
  <2> QED
    BY <1>1, <2>1
<1>11. CASE WriteEntries
  <2>1. dir # << >> /\ fpos = DirectoryOffset(dir)
    BY <1>11 DEF WriteEntries, AddInv, FileInv, HeaderWritten
  <2>2. SameBelow(disk, disk', fpos)
    BY <1>1, <1>11 DEF WriteEntries, PutDirectory, SameBelow
  <2>3. \A x \in DOMAIN dir : EndOf(dir[x]) <= fpos
    BY <2>1, OffsetFacts
  <2> QED
    BY <1>1, <2>2, <2>3
<1>12. CASE RemoveEmpty
  BY <1>12 DEF RemoveEmpty
<1>13. CASE disk' = disk
  BY <1>13
<1> QED
  BY <1>3, <1>5, <1>6, <1>7, <1>8, <1>9, <1>10, <1>11, <1>12, <1>13, NoShortWrites
  DEF AddStep, CreateFails, OpenForAdd, StartFile, AddFolder, StartPak, PakUnreadable, StartMember,
      UserAbort, AbortEntry, AbortPak, FinishPak, addVars

\* a write of dzWriteDirectory that fails does not touch the streams either
LEMMA FailuresAreBehind ==
  ASSUME AddInv, HeaderFails \/ EntriesFail
  PROVE  \E p \in Int : SameBelow(disk, disk', p) /\ \A x \in DOMAIN dir : EndOf(dir[x]) <= p
<1>1. /\ DOMAIN disk = Positions /\ dir \in Seq(Entry) /\ total \in Nat /\ fpos \in Nat
      /\ (pc # "closed" => \A x \in DOMAIN dir : EndOf(dir[x]) <= total)
  BY DEF AddInv, TypeInv, SessionTypes, PlaceInv
<1>2. CASE HeaderFails
  <2>1. pc = "ready" /\ disk' \in PartialHeaders(disk, DirectoryOffset(dir), Len(dir))
    BY <1>2 DEF HeaderFails
  <2>2. \E c : disk' = [disk EXCEPT ![0] = c]
    BY <2>1 DEF PartialHeaders
  <2>3. SameBelow(disk, disk', total)
    BY <2>2 DEF SameBelow, Header
  <2> QED
    BY <1>1, <2>1, <2>3
<1>3. CASE EntriesFail
  <2>1. dir # << >> /\ fpos = DirectoryOffset(dir)
    BY <1>3 DEF EntriesFail, AddInv, FileInv, HeaderWritten
  <2>2. PICK es : disk' = PutDirectory(disk, fpos, es)
    BY <1>3 DEF EntriesFail, PartialDirectory
  <2>3. SameBelow(disk, disk', fpos)
    BY <1>1, <2>2 DEF PutDirectory, SameBelow
  <2>4. \A x \in DOMAIN dir : EndOf(dir[x]) <= fpos
    BY <2>1, OffsetFacts
  <2> QED
    BY <1>1, <2>3, <2>4
<1> QED
  BY <1>2, <1>3

\* no finished entry, not even a pak header, reaches beyond the end of the last stream
LEMMA ExtentsEnd ==
  ASSUME AddInv, ShapeInv, NEW p \in Int, \A x \in DOMAIN dir : EndOf(dir[x]) <= p,
         NEW k \in DOMAIN Done, NEW x \in Extent(Done[k])
  PROVE  x \in Int /\ Header <= x /\ x < p
<1>1. /\ Done \in Seq(Entry) /\ WholePaks(Done, Len(Done))
      /\ \A y \in DOMAIN Done : y \in DOMAIN dir /\ Done[y] = dir[y]
  BY DoneFacts
<1>2. Done[k] \in Entry /\ Done[k].ptr \in Int /\ Done[k].size \in Int /\ k \in 1 .. Len(Done)
  <2>1. Done[k] \in Entry /\ k \in 1 .. Len(Done)
    BY <1>1
  <2> QED
    BY <2>1 DEF Entry
<1>3. Header <= Done[k].ptr
  BY <1>1 DEF AddInv, PlaceInv
<1>4. x \in Int /\ Done[k].ptr <= x /\ x < Done[k].ptr + Done[k].size
  BY <1>2 DEF Extent
<1>5. CASE ~IsPak(Done[k])
  <2>1. Done[k].ptr + Done[k].size <= p
    BY <1>1, <1>5 DEF EndOf, IsPak
  <2> QED
    BY <1>2, <1>3, <1>4, <2>1 DEF Header
<1>6. CASE IsPak(Done[k])
  <2> DEFINE n == k + Done[k].pak
  <2>1. Done[k].pak \in Nat /\ n <= Len(Done) /\ Done[k].size = EndAt(Done, k, n) - Done[k].ptr
    BY <1>1, <1>2, <1>6 DEF WholePaks
  <2>2. n # k
    BY <1>2, <1>4, <2>1 DEF EndAt
  <2>3. n \in DOMAIN Done
    BY <1>1, <1>2, <2>1
  <2> HIDE DEF n
  <2>4. EndAt(Done, k, n) = EndOf(dir[n]) /\ EndOf(dir[n]) <= p /\ dir[n] \in Entry
    BY <1>1, <2>2, <2>3 DEF EndAt
  <2>5. EndOf(dir[n]) \in Int
    BY <2>4 DEF EndOf, Entry
  <2> QED
    BY <1>2, <1>3, <1>4, <2>1, <2>4, <2>5 DEF Header
<1> QED
  BY <1>5, <1>6

\* what StreamsKept says of a step
KeptStep ==
  ~damaged /\ ~Deleting /\ Created' =>
    \A x \in (UNION {Extent(Done[k]) : k \in DOMAIN Done}) \cap Positions : disk'[x] = disk[x]

\* no step of a session writes over a stream of a finished entry, not even the failing
\* writes of dzWriteDirectory
LEMMA StreamsStay == AddInv /\ CleanInv /\ ShapeInv
                       /\ ([AddStep]_addVars \/ HeaderFails \/ EntriesFail)
                       /\ Faults \subseteq CleanFaults => KeptStep
<1> DEFINE Extents == UNION {Extent(Done[k]) : k \in DOMAIN Done}
<1> HIDE DEF Extents
<1> SUFFICES ASSUME AddInv, CleanInv, ShapeInv, [AddStep]_addVars \/ HeaderFails \/ EntriesFail,
                    Faults \subseteq CleanFaults,
                    NEW x \in Extents \cap Positions
             PROVE  disk'[x] = disk[x]
  BY DEF KeptStep, Extents
<1>x. x \in Extents /\ x \in Positions
  OBVIOUS
<1>k. PICK k \in DOMAIN Done : x \in Extent(Done[k])
  BY <1>x DEF Extents
<1>1. CASE disk' = disk
  BY <1>1
<1>2. CASE dir = << >>
  <2>1. DOMAIN Done = {}
    BY <1>2, DoneFacts
  <2> QED
    BY <1>k, <2>1
<1>3. CASE \E p \in Int : SameBelow(disk, disk', p) /\ \A y \in DOMAIN dir : EndOf(dir[y]) <= p
  <2>1. PICK p \in Int : SameBelow(disk, disk', p) /\ \A y \in DOMAIN dir : EndOf(dir[y]) <= p
    BY <1>3
  <2>2. Header <= x /\ x < p
    BY <1>k, <2>1, ExtentsEnd
  <2>3. x \in DOMAIN disk
    BY <1>x DEF AddInv, TypeInv, SessionTypes
  <2>4. \A y \in DOMAIN disk : Header <= y /\ y < p => disk'[y] = disk[y]
    BY <2>1 DEF SameBelow
  <2> QED
    BY <2>2, <2>3, <2>4, Zenon
<1> QED
  BY <1>1, <1>2, <1>3, WritesAreBehind, FailuresAreBehind

\* `-a` appends: with clean faults no step of any session writes over a cell of the stream
\* of an entry that is already there, whether or not the session is aborted later or the
\* write of its directory fails
THEOREM AddsKeepStreams ==
  ASSUME Faults \subseteq CleanFaults
  PROVE  AddSpec => StreamsKept
<1>1. AddSpec => [](damaged \/ (AddInv /\ CleanInv))
  BY CleanInvariant
<1>2. (damaged \/ (AddInv /\ CleanInv)) /\ (damaged \/ (AddInv /\ ShapeInv)) /\ [AddNext]_sessionVars
        => [KeptStep]_addVars
  BY StreamsStay DEF KeptStep, AddNext, sessionVars
<1>3. AddSpec => [][KeptStep]_addVars
  BY <1>1, <1>2, ShapeInvariant, PTL DEF AddSpec
<1> QED
  BY <1>3, PTL DEF StreamsKept, KeptStep
=============================================================================
