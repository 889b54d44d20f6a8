------------------------------ MODULE DzFormat ------------------------------
(***************************************************************************)
(* The .dz container: what the directory in memory and the bytes of the    *)
(* file look like, and what it means for an archive to be intact.          *)
(*                                                                         *)
(*   offset 0        header: id, offset of the directory, number of files  *)
(*   offset Header   the stored streams, one after another                 *)
(*   header.offset   the directory, one record per entry                   *)
(*                                                                         *)
(* The file is a function from positions to cells.  A cell stands for a    *)
(* run of bytes: one block of a stored stream, one directory record, or    *)
(* the whole 12-byte header.  Names and contents are model values.         *)
(***************************************************************************)
EXTENDS Integers, Sequences

CONSTANTS
  Blob,     \* the contents that can be stored; a blob is also its file's name
  PakName,  \* names of .pak files
  DirName,  \* names of folders
  Real,     \* Real[b]: length of blob b, in blocks
  Comp,     \* Comp[b]: length of b's deflate stream, in cells
  Faults,   \* what may go wrong while an archive is written, a subset of FaultKinds
  Cap       \* bound: the file has the positions 0 .. Cap - 1

VARIABLES
  disk,  \* the dz file
  dir,   \* directory[0 .. numfiles - 1]; kept after dzClose to compare with the file
  pc,    \* where the running program is
  damaged  \* for the properties: a write of dzWriteDirectory has failed

Header == 1     \* the 12-byte dz header takes one cell

FaultKinds ==
  { "read",         \* Infile_Read fails, before anything of the file was put out
    "late_read",    \* Infile_Read fails, after something of the file or pak was
    "write",        \* dzFile_Write fails inside dzWrite
    "abort",        \* the GUI user aborts
    "short_store",  \* Infile_Store ends early: read error, write error or abort
    "short_tail",   \* dzFile_Write fails inside end_zlib_compression
    "copy",         \* dzFile_Read or dzFile_Write fails while dzDeleteFiles moves a stream
    "directory" }   \* dzFile_Write fails on the header or inside dzWriteDirectory

ASSUME FormatAssumption ==
  /\ Real \in [Blob -> Nat]
  /\ Comp \in [Blob -> Nat \ {0}]    \* a zlib stream is never empty
  /\ Cap \in Nat \ {0}
  /\ Blob \cap PakName = {} /\ Blob \cap DirName = {} /\ PakName \cap DirName = {}
  /\ Blob # {}

Name == Blob \cup PakName \cup DirName
Type == {"NORMAL", "STORE", "PAK", "DIR"}    \* DEM and NEHAHRA behave as NORMAL here

(***************************************************************************)
(* direntry_t, without the fields the container never looks at.  `pak` is  *)
(* the number of members in a header, the 1-based number of a member in a  *)
(* member, and 0 otherwise.                                                *)
(***************************************************************************)
Entry == [name: Name, type: Type, ptr: Int, size: Int, real: Int, pak: Int]

(***************************************************************************)
(* The file.                                                               *)
(***************************************************************************)
Positions == 0 .. Cap - 1
Free == <<"free">>
Junk == <<"junk">>
Created == disk[0] # Free
Deleting == pc \in {"remove", "walk", "copy", "shorten"}
HeaderCell(offset, n) == <<"header", offset, n>>
DirCell(e) == <<"entry", e>>
DataCell(form, b, k) == <<form, b, k>>

CellOK(c) ==
  \/ c = Free \/ c = Junk
  \/ c = DirCell(c[2]) /\ c[2] \in Entry
  \/ c = HeaderCell(c[2], c[3]) /\ c[2] \in Nat /\ c[3] \in Nat
  \/ /\ c = DataCell(c[1], c[2], c[3])
     /\ c[1] \in {"zlib", "raw"} /\ c[2] \in Blob /\ c[3] \in Nat

\* the last cell still lies within the bound
Fits(p, n) == p + n <= Cap

\* cells k0, k0+1, ... of blob b in the given form, n of them, written at p
PutData(d, p, n, form, b, k0) ==
  [x \in DOMAIN d |-> IF x \in p .. p + n - 1 THEN DataCell(form, b, k0 + x - p) ELSE d[x]]

PutJunk(d, p, n) ==
  [x \in DOMAIN d |-> IF x \in p .. p + n - 1 THEN Junk ELSE d[x]]

(***************************************************************************)
(* Where a directory ends: one past the last stored stream.  A pak header  *)
(* spans its members, which carry the streams.                             *)
(***************************************************************************)
EndOf(e) == IF e.type = "PAK" THEN e.ptr ELSE e.ptr + e.size
DataEnd(es) == IF es = << >> THEN Header ELSE EndOf(es[Len(es)])

\* dzWriteDirectory computes the offset from the last entry
DirectoryOffset(es) == es[Len(es)].ptr + es[Len(es)].size

\* a seeded fault: the index of the last entry for the number of entries
PutHeader_LastIndex(d, offset, n) == [d EXCEPT ![0] = HeaderCell(offset, n - 1)]

\* dzWriteDirectory's two halves: the header words, then the records
PutHeader(d, offset, n) == [d EXCEPT ![0] = HeaderCell(offset, n)]
PutDirectory(d, offset, es) ==
  [x \in DOMAIN d |->
     IF x \in offset .. offset + Len(es) - 1 THEN DirCell(es[x - offset + 1]) ELSE d[x]]

\* dzFile_Write fails on a word of the header, or on both: it stays as it was.  A header
\* whose first word never got there is none, whatever the others say
Begun(d) == d[0][1] = "header"
PartialHeaders(d, offset, n) ==
  IF Begun(d)
  THEN {[d EXCEPT ![0] = HeaderCell(w[1], w[2])] :
          w \in ({d[0][2], offset} \X {d[0][3], n}) \ {<<offset, n>>}}
  ELSE {[d EXCEPT ![0] = Junk]}

\* only the first k records get into the file
PartialDirectory(d, offset, es, k) == PutDirectory(d, offset, SubSeq(es, 1, k))

\* dzFile_Truncate, with the file position just after the directory
Truncate(d, p) == [x \in DOMAIN d |-> IF x >= p THEN Free ELSE d[x]]

(***************************************************************************)
(* dzReadDirectory: the file is rejected without a header, with an offset  *)
(* past the end, or when a record does not parse.                          *)
(***************************************************************************)
DirectoryReadable(d) ==
  /\ Begun(d)
  /\ 0 <= d[0][2] /\ d[0][2] + d[0][3] <= Cap
  /\ \A k \in 1 .. d[0][3] : d[d[0][2] + k - 1][1] = "entry"

ReadDirectory(d) == [k \in 1 .. d[0][3] |-> d[d[0][2] + k - 1][2]]

(***************************************************************************)
(* What it means for a directory and a file to be intact.                  *)
(***************************************************************************)
HasData(e) == e.type \in {"NORMAL", "STORE"}
FormOf(e) == IF e.type = "STORE" THEN "raw" ELSE "zlib"
IsPak(e) == e.type = "PAK"
IsMember(e) == e.type # "PAK" /\ e.pak # 0

\* dzExtractFile(e) finds at e.ptr the whole stream of the file e names
EntryReadable(d, e) ==
  HasData(e) =>
    /\ e.real = Real[e.name]
    /\ e.size = IF e.type = "STORE" THEN Real[e.name] ELSE Comp[e.name]
    /\ \A k \in 0 .. e.size - 1 :
         e.ptr + k \in DOMAIN d /\ d[e.ptr + k] = DataCell(FormOf(e), e.name, k)

AllReadable(d, es) == \A i \in DOMAIN es : EntryReadable(d, es[i])

\* entries lie in directory order, do not overlap and stay clear of the header
Ordered(es) ==
  /\ \A i \in DOMAIN es : Header <= es[i].ptr /\ 0 <= es[i].size
  /\ \A i \in DOMAIN es : i + 1 \in DOMAIN es => EndOf(es[i]) <= es[i + 1].ptr

\* a pak header is followed by exactly the members it counts, numbered from 1, and
\* spans exactly their streams; its first entry is not a member of anything
PakShape(es) ==
  \A i \in DOMAIN es :
    /\ IsPak(es[i]) =>
         /\ i + es[i].pak \in DOMAIN es
         /\ \A k \in 1 .. es[i].pak : IsMember(es[i + k]) /\ es[i + k].pak = k
         /\ es[i].size = IF es[i].pak = 0 THEN 0
                          ELSE EndOf(es[i + es[i].pak]) - es[i].ptr
    /\ IsMember(es[i]) =>
         /\ i - es[i].pak \in DOMAIN es
         /\ IsPak(es[i - es[i].pak])
         /\ es[i].pak <= es[i - es[i].pak].pak
=============================================================================
