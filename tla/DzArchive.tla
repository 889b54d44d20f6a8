------------------------------ MODULE DzArchive ------------------------------
(***************************************************************************)
(* One archive over any number of sessions: it is created, files are added *)
(* and deleted, each time by a new run of the program that knows only what *)
(* the file says.                                                          *)
(***************************************************************************)
EXTENDS DzAdd, DzDelete

LOCAL INSTANCE SequencesExt

archiveVars == <<disk, dir, pc, damaged, abort, fileVars, delLocals>>

ArchiveInit == AddInit /\ DelIdle

ArchiveNext ==
  \/ AddNext /\ UNCHANGED delLocals
  \/ DelNext /\ UNCHANGED <<abort, fileVars>>

ArchiveSpec == ArchiveInit /\ [][ArchiveNext]_archiveVars

-----------------------------------------------------------------------------
(* Properties.                                                             *)

\* A pak header's uncompressed size is that of the .pak file it will be extracted to: the
\* 12-byte header, 64 bytes for each member and the members themselves.  Adding sums it
\* up, deleting corrects it member by member
SumReal(s) == FoldLeft(LAMBDA acc, e : acc + e.real, 0, s)

PakRealOK ==
  ~damaged /\ ~Deleting =>
    \A x \in DOMAIN Done : IsPak(Done[x]) =>
      Done[x].real = 12 + 64 * Done[x].pak + SumReal(SubSeq(Done, x + 1, x + Done[x].pak))

\* During the walk fposdelta is the gap: the next stream to be kept goes down, but never
\* onto the header or the last stream that was kept
GapSafe ==
  ~damaged /\ pc = "walk" /\ i <= Len(dir) /\ dedelta > 0 =>
    /\ 0 <= fposdelta
    /\ (IF i - dedelta = 1 THEN Header ELSE EndOf(dir[i - dedelta - 1]))
         <= dir[i].ptr - fposdelta

\* the stream that is being moved: below curpos it has arrived, the rest is where it was
HalfMoved(e, from) ==
  \A k \in 0 .. e.size - 1 :
    LET x == IF from + k < curpos THEN from + k - fposdelta ELSE from + k IN
      x \in DOMAIN disk /\ disk[x] = DataCell(FormOf(e), e.name, k)

\* At every turn of the walk, and of the copying loop in it, no stream that stays has lost a
\* cell: what was moved is readable where the new directory says, what is still to come
\* where the old one says, and what is on its way is in two parts.  The new directory is
\* only in memory until the walk is over: this is about the walk, not about a file that is
\* left behind by a program killed in it
WalkReadable ==
  ~damaged /\ pc \in {"walk", "copy"} =>
    /\ AllReadable(disk, SubSeq(dir, 1, i - 1 - dedelta))
    /\ \A x \in i + 1 .. Len(was) : EntryReadable(disk, was[x])
    /\ i <= Len(was) => IF pc = "walk" THEN EntryReadable(disk, was[i])
                                       ELSE HalfMoved(was[i], was[i].ptr)

\* The archive as a list of files
Item(d, x) == IF IsMember(d[x]) THEN <<d[x - d[x].pak].name, d[x].name>> ELSE <<d[x].name>>
Listing(d) == [x \in DOMAIN d |-> Item(d, x)]

InputGroups ==
  {<< <<n>> >> : n \in Blob \cup DirName}
    \cup {<< <<p>> >> \o [x \in DOMAIN Paks[p] |-> <<p, Paks[p][x]>>] : p \in PakName}

Contents == INSTANCE DzContents WITH
  Groups <- InputGroups,
  contents <- IF damaged THEN << >>
              ELSE IF Deleting THEN Listing(was) ELSE Listing(Done)

\* An archive behaves as a list of whole inputs: they arrive one after another at its end,
\* and leave when they are asked to.  A write of its directory that fails counts as the
\* loss of everything in it
ContentsSpec == Contents!Spec

\* A deletion removes the named entries, paks with their members, and nothing else
\* (dzip.txt: "Opens <dzfile> and then deletes <files> from it")
DeletesWhatWasAsked ==
  [][~damaged' =>
     /\ pc = "shorten" => Listing(dir') = Contents!Kept(Listing(was), asked)
     /\ pc = "remove" => asked = DOMAIN was]_archiveVars
=============================================================================
