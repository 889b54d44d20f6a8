------------------------------ MODULE DzDelete ------------------------------
(***************************************************************************)
(* Deleting entries in place: dzDeleteFiles_MakeList turns the names of    *)
(* the command line into a sorted list of indices, and dzDeleteFiles walks *)
(* the directory once, dropping the listed entries, renumbering what is    *)
(* left and copying each kept stream down over the gap.                    *)
(*                                                                         *)
(* Indices count from 1; the code's index i is i + 1 here.                 *)
(***************************************************************************)
EXTENDS DzFormat

CONSTANTS
  Chunk,       \* cells copied at a time, p_blocksize * 2 in the code
  MaxRequest,  \* bound: names on one command line
  Unusual      \* requests let through beyond the plain ones, a subset of UnusualKinds

UnusualKinds ==
  { "repeat",        \* an entry named twice, or a pak named together with its member
    "adjacent_pak" } \* a member deleted from a pak that another pak follows directly

ASSUME DeleteAssumption ==
  Chunk \in Nat \ {0} /\ MaxRequest \in Nat /\ Unusual \subseteq UnusualKinds

VARIABLES
  list,      \* the sorted indices
  listnum,   \* how many of them have been passed
  i,         \* the entry looked at
  fposdelta, \* cells removed so far: how far streams move down
  dedelta,   \* entries removed so far: how far records move down
  pakdelta,  \* members removed so far from the pak around i
  curpos, togo,  \* the stream being copied: from where, and how much is left
  was,       \* for the properties: the directory when the deletion began,
  asked      \* and the entries of it that the request names

delLocals == <<list, listnum, i, fposdelta, dedelta, pakdelta, curpos, togo, was, asked>>

DelIdle ==
  /\ list = << >> /\ listnum = 0 /\ i = 0
  /\ fposdelta = 0 /\ dedelta = 0 /\ pakdelta = 0
  /\ curpos = 0 /\ togo = 0 /\ was = << >> /\ asked = {}

BecomeIdle ==
  /\ list' = << >> /\ listnum' = 0 /\ i' = 0
  /\ fposdelta' = 0 /\ dedelta' = 0 /\ pakdelta' = 0
  /\ curpos' = 0 /\ togo' = 0 /\ was' = << >> /\ asked' = {}

-----------------------------------------------------------------------------
(* dzDeleteFiles_MakeList.                                                 *)

LOCAL INSTANCE SequencesExt

\* the first entry of that name; strcasecmp's case folding is not modelled
Find(d, n) == SelectInSeq(d, LAMBDA e : e.name = n)

\* a seeded fault: the list is left in the order of the command line
Sorted_AsTyped(s) == s

\* qsort, of which nothing is used but what it promises
Sorted(s) ==
  LET p == CHOOSE p \in Bijection(DOMAIN s, DOMAIN s) :
             \A x, y \in DOMAIN s : x < y => s[p[x]] <= s[p[y]]
  IN [x \in DOMAIN s |-> s[p[x]]]

\* k: how many entries the request is taken to name
Counted(d, l) ==
  Len(l) + FoldLeft(LAMBDA acc, x : acc + (IF IsPak(d[x]) THEN d[x].pak ELSE 0), 0, l)

\* what the request means: the listed entries, and with a pak its members
Selected(d, l) ==
  {x \in DOMAIN d : \E y \in 1 .. Len(l) :
     \/ x = l[y]
     \/ IsPak(d[l[y]]) /\ x \in l[y] .. l[y] + d[l[y]].pak}

Repeats(d, l) ==
  \/ \E x, y \in 1 .. Len(l) : x # y /\ l[x] = l[y]
  \/ \E x, y \in 1 .. Len(l) : IsPak(d[l[x]]) /\ l[y] \in l[x] + 1 .. l[x] + d[l[x]].pak

AnotherPakFollows(d, l) ==
  \E y \in 1 .. Len(l) :
    /\ IsMember(d[l[y]])
    /\ LET h == l[y] - d[l[y]].pak
           next == h + d[h].pak + 1
       IN h \in DOMAIN d /\ next \in DOMAIN d /\ IsPak(d[next]) /\ d[next].pak # 0

Allowed(d, l) ==
  /\ Repeats(d, l) => "repeat" \in Unusual
  /\ AnotherPakFollows(d, l) => "adjacent_pak" \in Unusual

\* every name is found; "deleting everything" removes the file, anything else starts the walk
DeleteRequest(names) ==
  /\ pc = "closed" /\ Created /\ DirectoryReadable(disk)
  /\ LET d == ReadDirectory(disk)
         l == [x \in DOMAIN names |-> Find(d, names[x])]
     IN /\ \A x \in DOMAIN l : l[x] # 0
        /\ Allowed(d, l)
        /\ was' = d /\ asked' = Selected(d, l)
        /\ dir' = d
        /\ list' = Sorted(l) /\ i' = 1
        /\ pc' = IF Counted(d, l) = Len(d) THEN "remove" ELSE "walk"
  /\ UNCHANGED <<disk, listnum, fposdelta, dedelta, pakdelta, curpos, togo>>

\* the file itself goes
RemoveArchive ==
  /\ pc = "remove"
  /\ disk' = [x \in Positions |-> Free]
  /\ dir' = << >>
  /\ pc' = "closed"
  /\ BecomeIdle

-----------------------------------------------------------------------------
(* dzDeleteFiles.                                                          *)

\* a seeded fault: members that stay keep their old numbers
Renumbered_Not == dir[i]

\* lines 19-22: the entry's number is corrected before anything else is decided on it.
\* `pak` is an unsigned short.
Renumbered == [dir[i] EXCEPT !.pak = IF @ = 0 THEN 0 ELSE (@ - pakdelta) % 65536]
PakDeltaHere == IF dir[i].pak = 0 THEN 0 ELSE pakdelta

\* a seeded fault: what a stored stream frees is taken for what it was before
Freed_Real(e) == e.real

Freed(e) == e.size

\* a seeded fault: the member's 64-byte record is forgotten
Without_Record(h, e) == [h EXCEPT !.pak = @ - 1, !.real = @ - e.real, !.size = @ - e.size]

\* a seeded fault: a stored member is subtracted at its uncompressed size
Without_RealSize(h, e) ==
  [h EXCEPT !.pak = @ - 1, !.real = @ - (64 + e.real), !.size = @ - e.real]

\* the pak header h without its member e
Without(h, e) == [h EXCEPT !.pak = @ - 1, !.real = @ - (64 + e.real), !.size = @ - e.size]

Listed == listnum < Len(list) /\ list[listnum + 1] = i

\* a listed file, folder or whole pak; a pak takes its members along
DropEntry ==
  /\ pc = "walk" /\ i <= Len(dir) /\ Listed
  /\ Renumbered.type = "PAK" \/ Renumbered.pak = 0
  /\ listnum' = listnum + 1
  /\ fposdelta' = fposdelta + Freed(dir[i])
  /\ IF Renumbered.type = "PAK"
     THEN dedelta' = dedelta + Renumbered.pak + 1 /\ i' = i + Renumbered.pak + 1
     ELSE dedelta' = dedelta + 1 /\ i' = i + 1
  /\ pakdelta' = PakDeltaHere
  /\ dir' = [dir EXCEPT ![i] = Renumbered]
  /\ UNCHANGED <<disk, pc, list, curpos, togo, was, asked>>

\* a listed member; its pak's header, which has already moved down, is corrected.  The
\* guard on `header` only excludes a pointer outside the directory, which is undefined
DropMember ==
  LET header == i - Renumbered.pak - dedelta IN
  /\ pc = "walk" /\ i <= Len(dir) /\ Listed
  /\ Renumbered.type # "PAK" /\ Renumbered.pak # 0
  /\ header \in DOMAIN dir
  /\ listnum' = listnum + 1
  /\ fposdelta' = fposdelta + Freed(dir[i])
  /\ dedelta' = dedelta + 1
  /\ pakdelta' = PakDeltaHere + 1
  /\ dir' = [dir EXCEPT ![i] = Renumbered,
                        ![header] = Without(@, dir[i])]
  /\ i' = i + 1
  /\ UNCHANGED <<disk, pc, list, curpos, togo, was, asked>>

\* an entry that stays: its record moves down, and its stream has to follow
KeepEntry ==
  /\ pc = "walk" /\ i <= Len(dir) /\ ~Listed
  /\ pakdelta' = PakDeltaHere
  /\ dir' = IF dedelta = 0
            THEN [dir EXCEPT ![i] = Renumbered]
            ELSE [dir EXCEPT ![i] = Renumbered,
                             ![i - dedelta] = [Renumbered EXCEPT !.ptr = @ - fposdelta]]
  /\ IF dedelta # 0 /\ fposdelta # 0 /\ HasData(dir[i]) /\ dir[i].size # 0
     THEN pc' = "copy" /\ curpos' = dir[i].ptr /\ togo' = dir[i].size /\ UNCHANGED i
     ELSE i' = i + 1 /\ UNCHANGED <<pc, curpos, togo>>
  /\ UNCHANGED <<disk, list, listnum, fposdelta, dedelta, was, asked>>

\* a seeded fault: the read position stays at the start of the stream
CopyTo_FromStart(n) ==
  [x \in DOMAIN disk |-> IF x \in curpos - fposdelta .. curpos - fposdelta + n - 1
                         THEN disk[x + dir[i].ptr - (curpos - fposdelta)] ELSE disk[x]]

\* one turn of the copy loop: a chunk is read whole and written whole, lower down
CopyTo(n) ==
  [x \in DOMAIN disk |-> IF x \in curpos - fposdelta .. curpos - fposdelta + n - 1
                         THEN disk[x + fposdelta] ELSE disk[x]]

ChunkSize == IF togo > Chunk THEN Chunk ELSE togo

CopyGoesOn ==
  /\ pc = "copy"
  /\ IF togo = ChunkSize
     THEN pc' = "walk" /\ i' = i + 1 /\ curpos' = 0 /\ togo' = 0
     ELSE curpos' = curpos + ChunkSize /\ togo' = togo - ChunkSize /\ UNCHANGED <<pc, i>>
  /\ UNCHANGED <<dir, list, listnum, fposdelta, dedelta, pakdelta, was, asked>>

CopyChunk == CopyGoesOn /\ disk' = CopyTo(ChunkSize)

\* the read fails after v cells, and what the buffer had before is written behind them;
\* or the write fails after v cells.  The walk goes on: nobody looks at AbortOp
CopyFails ==
  /\ "copy" \in Faults
  /\ CopyGoesOn
  /\ \E v \in 0 .. ChunkSize - 1 :
       \/ disk' = PutJunk(CopyTo(v), curpos - fposdelta + v, ChunkSize - v)
       \/ disk' = CopyTo(v)

\* the directory is shortened and written behind the last stream; first the header
DeleteHeader ==
  /\ pc = "walk" /\ i > Len(dir)
  /\ LET kept == SubSeq(dir, 1, Len(dir) - dedelta) IN
       /\ kept # << >>    \* else directory[-1]: undefined
       /\ dir' = kept
       /\ Begun(disk) /\ disk' = PutHeader(disk, DirectoryOffset(kept), Len(kept))
  /\ pc' = "shorten"
  /\ UNCHANGED delLocals

\* the same with a write error
DeleteHeaderFails ==
  /\ "directory" \in Faults
  /\ pc = "walk" /\ i > Len(dir)
  /\ LET kept == SubSeq(dir, 1, Len(dir) - dedelta) IN
       /\ kept # << >>
       /\ dir' = kept
       /\ disk' \in PartialHeaders(disk, DirectoryOffset(kept), Len(kept))
  /\ pc' = "shorten"
  /\ UNCHANGED delLocals

\* then the records, and the file ends with them
DeleteEntries ==
  /\ pc = "shorten"
  /\ LET offset == DirectoryOffset(dir) IN
       disk' = Truncate(PutDirectory(disk, offset, dir), offset + Len(dir))
  /\ pc' = "closed"
  /\ BecomeIdle
  /\ UNCHANGED dir

\* a write error among the records: the file is truncated where the last write ended
DeleteEntriesFail ==
  /\ "directory" \in Faults
  /\ pc = "shorten"
  /\ LET offset == DirectoryOffset(dir) IN
       \E k \in 0 .. Len(dir) - 1 :
         disk' = Truncate(PartialDirectory(disk, offset, dir, k), offset + k)
  /\ pc' = "closed"
  /\ BecomeIdle
  /\ UNCHANGED dir

WalkTypes ==
  /\ list \in Seq(Nat \ {0}) /\ listnum \in 0 .. Len(list)
  /\ i \in Nat /\ fposdelta \in Nat /\ dedelta \in 0 .. Len(was) /\ pakdelta \in Nat
  /\ curpos \in Nat /\ togo \in Nat
  /\ was \in Seq(Entry) /\ asked \subseteq DOMAIN was
  /\ dir \in Seq(Entry)

DeleteTypeOK == ~damaged => WalkTypes

Requests == UNION {[1 .. n -> Name] : n \in 1 .. MaxRequest}

DelStep ==
  \/ \E names \in Requests : DeleteRequest(names)
  \/ RemoveArchive
  \/ DropEntry \/ DropMember \/ KeepEntry \/ CopyChunk \/ CopyFails
  \/ DeleteHeader \/ DeleteEntries

DelNext ==
  \/ DelStep /\ UNCHANGED damaged
  \/ (DeleteHeaderFails \/ DeleteEntriesFail) /\ damaged' = TRUE
=============================================================================
