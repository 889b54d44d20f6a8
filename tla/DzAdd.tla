-------------------------------- MODULE DzAdd --------------------------------
(***************************************************************************)
(* Writing an archive: the session that `dzip files` (create) and          *)
(* `dzip -a` (add) run, and that the GUI's AddThread drives through the    *)
(* same compress.c.                                                        *)
(*                                                                         *)
(* The streams are appended one after another while the directory grows in *)
(* memory; it is written after the last stream when the session ends.  Two *)
(* positions have to agree all along: `fpos`, where the next write lands,  *)
(* and `total`, which is what the next entry records as its ptr.           *)
(***************************************************************************)
EXTENDS DzFormat

CONSTANTS
  Paks,        \* Paks[p]: the members of .pak file p, a sequence of blobs
  MaxEntries   \* bound: entries in a directory

ASSUME AddAssumption ==
  /\ Paks \in [PakName -> Seq(Blob)]
  /\ Faults \subseteq FaultKinds
  /\ MaxEntries \in Nat

VARIABLES
  fpos,     \* its file position
  total,    \* totalsize
  cur,      \* directory[numfiles], the entry being built
  fed,      \* blocks of the current input handed to deflate
  out,      \* cells of its stream that deflate has put out
  abort,    \* AbortOp: 0, 1 (write error, user abort) or 3 (read error)
  hdr,      \* index of the pak header being filled, 0 outside a pak
  todo,     \* members of that pak still to come
  paksize   \* the local of that name

fileVars == <<fpos, total, cur, fed, out, hdr, todo, paksize>>
addVars == <<disk, dir, pc, abort, fileVars>>
sessionVars == <<addVars, damaged>>

NoEntry == [name |-> CHOOSE n \in Name : TRUE, type |-> "NORMAL",
            ptr |-> 0, size |-> 0, real |-> 0, pak |-> 0]

IdleFile ==
  /\ fpos = 0 /\ total = 0 /\ cur = NoEntry /\ fed = 0 /\ out = 0
  /\ hdr = 0 /\ todo = << >> /\ paksize = 0

\* values nobody reads again, forgotten
ForgetEntry == cur' = NoEntry /\ fed' = 0 /\ out' = 0
ForgetSession == fpos' = 0 /\ total' = 0 /\ abort' = 0

AddInit ==
  /\ disk = [x \in Positions |-> Free]
  /\ dir = << >>
  /\ abort = 0
  /\ pc = "closed"
  /\ damaged = FALSE
  /\ IdleFile

-----------------------------------------------------------------------------
(* Opening.                                                                *)

\* `dzip files`: open_create, then the 12-byte header with zeros for offset and numfiles
Create ==
  /\ pc = "closed" /\ ~Created
  /\ disk' = [x \in Positions |-> IF x = 0 THEN HeaderCell(0, 0) ELSE Free]
  /\ fpos' = Header /\ total' = Header
  /\ dir' = << >>
  /\ abort' = 0
  /\ pc' = "ready"
  /\ UNCHANGED <<cur, fed, out, hdr, todo, paksize>>

\* the header does not get into the file, and AbortOp is set before the first input: none
\* is kept, and the file is removed when the session ends (but for a pak without members)
CreateFails ==
  /\ "directory" \in Faults
  /\ pc = "closed" /\ ~Created
  /\ fpos' = 0 /\ total' = Header
  /\ dir' = << >>
  /\ abort' = 1
  /\ pc' = "ready"
  /\ UNCHANGED <<disk, cur, fed, out, hdr, todo, paksize>>

\* a seeded fault: a session that appends starts like one that creates
AppendAt_Start(d) == Header

\* the offset word of the header
AppendAt(d) == d[0][2]

\* `dzip -a`: dzOpen reads the directory, totalsize is read back from the header
OpenForAdd ==
  /\ pc = "closed" /\ Created /\ DirectoryReadable(disk)
  /\ dir' = ReadDirectory(disk)
  /\ total' = AppendAt(disk) /\ fpos' = AppendAt(disk)
  /\ abort' = 0
  /\ pc' = "ready"
  /\ UNCHANGED <<disk, cur, fed, out, hdr, todo, paksize>>

-----------------------------------------------------------------------------
(* startdirentry: the entry under construction gets the current totalsize. *)

\* a seeded fault: members are numbered from 0
StartEntry_FromZero(name, type, real, pak) ==
  [name |-> name, type |-> type, ptr |-> total, size |-> 0, real |-> real,
   pak |-> IF type = "NORMAL" /\ pak # 0 THEN pak - 1 ELSE pak]

StartEntry(name, type, real, pak) ==
  [name |-> name, type |-> type, ptr |-> total, size |-> 0, real |-> real, pak |-> pak]

\* DoFiles turns a read error into an attempt at the next file
AfterFile(a) == IF a = 3 THEN 0 ELSE a

\* the GUI's loop over the files ends on an abort, the console's does not
NextInput(n) ==
  /\ pc = "ready" /\ Len(dir) + n <= MaxEntries
  /\ abort = 0 \/ "abort" \notin Faults

\* the fault that a failing read is, given what the current file has put out so far
ReadFault(start, emitted) == IF emitted = start THEN "read" ELSE "late_read"

StartFile(b) ==
  /\ NextInput(1)
  /\ cur' = StartEntry(b, "NORMAL", Real[b], 0)
  /\ fed' = 0 /\ out' = 0
  /\ pc' = "compress"
  /\ UNCHANGED <<disk, fpos, total, dir, abort, hdr, todo, paksize>>

\* dzAddFolder; finishdirentry only seeks back when the session is being aborted
AddFolder(n) ==
  /\ NextInput(1)
  /\ IF abort = 0
     THEN dir' = Append(dir, StartEntry(n, "DIR", 0, 0)) /\ UNCHANGED fpos
     ELSE fpos' = total /\ UNCHANGED dir
  /\ UNCHANGED <<disk, total, cur, fed, out, abort, hdr, todo, paksize, pc>>

\* dzCompressFile on a .pak: its header entry counts as a file at once
StartPak(p) ==
  /\ NextInput(1 + Len(Paks[p]))
  /\ dir' = Append(dir, StartEntry(p, "PAK", 0, Len(Paks[p])))
  /\ hdr' = Len(dir) + 1
  /\ todo' = Paks[p]
  /\ paksize' = 12 + 64 * Len(Paks[p])
  /\ pc' = "member"
  /\ UNCHANGED <<disk, fpos, total, cur, fed, out, abort>>

\* the 12-byte pak header cannot be read: the file is taken for a normal one, whose
\* compression is aborted before it began
PakUnreadable(p) ==
  /\ "read" \in Faults
  /\ NextInput(1)
  /\ fpos' = total    \* finishdirentry: back to the ptr startdirentry has just set
  /\ abort' = 0
  /\ UNCHANGED <<disk, total, dir, cur, fed, out, hdr, todo, paksize, pc>>

\* the next 64-byte pak record is read and its entry started; when that read fails
\* the member is aborted at once, whatever the record then says
StartMember ==
  /\ pc = "member" /\ todo # << >>
  /\ \/ UNCHANGED abort
     \/ ReadFault(dir[hdr].ptr, total) \in Faults /\ abort' = 3
  /\ cur' = StartEntry(Head(todo), "NORMAL", Real[Head(todo)], Len(dir) + 1 - hdr)
  /\ todo' = Tail(todo)
  /\ fed' = 0 /\ out' = 0
  /\ pc' = "compress"
  /\ UNCHANGED <<disk, fpos, total, dir, hdr, paksize>>

-----------------------------------------------------------------------------
(* normal_compress.  deflate holds output back as it likes, but keeps the  *)
(* end of the stream for Z_FINISH.                                         *)

Pending == Comp[cur.name] - 1 - out

CompressBlock ==
  /\ pc = "compress" /\ abort = 0 /\ fed < Real[cur.name]
  /\ \E w \in 0 .. Pending :
       /\ Fits(fpos, w)
       /\ disk' = PutData(disk, fpos, w, "zlib", cur.name, out)
       /\ fpos' = fpos + w /\ total' = total + w /\ out' = out + w
  /\ fed' = fed + 1
  /\ UNCHANGED <<dir, cur, abort, hdr, todo, paksize, pc>>

\* Infile_Read fails; what is in inblk is compressed and written all the same
ReadFails ==
  /\ pc = "compress" /\ abort = 0 /\ fed < Real[cur.name]
  /\ \E w \in 0 .. Pending :
       /\ ReadFault(IF hdr = 0 THEN cur.ptr ELSE dir[hdr].ptr, total + w) \in Faults
       /\ Fits(total, w)
       /\ disk' = PutJunk(disk, fpos, w)
       /\ fpos' = fpos + w /\ total' = total + w /\ out' = out + w
  /\ abort' = 3
  /\ UNCHANGED <<dir, cur, fed, hdr, todo, paksize, pc>>

\* dzFile_Write writes fewer bytes than asked; totalsize counts them all
WriteFails ==
  /\ "write" \in Faults
  /\ pc = "compress" /\ abort = 0 /\ fed < Real[cur.name]
  /\ \E w \in 1 .. Pending : \E v \in 0 .. w - 1 :
       /\ Fits(fpos, w)
       /\ disk' = PutData(disk, fpos, v, "zlib", cur.name, out)
       /\ fpos' = fpos + v /\ total' = total + w /\ out' = out + w
  /\ abort' = 1
  /\ UNCHANGED <<dir, cur, fed, hdr, todo, paksize, pc>>

\* ActionsAbort: the window thread sets AbortOp at any moment
UserAbort ==
  /\ "abort" \in Faults
  /\ pc \in {"compress", "member", "ready"} /\ abort = 0
  /\ abort' = 1
  /\ UNCHANGED <<disk, dir, pc, fileVars>>

-----------------------------------------------------------------------------
(* finishdirentry and the rest of dzCompressFile.                          *)

InputDone == pc = "compress" /\ (abort # 0 \/ fed = Real[cur.name])

\* after a file outside a pak DoFiles goes on; inside, the pak's next member follows
NextPc == IF hdr = 0 THEN "ready" ELSE "member"
AfterEntry(a) == IF hdr = 0 THEN AfterFile(a) ELSE a

\* a seeded fault: the 64-byte record is counted again
PaksizeWith_Record(e) == paksize + 64 + e.real

PaksizeWith(e) == paksize + e.real

\* the entry is kept: appended to the directory, whatever `abort` became meanwhile
Keep(e, a) ==
  /\ dir' = Append(dir, e)
  /\ paksize' = IF hdr = 0 THEN paksize ELSE PaksizeWith(e)
  /\ abort' = AfterEntry(a)
  /\ pc' = NextPc
  /\ ForgetEntry
  /\ UNCHANGED <<hdr, todo>>

Rest == Comp[cur.name] - out     \* what end_zlib_compression still writes
Shrunk == Comp[cur.name] <= cur.real

Compressed(e) == [e EXCEPT !.size = Comp[e.name]]

\* the compressed stream is complete and no longer than the input
FinishCompressed ==
  /\ InputDone /\ abort = 0 /\ Shrunk /\ Fits(fpos, Rest)
  /\ disk' = PutData(disk, fpos, Rest, "zlib", cur.name, out)
  /\ fpos' = fpos + Rest /\ total' = total + Rest
  /\ Keep(Compressed(cur), 0)

\* the same with a write error in end_zlib_compression: nobody looks at AbortOp again
FinishShortTail ==
  /\ "short_tail" \in Faults
  /\ InputDone /\ abort = 0 /\ Shrunk /\ Fits(total, Rest)
  /\ \E v \in 0 .. Rest - 1 :
       /\ disk' = PutData(disk, fpos, v, "zlib", cur.name, out)
       /\ fpos' = fpos + v
  /\ total' = total + Rest
  /\ Keep(Compressed(cur), 1)

Stored(e) == [e EXCEPT !.size = e.real, !.type = "STORE"]

\* a seeded fault: no seek, the input follows the stream it was to replace
StoreOver_NoSeek(n) ==
  PutData(PutData(disk, fpos, Rest, "zlib", cur.name, out), fpos + Rest, n, "raw", cur.name, 0)

\* negative compression: back to the start of the stream, and the input is copied over it
StoreOver(n) ==
  PutData(PutData(disk, fpos, Rest, "zlib", cur.name, out), cur.ptr, n, "raw", cur.name, 0)

\* a seeded fault: totalsize goes on from the end of the stream that was discarded
StoredTotal_NotReset == total + Rest

StoredTotal == cur.ptr + cur.real

FinishStored ==
  /\ InputDone /\ abort = 0 /\ ~Shrunk /\ Fits(fpos, Rest)
  /\ disk' = StoreOver(cur.real)
  /\ fpos' = cur.ptr + cur.real /\ total' = StoredTotal
  /\ Keep(Stored(cur), 0)

\* Infile_Store stops after n blocks; the entry is kept as if all had been copied
FinishShortStore ==
  /\ "short_store" \in Faults
  /\ InputDone /\ abort = 0 /\ ~Shrunk /\ Fits(total, Rest)
  /\ \E n \in 0 .. cur.real - 1, a \in {1, 3} :
       /\ disk' = StoreOver(n)
       /\ fpos' = cur.ptr + n
       /\ Keep(Stored(cur), a)
  /\ total' = StoredTotal

\* finishdirentry on an abort: back to where the entry began, and no entry
AbortEntry ==
  /\ InputDone /\ abort # 0 /\ hdr = 0
  /\ fpos' = cur.ptr
  /\ abort' = AfterFile(abort)
  /\ pc' = "ready"
  /\ ForgetEntry
  /\ UNCHANGED <<disk, total, dir, hdr, todo, paksize>>

\* a seeded fault: the next file is still taken for a member
LeavePak_NotYet == todo' = << >> /\ UNCHANGED <<hdr, paksize>>

LeavePak == hdr' = 0 /\ todo' = << >> /\ paksize' = 0

\* a seeded fault: the loop stops before the header
BeforePak_Inclusive == SubSeq(dir, 1, hdr)

BeforePak == SubSeq(dir, 1, hdr - 1)

\* an abort inside a pak removes the header and every member made so far
AbortPak ==
  /\ InputDone /\ abort # 0 /\ hdr # 0
  /\ fpos' = dir[hdr].ptr
  /\ dir' = BeforePak
  /\ LeavePak
  /\ abort' = AfterFile(abort)
  /\ pc' = "ready"
  /\ ForgetEntry
  /\ UNCHANGED <<disk, total>>

\* the header, when it learns its sizes after the last member
Spanning(h) == [h EXCEPT !.size = total - h.ptr, !.real = paksize]

FinishPak ==
  /\ pc = "member" /\ todo = << >>
  /\ dir' = [dir EXCEPT ![hdr] = Spanning(@)]
  /\ LeavePak
  /\ abort' = AfterFile(abort)
  /\ pc' = "ready"
  /\ UNCHANGED <<disk, fpos, total, cur, fed, out>>

-----------------------------------------------------------------------------
(* The end of the session.  With no entry at all dzWriteDirectory reads    *)
(* directory[-1]; whatever that puts into the file, `dzip` removes it.     *)

WriteHeader ==
  /\ pc = "ready" /\ dir # << >> /\ Fits(DirectoryOffset(dir), Len(dir)) /\ Begun(disk)
  /\ disk' = PutHeader(disk, DirectoryOffset(dir), Len(dir))
  /\ fpos' = DirectoryOffset(dir)
  /\ pc' = "entries"
  /\ UNCHANGED <<dir, total, cur, fed, out, abort, hdr, todo, paksize>>

\* one of the two words does not get there; dzWriteDirectory goes on all the same
HeaderFails ==
  /\ "directory" \in Faults
  /\ pc = "ready" /\ dir # << >> /\ Fits(DirectoryOffset(dir), Len(dir))
  /\ disk' \in PartialHeaders(disk, DirectoryOffset(dir), Len(dir))
  /\ fpos' = DirectoryOffset(dir)
  /\ pc' = "entries"
  /\ UNCHANGED <<dir, total, cur, fed, out, abort, hdr, todo, paksize>>

WriteEntries ==
  /\ pc = "entries"
  /\ disk' = PutDirectory(disk, fpos, dir)
  /\ pc' = "closed"
  /\ ForgetSession
  /\ UNCHANGED <<dir, cur, fed, out, hdr, todo, paksize>>

EntriesFail ==
  /\ "directory" \in Faults
  /\ pc = "entries"
  /\ \E k \in 0 .. Len(dir) - 1 : disk' = PartialDirectory(disk, fpos, dir, k)
  /\ pc' = "closed"
  /\ ForgetSession
  /\ UNCHANGED <<dir, cur, fed, out, hdr, todo, paksize>>

RemoveEmpty ==
  /\ pc = "ready" /\ dir = << >>
  /\ disk' = [x \in Positions |-> Free]
  /\ pc' = "closed"
  /\ ForgetSession
  /\ UNCHANGED <<dir, cur, fed, out, hdr, todo, paksize>>

AddStep ==
  \/ Create \/ CreateFails \/ OpenForAdd
  \/ \E b \in Blob : StartFile(b)
  \/ \E n \in DirName : AddFolder(n)
  \/ \E p \in PakName : StartPak(p) \/ PakUnreadable(p)
  \/ StartMember
  \/ CompressBlock \/ ReadFails \/ WriteFails \/ UserAbort
  \/ FinishCompressed \/ FinishShortTail \/ FinishStored \/ FinishShortStore
  \/ AbortEntry \/ AbortPak \/ FinishPak
  \/ WriteHeader \/ WriteEntries \/ RemoveEmpty

AddNext ==
  \/ AddStep /\ UNCHANGED damaged
  \/ (HeaderFails \/ EntriesFail) /\ damaged' = TRUE

AddSpec == AddInit /\ [][AddNext]_sessionVars

-----------------------------------------------------------------------------
(* Properties.                                                             *)

SessionTypes ==
  /\ DOMAIN disk = Positions /\ \A x \in Positions : CellOK(disk[x])
  /\ dir \in Seq(Entry) /\ cur \in Entry
  /\ fpos \in Nat /\ total \in Nat /\ fed \in Nat /\ out \in Nat /\ paksize \in Nat
  /\ abort \in {0, 1, 3}
  /\ hdr \in 0 .. Len(dir) /\ todo \in Seq(Blob)
  /\ pc \in {"closed", "ready", "member", "compress", "entries"} \/ Deleting

\* A file whose header or directory could not be written is opened again like any other,
\* and nothing holds of what is then read from it: all properties end with `damaged`
AddTypeOK == damaged \in BOOLEAN /\ (~damaged => SessionTypes)

\* the entries whose making is over: all but those of a pak still being filled
Done == IF hdr = 0 THEN dir ELSE SubSeq(dir, 1, hdr - 1)

\* Every entry in the directory can be extracted: its stream lies whole and unmixed
\* at its ptr, in the form its type says.  This holds in the middle of a session too,
\* after failed files and aborts, because startdirentry's ptr is where the writes go
EntriesReadable == ~damaged /\ ~Deleting => AllReadable(disk, dir)

\* Between files of a session nobody has aborted, the next stream will be written where
\* the next entry says it is, behind all others (dzCompressFile's unstated contract)
PositionsAgree ==
  ~damaged /\ pc = "ready" /\ abort = 0 => fpos = total /\ DataEnd(dir) <= total

\* Entries never overlap, and a finished pak header counts, numbers and spans exactly
\* its members, also when a later pak is aborted halfway
LayoutOK == ~damaged /\ ~Deleting => Ordered(Done) /\ PakShape(Done)

\* Unless a write of dzWriteDirectory itself fails, which nothing in the code looks at, what
\* dzClose leaves in the file is what the session had in memory: the next dzReadDirectory
\* accepts the file and returns the same entries, whatever else has failed
FileMatchesDirectory ==
  ~damaged /\ pc = "closed" /\ Created => DirectoryReadable(disk) /\ ReadDirectory(disk) = dir

Extent(e) == e.ptr .. e.ptr + e.size - 1

\* `-a` appends: no cell of a stream of an existing entry is ever written again, so the
\* old streams survive a session however it ends, also while its directory is written
StreamsKept ==
  [][~damaged /\ ~Deleting /\ Created' =>
       \A x \in (UNION {Extent(Done[k]) : k \in DOMAIN Done}) \cap Positions :
         disk'[x] = disk[x]]_addVars
=============================================================================
