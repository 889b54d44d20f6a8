# Dzip in TLA+

Dzip compresses Quake demos, paks and any other file into `.dz` archives. It is a C
program with a command line (`conmain.c`) and a Windows GUI (`gui/`) over one codec
(`main.c`, `compress.c`, `uncompress.c`, `delete.c`, `encode.c`, `decode.c`). This
directory holds TLA+ models of it, the TLC runs that check them on small instances, and
theorems about them checked by the TLA+ proof system.

## Inventory

| part | state | operations | what makes it correct | status |
|---|---|---|---|---|
| container format (`main.c`, `dzip.h`) | the file: header, streams, directory; `directory[]`, `numfiles` | `dzReadDirectory`, `dzWriteDirectory`, `dzFile_*` | what is written is read back; entries apart and in order | `DzFormat` |
| add session (`compress.c`, `main.c`, `conmain.c`, `gui/add.c`) | file position, `totalsize`, the entry in progress, the pak in progress, `AbortOp` | create, `-a`, `startdirentry`, `normal_compress`, `finishdirentry`, `dzCompressFile`, `dzAddFolder` | position and `totalsize` agree; a failed input leaves nothing; paks whole or absent | `DzAdd` |
| deletion (`delete.c`) | list of indices, three running deltas, the stream being moved | `dzDeleteFiles_MakeList`, `dzDeleteFiles` | exactly the named entries go; streams move down without being hit | `DzDelete` |
| archive over sessions | the file between runs of the program | any sequence of the above | a list of contents that changes by whole inputs | `DzArchive`, `DzContents` |
| command line (`conmain.c`) | switches, `AbortOp` | `main`, `DoFiles`, `DoDirectory` | order of calls, errors do not stop the rest | partly, in `DzAdd` |
| extraction, verify (`uncompress.c`) | window, `totalsize`, `pakptr`, `pakdir` | `dzExtractFile`, `dzUncompress`, `dzViewFile` | what was stored comes out; errors are reported | one file, in `DemStream` |
| demo stream (`uncompress.c`, `decode.c`, `encode.c`) | 128 kB window, bytes moved to its front, blocks | `dzRead`, `dem_compress`, `dem_uncompress` | every block is decoded once and whole | `DemStream` |
| demo codec (`encode.c`, `decode.c`) | what each side remembers of earlier messages: `oldcd`, `oldent`, `newent`, `base`, `entlink`, `sble` | `dem_clientdata`, `dem_updateentity`, `diff_entities`, `dem_sound`, `dem_spawnbaseline`, their `demx_` counterparts | the decoder's memory mirrors the encoder's; every message comes back as it was | `DemFields`, `FieldCodec`, `EntityCodec` |
| GUI extraction (`gui/extract.c`, `oledd.cpp`, `thread.c`, `winmain.c`) | `ThreadType`, `AbortOp`, `Extract.buf` and `bufused`, `ExtractPhase`, `tempfiles` | `RunThread`, extract, view, test, drag and drop in three ways, abort, exit | one thread in the codec; files and streams whole; neither side waits for ever | `GuiExtract` |
| GUI add and delete threads (`gui/add.c`, `deleteg.c`) | the same, the list | `AddThread`, `DeleteThread` | the list stays right; aborts leave a good archive | `ListView`, `DzAdd` |
| GUI list view (`gui/listview.c`, `file.c`, `dzip_dz/`) | `lventries`, `lvorderarray`, `SortType`, the control's own selection and focus | open, add, sort, expand, collapse, select, rename, delete, make the list to extract | rows and entries are inverse, show the directory, and agree with the control | `ListView` |
| GUI shell, listing, checksum, v1, pak DLL, zlib | | | | not modelled, reasons in `PROJECT.json` |

Parts interact by direct calls and through global variables: `directory`, `numfiles`,
`totalsize`, the position of `dzfile`, and `AbortOp`, which every I/O wrapper and (in the
GUI) another thread may set. The hard behaviour is not in any one function but in this
shared state: a read or write may fail at any cell of any input while the program goes on
with the next one; the directory exists only in memory until the session ends; a later
session trusts what an earlier one left; deletion compacts the directory and the file it is
walking over. `PROJECT.json` lists these hazards, each at its line, with the properties
that cover it or the reason why none does yet.

## Modules

`DzFormat` is the file, the directory entry, and what it means for the two to be intact. The
file is a function from positions to cells; a cell stands for a block of a stream, one
directory record, or the 12-byte header. Cells of a stream say which blob they belong to, in
which form (deflated or raw) and at which offset, so that `EntryReadable` can say that an
entry finds exactly its own stream. The byte order, dates and checksums of a record are left
out; nothing in the container looks at them. A blob has a length and a deflated length, both
arbitrary, so that compression may shrink it, keep it as it is, or make it longer.

`DzAdd` is a session that writes. `fpos` is the position of `dzfile`, `total` is
`totalsize`, `cur` is `directory[numfiles]`, `abort` is `AbortOp`; `hdr`, `todo` and
`paksize` are the locals of `dzCompressFile` on a pak. One action is one step between two
points where something else can happen: a block handed to deflate (`CompressBlock`), the end
of an entry (`FinishCompressed`, `FinishStored`, with their failing forms), an aborted entry
or pak (`AbortEntry`, `AbortPak`). deflate puts out as much as it likes at each block and
keeps at least one cell for `Z_FINISH`. `dzWriteDirectory` is two steps, because the header
words are written before the records. `Faults` says what may go wrong:

| fault | where |
|---|---|
| `read` | `Infile_Read` fails before anything of the input was written |
| `late_read` | `Infile_Read` fails after something was |
| `write` | `dzFile_Write` fails in `dzWrite`: fewer cells written than counted |
| `abort` | the window thread sets `AbortOp` (the loop over inputs then ends, as in `AddThread`) |
| `short_store` | `Infile_Store` stops early, for a read error, a write error or an abort |
| `short_tail` | `dzFile_Write` fails in `end_zlib_compression` |
| `copy` | `dzFile_Read` or `dzFile_Write` fails while `dzDeleteFiles` moves a stream (`CopyFails`) |
| `directory` | `dzFile_Write` fails on the first header of an archive or anywhere in `dzWriteDirectory` (`CreateFails`, `HeaderFails`, `EntriesFail`, `DeleteHeaderFails`, `DeleteEntriesFail`) |

Nothing in the code looks at a write of `dzWriteDirectory`: the session ends, and a later one takes the
file for what its header says. `damaged` marks such a file from there on, and no property of the
archive speaks of it; everything up to that moment, in that session too, is covered. Failures of reads
while an archive is opened are not modelled.

`DzDelete` is `-d`. A request becomes a sorted list of indices and a walk over the directory:
`DropEntry`, `DropMember` and `KeepEntry` are the three ways through the loop's body,
`CopyChunk` (or `CopyFails`) one turn of the copying loop, `DeleteHeader` and `DeleteEntries` its end. `was`
and `asked` only remember, for the properties, what the directory was and what the request
meant. `Unusual` lets through two kinds of request that the code does not handle.

`DzArchive` puts the two on one file, over any number of runs of the program. `DzContents` is
the abstract specification: an archive is a list of items that grows by whole inputs and loses
exactly what it is asked to lose. `DzArchive` implements it with `contents` mapped to the names
in the directory; a pak being filled, and a directory being compacted, count for what they were
before.

`DemStream` is the other half of the codec: how one file becomes a stream of blocks and comes
back. `dem_compress` copies the cd string, codes block after block, and at the first one it
cannot code bails out and sends the rest raw; a file without a cd string goes out as it is.
`dzExtractFile` refills its window (`Fill`), `dem_uncompress` decodes blocks from it while they
begin before byte 16000 (`DecodeBlock`, `DecodeRaw`, `RawWaits`), and what is left moves to the
front (`Return`). Variables have the names of the code; a byte of the file is identified by its
position, so that the output can be compared with the file, and the checksum is the sequence of
bytes it covers, that is, it is taken to be perfect. deflate and inflate are a pipe without
errors; what a coded block contains is the matter of `FieldCodec` and `EntityCodec`. Read errors of the archive
and aborts are in (`FillFails`, `Abort`): after one inflate may find an error, go on with what it has, or
have nothing to do and be called for ever (pc "inflate"). Read errors while compressing are in `DzAdd`.

`DemFields` has the codings of single values: `bdiff` and `bplus`, two-byte values (`WordDiff`,
`WordPlus`: the macros `CDIFF_2BYTES` and `CPLUS_2BYTES`), frames, and origins, which are told by
how their movement changes. Each is an operator with its inverse beside it, with the widths of the
code's types.

`FieldCodec` follows one field of one kind through any number of messages, from the byte in a
message to the byte in the message that comes out. A message may leave a value out, or say it
although it is what it would have been anyway; the `force` bits remember that. `sent` and `got`
are the two messages, `enc` and `dec` what the two sides remember (a field of `oldcd` or
`oldent`). One action is a message with that field, coded and decoded. A message comes back but for
`Kept`: the code loses the second byte of a count when it is 0 and the first byte of a frame whose
baseline has the same beside a second one (findings on `encode.c:198` and `encode.c:558`).

`EntityCodec` is about all entities of a demo and one coordinate of each. Updates in order are held
back (`Update`, `frame` is `dem_updateframe`) until something else comes; then `Diffed`, which is
`diff_entities`, tells them in one message of records without numbers. A record belongs to the
entity that is active at its place in the decoder's own list. `UpdateCopied` are the updates out of
order, `Sound` and `Baseline` are told relative to what is known, `EndBlock` is the end of
a block, where new baselines take effect. What the encoder puts out goes through `stream` to the
`Decode` actions; `todo` is what has not come out yet and `same` whether what did was right.

`ListView` is what the Windows program knows of an open archive. `view` holds `lventries`, one
record for each entry listed, `lvorderarray`, which puts them in rows, the count and the focus;
`items` in it is what the list control itself believes, which knows only rows. `LVSort`,
`ExpandFile`, `CollapseFile` and `ExtractList` are functions of such a view, translated with the
order of their stores, for each of them has to keep up three numberings (entry, row, directory
position) and then tell the control what moved. The user's clicks arrive as the control's
notifications (`ItemsChanged`). `pc` is the worker: `AddFile` and `CountAdded` are one addition in
the two steps between which the window thread may sort, `DeleteThread` collapses, collects the
positions and hands them to `dzDeleteFiles` (`DeleteFiles`; what that does is `DzDelete`). `misparented`
is set by the collapse that the finding on `listview.c:294` is about (`MovesParents`).

`GuiExtract` is how the same program takes files out: three threads' worth of handshakes. A worker
runs `ExtractThread` or `TestThread` (`Job`) under the window thread's `RunThread`, which may put a
question to the user and set `AbortOp` (`Ask`, `Answer`). A drag and drop runs on its own thread:
`phase` is `ExtractPhase`, and `TargetCalls` are the drop target's, in the order OLE allows.
Windows 95 takes files by `CopyTo`, later ones by `Read`, for which a producer thread decodes the
file and passes `Extract.buf` back and forth (`FillAndFlush`, `Await`, `Read`, `ReadArms`,
`ReadReturns`). `thr` says for each thread where it stands in the codec and in `Outfile_Write`; the
cells it puts out are numbered. The events the code waits for are the two values of `buf`: whoever
waits for the other sees only whether `buf` is set. An aborted drag may leave a producer waiting
(`LeftWaiting`), of which the next `Setup` takes no notice: it sets the buffer that the producer
waits for, and the model goes on with both. `disturbed` marks the operations begun like that.

Operators marked "a seeded fault" stand beside the definition they vary. They are not part of
the models; the runs must fail when one takes the place of its original, which shows that each
property can tell.

## Runs

The archive runs use `DzArchiveMC`. The blobs: `small` shrinks, `noise` grows and is therefore
stored, `empty` has no blocks; `pk` has two members and `pk1` one; `fld` is a folder.

| run | configuration | bounds | what it shows |
|---|---|---|---|
| `sessions` | `archive_sessions.cfg` | 22 cells, 4 entries, requests of 2 names; faults read, write, abort, directory | every entry stays readable in and between sessions (`EntriesReadable`), position and `totalsize` agree (`PositionsAgree`), the layout and the written directory are right, old streams are not overwritten (`StreamsKept`), and the archive implements `DzContents` |
| `faults` | `archive_faults.cfg` | 6 cells, 2 entries; every fault but abort, at every point | streams may be lost, but entries stay apart, paks stay whole and summed up, the directory is written as it is in memory unless its own writes fail, and contents still change by whole inputs |
| `delete` | `archive_delete.cfg` | 22 cells, 5 entries, requests of 2 names, chunks of 2 cells | exactly what was asked for goes (`DeletesWhatWasAsked`), moved streams hit nothing (`GapSafe`), none is lost at any turn of the walk (`WalkReadable`), pak headers keep their sums |
| `late_read` | `archive_late_read.cfg` | 2 entries | finding: after a read error halfway through a file the next entry cannot be extracted |
| `adjacent_pak` | `archive_adjacent.cfg` | 4 entries | finding: deleting a member damages the pak that follows |
| `demo_stream` | `demo_stream.cfg` | window of 8, blocks up to 4, begun before 3, raw heads of 2; files of 5 blocks; read errors, aborts | every file comes back whole and passes its checksum, blocks are met whole, both loops end but for an inflate that a failed read leaves without anything to do |
| `verify_ok` | `verify_ok.cfg` | the same, files of 1 block | finding: -v says ok after a read error |
| `fields` | `fields.cfg` | 9 first bytes, 4 second bytes up to 127, 11 coordinates, 7 shorts; health drifts up to 200000 | every field of every kind comes back, but for the two bytes of `Kept`, and is remembered alike on both sides |
| `negative` | `negative.cfg` | second byte 255 | finding: negative two-byte fields do not come back |
| `entities` | `entities.cfg` | 2 entities, one on each side of `MAX_ENT_OLD`; 2 coordinates; baselines first | tables agree, records meet their entities, the demo comes out as it went in and nothing is missing |
| `list_view` | `list_view.cfg` | archives of three and four records, five entries, a pak among what is added; sorts by path, size, name and none, in both directions | rows and entries stay inverse and sorted, the list shows the directory, the control's rows agree with the entries, what is deleted is what is shown as selected, an extraction meets each file once; all until a collapse misparents |
| `gui_extract` | `gui_extract.cfg` | files of 5 and 1 cells, buffers of 2, pieces up to 5, two operations, two producers | until an operation is disturbed: never two threads in the codec, files and streams whole or absent; no `Read` waits for ever unless `AbortOp` is set |

The bounds of the archive runs are `Cap` (cells of the file), `MaxEntries`, `MaxRequest` and `Chunk`. Four and five
entries are the least that let a pak with two members stand between other entries and lose a
member from either end; two names per request are the least that need sorting and that delete
on both sides of a kept entry. 22 cells hold every directory of four entries and, of five, all
but the longest. A stream of three cells and chunks of two exercise overlapping moves, a
last chunk shorter than the others, and deflate output split in every way. With every fault the file keeps
leftovers of abandoned streams, which multiply the states: that run is smaller, and the theorems below cover
what it leaves out. Once `damaged` the properties say nothing, and `CONSTRAINT Undamaged` keeps TLC from
going on from there.

Deadlock is not checked: a session may end for good in every state "closed", and the bounds and
two kinds of undefined behaviour (a directory without entries, a pak header outside the
directory) stop the model where the program goes on. There is no fairness in `ArchiveSpec` and no liveness property: whether a session
goes on is the user's choice.

`DemStream` keeps the proportions of the real constants (131072, 65536, 16000, 5, 12) that
`DemAssumption` states: the last block that may be begun still fits the window, and so do a raw
head and a cd string. The four shapes of block, in every sequence up to five and after every cd string,
put a block's first and last byte at every place of the window, make raw tails of one to three
windows, and leave stale cells behind the end. `Finishes` assumes weak fairness of the program's
own steps (`Encode \/ Decode`), which is only that it keeps running; faults are not fair. It excepts pc
"inflate", the loop of `dzRead` that a failed read may leave without input and without an end (finding on
`main.c:82`). The model stops there and at "done", hence no deadlock check.

The values of `fields` are those on both sides of every comparison in the code (127, 128, 255, 256,
the ends of a short, the default view height 22). `Drift` bounds the decoder's `health`, which is an `int`
and gains a multiple of 65536 whenever the encoder's difference wraps. `entities`
needs two entities for order and for records that could be swapped; two coordinates 100 apart make
differences of one and, when the movement turns, of two bytes; `Leftovers` is what `newent` may hold
from an earlier demo, and `Signon` says that baselines come before all else, as Quake servers
send them (without it the run fails, see the finding on `decode.c:763`). Messages that
are not decoded yet are at most those of one step of the encoder. The depth is not bounded: all values
come from the messages. Both runs could stop at any message, so deadlock is not checked.

In `list_view` the archives hold what the functions treat differently: a pak of two members after a
file (so that rows and entries part when it opens), two paks in a row, equal names for ties, a name
of a member that sorts outside its pak, and a folder. `MaxChanges` is the number
of renames, additions and deletions together; everything else the user may do at any time and
without bound, and deadlock is checked. What is added may be a pak with a member, and the third archive is
made so that it can be opened behind the open pak there is. Collapsing that one then leaves the
new members with a parent that is another entry (finding on `listview.c:294`); the properties speak of
what comes before (`misparented`), and `CONSTRAINT Oriented` keeps TLC from going on.

In `gui_extract` a file of five cells fills a buffer twice and leaves one cell, and one of one does
not fill it; pieces go from a cell to more than two buffers, which are the cases of
`Outfile_Write`. Two operations show what one leaves for the next, two producers that the next
file's may start while the last one ends. `ReadsReturn` assumes weak fairness of the program's own
threads (`Codec`, `ProducerEnds`, `Job`) and of the calls that are to return (`CallReturns`): that
Windows goes on scheduling them. Nothing is assumed of the user, of the target or of `RunThread`.
The property excepts operations whose `AbortOp` is set, by the user or by an error while the archive is
read: then the codec leaves without its last flush, one `Read` gets what was in the buffer, and the
next one waits for ever (finding on `extract.c:351`). It also excepts disturbed operations.
Deadlock is not checked since the program may exit, and a drag may stay in such an abort.

## Proofs

`DzAddProofs` proves, for all blobs, lengths, paks, file sizes and numbers of entries:

- `AddTypeCorrect` and `DirectoryWritten`, for every set of faults: positions and indices stay
  in range, and after every session the file's directory is the one that was in memory, placed
  behind the last stream and readable, unless a write of the directory itself has failed. This and
  all that follows is proved as `damaged \/ ...`.
- `CleanAddsAreReadable` and `CleanAddsKeepPositions`, assuming `Faults` within
  {read, write, abort}: every entry can be extracted at every moment, and the next stream
  is written where the next entry will say. The assumption is necessary: `late_read` breaks both,
  which is the run of that name; a short tail or store loses its own entry.

- `LayoutAlwaysOK`, again for every set of faults: entries never overlap, and pak headers count, number
  and span exactly their members. `AddsKeepStreams`, with clean faults: no cell of a stream that
  is in the directory is written over.

They are theorems of `AddSpec`, sessions that create and add. The argument: none of the
properties is inductive. `EntriesReadable` needs to know that the next write lands behind every
stream, hence `PlaceInv` (entries in order and before `total`) and `PosInv` (`fpos` is
`total`); and for the moment an entry is finished it needs the cells put out so far to be the
beginning of its stream (`StreamInv`). `PosInv` survives an abort because a clean read error
leaves `total` at the entry's or pak's `ptr`, which is where `finishdirentry` seeks
back to, and because after a write error or an abort nothing more is written in that session.
`FileInv` carries the written header through the step between its words and the records, and
reopening needs it to get `PlaceInv` back from the file. The proof takes each part of the
invariant through every action (`TypeStep`, `CurStep`, `PakStep`, `PlaceStep`, `FileStep`,
`PosStep`, `StreamStep`). `LayoutOK` takes one more part, `ShapeInv`: a pak being filled has its first
members in order, the next stream goes where the last ended, and what the header waits for is
what is still to do. They rest on `FormatAssumption` and `AddAssumption` only.

`DzArchiveProofs` goes on with deletion, for `ArchiveSpec`: any number of sessions of both kinds. Proved are
`DeleteTypeCorrect`, `ArchiveLayoutOK`, `ArchiveDirectoryWritten` and `GapAlwaysSafe` for every set of
faults, and `WalkAlwaysReadable`, `ArchiveReadable` and `ArchiveStreamsKept` with clean ones. Two
hypotheses are added. `Plain` admits no unusual request: with a member of a pak that another pak follows
the theorems are false, which is the run `adjacent_pak`, and a request that names an entry
twice, or a pak and its member, moves the list out of step with the walk. `PaksFit` says that a pak
has fewer than 65536 members, since `pak` is an `unsigned short`. The invariant says of every turn
of the walk that it has passed `Passed` entries of the old directory, of which the first `Stay`
of the new one are left:

- what stays is an archive in itself: entries apart (`GapInv`) and paks whole (`PakWalkInv`), except the
  pak around the walk, whose header already counts and spans what will be left of it (`AroundInv`);
- what is to come is as it was, and fits behind what stays when moved down by `fposdelta`
  (`GapInv`): this is what keeps a stream that moves from hitting another;
- the list is ascending, and its first `listnum` names are those the walk is past (`WalkInv`,
  `ListInv`), so that the paks it drops are dropped with all their members;
- of a stream on its way the part below `curpos` is where the new directory says and the
  rest where the old one does (`CopyInv`, `StreamWalkInv`); chunks of a stream that moves by less
  than its length overlap, and copying upwards is right just because `fposdelta` is not negative.

Each of the three ways through the loop's body (`DropEntry`, `DropMember`, `KeepEntry`) and the copying
loop take this from one turn to the next. `DeleteHeader` needs it at the end of the directory, where it becomes
`Sound`, which is what a session may assume of a file it opens; `AddInv` and `ShapeInv` follow from it
(`ArchiveInv`).

`DzContentsProofs` proves what an archive contains. `ArchiveRefinesContents` is the refinement:
`ArchiveSpec` implements `DzContents`, for every set of faults, under the same two hypotheses. For a session
that adds, every step either leaves `Done` alone, or puts one record at its end, or makes a
filled pak visible (`SessionStep`), and `FillInv` knows which members such a pak has. For a
deletion, `Rank` is the place an item has when some are gone; `NamesInv` says that the walk has
put the names it keeps there, and a member's pak where its number will look for it, so that at the
end the listing is `Kept(Listing(was), asked)`. A request is closed under membership (`ClosedAsked`),
which is what `Contents!Remove` demands. `ArchiveDeletesWhatWasAsked` adds that the file is
removed only when every entry is named: `Counted`, a sum over the list as it was typed, reaches the
number of entries only if the listed entries and what goes with them cover the directory, since
they do not overlap (`SegmentsCover`).

`ArchivePakReal`, in the same module, proves `PakRealOK` under the same hypotheses. While a pak is
added, `paksize` is 12 bytes, 64 for each member announced and the sizes of the members so far (`RealInv`),
which becomes the header's size only when the members announced are all there (`ShapeInv`). Along the
walk of a deletion the header around it is right about what there is in the new directory together
with what is still to come in the old one (`RealWalk`, `PartReal`): a member that stays moves its size
from the second sum to the first (`KeepMemberReal`), one that goes takes size and record away
(`DropMemberReal`), and with the last member nothing is to come any more (`BehindMember`). It needs
`AroundInv`, that the header the code corrects is that of the same pak, and that `Sum` grows and shrinks
by an entry at either end (`SumOneMore`, `SumFirst`).

`DemStreamProofs` proves the safety of `DemStream` for all files, windows and blocks within
`DemAssumption`: `ChecksumIsOfTheFile`, `DecoderMeetsBlocks`, `ExtractsAPrefix` and
`IntactStreamsAreExtracted`. The encoder's half (`EncInv`) is a chain: at every mark of the stream
begins the cd string, a block or the raw tail, and the next mark is where it ends. The decoder's half (`DecInv`) says that the window
shows the stream from `readptr` on, that the next byte to decode is on a mark, and that what is
out is the file up to there. A block begun before byte 16000 then lies in the window as a whole, because of the
proportions that `DemAssumption` states and a refill, or the move to the front, that leaves less than
a window behind it.

`Induction` is what the others need where a model computes recursively. The library's induction
theorems cannot be used here, since they take a predicate as a parameter; `LeastElement` and
`SetInduction` state the same for sets, and from them follow that recursive functions over `0 .. n`
satisfy their equations (`RecursionHasSolution`), sums (`SumFacts`), and folds of the community
modules (`FoldExists`, `FoldSteps`).

`FieldCodecProofs` begins with each coding being undone by its inverse: `OriginsBack` for every
coordinate and movement, `WordsBack` and `FramesBack` for values that are not negative, `HealthBack` for
a health that is right only in its low bytes. It lifts this to any number of
messages: `MessagesAlwaysComeBack`, `MemoriesAlwaysAgree` and `FieldsTyped`, for all sets of
bytes, shorts and coordinates, assuming `NotNegative`, that no second byte exceeds 127. Run
`negative` shows why it is assumed. What the code loses of other messages is `Kept`'s, and the theorem
says that it is just that. `MessagesComeBack` is not inductive alone: a difference is
only right if both sides remember the same (`MemoriesAgree`), and the one-byte form only if what
they remember is within the range its field can have (`Ranged`). There is one lemma for each action
(`ByteKeeps`, `WordKeeps`, ...), each of which shows that the decoded value is the coded one and
that the message built from it, with the force bits, is the one that was sent (`CodedKeeps`), or what
`Kept` leaves of it (`CodedKept`).

`EntityCodecProofs` proves all that run `entities` checks, for any number of entities, all
coordinates and demos of any length: `TablesAlwaysAgree`, `RecordsMeetTheActives`,
`DemoAlwaysComesBack`, `NothingStaysMissing` and `EntitiesTyped`. It assumes `CleanStart`: no entity
is spoken of before the block with the baselines is over (`Signon`, what Quake's servers do and what
run `entities` has as well), or the decoder's `newent` is empty to begin with. That it must be
assumed is the finding on `dem_uncompress_init`, which clears `base` and `oldent` but not `newent`. No
property is inductive alone. `EntityInv` describes what is under way: with the stream
empty the tables agree, but for a run that is held back (`Held`: the decoder knows whom the run will
add, and what is still missing is what `newent` says of those present); with a run's message in
the stream, `Tells` says that the decoder, once it has read it, will have the encoder's links and
entities and have given the updates back, in terms of the decoder's own tables only; `Waits` says the
same of the message behind it. `HeldTells` is the encoder's half, that what `diff_entities` puts out is
such a message, and `DiffDecoded` the decoder's, that `demx_updateentity` then does what it
says. Underneath are the order of entities (`PlacesTaken`, `OrderFacts`: the k-th record is found by
the entity with k active ones up to it), the coordinate (`MovementBack`: an entity that
rests has moved by what it did last, and any other coordinate comes back) and the number of a baseline
(`NumberBack`, modulo `MaxOld`).

`GuiExtractProofs` proves the safety of `GuiExtract` for all lists of files, sizes of buffer and
piece, any number of producers and of operations: `OneThreadInCodec`, `StreamsArriveWhole` and
`FilesAreWhole`, from `ExtractAssumption` only (a file has a cell at least, the list has one,
and `Main` is none of the producers), each until an operation is `disturbed`: `ExtractInv` also says that only
an abort leaves a producer behind, so that nothing else disturbs one. None of the three is inductive. `ExtractInv` adds which
operation goes with which thread (`RoleInv`); that a producer that is not at rest is one
that `Read` waits for, or one an abort has left behind, waiting for a buffer (`ProducerInv`); what Main
has decoded is what it has written and what the buffer holds (`MainInv`), and the buffer is
empty from one file to the next (`EmptyInv`). Its core is `Baton`: wherever a producer stands, the cells it
has decoded are those the target has, followed by those in the buffer if the target waits
(`Sent`); it owns the buffer only while `Extract.buf` is set; and without an abort the
buffer that a waiting `Read` gets is empty only after the file's last cell has been sent,
which is why a `Read` that returns nothing is the end of a whole file. There is one lemma for each part
of the invariant (`RoleStep`, `ProducerStep`, `BatonStep`, `TargetStep`, `DiskStep`, ...), with a
step for each action; `PrefixAppend` and `PrefixHead` are the facts about sequences they rest on.

Only model-checked: everything about `ListView`. Its five invariants lean on one another (a collapse
finds the members of a pak where the sort has put them, the sort compares by the parents that an
expansion has set) and its operations are nested recursions over whole views, so that none of the five could
be proved without all. Of a damaged archive nothing is checked or proved. `Finishes` and `ReadsReturn` are liveness properties, which the provers
cannot do.

## Not modelled

`PROJECT.json` lists every part with its status. Left out for good: names, dates and switches as
text, the user interface, listing and the checksum's arithmetic, the legacy version 1 decoder,
zlib itself. Of the demo messages, those that are only copied appear as one (`ServerInfo`); times and camera
positions are plain differences; the bits of the masks, the Nehahra fields, entity 0 and the
flags of sounds are left out, and so are messages the encoder bails out on, except `Bail`. The archive models stop where the code's behaviour is undefined (`directory[-1]`);
requests that name an entry twice are kept out of the runs by `Unusual`. The abort flag is
tested twice at the end of a pak member and the model takes the two tests as one step; what an
abort between them does is recorded as a hazard.

`ListView` leaves out sort commands given during a deletion (see the finding on `deleteg.c:38`), a
sort by the window thread while the worker's own sort runs, the sorts by other columns, which compare as the
size does, and the moment between the store of an entry's row and that of the count. An archive is
opened from what the last operation left, so that `FileRecentFile(0)` reads the directory as it is.

`GuiExtract` assumes of the target what its header says: it uses `CopyTo` or `Read`, asks for a
file once, and reads to the end. The archive is intact, but reading it may fail (`ArchiveFails`); files are not
empty; the temp directory takes them. Adding and deleting are not among its operations: what they do is in
`DzAdd`, `DzDelete` and `ListView`, and what an exit asked for while adding comes to is in the findings. The overwrite and rename
dialogs count for their outcome (`SkipFile`). `hThread`, by which a thread is suspended while
the system's settings change, is left out.

## Plan

1. `Extract`: `dzExtractFile` over paks and stored files, the static `pakptr`, the loop over
   the archive with `AbortOp` and the removal of unfinished files.
2. An abort between the two tests in `dzCompressFile` as a fault of `DzAdd`; `dzRenameFile`, and
   kills during create, as actions of `DzArchive`.
3. `RecentFiles`: the list in `gui/recent.c`, and opening, closing and removing archives around it.
4. Theorems: one invariant of `ListView` from which its five follow, beginning with `LVSort` keeping
   `lvorderarray` and `lvpos` inverse.
