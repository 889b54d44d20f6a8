------------------------------ MODULE DemStream ------------------------------
(***************************************************************************)
(* One file on its way through the codec: dem_compress or normal_compress  *)
(* turns it into a stream of blocks, dzExtractFile turns the stream back.  *)
(*                                                                         *)
(* The decoder sees the stream through a window (inblk) that it refills    *)
(* behind what the last round left over.  Nothing in the stream says where *)
(* a coded block ends before it is decoded, so encoder and decoder have to *)
(* agree on how long a block may be and on how far into the window one may *)
(* begin.  What is in a block is not modelled here, deflate and inflate    *)
(* are a pipe.  Bytes of the input are identified by their positions.      *)
(***************************************************************************)
EXTENDS Integers, Sequences

CONSTANTS
  Window,   \* p_blocksize
  Half,     \* p_blocksize / 2, the longest coded block
  Enough,   \* 16000: no block is begun at or after this place in the window
  RawHead,  \* 5, the bytes before the data of a raw block
  MaxCd,    \* 12, the longest cd string with its newline
  Inputs,   \* the files, see FileType
  Faults    \* what may go wrong in decoding, a subset of {"read", "abort"}

(***************************************************************************)
(* A file: the length of its cd string, 0 if it has none and is no demo,   *)
(* and its blocks.  A block takes `in` bytes of the file and `coded` bytes *)
(* of the stream, unless it is damaged, cut short or too long to be read.  *)
(* A file too short for a demo counts as one without a cd string.          *)
(***************************************************************************)
BlockType == [in: Nat \ {0}, coded: Nat \ {0}, good: BOOLEAN]
FileType == [cd: 0 .. MaxCd, blocks: Seq(BlockType)]

ASSUME DemAssumption ==
  /\ {Window, Half, Enough, RawHead, MaxCd} \subseteq Nat \ {0}
  /\ Enough - 1 + Half <= Window
  /\ Enough - 1 + RawHead <= Window
  /\ RawHead < Window
  /\ MaxCd < Enough
  /\ Inputs \subseteq FileType
  /\ Faults \subseteq {"read", "abort"}

VARIABLES
  input,    \* the file
  pc,
  pos, blk, \* encoder: bytes of the file dealt with, and the next block
  stream,   \* what it has put out
  crc,      \* the bytes its checksum covers
  demo,     \* the entry's type: TYPE_DEM, or TYPE_NORMAL when it is no demo after all
  win,      \* decoder: inblk
  inpos,    \* how much of the stream inflate has delivered
  inlen, readptr, totalsize, blocksize, inptr,
  first,    \* dem_decode_type < 0: the cd string is still to come
  out,      \* the file written
  abort,    \* AbortOp
  verdict   \* what -v prints in the end

encVars == <<pos, blk, stream, crc, demo>>
decVars == <<win, inpos, inlen, readptr, totalsize, blocksize, inptr, first, out, verdict>>
vars == <<input, pc, abort, encVars, decVars>>

Bytes(p, n) == [k \in 1 .. n |-> p + k]

Size(f) == LET upto[n \in 0 .. Len(f.blocks)] ==
                 IF n = 0 THEN f.cd ELSE upto[n - 1] + f.blocks[n].in
           IN upto[Len(f.blocks)]
Stop == Size(input)

(***************************************************************************)
(* The cells of the stream.                                                *)
(***************************************************************************)
Junk == <<"junk", 0>>
ByteCells(p, n) == [k \in 1 .. n |-> <<"byte", p + k>>]
CdCells(n) == [k \in 1 .. n |-> <<IF k = n THEN "newline" ELSE "byte", k>>]
BlockCells(p, b) == [k \in 1 .. b.coded |-> <<"block", k, b.coded, p, b.in>>]
RawCells(p, n) == [k \in 1 .. RawHead |-> <<"raw", k, n>>] \o ByteCells(p, n)

Init ==
  /\ input \in Inputs
  /\ pc = "cd"
  /\ pos = 0 /\ blk = 1 /\ stream = << >> /\ crc = << >> /\ demo = TRUE
  /\ win = [x \in 1 .. Window |-> Junk]
  /\ inpos = 0 /\ inlen = 0 /\ readptr = 0 /\ totalsize = 0 /\ blocksize = 0 /\ inptr = 0
  /\ first = TRUE /\ out = << >> /\ abort = 0 /\ verdict = "none"

-----------------------------------------------------------------------------
(* dem_compress and normal_compress.                                       *)

ReadCd ==
  /\ pc = "cd" /\ input.cd # 0
  /\ stream' = CdCells(input.cd)
  /\ crc' = Bytes(0, input.cd)
  /\ pos' = input.cd
  /\ pc' = "blocks"
  /\ UNCHANGED <<input, abort, blk, demo, decVars>>

\* no cd string: back to the start, the checksum begins anew
NoDemo ==
  /\ pc = "cd" /\ input.cd = 0
  /\ demo' = FALSE
  /\ pc' = "plain"
  /\ UNCHANGED <<input, abort, pos, blk, stream, crc, decVars>>

\* a seeded fault: the last piece is read as if it were a full one
Piece_Full(limit) == limit

\* as much of the rest of the file as goes into one piece
Piece(limit) == IF Stop - pos > limit THEN limit ELSE Stop - pos

Emit(cells, n) ==
  /\ stream' = stream \o cells
  /\ crc' = crc \o Bytes(pos, n)
  /\ pos' = pos + n

PlainBlock ==
  /\ pc = "plain" /\ pos < Stop
  /\ Emit(ByteCells(pos, Piece(Window)), Piece(Window))
  /\ UNCHANGED <<input, pc, abort, blk, demo, decVars>>

Codable(b) == b.good /\ b.coded <= Half

CodeBlock ==
  /\ pc = "blocks" /\ blk <= Len(input.blocks) /\ Codable(input.blocks[blk])
  /\ Emit(BlockCells(pos, input.blocks[blk]), input.blocks[blk].in)
  /\ blk' = blk + 1
  /\ UNCHANGED <<input, pc, abort, demo, decVars>>

\* a seeded fault: the bytes of the block that failed stay in the checksum
CrcCheat_Late == crc \o Bytes(pos, input.blocks[blk].in)

\* the checksum as it was before the block that failed
CrcCheat == crc

\* bailout: everything from this block on goes out raw
Bail ==
  /\ pc = "blocks" /\ blk <= Len(input.blocks) /\ ~Codable(input.blocks[blk])
  /\ crc' = CrcCheat
  /\ pc' = "raw"
  /\ UNCHANGED <<input, abort, pos, blk, stream, demo, decVars>>

RawRoom == Window - RawHead

RawBlock ==
  /\ pc = "raw" /\ pos < Stop
  /\ Emit(RawCells(pos, Piece(RawRoom)), Piece(RawRoom))
  /\ UNCHANGED <<input, pc, abort, blk, demo, decVars>>

Encoded ==
  /\ pc \in {"plain", "blocks", "raw"} /\ pos = Stop
  /\ pc' = "fill"
  /\ UNCHANGED <<input, abort, encVars, decVars>>

-----------------------------------------------------------------------------
(* dzExtractFile.                                                          *)

eofptr == Len(stream)    \* de->inter

\* the window with cells behind what is left in it, as far as they reach
InWindow(cells) ==
  [x \in 1 .. Window |-> IF x - inlen \in DOMAIN cells THEN cells[x - inlen] ELSE win[x]]

\* dzRead: the window is filled up, or the stream ends first and old cells stay behind
Fill ==
  /\ pc = "fill" /\ readptr < eofptr /\ abort = 0
  /\ win' = InWindow(SubSeq(stream, inpos + 1, eofptr))
  /\ inpos' = IF inpos + Window - inlen > eofptr THEN eofptr ELSE inpos + Window - inlen
  /\ totalsize' = totalsize + (Window - inlen)
  /\ blocksize' = 0 /\ inptr' = 0
  /\ pc' = "decode"
  /\ UNCHANGED <<input, abort, encVars, inlen, readptr, first, out, verdict>>

\* the same when dzFile_Read fails: inflate gets what the buffer had before.  It may notice,
\* or not, or run out of input with the window not full and the stream not at its end: then
\* dzRead calls it again for ever, and there is no action that leaves "inflate"
FillFails ==
  /\ "read" \in Faults
  /\ pc = "fill" /\ readptr < eofptr /\ abort = 0
  /\ win' = InWindow([x \in 1 .. Window |-> Junk])
  /\ totalsize' = totalsize + (Window - inlen)
  /\ blocksize' = 0 /\ inptr' = 0
  /\ abort' = 1
  /\ pc' \in {"decode", "report", "inflate"}
  /\ UNCHANGED <<input, encVars, inpos, inlen, readptr, first, out, verdict>>

\* a write to the output fails, or the user aborts
Abort ==
  /\ "abort" \in Faults
  /\ pc \in {"fill", "decode", "return"} /\ abort = 0
  /\ abort' = 1
  /\ UNCHANGED <<input, pc, encVars, decVars>>

\* a file that is no demo: the whole window, or what there is of it
PlainWindow ==
  /\ pc = "decode" /\ ~demo
  /\ blocksize' = (IF totalsize >= eofptr THEN eofptr ELSE totalsize) - readptr
  /\ out' = out \o [k \in 1 .. blocksize' |-> win[k][Len(win[k])]]
  /\ pc' = "return"
  /\ UNCHANGED <<input, abort, encVars, win, inpos, inlen, readptr, totalsize, inptr, first,
                 verdict>>

\* the cd string up to its newline, which must come soon
Newlines == {k \in 1 .. MaxCd : win[k][1] = "newline"}

DecodeCd ==
  /\ pc = "decode" /\ demo /\ first
  /\ first' = FALSE
  /\ IF Newlines = {}
     THEN pc' = "report" /\ UNCHANGED <<out, blocksize, inptr>>
     ELSE LET n == CHOOSE k \in Newlines : \A j \in Newlines : k <= j IN
            /\ out' = out \o [k \in 1 .. n |-> win[k][2]]
            /\ blocksize' = n /\ inptr' = n
            /\ UNCHANGED pc
  /\ UNCHANGED <<input, abort, encVars, win, inpos, inlen, readptr, totalsize, verdict>>

\* a seeded fault: blocks are begun all over the window
More_ToTheEnd == blocksize < Window /\ blocksize < eofptr - readptr

\* dem_uncompress goes on within this window
More == blocksize < Enough /\ blocksize < eofptr - readptr

Decoding == pc = "decode" /\ demo /\ ~first
Here == win[inptr + 1]

\* the coded block at inptr is there from its first cell to its last; what the decoder makes
\* of anything else is not modelled
BlockHere ==
  /\ Here[1] = "block" /\ Here[2] = 1
  /\ inptr + Here[3] <= Window
  /\ \A k \in 1 .. Here[3] : win[inptr + k] = [Here EXCEPT ![2] = k]

DecodeBlock ==
  /\ Decoding /\ More /\ abort = 0 /\ BlockHere
  /\ out' = out \o Bytes(Here[4], Here[5])
  /\ blocksize' = inptr + Here[3] /\ inptr' = inptr + Here[3]
  /\ UNCHANGED <<input, pc, abort, encVars, win, inpos, inlen, readptr, totalsize, first,
                 verdict>>

RawHere == Here[1] = "raw" /\ Here[2] = 1

\* a seeded fault: the head of the raw block is not counted
RawFits_NoHead == Window - blocksize >= Here[3]

RawFits == Window - blocksize - RawHead >= Here[3]

\* inptr only moves by one: the loop has to end after a raw block
DecodeRaw ==
  /\ Decoding /\ More /\ abort = 0 /\ RawHere /\ RawFits
  /\ out' = out \o [k \in 1 .. Here[3] |->
                      IF inptr + RawHead + k <= Window
                      THEN win[inptr + RawHead + k][Len(win[inptr + RawHead + k])] ELSE 0]
  /\ blocksize' = inptr + Here[3] + RawHead
  /\ inptr' = inptr + 1
  /\ UNCHANGED <<input, pc, abort, encVars, win, inpos, inlen, readptr, totalsize, first,
                 verdict>>

\* a raw block that is not all there waits for the next window
RawWaits ==
  /\ Decoding /\ More /\ abort = 0 /\ RawHere /\ ~RawFits
  /\ pc' = "return"
  /\ UNCHANGED <<input, abort, encVars, decVars>>

WindowDone ==
  /\ Decoding
  /\ IF More THEN abort # 0 /\ pc' = "report" ELSE pc' = "return"
  /\ UNCHANGED <<input, abort, encVars, decVars>>

\* a seeded fault: one cell too many is moved out of the window
Moved_TooFar == [x \in 1 .. Window |-> IF x + blocksize + 1 <= Window
                                       THEN win[x + blocksize + 1] ELSE win[x]]

\* memmove: what was not used comes to the front
Moved == [x \in 1 .. Window |-> IF x + blocksize <= Window THEN win[x + blocksize] ELSE win[x]]

\* back in dzExtractFile's loop; dem_uncompress returns 0 when it got nowhere
Return ==
  /\ pc = "return"
  /\ IF demo /\ blocksize = 0
     THEN pc' = "report" /\ UNCHANGED <<win, readptr, inlen>>
     ELSE /\ win' = Moved
          /\ readptr' = readptr + blocksize
          /\ inlen' = Window - blocksize
          /\ pc' = "fill"
  /\ UNCHANGED <<input, abort, encVars, inpos, totalsize, blocksize, inptr, first,
                 out, verdict>>

\* the loop is over: compare the checksums and say so
Report ==
  /\ pc = "report" \/ (pc = "fill" /\ (readptr >= eofptr \/ abort # 0))
  /\ verdict' = IF abort = 0 /\ out # crc THEN "crc error" ELSE "ok"
  /\ pc' = "done"
  /\ UNCHANGED <<input, abort, encVars, win, inpos, inlen, readptr, totalsize, blocksize,
                 inptr, first, out>>

Encode ==
  \/ ReadCd \/ NoDemo \/ PlainBlock \/ CodeBlock \/ Bail \/ RawBlock \/ Encoded

Decode ==
  \/ Fill \/ PlainWindow \/ DecodeCd \/ DecodeBlock \/ DecodeRaw \/ RawWaits
  \/ WindowDone \/ Return \/ Report

Next == Encode \/ Decode \/ FillFails \/ Abort

\* the program does not stop by itself
Spec == Init /\ [][Next]_vars /\ WF_vars(Encode \/ Decode)

-----------------------------------------------------------------------------
(* Properties.                                                             *)

\* The checksum stored with an entry covers every byte of the file once and in order, also
\* when dem_compress goes back over a block it could not code
ChecksumCoversFile ==
  pc \in {"fill", "decode", "inflate", "return", "report", "done"} => crc = Bytes(0, Stop)

\* Whatever the lengths of the blocks, the decoder meets each at its first byte and whole in
\* the window: 16000 and p_blocksize / 2 leave room, and raw blocks wait until they fit
BlocksMetWhole == Decoding /\ More /\ abort = 0 => BlockHere \/ RawHere

\* What has been extracted is the beginning of the file, at every moment
OutputIsPrefix == abort = 0 => out = Bytes(0, Len(out)) /\ Len(out) <= Stop

\* An intact stream is extracted to its end, and passes its checksum
IntactStreamsPass == pc = "done" /\ abort = 0 => out = Bytes(0, Stop) /\ verdict = "ok"

\* Compression and extraction come to an end, also when the user aborts, a write fails or
\* inflate is given rubbish, unless a failed read leaves dzRead calling inflate for ever
Finishes == <>(pc = "done" \/ pc = "inflate")

\* "ok" is the verdict on a file that came out whole (dzip.txt: "checking if it will
\* decompress correctly")
OkMeansWhole == verdict = "ok" => out = Bytes(0, Stop)
=============================================================================
