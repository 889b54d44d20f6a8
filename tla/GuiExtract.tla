----------------------------- MODULE GuiExtract -----------------------------
(***************************************************************************)
(* How the Windows program takes files out of an archive.  A worker thread *)
(* extracts, views or tests under the window thread's RunThread; a drag    *)
(* and drop runs on a thread of its own, where the drop target's calls     *)
(* either extract to the temp directory (CF_HDROP), have a file written    *)
(* into a stream of the target's (CopyTo), or take it piece by piece from  *)
(* a producer thread, with which Read exchanges one pointer, Extract.buf,  *)
(* as a baton.  The user may abort, or ask to exit, at any moment.         *)
(*                                                                         *)
(* A file is a number of cells, numbered so that order and loss show; what *)
(* the codec decodes is right (DemStream, FieldCodec and EntityCodec have  *)
(* that), there are files in Extract.list and none is empty, and the temp  *)
(* directory holds none of them and takes them.  A target uses CopyTo or   *)
(* Read, not both, asks for a file's contents once, reads it until Read    *)
(* gives it nothing, and as much at a time as the program's buffer holds.  *)
(***************************************************************************)
EXTENDS Integers, Sequences, FiniteSets

CONSTANTS
  Sizes,     \* the files of Extract.list, by their cells
  BufSize,   \* cells of a buffer, 8192 bytes in the code
  MaxPiece,  \* bound: cells the codec hands to Outfile_Write at a time
  Main,      \* what runs the codec for a worker, for CF_HDROP and for CopyTo
  Producers, \* names for ExtractToWin2kThreadFunc's threads
  MaxJobs    \* bound: operations of one behaviour

ASSUME ExtractAssumption ==
  /\ Sizes \in Seq(Nat \ {0}) /\ Sizes # << >>
  /\ Main \notin Producers
  /\ BufSize \in Nat \ {0} /\ MaxPiece \in Nat \ {0} /\ MaxJobs \in Nat

Files == 1 .. Len(Sizes)
Content(f) == [k \in 1 .. Sizes[f] |-> <<f, k>>]
NoFile == << <<0, 0>> >>

WorkerTypes == {"extract", "view", "test"}

Threads == Producers \cup {Main}

VARIABLES
  ThreadType, AbortOp, \* the globals of the same names
  window,    \* "up", "esc" or "exit" (a dialog asks), "closing" (WM_CLOSE is posted), "gone"
  jobs,      \* bound: operations begun
  buf,       \* Extract.buf: "none" for NULL, the program's "own", or the "target"'s
  data,      \* what the buffer holds, bufused cells
  thr,       \* per thread: where it is in the codec and in Outfile_Write
  job, item, \* ExtractThread or TestThread: its place, and the file it is at
  dest,      \* files written by it, in the directory chosen or in the temp directory
  temps,     \* tempfiles added by it
  phase,     \* ExtractPhase; -1 when nothing is dragged
  target,    \* what the drop target does
  next,      \* NextFileToExplorer
  asked,     \* files whose contents have been asked for
  got,       \* cells of file next that the target has
  dropped,   \* the files CF_HDROP named
  disturbed  \* for the properties: an operation was begun although the producer of an
             \* aborted drag still waited for a buffer

abortVars == <<ThreadType, AbortOp>>
jobVars == <<job, item, dest, temps>>
dragVars == <<phase, target, next, asked, got, dropped>>
codeVars == <<abortVars, window, jobs, buf, data, thr, jobVars, dragVars>>
vars == <<codeVars, disturbed>>

Resting == [pc |-> "off", file |-> 1, at |-> 0, left |-> 0, temp |-> FALSE]

Init ==
  /\ ThreadType = "none" /\ AbortOp = 0 /\ window = "up" /\ jobs = 0
  /\ buf = "none" /\ data = << >>
  /\ thr = [t \in Threads |-> Resting]
  /\ job = "none" /\ item = 1 /\ dest = [f \in Files |-> NoFile] /\ temps = << >>
  /\ phase = -1 /\ target = "none" /\ next = 1 /\ asked = {} /\ got = << >> /\ dropped = << >>
  /\ disturbed = FALSE

-----------------------------------------------------------------------------
(* Outfile_Write and Outfile_Flush, on whichever thread has the codec.     *)

ToTarget == ThreadType = "towin2k"   \* THREAD_DRAGTOWIN2KEXPLORER

At(t, pc) == thr[t].pc = pc

Goto(t, pc) == thr' = [thr EXCEPT ![t].pc = pc]

Cells(t, n) == [k \in 1 .. n |-> <<thr[t].file, thr[t].at + k>>]

\* one WriteFile, or one Write of the target's stream; an error aborts
Store(cells) ==
  \/ /\ IF ThreadType = "toexplorer"
          THEN got' = got \o cells /\ UNCHANGED dest
          ELSE dest' = [dest EXCEPT ![thr[Main].file] = @ \o cells] /\ UNCHANGED got
     /\ UNCHANGED AbortOp
  \/ AbortOp' = 1 /\ UNCHANGED <<dest, got>>

Stored == UNCHANGED <<ThreadType, window, jobs, job, item, temps, phase, target, next, asked, dropped>>
InBuffer == Stored /\ UNCHANGED <<AbortOp, dest, got>>

\* the codec calls Outfile_Write; it may have looked at AbortOp too early to stop
Piece(t) ==
  /\ At(t, "codec") /\ thr[t].at < Sizes[thr[t].file]
  /\ \E n \in 1 .. MaxPiece :
       /\ thr[t].at + n <= Sizes[thr[t].file]
       /\ thr[t].temp => (n = BufSize \/ (n < BufSize /\ thr[t].at + n = Sizes[thr[t].file]))
       /\ thr' = [thr EXCEPT ![t].left = n,
                             ![t].pc = IF ToTarget \/ ThreadType = "test" \/ n <= BufSize
                                         THEN "write" ELSE "direct"]
  /\ InBuffer /\ UNCHANGED <<buf, data>>

\* a test discards what it is given
Discard(t) ==
  /\ At(t, "write") /\ ThreadType = "test"
  /\ thr' = [thr EXCEPT ![t].pc = "codec", ![t].at = @ + thr[t].left, ![t].left = 0]
  /\ InBuffer /\ UNCHANGED <<buf, data>>

\* what fits goes into the buffer; THREAD_DRAGTOWIN2KEXPLORER waits for one first
Fill(t) ==
  /\ At(t, "write") /\ ThreadType # "test" /\ (ToTarget => buf # "none")
  /\ Len(data) + thr[t].left <= BufSize
  /\ data' = data \o Cells(t, thr[t].left)
  /\ thr' = [thr EXCEPT ![t].pc = "codec", ![t].at = @ + thr[t].left, ![t].left = 0]
  /\ InBuffer /\ UNCHANGED buf

\* what does not fit fills it up and has it flushed
FillAndFlush(t) ==
  LET n == BufSize - Len(data)
  IN /\ At(t, "write") /\ ThreadType # "test" /\ (ToTarget => buf # "none")
     /\ Len(data) + thr[t].left > BufSize
     /\ thr' = [thr EXCEPT ![t].pc = IF ToTarget THEN "await" ELSE @, ![t].at = @ + n, ![t].left = @ - n]
     /\ IF ToTarget
          THEN buf' = "none" /\ data' = data \o Cells(t, n) /\ InBuffer
          ELSE data' = << >> /\ Store(data \o Cells(t, n)) /\ Stored /\ UNCHANGED buf

\* the target has given another buffer
Await(t) ==
  /\ At(t, "await") /\ buf # "none"
  /\ data' = << >>
  /\ Goto(t, "write")
  /\ InBuffer /\ UNCHANGED buf

\* a piece larger than the buffer: what is in the buffer, then the piece itself
Direct(t) ==
  /\ At(t, "direct")
  /\ IF data # << >>
       THEN Store(data) /\ data' = << >> /\ UNCHANGED thr
       ELSE /\ Store(Cells(t, thr[t].left)) /\ UNCHANGED data
            /\ thr' = [thr EXCEPT ![t].pc = "codec", ![t].at = @ + thr[t].left, ![t].left = 0]
  /\ Stored /\ UNCHANGED buf

\* dzExtractFile returns to ExtractFile, which then flushes unless there was an
\* abort; ExtractToExplorerFromTemp always does
CodecReturns(t) ==
  /\ At(t, "codec") /\ (thr[t].at = Sizes[thr[t].file] \/ AbortOp # 0)
  /\ Goto(t, IF AbortOp # 0 /\ ~thr[t].temp THEN "ended" ELSE "lastflush")
  /\ InBuffer /\ UNCHANGED <<buf, data>>

\* ArchiveFile_Read fails, under a codec that has not all it needs
ArchiveFails(t) ==
  /\ At(t, "codec") /\ ~thr[t].temp /\ thr[t].at < Sizes[thr[t].file]
  /\ AbortOp' = 1
  /\ Stored /\ UNCHANGED <<buf, data, thr, dest, got>>

\* a seeded fault: the thread ends with the file's last buffer still on its way
AfterLastFlush_Ends == "ended"

\* the wait for another buffer, which is the Read that is to return nothing
AfterLastFlush == "lastwait"

LastFlush(t) ==
  /\ At(t, "lastflush")
  /\ IF ToTarget
       THEN buf' = "none" /\ Goto(t, AfterLastFlush) /\ InBuffer /\ UNCHANGED data
       ELSE /\ Goto(t, "ended") /\ Stored /\ data' = << >> /\ UNCHANGED buf
            /\ IF data = << >> THEN UNCHANGED <<AbortOp, dest, got>> ELSE Store(data)

LastWait(t) ==
  /\ At(t, "lastwait") /\ buf # "none"
  /\ Goto(t, "ended")
  /\ InBuffer /\ UNCHANGED <<buf, data>>

\* ExtractToWin2kThreadFunc: Read() returns nothing, to end the current file
ProducerEnds(p) ==
  /\ At(p, "ended")
  /\ buf' = "none"
  /\ thr' = [thr EXCEPT ![p] = Resting]
  /\ InBuffer /\ UNCHANGED data

Codec(t) ==
  \/ Piece(t) \/ Discard(t) \/ Fill(t) \/ FillAndFlush(t) \/ Await(t) \/ Direct(t)
  \/ ArchiveFails(t) \/ CodecReturns(t) \/ LastFlush(t) \/ LastWait(t)

-----------------------------------------------------------------------------
(* ExtractThread and TestThread.                                           *)

Started(f, temp) == [pc |-> "codec", file |-> f, at |-> 0, left |-> 0, temp |-> temp]

JobStep == UNCHANGED <<ThreadType, window, jobs, buf, data, dragVars>>

\* the loop's condition; a view extracts the focused file only
MoreFiles == item <= (IF ThreadType = "view" THEN 1 ELSE Len(Sizes)) /\ AbortOp = 0

NextFile ==
  /\ job = "next" /\ MoreFiles
  /\ job' = "file"
  /\ dest' = [dest EXCEPT ![item] = IF ThreadType = "test" THEN @ ELSE << >>]
  /\ thr' = [thr EXCEPT ![Main] = Started(item, FALSE)]
  /\ JobStep /\ UNCHANGED <<AbortOp, item, temps>>

\* ExtractSetHandle: the file cannot be made, is not to be overwritten, or IDCANCEL
SkipFile ==
  /\ job = "next" /\ MoreFiles /\ ThreadType = "extract"
  /\ item' = item + 1
  /\ AbortOp' \in {0, 1}
  /\ JobStep /\ UNCHANGED <<thr, job, dest, temps>>

\* a seeded fault: only an abort that ExtractFile saw counts
FileSpoilt_Seen == thr[Main].at # Sizes[thr[Main].file]

\* whether what ExtractFile left is deleted
FileSpoilt == AbortOp # 0

FileDone ==
  /\ job = "file" /\ At(Main, "ended")
  /\ IF FileSpoilt /\ ThreadType # "test"
       THEN /\ dest' = [dest EXCEPT ![item] = NoFile]
            /\ job' = "finished" /\ UNCHANGED <<item, temps>>
       ELSE /\ job' = "next" /\ item' = item + 1
            /\ temps' = IF ThreadType \in {"view", "dragout"} THEN <<item>> \o temps ELSE temps
            /\ UNCHANGED dest
  /\ thr' = [thr EXCEPT ![Main] = Resting]
  /\ JobStep /\ UNCHANGED AbortOp

JobEnds ==
  /\ job = "next" /\ ~MoreFiles
  /\ job' = "finished"
  /\ JobStep /\ UNCHANGED <<AbortOp, thr, item, dest, temps>>

Job == NextFile \/ SkipFile \/ FileDone \/ JobEnds

-----------------------------------------------------------------------------
(* The window thread: RunThread, the two dialogs, ThreadCleanUp, FileExit. *)

\* a producer whose target has given up after an abort, without a last Read
LeftWaiting == AbortOp # 0 /\ \E p \in Producers : At(p, "lastwait")

\* ExtractSetup, before whatever is started with it.  It takes no notice of a producer that
\* is left: the buffer it sets is the one that the producer waits for
Setup ==
  /\ jobs < MaxJobs /\ jobs' = jobs + 1
  /\ disturbed' = (disturbed \/ LeftWaiting)
  /\ buf' = "own" /\ data' = << >>
  /\ item' = 1 /\ dest' = [f \in Files |-> NoFile] /\ temps' = << >>
  /\ next' = 1

Idle == ThreadType = "none" /\ window = "up" /\ phase = -1

\* RunThread with a thread
RunWorker ==
  /\ Idle /\ Setup
  /\ ThreadType' \in WorkerTypes
  /\ AbortOp' = 0
  /\ job' = "next"
  /\ UNCHANGED <<window, thr, phase, target, asked, got, dropped>>

\* ThreadCleanUp: the window thread, or the thread of a drag
CleanUp == ThreadType' = "none"

CloseIfAsked ==
  window' = IF AbortOp = 2 /\ window # "gone" THEN "closing" ELSE window

\* RunThread's loop gets to see the worker's end when no dialog is open
WorkerEnds ==
  /\ ThreadType \in WorkerTypes /\ job = "finished" /\ window = "up"
  /\ CleanUp /\ CloseIfAsked
  /\ job' = "none" /\ buf' = "none" /\ data' = << >>
  /\ UNCHANGED <<AbortOp, jobs, thr, item, dest, temps, dragVars>>

WindowStep == UNCHANGED <<jobs, buf, data, thr, jobVars, dragVars>>

\* Esc in the list, or the window's close box: the question is put
Ask ==
  /\ window = "up" /\ ThreadType # "none"
  /\ window' \in {"esc", "exit"}
  /\ WindowStep /\ UNCHANGED abortVars

AnswerNo == window \in {"esc", "exit"} /\ window' = "up" /\ WindowStep /\ UNCHANGED abortVars

\* ActionsAbort, if the operation has not ended meanwhile
AnswerAbort ==
  /\ window = "esc"
  /\ AbortOp' = IF ThreadType # "none" THEN 1 ELSE AbortOp
  /\ window' = "up"
  /\ WindowStep /\ UNCHANGED ThreadType

\* FileExit: what runs is aborted first
AnswerExit ==
  /\ window = "exit"
  /\ IF ThreadType # "none" THEN AbortOp' = 2 /\ window' = "up"
                            ELSE window' = "gone" /\ UNCHANGED AbortOp
  /\ WindowStep /\ UNCHANGED ThreadType

WmClose == window = "closing" /\ window' = "gone" /\ WindowStep /\ UNCHANGED abortVars

Answer == AnswerNo \/ AnswerAbort \/ AnswerExit

-----------------------------------------------------------------------------
(* The thread of a drag: dzDD's constructor, and what the target calls.    *)

BeginDrag ==
  /\ Idle /\ Setup
  /\ phase' = 0 /\ target' = "dragging" /\ asked' = {} /\ got' = << >> /\ dropped' = << >>
  /\ UNCHANGED <<abortVars, window, thr, job>>

DragStep == UNCHANGED <<window, jobs, item, dest, temps>>

\* QueryContinueDrag
Drop ==
  /\ target = "dragging"
  /\ phase' = 1 /\ target' = "free"
  /\ DragStep /\ UNCHANGED <<abortVars, buf, data, thr, job, next, asked, got, dropped>>

\* RunThread without a thread, at the first GetData after the drop
FirstGetData(type) ==
  IF phase = 1 THEN AbortOp' = 0 /\ ThreadType' = type ELSE UNCHANGED abortVars

GetHDrop ==
  /\ target = "free" /\ phase = 1
  /\ phase' = 2 /\ FirstGetData("dragout")
  /\ job' = "next" /\ target' = "hdrop"
  /\ DragStep /\ UNCHANGED <<buf, data, thr, next, asked, got, dropped>>

\* ExtractMakeDropfiles
HDropReturns ==
  /\ target = "hdrop" /\ job = "finished"
  /\ job' = "none" /\ target' = "free" /\ dropped' = temps
  /\ DragStep /\ UNCHANGED <<abortVars, buf, data, thr, phase, next, asked, got>>

GetDescriptor ==
  /\ target = "free" /\ phase = 1
  /\ phase' = 3 /\ FirstGetData("dragout")
  /\ DragStep /\ UNCHANGED <<buf, data, thr, job, target, next, asked, got, dropped>>

NewProducer(p, f, temp) ==
  /\ At(p, "off")
  /\ thr' = [thr EXCEPT ![p] = Started(f, temp)]

\* a seeded fault: the first file gets its thread here, too
ThreadInGetData_Always == TRUE

\* for the first file the way is not known yet: its thread is Read's to make
ThreadInGetData == ToTarget

\* after an abort: E_UNEXPECTED, and the target gives up
GetContentsFails ==
  /\ target = "free" /\ phase >= 2 /\ AbortOp # 0
  /\ target' = "done"
  /\ DragStep /\ UNCHANGED <<abortVars, buf, data, thr, job, phase, next, asked, got, dropped>>

GetContents ==
  /\ target = "free" /\ phase >= 1 /\ (phase = 1 \/ AbortOp = 0)
  /\ \E f \in Files \ asked :
       /\ asked' = asked \cup {f} /\ next' = f /\ got' = << >>
       /\ phase' = CASE phase = 1 -> 5 [] phase \in {2, 3} -> phase + 2 [] OTHER -> phase
       /\ IF phase < 4 THEN ThreadType' = "toexplorer" ELSE UNCHANGED ThreadType
       /\ AbortOp' = IF phase = 1 THEN 0 ELSE AbortOp
       /\ IF ThreadInGetData THEN \E p \in Producers : NewProducer(p, f, phase = 6)
                             ELSE UNCHANGED thr
  /\ target' = "stream"
  /\ DragStep /\ UNCHANGED <<buf, data, job, dropped>>

\* 95/98: the file is written into the target's stream on this thread
CopyTo ==
  /\ target = "stream" /\ phase \in {4, 5}
  /\ target' = "copying"
  /\ thr' = [thr EXCEPT ![Main] = Started(next, phase = 4)]
  /\ DragStep /\ UNCHANGED <<abortVars, buf, data, job, phase, next, asked, got, dropped>>

\* a temp file that was streamed from is gone
Used(f, temp) == dest' = [dest EXCEPT ![f] = IF temp THEN NoFile ELSE @]

CopyToReturns ==
  /\ target = "copying" /\ At(Main, "ended")
  /\ target' = "eof"
  /\ thr' = [thr EXCEPT ![Main] = Resting]
  /\ Used(next, phase = 4)
  /\ UNCHANGED <<abortVars, window, jobs, buf, data, job, item, temps, phase, next, asked, got, dropped>>

\* 2000/XP: the first Read finds out that it is to be done this way
Read ==
  /\ target = "stream"
  /\ IF phase < 6
       THEN /\ asked = {next}   \* no CopyTo before
            /\ phase' = phase + 2 /\ buf' = "none" /\ ThreadType' = "towin2k"
            /\ \E p \in Producers : NewProducer(p, next, phase = 4)
       ELSE UNCHANGED <<phase, buf, ThreadType, thr>>
  /\ target' = "read"
  /\ DragStep /\ UNCHANGED <<AbortOp, data, job, next, asked, got, dropped>>

\* a seeded fault: the buffer is given before it is said to be empty
ReadSets_Swapped == <<"buf", "bufused">>

\* once Extract.buf is set, the other thread writes into it
ReadSets == <<"bufused", "buf">>

ReadStep(k, to) ==
  /\ IF ReadSets[k] = "buf" THEN buf' = "target" /\ UNCHANGED data
                            ELSE data' = << >> /\ UNCHANGED buf
  /\ target' = to
  /\ DragStep /\ UNCHANGED <<abortVars, thr, job, phase, next, asked, got, dropped>>

ReadArms ==
  \/ target = "read" /\ ReadStep(1, "arming")
  \/ target = "arming" /\ ReadStep(2, "reading")

ReadReturns ==
  /\ target = "reading" /\ buf = "none"
  /\ got' = got \o data
  /\ target' = IF data = << >> THEN "eof" ELSE "stream"
  /\ DragStep /\ UNCHANGED <<abortVars, buf, data, thr, job, phase, next, asked, dropped>>

\* the target has the file and goes on to the next, or is done
StreamOver ==
  /\ target = "eof"
  /\ target' \in {"free", "done"}
  /\ DragStep /\ UNCHANGED <<abortVars, buf, data, thr, job, phase, next, asked, got, dropped>>

\* DoDragDrop returns: cancelled, dropped for nothing, or all is done
EndDrag ==
  /\ target \in {"dragging", "free", "done"}
  /\ IF phase > 1 THEN CleanUp /\ CloseIfAsked ELSE UNCHANGED <<ThreadType, window>>
  /\ buf' = IF phase < 6 THEN "none" ELSE buf
  /\ data' = << >>
  /\ phase' = -1 /\ target' = "none"
  /\ UNCHANGED <<AbortOp, jobs, thr, jobVars, next, asked, got, dropped>>

TargetCalls ==
  \/ Drop \/ GetHDrop \/ GetDescriptor \/ GetContentsFails \/ GetContents
  \/ CopyTo \/ Read \/ StreamOver \/ EndDrag

CallReturns == HDropReturns \/ CopyToReturns \/ ReadArms \/ ReadReturns

Operate ==
  \/ \E t \in Threads : Codec(t)
  \/ \E p \in Producers : ProducerEnds(p)
  \/ Job \/ WorkerEnds \/ Ask \/ Answer \/ WmClose
  \/ TargetCalls \/ CallReturns

Next == RunWorker \/ BeginDrag \/ (Operate /\ UNCHANGED disturbed)

\* the threads run, and calls return; what the user and the target do is theirs
Fairness ==
  /\ \A t \in Threads : WF_codeVars(Codec(t))
  /\ \A p \in Producers : WF_codeVars(ProducerEnds(p))
  /\ WF_codeVars(Job) /\ WF_codeVars(CallReturns)

Spec == Init /\ [][Next]_vars /\ Fairness

-----------------------------------------------------------------------------
(* Properties.                                                             *)

IsWhole(f, cells) == cells = Content(f)

IsPart(f, cells) == Len(cells) <= Sizes[f] /\ cells = SubSeq(Content(f), 1, Len(cells))

(* At most one thread is inside the codec, whose buffers, tables and position
   in the archive are all static: a producer has left before the next file's
   producer is made, and before the next operation is begun, but for one that an
   abort has left waiting for a buffer (LeftWaiting: the next operation wakes it). *)
OneInCodec == disturbed \/ Cardinality({t \in Threads : ~At(t, "off")}) <= 1

(* The target gets each file's cells in order, none twice and none left out,
   whatever pieces the codec makes and whichever way it asks, through Read
   even after an abort; and when it is told that a file is over without an
   abort, it has the whole of it.  Said of operations that no producer is left
   over to. *)
StreamsWhole == ~disturbed =>
  /\ (target # "none" /\ (AbortOp = 0 \/ phase >= 6)) => IsPart(next, got)
  /\ (target = "eof" /\ AbortOp = 0) => IsWhole(next, got)

(* When no operation runs, no file is left half written: an abort, an error or
   a dialog's answer at any moment, also between ExtractFile's look at AbortOp
   and ExtractThread's, leaves whole files or none; and CF_HDROP names whole
   files only.  Said of operations that no producer is left over to. *)
WholeFiles == ~disturbed =>
  /\ (job \in {"none", "finished"} /\ ~At(Main, "ended")) =>
       \A f \in Files : dest[f] = NoFile \/ IsWhole(f, dest[f])
  /\ \A k \in DOMAIN temps : job # "none" => IsWhole(temps[k], dest[temps[k]])
  /\ \A k \in DOMAIN dropped : phase = 2 => IsWhole(dropped[k], dest[dropped[k]])

(* A Read gets its answer, and the codec gets its buffers: neither waits for
   the other for ever, unless AbortOp is set, by the user or by a read error of
   the archive.  Then ExtractFile leaves out the last flush, a Read returns what
   was in the buffer, and the next one gives a buffer to nobody and does not
   return. *)
ReadsReturn == target = "reading" ~> (target # "reading" \/ AbortOp # 0 \/ disturbed)
=============================================================================
