-------------------------- MODULE GuiExtractProofs --------------------------
(***************************************************************************)
(* Taking files out is safe for every list of files, every size of buffer  *)
(* and piece, and any number of producers: never two threads in the codec, *)
(* whole files or none, and streams in order and whole; until an operation *)
(* is begun while the producer of an aborted drag still waits for a buffer.*)
(***************************************************************************)
EXTENDS GuiExtract, SequenceTheorems, FiniteSetTheorems, TLAPS

Cell == Nat \X Nat

\* the first n cells of file f
Prefix(f, n) == [k \in 1 .. n |-> <<f, k>>]

Off(t) == At(t, "off")

Pcs == {"off", "codec", "write", "await", "direct", "lastflush", "lastwait", "ended"}

-----------------------------------------------------------------------------
(* The inductive invariant.                                                *)

ControlType ==
  /\ ThreadType \in WorkerTypes \cup {"none", "dragout", "toexplorer", "towin2k"}
  /\ AbortOp \in 0 .. 2
  /\ job \in {"none", "next", "file", "finished"}
  /\ item \in 1 .. Len(Sizes) + 1
  /\ phase \in -1 .. 7
  /\ target \in {"none", "dragging", "free", "hdrop", "stream", "copying",
                 "read", "arming", "reading", "eof", "done"}
  /\ next \in Files
  /\ buf \in {"none", "own", "target"}

DataType ==
  /\ data \in Seq(Cell) /\ Len(data) <= BufSize
  /\ got \in Seq(Cell)
  /\ dest \in [Files -> Seq(Cell)]
  /\ temps \in Seq(Files) /\ dropped \in Seq(Files)
  /\ thr \in [Threads -> [pc : Pcs, file : Files, at : Nat, left : Nat, temp : BOOLEAN]]

\* which operation goes with which step of a job, of a drag and of its target
RoleInv ==
  /\ ~Off(Main) <=> job = "file" \/ target = "copying"
  /\ job # "none" =>
       \/ ThreadType \in WorkerTypes /\ phase = -1
       \/ ThreadType = "dragout" /\ target = "hdrop"
  /\ ThreadType \in WorkerTypes => job # "none"
  /\ target = "hdrop" => job # "none" /\ phase = 2
  /\ phase = -1 => ThreadType \in WorkerTypes \cup {"none"}
  /\ phase \in {0, 1} => ThreadType = "none"
  /\ phase \in {2, 3} => ThreadType = "dragout"
  /\ phase \in {4, 5} => ThreadType = "toexplorer"
  /\ phase \in {6, 7} => ThreadType = "towin2k"
  /\ target = "none" <=> phase = -1
  /\ target = "dragging" <=> phase = 0
  /\ target \in {"stream", "eof"} => phase >= 4
  /\ target = "copying" => phase \in {4, 5}
  /\ target \in {"read", "arming", "reading"} => phase >= 6

Streaming == phase >= 6 /\ target \in {"stream", "read", "arming", "reading"}

\* a producer that an abort has left behind
Stuck(p) ==
  /\ At(p, "lastwait") /\ AbortOp # 0 /\ buf = "none"
  /\ phase \in {-1, 6, 7} /\ job = "none"

ProducerInv ==
  /\ \A p, q \in Producers : ~Off(p) /\ ~Off(q) => p = q
  /\ \A p \in Producers : ~Off(p) => Streaming \/ Stuck(p)
  /\ phase >= 6 /\ target # "reading" => buf = "none"

\* what is in the buffer while the target waits for it, and only then
InFlight == IF target = "reading" THEN data ELSE << >>

Sent == got \o InFlight

\* the handshake of a producer and Read
Baton(p) ==
  /\ thr[p].file = next
  /\ thr[p].at + thr[p].left <= Sizes[next]
  /\ Sent = Prefix(next, thr[p].at)
  /\ thr[p].pc # "direct"
  /\ thr[p].pc \in {"codec", "write", "lastflush", "ended"} =>
       buf # "none" \/ (target # "reading" /\ thr[p].at = 0)
  /\ thr[p].pc \in {"write", "await"} => thr[p].left # 0
  /\ thr[p].pc \notin {"write", "await"} => thr[p].left = 0
  /\ thr[p].pc \in {"await", "lastwait"} /\ buf # "none" => data = << >>
  /\ At(p, "await") /\ target = "reading" /\ buf = "none" => data # << >>
  /\ At(p, "codec") /\ thr[p].at # 0 => data # << >>
  /\ AbortOp = 0 =>
       /\ thr[p].pc \in {"lastflush", "lastwait", "ended"} => thr[p].at = Sizes[next]
       /\ At(p, "lastflush") => data # << >>
       /\ At(p, "lastwait") /\ target = "reading" /\ buf = "none" => data # << >>
       /\ At(p, "ended") => buf # "none" /\ data = << >>

BatonInv == \A p \in Producers : ~Off(p) /\ Streaming => Baton(p)

\* what the target has, whoever is at work
TargetInv ==
  /\ target = "arming" => data = << >>
  /\ phase \in 0 .. 3 => got = << >>
  /\ target = "stream" /\ phase \in {4, 5} => got = << >>
  /\ target # "none" /\ (AbortOp = 0 \/ phase >= 6) =>
       \E n \in 0 .. Sizes[next] : Sent = Prefix(next, n)
  /\ target = "eof" /\ AbortOp = 0 => got = Content(next)
  /\ Streaming /\ AbortOp = 0 /\ (\A p \in Producers : Off(p)) =>
       target = "reading" /\ buf = "none" /\ data = << >> /\ got = Content(next)

\* what Main's Outfile_Write writes to
Out == IF ThreadType = "toexplorer" THEN got ELSE dest[item]

Working ==
  /\ job = "file" => item \in Files
  /\ thr[Main].file = IF ThreadType = "toexplorer" THEN next ELSE item
  /\ thr[Main].at + thr[Main].left <= Sizes[thr[Main].file]
  /\ thr[Main].pc \notin {"await", "lastwait"}
  /\ thr[Main].pc \notin {"write", "direct"} => thr[Main].left = 0
  /\ ThreadType = "test" => data = << >> /\ ~At(Main, "direct")
  /\ AbortOp = 0 =>
       /\ ThreadType # "test" => Out \o data = Prefix(thr[Main].file, thr[Main].at)
       /\ thr[Main].pc \in {"lastflush", "ended"} => thr[Main].at = Sizes[thr[Main].file]
       /\ At(Main, "ended") => data = << >>

MainInv == ~Off(Main) => Working

\* nothing is left in the buffer from one file to the next
EmptyInv ==
  /\ phase \in {0, 1} => data = << >>
  /\ Off(Main) /\ AbortOp = 0 /\ (job # "none" \/ phase \in 0 .. 5) => data = << >>
  /\ ThreadType = "test" => data = << >>

Good(f) == dest[f] = NoFile \/ IsWhole(f, dest[f])

DiskInv ==
  /\ \A f \in Files : (job = "file" /\ f = item /\ ThreadType # "test") \/ Good(f)
  /\ \A k \in DOMAIN temps : job # "none" => temps[k] < item /\ IsWhole(temps[k], dest[temps[k]])
  /\ phase \in {0, 1} => temps = << >> /\ item = 1 /\ dropped = << >>
  /\ phase = 2 /\ job # "none" => dropped = << >>
  /\ phase = 2 /\ job = "none" =>
       \A k \in DOMAIN dropped : IsWhole(dropped[k], dest[dropped[k]])

ExtractInv ==
  /\ ControlType /\ DataType /\ RoleInv
  /\ ProducerInv /\ BatonInv /\ TargetInv
  /\ MainInv /\ EmptyInv /\ DiskInv

-----------------------------------------------------------------------------
(* Pieces of a file.                                                       *)

\* What a file holds is the prefix of all its cells
LEMMA ContentIsPrefix == \A f : Content(f) = Prefix(f, Sizes[f])
BY DEF Content, Prefix

\* Sizes are positive, and there is a first file
LEMMA SizesFacts ==
  /\ Len(Sizes) \in Nat /\ 1 \in Files
  /\ \A f \in Files : f \in Nat /\ Sizes[f] \in Nat /\ Sizes[f] # 0
BY ExtractAssumption, EmptySeq DEF Files

\* A prefix is a sequence of cells, as long as it says
LEMMA PrefixType ==
  ASSUME NEW f \in Files, NEW n \in Nat
  PROVE  Prefix(f, n) \in Seq(Cell) /\ Len(Prefix(f, n)) = n /\ DOMAIN Prefix(f, n) = 1 .. n
<1>1. \A k \in 1 .. n : <<f, k>> \in Cell
  BY SizesFacts DEF Cell
<1>2. Prefix(f, n) \in [1 .. n -> Cell]
  BY <1>1 DEF Prefix
<1> QED
  BY <1>2

\* Nothing of a file is the empty sequence
LEMMA PrefixNone == \A f \in Files : Prefix(f, 0) = << >>
BY PrefixType, EmptySeq

\* Nothing more makes no difference
LEMMA PrefixEnd ==
  ASSUME NEW f \in Files, NEW n \in Nat
  PROVE  Prefix(f, n) \o << >> = Prefix(f, n)
BY PrefixType, ConcatEmptySeq

\* The next cells make a longer prefix
LEMMA PrefixAppend ==
  ASSUME NEW f \in Files, NEW m \in Nat, NEW n \in Nat
  PROVE  Prefix(f, m) \o [k \in 1 .. n |-> <<f, m + k>>] = Prefix(f, m + n)
<1> DEFINE more == [k \in 1 .. n |-> <<f, m + k>>]
           head == Prefix(f, m)
           both == Prefix(f, m + n)
<1>1. more \in Seq(Cell) /\ Len(more) = n /\ \A k \in 1 .. n : more[k] = <<f, m + k>>
  <2>1. \A k \in 1 .. n : <<f, m + k>> \in Cell
    BY SizesFacts DEF Cell
  <2>2. more \in [1 .. n -> Cell]
    BY <2>1
  <2> QED
    BY <2>2
<1>2. head \in Seq(Cell) /\ Len(head) = m /\ \A k \in 1 .. m : head[k] = <<f, k>>
  BY PrefixType DEF Prefix
<1>3. both \in Seq(Cell) /\ Len(both) = m + n /\ \A k \in 1 .. m + n : both[k] = <<f, k>>
  <2>1. m + n \in Nat
    OBVIOUS
  <2> QED
    BY <2>1, PrefixType DEF Prefix
<1> HIDE DEF more, head, both
<1>4. head \o more \in Seq(Cell) /\ Len(head \o more) = m + n
  BY <1>1, <1>2, ConcatProperties
<1>c. \A k \in 1 .. Len(head) + Len(more) :
        (head \o more)[k] = IF k <= Len(head) THEN head[k] ELSE more[k - Len(head)]
  BY <1>1, <1>2, ConcatProperties
<1>5. \A k \in 1 .. m + n : (head \o more)[k] = <<f, k>>
  <2> SUFFICES ASSUME NEW k \in 1 .. m + n PROVE (head \o more)[k] = <<f, k>>
    OBVIOUS
  <2>1. CASE k <= m
    BY <2>1, <1>1, <1>2, <1>c
  <2>2. CASE k > m
    <3>1. k - m \in 1 .. n /\ m + (k - m) = k
      BY <2>2
    <3>2. (head \o more)[k] = more[k - m]
      BY <2>2, <1>1, <1>2, ConcatProperties
    <3> QED
      BY <3>1, <3>2, <1>1
  <2>3. k <= m \/ k > m
    OBVIOUS
  <2> QED
    BY <2>1, <2>2, <2>3
<1>6. head \o more = both
  BY <1>3, <1>4, <1>5, SeqEqual
<1> QED
  BY <1>6 DEF head, more, both

\* The beginning of a prefix is a prefix
LEMMA PrefixHead ==
  ASSUME NEW f \in Files, NEW n \in Nat, NEW a \in Seq(Cell), NEW b \in Seq(Cell),
         a \o b = Prefix(f, n)
  PROVE  Len(a) <= n /\ a = Prefix(f, Len(a))
<1> DEFINE whole == Prefix(f, n)
           part == Prefix(f, Len(a))
<1>1. Len(whole) = n /\ \A k \in 1 .. n : whole[k] = <<f, k>>
  BY PrefixType DEF Prefix
<1>2. Len(a) \in Nat
  OBVIOUS
<1>3. part \in Seq(Cell) /\ Len(part) = Len(a) /\ \A k \in 1 .. Len(a) : part[k] = <<f, k>>
  BY <1>2, PrefixType DEF Prefix
<1>4. a \o b = whole
  OBVIOUS
<1> HIDE DEF whole, part
<1>5. Len(a) <= n /\ \A k \in 1 .. Len(a) : a[k] = <<f, k>>
  <2>1. Len(b) \in Nat /\ Len(a \o b) = Len(a) + Len(b)
    BY ConcatProperties
  <2>2. \A k \in 1 .. Len(a) : (a \o b)[k] = a[k]
    BY <2>1, <1>2, ConcatProperties
  <2> QED
    BY <2>1, <2>2, <1>1, <1>2, <1>4
<1>6. a = part
  BY <1>3, <1>5, SeqEqual
<1> QED
  BY <1>5, <1>6 DEF part

\* A prefix no longer than the file is part of it
LEMMA PrefixIsPart ==
  ASSUME NEW f \in Files, NEW n \in 0 .. Sizes[f]
  PROVE  IsPart(f, Prefix(f, n))
<1> DEFINE whole == Prefix(f, Sizes[f])
           part == Prefix(f, n)
           sub == SubSeq(whole, 1, n)
<1>1. n \in Nat /\ n <= Sizes[f] /\ Sizes[f] \in Nat
  BY SizesFacts
<1>2. /\ whole \in Seq(Cell) /\ Len(whole) = Sizes[f]
      /\ \A k \in 1 .. Sizes[f] : whole[k] = <<f, k>>
  BY <1>1, PrefixType DEF Prefix
<1>3. part \in Seq(Cell) /\ Len(part) = n /\ \A k \in 1 .. n : part[k] = <<f, k>>
  BY <1>1, PrefixType DEF Prefix
<1> HIDE DEF whole, part
<1>4. sub \in Seq(Cell) /\ Len(sub) = n /\ \A k \in 1 .. n : sub[k] = whole[k]
  BY <1>1, <1>2, SubSeqProperties
<1> HIDE DEF sub
<1>5. \A k \in 1 .. n : sub[k] = <<f, k>>
  BY <1>1, <1>2, <1>4
<1>6. part = sub
  BY <1>3, <1>4, <1>5, SeqEqual
<1>7. Content(f) = whole
  BY ContentIsPrefix DEF whole
<1> QED
  BY <1>1, <1>3, <1>6, <1>7 DEF IsPart, part, sub

-----------------------------------------------------------------------------
(* What a step of each kind leaves alone.                                  *)

\* A thread in the codec changes its own place, data and files, and may give
\* its buffer away or be stopped by an error
LEMMA CodecFrame ==
  ASSUME DataType, NEW t \in Threads, Codec(t)
  PROVE  /\ Stored
         /\ ~Off(t) /\ ~Off(t)' /\ thr'[t].file = thr[t].file
         /\ \A u \in Threads \ {t} : thr'[u] = thr[u]
         /\ AbortOp' \in {AbortOp, 1}
         /\ buf' \in {buf, "none"}
<1> USE DEF DataType, Threads, Stored, InBuffer, At, Goto, Off, Store, Pcs
<1>1. CASE Piece(t)
  BY <1>1 DEF Piece
<1>2. CASE Discard(t)
  BY <1>2 DEF Discard
<1>3. CASE Fill(t)
  BY <1>3 DEF Fill
<1>4. CASE FillAndFlush(t)
  <2>1. thr' = [thr EXCEPT ![t].pc = IF ToTarget THEN "await" ELSE @,
                           ![t].at = @ + (BufSize - Len(data)), ![t].left = @ - (BufSize - Len(data))]
    BY <1>4 DEF FillAndFlush, ToTarget
  <2>2. thr[t].pc = "write" /\ buf' \in {buf, "none"} /\ AbortOp' \in {AbortOp, 1}
    BY <1>4 DEF FillAndFlush
  <2>3. Stored
    BY <1>4 DEF FillAndFlush
  <2>4. /\ thr'[t].pc \in {"await", "write"} /\ thr'[t].file = thr[t].file
        /\ \A u \in Threads \ {t} : thr'[u] = thr[u]
    BY <2>1, <2>2 DEF ToTarget
  <2> QED
    BY <2>2, <2>3, <2>4
<1>5. CASE Await(t)
  BY <1>5 DEF Await
<1>6. CASE Direct(t)
  <2>1. CASE data = << >>
    <3>1. thr' = [thr EXCEPT ![t].pc = "codec", ![t].at = @ + thr[t].left, ![t].left = 0]
      BY <1>6, <2>1 DEF Direct
    <3>2. thr[t].pc = "direct" /\ buf' = buf /\ Stored
      BY <1>6 DEF Direct
    <3>3. AbortOp' \in {AbortOp, 1}
      BY <1>6 DEF Direct
    <3>4. /\ thr'[t].pc = "codec" /\ thr'[t].file = thr[t].file
          /\ \A u \in Threads \ {t} : thr'[u] = thr[u]
      BY <3>1
    <3> QED
      BY <3>2, <3>3, <3>4
  <2>2. CASE data # << >>
    BY <1>6, <2>2 DEF Direct
  <2> QED
    BY <2>1, <2>2
<1>7. CASE ArchiveFails(t)
  BY <1>7 DEF ArchiveFails
<1>8. CASE CodecReturns(t)
  BY <1>8 DEF CodecReturns
<1>9. CASE LastFlush(t)
  BY <1>9 DEF LastFlush, AfterLastFlush
<1>10. CASE LastWait(t)
  BY <1>10 DEF LastWait
<1> QED
  BY <1>1, <1>2, <1>3, <1>4, <1>5, <1>6, <1>7, <1>8, <1>9, <1>10 DEF Codec

AllButAbort ==
  UNCHANGED <<ThreadType, jobs, buf, data, thr, job, item, dest, temps,
              phase, target, next, asked, got, dropped>>

\* A dialog can only abort
LEMMA WindowFrame ==
  ASSUME Ask \/ Answer \/ WmClose
  PROVE  AllButAbort /\ AbortOp' \in {AbortOp, 1, 2}
BY DEF Ask, Answer, AnswerNo, AnswerAbort, AnswerExit, WmClose, WindowStep, AllButAbort,
       abortVars, jobVars, dragVars

-----------------------------------------------------------------------------
(* Roles.                                                                  *)

\* Every step keeps the ranges of the control variables, and the roles
LEMMA RoleStep ==
  ASSUME ExtractInv, Next
  PROVE  ControlType' /\ RoleInv'
<1> USE SizesFacts, ExtractAssumption DEF ControlType, RoleInv, Off, At, WorkerTypes
<1>t. DataType /\ ControlType /\ RoleInv /\ Main \in Threads /\ \A p \in Producers : p \in Threads /\ p # Main
  BY DEF ExtractInv, Threads
<1>1. CASE \E t \in Threads : Codec(t)
  <2>1. PICK t \in Threads : Codec(t)
    BY <1>1
  <2>2. Off(Main)' <=> Off(Main)
    BY <2>1, <1>t, CodecFrame
  <2> QED
    BY <2>1, <2>2, <1>t, CodecFrame, SMTT(40) DEF Stored
<1>2. CASE \E p \in Producers : ProducerEnds(p)
  BY <1>2, <1>t, ZenonT(40) DEF ProducerEnds, InBuffer, Stored, DataType
<1>3. CASE NextFile
  BY <1>3, <1>t DEF NextFile, MoreFiles, JobStep, dragVars, DataType, Started, Files
<1>4. CASE SkipFile
  BY <1>4, <1>t DEF SkipFile, MoreFiles, JobStep, dragVars
<1>5. CASE FileDone
  <2>1. item \in Files
    BY <1>5, <1>t DEF FileDone, ExtractInv, MainInv, Working
  <2>2. item + 1 \in 1 .. Len(Sizes) + 1
    BY <2>1 DEF Files
  <2>3. Off(Main)'
    BY <1>5, <1>t DEF FileDone, DataType, Resting
  <2> QED
    BY <1>5, <1>t, <2>2, <2>3 DEF FileDone, JobStep, dragVars
<1>6. CASE JobEnds
  BY <1>6, <1>t DEF JobEnds, JobStep, dragVars
<1>7. CASE RunWorker
  BY <1>7, <1>t DEF RunWorker, Idle, Setup
<1>8. CASE WorkerEnds
  BY <1>8, <1>t DEF WorkerEnds, CleanUp, dragVars
<1>9. CASE Ask \/ Answer \/ WmClose
  BY <1>9, <1>t, WindowFrame, SMTT(30) DEF AllButAbort
<1>10. CASE BeginDrag
  BY <1>10, <1>t DEF BeginDrag, Idle, Setup, abortVars
<1>11. CASE Drop
  BY <1>11, <1>t DEF Drop, DragStep, abortVars
<1>12. CASE GetHDrop
  BY <1>12, <1>t DEF GetHDrop, FirstGetData, DragStep, abortVars
<1>13. CASE GetDescriptor
  BY <1>13, <1>t DEF GetDescriptor, FirstGetData, DragStep, abortVars
<1>14. CASE GetContentsFails
  BY <1>14, <1>t DEF GetContentsFails, DragStep, abortVars
<1>15. CASE GetContents
  <2>1. Off(Main)' <=> Off(Main)
    BY <1>15, <1>t DEF GetContents, NewProducer, DataType
  <2>2. phase' = CASE phase = 1 -> 5 [] phase \in {2, 3} -> phase + 2 [] OTHER -> phase
    BY <1>15 DEF GetContents
  <2>3. /\ phase \in 1 .. 7 /\ target = "free" /\ target' = "stream" /\ next' \in Files
        /\ ThreadType' = IF phase < 4 THEN "toexplorer" ELSE ThreadType
        /\ AbortOp' \in {0, AbortOp}
        /\ job' = job /\ item' = item /\ buf' = buf
    BY <1>15, <1>t DEF GetContents, DragStep
  <2>4. phase' = IF phase = 1 THEN 5 ELSE IF phase \in {2, 3} THEN phase + 2 ELSE phase
    BY <2>2, <2>3
  <2> QED
    BY <2>1, <2>3, <2>4, <1>t
<1>16. CASE CopyTo
  BY <1>16, <1>t DEF CopyTo, DragStep, abortVars, Started, DataType
<1>17. CASE Read
  <2>1. Off(Main)' <=> Off(Main)
    BY <1>17, <1>t DEF Read, NewProducer, DataType
  <2>2. CASE phase < 6
    BY <1>17, <2>1, <2>2, <1>t DEF Read, DragStep
  <2>3. CASE ~(phase < 6)
    BY <1>17, <2>1, <2>3, <1>t DEF Read, DragStep
  <2> QED
    BY <2>2, <2>3
<1>18. CASE StreamOver
  BY <1>18, <1>t DEF StreamOver, DragStep, abortVars
<1>19. CASE EndDrag
  BY <1>19, <1>t DEF EndDrag, CleanUp, jobVars
<1>20. CASE HDropReturns
  BY <1>20, <1>t DEF HDropReturns, DragStep, abortVars
<1>21. CASE CopyToReturns
  BY <1>21, <1>t DEF CopyToReturns, Resting, DataType, abortVars
<1>22. CASE ReadArms
  BY <1>22, <1>t DEF ReadArms, ReadStep, ReadSets, DragStep, abortVars
<1>23. CASE ReadReturns
  BY <1>23, <1>t DEF ReadReturns, DragStep, abortVars
<1> QED
  BY <1>1, <1>2, <1>3, <1>4, <1>5, <1>6, <1>7, <1>8, <1>9, <1>10, <1>11, <1>12, <1>13, <1>14,
     <1>15, <1>16, <1>17, <1>18, <1>19, <1>20, <1>21, <1>22, <1>23
     DEF Next, Operate, Job, TargetCalls, CallReturns

-----------------------------------------------------------------------------
(* Types.                                                                  *)

\* The fields of a thread's place are what they are declared to be
LEMMA PlaceType ==
  ASSUME DataType, NEW t \in Threads
  PROVE  /\ thr[t].pc \in Pcs /\ thr[t].file \in Files
         /\ thr[t].at \in Nat /\ thr[t].left \in Nat /\ thr[t].temp \in BOOLEAN
BY DEF DataType

\* The next cells of a thread's file
LEMMA CellsType ==
  ASSUME DataType, NEW t \in Threads, NEW n \in Nat
  PROVE  Cells(t, n) \in Seq(Cell) /\ Len(Cells(t, n)) = n
<1>1. \A k \in 1 .. n : <<thr[t].file, thr[t].at + k>> \in Cell
  BY PlaceType, SizesFacts DEF Cell
<1>2. Cells(t, n) \in [1 .. n -> Cell]
  BY <1>1 DEF Cells
<1> QED
  BY <1>2

ThrType == thr \in [Threads -> [pc : Pcs, file : Files, at : Nat, left : Nat, temp : BOOLEAN]]

\* thread t gets to another place, and no other thread does
MovesTo(t, pc, at, left) ==
  /\ thr'[t].pc = pc /\ thr'[t].at = at /\ thr'[t].left = left
  /\ thr'[t].file = thr[t].file
  /\ \A u \in Threads \ {t} : thr'[u] = thr[u]

\* What the forms of EXCEPT in the codec's actions come to
LEMMA Moves ==
  ASSUME ThrType, NEW t \in Threads, NEW pc \in Pcs, NEW at \in Nat, NEW left \in Nat
  PROVE  /\ thr' = [thr EXCEPT ![t].pc = pc] =>
              ThrType' /\ MovesTo(t, pc, thr[t].at, thr[t].left)
         /\ thr' = [thr EXCEPT ![t].left = left, ![t].pc = pc] =>
              ThrType' /\ MovesTo(t, pc, thr[t].at, left)
         /\ thr' = [thr EXCEPT ![t].pc = pc, ![t].at = at, ![t].left = left] =>
              ThrType' /\ MovesTo(t, pc, at, left)
<1>1. ASSUME thr' = [thr EXCEPT ![t].pc = pc]
      PROVE  ThrType' /\ MovesTo(t, pc, thr[t].at, thr[t].left)
  BY <1>1 DEF ThrType, MovesTo
<1>2. ASSUME thr' = [thr EXCEPT ![t].left = left, ![t].pc = pc]
      PROVE  ThrType' /\ MovesTo(t, pc, thr[t].at, left)
  BY <1>2 DEF ThrType, MovesTo
<1>3. ASSUME thr' = [thr EXCEPT ![t].pc = pc, ![t].at = at, ![t].left = left]
      PROVE  ThrType' /\ MovesTo(t, pc, at, left)
  BY <1>3 DEF ThrType, MovesTo
<1> QED
  BY <1>1, <1>2, <1>3

\* Where each of the codec's actions takes its thread
LEMMA CodecMoves ==
  ASSUME DataType, NEW t \in Threads
  PROVE  /\ Piece(t) => \E n \in 1 .. MaxPiece, pc \in {"write", "direct"} :
              /\ ThrType' /\ MovesTo(t, pc, thr[t].at, n)
              /\ thr[t].at + n <= Sizes[thr[t].file]
              /\ pc = "direct" => ~ToTarget /\ ThreadType # "test"
         /\ Discard(t) => ThrType' /\ MovesTo(t, "codec", thr[t].at + thr[t].left, 0)
         /\ Fill(t) => ThrType' /\ MovesTo(t, "codec", thr[t].at + thr[t].left, 0)
         /\ FillAndFlush(t) =>
              LET n == BufSize - Len(data)
              IN /\ n \in Nat /\ n < thr[t].left /\ ThrType'
                 /\ MovesTo(t, IF ToTarget THEN "await" ELSE "write", thr[t].at + n, thr[t].left - n)
         /\ Await(t) => ThrType' /\ MovesTo(t, "write", thr[t].at, thr[t].left)
         /\ Direct(t) /\ data = << >> => ThrType' /\ MovesTo(t, "codec", thr[t].at + thr[t].left, 0)
         /\ CodecReturns(t) =>
              /\ ThrType'
              /\ MovesTo(t, IF AbortOp # 0 /\ ~thr[t].temp THEN "ended" ELSE "lastflush",
                         thr[t].at, thr[t].left)
         /\ LastFlush(t) =>
              ThrType' /\ MovesTo(t, IF ToTarget THEN "lastwait" ELSE "ended", thr[t].at, thr[t].left)
         /\ LastWait(t) => ThrType' /\ MovesTo(t, "ended", thr[t].at, thr[t].left)
<1>t. /\ ThrType /\ thr[t].pc \in Pcs /\ thr[t].at \in Nat /\ thr[t].left \in Nat
      /\ thr[t].at + thr[t].left \in Nat
  BY PlaceType DEF DataType, ThrType
<1>c. {"write", "direct", "codec", "await", "ended", "lastflush", "lastwait"} \subseteq Pcs
  BY DEF Pcs
<1> USE DEF Goto, At
<1>1. ASSUME Piece(t)
      PROVE  \E n \in 1 .. MaxPiece, pc \in {"write", "direct"} :
               /\ ThrType' /\ MovesTo(t, pc, thr[t].at, n)
               /\ thr[t].at + n <= Sizes[thr[t].file]
               /\ pc = "direct" => ~ToTarget /\ ThreadType # "test"
  <2>1. PICK n \in 1 .. MaxPiece :
          /\ thr[t].at + n <= Sizes[thr[t].file]
          /\ thr' = [thr EXCEPT ![t].left = n,
                                ![t].pc = IF ToTarget \/ ThreadType = "test" \/ n <= BufSize
                                            THEN "write" ELSE "direct"]
    BY <1>1 DEF Piece
  <2>2. n \in Nat
    BY <2>1
  <2>3. CASE ToTarget \/ ThreadType = "test" \/ n <= BufSize
    <3>1. thr' = [thr EXCEPT ![t].left = n, ![t].pc = "write"]
      BY <2>1, <2>3 DEF ToTarget
    <3>2. ThrType' /\ MovesTo(t, "write", thr[t].at, n)
      BY <3>1, <2>2, <1>t, <1>c, Moves
    <3> QED
      BY <3>2, <2>1
  <2>4. CASE ~(ToTarget \/ ThreadType = "test" \/ n <= BufSize)
    <3>1. thr' = [thr EXCEPT ![t].left = n, ![t].pc = "direct"]
      BY <2>1, <2>4 DEF ToTarget
    <3>2. ThrType' /\ MovesTo(t, "direct", thr[t].at, n)
      BY <3>1, <2>2, <1>t, <1>c, Moves
    <3> QED
      BY <3>2, <2>1, <2>4
  <2> QED
    BY <2>3, <2>4
<1>2. ASSUME Discard(t) \/ Fill(t) \/ (Direct(t) /\ data = << >>)
      PROVE  ThrType' /\ MovesTo(t, "codec", thr[t].at + thr[t].left, 0)
  <2>1. thr' = [thr EXCEPT ![t].pc = "codec", ![t].at = thr[t].at + thr[t].left, ![t].left = 0]
    BY <1>2 DEF Discard, Fill, Direct
  <2> QED
    BY <2>1, <1>t, <1>c, Moves
<1>3. ASSUME FillAndFlush(t)
      PROVE  LET n == BufSize - Len(data)
             IN /\ n \in Nat /\ n < thr[t].left /\ ThrType'
                /\ MovesTo(t, IF ToTarget THEN "await" ELSE "write", thr[t].at + n, thr[t].left - n)
  <2> DEFINE n == BufSize - Len(data)
  <2>1. n \in Nat /\ n < thr[t].left /\ thr[t].at + n \in Nat /\ thr[t].left - n \in Nat
    <3>1. Len(data) \in Nat /\ Len(data) <= BufSize /\ BufSize \in Nat
      BY ExtractAssumption DEF DataType
    <3>2. Len(data) + thr[t].left > BufSize
      BY <1>3 DEF FillAndFlush
    <3> QED
      BY <3>1, <3>2, <1>t, SMTT(30)
  <2>2. CASE ToTarget
    <3>1. thr' = [thr EXCEPT ![t].pc = "await", ![t].at = thr[t].at + n, ![t].left = thr[t].left - n]
      BY <1>3, <2>2 DEF FillAndFlush, ToTarget
    <3> HIDE DEF n
    <3>2. ThrType' /\ MovesTo(t, "await", thr[t].at + n, thr[t].left - n)
      BY <3>1, <2>1, <1>t, <1>c, Moves
    <3> QED
      BY <3>2, <2>1, <2>2 DEF n
  <2>3. CASE ~ToTarget
    <3>1. thr' = [thr EXCEPT ![t].pc = "write", ![t].at = thr[t].at + n, ![t].left = thr[t].left - n]
      BY <1>3, <2>3 DEF FillAndFlush, ToTarget
    <3> HIDE DEF n
    <3>2. ThrType' /\ MovesTo(t, "write", thr[t].at + n, thr[t].left - n)
      BY <3>1, <2>1, <1>t, <1>c, Moves
    <3> QED
      BY <3>2, <2>1, <2>3 DEF n
  <2> QED
    BY <2>2, <2>3
<1>4. ASSUME Await(t)
      PROVE  ThrType' /\ MovesTo(t, "write", thr[t].at, thr[t].left)
  BY <1>4, <1>t, <1>c, Moves DEF Await
<1>5. ASSUME CodecReturns(t)
      PROVE  ThrType' /\ MovesTo(t, IF AbortOp # 0 /\ ~thr[t].temp THEN "ended" ELSE "lastflush",
                                 thr[t].at, thr[t].left)
  <2>1. CASE AbortOp # 0 /\ ~thr[t].temp
    <3>1. thr' = [thr EXCEPT ![t].pc = "ended"]
      BY <1>5, <2>1 DEF CodecReturns
    <3> QED
      BY <3>1, <2>1, <1>t, <1>c, Moves
  <2>2. CASE ~(AbortOp # 0 /\ ~thr[t].temp)
    <3>1. thr' = [thr EXCEPT ![t].pc = "lastflush"]
      BY <1>5, <2>2 DEF CodecReturns
    <3> QED
      BY <3>1, <2>2, <1>t, <1>c, Moves
  <2> QED
    BY <2>1, <2>2
<1>6. ASSUME LastFlush(t)
      PROVE  ThrType' /\ MovesTo(t, IF ToTarget THEN "lastwait" ELSE "ended", thr[t].at, thr[t].left)
  <2>1. CASE ToTarget
    <3>1. thr' = [thr EXCEPT ![t].pc = "lastwait"]
      BY <1>6, <2>1 DEF LastFlush, AfterLastFlush
    <3> QED
      BY <3>1, <2>1, <1>t, <1>c, Moves
  <2>2. CASE ~ToTarget
    <3>1. thr' = [thr EXCEPT ![t].pc = "ended"]
      BY <1>6, <2>2 DEF LastFlush
    <3> QED
      BY <3>1, <2>2, <1>t, <1>c, Moves
  <2> QED
    BY <2>1, <2>2
<1>7. ASSUME LastWait(t)
      PROVE  ThrType' /\ MovesTo(t, "ended", thr[t].at, thr[t].left)
  BY <1>7, <1>t, <1>c, Moves DEF LastWait
<1> QED
  BY <1>1, <1>2, <1>3, <1>4, <1>5, <1>6, <1>7

\* A write changes nothing, or appends the cells to one of the two outputs
LEMMA StoreType ==
  ASSUME DataType, NEW cells \in Seq(Cell), Store(cells), Main \in Threads
  PROVE  got' \in Seq(Cell) /\ dest' \in [Files -> Seq(Cell)]
<1>1. thr[Main].file \in Files
  BY PlaceType
<1>2. got \o cells \in Seq(Cell) /\ dest[thr[Main].file] \o cells \in Seq(Cell)
  BY <1>1, ConcatProperties DEF DataType
<1> QED
  BY <1>1, <1>2 DEF Store, DataType

\* What does not change the buffer beyond its size, and writes cells, keeps the types
LEMMA DataKept ==
  ASSUME DataType, ThrType',
         data' \in Seq(Cell), Len(data') <= BufSize, got' \in Seq(Cell),
         dest' \in [Files -> Seq(Cell)], UNCHANGED <<temps, dropped>>
  PROVE  DataType'
BY DEF DataType, ThrType

\* The codec keeps the types
LEMMA CodecType ==
  ASSUME ExtractInv, NEW t \in Threads, Codec(t)
  PROVE  DataType'
<1> USE ExtractAssumption
<1>t. /\ DataType /\ Main \in Threads /\ ThrType
      /\ data \in Seq(Cell) /\ Len(data) \in Nat /\ Len(data) <= BufSize
      /\ got \in Seq(Cell) /\ dest \in [Files -> Seq(Cell)]
      /\ << >> \in Seq(Cell) /\ Len(<< >>) = 0
  BY EmptySeq DEF ExtractInv, DataType, Threads, ThrType
<1>p. thr[t].at \in Nat /\ thr[t].left \in Nat
  BY <1>t, PlaceType
<1>f. UNCHANGED <<temps, dropped>>
  BY <1>t, CodecFrame DEF Stored
<1>1. CASE Piece(t)
  <2>1. ThrType'
    BY <1>1, <1>t, CodecMoves
  <2> QED
    BY <2>1, <1>1, <1>t, <1>f, DataKept DEF Piece, InBuffer
<1>2. CASE Discard(t)
  <2>1. ThrType'
    BY <1>2, <1>t, CodecMoves
  <2> QED
    BY <2>1, <1>2, <1>t, <1>f, DataKept DEF Discard, InBuffer
<1>3. CASE Fill(t)
  <2>1. ThrType'
    BY <1>3, <1>t, CodecMoves
  <2>2. data' \in Seq(Cell) /\ Len(data') <= BufSize
    <3>1. Cells(t, thr[t].left) \in Seq(Cell) /\ Len(Cells(t, thr[t].left)) = thr[t].left
      BY <1>t, <1>p, CellsType
    <3>2. data' = data \o Cells(t, thr[t].left) /\ Len(data) + thr[t].left <= BufSize
      BY <1>3 DEF Fill
    <3> QED
      BY <3>1, <3>2, <1>t, ConcatProperties
  <2> QED
    BY <2>1, <2>2, <1>3, <1>t, <1>f, DataKept DEF Fill, InBuffer
<1>4. CASE FillAndFlush(t)
  <2> DEFINE n == BufSize - Len(data)
             full == data \o Cells(t, n)
  <2>1. n \in Nat /\ ThrType'
    BY <1>4, <1>t, CodecMoves
  <2>2. full \in Seq(Cell) /\ Len(full) = BufSize
    <3>1. Cells(t, n) \in Seq(Cell) /\ Len(Cells(t, n)) = n
      BY <2>1, <1>t, CellsType
    <3>2. full \in Seq(Cell) /\ Len(full) = Len(data) + Len(Cells(t, n))
      BY <3>1, <1>t, ConcatProperties
    <3>3. Len(data) + n = BufSize
      BY <1>t
    <3> QED
      BY <3>1, <3>2, <3>3
  <2>4. IF ToTarget THEN data' = full /\ InBuffer ELSE data' = << >> /\ Store(full)
    BY <1>4 DEF FillAndFlush
  <2> HIDE DEF n, full
  <2>6. CASE ToTarget
    BY <2>1, <2>2, <2>4, <2>6, <1>t, <1>f, DataKept DEF InBuffer
  <2>7. CASE ~ToTarget
    BY <2>1, <2>2, <2>4, <2>7, <1>t, <1>f, StoreType, DataKept
  <2> QED
    BY <2>6, <2>7
<1>5. CASE Await(t)
  <2>1. ThrType'
    BY <1>5, <1>t, CodecMoves
  <2> QED
    BY <2>1, <1>5, <1>t, <1>f, DataKept DEF Await, InBuffer
<1>6. CASE Direct(t)
  <2>1. CASE data # << >>
    <3>1. Store(data) /\ data' = << >> /\ UNCHANGED thr
      BY <1>6, <2>1 DEF Direct
    <3> QED
      BY <3>1, <1>t, <1>f, StoreType, DataKept DEF ThrType
  <2>2. CASE data = << >>
    <3>1. Store(Cells(t, thr[t].left)) /\ data' = data
      BY <1>6, <2>2 DEF Direct
    <3>2. ThrType'
      BY <1>6, <2>2, <1>t, CodecMoves
    <3>3. Cells(t, thr[t].left) \in Seq(Cell)
      BY <1>t, <1>p, CellsType
    <3> QED
      BY <3>1, <3>2, <3>3, <1>t, <1>f, StoreType, DataKept
  <2> QED
    BY <2>1, <2>2
<1>7. CASE ArchiveFails(t)
  BY <1>7, <1>t, <1>f, DataKept DEF ArchiveFails, ThrType
<1>8. CASE CodecReturns(t)
  <2>1. ThrType'
    BY <1>8, <1>t, CodecMoves
  <2> QED
    BY <2>1, <1>8, <1>t, <1>f, DataKept DEF CodecReturns, InBuffer
<1>9. CASE LastFlush(t)
  <2>1. ThrType'
    BY <1>9, <1>t, CodecMoves
  <2>2. CASE ToTarget
    BY <2>1, <2>2, <1>9, <1>t, <1>f, DataKept DEF LastFlush, InBuffer
  <2>3. CASE ~ToTarget
    <3>1. data' = << >> /\ IF data = << >> THEN UNCHANGED <<AbortOp, dest, got>> ELSE Store(data)
      BY <1>9, <2>3 DEF LastFlush
    <3> QED
      BY <3>1, <2>1, <1>t, <1>f, StoreType, DataKept
  <2> QED
    BY <2>2, <2>3
<1>10. CASE LastWait(t)
  <2>1. ThrType'
    BY <1>10, <1>t, CodecMoves
  <2> QED
    BY <2>1, <1>10, <1>t, <1>f, DataKept DEF LastWait, InBuffer
<1> QED
  BY <1>1, <1>2, <1>3, <1>4, <1>5, <1>6, <1>7, <1>8, <1>9, <1>10 DEF Codec

OnlyMoves(t) == \A u \in Threads \ {t} : thr'[u] = thr[u]

\* A thread begins with the first cell, and ends at rest
LEMMA Starts ==
  ASSUME ThrType, NEW t \in Threads, NEW f \in Files, NEW temp \in BOOLEAN
  PROVE  /\ thr' = [thr EXCEPT ![t] = Started(f, temp)] =>
              /\ ThrType' /\ OnlyMoves(t)
              /\ thr'[t].pc = "codec" /\ thr'[t].file = f /\ thr'[t].at = 0 /\ thr'[t].left = 0
         /\ thr' = [thr EXCEPT ![t] = Resting] => ThrType' /\ OnlyMoves(t) /\ Off(t)'
<1>1. ASSUME thr' = [thr EXCEPT ![t] = Started(f, temp)]
      PROVE  /\ ThrType' /\ OnlyMoves(t)
             /\ thr'[t].pc = "codec" /\ thr'[t].file = f /\ thr'[t].at = 0 /\ thr'[t].left = 0
  <2> DEFINE s == [pc |-> "codec", file |-> f, at |-> 0, left |-> 0, temp |-> temp]
  <2>2. thr' = [thr EXCEPT ![t] = s]
    BY <1>1 DEF Started
  <2> QED
    BY <2>2 DEF ThrType, OnlyMoves, Pcs
<1>2. ASSUME thr' = [thr EXCEPT ![t] = Resting]
      PROVE  ThrType' /\ OnlyMoves(t) /\ Off(t)'
  BY <1>2, SizesFacts DEF ThrType, OnlyMoves, Pcs, Resting, Off, At
<1> QED
  BY <1>1, <1>2

\* Every step keeps the types of the data
LEMMA TypeStep ==
  ASSUME ExtractInv, Next
  PROVE  DataType'
<1>t. /\ DataType /\ ControlType /\ ThrType /\ Main \in Threads /\ Producers \subseteq Threads
      /\ data \in Seq(Cell) /\ Len(data) \in Nat /\ Len(data) <= BufSize
      /\ got \in Seq(Cell) /\ dest \in [Files -> Seq(Cell)]
      /\ << >> \in Seq(Cell) /\ Len(<< >>) = 0 /\ BufSize \in Nat
      /\ << >> \in Seq(Files)
  BY EmptySeq, ExtractAssumption DEF ExtractInv, DataType, Threads, ThrType
<1>n. NoFile \in Seq(Cell)
  BY DEF NoFile, Cell
<1>1. CASE \E t \in Threads : Codec(t)
  BY <1>1, CodecType
<1>2. CASE \E p \in Producers : ProducerEnds(p)
  <2>1. ThrType'
    BY <1>2, <1>t, SizesFacts, Starts DEF ProducerEnds
  <2> QED
    BY <2>1, <1>2, <1>t, DataKept DEF ProducerEnds, InBuffer, Stored
<1>3. CASE NextFile
  <2>1. item \in Files
    BY <1>3, <1>t DEF NextFile, MoreFiles, ControlType, Files
  <2>2. ThrType'
    BY <1>3, <2>1, <1>t, Starts DEF NextFile
  <2>3. dest' \in [Files -> Seq(Cell)]
    BY <1>3, <2>1, <1>t DEF NextFile
  <2> QED
    BY <2>2, <2>3, <1>3, <1>t, DataKept DEF NextFile, JobStep, dragVars
<1>4. CASE SkipFile
  BY <1>4, <1>t, DataKept DEF SkipFile, JobStep, dragVars, ThrType
<1>5. CASE FileDone
  <2>1. item \in Files
    BY <1>5 DEF FileDone, ExtractInv, RoleInv, MainInv, Working
  <2>2. ThrType'
    BY <1>5, <1>t, SizesFacts, Starts DEF FileDone
  <2>3. dest' \in [Files -> Seq(Cell)]
    BY <1>5, <2>1, <1>t, <1>n DEF FileDone
  <2>4. temps' \in Seq(Files)
    <3>1. <<item>> \in Seq(Files)
      BY <2>1
    <3>2. <<item>> \o temps \in Seq(Files)
      BY <3>1, <1>t, ConcatProperties DEF DataType
    <3> QED
      BY <1>5, <3>2, <1>t DEF FileDone, DataType
  <2> QED
    BY <2>2, <2>3, <2>4, <1>5, <1>t DEF FileDone, JobStep, dragVars, DataType, ThrType
<1>6. CASE JobEnds
  BY <1>6, <1>t, DataKept DEF JobEnds, JobStep, dragVars, ThrType
<1>7. CASE RunWorker
  BY <1>7, <1>t, <1>n DEF RunWorker, Setup, DataType
<1>8. CASE WorkerEnds
  BY <1>8, <1>t DEF WorkerEnds, dragVars, DataType
<1>9. CASE Ask \/ Answer \/ WmClose
  BY <1>9, <1>t, WindowFrame, DataKept DEF AllButAbort, ThrType
<1>10. CASE BeginDrag
  BY <1>10, <1>t, <1>n DEF BeginDrag, Setup, DataType
<1>11. CASE Drop \/ GetHDrop \/ GetDescriptor \/ GetContentsFails \/ StreamOver
  BY <1>11, <1>t, DataKept
     DEF Drop, GetHDrop, GetDescriptor, GetContentsFails, StreamOver, DragStep, ThrType
<1>12. CASE GetContents
  <2>1. ThrType'
    <3>1. PICK f \in Files :
            IF ThreadInGetData THEN \E p \in Producers : NewProducer(p, f, phase = 6)
                               ELSE UNCHANGED thr
      BY <1>12 DEF GetContents
    <3>2. (phase = 6) \in BOOLEAN
      OBVIOUS
    <3> QED
      BY <3>1, <3>2, <1>t, Starts DEF NewProducer, ThrType
  <2> QED
    BY <2>1, <1>12, <1>t, DataKept DEF GetContents, DragStep
<1>13. CASE CopyTo
  <2>1. ThrType'
    <3>1. (phase = 4) \in BOOLEAN /\ next \in Files
      BY <1>t DEF ControlType
    <3> QED
      BY <3>1, <1>13, <1>t, Starts DEF CopyTo
  <2> QED
    BY <2>1, <1>13, <1>t, DataKept DEF CopyTo, DragStep
<1>14. CASE Read
  <2>1. ThrType'
    <3>1. (phase = 4) \in BOOLEAN /\ next \in Files
      BY <1>t DEF ControlType
    <3>2. CASE phase < 6
      <4>1. PICK p \in Producers : thr' = [thr EXCEPT ![p] = Started(next, phase = 4)]
        BY <3>2, <1>14 DEF Read, NewProducer
      <4> QED
        BY <4>1, <3>1, <1>t, Starts
    <3>3. CASE ~(phase < 6)
      BY <3>3, <1>14, <1>t DEF Read, ThrType
    <3> QED
      BY <3>2, <3>3
  <2> QED
    BY <2>1, <1>14, <1>t, DataKept DEF Read, DragStep
<1>15. CASE EndDrag
  BY <1>15, <1>t, DataKept DEF EndDrag, jobVars, ThrType
<1>16. CASE HDropReturns
  BY <1>16, <1>t DEF HDropReturns, DragStep, DataType
<1>17. CASE CopyToReturns
  <2>1. ThrType'
    BY <1>17, <1>t, SizesFacts, Starts DEF CopyToReturns
  <2>2. dest' \in [Files -> Seq(Cell)]
    BY <1>17, <1>t, <1>n DEF CopyToReturns, Used
  <2> QED
    BY <2>1, <2>2, <1>17, <1>t, DataKept DEF CopyToReturns
<1>18. CASE ReadArms
  <2>1. (data' = data \/ data' = << >>) /\ UNCHANGED <<thr, got, dest, temps, dropped>>
    <3>1. ReadSets[1] = "bufused" /\ ReadSets[2] = "buf"
      BY DEF ReadSets
    <3> QED
      BY <1>18, <3>1 DEF ReadArms, ReadStep, DragStep
  <2>2. data' \in Seq(Cell) /\ Len(data') <= BufSize
    <3>1. << >> \in Seq(Cell) /\ Len(<< >>) <= BufSize
      BY <1>t
    <3> QED
      BY <2>1, <3>1, <1>t
  <2>3. ThrType' /\ got' \in Seq(Cell) /\ dest' \in [Files -> Seq(Cell)]
    BY <2>1, <1>t DEF ThrType
  <2> QED
    BY <2>1, <2>2, <2>3, <1>t, DataKept
<1>19. CASE ReadReturns
  <2>1. got' \in Seq(Cell)
    BY <1>19, <1>t, ConcatProperties DEF ReadReturns
  <2> QED
    BY <2>1, <1>19, <1>t, DataKept DEF ReadReturns, DragStep, ThrType
<1> QED
  BY <1>1, <1>2, <1>3, <1>4, <1>5, <1>6, <1>7, <1>8, <1>9, <1>10, <1>11, <1>12, <1>13, <1>14,
     <1>15, <1>16, <1>17, <1>18, <1>19 DEF Next, Operate, Job, TargetCalls, CallReturns

-----------------------------------------------------------------------------
(* Threads.                                                                *)

\* Either Main is at work, for a job or CopyTo, or producers are, for Read
LEMMA WhoRuns ==
  ASSUME ExtractInv
  PROVE  /\ Main \in Threads /\ \A p \in Producers : p \in Threads /\ p # Main
         /\ ~Off(Main) => ~ToTarget /\ ~Streaming /\ \A p \in Producers : Off(p)
         /\ \A p \in Producers : ~Off(p) => Off(Main) /\ job = "none"
         /\ Streaming => ToTarget
BY ExtractAssumption
   DEF ExtractInv, ControlType, RoleInv, ProducerInv, Streaming, Stuck, ToTarget, Threads, WorkerTypes

\* A producer that takes a step is one that Read waits for, or will
LEMMA WhoStreams ==
  ASSUME ExtractInv, NEW p \in Producers, Codec(p) \/ ProducerEnds(p)
  PROVE  Streaming /\ ToTarget /\ ~Off(p) /\ \A q \in Producers \ {p} : Off(q)
<1>1. ~Off(p)
  BY DEF Codec, Piece, Discard, Fill, FillAndFlush, Await, Direct, ArchiveFails, CodecReturns,
         LastFlush, LastWait, ProducerEnds, Off, At
<1>2. ~Stuck(p)
  BY DEF Codec, Piece, Discard, Fill, FillAndFlush, Await, Direct, ArchiveFails, CodecReturns,
         LastFlush, LastWait, ProducerEnds, Stuck, At
<1> QED
  BY <1>1, <1>2, WhoRuns DEF ExtractInv, ProducerInv

\* What leaves the places, the phase and the target alone keeps producers in order
LEMMA ProducerKept ==
  ASSUME ProducerInv, UNCHANGED <<thr, phase, target, job>>, buf' \in {buf, "none"},
         AbortOp # 0 => AbortOp' # 0
  PROVE  ProducerInv'
BY DEF ProducerInv, Streaming, Stuck, Off, At

\* Every step keeps producers apart, unless an operation is begun with one left over from
\* before
LEMMA ProducerStep ==
  ASSUME ExtractInv, Next, ~disturbed'
  PROVE  ProducerInv'
<1>t. /\ ProducerInv /\ RoleInv /\ ControlType /\ DataType /\ ThrType
      /\ Main \in Threads /\ \A p \in Producers : p \in Threads /\ p # Main
  BY WhoRuns DEF ExtractInv, DataType, ThrType
<1>r. phase \in -1 .. 5 => \A p \in Producers : ~Off(p) => Stuck(p) /\ phase = -1
  BY <1>t DEF ProducerInv, Streaming, Stuck, ControlType
<1>1. CASE \E t \in Threads : Codec(t)
  <2>1. PICK t \in Threads : Codec(t)
    BY <1>1
  <2>2. /\ \A p \in Producers : Off(p)' <=> Off(p)
        /\ \A p \in Producers : ~Off(p) => Streaming
        /\ UNCHANGED <<phase, target>> /\ buf' \in {buf, "none"}
    <3>1. CASE t = Main
      BY <2>1, <3>1, <1>t, CodecFrame, WhoRuns DEF Stored, Off, At
    <3>2. CASE t \in Producers
      BY <2>1, <3>2, <1>t, CodecFrame, WhoStreams DEF Stored, Off, At
    <3> QED
      BY <3>1, <3>2 DEF Threads
  <2> QED
    BY <2>2, <1>t DEF ProducerInv, Streaming
<1>2. CASE \E p \in Producers : ProducerEnds(p)
  <2>1. PICK p \in Producers : ProducerEnds(p)
    BY <1>2
  <2>2. \A q \in Producers : Off(q)'
    <3>1. OnlyMoves(p) /\ Off(p)'
      BY <2>1, <1>t, SizesFacts, Starts DEF ProducerEnds
    <3>2. \A q \in Producers \ {p} : Off(q)
      BY <2>1, WhoStreams
    <3> QED
      BY <3>1, <3>2, <1>t DEF OnlyMoves, Off, At
  <2> QED
    BY <2>1, <2>2 DEF ProducerInv, ProducerEnds
<1>3. CASE NextFile \/ FileDone
  <2>1. OnlyMoves(Main)
    BY <1>3, <1>t DEF NextFile, FileDone, OnlyMoves, ThrType
  <2>2. \A p \in Producers : Off(p)
    BY <1>3, <1>t DEF NextFile, FileDone, ProducerInv, Stuck, Streaming, RoleInv, WorkerTypes
  <2>3. (\A p \in Producers : Off(p)') /\ UNCHANGED <<buf, phase, target>>
    BY <1>3, <2>1, <2>2, <1>t
       DEF NextFile, FileDone, JobStep, dragVars, OnlyMoves, Off, At
  <2> QED
    BY <2>3, <1>t DEF ProducerInv
<1>4. CASE SkipFile \/ JobEnds
  <2>1. \A p \in Producers : Off(p)
    BY <1>4, <1>t DEF SkipFile, JobEnds, ProducerInv, Stuck, Streaming, RoleInv, WorkerTypes
  <2>2. UNCHANGED <<thr, buf, phase, target>>
    BY <1>4 DEF SkipFile, JobEnds, JobStep, dragVars
  <2> QED
    BY <2>1, <2>2, <1>t DEF ProducerInv, Off, At
<1>5. CASE RunWorker \/ BeginDrag
  <2>0. ~LeftWaiting
    BY <1>5, Zenon DEF RunWorker, BeginDrag, Setup
  <2>1. (\A p \in Producers : Off(p)) /\ thr' = thr /\ phase' < 6
    BY <1>5, <1>r, <2>0, <1>t DEF RunWorker, BeginDrag, Idle, LeftWaiting, Stuck
  <2>2. phase' \in Int
    BY <1>5, <1>t DEF RunWorker, BeginDrag, ControlType
  <2> QED
    BY <2>1, <2>2 DEF ProducerInv, Off, At
<1>6. CASE WorkerEnds
  BY <1>6, <1>t DEF WorkerEnds, dragVars, ProducerInv, Stuck, Streaming, RoleInv, Off, At
<1>7. CASE Ask \/ Answer \/ WmClose
  BY <1>7, <1>t, WindowFrame, ProducerKept DEF AllButAbort
<1>8. CASE Drop \/ GetHDrop \/ GetDescriptor
  <2>1. (\A p \in Producers : Off(p)) /\ thr' = thr /\ phase' \in 0 .. 3
    BY <1>8, <1>r, <1>t DEF Drop, GetHDrop, GetDescriptor, DragStep, RoleInv
  <2> QED
    BY <2>1 DEF ProducerInv, Off, At
<1>9. CASE GetContentsFails \/ StreamOver
  BY <1>9, <1>t DEF GetContentsFails, StreamOver, DragStep, abortVars, ProducerInv, Stuck, Streaming,
                    Off, At
<1>10. CASE GetContents
  <2>1. \A p \in Producers : Off(p)
    BY <1>10, <1>r, <1>t DEF GetContents, ProducerInv, Stuck, Streaming, ControlType
  <2>2. phase \in 1 .. 7 /\ target = "free" /\ target' = "stream" /\ buf' = buf
    BY <1>10, <1>t DEF GetContents, ControlType, DragStep
  <2>3. phase' = IF phase = 1 THEN 5 ELSE IF phase \in {2, 3} THEN phase + 2 ELSE phase
    <3>1. phase' = CASE phase = 1 -> 5 [] phase \in {2, 3} -> phase + 2 [] OTHER -> phase
      BY <1>10 DEF GetContents
    <3> QED
      BY <3>1
  <2>4. CASE ToTarget
    <3>1. phase \in {6, 7} /\ phase' = phase
      BY <2>2, <2>3, <2>4, <1>t DEF ToTarget, RoleInv, ControlType
    <3>2. PICK p \in Producers : OnlyMoves(p)
      BY <1>10, <2>4, <1>t DEF GetContents, ThreadInGetData, NewProducer, OnlyMoves, ThrType
    <3>3. \A q \in Producers : q # p => Off(q)'
      BY <2>1, <3>2, <1>t DEF OnlyMoves, Off, At
    <3> QED
      BY <2>2, <3>1, <3>3, <1>t DEF ProducerInv, Streaming
  <2>5. CASE ~ToTarget
    <3>1. thr' = thr /\ phase' < 6
      BY <1>10, <2>2, <2>3, <2>5, <1>t DEF GetContents, ThreadInGetData, ToTarget, RoleInv, ControlType
    <3>2. phase' \in Int
      BY <2>2, <2>3
    <3> QED
      BY <2>1, <3>1, <3>2 DEF ProducerInv, Off, At
  <2> QED
    BY <2>4, <2>5
<1>11. CASE CopyTo \/ CopyToReturns
  <2>1. OnlyMoves(Main) /\ phase \in {4, 5} /\ phase' = phase
    BY <1>11, <1>t DEF CopyTo, CopyToReturns, OnlyMoves, ThrType, RoleInv
  <2>2. \A p \in Producers : Off(p)'
    BY <2>1, <1>r, <1>t DEF OnlyMoves, Off, At
  <2> QED
    BY <2>1, <2>2 DEF ProducerInv
<1>12. CASE Read
  <2>1. CASE phase < 6
    <3>1. \A p \in Producers : Off(p)
      BY <1>12, <2>1, <1>r, <1>t DEF Read, RoleInv, ControlType
    <3>2. phase' \in {6, 7} /\ buf' = "none" /\ target' = "read"
      BY <1>12, <2>1, <1>t DEF Read, RoleInv, ControlType
    <3>3. PICK p \in Producers : OnlyMoves(p)
      BY <1>12, <2>1, <1>t DEF Read, NewProducer, OnlyMoves, ThrType
    <3>4. \A q \in Producers : q # p => Off(q)'
      BY <3>1, <3>3, <1>t DEF OnlyMoves, Off, At
    <3> QED
      BY <3>2, <3>4, <1>t DEF ProducerInv, Streaming
  <2>2. CASE ~(phase < 6)
    BY <1>12, <2>2, <1>t DEF Read, DragStep, ProducerInv, Streaming, Stuck, Off, At
  <2> QED
    BY <2>1, <2>2
<1>13. CASE EndDrag
  <2>1. /\ \A p \in Producers : ~Off(p) => Stuck(p)
        /\ thr' = thr /\ phase' = -1 /\ buf' \in {buf, "none"} /\ job' = job /\ AbortOp' = AbortOp
    BY <1>13, <1>t DEF EndDrag, jobVars, ProducerInv, Streaming
  <2>2. \A p \in Producers : ~Off(p)' => Stuck(p)'
    BY <2>1 DEF Off, Stuck, At
  <2> QED
    BY <2>1, <2>2, <1>t DEF ProducerInv, Off, At
<1>14. CASE HDropReturns
  <2>1. (\A p \in Producers : Off(p)) /\ thr' = thr /\ phase' = 2
    BY <1>14, <1>r, <1>t DEF HDropReturns, DragStep, RoleInv
  <2> QED
    BY <2>1 DEF ProducerInv, Off, At
<1>15. CASE ReadArms
  <2>1. /\ target \in {"read", "arming"} /\ target' \in {"arming", "reading"}
        /\ UNCHANGED <<thr, phase, job, AbortOp>>
        /\ target' = "arming" => buf' = buf
    <3>1. ReadSets[1] = "bufused" /\ ReadSets[2] = "buf"
      BY DEF ReadSets
    <3> QED
      BY <1>15, <3>1 DEF ReadArms, ReadStep, DragStep, abortVars
  <2>2. phase >= 6 /\ Streaming /\ Streaming'
    BY <2>1, <1>t DEF RoleInv, Streaming
  <2> QED
    BY <2>1, <2>2, <1>t DEF ProducerInv, Off, At
<1>16. CASE ReadReturns
  <2>1. /\ target = "reading" /\ buf = "none" /\ UNCHANGED <<thr, phase, job, AbortOp, buf>>
        /\ target' = IF data = << >> THEN "eof" ELSE "stream"
    BY <1>16 DEF ReadReturns, DragStep, abortVars
  <2>2. phase >= 6 /\ Streaming
    BY <2>1, <1>t DEF RoleInv, Streaming
  <2>3. CASE data # << >>
    BY <2>1, <2>2, <2>3, <1>t DEF ProducerInv, Streaming, Off, At
  <2>4. CASE data = << >>
    <3>1. \A p \in Producers : ~Off(p) => At(p, "lastwait") /\ AbortOp # 0
      <4> SUFFICES ASSUME NEW p \in Producers, ~Off(p) PROVE At(p, "lastwait") /\ AbortOp # 0
        OBVIOUS
      <4>1. thr[p].pc \in Pcs
        BY <1>t, PlaceType
      <4> QED
        BY <4>1, <2>1, <2>2, <2>4 DEF ExtractInv, BatonInv, Baton, Off, At, Pcs
    <3>2. job = "none" /\ phase \in {6, 7}
      BY <2>1, <2>2, <1>t DEF RoleInv, ControlType, WorkerTypes
    <3> QED
      BY <2>1, <3>1, <3>2, <1>t DEF ProducerInv, Stuck, Off, At
  <2> QED
    BY <2>3, <2>4
<1> QED
  BY <1>1, <1>2, <1>3, <1>4, <1>5, <1>6, <1>7, <1>8, <1>9, <1>10, <1>11, <1>12, <1>13, <1>14,
     <1>15, <1>16 DEF Next, Operate, Job, TargetCalls, CallReturns

-----------------------------------------------------------------------------
(* Main in the codec.                                                      *)

\* Putting a thread's next cells behind what is out and in the buffer
LEMMA MoreCells ==
  ASSUME DataType, NEW t \in Threads, NEW n \in Nat, NEW out \in Seq(Cell),
         out \o data = Prefix(thr[t].file, thr[t].at)
  PROVE  /\ out \o (data \o Cells(t, n)) = Prefix(thr[t].file, thr[t].at + n)
         /\ (out \o data) \o Cells(t, n) = Prefix(thr[t].file, thr[t].at + n)
<1>1. /\ data \in Seq(Cell) /\ Cells(t, n) \in Seq(Cell)
      /\ thr[t].file \in Files /\ thr[t].at \in Nat
  BY PlaceType, CellsType DEF DataType
<1>2. Prefix(thr[t].file, thr[t].at) \o Cells(t, n) = Prefix(thr[t].file, thr[t].at + n)
  BY <1>1, PrefixAppend DEF Cells
<1>3. (out \o data) \o Cells(t, n) = Prefix(thr[t].file, thr[t].at + n)
  BY <1>2
<1>4. (out \o data) \o Cells(t, n) = out \o (data \o Cells(t, n))
  <2>1. \A a, b, c \in Seq(Cell) : (a \o b) \o c = a \o (b \o c)
    OBVIOUS
  <2> QED
    BY <2>1, <1>1, Zenon
<1> QED
  BY <1>3, <1>4

\* Main writes to what Out is
LEMMA StoreOut ==
  ASSUME ExtractInv, ~Off(Main), NEW cells, Store(cells), Stored, AbortOp' = 0
  PROVE  AbortOp = 0 /\ Out' = Out \o cells
<1>1. /\ Main \in Threads /\ DataType /\ Working
      /\ dest \in [Files -> Seq(Cell)] /\ thr[Main].file \in Files
  BY WhoRuns, PlaceType DEF ExtractInv, MainInv, DataType
<1>2. CASE ThreadType = "toexplorer"
  <2>1. AbortOp' = AbortOp /\ got' = got \o cells
    BY <1>2 DEF Store
  <2>2. ThreadType' = ThreadType
    BY DEF Stored
  <2> QED
    BY <1>2, <2>1, <2>2 DEF Out
<1>3. CASE ThreadType # "toexplorer"
  <2>1. thr[Main].file = item
    BY <1>1, <1>3 DEF Working
  <2>2. AbortOp' = AbortOp /\ dest' = [dest EXCEPT ![item] = @ \o cells]
    BY <1>3, <2>1 DEF Store
  <2> QED
    BY <1>1, <1>3, <2>1, <2>2 DEF Stored, Out
<1> QED
  BY <1>2, <1>3

\* What Main writes, with what it still has, is the file so far
LEMMA WorkStep ==
  ASSUME ExtractInv, Codec(Main)
  PROVE  Working'
<1>t. /\ DataType /\ Main \in Threads /\ ~ToTarget /\ ~Off(Main) /\ Working /\ Stored
      /\ thr'[Main].file = thr[Main].file
      /\ data \in Seq(Cell) /\ Out \in Seq(Cell) /\ BufSize \in Nat
  <2>1. Main \in Threads /\ DataType /\ MainInv
    BY WhoRuns DEF ExtractInv
  <2>2. ~Off(Main) /\ Stored /\ thr'[Main].file = thr[Main].file
    BY <2>1, CodecFrame
  <2>3. Working /\ ~ToTarget
    BY <2>1, <2>2, WhoRuns DEF MainInv
  <2>4. Out \in Seq(Cell)
    BY <2>1, <2>3, PlaceType DEF Working, Out, DataType
  <2> QED
    BY <2>1, <2>2, <2>3, <2>4, ExtractAssumption DEF DataType
<1>p. /\ thr[Main].at \in Nat /\ thr[Main].left \in Nat /\ thr[Main].file \in Files
      /\ thr[Main].pc \in Pcs
  BY <1>t, PlaceType
<1>z. Sizes[thr[Main].file] \in Nat
  BY <1>p, SizesFacts
<1>o. UNCHANGED <<dest, got>> => Out' = Out
  BY <1>t DEF Stored, Out
<1> USE DEF At
<1>1. CASE Piece(Main)
  <2>1. PICK n \in 1 .. MaxPiece, pc \in {"write", "direct"} :
          /\ MovesTo(Main, pc, thr[Main].at, n)
          /\ thr[Main].at + n <= Sizes[thr[Main].file]
          /\ pc = "direct" => ThreadType # "test"
    BY <1>1, <1>t, CodecMoves
  <2>2. AbortOp' = AbortOp /\ data' = data /\ Out' = Out
    BY <1>1, <1>o DEF Piece, InBuffer
  <2> QED
    BY <2>1, <2>2, <1>t DEF Working, Stored, MovesTo
<1>2. CASE Discard(Main)
  <2>1. MovesTo(Main, "codec", thr[Main].at + thr[Main].left, 0)
    BY <1>2, <1>t, CodecMoves
  <2>2. AbortOp' = AbortOp /\ data' = data /\ ThreadType = "test"
    BY <1>2 DEF Discard, InBuffer
  <2> QED
    BY <2>1, <2>2, <1>t, <1>p, <1>z DEF Working, Stored, MovesTo
<1>3. CASE Fill(Main)
  <2>1. MovesTo(Main, "codec", thr[Main].at + thr[Main].left, 0)
    BY <1>3, <1>t, CodecMoves
  <2>2. /\ AbortOp' = AbortOp /\ data' = data \o Cells(Main, thr[Main].left) /\ ThreadType # "test"
        /\ Out' = Out
    BY <1>3, <1>o DEF Fill, InBuffer
  <2>3. AbortOp = 0 => Out \o data' = Prefix(thr[Main].file, thr[Main].at + thr[Main].left)
    BY <2>2, <1>t, <1>p, MoreCells DEF Working
  <2> QED
    BY <2>1, <2>2, <2>3, <1>t, <1>p, <1>z, SMTT(30) DEF Working, Stored, MovesTo
<1>4. CASE FillAndFlush(Main)
  <2> DEFINE n == BufSize - Len(data)
             full == data \o Cells(Main, n)
  <2>1. n \in Nat /\ MovesTo(Main, "write", thr[Main].at + n, thr[Main].left - n)
    BY <1>4, <1>t, CodecMoves
  <2>2. data' = << >> /\ Store(full) /\ ThreadType # "test"
    BY <1>4, <1>t DEF FillAndFlush
  <2> HIDE DEF n
  <2>3. AbortOp = 0 => Out \o full = Prefix(thr[Main].file, thr[Main].at + n)
    BY <2>1, <2>2, <1>t, MoreCells DEF Working
  <2> HIDE DEF full
  <2>4. AbortOp' = 0 => AbortOp = 0 /\ Out' = Out \o full
    BY <2>2, <1>t, StoreOut
  <2>5. AbortOp' = 0 => Out' \o data' = Prefix(thr[Main].file, thr[Main].at + n)
    <3>1. thr[Main].at + n \in Nat
      BY <2>1, <1>p
    <3> QED
      BY <2>2, <2>3, <2>4, <3>1, <1>p, PrefixEnd
  <2> QED
    BY <2>1, <2>2, <2>5, <1>t, <1>p, <1>z DEF Working, Stored, MovesTo
<1>5. CASE Await(Main) \/ LastWait(Main)
  BY <1>5, <1>t DEF Await, LastWait, Working
<1>6. CASE Direct(Main)
  <2>1. CASE data # << >>
    <3>1. Store(data) /\ data' = << >> /\ thr' = thr /\ ThreadType # "test"
      BY <1>6, <2>1, <1>t DEF Direct, Working
    <3>2. AbortOp' = 0 => AbortOp = 0 /\ Out' = Out \o data
      BY <3>1, <1>t, StoreOut
    <3>3. AbortOp' = 0 => Out' \o data' = Prefix(thr[Main].file, thr[Main].at)
      BY <3>1, <3>2, <1>t, <1>p, PrefixEnd DEF Working
    <3> QED
      BY <1>6, <3>1, <3>3, <1>t DEF Direct, Working, Stored
  <2>2. CASE data = << >>
    <3>1. /\ Store(Cells(Main, thr[Main].left)) /\ data' = data /\ ThreadType # "test"
          /\ MovesTo(Main, "codec", thr[Main].at + thr[Main].left, 0)
      BY <1>6, <2>2, <1>t, CodecMoves DEF Direct, Working
    <3>2. AbortOp' = 0 => AbortOp = 0 /\ Out' = Out \o Cells(Main, thr[Main].left)
      BY <3>1, <1>t, StoreOut
    <3>3. AbortOp' = 0 => Out' \o data' = Prefix(thr[Main].file, thr[Main].at + thr[Main].left)
      <4>1. thr[Main].at + thr[Main].left \in Nat
        BY <1>p
      <4>2. Out \o data = Out
        BY <2>2, <1>t, ConcatEmptySeq
      <4>3. AbortOp = 0 =>
              (Out \o data) \o Cells(Main, thr[Main].left)
                = Prefix(thr[Main].file, thr[Main].at + thr[Main].left)
        BY <3>1, <1>t, <1>p, MoreCells DEF Working
      <4> QED
        BY <3>1, <3>2, <2>2, <4>1, <4>2, <4>3, <1>p, PrefixEnd
    <3> QED
      BY <3>1, <3>3, <1>t, <1>p, <1>z DEF Working, Stored, MovesTo
  <2> QED
    BY <2>1, <2>2
<1>7. CASE ArchiveFails(Main)
  BY <1>7, <1>t DEF ArchiveFails, Working, Stored
<1>8. CASE CodecReturns(Main)
  <2>1. MovesTo(Main, IF AbortOp # 0 /\ ~thr[Main].temp THEN "ended" ELSE "lastflush",
                thr[Main].at, thr[Main].left)
    BY <1>8, <1>t, CodecMoves
  <2>2. /\ AbortOp' = AbortOp /\ data' = data /\ Out' = Out /\ thr[Main].left = 0
        /\ AbortOp = 0 => thr[Main].at = Sizes[thr[Main].file]
    BY <1>8, <1>o, <1>t DEF CodecReturns, InBuffer, Working
  <2>3. thr'[Main].pc \in {"lastflush", "ended"} /\ (AbortOp = 0 => thr'[Main].pc = "lastflush")
    BY <2>1 DEF MovesTo
  <2>4. thr'[Main].at = thr[Main].at /\ thr'[Main].left = thr[Main].left
    BY <2>1 DEF MovesTo
  <2> QED
    BY <2>2, <2>3, <2>4, <1>t DEF Working, Stored
<1>9. CASE LastFlush(Main)
  <2>1. MovesTo(Main, "ended", thr[Main].at, thr[Main].left)
    BY <1>9, <1>t, CodecMoves
  <2>2. /\ data' = << >> /\ thr[Main].pc = "lastflush"
        /\ IF data = << >> THEN UNCHANGED <<AbortOp, dest, got>> ELSE Store(data)
    BY <1>9, <1>t DEF LastFlush
  <2>3. AbortOp' = 0 => AbortOp = 0 /\ (data # << >> => Out' = Out \o data)
                                    /\ (data = << >> => Out' = Out)
    BY <2>2, <1>t, <1>o, StoreOut
  <2>4. AbortOp' = 0 /\ ThreadType # "test" => Out' \o data' = Prefix(thr[Main].file, thr[Main].at)
    <3>1. CASE data = << >>
      BY <2>2, <2>3, <3>1, <1>t DEF Working
    <3>2. CASE data # << >>
      BY <2>2, <2>3, <3>2, <1>t, <1>p, PrefixEnd DEF Working
    <3> QED
      BY <3>1, <3>2
  <2> QED
    BY <2>1, <2>2, <2>3, <2>4, <1>t DEF Working, Stored, MovesTo
<1> QED
  BY <1>1, <1>2, <1>3, <1>4, <1>5, <1>6, <1>7, <1>8, <1>9 DEF Codec

\* Every step keeps Main's work in order
LEMMA MainStep ==
  ASSUME ExtractInv, Next
  PROVE  MainInv'
<1>t. /\ RoleInv /\ ControlType /\ DataType /\ ThrType /\ MainInv /\ EmptyInv /\ TargetInv
      /\ Main \in Threads /\ next \in Files
  BY WhoRuns DEF ExtractInv, DataType, ThrType, ControlType
<1>r. RoleInv'
  BY RoleStep
<1>e. << >> \o << >> = << >>
  OBVIOUS
<1>1. CASE \E t \in Threads : Codec(t)
  <2>1. PICK t \in Threads : Codec(t)
    BY <1>1
  <2>2. CASE t = Main
    BY <2>1, <2>2, WorkStep DEF MainInv
  <2>3. CASE t # Main
    <3>1. t \in Producers /\ Off(Main)
      BY <2>1, <2>3, WhoStreams, WhoRuns DEF Threads
    <3> QED
      BY <2>1, <3>1, <2>3, <1>t, CodecFrame DEF MainInv, Off, At
  <2> QED
    BY <2>2, <2>3
<1>2. CASE \E p \in Producers : ProducerEnds(p)
  <2>1. Off(Main) /\ UNCHANGED <<job, target>>
    BY <1>2, WhoStreams, WhoRuns DEF ProducerEnds, InBuffer, Stored
  <2> QED
    BY <2>1, <1>t, <1>r DEF MainInv, RoleInv
<1>3. CASE NextFile
  <2>1. item \in Files /\ AbortOp = 0 /\ data = << >> /\ ThreadType # "toexplorer"
    BY <1>3, <1>t DEF NextFile, MoreFiles, ControlType, RoleInv, EmptyInv, Files, WorkerTypes
  <2>2. thr'[Main].pc = "codec" /\ thr'[Main].file = item /\ thr'[Main].at = 0 /\ thr'[Main].left = 0
    BY <1>3, <2>1, <1>t, Starts DEF NextFile
  <2>3. /\ UNCHANGED <<ThreadType, data, item>> /\ job' = "file"
        /\ ThreadType # "test" => dest'[item] = << >>
    BY <1>3, <2>1, <1>t DEF NextFile, JobStep, DataType
  <2>4. Prefix(item, 0) = << >> /\ Sizes[item] \in Nat
    BY <2>1, PrefixNone, SizesFacts
  <2> QED
    BY <2>1, <2>2, <2>3, <2>4, <1>e DEF MainInv, Working, Out, At
<1>4. CASE CopyTo
  <2>1. /\ ThreadType = "toexplorer" /\ job = "none" /\ got = << >>
        /\ AbortOp = 0 => data = << >>
    BY <1>4, <1>t DEF CopyTo, RoleInv, EmptyInv, TargetInv, WorkerTypes
  <2>2. thr'[Main].pc = "codec" /\ thr'[Main].file = next /\ thr'[Main].at = 0 /\ thr'[Main].left = 0
    <3>1. (phase = 4) \in BOOLEAN
      OBVIOUS
    <3> QED
      BY <1>4, <3>1, <1>t, Starts DEF CopyTo
  <2>3. UNCHANGED <<ThreadType, AbortOp, data, got, next, job>>
    BY <1>4 DEF CopyTo, DragStep, abortVars
  <2>4. Prefix(next, 0) = << >> /\ Sizes[next] \in Nat
    BY <1>t, PrefixNone, SizesFacts
  <2> QED
    BY <2>1, <2>2, <2>3, <2>4, <1>e DEF MainInv, Working, Out, At
<1>5. CASE Ask \/ Answer \/ WmClose
  BY <1>5, <1>t, WindowFrame DEF AllButAbort, MainInv, Working, Out, Off, At
<1>6. CASE SkipFile \/ FileDone \/ JobEnds \/ RunWorker \/ WorkerEnds \/ BeginDrag
  <2>1. job' # "file" /\ target' # "copying"
    BY <1>6, <1>t DEF SkipFile, FileDone, JobEnds, RunWorker, WorkerEnds, BeginDrag, JobStep, Idle,
                      Setup, dragVars, RoleInv, WorkerTypes
  <2> QED
    BY <2>1, <1>r DEF MainInv, RoleInv
<1>7. CASE \/ Drop \/ GetHDrop \/ GetDescriptor \/ GetContentsFails \/ GetContents \/ Read
           \/ StreamOver \/ EndDrag
  <2>1. target \notin {"none", "hdrop", "copying"} /\ target' # "copying"
    BY <1>7 DEF Drop, GetHDrop, GetDescriptor, GetContentsFails, GetContents, Read, StreamOver, EndDrag
  <2>2. job = "none" /\ job' \in {job, "next"}
    BY <1>7, <2>1, <1>t
       DEF Drop, GetHDrop, GetDescriptor, GetContentsFails, GetContents, Read, StreamOver, EndDrag,
           DragStep, jobVars, RoleInv
  <2> QED
    BY <2>1, <2>2, <1>r DEF MainInv, RoleInv
<1>8. CASE HDropReturns \/ CopyToReturns \/ ReadArms \/ ReadReturns
  <2>1. job' # "file"
    BY <1>8, <1>t
       DEF HDropReturns, CopyToReturns, ReadArms, ReadReturns, ReadStep, DragStep, RoleInv
  <2>2. target' # "copying"
    BY <1>8 DEF HDropReturns, CopyToReturns, ReadArms, ReadReturns, ReadStep
  <2> QED
    BY <2>1, <2>2, <1>r DEF MainInv, RoleInv
<1> QED
  BY <1>1, <1>2, <1>3, <1>4, <1>5, <1>6, <1>7, <1>8 DEF Next, Operate, Job, TargetCalls, CallReturns

\* Main writes no file but the one its job is at, and nothing in a test
LEMMA MainWrites ==
  ASSUME ExtractInv, Codec(Main)
  PROVE  \/ dest' = dest
         \/ /\ job = "file" /\ ThreadType \notin {"test", "toexplorer"}
            /\ \A f \in Files \ {item} : dest'[f] = dest[f]
<1>t. /\ Main \in Threads /\ DataType /\ RoleInv /\ Working /\ ~Off(Main)
      /\ dest \in [Files -> Seq(Cell)]
  BY WhoRuns, CodecFrame DEF ExtractInv, MainInv, DataType
<1>1. dest' # dest => ThreadType # "test"
  BY <1>t DEF Codec, Piece, Discard, Fill, FillAndFlush, Await, Direct, ArchiveFails, CodecReturns,
              LastFlush, LastWait, InBuffer, Working, At
<1>2. dest' = dest \/ \E cells : Store(cells)
  BY DEF Codec, Piece, Discard, Fill, FillAndFlush, Await, Direct, ArchiveFails, CodecReturns,
         LastFlush, LastWait, InBuffer
<1>3. ASSUME NEW cells, Store(cells), dest' # dest
      PROVE  ThreadType # "toexplorer" /\ dest' = [dest EXCEPT ![thr[Main].file] = @ \o cells]
  BY <1>3 DEF Store
<1>4. ASSUME dest' # dest
      PROVE  /\ job = "file" /\ ThreadType # "toexplorer"
             /\ \A f \in Files \ {item} : dest'[f] = dest[f]
  <2>1. PICK cells : Store(cells)
    BY <1>2, <1>4
  <2>2. ThreadType # "toexplorer" /\ dest' = [dest EXCEPT ![thr[Main].file] = @ \o cells]
    BY <1>3, <1>4, <2>1
  <2>3. thr[Main].file = item
    BY <2>2, <1>t DEF Working
  <2>4. job = "file"
    BY <2>2, <1>t DEF RoleInv
  <2> QED
    BY <2>2, <2>3, <2>4, <1>t
<1> QED
  BY <1>1, <1>4

\* A producer writes into the buffer only
LEMMA ProducerWrites ==
  ASSUME ExtractInv, NEW p \in Producers, Codec(p)
  PROVE  dest' = dest /\ got' = got
<1>1. ToTarget /\ Baton(p)
  BY WhoStreams DEF ExtractInv, BatonInv
<1> QED
  BY <1>1 DEF Codec, Piece, Discard, Fill, FillAndFlush, Await, Direct, ArchiveFails, CodecReturns,
              LastFlush, LastWait, InBuffer, Stored, Baton, At

-----------------------------------------------------------------------------
(* The buffer between files, and files.                                    *)

\* Every step leaves the buffer empty where nothing uses it
LEMMA EmptyStep ==
  ASSUME ExtractInv, Next
  PROVE  EmptyInv'
<1>t. /\ RoleInv /\ ControlType /\ DataType /\ ThrType /\ MainInv /\ EmptyInv /\ Main \in Threads
  BY WhoRuns DEF ExtractInv, DataType, ThrType
<1>r. RoleInv' /\ MainInv' /\ ControlType'
  BY RoleStep, MainStep
<1>1. CASE \E t \in Threads : Codec(t)
  <2>1. PICK t \in Threads : Codec(t)
    BY <1>1
  <2>2. CASE t = Main
    <3>1. ~Off(Main) /\ ~Off(Main)' /\ UNCHANGED <<phase, ThreadType>>
      BY <2>1, <2>2, <1>t, CodecFrame DEF Stored
    <3> QED
      BY <3>1, <1>r, <1>t DEF EmptyInv, RoleInv, MainInv, Working
  <2>3. CASE t # Main
    <3>1. t \in Producers
      BY <2>1, <2>3 DEF Threads
    <3>2. phase \in {6, 7} /\ job = "none" /\ ToTarget
      BY <2>1, <3>1, <1>t, WhoStreams, WhoRuns DEF Streaming, ControlType
    <3>3. UNCHANGED <<phase, job, ThreadType>>
      BY <2>1, <1>t, CodecFrame DEF Stored
    <3> QED
      BY <3>2, <3>3 DEF EmptyInv, ToTarget
  <2> QED
    BY <2>2, <2>3
<1>2. CASE \E p \in Producers : ProducerEnds(p)
  <2>1. phase \in {6, 7} /\ job = "none" /\ ToTarget
    BY <1>2, <1>t, WhoStreams, WhoRuns DEF Streaming, ControlType
  <2>2. UNCHANGED <<phase, job, ThreadType>>
    BY <1>2 DEF ProducerEnds, InBuffer, Stored
  <2> QED
    BY <2>1, <2>2 DEF EmptyInv, ToTarget
<1>3. CASE NextFile
  <2>1. UNCHANGED <<phase, data, ThreadType>> /\ job' = "file"
    BY <1>3 DEF NextFile, JobStep, dragVars
  <2> QED
    BY <2>1, <1>r, <1>t DEF EmptyInv, RoleInv
<1>4. CASE FileDone
  <2>1. UNCHANGED <<phase, data, ThreadType, AbortOp>> /\ ~Off(Main) /\ At(Main, "ended")
    BY <1>4 DEF FileDone, JobStep, dragVars, Off, At
  <2> QED
    BY <2>1, <1>t DEF EmptyInv, MainInv, Working
<1>5. CASE SkipFile \/ JobEnds
  <2>1. /\ UNCHANGED <<phase, data, ThreadType, thr>> /\ job = "next"
        /\ AbortOp' = 0 => AbortOp = 0
    BY <1>5 DEF SkipFile, JobEnds, MoreFiles, JobStep, dragVars
  <2> QED
    BY <2>1, <1>t DEF EmptyInv, Off, At
<1>6. CASE RunWorker \/ BeginDrag \/ WorkerEnds \/ EndDrag
  BY <1>6 DEF RunWorker, BeginDrag, WorkerEnds, EndDrag, Setup, EmptyInv
<1>7. CASE Ask \/ Answer \/ WmClose
  BY <1>7, <1>t, WindowFrame DEF AllButAbort, EmptyInv, Off, At
<1>8. CASE Drop \/ GetHDrop \/ GetDescriptor
  BY <1>8, <1>t DEF Drop, GetHDrop, GetDescriptor, DragStep, EmptyInv, RoleInv
<1>9. CASE GetContentsFails \/ StreamOver
  BY <1>9, <1>t DEF GetContentsFails, StreamOver, DragStep, abortVars, EmptyInv, RoleInv, Off, At
<1>10. CASE GetContents
  <2>1. /\ phase \in 1 .. 7 /\ data' = data /\ job = "none" /\ job' = job /\ Off(Main)
        /\ phase = 1 \/ AbortOp = 0
    BY <1>10, <1>t DEF GetContents, DragStep, RoleInv, ControlType
  <2>2. CASE phase < 6
    BY <2>1, <2>2, <1>10, <1>t, <1>r DEF EmptyInv
  <2>3. CASE ~(phase < 6)
    <3>1. phase' = phase /\ ThreadType' = ThreadType
      <4>1. phase' = CASE phase = 1 -> 5 [] phase \in {2, 3} -> phase + 2 [] OTHER -> phase
        BY <1>10 DEF GetContents
      <4> QED
        BY <4>1, <2>1, <2>3, <1>10 DEF GetContents
    <3> QED
      BY <2>1, <2>3, <3>1, <1>t DEF EmptyInv, RoleInv
  <2> QED
    BY <2>2, <2>3
<1>11. CASE CopyTo
  <2>1. UNCHANGED <<phase, ThreadType, data>> /\ target' = "copying"
    BY <1>11 DEF CopyTo, DragStep, abortVars
  <2> QED
    BY <2>1, <1>r, <1>t DEF EmptyInv, RoleInv
<1>12. CASE CopyToReturns
  <2>1. UNCHANGED <<phase, data, ThreadType, AbortOp>> /\ ~Off(Main) /\ At(Main, "ended")
    BY <1>12 DEF CopyToReturns, abortVars, Off, At
  <2> QED
    BY <2>1, <1>t DEF EmptyInv, MainInv, Working
<1>13. CASE Read \/ ReadArms \/ ReadReturns
  <2>1. target' \in {"read", "arming", "reading", "stream", "eof"} /\ job' = job /\ phase' >= phase
    BY <1>13, <1>t DEF Read, ReadArms, ReadReturns, ReadStep, DragStep, ControlType
  <2>2. phase' >= 6 /\ phase' \in Int
    BY <1>13, <1>t, <1>r, <2>1
       DEF Read, ReadArms, ReadReturns, ReadStep, DragStep, RoleInv, ControlType
  <2>3. target' # "hdrop" /\ job' = "none" /\ ThreadType' # "test"
    BY <2>1, <2>2, <1>r DEF RoleInv, ControlType, WorkerTypes
  <2> QED
    BY <2>2, <2>3 DEF EmptyInv
<1>14. CASE HDropReturns
  BY <1>14, <1>t DEF HDropReturns, DragStep, abortVars, EmptyInv, RoleInv, Off, At
<1> QED
  BY <1>1, <1>2, <1>3, <1>4, <1>5, <1>6, <1>7, <1>8, <1>9, <1>10, <1>11, <1>12, <1>13, <1>14
     DEF Next, Operate, Job, TargetCalls, CallReturns

\* What leaves files, their names and the job alone keeps them whole
LEMMA DiskKept ==
  ASSUME DiskInv, UNCHANGED <<job, item, dest, temps, dropped, ThreadType>>,
         phase' \in {0, 1} => phase \in {0, 1}, phase' = 2 => phase = 2
  PROVE  DiskInv'
BY DEF DiskInv, Good

\* Every step leaves whole files or none
LEMMA DiskStep ==
  ASSUME ExtractInv, Next
  PROVE  DiskInv'
<1>t. /\ RoleInv /\ ControlType /\ DataType /\ MainInv /\ DiskInv /\ Main \in Threads
      /\ dest \in [Files -> Seq(Cell)] /\ temps \in Seq(Files) /\ dropped \in Seq(Files)
  BY WhoRuns DEF ExtractInv, DataType
<1>i. Len(Sizes) \in Nat /\ Files \subseteq Nat /\ item \in Nat
  BY <1>t, SizesFacts DEF ControlType
<1>d. /\ \A k \in DOMAIN temps : temps[k] \in Files
      /\ \A k \in DOMAIN dropped : dropped[k] \in Files
  BY <1>t
<1>k. \A k \in DOMAIN temps : job # "none" =>
        /\ temps[k] \in Files /\ temps[k] # item /\ temps[k] < item /\ temps[k] < item + 1
        /\ IsWhole(temps[k], dest[temps[k]])
  <2> SUFFICES ASSUME NEW k \in DOMAIN temps, job # "none"
               PROVE  /\ temps[k] \in Files /\ temps[k] # item /\ temps[k] < item /\ temps[k] < item + 1
                      /\ IsWhole(temps[k], dest[temps[k]])
    OBVIOUS
  <2>1. temps[k] \in Files /\ temps[k] \in Nat
    BY <1>d, <1>i
  <2>2. temps[k] < item /\ IsWhole(temps[k], dest[temps[k]])
    BY <1>t DEF DiskInv
  <2>3. \A m, n \in Nat : m < n => m # n /\ m < n + 1
    OBVIOUS
  <2> QED
    BY <2>1, <2>2, <2>3, <1>i
<1>1. CASE \E t \in Threads : Codec(t)
  <2>1. PICK t \in Threads : Codec(t)
    BY <1>1
  <2>2. UNCHANGED <<job, item, temps, dropped, ThreadType, phase>>
    BY <2>1, <1>t, CodecFrame DEF Stored
  <2>3. CASE dest' = dest
    BY <2>2, <2>3, <1>t, DiskKept
  <2>4. CASE dest' # dest
    <3>1. t = Main
      BY <2>1, <2>4, ProducerWrites DEF Threads
    <3>2. /\ job = "file" /\ ThreadType # "test"
          /\ \A f \in Files \ {item} : dest'[f] = dest[f]
      BY <2>1, <2>4, <3>1, MainWrites
    <3>3. \A f \in Files \ {item} : Good(f)'
      BY <3>2, <1>t DEF DiskInv, Good
    <3>4. \A k \in DOMAIN temps : temps[k] < item /\ IsWhole(temps[k], dest'[temps[k]])
      <4>1. job # "none" /\ \A f \in Files : f # item => dest'[f] = dest[f]
        BY <3>2
      <4> QED
        BY <4>1, <1>k, Zenon
    <3> QED
      BY <2>2, <3>2, <3>3, <3>4, <1>t DEF DiskInv
  <2> QED
    BY <2>3, <2>4
<1>2. CASE \E p \in Producers : ProducerEnds(p)
  BY <1>2, <1>t, DiskKept DEF ProducerEnds, InBuffer, Stored
<1>3. CASE NextFile
  <2>1. /\ job = "next" /\ job' = "file" /\ UNCHANGED <<item, temps, dropped, ThreadType, phase>>
        /\ dest' = [dest EXCEPT ![item] = IF ThreadType = "test" THEN @ ELSE << >>]
    BY <1>3 DEF NextFile, JobStep, dragVars
  <2>2. (\A f \in Files \ {item} : dest'[f] = dest[f]) /\ (ThreadType = "test" => dest' = dest)
    BY <2>1, <1>t
  <2>3. \A f \in Files : Good(f)
    BY <2>1, <1>t DEF DiskInv
  <2>4. \A f \in Files : (f = item /\ ThreadType # "test") \/ Good(f)'
    BY <2>2, <2>3 DEF Good
  <2>5. \A k \in DOMAIN temps : temps[k] < item /\ IsWhole(temps[k], dest'[temps[k]])
    BY <2>1, <2>2, <1>t, <1>d, <1>i DEF DiskInv
  <2> QED
    BY <2>1, <2>4, <2>5, <1>t DEF DiskInv
<1>4. CASE SkipFile \/ JobEnds
  <2>1. /\ job = "next" /\ job' \in {"next", "finished"} /\ item' \in {item, item + 1}
        /\ UNCHANGED <<dest, temps, dropped, ThreadType, phase>>
    BY <1>4 DEF SkipFile, JobEnds, JobStep, dragVars
  <2>2. phase \notin {0, 1}
    BY <2>1, <1>t DEF RoleInv, WorkerTypes
  <2>3. \A k \in DOMAIN temps : temps[k] < item' /\ IsWhole(temps[k], dest[temps[k]])
    <3>1. job # "none" /\ (item' = item \/ item' = item + 1)
      BY <2>1
    <3> QED
      BY <3>1, <1>k, Zenon
  <2> QED
    BY <2>1, <2>2, <2>3, <1>t DEF DiskInv, Good
<1>5. CASE FileDone
  <2>1. /\ job = "file" /\ UNCHANGED <<dropped, ThreadType, phase>> /\ ~Off(Main) /\ At(Main, "ended")
    BY <1>5 DEF FileDone, JobStep, dragVars, Off, At
  <2>2. /\ item \in Files /\ phase \notin {0, 1} /\ ThreadType # "toexplorer" /\ Working
        /\ thr[Main].file = item
    BY <2>1, <1>t DEF MainInv, Working, RoleInv, WorkerTypes
  <2>3. AbortOp = 0 /\ ThreadType # "test" => IsWhole(item, dest[item])
    <3>1. SUFFICES ASSUME AbortOp = 0, ThreadType # "test" PROVE dest[item] = Prefix(item, Sizes[item])
      BY ContentIsPrefix DEF IsWhole
    <3>2. dest[item] \o << >> = Prefix(item, Sizes[item])
      BY <2>1, <2>2, <3>1 DEF Working, Out, At
    <3>3. dest[item] \in Seq(Cell)
      BY <2>2, <1>t
    <3> QED
      BY <3>2, <3>3, ConcatEmptySeq
  <2>4. CASE FileSpoilt /\ ThreadType # "test"
    <3>1. dest' = [dest EXCEPT ![item] = NoFile] /\ job' = "finished" /\ UNCHANGED <<item, temps>>
      BY <1>5, <2>4 DEF FileDone
    <3>2. \A f \in Files : Good(f)'
      BY <3>1, <2>1, <2>2, <1>t DEF DiskInv, Good
    <3>3. \A k \in DOMAIN temps : temps[k] < item /\ IsWhole(temps[k], dest'[temps[k]])
      BY <3>1, <2>1, <1>t, <1>d, <1>i DEF DiskInv
    <3> QED
      BY <2>1, <2>2, <3>1, <3>2, <3>3, <1>t DEF DiskInv
  <2>5. CASE ~(FileSpoilt /\ ThreadType # "test")
    <3>1. /\ job' = "next" /\ item' = item + 1 /\ dest' = dest
          /\ temps' = IF ThreadType \in {"view", "dragout"} THEN <<item>> \o temps ELSE temps
      BY <1>5, <2>5 DEF FileDone
    <3>2. \A f \in Files : Good(f)'
      BY <3>1, <2>1, <2>2, <2>3, <2>5, <1>t DEF DiskInv, Good, FileSpoilt
    <3>3. \A k \in DOMAIN temps : temps[k] < item /\ IsWhole(temps[k], dest[temps[k]])
      BY <2>1, <1>t DEF DiskInv
    <3>4. \A k \in DOMAIN temps' : temps'[k] < item + 1 /\ IsWhole(temps'[k], dest[temps'[k]])
      <4>1. CASE ThreadType \in {"view", "dragout"}
        <5>1. <<item>> \in Seq(Files) /\ Len(<<item>>) = 1 /\ <<item>>[1] = item
          BY <2>2
        <5>2. temps' = <<item>> \o temps
          BY <3>1, <4>1
        <5>3. Len(temps') = 1 + Len(temps) /\ temps' \in Seq(Files)
          BY <5>1, <5>2, <1>t, ConcatProperties
        <5>4. temps'[1] = item /\ \A k \in 2 .. Len(temps) + 1 : temps'[k] = temps[k - 1]
          BY <5>1, <5>2, <1>t
        <5>5. IsWhole(item, dest[item])
          BY <2>3, <2>5, <4>1 DEF FileSpoilt
        <5> SUFFICES ASSUME NEW k \in 1 .. Len(temps) + 1
                     PROVE  temps'[k] < item + 1 /\ IsWhole(temps'[k], dest[temps'[k]])
          BY <5>3, <1>t
        <5>6. CASE k = 1
          BY <5>4, <5>5, <5>6, <1>i
        <5>7. CASE k # 1
          <6>1. k - 1 \in DOMAIN temps /\ temps'[k] = temps[k - 1]
            <7>1. Len(temps) \in Nat /\ DOMAIN temps = 1 .. Len(temps)
              BY <1>t
            <7>2. k \in 2 .. Len(temps) + 1 /\ k - 1 \in 1 .. Len(temps)
              BY <7>1, <5>7
            <7> QED
              BY <7>1, <7>2, <5>4
          <6>2. job # "none"
            BY <2>1
          <6> QED
            BY <6>1, <6>2, <1>k, Zenon
        <5> QED
          BY <5>6, <5>7
      <4>2. CASE ThreadType \notin {"view", "dragout"}
        <5>1. temps' = temps /\ job # "none"
          BY <3>1, <4>2, <2>1
        <5> QED
          BY <5>1, <1>k, Zenon
      <4> QED
        BY <4>1, <4>2
    <3> QED
      BY <2>1, <2>2, <3>1, <3>2, <3>4, <1>t DEF DiskInv
  <2> QED
    BY <2>4, <2>5
<1>6. CASE RunWorker \/ BeginDrag
  <2>1. /\ temps' = << >> /\ item' = 1 /\ phase' \in {-1, 0}
        /\ dest' = [f \in Files |-> NoFile]
        /\ phase' = 0 => dropped' = << >>
    BY <1>6 DEF RunWorker, BeginDrag, Setup, Idle
  <2> QED
    BY <2>1 DEF DiskInv, Good
<1>7. CASE WorkerEnds
  BY <1>7, <1>t DEF WorkerEnds, dragVars, DiskInv, Good, RoleInv
<1>8. CASE Ask \/ Answer \/ WmClose
  BY <1>8, <1>t, WindowFrame, DiskKept DEF AllButAbort
<1>9. CASE Drop
  BY <1>9, <1>t DEF Drop, DragStep, abortVars, DiskInv, Good, RoleInv
<1>10. CASE GetHDrop
  BY <1>10, <1>t DEF GetHDrop, DragStep, DiskInv, Good, RoleInv
<1>11. CASE GetDescriptor \/ GetContents
  <2>1. /\ target = "free" /\ job' = job /\ phase' \in 3 .. 7
        /\ UNCHANGED <<item, dest, temps, dropped>>
    <3>1. GetContents => phase' = CASE phase = 1 -> 5 [] phase \in {2, 3} -> phase + 2 [] OTHER -> phase
      BY DEF GetContents
    <3>2. GetContents => phase >= 1
      BY DEF GetContents
    <3> QED
      BY <1>11, <3>1, <3>2, <1>t DEF GetDescriptor, GetContents, DragStep, ControlType
  <2>2. job = "none"
    BY <2>1, <1>t DEF RoleInv
  <2> QED
    BY <2>1, <2>2, <1>t DEF DiskInv, Good
<1>12. CASE GetContentsFails \/ CopyTo \/ StreamOver
  BY <1>12, <1>t, DiskKept DEF GetContentsFails, CopyTo, StreamOver, DragStep, abortVars
<1>13. CASE Read \/ ReadArms \/ ReadReturns
  <2>1. /\ target \in {"stream", "read", "arming", "reading"} /\ job' = job /\ phase' >= phase
        /\ UNCHANGED <<item, dest, temps, dropped>> /\ phase' \in Int
    BY <1>13, <1>t DEF Read, ReadArms, ReadReturns, ReadStep, DragStep, ControlType
  <2>2. job = "none" /\ phase >= 4
    BY <2>1, <1>t DEF RoleInv, ControlType
  <2> QED
    BY <2>1, <2>2, <1>t DEF DiskInv, Good, ControlType
<1>14. CASE EndDrag
  BY <1>14, <1>t DEF EndDrag, jobVars, DiskInv, Good, RoleInv
<1>15. CASE HDropReturns
  BY <1>15, <1>t DEF HDropReturns, DragStep, abortVars, DiskInv, Good, RoleInv
<1>16. CASE CopyToReturns
  <2>1. /\ target = "copying" /\ job' = job /\ phase' = phase /\ UNCHANGED <<item, temps, dropped>>
        /\ \A f \in Files : dest'[f] \in {dest[f], NoFile}
    BY <1>16, <1>t DEF CopyToReturns, Used
  <2>2. job = "none" /\ phase \in {4, 5}
    BY <2>1, <1>t DEF RoleInv
  <2> QED
    BY <2>1, <2>2, <1>t DEF DiskInv, Good
<1> QED
  BY <1>1, <1>2, <1>3, <1>4, <1>5, <1>6, <1>7, <1>8, <1>9, <1>10, <1>11, <1>12, <1>13, <1>14,
     <1>15, <1>16 DEF Next, Operate, Job, TargetCalls, CallReturns

-----------------------------------------------------------------------------
(* The handshake of a producer and Read.                                   *)

\* What a producer has decoded is with the target or in the buffer it waits for
LEMMA BatonMove ==
  ASSUME ExtractInv, NEW p \in Producers, Codec(p)
  PROVE  Baton(p)'
<1>t. /\ DataType /\ p \in Threads /\ Streaming /\ ToTarget /\ Baton(p) /\ Stored
      /\ got' = got /\ thr'[p].file = thr[p].file
      /\ AbortOp' = 0 => AbortOp = 0
  <2>1. p \in Threads /\ DataType /\ BatonInv /\ ControlType
    BY WhoRuns DEF ExtractInv
  <2>2. Streaming /\ ToTarget /\ Baton(p)
    BY <2>1, WhoStreams DEF BatonInv
  <2> QED
    BY <2>1, <2>2, CodecFrame, ProducerWrites DEF ControlType
<1>d. /\ data \in Seq(Cell) /\ got \in Seq(Cell) /\ Len(data) \in Nat
      /\ BufSize \in Nat /\ BufSize # 0
  BY <1>t, ExtractAssumption DEF DataType
<1>p. /\ thr[p].at \in Nat /\ thr[p].left \in Nat /\ thr[p].file \in Files /\ thr[p].file = next
      /\ thr[p].pc \in Pcs /\ Sizes[next] \in Nat /\ Sizes[next] # 0
  BY <1>t, PlaceType, SizesFacts DEF Baton
<1>b. buf # "none" => target = "reading"
  BY <1>t DEF ExtractInv, ProducerInv, Streaming
<1>s. target' = target /\ next' = next
  BY <1>t DEF Stored
<1>i. data' = data => Sent' = Sent
  BY <1>t, <1>s DEF Sent, InFlight
<1> USE DEF At
<1>1. CASE Piece(p)
  <2>1. PICK n \in 1 .. MaxPiece :
          MovesTo(p, "write", thr[p].at, n) /\ thr[p].at + n <= Sizes[next]
    BY <1>1, <1>t, <1>p, CodecMoves
  <2>2. AbortOp' = AbortOp /\ data' = data /\ buf' = buf /\ thr[p].pc = "codec" /\ Sent' = Sent
    BY <1>1, <1>i DEF Piece, InBuffer
  <2>3. /\ thr'[p].pc = "write" /\ thr'[p].at = thr[p].at /\ thr'[p].left = n /\ n # 0
        /\ thr'[p].file = thr[p].file
    BY <2>1 DEF MovesTo
  <2>4. Sent = Prefix(next, thr[p].at) /\ (buf # "none" \/ (target # "reading" /\ thr[p].at = 0))
    BY <2>2, <1>t DEF Baton
  <2> QED
    BY <2>1, <2>2, <2>3, <2>4, <1>s, <1>p DEF Baton
<1>2. CASE Discard(p) \/ Direct(p)
  BY <1>2, <1>t DEF Discard, Direct, ToTarget, Baton
<1>3. CASE Fill(p)
  <2>1. MovesTo(p, "codec", thr[p].at + thr[p].left, 0)
    BY <1>3, <1>t, CodecMoves
  <2>2. /\ AbortOp' = AbortOp /\ buf' = buf /\ buf # "none" /\ target = "reading"
        /\ data' = data \o Cells(p, thr[p].left) /\ thr[p].pc = "write" /\ thr[p].left # 0
    BY <1>3, <1>b, <1>t DEF Fill, InBuffer, Baton
  <2>3. got \o data = Prefix(thr[p].file, thr[p].at)
    BY <2>2, <1>t, <1>p DEF Baton, Sent, InFlight
  <2>4. got \o data' = Prefix(next, thr[p].at + thr[p].left)
    BY <2>2, <2>3, <1>t, <1>d, <1>p, MoreCells
  <2>5. Sent' = Prefix(next, thr[p].at + thr[p].left)
    BY <2>2, <2>4, <1>t, <1>s DEF Sent, InFlight
  <2>6. data' # << >>
    <3>1. Cells(p, thr[p].left) \in Seq(Cell) /\ Len(Cells(p, thr[p].left)) = thr[p].left
      BY <1>t, <1>p, CellsType
    <3>2. Len(data \o Cells(p, thr[p].left)) = Len(data) + Len(Cells(p, thr[p].left))
      BY <3>1, <1>d, ConcatProperties, ZenonT(30)
    <3>3. Len(data') # 0
      BY <2>2, <3>1, <3>2, <1>d, <1>p
    <3> QED
      BY <3>3, EmptySeq
  <2>7. thr'[p].pc = "codec" /\ thr'[p].at = thr[p].at + thr[p].left /\ thr'[p].left = 0
    BY <2>1 DEF MovesTo
  <2>8. thr[p].at + thr[p].left + 0 <= Sizes[next]
    BY <1>t, <1>p DEF Baton
  <2> QED
    BY <2>2, <2>5, <2>6, <2>7, <2>8, <1>t, <1>s, <1>p DEF Baton
<1>4. CASE FillAndFlush(p)
  <2> DEFINE n == BufSize - Len(data)
             full == data \o Cells(p, n)
  <2>1. n \in Nat /\ n < thr[p].left /\ MovesTo(p, "await", thr[p].at + n, thr[p].left - n)
    BY <1>4, <1>t, CodecMoves
  <2>2. /\ AbortOp' = AbortOp /\ buf' = "none" /\ buf # "none" /\ target = "reading" /\ data' = full
    BY <1>4, <1>b, <1>t DEF FillAndFlush, InBuffer
  <2>e. Len(data) + n = BufSize
    BY <1>d
  <2> HIDE DEF n
  <2>3. got \o data = Prefix(thr[p].file, thr[p].at)
    BY <2>2, <1>t, <1>p DEF Baton, Sent, InFlight
  <2>4. got \o data' = Prefix(next, thr[p].at + n)
    BY <2>1, <2>2, <2>3, <1>t, <1>d, <1>p, MoreCells
  <2>5. Sent' = Prefix(next, thr[p].at + n)
    BY <2>2, <2>4, <1>t, <1>s DEF Sent, InFlight
  <2>6. data' # << >>
    <3>1. Cells(p, n) \in Seq(Cell) /\ Len(Cells(p, n)) = n
      BY <2>1, <1>t, <1>p, CellsType
    <3>2. Len(data') = Len(data) + n
      BY <2>2, <3>1, <1>d, ConcatProperties
    <3>3. Len(data') # 0
      BY <3>2, <2>e, <1>d
    <3> QED
      BY <3>3, EmptySeq
  <2>7. thr'[p].pc = "await" /\ thr'[p].at = thr[p].at + n /\ thr'[p].left = thr[p].left - n
    BY <2>1 DEF MovesTo
  <2>8. (thr[p].at + n) + (thr[p].left - n) <= Sizes[next] /\ thr[p].left - n # 0
    <3>1. thr[p].at + thr[p].left <= Sizes[next]
      BY <1>t DEF Baton
    <3> QED
      BY <2>1, <3>1, <1>p
  <2> HIDE DEF full
  <2> QED
    BY <2>2, <2>5, <2>6, <2>7, <2>8, <1>t, <1>s, <1>p DEF Baton
<1>5. CASE Await(p)
  <2>1. MovesTo(p, "write", thr[p].at, thr[p].left)
    BY <1>5, <1>t, CodecMoves
  <2>2. /\ AbortOp' = AbortOp /\ buf' = buf /\ buf # "none" /\ data' = << >> /\ thr[p].pc = "await"
        /\ data = << >>
    BY <1>5, <1>t DEF Await, InBuffer, Baton
  <2>3. Sent' = Sent
    BY <2>2, <1>i
  <2>4. Sent = Prefix(next, thr[p].at) /\ thr[p].left # 0 /\ thr[p].at + thr[p].left <= Sizes[next]
    BY <2>2, <1>t DEF Baton
  <2>5. thr'[p].pc = "write" /\ thr'[p].at = thr[p].at /\ thr'[p].left = thr[p].left
    BY <2>1 DEF MovesTo
  <2> QED
    BY <2>2, <2>3, <2>4, <2>5, <1>t, <1>s, <1>p DEF Baton
<1>7. CASE ArchiveFails(p)
  <2>1. AbortOp' = 1 /\ data' = data /\ buf' = buf /\ thr' = thr
    BY <1>7 DEF ArchiveFails
  <2>2. Sent' = Sent
    BY <2>1, <1>i
  <2> QED
    BY <2>1, <2>2, <1>t, <1>s DEF Baton
<1>8. CASE CodecReturns(p)
  <2>1. MovesTo(p, IF AbortOp # 0 /\ ~thr[p].temp THEN "ended" ELSE "lastflush",
                thr[p].at, thr[p].left)
    BY <1>8, <1>t, CodecMoves
  <2>2. /\ AbortOp' = AbortOp /\ data' = data /\ buf' = buf /\ Sent' = Sent /\ thr[p].pc = "codec"
        /\ AbortOp = 0 => thr[p].at = Sizes[next]
    BY <1>8, <1>i, <1>p DEF CodecReturns, InBuffer
  <2>3. /\ Sent = Prefix(next, thr[p].at) /\ thr[p].left = 0
        /\ thr[p].at + thr[p].left <= Sizes[next]
        /\ buf # "none" \/ (target # "reading" /\ thr[p].at = 0)
        /\ AbortOp = 0 => data # << >>
    BY <2>2, <1>t, <1>p DEF Baton
  <2>4. thr'[p].pc \in {"lastflush", "ended"} /\ (AbortOp = 0 => thr'[p].pc = "lastflush")
    BY <2>1 DEF MovesTo
  <2>5. thr'[p].at = thr[p].at /\ thr'[p].left = thr[p].left
    BY <2>1 DEF MovesTo
  <2> QED
    BY <2>2, <2>3, <2>4, <2>5, <1>t, <1>s, <1>p DEF Baton
<1>9. CASE LastFlush(p)
  <2>1. MovesTo(p, "lastwait", thr[p].at, thr[p].left)
    BY <1>9, <1>t, CodecMoves
  <2>2. AbortOp' = AbortOp /\ buf' = "none" /\ data' = data /\ thr[p].pc = "lastflush" /\ Sent' = Sent
    BY <1>9, <1>i, <1>t DEF LastFlush, InBuffer
  <2>3. /\ Sent = Prefix(next, thr[p].at) /\ thr[p].left = 0
        /\ thr[p].at + thr[p].left <= Sizes[next]
        /\ AbortOp = 0 => thr[p].at = Sizes[next] /\ data # << >>
    BY <2>2, <1>t DEF Baton
  <2>4. thr'[p].pc = "lastwait" /\ thr'[p].at = thr[p].at /\ thr'[p].left = thr[p].left
    BY <2>1 DEF MovesTo
  <2> QED
    BY <2>2, <2>3, <2>4, <1>t, <1>s, <1>p DEF Baton
<1>10. CASE LastWait(p)
  <2>1. MovesTo(p, "ended", thr[p].at, thr[p].left)
    BY <1>10, <1>t, CodecMoves
  <2>2. /\ AbortOp' = AbortOp /\ buf' = buf /\ buf # "none" /\ data' = data /\ thr[p].pc = "lastwait"
        /\ Sent' = Sent
    BY <1>10, <1>i, <1>t DEF LastWait, InBuffer
  <2>3. /\ Sent = Prefix(next, thr[p].at) /\ thr[p].left = 0 /\ data = << >>
        /\ thr[p].at + thr[p].left <= Sizes[next]
        /\ AbortOp = 0 => thr[p].at = Sizes[next]
    BY <2>2, <1>t DEF Baton
  <2>4. thr'[p].pc = "ended" /\ thr'[p].at = thr[p].at /\ thr'[p].left = thr[p].left
    BY <2>1 DEF MovesTo
  <2> QED
    BY <2>2, <2>3, <2>4, <1>t, <1>s, <1>p DEF Baton
<1> QED
  BY <1>1, <1>2, <1>3, <1>4, <1>5, <1>7, <1>8, <1>9, <1>10 DEF Codec

\* A producer begins with nothing sent
LEMMA BatonBegins ==
  ASSUME ThrType, NEW p \in Threads, NEW f \in Files, NEW temp \in BOOLEAN,
         thr' = [thr EXCEPT ![p] = Started(f, temp)],
         next' = f, got' = << >>, target' # "reading"
  PROVE  Baton(p)' /\ OnlyMoves(p)
<1>1. /\ thr'[p].pc = "codec" /\ thr'[p].file = f /\ thr'[p].at = 0 /\ thr'[p].left = 0
      /\ OnlyMoves(p)
  BY Starts
<1>2. Sent' = Prefix(f, 0)
  <2>1. << >> \o << >> = << >>
    OBVIOUS
  <2> QED
    BY <2>1, PrefixNone DEF Sent, InFlight
<1>3. Sizes[f] \in Nat
  BY SizesFacts
<1> QED
  BY <1>1, <1>2, <1>3 DEF Baton, At

\* Every step keeps to the handshake
LEMMA BatonStep ==
  ASSUME ExtractInv, Next
  PROVE  BatonInv'
<1>t. /\ RoleInv /\ ControlType /\ DataType /\ ThrType /\ TargetInv /\ BatonInv
      /\ phase >= 6 /\ target # "reading" => buf = "none"
      /\ got \in Seq(Cell) /\ data \in Seq(Cell)
      /\ Main \in Threads /\ \A p \in Producers : p \in Threads /\ p # Main
  BY WhoRuns DEF ExtractInv, DataType, ThrType, ProducerInv
<1>r. phase \in -1 .. 5 => \A p \in Producers : ~Off(p) => phase = -1
  BY <1>t DEF ExtractInv, ProducerInv, Streaming, Stuck, ControlType
<1>p. \A p \in Producers : /\ thr[p].pc \in Pcs /\ thr[p].at \in Nat /\ thr[p].left \in Nat
                           /\ Sizes[next] \in Nat /\ Sizes[next] # 0
  BY <1>t, PlaceType, SizesFacts DEF ControlType
<1>e. got \o << >> = got /\ (got \o data) \o << >> = got \o data
  <2>1. got \o data \in Seq(Cell)
    BY <1>t, ConcatProperties
  <2> QED
    BY <2>1, <1>t, ConcatEmptySeq
<1>1. CASE \E t \in Threads : Codec(t)
  <2>1. PICK t \in Threads : Codec(t)
    BY <1>1
  <2>2. CASE t = Main
    <3>1. \A p \in Producers : Off(p)
      BY <2>1, <2>2, <1>t, CodecFrame, WhoRuns
    <3>2. \A p \in Producers : Off(p)'
      BY <2>1, <2>2, <3>1, <1>t, CodecFrame DEF Off, At
    <3> QED
      BY <3>2 DEF BatonInv
  <2>3. CASE t \in Producers
    <3>1. \A p \in Producers \ {t} : Off(p)
      BY <2>1, <2>3, WhoStreams
    <3>2. \A p \in Producers \ {t} : Off(p)'
      BY <2>1, <3>1, <1>t, CodecFrame DEF Off, At
    <3>3. Baton(t)'
      BY <2>1, <2>3, BatonMove
    <3> QED
      BY <3>2, <3>3 DEF BatonInv
  <2> QED
    BY <2>2, <2>3 DEF Threads
<1>2. CASE \E p \in Producers : ProducerEnds(p)
  <2>1. PICK p \in Producers : ProducerEnds(p)
    BY <1>2
  <2>2. OnlyMoves(p) /\ Off(p)'
    BY <2>1, <1>t, SizesFacts, Starts DEF ProducerEnds
  <2>3. \A q \in Producers \ {p} : Off(q)
    BY <2>1, WhoStreams
  <2> QED
    BY <2>2, <2>3, <1>t DEF BatonInv, OnlyMoves, Off, At
<1>3. CASE NextFile \/ SkipFile \/ FileDone \/ JobEnds
  <2>1. job # "none" /\ UNCHANGED <<phase, target>>
    BY <1>3 DEF NextFile, SkipFile, FileDone, JobEnds, JobStep, dragVars
  <2> QED
    BY <2>1, <1>t DEF BatonInv, Streaming, RoleInv, WorkerTypes
<1>4. CASE \/ RunWorker \/ WorkerEnds \/ BeginDrag \/ Drop \/ GetHDrop \/ GetDescriptor
           \/ GetContentsFails \/ CopyTo \/ StreamOver \/ EndDrag \/ HDropReturns \/ CopyToReturns
  <2>1. \/ target' \notin {"stream", "read", "arming", "reading"}
        \/ phase' = phase /\ target' = target /\ phase = -1
    BY <1>4, <1>t
       DEF RunWorker, WorkerEnds, BeginDrag, Drop, GetHDrop, GetDescriptor, GetContentsFails, CopyTo,
           StreamOver, EndDrag, HDropReturns, CopyToReturns, Setup, Idle, dragVars, RoleInv
  <2> QED
    BY <2>1 DEF BatonInv, Streaming
<1>5. CASE Ask \/ Answer \/ WmClose
  <2>1. AllButAbort /\ (AbortOp' = 0 => AbortOp = 0)
    BY <1>5, WindowFrame
  <2>2. Sent' = Sent
    BY <2>1 DEF AllButAbort, Sent, InFlight
  <2> SUFFICES ASSUME NEW p \in Producers, ~Off(p)', Streaming' PROVE Baton(p)'
    BY DEF BatonInv
  <2>3. Baton(p)
    BY <2>1, <1>t DEF AllButAbort, BatonInv, Streaming, Off, At
  <2> QED
    BY <2>1, <2>2, <2>3 DEF AllButAbort, Baton, At
<1>6. CASE GetContents
  <2>1. phase \in 1 .. 7 /\ target = "free" /\ target' = "stream" /\ got' = << >>
    BY <1>6, <1>t DEF GetContents, ControlType
  <2>2. phase' = IF phase = 1 THEN 5 ELSE IF phase \in {2, 3} THEN phase + 2 ELSE phase
    <3>1. phase' = CASE phase = 1 -> 5 [] phase \in {2, 3} -> phase + 2 [] OTHER -> phase
      BY <1>6 DEF GetContents
    <3> QED
      BY <3>1
  <2>3. CASE phase \in {6, 7}
    <3>1. ThreadInGetData /\ \A p \in Producers : ~Off(p) => AbortOp # 0
      BY <2>1, <2>3, <1>t DEF ThreadInGetData, ToTarget, RoleInv, ExtractInv, ProducerInv, Streaming, Stuck
    <3>2. AbortOp = 0
      BY <1>6, <2>3 DEF GetContents
    <3>3. PICK f \in Files, p \in Producers :
            next' = f /\ thr' = [thr EXCEPT ![p] = Started(f, phase = 6)]
      BY <1>6, <3>1 DEF GetContents, NewProducer
    <3>4. (phase = 6) \in BOOLEAN
      OBVIOUS
    <3>5. Baton(p)' /\ OnlyMoves(p)
      BY <2>1, <3>3, <3>4, <1>t, BatonBegins
    <3> QED
      BY <3>1, <3>2, <3>5, <1>t DEF BatonInv, OnlyMoves, Off, At
  <2>4. CASE phase \notin {6, 7}
    BY <2>1, <2>2, <2>4 DEF BatonInv, Streaming
  <2> QED
    BY <2>3, <2>4
<1>7. CASE Read
  <2>1. target = "stream" /\ target' = "read" /\ UNCHANGED <<AbortOp, data, next, got>>
    BY <1>7 DEF Read, DragStep
  <2>2. CASE phase < 6
    <3>1. \A p \in Producers : Off(p)
      BY <2>1, <2>2, <1>r, <1>t DEF RoleInv, ControlType
    <3>2. got = << >> /\ next \in Files
      BY <2>1, <2>2, <1>t DEF TargetInv, RoleInv, ControlType
    <3>3. PICK p \in Producers : thr' = [thr EXCEPT ![p] = Started(next, phase = 4)]
      BY <1>7, <2>2 DEF Read, NewProducer
    <3>4. (phase = 4) \in BOOLEAN
      OBVIOUS
    <3>5. Baton(p)' /\ OnlyMoves(p)
      BY <2>1, <3>2, <3>3, <3>4, <1>t, BatonBegins
    <3> QED
      BY <3>1, <3>5, <1>t DEF BatonInv, OnlyMoves, Off, At
  <2>3. CASE ~(phase < 6)
    <3>1. UNCHANGED <<phase, buf, thr>> /\ Streaming
      BY <1>7, <2>1, <2>3, <1>t DEF Read, Streaming, ControlType
    <3>2. Sent' = Sent
      BY <2>1 DEF Sent, InFlight
    <3> SUFFICES ASSUME NEW p \in Producers, ~Off(p)' PROVE Baton(p)'
      BY DEF BatonInv
    <3>3. Baton(p)
      BY <3>1, <1>t DEF BatonInv, Off, At
    <3> QED
      BY <2>1, <3>1, <3>2, <3>3 DEF Baton, At
  <2> QED
    BY <2>2, <2>3
<1>8. CASE ReadArms
  <2>1. ReadSets[1] = "bufused" /\ ReadSets[2] = "buf"
    BY DEF ReadSets
  <2>2. /\ target \in {"read", "arming"}
        /\ UNCHANGED <<thr, phase, AbortOp, next, got>>
        /\ target = "read" => target' = "arming" /\ buf' = buf /\ data' = << >>
        /\ target = "arming" => target' = "reading" /\ buf' = "target" /\ data' = data
    BY <1>8, <2>1 DEF ReadArms, ReadStep, DragStep, abortVars
  <2>3. Streaming /\ buf = "none"
    BY <2>2, <1>t DEF Streaming, RoleInv
  <2>4. data' = << >>
    BY <2>2, <1>t DEF TargetInv
  <2>5. Sent' = Sent
    BY <2>2, <2>4, <1>e DEF Sent, InFlight
  <2> SUFFICES ASSUME NEW p \in Producers, ~Off(p)' PROVE Baton(p)'
    BY DEF BatonInv
  <2>6. Baton(p)
    BY <2>2, <2>3, <1>t DEF BatonInv, Off, At
  <2>7. /\ thr[p].pc \in {"codec", "write", "lastflush", "ended"} => thr[p].at = 0
        /\ AbortOp = 0 => thr[p].pc \notin {"lastflush", "ended"}
    BY <2>3, <2>6, <1>p DEF Baton
  <2>8. buf' # "none" \/ target' # "reading"
    BY <2>2
  <2> QED
    BY <2>2, <2>4, <2>5, <2>6, <2>7, <2>8 DEF Baton, At
<1>9. CASE ReadReturns
  <2>1. /\ target = "reading" /\ buf = "none" /\ got' = got \o data
        /\ target' = IF data = << >> THEN "eof" ELSE "stream"
        /\ UNCHANGED <<AbortOp, buf, data, thr, phase, next>>
    BY <1>9 DEF ReadReturns, DragStep, abortVars
  <2>2. Streaming
    BY <2>1, <1>t DEF Streaming, RoleInv
  <2>3. Sent' = Sent
    BY <2>1, <1>e DEF Sent, InFlight
  <2> SUFFICES ASSUME NEW p \in Producers, ~Off(p)' PROVE Baton(p)'
    BY DEF BatonInv
  <2>4. Baton(p)
    BY <2>1, <2>2, <1>t DEF BatonInv, Off, At
  <2>5. thr[p].pc \notin {"codec", "write", "lastflush", "ended"}
    BY <2>1, <2>4 DEF Baton
  <2> QED
    BY <2>1, <2>3, <2>4, <2>5 DEF Baton, At
<1> QED
  BY <1>1, <1>2, <1>3, <1>4, <1>5, <1>6, <1>7, <1>8, <1>9 DEF Next, Operate, Job, TargetCalls, CallReturns

-----------------------------------------------------------------------------
(* What the target has.                                                    *)

\* A target that has nothing yet
LEMMA TargetEmpty ==
  ASSUME next' \in Files, got' = << >>, target' \notin {"arming", "reading", "eof"},
         Streaming' => \E p \in Producers : ~Off(p)'
  PROVE  TargetInv'
<1>1. Sent' = Prefix(next', 0)
  <2>1. << >> \o << >> = << >>
    OBVIOUS
  <2> QED
    BY <2>1, PrefixNone DEF Sent, InFlight
<1>2. 0 \in 0 .. Sizes[next']
  BY SizesFacts
<1> QED
  BY <1>1, <1>2 DEF TargetInv

\* A target that keeps what it has, and what is in the buffer for it
LEMMA TargetKept ==
  ASSUME TargetInv, target # "none", Sent' = Sent, UNCHANGED <<phase, next, got>>,
         AbortOp' = 0 => AbortOp = 0,
         target' = "arming" => data' = << >>,
         target' = "stream" => phase' \notin {4, 5},
         target' = "eof" /\ AbortOp' = 0 => got' = Content(next'),
         Streaming' /\ AbortOp' = 0 => \E p \in Producers : ~Off(p)'
  PROVE  TargetInv'
BY DEF TargetInv

\* No target
LEMMA TargetNone ==
  ASSUME target' = "none", phase' = -1
  PROVE  TargetInv'
BY DEF TargetInv, Streaming

\* Main writes into the target's stream in CopyTo only
LEMMA MainGot ==
  ASSUME Codec(Main), ThreadType # "toexplorer"
  PROVE  got' = got
<1>1. ASSUME NEW cells, Store(cells) PROVE got' = got
  BY <1>1 DEF Store
<1>2. got' = got \/ \E cells : Store(cells)
  BY DEF Codec, Piece, Discard, Fill, FillAndFlush, Await, Direct, ArchiveFails, CodecReturns,
         LastFlush, LastWait, InBuffer
<1> QED
  BY <1>1, <1>2

\* What a producer changes of the buffer is what Read has given it
LEMMA ProducerData ==
  ASSUME NEW p \in Producers, Codec(p), buf = "none", ToTarget, ~At(p, "direct")
  PROVE  data' = data
BY DEF Codec, Piece, Discard, Fill, FillAndFlush, Await, Direct, ArchiveFails, CodecReturns,
       LastFlush, LastWait, InBuffer, ToTarget

\* The codec, in CopyTo and for Read, sends on the file's cells in order
LEMMA TargetCodec ==
  ASSUME ExtractInv, NEW t \in Threads, Codec(t)
  PROVE  TargetInv'
<1>t. /\ RoleInv /\ ControlType /\ DataType /\ TargetInv /\ Main \in Threads /\ next \in Files
      /\ phase >= 6 /\ target # "reading" => buf = "none"
  BY WhoRuns DEF ExtractInv, ControlType, ProducerInv
<1>f. /\ UNCHANGED <<ThreadType, job, phase, target, next>>
      /\ ~Off(t) /\ ~Off(t)'
  BY <1>t, CodecFrame DEF Stored
<1>1. CASE t = Main /\ target = "copying"
  <2>1. ThreadType = "toexplorer" /\ phase \in {4, 5}
    BY <1>1, <1>t DEF RoleInv
  <2>2. DataType' /\ Working'
    BY <1>1, CodecType, WorkStep
  <2>3. AbortOp' = 0 => \E n \in 0 .. Sizes[next] : Sent' = Prefix(next, n)
    <3> SUFFICES ASSUME AbortOp' = 0 PROVE \E n \in 0 .. Sizes[next] : Sent' = Prefix(next, n)
      OBVIOUS
    <3>1. got' \in Seq(Cell) /\ data' \in Seq(Cell) /\ thr'[Main].at \in Nat /\ thr'[Main].left \in Nat
      BY <2>2, <1>t DEF DataType
    <3>2. got' \o data' = Prefix(next, thr'[Main].at) /\ thr'[Main].at + thr'[Main].left <= Sizes[next]
      BY <2>1, <2>2, <1>f DEF Working, Out
    <3>3. Len(got') <= thr'[Main].at /\ got' = Prefix(next, Len(got'))
      BY <3>1, <3>2, <1>t, PrefixHead
    <3>4. Len(got') \in 0 .. Sizes[next]
      <4>1. Len(got') \in Nat /\ Sizes[next] \in Nat
        BY <3>1, <1>t, SizesFacts
      <4> QED
        BY <4>1, <3>1, <3>2, <3>3
    <3>5. Sent' = got'
      BY <1>1, <1>f, <3>1, ConcatEmptySeq DEF Sent, InFlight
    <3> QED
      BY <3>3, <3>4, <3>5
  <2> QED
    BY <1>1, <1>f, <2>1, <2>3 DEF TargetInv, Streaming
<1>2. CASE t = Main /\ target # "copying"
  <2>1. job = "file" /\ ThreadType # "toexplorer"
    BY <1>2, <1>f, <1>t DEF RoleInv, WorkerTypes
  <2>2. got' = got
    BY <2>1, <1>2, MainGot
  <2>3. CASE target = "none"
    BY <2>3, <1>f, <1>t, TargetNone DEF RoleInv
  <2>4. CASE target # "none"
    <3>1. target = "hdrop" /\ phase = 2 /\ got = << >>
      BY <2>1, <2>4, <1>t DEF RoleInv, TargetInv
    <3> QED
      BY <3>1, <2>2, <1>f, <1>t, TargetEmpty DEF Streaming
  <2> QED
    BY <2>3, <2>4
<1>3. CASE t \in Producers
  <2>1. Streaming /\ ToTarget /\ phase \in {6, 7}
    BY <1>3, <1>t, WhoStreams DEF Streaming, ControlType
  <2>2. Baton(t) /\ Baton(t)' /\ DataType'
    BY <1>3, <1>f, <2>1, BatonMove, CodecType DEF ExtractInv, BatonInv
  <2>3. \E n \in 0 .. Sizes[next] : Sent' = Prefix(next, n)
    <3>1. thr'[t].at \in Nat /\ thr'[t].left \in Nat /\ Sizes[next] \in Nat
      BY <2>2, <1>t, SizesFacts DEF DataType
    <3>2. thr'[t].at + thr'[t].left <= Sizes[next] /\ Sent' = Prefix(next, thr'[t].at)
      BY <2>2, <1>f DEF Baton
    <3> QED
      BY <3>1, <3>2
  <2>4. target = "arming" => data' = << >>
    <3>1. target = "arming" => data = << >> /\ buf = "none"
      BY <2>1, <1>t DEF TargetInv, Streaming
    <3>2. ~At(t, "direct")
      BY <2>2 DEF Baton, At
    <3> QED
      BY <3>1, <3>2, <2>1, <1>3, ProducerData
  <2> QED
    BY <1>3, <1>f, <2>1, <2>3, <2>4 DEF TargetInv, Streaming
<1> QED
  BY <1>1, <1>2, <1>3 DEF Threads

\* Every step leaves the target with the file's first cells, and at its end with all of them
LEMMA TargetStep ==
  ASSUME ExtractInv, Next
  PROVE  TargetInv'
<1>t. /\ RoleInv /\ ControlType /\ DataType /\ ThrType /\ TargetInv /\ next \in Files
      /\ got \in Seq(Cell) /\ data \in Seq(Cell)
      /\ Main \in Threads /\ \A p \in Producers : p \in Threads /\ p # Main
  BY WhoRuns DEF ExtractInv, DataType, ThrType, ControlType
<1>e. got \o << >> = got /\ (got \o data) \o << >> = got \o data
  <2>1. got \o data \in Seq(Cell)
    BY <1>t, ConcatProperties
  <2> QED
    BY <2>1, <1>t, ConcatEmptySeq
<1>r. RoleInv' /\ ControlType'
  BY RoleStep
<1>1. CASE \E t \in Threads : Codec(t)
  BY <1>1, TargetCodec
<1>2. CASE \E p \in Producers : ProducerEnds(p)
  <2>1. PICK p \in Producers : ProducerEnds(p)
    BY <1>2
  <2>2. /\ UNCHANGED <<AbortOp, data, phase, target, next, got>> /\ buf' = "none"
        /\ thr[p].pc = "ended"
    BY <2>1 DEF ProducerEnds, InBuffer, Stored, At
  <2>3. Streaming /\ phase \in {6, 7} /\ Baton(p)
    BY <2>1, <1>t, WhoStreams DEF ExtractInv, BatonInv, Streaming, ControlType
  <2>4. Sent' = Sent
    BY <2>2 DEF Sent, InFlight
  <2>5. AbortOp = 0 => target = "reading" /\ data = << >> /\ got = Content(next)
    <3> SUFFICES ASSUME AbortOp = 0 PROVE target = "reading" /\ data = << >> /\ got = Content(next)
      OBVIOUS
    <3>1. thr[p].at = Sizes[next] /\ buf # "none" /\ data = << >> /\ Sent = Prefix(next, thr[p].at)
      BY <2>2, <2>3 DEF Baton, At
    <3>2. target = "reading"
      BY <3>1, <2>3 DEF ExtractInv, ProducerInv
    <3>3. Sent = got
      BY <3>1, <3>2, <1>e DEF Sent, InFlight
    <3> QED
      BY <3>1, <3>2, <3>3, ContentIsPrefix
  <2> QED
    BY <2>2, <2>3, <2>4, <2>5, <1>t DEF TargetInv, Streaming
<1>3. CASE NextFile \/ SkipFile \/ FileDone \/ JobEnds
  <2>1. job # "none" /\ UNCHANGED <<phase, target, next, got>>
    BY <1>3 DEF NextFile, SkipFile, FileDone, JobEnds, JobStep, dragVars
  <2>2. CASE phase = -1
    BY <2>1, <2>2, <1>t, TargetNone DEF RoleInv
  <2>3. CASE phase # -1
    <3>1. target = "hdrop" /\ got = << >>
      BY <2>1, <2>3, <1>t DEF RoleInv, TargetInv
    <3> QED
      BY <3>1, <2>1, <1>t, TargetEmpty DEF Streaming
  <2> QED
    BY <2>2, <2>3
<1>4. CASE RunWorker \/ WorkerEnds \/ EndDrag
  <2>1. target' = "none" /\ phase' = -1
    BY <1>4, <1>t DEF RunWorker, WorkerEnds, EndDrag, Idle, dragVars, RoleInv, WorkerTypes
  <2> QED
    BY <2>1, TargetNone
<1>5. CASE BeginDrag \/ Drop \/ GetHDrop \/ GetDescriptor \/ HDropReturns \/ CopyTo
  <2>1. got' = << >> /\ target' \in {"dragging", "free", "hdrop", "copying"}
    BY <1>5, <1>t
       DEF BeginDrag, Drop, GetHDrop, GetDescriptor, HDropReturns, CopyTo, DragStep, RoleInv, TargetInv
  <2>2. next' \in Files
    BY <1>r DEF ControlType
  <2> QED
    BY <2>1, <2>2, TargetEmpty DEF Streaming
<1>6. CASE Ask \/ Answer \/ WmClose
  <2>1. AllButAbort /\ (AbortOp' = 0 => AbortOp = 0)
    BY <1>6, WindowFrame
  <2>2. Sent' = Sent
    BY <2>1 DEF AllButAbort, Sent, InFlight
  <2> QED
    BY <2>1, <2>2, <1>t DEF AllButAbort, TargetInv, Streaming, Off, At
<1>7. CASE GetContentsFails
  <2>1. /\ target = "free" /\ target' = "done" /\ UNCHANGED <<AbortOp, phase, next, got>>
    BY <1>7 DEF GetContentsFails, DragStep, abortVars
  <2>2. Sent' = Sent
    BY <2>1 DEF Sent, InFlight
  <2> QED
    BY <2>1, <2>2, <1>t, TargetKept DEF Streaming
<1>8. CASE GetContents
  <2>1. phase \in 1 .. 7 /\ target' = "stream" /\ got' = << >> /\ next' \in Files
    BY <1>8, <1>t DEF GetContents, ControlType
  <2>2. Streaming' => \E p \in Producers : ~Off(p)'
    <3> SUFFICES ASSUME Streaming' PROVE \E p \in Producers : ~Off(p)'
      OBVIOUS
    <3>1. phase' = CASE phase = 1 -> 5 [] phase \in {2, 3} -> phase + 2 [] OTHER -> phase
      BY <1>8 DEF GetContents
    <3>2. phase \in {6, 7}
      BY <2>1, <3>1 DEF Streaming
    <3>3. ThreadInGetData
      BY <3>2, <1>t DEF ThreadInGetData, ToTarget, RoleInv
    <3>4. PICK f \in Files, p \in Producers : thr' = [thr EXCEPT ![p] = Started(f, phase = 6)]
      BY <1>8, <3>3 DEF GetContents, NewProducer
    <3>5. (phase = 6) \in BOOLEAN
      OBVIOUS
    <3> QED
      BY <3>4, <3>5, <1>t, Starts DEF Off, At
  <2> QED
    BY <2>1, <2>2, TargetEmpty
<1>9. CASE CopyToReturns
  <2>1. /\ target = "copying" /\ target' = "eof" /\ At(Main, "ended")
        /\ UNCHANGED <<AbortOp, phase, next, got, data>>
    BY <1>9 DEF CopyToReturns, abortVars
  <2>2. ThreadType = "toexplorer" /\ phase \in {4, 5} /\ Working
    BY <2>1, <1>t DEF RoleInv, ExtractInv, MainInv, Off, At
  <2>3. AbortOp = 0 => got = Content(next)
    <3>1. AbortOp = 0 => got \o << >> = Prefix(next, Sizes[next])
      BY <2>1, <2>2 DEF Working, Out, At
    <3> QED
      BY <3>1, <1>e, ContentIsPrefix
  <2>4. Sent' = Sent
    BY <2>1 DEF Sent, InFlight
  <2> QED
    BY <2>1, <2>2, <2>3, <2>4, <1>t, TargetKept DEF Streaming
<1>10. CASE Read
  <2>1. target = "stream" /\ target' = "read" /\ UNCHANGED <<AbortOp, data, next, got>>
    BY <1>10 DEF Read, DragStep
  <2>2. CASE phase < 6
    <3>1. got = << >>
      BY <2>1, <2>2, <1>t DEF TargetInv, RoleInv, ControlType
    <3>2. PICK p \in Producers : thr' = [thr EXCEPT ![p] = Started(next, phase = 4)]
      BY <1>10, <2>2 DEF Read, NewProducer
    <3>3. (phase = 4) \in BOOLEAN
      OBVIOUS
    <3>4. ~Off(p)'
      BY <3>2, <3>3, <1>t, Starts DEF Off, At
    <3> QED
      BY <2>1, <3>1, <3>4, <1>t, TargetEmpty
  <2>3. CASE ~(phase < 6)
    <3>1. UNCHANGED <<phase, thr>> /\ Streaming
      BY <1>10, <2>1, <2>3, <1>t DEF Read, Streaming, ControlType
    <3>2. Sent' = Sent
      BY <2>1 DEF Sent, InFlight
    <3>3. AbortOp = 0 => \E p \in Producers : ~Off(p)
      BY <2>1, <3>1, <1>t DEF TargetInv
    <3> QED
      BY <2>1, <3>1, <3>2, <3>3, <1>t, TargetKept DEF Off, At
  <2> QED
    BY <2>2, <2>3
<1>11. CASE ReadArms
  <2>1. ReadSets[1] = "bufused" /\ ReadSets[2] = "buf"
    BY DEF ReadSets
  <2>2. /\ target \in {"read", "arming"} /\ target' \in {"arming", "reading"}
        /\ UNCHANGED <<thr, phase, AbortOp, next, got>>
        /\ target = "read" => target' = "arming" /\ data' = << >>
        /\ target = "arming" => target' = "reading" /\ data' = data
    BY <1>11, <2>1 DEF ReadArms, ReadStep, DragStep, abortVars
  <2>3. Streaming /\ data' = << >>
    BY <2>2, <1>t DEF Streaming, RoleInv, TargetInv
  <2>4. Sent' = Sent
    BY <2>2, <2>3, <1>e DEF Sent, InFlight
  <2>5. AbortOp = 0 => \E p \in Producers : ~Off(p)
    BY <2>2, <2>3, <1>t DEF TargetInv
  <2> QED
    BY <2>2, <2>3, <2>4, <2>5, <1>t, TargetKept DEF Off, At
<1>12. CASE ReadReturns
  <2>1. /\ target = "reading" /\ buf = "none" /\ got' = got \o data
        /\ target' = IF data = << >> THEN "eof" ELSE "stream"
        /\ UNCHANGED <<AbortOp, data, thr, phase, next>>
    BY <1>12 DEF ReadReturns, DragStep, abortVars
  <2>2. Streaming /\ phase \in {6, 7}
    BY <2>1, <1>t DEF Streaming, RoleInv, ControlType
  <2>3. Sent' = Sent
    BY <2>1, <1>e DEF Sent, InFlight
  <2>4. \E n \in 0 .. Sizes[next] : Sent' = Prefix(next, n)
    BY <2>1, <2>2, <2>3, <1>t DEF TargetInv
  <2>5. CASE data # << >>
    <3>1. AbortOp = 0 => \E p \in Producers : ~Off(p)
      BY <2>2, <2>5, <1>t DEF TargetInv
    <3> QED
      BY <2>1, <2>2, <2>4, <2>5, <3>1 DEF TargetInv, Off, At
  <2>6. CASE data = << >>
    <3>1. AbortOp = 0 => \A p \in Producers : Off(p)
      <4> SUFFICES ASSUME AbortOp = 0, NEW p \in Producers PROVE Off(p)
        OBVIOUS
      <4>1. thr[p].pc \in Pcs
        BY <1>t, PlaceType
      <4>2. ~Off(p) => Baton(p)
        BY <2>2 DEF ExtractInv, BatonInv
      <4> QED
        BY <4>1, <4>2, <2>1, <2>6 DEF Baton, Off, At, Pcs
    <3>2. AbortOp = 0 => got = Content(next)
      BY <3>1, <2>2, <1>t DEF TargetInv
    <3>3. got' = got
      BY <2>1, <2>6, <1>e
    <3> QED
      BY <2>1, <2>2, <2>4, <2>6, <3>2, <3>3 DEF TargetInv, Streaming
  <2> QED
    BY <2>5, <2>6
<1>13. CASE StreamOver
  <2>1. /\ target = "eof" /\ target' \in {"free", "done"} /\ UNCHANGED <<AbortOp, phase, next, got>>
    BY <1>13 DEF StreamOver, DragStep, abortVars
  <2>2. Sent' = Sent
    BY <2>1 DEF Sent, InFlight
  <2> QED
    BY <2>1, <2>2, <1>t, TargetKept DEF Streaming
<1> QED
  BY <1>1, <1>2, <1>3, <1>4, <1>5, <1>6, <1>7, <1>8, <1>9, <1>10, <1>11, <1>12, <1>13
     DEF Next, Operate, Job, TargetCalls, CallReturns

-----------------------------------------------------------------------------
(* The theorems.                                                           *)

\* All is well before the first operation
LEMMA InitInv == Init => ExtractInv
<1> SUFFICES ASSUME Init PROVE ExtractInv
  OBVIOUS
<1> USE ExtractAssumption, SizesFacts DEF Init
<1>1. Main \in Threads /\ \A t \in Threads : Off(t)
  BY DEF Threads, Off, At, Resting
<1>2. ControlType /\ RoleInv
  BY <1>1 DEF ControlType, RoleInv, WorkerTypes, Files
<1>3. DataType
  <2>1. /\ << >> \in Seq(Cell) /\ Len(<< >>) = 0 /\ << >> \in Seq(Files)
        /\ NoFile \in Seq(Cell)
    BY DEF NoFile, Cell
  <2>2. Resting \in [pc : Pcs, file : Files, at : Nat, left : Nat, temp : BOOLEAN]
    BY DEF Resting, Pcs
  <2> QED
    BY <2>1, <2>2 DEF DataType
<1>4. ProducerInv /\ BatonInv /\ MainInv /\ EmptyInv
  BY <1>1 DEF ProducerInv, BatonInv, MainInv, EmptyInv, Threads
<1>5. TargetInv
  BY DEF TargetInv, Streaming
<1>6. DiskInv
  BY DEF DiskInv, Good
<1> QED
  BY <1>2, <1>3, <1>4, <1>5, <1>6 DEF ExtractInv

\* What says nothing of the variables' next values holds when none changes
LEMMA Stutter ==
  ASSUME ExtractInv, UNCHANGED vars
  PROVE  ExtractInv'
<1> USE DEF vars, codeVars, abortVars, jobVars, dragVars, ExtractInv
<1>1. ControlType' /\ RoleInv'
  BY DEF ControlType, RoleInv, Off, At
<1>2. DataType'
  BY DEF DataType
<1>3. Streaming' <=> Streaming
  BY DEF Streaming
<1>4. ProducerInv' /\ MainInv' /\ EmptyInv'
  BY <1>3 DEF ProducerInv, MainInv, EmptyInv, Working, Out, Stuck, Off, At
<1>5. BatonInv' /\ TargetInv'
  BY <1>3 DEF BatonInv, Baton, TargetInv, Sent, InFlight, Off, At
<1>6. DiskInv'
  BY DEF DiskInv, Good
<1> QED
  BY <1>1, <1>2, <1>4, <1>5, <1>6

\* an operation that is begun undisturbed follows undisturbed ones
LEMMA DisturbedStep ==
  ASSUME [Next]_vars, ~disturbed'
  PROVE  ~disturbed
<1>1. CASE RunWorker \/ BeginDrag
  BY <1>1, Zenon DEF RunWorker, BeginDrag, Setup
<1>2. CASE UNCHANGED disturbed
  BY <1>2
<1> QED
  BY <1>1, <1>2 DEF Next, vars

\* Whatever the user, the target, the threads and the errors do: which operation
\* goes with which thread, the handshake over Extract.buf, and what the target, the
\* buffer and the files hold of each other.  It can only be lost by beginning an operation
\* while the producer of an aborted drag waits for a buffer that nobody will give it; that
\* no other producer is ever left over is part of what is shown
THEOREM ExtractInvariant == Spec => [](disturbed \/ ExtractInv)
<1>1. Init => ExtractInv
  BY InitInv
<1>2. (disturbed \/ ExtractInv) /\ [Next]_vars => (disturbed \/ ExtractInv)'
  <2> SUFFICES ASSUME disturbed \/ ExtractInv, [Next]_vars, ~disturbed'
               PROVE  ExtractInv'
    OBVIOUS
  <2>0. ExtractInv
    BY DisturbedStep
  <2>1. ASSUME Next PROVE ExtractInv'
    BY <2>0, <2>1, RoleStep, TypeStep, ProducerStep, BatonStep, TargetStep, MainStep, EmptyStep,
       DiskStep DEF ExtractInv
  <2> QED
    BY <2>0, <2>1, Stutter
<1> QED
  BY <1>1, <1>2, PTL DEF Spec

\* Never are two threads in the codec, with any number of producers: a file's
\* producer has left it before the target can ask for the next one's, and no operation
\* finds one in it, but for one that an aborted drag has left waiting in Outfile_Flush
THEOREM OneThreadInCodec == Spec => []OneInCodec
<1>1. ASSUME disturbed \/ ExtractInv PROVE OneInCodec
  <2> SUFFICES ASSUME ExtractInv PROVE OneInCodec
    BY <1>1 DEF OneInCodec
  <2> DEFINE busy == {t \in Threads : ~At(t, "off")}
  <2>1. \A t, u \in busy : t = u
    BY WhoRuns DEF ExtractInv, ProducerInv, Threads, Off
  <2>2. CASE busy = {}
    BY <2>2, FS_EmptySet DEF OneInCodec
  <2>3. CASE busy # {}
    <3>1. PICK t : t \in busy
      BY <2>3
    <3>2. busy = {t}
      BY <2>1, <3>1
    <3>3. Cardinality({t}) = 1
      BY FS_Singleton
    <3> QED
      BY <3>2, <3>3 DEF OneInCodec
  <2> QED
    BY <2>2, <2>3
<1> QED
  BY <1>1, ExtractInvariant, PTL

\* The target gets each file's cells in order, without loss or repetition, for every
\* size of buffer and piece, and the whole file when it is told its end without an abort,
\* in operations that no producer is left over to
THEOREM StreamsArriveWhole == Spec => []StreamsWhole
<1>0. ASSUME disturbed PROVE StreamsWhole
  BY <1>0 DEF StreamsWhole
<1>1. ASSUME ExtractInv PROVE StreamsWhole
  <2>1. got \in Seq(Cell) /\ data \in Seq(Cell) /\ next \in Files
    BY <1>1 DEF ExtractInv, DataType, ControlType
  <2>2. ASSUME target # "none", AbortOp = 0 \/ phase >= 6
        PROVE  IsPart(next, got)
    <3>1. PICK n \in 0 .. Sizes[next] : Sent = Prefix(next, n)
      BY <1>1, <2>2 DEF ExtractInv, TargetInv
    <3>2. n \in Nat /\ n <= Sizes[next] /\ Sizes[next] \in Nat
      BY <2>1, SizesFacts
    <3>3. InFlight \in Seq(Cell)
      <4>1. << >> \in Seq(Cell)
        OBVIOUS
      <4> QED
        BY <4>1, <2>1 DEF InFlight
    <3>4. got \o InFlight = Prefix(next, n)
      BY <3>1 DEF Sent
    <3>5. Len(got) <= n /\ got = Prefix(next, Len(got))
      BY <2>1, <3>2, <3>3, <3>4, PrefixHead
    <3>6. Len(got) \in 0 .. Sizes[next]
      BY <2>1, <3>2, <3>5
    <3>7. IsPart(next, Prefix(next, Len(got)))
      BY <2>1, <3>6, PrefixIsPart
    <3> QED
      BY <3>5, <3>7, Zenon
  <2>3. target = "eof" /\ AbortOp = 0 => IsWhole(next, got)
    BY <1>1 DEF ExtractInv, TargetInv, IsWhole
  <2> QED
    BY <2>2, <2>3 DEF StreamsWhole
<1> QED
  BY <1>0, <1>1, ExtractInvariant, PTL

\* When no operation runs, a file is whole or there is none, after an abort, an error or
\* a dialog's answer at any moment; and the files named to CF_HDROP are whole, as long as
\* no producer is left over to an operation
THEOREM FilesAreWhole == Spec => []WholeFiles
<1>0. ASSUME disturbed PROVE WholeFiles
  BY <1>0 DEF WholeFiles
<1>1. ASSUME ExtractInv PROVE WholeFiles
  BY <1>1 DEF ExtractInv, RoleInv, DiskInv, Good, WholeFiles
<1> QED
  BY <1>0, <1>1, ExtractInvariant, PTL
=============================================================================
