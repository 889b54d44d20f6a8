--------------------------- MODULE DemStreamProofs ---------------------------
(***************************************************************************)
(* Proofs about DemStream, for windows and files of every size.            *)
(*                                                                         *)
(* The invariant has two halves.  EncInv says what the encoder has put     *)
(* out: a chain of blocks, each of which leads from one mark, a place in   *)
(* the stream with the place in the file it stands for, to the next.       *)
(* DecInv says that the window shows the stream from readptr on and that   *)
(* the decoder always stands on a mark of that chain.                      *)
(***************************************************************************)
EXTENDS DemStream, Induction, SequenceTheorems

\* the file position behind each of its blocks, 0 for its cd string
Upto(f) ==
  LET upto[n \in 0 .. Len(f.blocks)] == IF n = 0 THEN f.cd ELSE upto[n - 1] + f.blocks[n].in
  IN upto

-----------------------------------------------------------------------------
(* The encoder's half.                                                     *)

Tags == {"junk", "byte", "newline", "block", "raw"}
Cell == Seq(Tags \cup Nat)

\* a coded block that leads from place q of the stream and m of the file to r and s
CodedLeads(q, m, r, s) ==
  /\ q < r /\ m < s /\ r <= Len(stream)
  /\ r - q <= Half
  /\ \A k \in 1 .. r - q : stream[q + k] = <<"block", k, r - q, m, s - m>>

\* a raw block that does so, as long as one can be or the last one
RawLeads(q, m, r, s) ==
  /\ q < r /\ m < s /\ r <= Len(stream)
  /\ r - q = RawHead + (s - m)
  /\ s - m <= RawRoom
  /\ s - m = RawRoom \/ s = Stop
  /\ stream[q + 1] = <<"raw", 1, s - m>>
  /\ \A k \in 1 .. s - m : stream[q + RawHead + k] = <<"byte", m + k>>

Leads(v, w) == CodedLeads(v[1], v[2], w[1], w[2]) \/ RawLeads(v[1], v[2], w[1], w[2])

EndMark == <<Len(stream), pos>>

\* the marks of a demo's stream: behind the cd string, at its end, and between two blocks
Marks(W) ==
  /\ W \subseteq Nat \X Nat
  /\ <<input.cd, input.cd>> \in W
  /\ EndMark \in W
  /\ \A v \in W : \/ v = EndMark
                  \/ /\ v[1] < Len(stream) /\ v[2] < pos
                     /\ \E w \in W : Leads(v, w)

EncPcs == {"cd", "blocks", "raw", "plain"}
DecPcs == {"fill", "decode", "inflate", "return", "report", "done"}

\* a demo's stream begins with its cd string
CdFirst ==
  /\ input.cd # 0
  /\ input.cd <= Len(stream)
  /\ \A k \in 1 .. input.cd : stream[k] = CdCells(input.cd)[k]

EncInv ==
  /\ input \in FileType
  /\ pc \in EncPcs \cup DecPcs
  /\ pos \in 0 .. Stop
  /\ crc = Bytes(0, pos)
  /\ stream \in Seq(Cell)
  /\ pc = "cd" => pos = 0 /\ blk = 1 /\ stream = << >> /\ demo = TRUE
  /\ pc = "blocks" => demo /\ blk \in 1 .. Len(input.blocks) + 1 /\ pos = Upto(input)[blk - 1]
  /\ pc = "raw" => demo
  /\ pc = "plain" => ~demo
  /\ pc \in DecPcs => pos = Stop
  /\ demo \in BOOLEAN
  /\ demo /\ pc # "cd" => CdFirst
  /\ ~demo => stream = ByteCells(0, pos)

-----------------------------------------------------------------------------
(* The decoder's half.  When something has gone wrong it may do anything.  *)

\* the decoder has not begun
Untouched ==
  /\ abort = 0 /\ first = TRUE /\ out = << >>
  /\ DOMAIN win = 1 .. Window
  /\ inpos = 0 /\ inlen = 0 /\ readptr = 0 /\ totalsize = 0

\* the first n cells of the window are those of the stream from readptr on
Shows(n) == \A x \in 1 .. n : readptr + x <= eofptr => win[x] = stream[readptr + x]

\* inflate has delivered the stream up to here, if there is so much
Delivered(n) == inpos = IF n <= eofptr THEN n ELSE eofptr

\* how much of the stream has been decoded
Decoded == IF pc = "fill" THEN readptr ELSE readptr + blocksize

WindowInv ==
  /\ DOMAIN win = 1 .. Window
  /\ readptr \in 0 .. eofptr
  /\ inlen \in 0 .. Window
  /\ pc = "fill" =>
       /\ totalsize = readptr + inlen
       /\ Delivered(readptr + inlen) /\ Shows(inlen)
  /\ pc \in {"decode", "return"} =>
       /\ readptr < eofptr
       /\ totalsize = readptr + Window
       /\ Delivered(readptr + Window) /\ Shows(Window)
       /\ blocksize \in 0 .. Window /\ readptr + blocksize <= eofptr

\* before the cd string has been read
AtStart ==
  /\ pc \in {"fill", "decode"} /\ out = << >> /\ readptr = 0 /\ inlen = 0
  /\ pc = "decode" => blocksize = 0 /\ inptr = 0

PlaceInv ==
  /\ out = Bytes(0, Len(out)) /\ Len(out) \in Nat
  /\ first \in BOOLEAN
  /\ ~demo => Len(out) = Decoded /\ (pc = "decode" => blocksize = 0)
  /\ demo /\ first => AtStart
  /\ demo /\ pc = "return" => blocksize # 0
  /\ demo /\ ~first /\ pc = "decode" =>
       inptr = blocksize \/ blocksize = Window \/ readptr + blocksize = eofptr

\* decoded is the file up to a mark
OnMark(W) == demo /\ ~first => <<Decoded, Len(out)>> \in W

DecInv ==
  /\ pc \in EncPcs => Untouched
  /\ abort = 0 /\ pc \in {"fill", "decode", "return"} => WindowInv /\ PlaceInv
  /\ pc \in {"report", "inflate"} => abort # 0
  /\ pc = "done" /\ abort = 0 => out = Bytes(0, Stop) /\ verdict = "ok"

ChainInv ==
  demo /\ pc # "cd" =>
    \E W : Marks(W) /\ (abort = 0 /\ pc \in {"fill", "decode", "return"} => OnMark(W))

StreamInv == EncInv /\ DecInv /\ ChainInv

-----------------------------------------------------------------------------
(* Files, cells and sequences of them.                                     *)

\* Upto gives the places between the blocks of a file, in ascending order and all in it: Size
\* is the last of them
LEMMA UptoFacts ==
  ASSUME NEW f \in FileType
  PROVE  /\ Upto(f) \in [0 .. Len(f.blocks) -> Nat]
         /\ Upto(f)[0] = f.cd
         /\ \A n \in 1 .. Len(f.blocks) : Upto(f)[n] = Upto(f)[n - 1] + f.blocks[n].in
         /\ \A n \in 0 .. Len(f.blocks) : Upto(f)[n] <= Size(f)
         /\ Size(f) = Upto(f)[Len(f.blocks)]
<1> DEFINE N == Len(f.blocks)
           h == [x \in (1 .. N) \X Nat |-> x[2] + f.blocks[x[1]].in]
           step(g, n) == IF n = 0 THEN f.cd ELSE g[n - 1] + f.blocks[n].in
           u == CHOOSE g : g = [n \in 0 .. N |-> step(g, n)]
<1>1. N \in Nat /\ f.cd \in Nat /\ \A n \in 1 .. N : f.blocks[n].in \in Nat
  <2>1. f.cd \in 0 .. MaxCd /\ f.blocks \in Seq(BlockType)
    BY DEF FileType
  <2>2. N \in Nat /\ \A n \in 1 .. N : f.blocks[n] \in BlockType
    BY <2>1
  <2> QED
    BY <2>1, <2>2 DEF BlockType
<1>2. \A n \in 1 .. N : \A s \in Nat : h[<<n, s>>] = s + f.blocks[n].in
  OBVIOUS
<1>3. h \in [(1 .. N) \X Nat -> Nat]
  <2>1. \A x \in (1 .. N) \X Nat : x[2] + f.blocks[x[1]].in \in Nat
    <3> HIDE DEF N
    <3> SUFFICES ASSUME NEW n \in 1 .. N, NEW s \in Nat PROVE s + f.blocks[n].in \in Nat
      OBVIOUS
    <3>1. f.blocks[n].in \in Nat
      BY <1>1
    <3> QED
      BY <3>1
  <2> HIDE DEF N
  <2> QED
    BY <2>1
<1> HIDE DEF N, h
<1>4. PICK g \in [0 .. N -> Nat] : g[0] = f.cd /\ \A n \in 1 .. N : g[n] = h[<<n, g[n - 1]>>]
  <2>1. Solutions(N, Nat, f.cd, h) # {}
    BY <1>1, <1>3, RecursionHasSolution
  <2> QED
    BY <2>1 DEF Solutions
<1>5. g = [n \in 0 .. N |-> step(g, n)]
  <2>1. ASSUME NEW n \in 0 .. N PROVE g[n] = step(g, n)
    <3>1. CASE n = 0
      BY <1>4, <3>1
    <3>2. CASE n # 0
      <4>1. n \in 1 .. N /\ n - 1 \in 0 .. N
        BY <1>1, <3>2
      <4>2. g[n] = h[<<n, g[n - 1]>>] /\ g[n - 1] \in Nat
        BY <1>4, <4>1
      <4> QED
        BY <1>2, <3>2, <4>1, <4>2
    <3> QED
      BY <3>1, <3>2
  <2> HIDE DEF step
  <2> QED
    BY <2>1
<1>6. u = [n \in 0 .. N |-> step(u, n)]
  <2> HIDE DEF step
  <2>1. \E e : e = [n \in 0 .. N |-> step(e, n)]
    BY <1>5
  <2> QED
    BY <2>1
<1> HIDE DEF u
<1>7. DOMAIN u = 0 .. N /\ u[0] = f.cd /\ \A n \in 1 .. N : u[n] = u[n - 1] + f.blocks[n].in
  <2>1. DOMAIN u = 0 .. N /\ \A n \in 0 .. N : u[n] = step(u, n)
    <3> HIDE DEF step
    <3> QED
      BY <1>6
  <2>2. 0 \in 0 .. N /\ \A n \in 1 .. N : n \in 0 .. N /\ n # 0
    BY <1>1
  <2> QED
    BY <2>1, <2>2
<1>8. \A n \in 0 .. N : u[n] \in Nat
  <2>1. \A n \in 1 .. N : u[n - 1] \in Nat => u[n] \in Nat
    <3> SUFFICES ASSUME NEW n \in 1 .. N, u[n - 1] \in Nat PROVE u[n] \in Nat
      OBVIOUS
    <3>1. u[n] = u[n - 1] + f.blocks[n].in /\ f.blocks[n].in \in Nat
      BY <1>1, <1>7
    <3> QED
      BY <3>1
  <2> QED
    BY <1>1, <1>7, <2>1, SolutionInSet
<1>9. \A n \in 0 .. N : u[n] <= u[N]
  <2> DEFINE K == {k \in 0 .. N : u[N - k] <= u[N]}
  <2>1. 0 \in K
    BY <1>1, <1>8
  <2>2. ASSUME NEW k \in 1 .. N, k - 1 \in K PROVE k \in K
    <3>1. N - (k - 1) \in 1 .. N /\ (N - (k - 1)) - 1 = N - k /\ N - k \in 0 .. N
      BY <1>1
    <3>2. u[N - (k - 1)] = u[N - k] + f.blocks[N - (k - 1)].in /\ u[N - (k - 1)] <= u[N]
      BY <1>7, <2>2, <3>1
    <3>3. u[N - k] \in Nat /\ u[N] \in Nat /\ f.blocks[N - (k - 1)].in \in Nat
      BY <1>1, <1>8, <3>1
    <3> QED
      BY <3>1, <3>2, <3>3
  <2> HIDE DEF K
  <2>3. 0 .. N \subseteq K
    BY <1>1, <2>1, <2>2, BoundedInduction
  <2>4. ASSUME NEW n \in 0 .. N PROVE u[n] <= u[N]
    <3>1. N - n \in 0 .. N /\ N - (N - n) = n
      BY <1>1
    <3> QED
      BY <2>3, <3>1 DEF K
  <2> QED
    BY <2>4
<1>10. Upto(f) = u /\ Size(f) = u[N]
  BY DEF Upto, Size, u, N
<1>11. u \in [0 .. N -> Nat]
  <2>1. u = [n \in 0 .. N |-> u[n]]
    BY <1>6
  <2> QED
    BY <1>8, <2>1
<1> QED
  BY <1>7, <1>9, <1>10, <1>11 DEF N

\* The pieces of a file, one behind the other
LEMMA BytesFacts ==
  ASSUME NEW a \in Nat, NEW n \in Nat
  PROVE  /\ Bytes(a, n) \in Seq(Nat) /\ Len(Bytes(a, n)) = n
         /\ Bytes(0, a) \o Bytes(a, n) = Bytes(0, a + n)
<1>1. \A p, k \in Nat : Bytes(p, k) \in Seq(Nat) /\ Len(Bytes(p, k)) = k
  BY DEF Bytes
<1> DEFINE s == Bytes(0, a) \o Bytes(a, n)
           t == Bytes(0, a + n)
<1>2. /\ s \in Seq(Nat) /\ Len(s) = a + n
      /\ \A k \in 1 .. a + n : s[k] = IF k <= a THEN Bytes(0, a)[k] ELSE Bytes(a, n)[k - a]
  <2>1. Bytes(0, a) \in Seq(Nat) /\ Len(Bytes(0, a)) = a
    BY <1>1
  <2>2. Bytes(a, n) \in Seq(Nat) /\ Len(Bytes(a, n)) = n
    BY <1>1
  <2> QED
    <3> DEFINE b == Bytes(0, a)
               c == Bytes(a, n)
    <3> HIDE DEF b, c
    <3>1. b \in Seq(Nat) /\ Len(b) = a /\ c \in Seq(Nat) /\ Len(c) = n
      BY <2>1, <2>2 DEF b, c
    <3>2. /\ b \o c \in Seq(Nat) /\ Len(b \o c) = Len(b) + Len(c)
          /\ \A k \in 1 .. Len(b) + Len(c) :
               (b \o c)[k] = IF k <= Len(b) THEN b[k] ELSE c[k - Len(b)]
      BY <3>1, ConcatProperties
    <3> QED
      BY <3>1, <3>2 DEF b, c
<1>3. t \in Seq(Nat) /\ Len(t) = a + n
  BY <1>1
<1>4. \A k \in 1 .. a + n : s[k] = t[k]
  <2> SUFFICES ASSUME NEW k \in 1 .. a + n PROVE s[k] = t[k]
    OBVIOUS
  <2>1. t[k] = k
    BY DEF Bytes
  <2>2. CASE k <= a
    <3>1. Bytes(0, a)[k] = k
      BY <2>2 DEF Bytes
    <3> QED
      BY <1>2, <2>1, <2>2, <3>1
  <2>3. CASE ~ (k <= a)
    <3>1. Bytes(a, n)[k - a] = k
      BY <2>3 DEF Bytes
    <3> QED
      BY <1>2, <2>1, <2>3, <3>1
  <2> QED
    BY <2>2, <2>3
<1> HIDE DEF s, t
<1>5. s = t
  BY <1>2, <1>3, <1>4, SeqEqual
<1> QED
  BY <1>1, <1>5 DEF s, t

\* What the constants are
LEMMA ConstantFacts ==
  /\ Window \in Nat \ {0} /\ Half \in Nat \ {0} /\ Enough \in Nat \ {0}
  /\ RawHead \in Nat \ {0} /\ MaxCd \in Nat \ {0}
  /\ Enough - 1 + Half <= Window /\ Enough - 1 + RawHead <= Window /\ RawHead < Window
  /\ MaxCd < Enough
BY DemAssumption

\* What is put behind a stream leaves it as it is
LEMMA Appended ==
  ASSUME NEW S, NEW s \in Seq(S), NEW t \in Seq(S)
  PROVE  /\ s \o t \in Seq(S) /\ Len(s \o t) = Len(s) + Len(t)
         /\ \A k \in 1 .. Len(s) : (s \o t)[k] = s[k]
         /\ \A k \in 1 .. Len(t) : (s \o t)[Len(s) + k] = t[k]
<1>1. /\ s \o t \in Seq(S) /\ Len(s \o t) = Len(s) + Len(t)
      /\ \A k \in 1 .. Len(s) + Len(t) :
           (s \o t)[k] = IF k <= Len(s) THEN s[k] ELSE t[k - Len(s)]
  BY ConcatProperties
<1>2. Len(s) \in Nat /\ Len(t) \in Nat
  OBVIOUS
<1>3. ASSUME NEW k \in 1 .. Len(s) PROVE (s \o t)[k] = s[k]
  <2>1. k \in 1 .. Len(s) + Len(t) /\ k <= Len(s)
    BY <1>2
  <2> QED
    BY <1>1, <2>1
<1>4. ASSUME NEW k \in 1 .. Len(t) PROVE (s \o t)[Len(s) + k] = t[k]
  <2>1. Len(s) + k \in 1 .. Len(s) + Len(t) /\ ~ (Len(s) + k <= Len(s))
        /\ (Len(s) + k) - Len(s) = k
    BY <1>2
  <2>2. (s \o t)[Len(s) + k] = t[(Len(s) + k) - Len(s)]
    BY <1>1, <2>1
  <2> QED
    BY <2>1, <2>2
<1> QED
  BY <1>1, <1>3, <1>4

\* Short tuples of tags and numbers are cells
LEMMA TupleCells ==
  /\ \A a \in Tags : \A b \in Nat : <<a, b>> \in Cell
  /\ \A a \in Tags : \A b, c \in Nat : <<a, b, c>> \in Cell
  /\ \A a \in Tags : \A b, c, d, e \in Nat : <<a, b, c, d, e>> \in Cell
<1> DEFINE D == Tags \cup Nat
<1>1. \A a \in Tags : a \in D
  OBVIOUS
<1>2. \A b \in Nat : b \in D
  OBVIOUS
<1> HIDE DEF D
<1>3. \A a, b \in D : <<a, b>> \in Seq(D)
  OBVIOUS
<1>4. \A a, b, c \in D : <<a, b, c>> \in Seq(D)
  OBVIOUS
<1>5. \A a, b, c, d, e \in D : <<a, b, c, d, e>> \in Seq(D)
  OBVIOUS
<1>6. Cell = Seq(D)
  BY DEF D, Cell
<1>7. \A a \in Tags : \A b \in Nat : <<a, b>> \in Cell
  BY <1>1, <1>2, <1>3, <1>6, Zenon
<1>8. \A a \in Tags : \A b, c \in Nat : <<a, b, c>> \in Cell
  BY <1>1, <1>2, <1>4, <1>6, Zenon
<1>9. \A a \in Tags : \A b, c, d, e \in Nat : <<a, b, c, d, e>> \in Cell
  BY <1>1, <1>2, <1>5, <1>6, Zenon
<1> QED
  BY <1>7, <1>8, <1>9

\* The cells that are put out for bytes of the file, for a cd string, and for blocks
LEMMA CellFacts ==
  ASSUME NEW p \in Nat, NEW n \in Nat
  PROVE  /\ ByteCells(p, n) \in Seq(Cell) /\ Len(ByteCells(p, n)) = n
         /\ \A k \in 1 .. n : ByteCells(p, n)[k] = <<"byte", p + k>>
         /\ CdCells(n) \in Seq(Cell) /\ Len(CdCells(n)) = n
         /\ \A k \in 1 .. n : CdCells(n)[k] = <<IF k = n THEN "newline" ELSE "byte", k>>
<1>1. \A k \in 1 .. n : <<"byte", p + k>> \in Cell
  <2> SUFFICES ASSUME NEW k \in 1 .. n PROVE <<"byte", p + k>> \in Cell
    OBVIOUS
  <2>1. p + k \in Nat /\ "byte" \in Tags
    BY DEF Tags
  <2> QED
    BY <2>1, TupleCells, Zenon
<1>2. \A k \in 1 .. n : <<IF k = n THEN "newline" ELSE "byte", k>> \in Cell
  <2> SUFFICES ASSUME NEW k \in 1 .. n PROVE <<IF k = n THEN "newline" ELSE "byte", k>> \in Cell
    OBVIOUS
  <2>1. k \in Nat /\ (IF k = n THEN "newline" ELSE "byte") \in Tags
    BY DEF Tags
  <2> QED
    BY <2>1, TupleCells, Zenon
<1> HIDE DEF Cell
<1>3. ByteCells(p, n) \in Seq(Cell) /\ Len(ByteCells(p, n)) = n
  BY <1>1 DEF ByteCells
<1>4. CdCells(n) \in Seq(Cell) /\ Len(CdCells(n)) = n
  BY <1>2 DEF CdCells
<1> QED
  BY <1>3, <1>4 DEF ByteCells, CdCells

\* ... and for coded blocks
LEMMA BlockCellFacts ==
  ASSUME NEW p \in Nat, NEW b \in BlockType
  PROVE  /\ BlockCells(p, b) \in Seq(Cell) /\ Len(BlockCells(p, b)) = b.coded
         /\ \A k \in 1 .. b.coded : BlockCells(p, b)[k] = <<"block", k, b.coded, p, b.in>>
<1>1. b.coded \in Nat /\ b.in \in Nat
  BY DEF BlockType
<1>2. \A k \in 1 .. b.coded : <<"block", k, b.coded, p, b.in>> \in Cell
  <2> SUFFICES ASSUME NEW k \in 1 .. b.coded PROVE <<"block", k, b.coded, p, b.in>> \in Cell
    OBVIOUS
  <2>1. k \in Nat /\ "block" \in Tags
    BY <1>1 DEF Tags
  <2> QED
    BY <1>1, <2>1, TupleCells, Zenon
<1> HIDE DEF Cell
<1> QED
  BY <1>1, <1>2 DEF BlockCells

\* ... and for raw ones
LEMMA RawCellFacts ==
  ASSUME NEW p \in Nat, NEW n \in Nat
  PROVE  /\ RawCells(p, n) \in Seq(Cell) /\ Len(RawCells(p, n)) = RawHead + n
         /\ RawCells(p, n)[1] = <<"raw", 1, n>>
         /\ \A k \in 1 .. n : RawCells(p, n)[RawHead + k] = <<"byte", p + k>>
<1> DEFINE head == [k \in 1 .. RawHead |-> <<"raw", k, n>>]
<1>1. \A k \in 1 .. RawHead : <<"raw", k, n>> \in Cell
  <2> SUFFICES ASSUME NEW k \in 1 .. RawHead PROVE <<"raw", k, n>> \in Cell
    OBVIOUS
  <2>1. k \in Nat /\ "raw" \in Tags
    BY ConstantFacts DEF Tags
  <2> QED
    BY <2>1, TupleCells, Zenon
<1> HIDE DEF Cell
<1>2. head \in Seq(Cell) /\ Len(head) = RawHead /\ head[1] = <<"raw", 1, n>>
  BY <1>1, ConstantFacts
<1> HIDE DEF head
<1>3. /\ ByteCells(p, n) \in Seq(Cell) /\ Len(ByteCells(p, n)) = n
      /\ \A k \in 1 .. n : ByteCells(p, n)[k] = <<"byte", p + k>>
  BY CellFacts
<1>4. RawCells(p, n) = head \o ByteCells(p, n)
  BY DEF RawCells, head
<1>5. /\ RawCells(p, n) \in Seq(Cell)
      /\ Len(RawCells(p, n)) = Len(head) + Len(ByteCells(p, n))
      /\ \A k \in 1 .. Len(head) : RawCells(p, n)[k] = head[k]
      /\ \A k \in 1 .. Len(ByteCells(p, n)) :
           RawCells(p, n)[Len(head) + k] = ByteCells(p, n)[k]
  <2> DEFINE t == ByteCells(p, n)
  <2>1. t \in Seq(Cell)
    BY <1>3
  <2> HIDE DEF t
  <2>2. /\ head \o t \in Seq(Cell) /\ Len(head \o t) = Len(head) + Len(t)
        /\ \A k \in 1 .. Len(head) : (head \o t)[k] = head[k]
        /\ \A k \in 1 .. Len(t) : (head \o t)[Len(head) + k] = t[k]
    <3>1. head \in Seq(Cell) /\ t \in Seq(Cell)
      BY <1>2, <2>1
    <3> QED
      BY <3>1, Appended
  <2> QED
    BY <1>4, <2>2 DEF t
<1>6. 1 \in 1 .. RawHead
  BY ConstantFacts
<1> QED
  BY <1>2, <1>3, <1>5, <1>6

\* A piece is never empty, never longer than the limit, and shorter only at the end
LEMMA PieceFacts ==
  ASSUME NEW limit \in Nat \ {0}, pos \in 0 .. Stop, Stop \in Nat, pos < Stop
  PROVE  /\ Piece(limit) \in 1 .. limit
         /\ pos + Piece(limit) <= Stop
         /\ Piece(limit) = limit \/ pos + Piece(limit) = Stop
BY DEF Piece

-----------------------------------------------------------------------------
(* The encoder's steps.                                                    *)

LEMMA InitInv == Init => StreamInv
<1> SUFFICES ASSUME Init PROVE StreamInv
  OBVIOUS
<1> USE DEF Init
<1>1. input \in FileType /\ Stop \in Nat
  <2>1. input \in FileType
    BY DemAssumption
  <2>2. Len(input.blocks) \in Nat
    BY <2>1 DEF FileType
  <2> QED
    BY <2>1, <2>2, UptoFacts DEF Stop
<1>2. Bytes(0, 0) = << >>
  BY DEF Bytes
<1>3. stream \in Seq(Cell)
  BY DEF Cell
<1>4. EncInv
  BY <1>1, <1>2, <1>3 DEF EncInv, EncPcs, DecPcs
<1>5. DecInv
  BY DEF DecInv, Untouched, EncPcs
<1>6. ChainInv
  BY DEF ChainInv
<1> QED
  BY <1>4, <1>5, <1>6 DEF StreamInv

\* Sizes are numbers, and a file begins with its cd string
LEMMA StopFacts ==
  ASSUME input \in FileType
  PROVE  Stop \in Nat /\ input.cd \in Nat /\ input.cd <= Stop
<1>1. Len(input.blocks) \in Nat
  BY DEF FileType
<1> QED
  BY <1>1, UptoFacts DEF Stop

\* What Emit does to the stream, the checksum and the position
LEMMA EmitFacts ==
  ASSUME EncInv, NEW n \in Nat, NEW cells \in Seq(Cell),
         Emit(cells, n), pos + n <= Stop, UNCHANGED input
  PROVE  /\ stream' \in Seq(Cell) /\ Len(stream') = Len(stream) + Len(cells)
         /\ \A k \in 1 .. Len(stream) : stream'[k] = stream[k]
         /\ \A k \in 1 .. Len(cells) : stream'[Len(stream) + k] = cells[k]
         /\ crc' = Bytes(0, pos') /\ pos' \in 0 .. Stop' /\ pos' = pos + n /\ Stop' = Stop
         /\ Len(stream) \in Nat /\ Len(cells) \in Nat /\ pos \in Nat /\ Stop \in Nat
<1>1. /\ stream \in Seq(Cell) /\ crc = Bytes(0, pos) /\ pos \in Nat /\ input \in FileType
      /\ Stop \in Nat
  BY StopFacts DEF EncInv
<1>2. stream' = stream \o cells /\ crc' = crc \o Bytes(pos, n) /\ pos' = pos + n
  BY DEF Emit
<1>3. /\ stream' \in Seq(Cell) /\ Len(stream') = Len(stream) + Len(cells)
      /\ \A k \in 1 .. Len(stream) : stream'[k] = stream[k]
      /\ \A k \in 1 .. Len(cells) : stream'[Len(stream) + k] = cells[k]
  BY <1>1, <1>2, Appended
<1>4. crc' = Bytes(0, pos')
  BY <1>1, <1>2, BytesFacts
<1>5. Stop' = Stop
  BY DEF Stop
<1>6. Len(stream) \in Nat /\ Len(cells) \in Nat
  BY <1>1
<1> QED
  BY <1>1, <1>2, <1>3, <1>4, <1>5, <1>6, SMTT(30)

\* A block that is put out leads from the old end of the stream to the new one, and all
\* earlier marks remain
LEMMA MarksGrow ==
  ASSUME NEW W, Marks(W), NEW q, NEW m, NEW r, NEW s,
         q = Len(stream), m = pos, r = Len(stream'), s = pos',
         q \in Nat, m \in Nat, r \in Nat, s \in Nat, q < r, m < s,
         UNCHANGED input,
         \A k \in 1 .. q : stream'[k] = stream[k],
         CodedLeads(q, m, r, s)' \/ RawLeads(q, m, r, s)'
  PROVE  Marks(W \cup {<<r, s>>})'
<1> DEFINE V == W \cup {<<r, s>>}
<1>1. Stop' = Stop
  BY DEF Stop
<1>2. /\ W \subseteq Nat \X Nat /\ <<input.cd, input.cd>> \in W /\ <<q, m>> \in W
      /\ \A v \in W : v = <<q, m>> \/ (v[1] < q /\ v[2] < m /\ \E w \in W : Leads(v, w))
  BY DEF Marks, EndMark
<1>3. EndMark' = <<r, s>>
  BY DEF EndMark
<1>4. V \subseteq Nat \X Nat
  BY <1>2
<1>5. \A v \in Nat \X Nat : \A w \in Nat \X Nat : Leads(v, w) => Leads(v, w)'
  <2> SUFFICES ASSUME NEW v \in Nat \X Nat, NEW w \in Nat \X Nat, Leads(v, w)
               PROVE  Leads(v, w)'
    OBVIOUS
  <2>1. v[1] \in Nat /\ w[1] \in Nat /\ v[2] \in Nat /\ w[2] \in Nat
    OBVIOUS
  <2>2. CASE CodedLeads(v[1], v[2], w[1], w[2])
    <3>1. \A k \in 1 .. w[1] - v[1] : v[1] + k \in 1 .. q
      BY <2>1, <2>2, SMTT(30) DEF CodedLeads
    <3>2. CodedLeads(v[1], v[2], w[1], w[2])'
      BY <2>1, <2>2, <3>1, SMTT(30) DEF CodedLeads
    <3> QED
      BY <3>2 DEF Leads
  <2>3. CASE RawLeads(v[1], v[2], w[1], w[2])
    <3> DEFINE a == v[1]  b == v[2]  c == w[1]  d == w[2]
    <3>1. a \in Nat /\ b \in Nat /\ c \in Nat /\ d \in Nat /\ RawLeads(a, b, c, d)
      BY <2>1, <2>3
    <3> HIDE DEF a, b, c, d
    <3>2. c <= q /\ c - a = RawHead + (d - b) /\ b < d /\ RawHead \in Nat \ {0}
      BY <3>1, ConstantFacts DEF RawLeads
    <3>3. a + 1 \in 1 .. q /\ \A k \in 1 .. d - b : a + RawHead + k \in 1 .. q
      BY <3>1, <3>2
    <3>4. /\ stream'[a + 1] = stream[a + 1] /\ c <= Len(stream')
          /\ \A k \in 1 .. d - b : stream'[a + RawHead + k] = stream[a + RawHead + k]
      <4>1. c <= Len(stream')
        BY <3>1, <3>2
      <4> QED
        BY <3>3, <4>1, Zenon
    <3>5. RawLeads(a, b, c, d)'
      BY <1>1, <3>1, <3>4 DEF RawLeads, RawRoom
    <3> QED
      BY <3>5 DEF Leads, a, b, c, d
  <2> QED
    BY <2>2, <2>3 DEF Leads
<1>6. ASSUME NEW v \in V
      PROVE  \/ v = <<r, s>>
             \/ v[1] < r /\ v[2] < s /\ \E w \in V : Leads(v, w)'
  <2>1. CASE v = <<q, m>>
    <3>1. v[1] = q /\ v[2] = m /\ <<r, s>>[1] = r /\ <<r, s>>[2] = s
      BY <2>1
    <3>2. Leads(v, <<r, s>>)'
      BY <3>1 DEF Leads
    <3> QED
      BY <3>1, <3>2
  <2>2. CASE v \in W /\ v # <<q, m>>
    <3>1. PICK w \in W : v[1] < q /\ v[2] < m /\ Leads(v, w)
      BY <1>2, <2>2
    <3>2. Leads(v, w)' /\ w \in V
      BY <1>2, <1>5, <2>2, <3>1
    <3>3. v[1] \in Nat /\ v[2] \in Nat
      BY <1>4
    <3> QED
      BY <3>1, <3>2, <3>3
  <2> QED
    BY <2>1, <2>2
<1>7. <<input.cd, input.cd>>' \in V
  BY <1>2
<1> HIDE DEF V
<1>8. <<r, s>> \in V
  BY DEF V
<1>9. Marks(V)'
  BY <1>3, <1>4, <1>6, <1>7, <1>8 DEF Marks
<1> QED
  BY <1>9 DEF V

\* The cells for the bytes of a file, one piece behind the other
LEMMA ByteCellsConcat ==
  ASSUME NEW a \in Nat, NEW n \in Nat
  PROVE  ByteCells(0, a) \o ByteCells(a, n) = ByteCells(0, a + n)
<1> DEFINE b == ByteCells(0, a)
           c == ByteCells(a, n)
           t == ByteCells(0, a + n)
<1>1. /\ b \in Seq(Cell) /\ Len(b) = a /\ \A k \in 1 .. a : b[k] = <<"byte", k>>
      /\ c \in Seq(Cell) /\ Len(c) = n /\ \A k \in 1 .. n : c[k] = <<"byte", a + k>>
      /\ t \in Seq(Cell) /\ Len(t) = a + n /\ \A k \in 1 .. a + n : t[k] = <<"byte", k>>
  <2>1. b \in Seq(Cell) /\ Len(b) = a /\ c \in Seq(Cell) /\ Len(c) = n
    BY CellFacts
  <2>2. t \in Seq(Cell) /\ Len(t) = a + n
    BY CellFacts
  <2> QED
    BY <2>1, <2>2 DEF ByteCells
<1> HIDE DEF b, c, t
<1>2. /\ b \o c \in Seq(Cell) /\ Len(b \o c) = a + n
      /\ \A k \in 1 .. a : (b \o c)[k] = b[k]
      /\ \A k \in 1 .. n : (b \o c)[a + k] = c[k]
  <2>1. b \in Seq(Cell) /\ c \in Seq(Cell)
    BY <1>1
  <2>2. /\ b \o c \in Seq(Cell) /\ Len(b \o c) = Len(b) + Len(c)
        /\ \A k \in 1 .. Len(b) : (b \o c)[k] = b[k]
        /\ \A k \in 1 .. Len(c) : (b \o c)[Len(b) + k] = c[k]
    BY <2>1, Appended
  <2> QED
    BY <1>1, <2>2
<1>3. ASSUME NEW k \in 1 .. a + n PROVE (b \o c)[k] = t[k]
  <2>1. CASE k <= a
    <3>1. k \in 1 .. a
      BY <2>1
    <3>2. (b \o c)[k] = b[k] /\ b[k] = <<"byte", k>> /\ t[k] = <<"byte", k>>
      BY <1>1, <1>2, <3>1, Zenon
    <3> QED
      BY <3>2
  <2>2. CASE ~ (k <= a)
    <3>1. k - a \in 1 .. n /\ a + (k - a) = k
      BY <2>2
    <3>2. (b \o c)[a + (k - a)] = c[k - a] /\ c[k - a] = <<"byte", a + (k - a)>>
      BY <1>1, <1>2, <3>1
    <3>3. t[k] = <<"byte", k>>
      BY <1>1
    <3> QED
      BY <3>1, <3>2, <3>3
  <2> QED
    BY <2>1, <2>2
<1>4. b \o c = t
  BY <1>1, <1>2, <1>3, SeqEqual
<1> QED
  BY <1>4 DEF b, c, t

\* While the encoder works the decoder has not begun
LEMMA EncoderFrame ==
  ASSUME DecInv, pc \in EncPcs, pc' \in EncPcs, UNCHANGED <<abort, decVars>>
  PROVE  DecInv'
<1>1. Untouched /\ Untouched'
  BY DEF DecInv, Untouched, decVars
<1> QED
  BY <1>1 DEF DecInv, EncPcs

LEMMA ReadCdStep == StreamInv /\ ReadCd => StreamInv'
<1> SUFFICES ASSUME StreamInv, ReadCd PROVE StreamInv'
  OBVIOUS
<1> DEFINE cd == input.cd
<1>1. EncInv /\ DecInv /\ input \in FileType
  BY DEF StreamInv, EncInv
<1>2. cd \in Nat /\ Stop \in Nat /\ cd <= Stop /\ cd # 0 /\ Stop' = Stop /\ input' = input
  BY <1>1, StopFacts DEF ReadCd, Stop
<1>3. /\ pc' = "blocks" /\ stream' = CdCells(cd) /\ pos' = cd /\ crc' = Bytes(0, cd)
      /\ blk' = 1 /\ demo' = TRUE
  BY <1>1 DEF ReadCd, EncInv
<1>4. stream' \in Seq(Cell) /\ Len(stream') = cd
  BY <1>2, <1>3, CellFacts
<1>5. EncInv'
  <2>1. Upto(input')[blk' - 1] = cd
    <3>1. Upto(input)[0] = cd
      BY <1>1, UptoFacts
    <3> QED
      BY <1>2, <1>3, <3>1
  <2>2. blk' \in 1 .. Len(input'.blocks) + 1
    <3>1. Len(input.blocks) \in Nat
      BY <1>1 DEF FileType
    <3> QED
      BY <1>2, <1>3, <3>1
  <2>3. CdFirst'
    BY <1>2, <1>3, <1>4 DEF CdFirst
  <2> QED
    BY <1>1, <1>2, <1>3, <1>4, <2>1, <2>2, <2>3 DEF EncInv, EncPcs, DecPcs
<1>6. DecInv'
  BY <1>1, <1>3, EncoderFrame DEF ReadCd, EncPcs
<1>7. Marks({<<cd, cd>>})'
  BY <1>2, <1>3, <1>4 DEF Marks, EndMark
<1>8. ChainInv'
  BY <1>3, <1>7 DEF ChainInv
<1> QED
  BY <1>5, <1>6, <1>8 DEF StreamInv

LEMMA NoDemoStep == StreamInv /\ NoDemo => StreamInv'
<1> SUFFICES ASSUME StreamInv, NoDemo PROVE StreamInv'
  OBVIOUS
<1>1. EncInv /\ DecInv /\ input \in FileType
  BY DEF StreamInv, EncInv
<1>2. /\ pc' = "plain" /\ demo' = FALSE /\ stream' = << >> /\ pos' = 0 /\ pos = 0 /\ stream = << >>
      /\ UNCHANGED <<input, crc, blk>> /\ input.cd = 0
  BY <1>1 DEF NoDemo, EncInv
<1>3. Stop' = Stop /\ ByteCells(0, 0) = << >>
  BY <1>2 DEF Stop, ByteCells
<1>4. EncInv'
  BY <1>1, <1>2, <1>3 DEF EncInv, EncPcs, DecPcs
<1>5. DecInv'
  BY <1>1, <1>2, EncoderFrame DEF NoDemo, EncPcs
<1>6. ChainInv'
  BY <1>2 DEF ChainInv
<1> QED
  BY <1>4, <1>5, <1>6 DEF StreamInv

LEMMA PlainBlockStep == StreamInv /\ PlainBlock => StreamInv'
<1> SUFFICES ASSUME StreamInv, PlainBlock PROVE StreamInv'
  OBVIOUS
<1> DEFINE n == Piece(Window)
<1>1. EncInv /\ DecInv /\ input \in FileType /\ pos \in 0 .. Stop
  BY DEF StreamInv, EncInv
<1>2. /\ pc = "plain" /\ pc' = "plain" /\ ~demo /\ ~demo' /\ demo' \in BOOLEAN /\ pos < Stop
      /\ Emit(ByteCells(pos, n), n) /\ UNCHANGED <<input, blk, demo>>
  BY <1>1 DEF PlainBlock, EncInv
<1>3. n \in Nat /\ pos + n <= Stop /\ Stop \in Nat /\ pos \in Nat
  <2>1. Stop \in Nat
    BY <1>1, StopFacts
  <2> QED
    BY <1>1, <1>2, <2>1, ConstantFacts, PieceFacts
<1> HIDE DEF n
<1>4. ByteCells(pos, n) \in Seq(Cell)
  BY <1>3, CellFacts
<1>5. /\ stream' \in Seq(Cell) /\ crc' = Bytes(0, pos') /\ pos' \in 0 .. Stop' /\ pos' = pos + n
  BY <1>1, <1>2, <1>3, <1>4, EmitFacts
<1>6. stream' = ByteCells(0, pos')
  <2>1. stream' = ByteCells(0, pos) \o ByteCells(pos, n)
    BY <1>1, <1>2 DEF Emit, EncInv
  <2> QED
    BY <1>3, <1>5, <2>1, ByteCellsConcat
<1>7. EncInv'
  BY <1>1, <1>2, <1>5, <1>6 DEF EncInv, EncPcs, DecPcs
<1>8. DecInv'
  BY <1>1, <1>2, EncoderFrame DEF PlainBlock, EncPcs
<1>9. ChainInv'
  BY <1>2 DEF ChainInv
<1> QED
  BY <1>7, <1>8, <1>9 DEF StreamInv

LEMMA BailStep == StreamInv /\ Bail => StreamInv'
<1> SUFFICES ASSUME StreamInv, Bail PROVE StreamInv'
  OBVIOUS
<1>1. EncInv /\ DecInv /\ ChainInv
  BY DEF StreamInv
<1>2. /\ pc = "blocks" /\ pc' = "raw" /\ UNCHANGED <<input, pos, blk, stream, crc, demo>> /\ demo
  BY <1>1 DEF Bail, CrcCheat, EncInv
<1>3. Stop' = Stop
  BY <1>2 DEF Stop
<1>4. EncInv'
  BY <1>1, <1>2, <1>3 DEF EncInv, EncPcs, DecPcs, CdFirst
<1>5. DecInv'
  BY <1>1, <1>2, EncoderFrame DEF Bail, EncPcs
<1>6. ChainInv'
  <2>1. PICK W : Marks(W)
    BY <1>1, <1>2 DEF ChainInv
  <2>2. Marks(W)'
    BY <1>2, <1>3, <2>1, ZenonT(30) DEF Marks, EndMark, Leads, CodedLeads, RawLeads
  <2> QED
    BY <1>2, <2>2 DEF ChainInv
<1> QED
  BY <1>4, <1>5, <1>6 DEF StreamInv

\* A block that is put out while a demo is encoded keeps the chain, and the cd string in front
LEMMA ChainStep ==
  ASSUME StreamInv, demo, pc \in {"blocks", "raw"}, pc' = pc, UNCHANGED <<input, demo>>,
         NEW n \in Nat \ {0}, NEW cells \in Seq(Cell), Len(cells) > 0,
         Emit(cells, n), pos + n <= Stop,
         NEW q, NEW m, NEW r, NEW s, q = Len(stream), m = pos, r = Len(stream) + Len(cells),
         s = pos + n,
         CodedLeads(q, m, r, s)' \/ RawLeads(q, m, r, s)'
  PROVE  CdFirst' /\ ChainInv'
<1>1. EncInv /\ ChainInv
  BY DEF StreamInv
<1>2. /\ stream' \in Seq(Cell) /\ Len(stream') = r
      /\ \A k \in 1 .. q : stream'[k] = stream[k]
      /\ pos' = s /\ q \in Nat /\ m \in Nat /\ Len(cells) \in Nat
  BY <1>1, EmitFacts
<1>3. r \in Nat /\ s \in Nat /\ q < r /\ m < s
  BY <1>2
<1>4. CdFirst'
  <2>1. CdFirst /\ input.cd \in Nat
    BY <1>1, StopFacts DEF EncInv
  <2>2. input.cd <= r /\ \A k \in 1 .. input.cd : k \in 1 .. q
    BY <1>2, <1>3, <2>1 DEF CdFirst
  <2> QED
    BY <1>2, <2>1, <2>2 DEF CdFirst
<1>5. PICK W : Marks(W)
  BY <1>1 DEF ChainInv
<1>6. Marks(W \cup {<<r, s>>})'
  BY <1>2, <1>3, <1>5, MarksGrow
<1>7. ChainInv'
  BY <1>6 DEF ChainInv
<1> QED
  BY <1>4, <1>7

LEMMA CodeBlockStep == StreamInv /\ CodeBlock => StreamInv'
<1> SUFFICES ASSUME StreamInv, CodeBlock PROVE StreamInv'
  OBVIOUS
<1> DEFINE b == input.blocks[blk]
<1>1. /\ EncInv /\ DecInv /\ input \in FileType /\ pos \in Nat /\ Stop \in Nat
      /\ stream \in Seq(Cell) /\ Len(stream) \in Nat
  BY StopFacts DEF StreamInv, EncInv
<1>2. /\ pc = "blocks" /\ pc' = "blocks" /\ demo /\ demo' = TRUE /\ UNCHANGED <<input, demo>>
      /\ blk \in Nat /\ blk \in 1 .. Len(input.blocks) /\ blk' = blk + 1
      /\ pos = Upto(input)[blk - 1] /\ b.coded <= Half
      /\ Emit(BlockCells(pos, b), b.in)
  BY <1>1 DEF CodeBlock, EncInv, Codable
<1>3. b \in BlockType /\ b.in \in Nat \ {0} /\ b.coded \in Nat \ {0} /\ Len(input.blocks) \in Nat
  <2>1. input.blocks \in Seq(BlockType)
    BY <1>1 DEF FileType
  <2>2. b \in BlockType /\ Len(input.blocks) \in Nat
    BY <1>2, <2>1
  <2> HIDE DEF b
  <2> QED
    BY <2>2 DEF BlockType
<1>4. Upto(input)[blk] = pos + b.in /\ pos + b.in <= Stop
  <2>1. Upto(input)[blk] = Upto(input)[blk - 1] + b.in
    BY <1>1, <1>2, UptoFacts
  <2>2. blk \in 0 .. Len(input.blocks)
    BY <1>2, <1>3
  <2>3. Upto(input)[blk] <= Size(input)
    BY <1>1, <2>2, UptoFacts
  <2> QED
    BY <1>2, <2>1, <2>3 DEF Stop
<1> DEFINE cells == BlockCells(pos, b)
<1>5. /\ cells \in Seq(Cell) /\ Len(cells) = b.coded
      /\ \A k \in 1 .. b.coded : cells[k] = <<"block", k, b.coded, pos, b.in>>
  BY <1>1, <1>3, BlockCellFacts
<1> HIDE DEF b, cells
<1>6. Emit(cells, b.in)
  BY <1>2 DEF cells
<1>7. /\ stream' \in Seq(Cell) /\ Len(stream') = Len(stream) + Len(cells)
      /\ \A k \in 1 .. Len(cells) : stream'[Len(stream) + k] = cells[k]
      /\ crc' = Bytes(0, pos') /\ pos' \in 0 .. Stop' /\ pos' = pos + b.in
  BY <1>1, <1>2, <1>3, <1>4, <1>5, <1>6, EmitFacts
<1>8. PICK q, m, r, s : q = Len(stream) /\ m = pos /\ r = Len(stream) + Len(cells) /\ s = pos + b.in
  OBVIOUS
<1>9. CodedLeads(q, m, r, s)'
  <2>1. /\ q < r /\ m < s /\ r = Len(stream') /\ r - q = b.coded /\ s - m = b.in /\ r - q <= Half
        /\ q \in Nat /\ r \in Nat
    <3>1. q \in Nat /\ m \in Nat /\ r = q + b.coded /\ s = m + b.in /\ r = Len(stream')
      BY <1>1, <1>5, <1>7, <1>8
    <3>2. b.coded <= Half /\ b.coded \in Nat \ {0} /\ b.in \in Nat \ {0} /\ Half \in Nat
      BY <1>2, <1>3, ConstantFacts
    <3> QED
      BY <3>1, <3>2, SMTT(30)
  <2>2. \A k \in 1 .. b.coded : stream'[q + k] = <<"block", k, b.coded, m, b.in>>
    BY <1>5, <1>7, <1>8
  <2>3. \A k \in 1 .. r - q : stream'[q + k] = <<"block", k, r - q, m, s - m>>
    BY <2>1, <2>2
  <2>4. r <= Len(stream')
    BY <2>1
  <2> QED
    BY <2>1, <2>3, <2>4 DEF CodedLeads
<1>10. CdFirst' /\ ChainInv'
  <2>1. Len(cells) > 0
    BY <1>3, <1>5
  <2> QED
    BY <1>2, <1>3, <1>4, <1>5, <1>6, <1>8, <1>9, <2>1, ChainStep
<1>11. EncInv'
  <2>1. blk' \in 1 .. Len(input'.blocks) + 1 /\ blk' - 1 = blk /\ pos' = Upto(input')[blk' - 1]
    BY <1>2, <1>3, <1>4, <1>7, SMTT(30)
  <2> QED
    BY <1>1, <1>2, <1>7, <1>10, <2>1 DEF EncInv, EncPcs, DecPcs
<1>12. DecInv'
  BY <1>1, <1>2, EncoderFrame DEF CodeBlock, EncPcs
<1> QED
  BY <1>10, <1>11, <1>12 DEF StreamInv

LEMMA RawBlockStep == StreamInv /\ RawBlock => StreamInv'
<1> SUFFICES ASSUME StreamInv, RawBlock PROVE StreamInv'
  OBVIOUS
<1> DEFINE n == Piece(RawRoom)
           cells == RawCells(pos, n)
<1>1. /\ EncInv /\ DecInv /\ input \in FileType /\ pos \in Nat /\ Stop \in Nat
      /\ stream \in Seq(Cell) /\ Len(stream) \in Nat
  BY StopFacts DEF StreamInv, EncInv
<1>2. /\ pc = "raw" /\ pc' = "raw" /\ demo /\ demo' = TRUE /\ UNCHANGED <<input, demo, blk>>
      /\ Emit(cells, n) /\ pos < Stop
  BY <1>1 DEF RawBlock, EncInv
<1>3. RawRoom \in Nat \ {0}
  BY ConstantFacts DEF RawRoom
<1>4. n \in 1 .. RawRoom /\ pos + n <= Stop /\ (n = RawRoom \/ pos + n = Stop)
  BY <1>1, <1>2, <1>3, PieceFacts DEF EncInv
<1>5. n \in Nat \ {0} /\ RawHead \in Nat \ {0}
  BY <1>3, <1>4, ConstantFacts
<1> HIDE DEF n
<1>6. /\ cells \in Seq(Cell) /\ Len(cells) = RawHead + n /\ cells[1] = <<"raw", 1, n>>
      /\ \A k \in 1 .. n : cells[RawHead + k] = <<"byte", pos + k>>
  BY <1>1, <1>5, RawCellFacts
<1> HIDE DEF cells
<1>7. /\ stream' \in Seq(Cell) /\ Len(stream') = Len(stream) + Len(cells)
      /\ \A k \in 1 .. Len(cells) : stream'[Len(stream) + k] = cells[k]
      /\ crc' = Bytes(0, pos') /\ pos' \in 0 .. Stop' /\ pos' = pos + n /\ Stop' = Stop
  BY <1>1, <1>2, <1>4, <1>5, <1>6, EmitFacts
<1>8. PICK q, m, r, s : q = Len(stream) /\ m = pos /\ r = Len(stream) + Len(cells) /\ s = pos + n
  OBVIOUS
<1>9. RawLeads(q, m, r, s)'
  <2>1. /\ q < r /\ m < s /\ r = Len(stream') /\ r - q = RawHead + n /\ s - m = n
        /\ q \in Nat /\ r \in Nat /\ m \in Nat /\ s \in Nat
    BY <1>1, <1>5, <1>6, <1>7, <1>8
  <2>2. stream'[q + 1] = <<"raw", 1, n>>
    <3>1. 1 \in 1 .. Len(cells)
      BY <1>5, <1>6
    <3> QED
      BY <1>6, <1>7, <1>8, <3>1
  <2>3. ASSUME NEW k \in 1 .. n PROVE stream'[q + RawHead + k] = <<"byte", m + k>>
    <3>1. RawHead + k \in 1 .. Len(cells) /\ q + (RawHead + k) = q + RawHead + k
      BY <1>5, <1>6, <2>1
    <3> QED
      BY <1>6, <1>7, <1>8, <3>1
  <2>4. n <= RawRoom /\ (n = RawRoom \/ s = Stop')
    BY <1>4, <1>5, <1>7, <1>8
  <2> QED
    BY <2>1, <2>2, <2>3, <2>4 DEF RawLeads
<1>10. CdFirst' /\ ChainInv'
  <2>1. Len(cells) > 0
    BY <1>5, <1>6
  <2> QED
    BY <1>2, <1>4, <1>5, <1>6, <1>8, <1>9, <2>1, ChainStep
<1>11. EncInv'
  BY <1>1, <1>2, <1>7, <1>10 DEF EncInv, EncPcs, DecPcs
<1>12. DecInv'
  BY <1>1, <1>2, EncoderFrame DEF RawBlock, EncPcs
<1> QED
  BY <1>10, <1>11, <1>12 DEF StreamInv

LEMMA EncodedStep == StreamInv /\ Encoded => StreamInv'
<1> SUFFICES ASSUME StreamInv, Encoded PROVE StreamInv'
  OBVIOUS
<1>1. EncInv /\ DecInv /\ ChainInv
  BY DEF StreamInv
<1>2. /\ pc \in {"plain", "blocks", "raw"} /\ pos = Stop /\ pc' = "fill"
      /\ UNCHANGED <<input, abort, pos, blk, stream, crc, demo, win, inpos, inlen, readptr,
                     totalsize, blocksize, inptr, first, out, verdict>>
  BY DEF Encoded, encVars, decVars
<1>3. Stop' = Stop
  BY <1>2 DEF Stop
<1>4. EncInv'
  BY <1>1, <1>2, <1>3 DEF EncInv, EncPcs, DecPcs, CdFirst
<1>5. Untouched
  BY <1>1, <1>2 DEF DecInv, EncPcs
<1>6. Len(stream) \in Nat
  BY <1>1 DEF EncInv
<1>7. WindowInv'
  BY <1>2, <1>5, <1>6, ConstantFacts DEF Untouched, WindowInv, Shows, Delivered, eofptr
<1>8. PlaceInv'
  <2>1. Bytes(0, Len(<< >>)) = << >> /\ Len(<< >>) = 0
    BY DEF Bytes
  <2> QED
    BY <1>2, <1>5, <2>1 DEF Untouched, PlaceInv, AtStart, Decoded
<1>9. DecInv'
  BY <1>2, <1>7, <1>8 DEF DecInv, EncPcs
<1>10. ChainInv'
  <2>1. first' = TRUE
    BY <1>2, <1>5 DEF Untouched
  <2>2. CASE demo
    <3>1. PICK W : Marks(W)
      BY <1>1, <1>2, <2>2 DEF ChainInv
    <3>2. Marks(W)'
      BY <1>2, <1>3, <3>1, ZenonT(30) DEF Marks, EndMark, Leads, CodedLeads, RawLeads
    <3> QED
      BY <2>1, <3>2 DEF ChainInv, OnMark
  <2>3. CASE ~demo
    BY <1>2, <2>3 DEF ChainInv
  <2> QED
    BY <2>2, <2>3
<1> QED
  BY <1>4, <1>9, <1>10 DEF StreamInv

-----------------------------------------------------------------------------
(* The decoder's steps.                                                    *)

Working == {"fill", "decode", "return"}

\* The decoder leaves the encoder's half as it is
LEMMA DecoderFrame ==
  ASSUME EncInv, pc \in DecPcs, pc' \in DecPcs, UNCHANGED <<input, encVars>>
  PROVE  /\ EncInv' /\ Stop' = Stop /\ eofptr' = eofptr /\ demo' = demo
         /\ \A W : Marks(W) => Marks(W)'
<1>1. UNCHANGED <<input, pos, blk, stream, crc, demo>>
  BY DEF encVars
<1>2. Stop' = Stop /\ eofptr' = eofptr
  BY <1>1 DEF Stop, eofptr
<1>3. EncInv'
  BY <1>1, <1>2 DEF EncInv, EncPcs, DecPcs, CdFirst
<1>4. ASSUME NEW W, Marks(W) PROVE Marks(W)'
  BY <1>1, <1>2, <1>4, ZenonT(30) DEF Marks, EndMark, Leads, CodedLeads, RawLeads
<1> QED
  BY <1>1, <1>2, <1>3, <1>4

\* Once something has gone wrong nothing is claimed any more
LEMMA AfterFailure ==
  ASSUME StreamInv, pc \in DecPcs, pc' \in DecPcs, abort' # 0, UNCHANGED <<input, encVars>>
  PROVE  StreamInv'
<1>1. EncInv /\ ChainInv
  BY DEF StreamInv
<1>2. EncInv' /\ demo' = demo /\ \A W : Marks(W) => Marks(W)'
  BY <1>1, DecoderFrame
<1>3. DecInv'
  BY DEF DecInv, EncPcs, DecPcs
<1>4. ChainInv'
  <2>1. CASE demo
    <3>1. PICK W : Marks(W)
      BY <1>1, <2>1 DEF ChainInv, DecPcs
    <3>2. Marks(W)'
      BY <1>2, <3>1
    <3> QED
      BY <3>2 DEF ChainInv
  <2>2. CASE ~demo
    BY <1>2, <2>2 DEF ChainInv
  <2> QED
    BY <2>1, <2>2
<1> QED
  BY <1>2, <1>3, <1>4 DEF StreamInv

\* What a step of the working decoder has to show
LEMMA DecoderStep ==
  ASSUME StreamInv, pc \in Working, pc' \in Working, abort = 0, UNCHANGED <<input, encVars>>,
         WindowInv', PlaceInv', \A W : Marks(W) /\ OnMark(W) => OnMark(W)'
  PROVE  StreamInv'
<1>1. EncInv /\ ChainInv
  BY DEF StreamInv
<1>2. EncInv' /\ demo' = demo /\ \A W : Marks(W) => Marks(W)'
  BY <1>1, DecoderFrame DEF DecPcs, Working
<1>3. DecInv'
  BY DEF DecInv, EncPcs, Working
<1>4. ChainInv'
  <2>1. CASE demo
    <3>1. PICK W : Marks(W) /\ OnMark(W)
      BY <1>1, <2>1 DEF ChainInv, Working
    <3>2. Marks(W)' /\ OnMark(W)'
      BY <1>2, <3>1
    <3> QED
      BY <3>2 DEF ChainInv
  <2>2. CASE ~demo
    BY <1>2, <2>2 DEF ChainInv
  <2> QED
    BY <2>1, <2>2
<1> QED
  BY <1>2, <1>3, <1>4 DEF StreamInv

\* What is known while nothing has gone wrong
LEMMA WorkingFacts ==
  ASSUME StreamInv, pc \in Working, abort = 0
  PROVE  /\ EncInv /\ WindowInv /\ PlaceInv
         /\ eofptr \in Nat /\ pos = Stop /\ Stop \in Nat /\ stream \in Seq(Cell)
         /\ readptr \in Nat /\ inlen \in Nat /\ Len(out) \in Nat
<1>1. EncInv /\ WindowInv /\ PlaceInv
  BY DEF StreamInv, DecInv, Working
<1>2. stream \in Seq(Cell) /\ eofptr \in Nat
  BY <1>1 DEF EncInv, eofptr
<1>3. pos = Stop /\ Stop \in Nat
  BY <1>1, StopFacts DEF EncInv, DecPcs, Working
<1>4. readptr \in Nat /\ inlen \in Nat /\ Len(out) \in Nat
  BY <1>1, <1>2, ConstantFacts DEF WindowInv, PlaceInv
<1> QED
  BY <1>1, <1>2, <1>3, <1>4

LEMMA FillStep == StreamInv /\ Fill => StreamInv'
<1> SUFFICES ASSUME StreamInv, Fill PROVE StreamInv'
  OBVIOUS
<1>1. /\ pc = "fill" /\ readptr < eofptr /\ abort = 0 /\ pc' = "decode"
      /\ win' = InWindow(SubSeq(stream, inpos + 1, eofptr))
      /\ inpos' = (IF inpos + Window - inlen > eofptr THEN eofptr ELSE inpos + Window - inlen)
      /\ totalsize' = totalsize + (Window - inlen)
      /\ blocksize' = 0 /\ inptr' = 0
      /\ UNCHANGED <<input, abort, encVars, inlen, readptr, first, out, verdict>>
  BY DEF Fill
<1>2. /\ EncInv /\ WindowInv /\ PlaceInv
      /\ eofptr \in Nat /\ readptr \in Nat /\ inlen \in Nat /\ inlen <= Window
      /\ Window \in Nat \ {0} /\ stream \in Seq(Cell)
  BY <1>1, WorkingFacts, ConstantFacts DEF Working, WindowInv
<1>3. /\ totalsize = readptr + inlen /\ Shows(inlen)
      /\ inpos = IF readptr + inlen <= eofptr THEN readptr + inlen ELSE eofptr
  BY <1>1, <1>2 DEF WindowInv, Delivered
<1>4. /\ eofptr' = eofptr /\ demo' = demo /\ stream' = stream /\ readptr' = readptr
      /\ inlen' = inlen /\ out' = out /\ first' = first
  BY <1>1 DEF encVars, eofptr
<1> DEFINE cells == SubSeq(stream, inpos + 1, eofptr)
<1>5. inpos \in Nat /\ inpos <= eofptr
  BY <1>2, <1>3
<1>6. /\ DOMAIN cells = 1 .. eofptr - inpos
      /\ \A x \in 1 .. eofptr - inpos : cells[x] = stream[inpos + x]
  BY <1>2, <1>5 DEF eofptr
<1> HIDE DEF cells
<1>7. Shows(Window)'
  <2> SUFFICES ASSUME NEW x \in 1 .. Window, readptr + x <= eofptr
               PROVE  win'[x] = stream[readptr + x]
    BY <1>4, ConstantFacts DEF Shows
  <2>1. win'[x] = IF x - inlen \in DOMAIN cells THEN cells[x - inlen] ELSE win[x]
    BY <1>1 DEF InWindow, cells
  <2>2. CASE x <= inlen
    <3>1. ~ (x - inlen \in DOMAIN cells) /\ x \in 1 .. inlen
      BY <1>2, <1>5, <1>6, <2>2
    <3> QED
      BY <1>3, <2>1, <3>1 DEF Shows
  <2>3. CASE ~ (x <= inlen)
    <3>1. inpos = readptr + inlen
      BY <1>2, <1>3, <2>3
    <3>2. x - inlen \in 1 .. eofptr - inpos /\ inpos + (x - inlen) = readptr + x
      BY <1>2, <2>3, <3>1
    <3> QED
      BY <1>6, <2>1, <3>2
  <2> QED
    BY <2>2, <2>3
<1>8. Delivered(readptr + Window)' /\ totalsize' = readptr + Window
  BY <1>1, <1>2, <1>3, <1>4 DEF Delivered
<1>9. WindowInv'
  <2>1. DOMAIN win' = 1 .. Window
    BY <1>1 DEF InWindow
  <2> QED
    BY <1>1, <1>2, <1>4, <1>7, <1>8, <2>1 DEF WindowInv
<1>10. Decoded' = readptr /\ Decoded = readptr
  BY <1>1, <1>2, <1>4 DEF Decoded
<1>11. PlaceInv'
  BY <1>1, <1>2, <1>4, <1>10 DEF PlaceInv, AtStart
<1>12. \A W : Marks(W) /\ OnMark(W) => OnMark(W)'
  BY <1>4, <1>10 DEF OnMark
<1> QED
  BY <1>1, <1>9, <1>11, <1>12, DecoderStep DEF Working

LEMMA FillFailsStep == StreamInv /\ FillFails => StreamInv'
BY AfterFailure DEF FillFails, DecPcs

LEMMA AbortStep == StreamInv /\ Abort => StreamInv'
BY AfterFailure DEF Abort, DecPcs

LEMMA PlainWindowStep == StreamInv /\ PlainWindow => StreamInv'
<1> SUFFICES ASSUME StreamInv, PlainWindow PROVE StreamInv'
  OBVIOUS
<1> DEFINE n == blocksize'
           bytes == [k \in 1 .. n |-> win[k][Len(win[k])]]
<1>1. /\ pc = "decode" /\ ~demo /\ pc' = "return"
      /\ n = (IF totalsize >= eofptr THEN eofptr ELSE totalsize) - readptr
      /\ out' = out \o bytes
      /\ UNCHANGED <<input, abort, encVars, win, inpos, inlen, readptr, totalsize, inptr, first,
                     verdict>>
  BY DEF PlainWindow
<1>2. CASE abort # 0
  BY <1>1, <1>2, AfterFailure DEF DecPcs
<1>3. CASE abort = 0
  <2>1. /\ EncInv /\ WindowInv /\ PlaceInv
        /\ eofptr \in Nat /\ readptr \in Nat /\ Len(out) \in Nat /\ Window \in Nat \ {0}
        /\ pos \in Nat
    BY <1>1, <1>3, WorkingFacts, ConstantFacts DEF Working
  <2>2. /\ readptr < eofptr /\ totalsize = readptr + Window /\ Shows(Window) /\ blocksize = 0
        /\ out = Bytes(0, Len(out)) /\ Len(out) = readptr /\ stream = ByteCells(0, pos)
        /\ Delivered(readptr + Window)
    BY <1>1, <2>1 DEF WindowInv, PlaceInv, Decoded, EncInv
  <2>3. /\ eofptr' = eofptr /\ demo' = demo /\ stream' = stream /\ readptr' = readptr
        /\ inlen' = inlen /\ first' = first /\ win' = win /\ inpos' = inpos
        /\ totalsize' = totalsize /\ input' = input
    BY <1>1 DEF encVars, eofptr
  <2>4. n \in 0 .. Window /\ readptr + n <= eofptr
    BY <1>1, <2>1, <2>2
  <2> HIDE DEF n
  <2>5. bytes = Bytes(readptr, n)
    <3>1. ASSUME NEW k \in 1 .. n PROVE win[k][Len(win[k])] = readptr + k
      <4>1. win[k] = stream[readptr + k] /\ readptr + k \in 1 .. eofptr
        BY <2>1, <2>2, <2>4 DEF Shows
      <4>2. eofptr = pos
        BY <2>1, <2>2, CellFacts DEF eofptr
      <4>3. stream[readptr + k] = <<"byte", readptr + k>>
        BY <2>2, <4>1, <4>2 DEF ByteCells
      <4> QED
        BY <4>1, <4>3
    <3> QED
      BY <3>1 DEF Bytes
  <2> HIDE DEF bytes
  <2>6. out' = Bytes(0, readptr + n)
    <3>1. out' = Bytes(0, readptr) \o Bytes(readptr, n)
      BY <1>1, <2>2, <2>5
    <3>2. n \in Nat
      BY <2>1, <2>4
    <3> QED
      BY <2>1, <3>1, <3>2, BytesFacts
  <2>7. Len(out') = readptr + n
    BY <2>1, <2>4, <2>6, BytesFacts
  <2>8. WindowInv'
    <3>1. blocksize' \in 0 .. Window /\ readptr' + blocksize' <= eofptr'
      BY <2>3, <2>4 DEF n
    <3>2. Shows(Window)' /\ Delivered(readptr + Window)'
      BY <2>2, <2>3, ConstantFacts DEF Shows, Delivered
    <3> QED
      BY <1>1, <2>1, <2>2, <2>3, <3>1, <3>2 DEF WindowInv
  <2>9. Decoded' = readptr + n
    BY <1>1, <2>3 DEF Decoded, n
  <2>10. PlaceInv'
    <3>1. Len(out') \in Nat /\ out' = Bytes(0, Len(out'))
      BY <2>1, <2>4, <2>6, <2>7
    <3> QED
      BY <1>1, <2>1, <2>3, <2>7, <2>9, <3>1 DEF PlaceInv
  <2>11. \A W : Marks(W) /\ OnMark(W) => OnMark(W)'
    BY <1>1, <2>3 DEF OnMark
  <2>12. pc \in Working /\ pc' \in Working /\ UNCHANGED <<input, encVars>>
    BY <1>1 DEF Working
  <2> QED
    BY <1>3, <2>8, <2>10, <2>11, <2>12, DecoderStep
<1> QED
  BY <1>2, <1>3

\* A place in the middle of the stream at which the decoder stands is not the end mark, and what
\* comes there is in the window
LEMMA NextBlock ==
  ASSUME StreamInv, Decoding, More, abort = 0, NEW W, Marks(W), OnMark(W)
  PROVE  /\ inptr = blocksize /\ blocksize \in Nat /\ inptr < Enough
         /\ \E w \in W :
              \/ /\ CodedLeads(readptr + blocksize, Len(out), w[1], w[2])
                 /\ Here = <<"block", 1, w[1] - (readptr + blocksize), Len(out),
                             w[2] - Len(out)>>
              \/ /\ RawLeads(readptr + blocksize, Len(out), w[1], w[2])
                 /\ Here = <<"raw", 1, w[2] - Len(out)>>
<1> DEFINE q == readptr + blocksize
           m == Len(out)
<1>1. pc = "decode" /\ demo /\ ~first /\ blocksize < Enough /\ blocksize < eofptr - readptr
  BY DEF Decoding, More
<1>2. /\ WindowInv /\ PlaceInv /\ eofptr \in Nat /\ readptr \in Nat /\ Len(out) \in Nat
      /\ Window \in Nat \ {0} /\ Enough \in Nat /\ Half \in Nat \ {0} /\ Enough - 1 + Half <= Window
  BY <1>1, WorkingFacts, ConstantFacts DEF Working
<1>3. /\ blocksize \in 0 .. Window /\ Shows(Window)
      /\ inptr = blocksize \/ blocksize = Window \/ readptr + blocksize = eofptr
  BY <1>1, <1>2 DEF WindowInv, PlaceInv
<1>4. inptr = blocksize
  BY <1>1, <1>2, <1>3
<1>5. Here = stream[q + 1]
  <2>1. blocksize + 1 \in 1 .. Window /\ readptr + (blocksize + 1) <= eofptr
        /\ readptr + (blocksize + 1) = q + 1
    BY <1>1, <1>2, <1>3
  <2>2. win[blocksize + 1] = stream[readptr + (blocksize + 1)]
    BY <1>3, <2>1 DEF Shows
  <2> QED
    BY <1>4, <2>1, <2>2 DEF Here
<1>6. <<q, m>> \in W /\ q < eofptr
  BY <1>1, <1>2, <1>3 DEF OnMark, Decoded
<1>7. PICK w \in W : Leads(<<q, m>>, w)
  BY <1>6 DEF Marks, EndMark, eofptr
<1>8. w[1] \in Nat /\ w[2] \in Nat /\ q \in Nat /\ m \in Nat
  BY <1>2, <1>3 DEF Marks
<1>9. CASE CodedLeads(q, m, w[1], w[2])
  <2>1. 1 \in 1 .. w[1] - q
    BY <1>8, <1>9 DEF CodedLeads
  <2>2. stream[q + 1] = <<"block", 1, w[1] - q, m, w[2] - m>>
    BY <1>9, <2>1 DEF CodedLeads
  <2> QED
    BY <1>1, <1>3, <1>4, <1>5, <1>9, <2>2
<1>10. CASE RawLeads(q, m, w[1], w[2])
  <2>1. stream[q + 1] = <<"raw", 1, w[2] - m>>
    BY <1>10 DEF RawLeads
  <2> QED
    BY <1>1, <1>3, <1>4, <1>5, <1>10, <2>1
<1> QED
  BY <1>7, <1>9, <1>10 DEF Leads

\* The cd string is there, and it is what comes before the first newline
LEMMA CdHere ==
  ASSUME StreamInv, pc = "decode", demo, first, abort = 0
  PROVE  /\ input.cd \in Newlines /\ input.cd \in 1 .. Window /\ input.cd <= eofptr
         /\ \A j \in Newlines : input.cd <= j
         /\ \A k \in 1 .. input.cd : win[k][2] = k
<1> DEFINE cd == input.cd
<1>1. /\ EncInv /\ WindowInv /\ PlaceInv /\ eofptr \in Nat /\ input \in FileType
      /\ Window \in Nat \ {0} /\ MaxCd \in Nat /\ MaxCd < Window
  <2>1. MaxCd < Window
    BY ConstantFacts
  <2> QED
    BY <2>1, WorkingFacts, ConstantFacts DEF Working, EncInv
<1>2. readptr = 0 /\ Shows(Window) /\ CdFirst
  BY <1>1 DEF WindowInv, PlaceInv, AtStart, EncInv
<1>3. cd \in 1 .. MaxCd /\ cd <= eofptr
  BY <1>1, <1>2 DEF FileType, CdFirst, eofptr
<1>4. ASSUME NEW k \in 1 .. cd
      PROVE  win[k] = <<IF k = cd THEN "newline" ELSE "byte", k>>
  <2>1. win[k] = stream[0 + k]
    BY <1>1, <1>2, <1>3 DEF Shows
  <2>2. stream[k] = CdCells(cd)[k]
    BY <1>2 DEF CdFirst
  <2>3. CdCells(cd)[k] = <<IF k = cd THEN "newline" ELSE "byte", k>>
    BY DEF CdCells
  <2> QED
    BY <1>3, <2>1, <2>2, <2>3
<1>5. cd \in Newlines
  <2>1. win[cd] = <<"newline", cd>>
    BY <1>3, <1>4
  <2> QED
    BY <1>3, <2>1 DEF Newlines
<1>6. ASSUME NEW j \in Newlines PROVE cd <= j
  <2>1. j \in 1 .. MaxCd /\ win[j][1] = "newline"
    BY DEF Newlines
  <2>2. SUFFICES ASSUME j < cd PROVE FALSE
    BY <1>1, <1>3, <2>1
  <2>3. j \in 1 .. cd /\ j # cd
    BY <1>3, <2>1, <2>2
  <2>4. win[j] = <<"byte", j>>
    BY <1>4, <2>3
  <2> QED
    BY <2>1, <2>4
<1>7. ASSUME NEW k \in 1 .. cd PROVE win[k][2] = k
  BY <1>4
<1> QED
  BY <1>1, <1>3, <1>5, <1>6, <1>7

LEMMA DecodeCdStep == StreamInv /\ DecodeCd => StreamInv'
<1> SUFFICES ASSUME StreamInv, DecodeCd PROVE StreamInv'
  OBVIOUS
<1> DEFINE cd == input.cd
<1>1. /\ pc = "decode" /\ demo /\ first /\ first' = FALSE
      /\ UNCHANGED <<input, abort, encVars, win, inpos, inlen, readptr, totalsize, verdict>>
      /\ pc' \in {"decode", "report"}
  BY DEF DecodeCd
<1>2. CASE abort # 0
  BY <1>1, <1>2, AfterFailure DEF DecPcs
<1>3. CASE abort = 0
  <2>1. /\ cd \in Newlines /\ cd \in 1 .. Window /\ cd <= eofptr
        /\ \A j \in Newlines : cd <= j
        /\ \A k \in 1 .. cd : win[k][2] = k
    BY <1>1, <1>3, CdHere
  <2>2. /\ EncInv /\ WindowInv /\ PlaceInv /\ eofptr \in Nat /\ Window \in Nat \ {0}
        /\ cd \in Nat
    BY <1>1, <1>3, <2>1, WorkingFacts, ConstantFacts DEF Working
  <2>3. \A n \in Newlines : (\A j \in Newlines : n <= j) => n = cd
    <3> SUFFICES ASSUME NEW n \in Newlines, \A j \in Newlines : n <= j PROVE n = cd
      OBVIOUS
    <3>1. n <= cd /\ cd <= n
      BY <2>1
    <3>2. n \in Int
      BY DEF Newlines
    <3> QED
      BY <2>2, <3>1, <3>2
  <2> DEFINE n == CHOOSE k \in Newlines : \A j \in Newlines : k <= j
  <2>4. n = cd
    <3>1. n \in Newlines /\ \A j \in Newlines : n <= j
      BY <2>1
    <3> HIDE DEF n
    <3> QED
      BY <2>3, <3>1
  <2>5. /\ out' = out \o [k \in 1 .. n |-> win[k][2]]
        /\ blocksize' = n /\ inptr' = n /\ pc' = pc
    <3>1. Newlines # {}
      BY <2>1
    <3> QED
      BY <3>1 DEF DecodeCd
  <2> HIDE DEF n
  <2>6. [k \in 1 .. n |-> win[k][2]] = Bytes(0, cd)
    <3>1. \A k \in 1 .. cd : win[k][2] = 0 + k
      BY <2>1
    <3> QED
      BY <2>4, <3>1 DEF Bytes
  <2>7. /\ readptr = 0 /\ out = << >> /\ totalsize = readptr + Window
        /\ Delivered(readptr + Window) /\ Shows(Window)
    BY <1>1, <2>2 DEF WindowInv, PlaceInv, AtStart
  <2>8. out' = Bytes(0, cd) /\ Len(out') = cd
    <3>1. Bytes(0, cd) \in Seq(Nat) /\ Len(Bytes(0, cd)) = cd
      BY <2>2, BytesFacts
    <3>2. out' = << >> \o Bytes(0, cd)
      BY <2>5, <2>6, <2>7
    <3>3. << >> \o Bytes(0, cd) = Bytes(0, cd)
      BY <3>1, ConcatEmptySeq
    <3> QED
      BY <3>1, <3>2, <3>3
  <2>9. /\ eofptr' = eofptr /\ demo' = demo /\ stream' = stream /\ readptr' = readptr
        /\ inlen' = inlen /\ win' = win /\ inpos' = inpos
        /\ totalsize' = totalsize /\ input' = input
    BY <1>1 DEF encVars, eofptr
  <2>10. pc' = "decode" /\ blocksize' = cd /\ inptr' = cd /\ Decoded' = cd
    BY <1>1, <2>2, <2>4, <2>5, <2>7, <2>9 DEF Decoded
  <2>11. WindowInv'
    <3>1. Shows(Window)' /\ Delivered(readptr + Window)'
      BY <2>7, <2>9, ConstantFacts DEF Shows, Delivered
    <3>2. blocksize' \in 0 .. Window /\ readptr' + blocksize' <= eofptr' /\ readptr' < eofptr'
      BY <2>1, <2>2, <2>7, <2>9, <2>10
    <3> QED
      BY <2>2, <2>7, <2>9, <2>10, <3>1, <3>2 DEF WindowInv
  <2>12. PlaceInv'
    BY <1>1, <2>2, <2>8, <2>9, <2>10 DEF PlaceInv
  <2>13. \A W : Marks(W) /\ OnMark(W) => OnMark(W)'
    BY <2>8, <2>10 DEF OnMark, Marks
  <2>14. pc \in Working /\ pc' \in Working /\ UNCHANGED <<input, encVars>>
    BY <1>1, <2>10 DEF Working
  <2> QED
    BY <1>3, <2>11, <2>12, <2>13, <2>14, DecoderStep
<1> QED
  BY <1>2, <1>3

LEMMA DecodeBlockStep == StreamInv /\ DecodeBlock => StreamInv'
<1> SUFFICES ASSUME StreamInv, DecodeBlock PROVE StreamInv'
  OBVIOUS
<1>1. /\ Decoding /\ More /\ abort = 0 /\ BlockHere
      /\ out' = out \o Bytes(Here[4], Here[5])
      /\ blocksize' = inptr + Here[3] /\ inptr' = inptr + Here[3]
      /\ UNCHANGED <<input, pc, abort, encVars, win, inpos, inlen, readptr, totalsize, first,
                     verdict>>
      /\ pc = "decode" /\ demo /\ ~first
  BY DEF DecodeBlock, Decoding
<1>2. /\ EncInv /\ WindowInv /\ PlaceInv /\ eofptr \in Nat /\ Window \in Nat \ {0}
      /\ readptr \in Nat /\ Len(out) \in Nat
  BY <1>1, WorkingFacts, ConstantFacts DEF Working
<1>3. /\ eofptr' = eofptr /\ demo' = demo /\ stream' = stream /\ readptr' = readptr
      /\ inlen' = inlen /\ win' = win /\ inpos' = inpos /\ first' = first /\ pc' = pc
      /\ totalsize' = totalsize /\ input' = input
  BY <1>1 DEF encVars, eofptr
<1>4. ASSUME NEW W, Marks(W), OnMark(W)
      PROVE  /\ OnMark(W)' /\ out' = Bytes(0, Len(out')) /\ Len(out') \in Nat
             /\ blocksize' \in 0 .. Window /\ readptr + blocksize' <= eofptr
  <2> DEFINE q == readptr + blocksize
             m == Len(out)
  <2>1. PICK w \in W :
          \/ /\ CodedLeads(q, m, w[1], w[2])
             /\ Here = <<"block", 1, w[1] - q, m, w[2] - m>>
          \/ /\ RawLeads(q, m, w[1], w[2])
             /\ Here = <<"raw", 1, w[2] - m>>
    BY <1>1, <1>4, NextBlock
  <2>2. inptr = blocksize /\ blocksize \in Nat
    BY <1>1, <1>4, NextBlock
  <2>3. CodedLeads(q, m, w[1], w[2]) /\ Here = <<"block", 1, w[1] - q, m, w[2] - m>>
    <3>1. Here[1] = "block"
      BY <1>1 DEF BlockHere
    <3> QED
      BY <2>1, <3>1
  <2>4. w \in Nat \X Nat /\ w = <<w[1], w[2]>>
    BY <1>4 DEF Marks
  <2> DEFINE r == w[1]
             s == w[2]
  <2>5. /\ q < r /\ m < s /\ r <= eofptr /\ r \in Nat /\ s \in Nat /\ q \in Nat /\ m \in Nat
        /\ Here[3] = r - q /\ Here[4] = m /\ Here[5] = s - m /\ <<r, s>> \in W
    <3>1. q < r /\ m < s /\ r <= eofptr
      BY <2>3 DEF CodedLeads, eofptr
    <3>2. r \in Nat /\ s \in Nat /\ q \in Nat /\ m \in Nat
      BY <1>2, <2>2, <2>4
    <3>3. Here[3] = r - q /\ Here[4] = m /\ Here[5] = s - m
      BY <2>3
    <3>4. <<r, s>> \in W
      BY <2>4
    <3> QED
      BY <3>1, <3>2, <3>3, <3>4
  <2> HIDE DEF r, s
  <2>6. out' = Bytes(0, m) \o Bytes(m, s - m)
    BY <1>1, <1>2, <2>5 DEF PlaceInv
  <2>7. out' = Bytes(0, s) /\ Len(out') = s
    <3>1. s - m \in Nat /\ m + (s - m) = s
      BY <2>5
    <3>2. out' = Bytes(0, m + (s - m))
      BY <2>5, <2>6, <3>1, BytesFacts
    <3>3. Len(Bytes(0, s)) = s
      BY <2>5, BytesFacts
    <3> QED
      BY <3>1, <3>2, <3>3
  <2>8. blocksize' = blocksize + (r - q) /\ readptr + blocksize' = r
    BY <1>1, <1>2, <2>2, <2>5
  <2>9. blocksize' \in 0 .. Window
    <3>1. inptr + Here[3] <= Window
      BY <1>1 DEF BlockHere
    <3> QED
      BY <1>2, <2>2, <2>5, <2>8, <3>1
  <2>10. Decoded' = r
    BY <1>1, <1>3, <2>8 DEF Decoded
  <2> QED
    BY <2>5, <2>7, <2>8, <2>9, <2>10 DEF OnMark
<1>5. PICK W : Marks(W) /\ OnMark(W)
  BY <1>1 DEF StreamInv, ChainInv
<1>6. /\ out' = Bytes(0, Len(out')) /\ Len(out') \in Nat
      /\ blocksize' \in 0 .. Window /\ readptr + blocksize' <= eofptr
  BY <1>4, <1>5
<1>7. WindowInv'
  <2>1. /\ readptr < eofptr /\ totalsize = readptr + Window
        /\ Delivered(readptr + Window) /\ Shows(Window)
    BY <1>1, <1>2 DEF WindowInv
  <2>2. Shows(Window)' /\ Delivered(readptr + Window)'
    BY <1>3, <2>1, ConstantFacts DEF Shows, Delivered
  <2> QED
    BY <1>1, <1>2, <1>3, <1>6, <2>1, <2>2 DEF WindowInv
<1>8. PlaceInv'
  BY <1>1, <1>2, <1>3, <1>6 DEF PlaceInv
<1>9. \A V : Marks(V) /\ OnMark(V) => OnMark(V)'
  BY <1>4
<1>10. pc \in Working /\ pc' \in Working /\ UNCHANGED <<input, encVars>>
  BY <1>1 DEF Working
<1> QED
  BY <1>1, <1>7, <1>8, <1>9, <1>10, DecoderStep

LEMMA DecodeRawStep == StreamInv /\ DecodeRaw => StreamInv'
<1> SUFFICES ASSUME StreamInv, DecodeRaw PROVE StreamInv'
  OBVIOUS
<1> DEFINE bytes == [k \in 1 .. Here[3] |->
                       IF inptr + RawHead + k <= Window
                       THEN win[inptr + RawHead + k][Len(win[inptr + RawHead + k])] ELSE 0]
<1>1. /\ Decoding /\ More /\ abort = 0 /\ RawHere /\ RawFits
      /\ out' = out \o bytes
      /\ blocksize' = inptr + Here[3] + RawHead /\ inptr' = inptr + 1
      /\ UNCHANGED <<input, pc, abort, encVars, win, inpos, inlen, readptr, totalsize, first,
                     verdict>>
      /\ pc = "decode" /\ demo /\ ~first
  BY DEF DecodeRaw, Decoding
<1>2. /\ EncInv /\ WindowInv /\ PlaceInv /\ eofptr \in Nat /\ Window \in Nat \ {0}
      /\ readptr \in Nat /\ Len(out) \in Nat /\ RawHead \in Nat \ {0} /\ pos = Stop
  BY <1>1, WorkingFacts, ConstantFacts DEF Working
<1>3. /\ eofptr' = eofptr /\ demo' = demo /\ stream' = stream /\ readptr' = readptr
      /\ inlen' = inlen /\ win' = win /\ inpos' = inpos /\ first' = first /\ pc' = pc
      /\ totalsize' = totalsize /\ input' = input
  BY <1>1 DEF encVars, eofptr
<1>4. ASSUME NEW W, Marks(W), OnMark(W)
      PROVE  /\ OnMark(W)' /\ out' = Bytes(0, Len(out')) /\ Len(out') \in Nat
             /\ blocksize' \in 0 .. Window /\ readptr + blocksize' <= eofptr
             /\ blocksize' = Window \/ readptr + blocksize' = eofptr
  <2> DEFINE q == readptr + blocksize
             m == Len(out)
  <2>1. PICK w \in W :
          \/ /\ CodedLeads(q, m, w[1], w[2])
             /\ Here = <<"block", 1, w[1] - q, m, w[2] - m>>
          \/ /\ RawLeads(q, m, w[1], w[2])
             /\ Here = <<"raw", 1, w[2] - m>>
    BY <1>1, <1>4, NextBlock
  <2>2. inptr = blocksize /\ blocksize \in Nat
    BY <1>1, <1>4, NextBlock
  <2>3. RawLeads(q, m, w[1], w[2]) /\ Here = <<"raw", 1, w[2] - m>>
    <3>1. Here[1] = "raw"
      BY <1>1 DEF RawHere
    <3> QED
      BY <2>1, <3>1
  <2>4. w \in Nat \X Nat /\ w = <<w[1], w[2]>>
    BY <1>4 DEF Marks
  <2> DEFINE r == w[1]
             s == w[2]
  <2>5. /\ q < r /\ m < s /\ r <= eofptr /\ r \in Nat /\ s \in Nat /\ q \in Nat /\ m \in Nat
        /\ Here[3] = s - m /\ <<r, s>> \in W
        /\ r - q = RawHead + (s - m) /\ s - m <= RawRoom /\ (s - m = RawRoom \/ s = Stop)
        /\ \A k \in 1 .. s - m : stream[q + RawHead + k] = <<"byte", m + k>>
    <3>1. /\ q < r /\ m < s /\ r <= eofptr
          /\ r - q = RawHead + (s - m) /\ s - m <= RawRoom /\ (s - m = RawRoom \/ s = Stop)
          /\ \A k \in 1 .. s - m : stream[q + RawHead + k] = <<"byte", m + k>>
      BY <2>3 DEF RawLeads, eofptr
    <3>2. r \in Nat /\ s \in Nat /\ q \in Nat /\ m \in Nat
      BY <1>2, <2>2, <2>4
    <3>3. Here[3] = s - m
      BY <2>3
    <3>4. <<r, s>> \in W
      BY <2>4
    <3> QED
      BY <3>1, <3>2, <3>3, <3>4
  <2>6. s = Stop => r = eofptr
    <3>1. s = pos => w = EndMark
      BY <1>4, <2>4, <2>5 DEF Marks
    <3>2. EndMark[1] = eofptr
      BY DEF EndMark, eofptr
    <3> QED
      BY <1>2, <3>1, <3>2
  <2> HIDE DEF r, s
  <2>7. Window - blocksize - RawHead >= s - m
    BY <1>1, <2>5 DEF RawFits
  <2>8. bytes = Bytes(m, s - m)
    <3>1. ASSUME NEW k \in 1 .. s - m
          PROVE  /\ inptr + RawHead + k <= Window
                 /\ win[inptr + RawHead + k][Len(win[inptr + RawHead + k])] = m + k
      <4> DEFINE x == blocksize + RawHead + k
      <4>1. x \in 1 .. Window /\ readptr + x = q + RawHead + k /\ readptr + x <= eofptr
        BY <1>2, <2>2, <2>5, <2>7
      <4>2. win[x] = stream[readptr + x]
        BY <1>1, <1>2, <4>1 DEF WindowInv, Shows
      <4>3. stream[readptr + x] = <<"byte", m + k>>
        BY <2>5, <4>1
      <4>4. inptr + RawHead + k = x
        BY <2>2
      <4> HIDE DEF x
      <4>5. win[x] = <<"byte", m + k>>
        BY <4>2, <4>3
      <4>6. win[x][Len(win[x])] = m + k
        BY <4>5
      <4> QED
        BY <4>1, <4>4, <4>6
    <3> QED
      BY <2>5, <3>1 DEF Bytes
  <2> HIDE DEF bytes
  <2>9. out' = Bytes(0, m) \o Bytes(m, s - m)
    BY <1>1, <1>2, <2>8 DEF PlaceInv
  <2>10. out' = Bytes(0, s) /\ Len(out') = s
    <3>1. s - m \in Nat /\ m + (s - m) = s
      BY <2>5
    <3>2. out' = Bytes(0, m + (s - m))
      BY <2>5, <2>9, <3>1, BytesFacts
    <3>3. Len(Bytes(0, s)) = s
      BY <2>5, BytesFacts
    <3> QED
      BY <3>1, <3>2, <3>3
  <2>11. blocksize' = blocksize + (r - q) /\ readptr + blocksize' = r
    BY <1>1, <1>2, <2>2, <2>5
  <2>12. blocksize' \in 0 .. Window
    BY <1>2, <2>2, <2>5, <2>7, <2>11
  <2>13. blocksize' = Window \/ r = eofptr
    <3>1. CASE s - m = RawRoom
      BY <1>2, <2>2, <2>5, <2>7, <2>11, <3>1 DEF RawRoom
    <3>2. CASE s = Stop
      BY <2>6, <3>2 DEF r, s
    <3> QED
      BY <2>5, <3>1, <3>2
  <2>14. Decoded' = r
    BY <1>1, <1>3, <2>11 DEF Decoded
  <2> QED
    BY <2>5, <2>10, <2>11, <2>12, <2>13, <2>14 DEF OnMark
<1>5. PICK W : Marks(W) /\ OnMark(W)
  BY <1>1 DEF StreamInv, ChainInv
<1>6. /\ out' = Bytes(0, Len(out')) /\ Len(out') \in Nat
      /\ blocksize' \in 0 .. Window /\ readptr + blocksize' <= eofptr
      /\ blocksize' = Window \/ readptr + blocksize' = eofptr
  BY <1>4, <1>5
<1>7. WindowInv'
  <2>1. /\ readptr < eofptr /\ totalsize = readptr + Window
        /\ Delivered(readptr + Window) /\ Shows(Window)
    BY <1>1, <1>2 DEF WindowInv
  <2>2. Shows(Window)' /\ Delivered(readptr + Window)'
    BY <1>3, <2>1, ConstantFacts DEF Shows, Delivered
  <2> QED
    BY <1>1, <1>2, <1>3, <1>6, <2>1, <2>2 DEF WindowInv
<1>8. PlaceInv'
  <2>1. demo' /\ ~first' /\ pc' = "decode" /\ first' \in BOOLEAN
    BY <1>1, <1>2, <1>3 DEF PlaceInv
  <2>2. blocksize' = Window \/ readptr' + blocksize' = eofptr'
    BY <1>3, <1>6
  <2> QED
    BY <1>6, <2>1, <2>2 DEF PlaceInv
<1>9. \A V : Marks(V) /\ OnMark(V) => OnMark(V)'
  BY <1>4
<1>10. pc \in Working /\ pc' \in Working /\ UNCHANGED <<input, encVars>>
  BY <1>1 DEF Working
<1> QED
  BY <1>1, <1>7, <1>8, <1>9, <1>10, DecoderStep

LEMMA RawWaitsStep == StreamInv /\ RawWaits => StreamInv'
<1> SUFFICES ASSUME StreamInv, RawWaits PROVE StreamInv'
  OBVIOUS
<1>1. /\ Decoding /\ More /\ abort = 0 /\ RawHere /\ ~RawFits /\ pc' = "return"
      /\ UNCHANGED <<input, abort, encVars, decVars>>
      /\ pc = "decode" /\ demo /\ ~first
  BY DEF RawWaits, Decoding
<1>2. /\ EncInv /\ WindowInv /\ PlaceInv /\ eofptr \in Nat /\ Window \in Nat \ {0}
      /\ readptr \in Nat /\ Len(out) \in Nat /\ RawHead \in Nat \ {0} /\ RawHead < Window
  BY <1>1, WorkingFacts, ConstantFacts DEF Working
<1>3. /\ eofptr' = eofptr /\ demo' = demo /\ stream' = stream /\ readptr' = readptr
      /\ inlen' = inlen /\ win' = win /\ inpos' = inpos /\ first' = first /\ out' = out
      /\ totalsize' = totalsize /\ input' = input /\ blocksize' = blocksize
  BY <1>1 DEF encVars, decVars, eofptr
<1>4. blocksize # 0
  <2>1. PICK W : Marks(W) /\ OnMark(W)
    BY <1>1 DEF StreamInv, ChainInv
  <2> DEFINE q == readptr + blocksize
             m == Len(out)
  <2>2. PICK w \in W :
          \/ /\ CodedLeads(q, m, w[1], w[2])
             /\ Here = <<"block", 1, w[1] - q, m, w[2] - m>>
          \/ /\ RawLeads(q, m, w[1], w[2])
             /\ Here = <<"raw", 1, w[2] - m>>
    BY <1>1, <2>1, NextBlock
  <2>3. RawLeads(q, m, w[1], w[2]) /\ Here = <<"raw", 1, w[2] - m>>
    <3>1. Here[1] = "raw"
      BY <1>1 DEF RawHere
    <3> QED
      BY <2>2, <3>1
  <2>4. Here[3] = w[2] - m /\ w[2] - m <= RawRoom /\ w[2] \in Nat
    <3>1. Here[3] = w[2] - m
      BY <2>3
    <3>2. w[2] - m <= RawRoom
      BY <2>3 DEF RawLeads
    <3> QED
      BY <2>1, <3>1, <3>2 DEF Marks
  <2> HIDE DEF q
  <2>5. ~ (Window - blocksize - RawHead >= Here[3])
    BY <1>1 DEF RawFits
  <2> QED
    BY <1>2, <2>4, <2>5 DEF RawRoom
<1>5. WindowInv'
  <2>1. /\ readptr < eofptr /\ totalsize = readptr + Window
        /\ Delivered(readptr + Window) /\ Shows(Window)
        /\ blocksize \in 0 .. Window /\ readptr + blocksize <= eofptr
    BY <1>1, <1>2 DEF WindowInv
  <2>2. Shows(Window)' /\ Delivered(readptr + Window)'
    BY <1>3, <2>1, ConstantFacts DEF Shows, Delivered
  <2> QED
    BY <1>1, <1>2, <1>3, <2>1, <2>2 DEF WindowInv
<1>6. PlaceInv'
  BY <1>1, <1>2, <1>3, <1>4 DEF PlaceInv
<1>7. \A W : Marks(W) /\ OnMark(W) => OnMark(W)'
  BY <1>1, <1>3 DEF OnMark, Decoded
<1>8. pc \in Working /\ pc' \in Working /\ UNCHANGED <<input, encVars>>
  BY <1>1 DEF Working
<1> QED
  BY <1>1, <1>5, <1>6, <1>7, <1>8, DecoderStep

LEMMA WindowDoneStep == StreamInv /\ WindowDone => StreamInv'
<1> SUFFICES ASSUME StreamInv, WindowDone PROVE StreamInv'
  OBVIOUS
<1>1. /\ Decoding /\ UNCHANGED <<input, abort, encVars, decVars>>
      /\ pc = "decode" /\ demo /\ ~first
      /\ IF More THEN abort # 0 /\ pc' = "report" ELSE pc' = "return"
  BY DEF WindowDone, Decoding
<1>2. CASE abort # 0
  BY <1>1, <1>2, AfterFailure DEF DecPcs
<1>3. CASE abort = 0
  <2>1. ~More /\ pc' = "return"
    BY <1>1, <1>3
  <2>2. /\ EncInv /\ WindowInv /\ PlaceInv /\ eofptr \in Nat /\ Window \in Nat \ {0}
        /\ readptr \in Nat /\ Len(out) \in Nat /\ Enough \in Nat \ {0}
    BY <1>1, <1>3, WorkingFacts, ConstantFacts DEF Working
  <2>3. /\ eofptr' = eofptr /\ demo' = demo /\ stream' = stream /\ readptr' = readptr
        /\ inlen' = inlen /\ win' = win /\ inpos' = inpos /\ first' = first /\ out' = out
        /\ totalsize' = totalsize /\ input' = input /\ blocksize' = blocksize
    BY <1>1 DEF encVars, decVars, eofptr
  <2>4. /\ readptr < eofptr /\ totalsize = readptr + Window
        /\ Delivered(readptr + Window) /\ Shows(Window)
        /\ blocksize \in 0 .. Window /\ readptr + blocksize <= eofptr
    BY <1>1, <2>2 DEF WindowInv
  <2>5. blocksize # 0
    BY <2>1, <2>2, <2>4 DEF More
  <2>6. WindowInv'
    <3>1. Shows(Window)' /\ Delivered(readptr + Window)'
      BY <2>3, <2>4, ConstantFacts DEF Shows, Delivered
    <3> QED
      BY <2>1, <2>2, <2>3, <2>4, <3>1 DEF WindowInv
  <2>7. PlaceInv'
    BY <1>1, <2>1, <2>2, <2>3, <2>5 DEF PlaceInv
  <2>8. \A W : Marks(W) /\ OnMark(W) => OnMark(W)'
    BY <1>1, <2>1, <2>3 DEF OnMark, Decoded
  <2>9. pc \in Working /\ pc' \in Working /\ UNCHANGED <<input, encVars>>
    BY <1>1, <2>1 DEF Working
  <2> QED
    BY <1>3, <2>6, <2>7, <2>8, <2>9, DecoderStep
<1> QED
  BY <1>2, <1>3

LEMMA ReturnStep == StreamInv /\ Return => StreamInv'
<1> SUFFICES ASSUME StreamInv, Return PROVE StreamInv'
  OBVIOUS
<1>1. /\ pc = "return" /\ pc' \in {"report", "fill"}
      /\ UNCHANGED <<input, abort, encVars, inpos, totalsize, blocksize, inptr, first, out,
                     verdict>>
  BY DEF Return
<1>2. CASE abort # 0
  BY <1>1, <1>2, AfterFailure DEF DecPcs
<1>3. CASE abort = 0
  <2>1. /\ EncInv /\ WindowInv /\ PlaceInv /\ eofptr \in Nat /\ Window \in Nat \ {0}
        /\ readptr \in Nat /\ Len(out) \in Nat
    BY <1>1, <1>3, WorkingFacts, ConstantFacts DEF Working
  <2>2. /\ readptr < eofptr /\ totalsize = readptr + Window
        /\ Delivered(readptr + Window) /\ Shows(Window)
        /\ blocksize \in 0 .. Window /\ readptr + blocksize <= eofptr
        /\ demo => blocksize # 0 /\ ~first
    BY <1>1, <2>1 DEF WindowInv, PlaceInv, AtStart
  <2>3. /\ win' = Moved /\ readptr' = readptr + blocksize /\ inlen' = Window - blocksize
        /\ pc' = "fill"
    BY <2>2 DEF Return
  <2>4. /\ eofptr' = eofptr /\ demo' = demo /\ stream' = stream
        /\ inpos' = inpos /\ first' = first /\ out' = out
        /\ totalsize' = totalsize /\ input' = input /\ blocksize' = blocksize
    BY <1>1 DEF encVars, eofptr
  <2>5. ASSUME NEW x \in 1 .. Window - blocksize, readptr + blocksize + x <= eofptr
        PROVE  win'[x] = stream[readptr + blocksize + x]
    <3>1. /\ x + blocksize \in 1 .. Window /\ x \in 1 .. Window
          /\ readptr + (x + blocksize) = readptr + blocksize + x
      BY <2>1, <2>2
    <3>2. win'[x] = win[x + blocksize]
      BY <2>3, <3>1 DEF Moved
    <3>3. win[x + blocksize] = stream[readptr + (x + blocksize)]
      BY <2>2, <2>5, <3>1 DEF Shows
    <3> QED
      BY <3>1, <3>2, <3>3
  <2>6. WindowInv'
    <3>1. DOMAIN win' = 1 .. Window
      BY <2>3 DEF Moved
    <3>2. readptr' \in 0 .. eofptr' /\ inlen' \in 0 .. Window
          /\ readptr' + inlen' = readptr + Window
      BY <2>1, <2>2, <2>3, <2>4
    <3>3. Delivered(readptr + inlen)'
      BY <2>2, <2>4, <3>2 DEF Delivered
    <3>4. Shows(inlen)'
      BY <2>3, <2>4, <2>5 DEF Shows
    <3>5. totalsize' = readptr' + inlen'
      BY <2>2, <2>4, <3>2
    <3> QED
      BY <2>3, <3>1, <3>2, <3>3, <3>4, <3>5 DEF WindowInv
  <2>7. Decoded' = Decoded
    BY <1>1, <2>3 DEF Decoded
  <2>8. PlaceInv'
    BY <1>1, <2>1, <2>2, <2>3, <2>4, <2>7 DEF PlaceInv
  <2>9. \A W : Marks(W) /\ OnMark(W) => OnMark(W)'
    BY <2>4, <2>7 DEF OnMark
  <2>10. pc \in Working /\ pc' \in Working /\ UNCHANGED <<input, encVars>>
    BY <1>1, <2>3 DEF Working
  <2> QED
    BY <1>3, <2>6, <2>8, <2>9, <2>10, DecoderStep
<1> QED
  BY <1>2, <1>3

\* When the loop of dzExtractFile ends by itself, the file is whole
LEMMA WholeAtEnd ==
  ASSUME StreamInv, pc = "fill", readptr >= eofptr, abort = 0
  PROVE  out = Bytes(0, Stop) /\ out = crc
<1>1. /\ EncInv /\ WindowInv /\ PlaceInv /\ eofptr \in Nat /\ pos = Stop /\ Stop \in Nat
      /\ readptr \in Nat /\ Len(out) \in Nat
  BY WorkingFacts DEF Working
<1>2. readptr = eofptr /\ Decoded = eofptr
  BY <1>1 DEF WindowInv, Decoded
<1>3. crc = Bytes(0, Stop) /\ out = Bytes(0, Len(out))
  BY <1>1 DEF EncInv, PlaceInv
<1>4. Len(out) = Stop
  <2>1. CASE ~demo
    <3>1. stream = ByteCells(0, pos) /\ Len(out) = eofptr
      BY <1>1, <1>2, <2>1 DEF EncInv, PlaceInv
    <3>2. eofptr = pos
      BY <1>1, <3>1, CellFacts DEF eofptr
    <3> QED
      BY <1>1, <3>1, <3>2
  <2>2. CASE demo /\ first
    <3>1. readptr = 0 /\ CdFirst
      BY <1>1, <2>2 DEF PlaceInv, AtStart, EncInv
    <3>2. input.cd \in Nat
      BY <1>1, StopFacts DEF EncInv
    <3> QED
      BY <1>2, <3>1, <3>2 DEF CdFirst, eofptr
  <2>3. CASE demo /\ ~first
    <3>1. PICK W : Marks(W) /\ OnMark(W)
      BY <2>3 DEF StreamInv, ChainInv
    <3>2. <<eofptr, Len(out)>> \in W
      BY <1>2, <2>3, <3>1 DEF OnMark
    <3>3. <<eofptr, Len(out)>> = EndMark
      BY <1>1, <3>1, <3>2 DEF Marks, eofptr
    <3> QED
      BY <1>1, <3>3 DEF EndMark
  <2> QED
    BY <1>1, <2>1, <2>2, <2>3 DEF PlaceInv
<1> QED
  BY <1>3, <1>4

LEMMA ReportStep == StreamInv /\ Report => StreamInv'
<1> SUFFICES ASSUME StreamInv, Report PROVE StreamInv'
  OBVIOUS
<1>1. /\ pc = "report" \/ (pc = "fill" /\ (readptr >= eofptr \/ abort # 0))
      /\ verdict' = (IF abort = 0 /\ out # crc THEN "crc error" ELSE "ok")
      /\ pc' = "done"
      /\ UNCHANGED <<input, abort, encVars, win, inpos, inlen, readptr, totalsize, blocksize,
                     inptr, first, out>>
  BY DEF Report
<1>2. pc \in DecPcs /\ pc' \in DecPcs
  BY <1>1 DEF DecPcs
<1>3. CASE abort # 0
  BY <1>1, <1>2, <1>3, AfterFailure
<1>4. CASE abort = 0
  <2>1. pc = "fill" /\ readptr >= eofptr
    BY <1>1, <1>4 DEF StreamInv, DecInv
  <2>2. out = Bytes(0, Stop) /\ out = crc
    BY <1>4, <2>1, WholeAtEnd
  <2>3. /\ EncInv' /\ Stop' = Stop /\ demo' = demo /\ \A W : Marks(W) => Marks(W)'
    BY <1>1, <1>2, DecoderFrame DEF StreamInv
  <2>4. DecInv'
    BY <1>1, <1>4, <2>2, <2>3 DEF DecInv, EncPcs
  <2>5. ChainInv'
    <3>1. CASE demo
      <4>1. PICK W : Marks(W)
        BY <2>1, <3>1 DEF StreamInv, ChainInv
      <4>2. Marks(W)'
        BY <2>3, <4>1
      <4> QED
        BY <1>1, <4>2 DEF ChainInv
    <3>2. CASE ~demo
      BY <2>3, <3>2 DEF ChainInv
    <3> QED
      BY <3>1, <3>2
  <2> QED
    BY <2>3, <2>4, <2>5 DEF StreamInv
<1> QED
  BY <1>3, <1>4

-----------------------------------------------------------------------------
(* The theorems.                                                           *)

\* The invariant holds in every state the codec can reach
THEOREM StreamInvariant == Spec => []StreamInv
<1>1. Init => StreamInv
  BY InitInv
<1>2. StreamInv /\ [Next]_vars => StreamInv'
  <2> SUFFICES ASSUME StreamInv, [Next]_vars PROVE StreamInv'
    OBVIOUS
  <2>1. CASE Encode
    BY <2>1, ReadCdStep, NoDemoStep, PlainBlockStep, CodeBlockStep, BailStep, RawBlockStep,
       EncodedStep DEF Encode
  <2>2. CASE Decode
    BY <2>2, FillStep, PlainWindowStep, DecodeCdStep, DecodeBlockStep, DecodeRawStep,
       RawWaitsStep, WindowDoneStep, ReturnStep, ReportStep DEF Decode
  <2>3. CASE FillFails \/ Abort
    BY <2>3, FillFailsStep, AbortStep
  <2>4. CASE UNCHANGED vars
    <3>1. UNCHANGED <<input, pc, abort, pos, blk, stream, crc, demo, win, inpos, inlen, readptr,
                      totalsize, blocksize, inptr, first, out, verdict>>
      BY <2>4 DEF vars, encVars, decVars
    <3>2. Stop' = Stop /\ eofptr' = eofptr
      BY <3>1 DEF Stop, eofptr
    <3>3. EncInv'
      BY <3>1, <3>2 DEF StreamInv, EncInv, CdFirst
    <3>4. WindowInv => WindowInv'
      BY <3>1, <3>2, ConstantFacts DEF WindowInv, Shows, Delivered
    <3>5. PlaceInv => PlaceInv'
      BY <3>1, <3>2 DEF PlaceInv, AtStart, Decoded
    <3>6. DecInv'
      BY <3>1, <3>2, <3>4, <3>5 DEF StreamInv, DecInv, Untouched
    <3>7. \A W : (Marks(W) => Marks(W)') /\ (OnMark(W) => OnMark(W)')
      <4> SUFFICES ASSUME NEW W PROVE (Marks(W) => Marks(W)') /\ (OnMark(W) => OnMark(W)')
        OBVIOUS
      <4>1. Marks(W) => Marks(W)'
        BY <3>1, <3>2, ZenonT(30) DEF Marks, EndMark, Leads, CodedLeads, RawLeads
      <4>2. OnMark(W) => OnMark(W)'
        BY <3>1 DEF OnMark, Decoded
      <4> QED
        BY <4>1, <4>2
    <3>8. ChainInv'
      <4>1. CASE demo /\ pc # "cd"
        <5>1. PICK W : Marks(W) /\ (abort = 0 /\ pc \in {"fill", "decode", "return"} => OnMark(W))
          BY <4>1 DEF StreamInv, ChainInv
        <5>2. Marks(W)' /\ (abort' = 0 /\ pc' \in {"fill", "decode", "return"} => OnMark(W)')
          BY <3>1, <3>7, <5>1
        <5> QED
          BY <5>2 DEF ChainInv
      <4>2. CASE ~ (demo /\ pc # "cd")
        BY <3>1, <4>2 DEF ChainInv
      <4> QED
        BY <4>1, <4>2
    <3> QED
      BY <3>3, <3>6, <3>8 DEF StreamInv
  <2> QED
    BY <2>1, <2>2, <2>3, <2>4 DEF Next
<1> QED
  BY <1>1, <1>2, PTL DEF Spec

\* dem_compress and normal_compress feed every byte of the file into the checksum once and in
\* order, also when a block has to be taken back because it could not be coded
THEOREM ChecksumIsOfTheFile == Spec => []ChecksumCoversFile
<1>1. StreamInv => ChecksumCoversFile
  BY DEF StreamInv, EncInv, DecPcs, ChecksumCoversFile
<1> QED
  BY <1>1, StreamInvariant, PTL

\* However long the blocks are, dem_uncompress finds each at its first byte and whole in the
\* window
THEOREM DecoderMeetsBlocks == Spec => []BlocksMetWhole
<1>1. StreamInv => BlocksMetWhole
  <2> SUFFICES ASSUME StreamInv, Decoding, More, abort = 0 PROVE BlockHere \/ RawHere
    BY DEF BlocksMetWhole
  <2>1. pc = "decode" /\ demo /\ ~first
    BY DEF Decoding
  <2>2. PICK W : Marks(W) /\ OnMark(W)
    BY <2>1 DEF StreamInv, ChainInv
  <2> DEFINE q == readptr + blocksize
             m == Len(out)
  <2>3. PICK w \in W :
          \/ /\ CodedLeads(q, m, w[1], w[2])
             /\ Here = <<"block", 1, w[1] - q, m, w[2] - m>>
          \/ /\ RawLeads(q, m, w[1], w[2])
             /\ Here = <<"raw", 1, w[2] - m>>
    BY <2>2, NextBlock
  <2>4. CASE RawLeads(q, m, w[1], w[2]) /\ Here = <<"raw", 1, w[2] - m>>
    BY <2>4 DEF RawHere
  <2>5. CASE CodedLeads(q, m, w[1], w[2]) /\ Here = <<"block", 1, w[1] - q, m, w[2] - m>>
    <3>1. inptr = blocksize /\ blocksize \in Nat /\ inptr < Enough
      BY <2>2, NextBlock
    <3>2. /\ WindowInv /\ eofptr \in Nat /\ Window \in Nat \ {0} /\ readptr \in Nat
          /\ Enough \in Nat \ {0} /\ Half \in Nat \ {0} /\ Enough - 1 + Half <= Window
      BY <2>1, WorkingFacts, ConstantFacts DEF Working
    <3> DEFINE c == w[1] - q
               n == w[2] - m
    <3>3. /\ c \in Nat /\ c <= Half /\ q + c <= eofptr
          /\ \A k \in 1 .. c : stream[q + k] = <<"block", k, c, m, n>>
      <4>1. w[1] \in Nat /\ q \in Nat
        BY <2>2, <3>1, <3>2 DEF Marks
      <4> QED
        BY <2>5, <4>1 DEF CodedLeads, eofptr
    <3>4. Here = <<"block", 1, c, m, n>>
      BY <2>5
    <3> HIDE DEF c, n
    <3>5. Here[1] = "block" /\ Here[2] = 1 /\ Here[3] = c
      BY <3>4
    <3>6. inptr + c <= Window
      BY <3>1, <3>2, <3>3
    <3>7. ASSUME NEW k \in 1 .. c PROVE win[inptr + k] = [Here EXCEPT ![2] = k]
      <4>1. inptr + k \in 1 .. Window /\ readptr + (inptr + k) = q + k /\ q + k <= eofptr
        BY <3>1, <3>2, <3>3, <3>6
      <4>2. win[inptr + k] = stream[readptr + (inptr + k)]
        BY <2>1, <3>2, <4>1 DEF WindowInv, Shows
      <4>3. stream[q + k] = <<"block", k, c, m, n>>
        BY <3>3
      <4>4. [Here EXCEPT ![2] = k] = <<"block", k, c, m, n>>
        BY <3>4
      <4> QED
        BY <4>1, <4>2, <4>3, <4>4
    <3> QED
      BY <3>5, <3>6, <3>7 DEF BlockHere
  <2> QED
    BY <2>3, <2>4, <2>5
<1> QED
  BY <1>1, StreamInvariant, PTL

\* dzExtractFile has written the beginning of the file, at every moment at which nothing has
\* failed
THEOREM ExtractsAPrefix == Spec => []OutputIsPrefix
<1>1. StreamInv => OutputIsPrefix
  <2> SUFFICES ASSUME StreamInv, abort = 0 PROVE out = Bytes(0, Len(out)) /\ Len(out) <= Stop
    BY DEF OutputIsPrefix
  <2>1. EncInv /\ Stop \in Nat
    BY StopFacts DEF StreamInv, EncInv
  <2>2. CASE pc \in EncPcs
    <3>1. out = << >>
      BY <2>2 DEF StreamInv, DecInv, Untouched
    <3>2. Bytes(0, 0) = << >> /\ Len(<< >>) = 0
      BY DEF Bytes
    <3> QED
      BY <2>1, <3>1, <3>2
  <2>3. CASE pc \in Working
    <3>1. /\ WindowInv /\ PlaceInv /\ eofptr \in Nat /\ Len(out) \in Nat /\ pos = Stop
      BY <2>3, WorkingFacts
    <3>2. CASE ~demo
      <4>1. Len(out) = Decoded /\ Decoded <= eofptr
        BY <2>3, <3>1, <3>2 DEF PlaceInv, WindowInv, Decoded, Working
      <4>2. eofptr = pos
        BY <2>1, <3>1, <3>2, CellFacts DEF EncInv, eofptr
      <4> QED
        BY <3>1, <4>1, <4>2 DEF PlaceInv
    <3>3. CASE demo /\ first
      <4>1. out = << >>
        BY <3>1, <3>3 DEF PlaceInv, AtStart
      <4>2. Len(<< >>) = 0
        OBVIOUS
      <4> QED
        BY <2>1, <3>1, <4>1, <4>2 DEF PlaceInv
    <3>4. CASE demo /\ ~first
      <4>1. PICK W : Marks(W) /\ OnMark(W)
        BY <2>3, <3>4 DEF StreamInv, ChainInv, Working
      <4>2. <<Decoded, Len(out)>> \in W
        BY <3>4, <4>1 DEF OnMark
      <4>3. Len(out) <= pos
        BY <2>1, <3>1, <4>1, <4>2 DEF Marks, EndMark
      <4> QED
        BY <3>1, <4>3 DEF PlaceInv
    <3> QED
      BY <3>1, <3>2, <3>3, <3>4 DEF PlaceInv
  <2>4. CASE pc = "done"
    <3>1. out = Bytes(0, Stop)
      BY <2>4 DEF StreamInv, DecInv
    <3>2. Len(out) = Stop
      BY <2>1, <3>1, BytesFacts
    <3> QED
      BY <2>1, <3>1, <3>2
  <2>5. pc \notin {"report", "inflate"}
    BY DEF StreamInv, DecInv
  <2> QED
    BY <2>1, <2>2, <2>3, <2>4, <2>5 DEF EncInv, DecPcs, Working
<1> QED
  BY <1>1, StreamInvariant, PTL

\* A stream that nothing happens to is extracted to its end, and dzExtractFile finds its checksum
\* right
THEOREM IntactStreamsAreExtracted == Spec => []IntactStreamsPass
<1>1. StreamInv => IntactStreamsPass
  BY DEF StreamInv, DecInv, IntactStreamsPass
<1> QED
  BY <1>1, StreamInvariant, PTL
=============================================================================
