------------------------------ MODULE DemFields ------------------------------
(***************************************************************************)
(* How single fields of demo messages are told by their difference to what *)
(* they were before.  All values have the width of the code: a byte is in  *)
(* 0 .. 255, an int16_t or short in Int16.                                 *)
(***************************************************************************)
EXTENDS Integers

Byte == 0 .. 255
Int16 == -32768 .. 32767

None == 65536                               \* instead of a value that is not in the message
Optional(S) == S \cup {None}

Low(x) == x % 256                           \* x & 0xff
High(x) == x \div 256                       \* x >> 8
Short(x) == ((x + 32768) % 65536) - 32768   \* int16_t, getshort
Join(lo, hi) == Short(lo + 256 * hi)        \* lo | hi << 8
OneByte(d) == d \in -128 .. 127             \* fits an int8_t

\* the difference of two bytes, and back
bdiff(x, y) == (x - y) % 256
bplus(x, y) == (IF x >= 128 THEN x - 256 ELSE x) + y

-----------------------------------------------------------------------------
(* Two-byte fields: a difference of one byte, or the whole value.          *)

Same == [form |-> "same", arg |-> 0]
ByteStep(d) == [form |-> "byte", arg |-> d % 256]
Whole(x) == [form |-> "word", arg |-> x % 65536]

\* a seeded fault: a step over 255 is sent as a difference
SmallStep_Over(n, o) == (n \in Byte /\ o \in Byte) \/ OneByte(n - o)

\* one byte does; not for a step over 255, which the decoder would cut off
SmallStep(n, o) ==
  \/ n \in Byte /\ o \in Byte
  \/ OneByte(n - o) /\ ~(o <= 255 /\ n > 255)

WordDiff(n, o) ==
  IF n = o THEN Same ELSE IF SmallStep(n, o) THEN ByteStep(n - o) ELSE Whole(n)

WordPlus(d, o) ==
  CASE d.form = "same" -> o
    [] d.form = "word" -> Short(d.arg)
    [] d.form = "byte" -> IF o \in Byte THEN Low(bplus(d.arg, o)) ELSE Short(bplus(d.arg, o))

(* Frames move on by one most of the time.                                 *)

FrameDiff(n, o) == IF n - o = 1 THEN [form |-> "single", arg |-> 0] ELSE WordDiff(n, o)
FramePlus(d, o) == IF d.form = "single" THEN Short(o + 1) ELSE WordPlus(d, o)

-----------------------------------------------------------------------------
(* Origins: a coordinate x with its last movement dx.  Told is the change  *)
(* of the movement, or the new coordinate.                                 *)

\* n is the new coordinate, o what is known of the old one
OriginDiff(n, o) ==
  LET d == (n - o.x) - o.dx IN
    IF d = 0 THEN Same ELSE IF OneByte(d) THEN ByteStep(d) ELSE Whole(n)

\* unless told otherwise it goes on as before
OriginPlus(d, o) ==
  CASE d.form = "same" -> [x |-> o.x + o.dx, dx |-> o.dx]
    [] d.form = "byte" -> [x |-> o.x + bplus(d.arg, o.dx), dx |-> bplus(d.arg, o.dx)]
    [] d.form = "word" -> [x |-> Short(d.arg), dx |-> Short(d.arg) - o.x]
=============================================================================
