------------------------------ MODULE FieldCodec ------------------------------
(***************************************************************************)
(* One field of the clientdata or updateentity message, from message to    *)
(* message.  The encoder fills in what a message leaves out, remembers     *)
(* when it says what would have gone without saying (force), and tells the *)
(* difference to the last message; the decoder does the reverse.           *)
(*                                                                         *)
(* The field is of one kind:                                               *)
(*   "byte"    voz, pax, ang, vel, wp of clientdata; angles of an entity   *)
(*   "plain"   colormap, skin, effects, transparency, scale, lerpfinish    *)
(*   "flag"    uk10, uk11, invbit, the bits of items; newbit of an entity  *)
(*   "word"    wpf, av, wpm: a byte if not 0, and a second one if not 0    *)
(*   "count"   am, sh, nl, rk, ce: a byte, and a second one if not 0       *)
(*   "health"  always two bytes                                            *)
(*   "frame", "model", "origin" of an entity, against its baseline         *)
(***************************************************************************)
EXTENDS DemFields

CONSTANTS
  Los, His,     \* first and second bytes in messages
  Coordinates,  \* coordinates in messages
  Shorts,       \* values of health
  Drift         \* bound: how far from 0 the decoder's health gets

ASSUME FieldAssumption ==
  /\ Los \subseteq Byte /\ His \subseteq Byte
  /\ Coordinates \subseteq Int16 /\ Shorts \subseteq Int16
  /\ Drift \in Nat

Kinds == {"byte", "plain", "flag", "word", "count", "health", "frame", "model", "origin"}

VARIABLES
  kind,
  base,       \* the baseline's value, or the default
  enc,        \* what the encoder remembers of the last message
  dec,        \* what the decoder remembers
  sent, got,  \* the last message: lo and hi byte, or None
  raw         \* the encoder has bailed out

vars == <<kind, base, enc, dec, sent, got, raw>>

Memory == [x: Int, dx: Int, force: SUBSET {"lo", "hi"}]
Message == [lo: Optional(Int16 \cup Byte), hi: Optional(Byte)]

\* of a baseline frame and model may have two bytes
Baselines(k) ==
  CASE k \in {"byte", "plain"} -> Los
    [] k \in {"frame", "model"} -> Los \cup {Join(lo, hi) : lo \in Los, hi \in His}
    [] k = "origin" -> Coordinates
    [] OTHER -> {0}

Init ==
  /\ kind \in Kinds
  /\ base \in Baselines(kind)
  /\ enc = [x |-> base, dx |-> 0, force |-> {}]
  /\ dec = enc
  /\ sent = [lo |-> None, hi |-> None] /\ got = sent    \* nothing yet
  /\ raw = FALSE

Given(v, default) == IF v = None THEN default ELSE v
Xor(S, T) == (S \ T) \cup (T \ S)
Flag(f, b) == IF b THEN {f} ELSE {}

\* what the decoder puts into its message, of a field that is now m
LowPart(m) == IF Low(m.x) # Low(base) \/ "lo" \in m.force THEN Low(m.x) ELSE None
HighPart(m) ==
  IF (High(m.x) # High(base) /\ High(m.x) # 0) \/ "hi" \in m.force THEN Low(High(m.x)) ELSE None
\* a seeded fault: the decoder's int goes out whole
HealthPart_Int(m) == m.x

HealthPart(m) == Short(m.x)
Coordinate(m) == IF m.x # base \/ "lo" \in m.force THEN m.x ELSE None

Built(m) ==
  CASE kind \in {"byte", "plain"} -> [lo |-> LowPart(m), hi |-> None]
    [] kind = "flag" -> [lo |-> m.x, hi |-> None]
    [] kind = "count" -> [lo |-> Low(m.x), hi |-> HighPart(m)]
    [] kind = "health" -> [lo |-> HealthPart(m), hi |-> None]
    [] kind = "origin" -> [lo |-> Coordinate(m), hi |-> None]
    [] OTHER -> [lo |-> LowPart(m), hi |-> HighPart(m)]

\* A message with the field at n is coded, and decoded to x and dx.  Of force only the
\* change is told.
Coded(msg, n, dn, force, x, dx) ==
  /\ ~raw
  /\ sent' = msg
  /\ enc' = [x |-> n, dx |-> dn, force |-> force]
  /\ dec' = [x |-> x, dx |-> dx, force |-> Xor(dec.force, Xor(enc.force, force))]
  /\ got' = Built(dec')
  /\ UNCHANGED <<kind, base, raw>>

SendByte ==
  /\ kind = "byte"
  /\ \E lo \in Optional(Los) :
       LET n == Given(lo, base) IN
       Coded([lo |-> lo, hi |-> None], n, 0, Flag("lo", lo = base),
             IF n = enc.x THEN dec.x ELSE Low(bplus(bdiff(n, enc.x), dec.x)), 0)

\* told as it is
SendPlain ==
  /\ kind = "plain"
  /\ \E lo \in Optional(Los) :
       LET n == Given(lo, base) IN
       Coded([lo |-> lo, hi |-> None], n, 0, Flag("lo", lo = base),
             IF n = enc.x THEN dec.x ELSE n, 0)

\* told is that it is not what it was
SendFlag ==
  /\ kind = "flag"
  /\ \E n \in {0, 1} :
       Coded([lo |-> n, hi |-> None], n, 0, {}, IF n = enc.x THEN dec.x ELSE 1 - dec.x, 0)

\* a second byte that is 0 is not accepted, dem_clientdata returns 1
SendWord ==
  /\ kind = "word"
  /\ \E lo \in Optional(Los), hi \in Optional(His) \ {0} :
       LET n == Join(Given(lo, 0), Given(hi, 0)) IN
       Coded([lo |-> lo, hi |-> hi], n, 0, Flag("lo", lo = 0),
             WordPlus(WordDiff(n, enc.x), dec.x), 0)

Bail ==
  /\ kind = "word" /\ 0 \in His /\ ~raw
  /\ raw' = TRUE
  /\ UNCHANGED <<kind, base, enc, dec, sent, got>>

\* a second byte that is 0 is accepted, and leaves no trace
SendCount ==
  /\ kind = "count"
  /\ \E lo \in Los, hi \in Optional(His) :
       LET n == Join(lo, Given(hi, 0)) IN
       Coded([lo |-> lo, hi |-> hi], n, 0, {}, WordPlus(WordDiff(n, enc.x), dec.x), 0)

\* the decoder's int may leave the range of a short, its low bytes are right
SendHealth ==
  /\ kind = "health"
  /\ \E n \in Shorts :
       /\ dec.x + Short(n - enc.x) \in -Drift .. Drift
       /\ Coded([lo |-> n, hi |-> None], n, 0, {}, dec.x + Short(n - enc.x), 0)

\* a seeded fault: force looks at the frame with its high byte
ForceFrame_Late(lo, n) == lo # None /\ n = base

\* FDIFF looks at the whole frame, before its high byte is in
ForceFrame(lo, n) == lo = base

\* the high byte comes only with a low one
SendFrame ==
  /\ kind = "frame"
  /\ \E lo \in Optional(Los), hi \in Optional(His) :
       LET n == IF lo = None THEN base ELSE Join(lo, Given(hi, 0)) IN
       /\ lo = None => hi = None
       /\ Coded([lo |-> lo, hi |-> hi], n, 0,
                Flag("lo", ForceFrame(lo, n)) \cup Flag("hi", hi # None /\ High(n) \in {High(base), 0}),
                FramePlus(FrameDiff(n, enc.x), dec.x), 0)

\* the two bytes of modelindex are told one by one, as they are
SendModel ==
  /\ kind = "model"
  /\ \E lo \in Optional(Los), hi \in Optional(His) :
       LET n == IF lo = None THEN base ELSE Join(lo, Given(hi, 0)) IN
       /\ lo = None => hi = None
       /\ Coded([lo |-> lo, hi |-> hi], n, 0,
                Flag("lo", lo = Low(base)) \cup Flag("hi", hi # None /\ High(n) \in {High(base), 0}),
                Join(Low(IF Low(n) # Low(enc.x) THEN n ELSE dec.x),
                     Low(High(IF High(n) # High(enc.x) THEN n ELSE dec.x))), 0)

SendOrigin ==
  /\ kind = "origin"
  /\ \E v \in Optional(Coordinates) :
       LET n == Given(v, base)
           told == OriginPlus(OriginDiff(n, [x |-> enc.x, dx |-> enc.dx]), [x |-> dec.x, dx |-> dec.dx])
       IN Coded([lo |-> v, hi |-> None], n, n - enc.x, Flag("lo", v = base), told.x, told.dx)

Next ==
  \/ SendByte \/ SendPlain \/ SendFlag \/ SendWord \/ Bail \/ SendCount \/ SendHealth
  \/ SendFrame \/ SendModel \/ SendOrigin

Spec == Init /\ [][Next]_vars

-----------------------------------------------------------------------------
(* Properties.                                                             *)

FieldTypeOK ==
  /\ kind \in Kinds /\ base \in Int16 /\ raw \in BOOLEAN
  /\ enc \in Memory /\ dec \in Memory
  /\ sent \in Message /\ got \in Message

\* The decoder remembers what the encoder does, of health only the two bytes it will be
\* told differences of; from here on every difference means the same on both sides
MemoriesAgree ==
  /\ dec.force = enc.force /\ dec.dx = enc.dx
  /\ IF kind = "health" THEN Short(dec.x) = enc.x ELSE dec.x = enc.x

\* Two bytes the code loses if they are sent: the second byte of a count when it is 0, and
\* the first of a frame whose baseline has two bytes when it is the baseline's (the force
\* test compares it with both).
Kept(msg) ==
  CASE kind = "count" /\ msg.hi = 0 -> [msg EXCEPT !.hi = None]
    [] kind = "frame" /\ base \notin Byte /\ msg.lo = Low(base) -> [msg EXCEPT !.lo = None]
    [] OTHER -> msg

\* Each message leaves the decoder as it came to the encoder, but for those two bytes, with
\* nothing filled in
MessagesComeBack == got = Kept(sent)
=============================================================================
