-------------------------- MODULE FieldCodecProofs --------------------------
(***************************************************************************)
(* Every field comes back, for all bytes, coordinates and shorts, as long  *)
(* as no second byte makes a field of two bytes negative, and but for the  *)
(* two bytes that Kept leaves out.                                         *)
(***************************************************************************)
EXTENDS FieldCodec, TLAPS

-----------------------------------------------------------------------------
(* The codings of single values, for all bytes, shorts and coordinates.    *)

(* The values that have two bytes. *)
LEMMA ShortsBetween ==
  ASSUME NEW v
  PROVE  v \in Int16 <=> v \in Int /\ -32768 <= v /\ v <= 32767
<1> DEFINE a == -32768
           b == 32767
<1>1. v \in Int16 <=> v \in a .. b
  BY DEF Int16
<1>2. a \in Int /\ b \in Int
  BY SMT
<1> HIDE DEF a, b
<1>3. v \in a .. b <=> v \in Int /\ a <= v /\ v <= b
  BY <1>2, SMT
<1>4. v \in Int16 <=> v \in Int /\ a <= v /\ v <= b
  BY <1>1, <1>3
<1> QED  BY <1>4 DEF a, b

(* A difference of bytes, added again, is the byte. *)
LEMMA BytesBack ==
  ASSUME NEW n \in Int, NEW o \in Int, 0 <= n, n <= 255, 0 <= o, o <= 255
  PROVE  Low(bplus(bdiff(n, o), o)) = n
BY SMT DEF Low, bplus, bdiff

(* A small difference, read as a signed byte, is what it was. *)
LEMMA StepsBack ==
  ASSUME NEW d \in Int, NEW o \in Int, OneByte(d)
  PROVE  bplus(d % 256, o) = o + d
<1>1. -128 <= d /\ d <= 127
  BY SMT DEF OneByte
<1> QED  BY <1>1, SMT DEF bplus

(* So the difference to where it came from gives a value back. *)
LEMMA DistanceBack ==
  ASSUME NEW n \in Int, NEW o \in Int, OneByte(n - o)
  PROVE  bplus((n - o) % 256, o) = n
<1>1. PICK d \in Int : d = n - o
  BY SMT
<1>2. bplus(d % 256, o) = o + d
  BY <1>1, StepsBack
<1> QED  BY <1>1, <1>2, SMT

(* A whole value survives being cut to two bytes. *)
LEMMA WholesBack ==
  ASSUME NEW n \in Int, -32768 <= n, n <= 32767
  PROVE  Short(n % 65536) = n /\ Short(n) = n
BY SMT DEF Short

(* Two-byte fields that are not negative come back from their difference. *)
LEMMA WordsBack ==
  ASSUME NEW n \in Int, NEW o \in Int, 0 <= n, n <= 32767, 0 <= o, o <= 32767
  PROVE  WordPlus(WordDiff(n, o), o) = n
<1>0. (o \in Byte <=> o <= 255) /\ (n \in Byte <=> n <= 255)
  BY SMT DEF Byte
<1>1. CASE n = o
  BY <1>1 DEF WordPlus, WordDiff, Same
<1>2. CASE n # o /\ SmallStep(n, o)
  <2>1. WordDiff(n, o) = ByteStep(n - o)
    BY <1>2 DEF WordDiff
  <2>2. WordPlus(ByteStep(n - o), o)
          = IF o \in Byte THEN Low(bplus((n - o) % 256, o)) ELSE Short(bplus((n - o) % 256, o))
    BY DEF WordPlus, ByteStep
  <2>3. CASE o <= 255
    <3>1. n <= 255
      BY <1>0, <1>2, <2>3, SMT DEF SmallStep
    <3> QED  BY <1>0, <2>1, <2>2, <2>3, <3>1, BytesBack DEF bdiff
  <2>4. CASE ~(o <= 255)
    <3>1. OneByte(n - o)
      BY <1>0, <1>2, <2>4 DEF SmallStep
    <3>2. bplus((n - o) % 256, o) = n
      BY <3>1, DistanceBack
    <3> QED  BY <1>0, <2>1, <2>2, <2>4, <3>2, WholesBack
  <2> QED  BY <2>3, <2>4
<1>3. CASE n # o /\ ~SmallStep(n, o)
  <2>1. WordPlus(WordDiff(n, o), o) = Short(n % 65536)
    BY <1>3 DEF WordPlus, WordDiff, Whole
  <2> QED  BY <2>1, WholesBack
<1> QED  BY <1>1, <1>2, <1>3

(* So do frames, also when they move on by one. *)
LEMMA FramesBack ==
  ASSUME NEW n \in Int, NEW o \in Int, 0 <= n, n <= 32767, 0 <= o, o <= 32767
  PROVE  FramePlus(FrameDiff(n, o), o) = n
<1>1. CASE n - o = 1
  <2>1. FramePlus(FrameDiff(n, o), o) = Short(o + 1)
    BY <1>1 DEF FramePlus, FrameDiff
  <2>2. o + 1 = n
    BY <1>1, SMT
  <2> QED  BY <2>1, <2>2, WholesBack
<1>2. CASE n - o # 1
  <2>1. FrameDiff(n, o) = WordDiff(n, o)
    BY <1>2 DEF FrameDiff
  <2>2. WordDiff(n, o).form # "single"
    BY DEF WordDiff, Same, ByteStep, Whole
  <2> QED  BY <2>1, <2>2, WordsBack DEF FramePlus
<1> QED  BY <1>1, <1>2

(* A coordinate and its movement come back, however far it moves. *)
LEMMA OriginsBack ==
  ASSUME NEW n \in Int, NEW x \in Int, NEW dx \in Int, -32768 <= n, n <= 32767
  PROVE  OriginPlus(OriginDiff(n, [x |-> x, dx |-> dx]), [x |-> x, dx |-> dx])
           = [x |-> n, dx |-> n - x]
<1> DEFINE o == [x |-> x, dx |-> dx]
           d == (n - x) - dx
<1>0. d \in Int
  BY SMT
<1>1. CASE d = 0
  <2>1. OriginDiff(n, o) = Same
    BY <1>1 DEF OriginDiff
  <2>2. OriginPlus(Same, o) = [x |-> x + dx, dx |-> dx]
    BY DEF OriginPlus, Same
  <2>3. x + dx = n /\ dx = n - x
    BY <1>1, SMT
  <2> QED  BY <2>1, <2>2, <2>3
<1>2. CASE d # 0 /\ OneByte(d)
  <2>1. OriginDiff(n, o) = ByteStep(d)
    BY <1>2 DEF OriginDiff
  <2>2. OriginPlus(ByteStep(d), o) = [x |-> x + bplus(d % 256, dx), dx |-> bplus(d % 256, dx)]
    BY DEF OriginPlus, ByteStep
  <2>3. bplus(d % 256, dx) = dx + d
    BY <1>0, <1>2, StepsBack
  <2>4. dx + d = n - x /\ x + (n - x) = n
    BY SMT
  <2> QED  BY <2>1, <2>2, <2>3, <2>4
<1>3. CASE d # 0 /\ ~OneByte(d)
  <2>1. OriginDiff(n, o) = Whole(n)
    BY <1>3 DEF OriginDiff
  <2>2. OriginPlus(Whole(n), o) = [x |-> Short(n % 65536), dx |-> Short(n % 65536) - x]
    BY DEF OriginPlus, Whole
  <2> QED  BY <2>1, <2>2, WholesBack
<1> QED  BY <1>1, <1>2, <1>3

(* Of a health that has drifted by whole turns, the two low bytes stay right. *)
LEMMA HealthBack ==
  ASSUME NEW n \in Int, NEW o \in Int, NEW h \in Int, -32768 <= n, n <= 32767, Short(h) = o
  PROVE  Short(h + Short(n - o)) = n
BY SMT DEF Short

(* Joining two bytes and taking them apart again. *)
LEMMA BytesJoined ==
  ASSUME NEW lo \in Int, NEW hi \in Int, 0 <= lo, lo <= 255, 0 <= hi, hi <= 127
  PROVE  /\ Join(lo, hi) = lo + 256 * hi
         /\ Join(lo, hi) \in Int /\ 0 <= Join(lo, hi) /\ Join(lo, hi) <= 32767
         /\ Low(Join(lo, hi)) = lo /\ High(Join(lo, hi)) = hi
BY SMT DEF Join, Short, Low, High

(* Taking two bytes apart and putting them together again. *)
LEMMA BytesTaken ==
  ASSUME NEW n \in Int, 0 <= n, n <= 32767
  PROVE  /\ Low(n) \in Int /\ 0 <= Low(n) /\ Low(n) <= 255
         /\ High(n) \in Int /\ 0 <= High(n) /\ High(n) <= 127
         /\ Low(High(n)) = High(n) /\ Low(n) + 256 * High(n) = n
BY SMT DEF Low, High

-----------------------------------------------------------------------------
(* The invariant.                                                          *)

(* What servers other than those of run "negative" send. *)
NotNegative == \A hi \in His : hi <= 127

Between(v, lo, hi) == v \in Int /\ lo <= v /\ v <= hi

(* How far the values on both sides reach, for each kind of field. *)
Ranged ==
  /\ kind \in {"byte", "plain"} => Between(enc.x, 0, 255) /\ Between(base, 0, 255)
  /\ kind \in {"word", "count"} => Between(enc.x, 0, 32767) /\ base = 0
  /\ kind \in {"frame", "model"} => Between(enc.x, 0, 32767) /\ Between(base, 0, 32767)
  /\ kind = "flag" => enc.x \in {0, 1}

(* The inductive invariant. *)
FieldInv == FieldTypeOK /\ Ranged /\ MemoriesAgree /\ MessagesComeBack

-----------------------------------------------------------------------------
(* Values and messages.                                                    *)

(* The values in messages are bytes and shorts. *)
LEMMA ValuesInRange ==
  ASSUME FieldAssumption
  PROVE  /\ \A lo \in Los : Between(lo, 0, 255)
         /\ \A hi \in His : Between(hi, 0, 255)
         /\ \A v \in Coordinates : Between(v, -32768, 32767)
         /\ \A v \in Shorts : Between(v, -32768, 32767)
<1>1. \A v \in Byte : Between(v, 0, 255)
  BY SMT DEF Byte, Between
<1>2. \A v \in Int16 : Between(v, -32768, 32767)
  BY ShortsBetween DEF Between
<1> QED  BY <1>1, <1>2 DEF FieldAssumption

(* A message of such values, or of none, has its type. *)
LEMMA MessageTyped ==
  ASSUME FieldAssumption, NEW lo, NEW hi,
         lo \in Optional(Los) \/ lo \in Optional(Coordinates) \/ lo \in Shorts \/ lo \in {0, 1},
         hi \in Optional(His) \/ hi = None
  PROVE  [lo |-> lo, hi |-> hi] \in Message
<1>1. 0 \in Byte /\ 1 \in Byte
  BY SMT DEF Byte
<1>2. lo \in Optional(Int16 \cup Byte)
  BY <1>1 DEF FieldAssumption, Optional
<1>3. hi \in Optional(Byte)
  BY DEF FieldAssumption, Optional
<1> QED  BY <1>2, <1>3 DEF Message

(* A byte is its own low part and has no high part; None is neither byte nor short. *)
LEMMA BytesLow ==
  ASSUME NEW v, Between(v, 0, 255)
  PROVE  Low(v) = v /\ High(v) = 0 /\ v # None
BY SMT DEF Between, Low, High, None

(* What the low byte has to remember to come back. *)
LEMMA LowComesBack ==
  ASSUME NEW n, NEW dn, NEW force, NEW lo,
         lo = None => Low(n) = Low(base) /\ "lo" \notin force,
         lo # None => Low(n) = lo /\ (lo = Low(base) => "lo" \in force)
  PROVE  LowPart([x |-> n, dx |-> dn, force |-> force]) = lo
BY DEF LowPart

(* What the high byte has to remember to come back. *)
LEMMA HighComesBack ==
  ASSUME NEW n, NEW dn, NEW force, NEW hi,
         hi = None => High(n) \in {High(base), 0} /\ "hi" \notin force,
         hi # None => Low(High(n)) = hi /\ (High(n) \in {High(base), 0} => "hi" \in force)
  PROVE  HighPart([x |-> n, dx |-> dn, force |-> force]) = hi
BY DEF HighPart

(* A change told of a set that both sides have makes it the new set on both. *)
LEMMA XorBack ==
  ASSUME NEW A, NEW B
  PROVE  Xor(A, Xor(A, B)) = B
BY DEF Xor

(* A message whose value is decoded to what it was, and built again from it, leaves both *)
(* sides with the same memory and with what is kept of the message.                      *)
LEMMA CodedKept ==
  ASSUME FieldInv, NEW msg \in Message, NEW n \in Int, NEW dn \in Int,
         NEW force \in SUBSET {"lo", "hi"}, NEW x \in Int, Coded(msg, n, dn, force, x, dn),
         IF kind = "health" THEN Short(x) = n ELSE x = n,
         Built([x |-> x, dx |-> dn, force |-> force]) = Kept(msg), Kept(msg) \in Message
  PROVE  /\ FieldTypeOK' /\ MemoriesAgree' /\ MessagesComeBack'
         /\ kind' = kind /\ base' = base /\ enc'.x = n
<1>1. dec.force = enc.force
  BY DEF FieldInv, MemoriesAgree
<1>2. dec' = [x |-> x, dx |-> dn, force |-> force]
  BY <1>1, XorBack DEF Coded
<1>3. enc' = [x |-> n, dx |-> dn, force |-> force] /\ sent' = msg /\ UNCHANGED <<kind, base, raw>>
  BY DEF Coded
<1>4. got' = Kept(msg)
  BY <1>2 DEF Coded
<1>5. FieldTypeOK'
  BY <1>2, <1>3, <1>4 DEF FieldInv, FieldTypeOK, Memory
<1>6. MemoriesAgree'
  BY <1>2, <1>3 DEF MemoriesAgree
<1>7. Kept(sent)' = Kept(msg)
  BY <1>3 DEF Kept
<1> QED  BY <1>3, <1>4, <1>5, <1>6, <1>7 DEF MessagesComeBack

(* Of most kinds all of it is kept. *)
LEMMA CodedKeeps ==
  ASSUME FieldInv, NEW msg \in Message, NEW n \in Int, NEW dn \in Int,
         NEW force \in SUBSET {"lo", "hi"}, NEW x \in Int, Coded(msg, n, dn, force, x, dn),
         IF kind = "health" THEN Short(x) = n ELSE x = n,
         Built([x |-> x, dx |-> dn, force |-> force]) = msg, kind \notin {"count", "frame"}
  PROVE  /\ FieldTypeOK' /\ MemoriesAgree' /\ MessagesComeBack'
         /\ kind' = kind /\ base' = base /\ enc'.x = n
<1>1. Kept(msg) = msg
  BY DEF Kept
<1> QED  BY <1>1, CodedKept

-----------------------------------------------------------------------------
(* One lemma for each action.                                              *)

(* A byte comes back from its difference. *)
LEMMA ByteKeeps ==
  ASSUME FieldAssumption, FieldInv, SendByte
  PROVE  FieldInv'
<1>1. PICK lo \in Optional(Los) :
        LET n == Given(lo, base) IN
        Coded([lo |-> lo, hi |-> None], n, 0, Flag("lo", lo = base),
              IF n = enc.x THEN dec.x ELSE Low(bplus(bdiff(n, enc.x), dec.x)), 0)
  BY DEF SendByte
<1> DEFINE n == Given(lo, base)
           x == IF n = enc.x THEN dec.x ELSE Low(bplus(bdiff(n, enc.x), dec.x))
           force == Flag("lo", lo = base)
<1>2. kind = "byte" /\ Between(base, 0, 255) /\ Between(enc.x, 0, 255) /\ dec.x = enc.x
  BY DEF SendByte, FieldInv, Ranged, MemoriesAgree
<1>3. Between(n, 0, 255) /\ base # None /\ (lo # None => n = lo)
  BY <1>2, ValuesInRange, BytesLow DEF Given, Optional
<1>4. x = n
  BY <1>2, <1>3, BytesBack DEF Between
<1>5. force \in SUBSET {"lo", "hi"} /\ ("lo" \in force <=> lo = base)
  BY DEF Flag
<1>6. Low(n) = n /\ Low(base) = base
  BY <1>2, <1>3, BytesLow
<1>7. LowPart([x |-> n, dx |-> 0, force |-> force]) = lo
  BY <1>3, <1>5, <1>6, LowComesBack DEF Given
<1>8. Built([x |-> x, dx |-> 0, force |-> force]) = [lo |-> lo, hi |-> None]
  BY <1>2, <1>4, <1>7 DEF Built
<1>9. [lo |-> lo, hi |-> None] \in Message
  BY MessageTyped
<1>10. n \in Int /\ x \in Int /\ 0 \in Int
  BY <1>3, <1>4 DEF Between
<1> HIDE DEF n, x, force
<1>11. /\ FieldTypeOK' /\ MemoriesAgree' /\ MessagesComeBack'
       /\ kind' = kind /\ base' = base /\ enc'.x = n
  BY <1>1, <1>2, <1>4, <1>5, <1>8, <1>9, <1>10, CodedKeeps DEF n, x, force
<1> QED  BY <1>2, <1>3, <1>11 DEF FieldInv, Ranged, Between

(* So does a byte that is told as it is. *)
LEMMA PlainKeeps ==
  ASSUME FieldAssumption, FieldInv, SendPlain
  PROVE  FieldInv'
<1>1. PICK lo \in Optional(Los) :
        LET n == Given(lo, base) IN
        Coded([lo |-> lo, hi |-> None], n, 0, Flag("lo", lo = base),
              IF n = enc.x THEN dec.x ELSE n, 0)
  BY DEF SendPlain
<1> DEFINE n == Given(lo, base)
           x == IF n = enc.x THEN dec.x ELSE n
           force == Flag("lo", lo = base)
<1>2. kind = "plain" /\ Between(base, 0, 255) /\ dec.x = enc.x
  BY DEF SendPlain, FieldInv, Ranged, MemoriesAgree
<1>3. Between(n, 0, 255) /\ base # None /\ (lo # None => n = lo)
  BY <1>2, ValuesInRange, BytesLow DEF Given, Optional
<1>4. x = n
  BY <1>2
<1>5. force \in SUBSET {"lo", "hi"} /\ ("lo" \in force <=> lo = base)
  BY DEF Flag
<1>6. Low(n) = n /\ Low(base) = base
  BY <1>2, <1>3, BytesLow
<1>7. LowPart([x |-> n, dx |-> 0, force |-> force]) = lo
  BY <1>3, <1>5, <1>6, LowComesBack DEF Given
<1>8. Built([x |-> x, dx |-> 0, force |-> force]) = [lo |-> lo, hi |-> None]
  BY <1>2, <1>4, <1>7 DEF Built
<1>9. [lo |-> lo, hi |-> None] \in Message
  BY MessageTyped
<1>10. n \in Int /\ x \in Int /\ 0 \in Int
  BY <1>3, <1>4 DEF Between
<1> HIDE DEF n, x, force
<1>11. /\ FieldTypeOK' /\ MemoriesAgree' /\ MessagesComeBack'
       /\ kind' = kind /\ base' = base /\ enc'.x = n
  BY <1>1, <1>2, <1>4, <1>5, <1>8, <1>9, <1>10, CodedKeeps DEF n, x, force
<1> QED  BY <1>2, <1>3, <1>11 DEF FieldInv, Ranged, Between

(* A flag is turned over on both sides, or on none. *)
LEMMA FlagKeeps ==
  ASSUME FieldAssumption, FieldInv, SendFlag
  PROVE  FieldInv'
<1>1. PICK n \in {0, 1} :
        Coded([lo |-> n, hi |-> None], n, 0, {}, IF n = enc.x THEN dec.x ELSE 1 - dec.x, 0)
  BY DEF SendFlag
<1> DEFINE x == IF n = enc.x THEN dec.x ELSE 1 - dec.x
<1>2. kind = "flag" /\ enc.x \in {0, 1} /\ dec.x = enc.x
  BY DEF SendFlag, FieldInv, Ranged, MemoriesAgree
<1>3. x = n
  BY <1>2, SMT
<1>4. Built([x |-> x, dx |-> 0, force |-> {}]) = [lo |-> n, hi |-> None]
  BY <1>2, <1>3 DEF Built
<1>5. [lo |-> n, hi |-> None] \in Message
  BY MessageTyped
<1>6. n \in Int /\ x \in Int /\ 0 \in Int /\ {} \in SUBSET {"lo", "hi"}
  BY <1>3
<1> HIDE DEF x
<1>7. /\ FieldTypeOK' /\ MemoriesAgree' /\ MessagesComeBack'
      /\ kind' = kind /\ base' = base /\ enc'.x = n
  BY <1>1, <1>2, <1>3, <1>4, <1>5, <1>6, CodedKeeps DEF x
<1> QED  BY <1>2, <1>7 DEF FieldInv, Ranged

(* Two bytes, neither of them told when it is 0. *)
LEMMA WordKeeps ==
  ASSUME FieldAssumption, NotNegative, FieldInv, SendWord
  PROVE  FieldInv'
<1>1. PICK lo \in Optional(Los), hi \in Optional(His) \ {0} :
        LET n == Join(Given(lo, 0), Given(hi, 0)) IN
        Coded([lo |-> lo, hi |-> hi], n, 0, Flag("lo", lo = 0),
              WordPlus(WordDiff(n, enc.x), dec.x), 0)
  BY DEF SendWord
<1> DEFINE n == Join(Given(lo, 0), Given(hi, 0))
           x == WordPlus(WordDiff(n, enc.x), dec.x)
           force == Flag("lo", lo = 0)
<1>2. kind = "word" /\ base = 0 /\ Between(enc.x, 0, 32767) /\ dec.x = enc.x
  BY DEF SendWord, FieldInv, Ranged, MemoriesAgree
<1>3. /\ Between(Given(lo, 0), 0, 255) /\ (lo # None => Given(lo, 0) = lo)
      /\ Between(Given(hi, 0), 0, 127) /\ (hi # None => Given(hi, 0) = hi)
  BY ValuesInRange DEF Given, Optional, Between, NotNegative
<1>4. Between(n, 0, 32767) /\ Low(n) = Given(lo, 0) /\ High(n) = Given(hi, 0)
  BY <1>3, BytesJoined DEF Between
<1>5. x = n
  BY <1>2, <1>4, WordsBack DEF Between
<1>6. force \in SUBSET {"lo", "hi"} /\ ("lo" \in force <=> lo = 0) /\ "hi" \notin force
  BY DEF Flag
<1>7. Low(base) = 0 /\ High(base) = 0 /\ Low(Given(hi, 0)) = Given(hi, 0) /\ 0 # None
  BY <1>2, <1>3, SMT DEF Low, High, Between, None
<1>8. LowPart([x |-> n, dx |-> 0, force |-> force]) = lo
  BY <1>3, <1>4, <1>6, <1>7, LowComesBack DEF Given
<1>9. HighPart([x |-> n, dx |-> 0, force |-> force]) = hi
  BY <1>1, <1>3, <1>4, <1>6, <1>7, HighComesBack DEF Given
<1>10. Built([x |-> x, dx |-> 0, force |-> force]) = [lo |-> lo, hi |-> hi]
  BY <1>2, <1>5, <1>8, <1>9 DEF Built
<1>11. [lo |-> lo, hi |-> hi] \in Message
  BY MessageTyped
<1>12. n \in Int /\ x \in Int /\ 0 \in Int
  BY <1>4, <1>5 DEF Between
<1> HIDE DEF n, x, force
<1>13. /\ FieldTypeOK' /\ MemoriesAgree' /\ MessagesComeBack'
       /\ kind' = kind /\ base' = base /\ enc'.x = n
  BY <1>1, <1>2, <1>5, <1>6, <1>10, <1>11, <1>12, CodedKeeps DEF n, x, force
<1> QED  BY <1>2, <1>4, <1>13 DEF FieldInv, Ranged, Between

(* The first byte is always told, the second unless it is 0. *)
LEMMA CountKeeps ==
  ASSUME FieldAssumption, NotNegative, FieldInv, SendCount
  PROVE  FieldInv'
<1>1. PICK lo \in Los, hi \in Optional(His) :
        LET n == Join(lo, Given(hi, 0)) IN
        Coded([lo |-> lo, hi |-> hi], n, 0, {}, WordPlus(WordDiff(n, enc.x), dec.x), 0)
  BY DEF SendCount
<1> DEFINE n == Join(lo, Given(hi, 0))
           told == IF hi = 0 THEN None ELSE hi
           x == WordPlus(WordDiff(n, enc.x), dec.x)
<1>2. kind = "count" /\ base = 0 /\ Between(enc.x, 0, 32767) /\ dec.x = enc.x
  BY DEF SendCount, FieldInv, Ranged, MemoriesAgree
<1>3. /\ Between(lo, 0, 255)
      /\ Between(Given(hi, 0), 0, 127) /\ (hi # None => Given(hi, 0) = hi)
  BY ValuesInRange DEF Given, Optional, Between, NotNegative
<1>4. Between(n, 0, 32767) /\ Low(n) = lo /\ High(n) = Given(hi, 0)
  BY <1>3, BytesJoined DEF Between
<1>5. x = n
  BY <1>2, <1>4, WordsBack DEF Between
<1>6. {} \in SUBSET {"lo", "hi"} /\ "hi" \notin {}
  OBVIOUS
<1>7. High(base) = 0 /\ Low(Given(hi, 0)) = Given(hi, 0) /\ 0 # None
  BY <1>2, <1>3, SMT DEF Low, High, Between, None
<1>8. HighPart([x |-> n, dx |-> 0, force |-> {}]) = told
  BY <1>1, <1>3, <1>4, <1>6, <1>7, HighComesBack DEF Given
<1>9. /\ Built([x |-> x, dx |-> 0, force |-> {}]) = [lo |-> lo, hi |-> told]
      /\ Kept([lo |-> lo, hi |-> hi]) = [lo |-> lo, hi |-> told]
  BY <1>2, <1>4, <1>5, <1>8 DEF Built, Kept
<1>10. [lo |-> lo, hi |-> hi] \in Message /\ [lo |-> lo, hi |-> told] \in Message
  BY MessageTyped DEF Optional
<1>11. n \in Int /\ x \in Int /\ 0 \in Int
  BY <1>4, <1>5 DEF Between
<1> HIDE DEF n, x, told
<1>12. /\ FieldTypeOK' /\ MemoriesAgree' /\ MessagesComeBack'
       /\ kind' = kind /\ base' = base /\ enc'.x = n
  BY <1>1, <1>2, <1>5, <1>6, <1>9, <1>10, <1>11, CodedKept DEF n, x
<1> QED  BY <1>2, <1>4, <1>12 DEF FieldInv, Ranged, Between

(* The decoder's health has the two low bytes of the encoder's. *)
LEMMA HealthKeeps ==
  ASSUME FieldAssumption, FieldInv, SendHealth
  PROVE  FieldInv'
<1>1. PICK n \in Shorts :
        Coded([lo |-> n, hi |-> None], n, 0, {}, dec.x + Short(n - enc.x), 0)
  BY DEF SendHealth
<1> DEFINE x == dec.x + Short(n - enc.x)
<1>2. kind = "health" /\ dec.x \in Int /\ enc.x \in Int /\ Short(dec.x) = enc.x
  BY DEF SendHealth, FieldInv, FieldTypeOK, Memory, MemoriesAgree
<1>3. Between(n, -32768, 32767)
  BY ValuesInRange
<1>4. Short(x) = n
  BY <1>2, <1>3, HealthBack DEF Between
<1>5. Built([x |-> x, dx |-> 0, force |-> {}]) = [lo |-> n, hi |-> None]
  BY <1>2, <1>4 DEF Built, HealthPart
<1>6. [lo |-> n, hi |-> None] \in Message
  BY MessageTyped
<1>7. n \in Int /\ 0 \in Int /\ {} \in SUBSET {"lo", "hi"}
  BY <1>3 DEF Between
<1>8. x \in Int
  BY <1>2, <1>7, SMT DEF Short
<1> HIDE DEF x
<1>9. /\ FieldTypeOK' /\ MemoriesAgree' /\ MessagesComeBack'
      /\ kind' = kind /\ base' = base /\ enc'.x = n
  BY <1>1, <1>2, <1>4, <1>5, <1>6, <1>7, <1>8, CodedKeeps DEF x
<1> QED  BY <1>2, <1>9 DEF FieldInv, Ranged

(* Of a frame the high byte comes only with the low one, and then also when it is 0.  The *)
(* low one is lost when the baseline has it beside a high one.                             *)
LEMMA FrameKeeps ==
  ASSUME FieldAssumption, NotNegative, FieldInv, SendFrame
  PROVE  FieldInv'
<1>1. PICK lo \in Optional(Los), hi \in Optional(His) :
        LET n == IF lo = None THEN base ELSE Join(lo, Given(hi, 0)) IN
        /\ lo = None => hi = None
        /\ Coded([lo |-> lo, hi |-> hi], n, 0,
                 Flag("lo", ForceFrame(lo, n)) \cup Flag("hi", hi # None /\ High(n) \in {High(base), 0}),
                 FramePlus(FrameDiff(n, enc.x), dec.x), 0)
  BY DEF SendFrame
<1> DEFINE n == IF lo = None THEN base ELSE Join(lo, Given(hi, 0))
           x == FramePlus(FrameDiff(n, enc.x), dec.x)
           told == IF base \notin Byte /\ lo = Low(base) THEN None ELSE lo
           force == Flag("lo", ForceFrame(lo, n)) \cup Flag("hi", hi # None /\ High(n) \in {High(base), 0})
<1>2. kind = "frame" /\ Between(base, 0, 32767) /\ Between(enc.x, 0, 32767) /\ dec.x = enc.x
  BY DEF SendFrame, FieldInv, Ranged, MemoriesAgree
<1>3. base # None /\ Low(base) # None /\ (base \in Byte <=> Low(base) = base)
  BY <1>2, SMT DEF Low, Byte, Between, None
<1>4. /\ lo # None => Between(lo, 0, 255)
      /\ Between(Given(hi, 0), 0, 127) /\ (hi # None => Given(hi, 0) = hi)
  BY ValuesInRange DEF Given, Optional, Between, NotNegative
<1>5. Low(Given(hi, 0)) = Given(hi, 0) /\ 0 # None
  BY <1>4, SMT DEF Low, Between, None
<1>6. lo # None => Between(n, 0, 32767) /\ Low(n) = lo /\ High(n) = Given(hi, 0)
  BY <1>4, BytesJoined DEF Between
<1>7. Between(n, 0, 32767)
  BY <1>2, <1>6
<1>8. x = n
  BY <1>2, <1>7, FramesBack DEF Between
<1>9. /\ force \in SUBSET {"lo", "hi"} /\ ("lo" \in force <=> lo = base)
      /\ "hi" \in force <=> hi # None /\ High(n) \in {High(base), 0}
  BY DEF Flag, ForceFrame
<1> HIDE DEF force
<1>10. LowPart([x |-> n, dx |-> 0, force |-> force]) = told
  <2>1. CASE told = lo
    <3>1. lo = Low(base) => lo = base
      BY <1>3, <2>1
    <3>2. lo = None => Low(n) = Low(base) /\ "lo" \notin force
      BY <1>3, <1>9
    <3>3. lo # None => Low(n) = lo /\ (lo = Low(base) => "lo" \in force)
      BY <1>6, <1>9, <3>1
    <3> HIDE DEF n, told
    <3> QED  BY <2>1, <3>2, <3>3, LowComesBack
  <2>2. CASE told # lo
    <3>1. told = None /\ lo # None /\ lo = Low(base) /\ lo # base
      BY <1>3, <2>2
    <3> HIDE DEF told
    <3> QED  BY <1>6, <1>9, <3>1, LowComesBack DEF LowPart
  <2> QED  BY <2>1, <2>2
<1>11. HighPart([x |-> n, dx |-> 0, force |-> force]) = hi
  BY <1>1, <1>4, <1>5, <1>6, <1>9, HighComesBack DEF Given
<1>12. /\ Built([x |-> x, dx |-> 0, force |-> force]) = [lo |-> told, hi |-> hi]
       /\ Kept([lo |-> lo, hi |-> hi]) = [lo |-> told, hi |-> hi]
  BY <1>2, <1>8, <1>10, <1>11 DEF Built, Kept
<1>13. [lo |-> lo, hi |-> hi] \in Message /\ [lo |-> told, hi |-> hi] \in Message
  BY MessageTyped DEF Optional
<1>14. n \in Int /\ x \in Int /\ 0 \in Int
  BY <1>7, <1>8 DEF Between
<1> HIDE DEF n, x, told
<1>15. /\ FieldTypeOK' /\ MemoriesAgree' /\ MessagesComeBack'
       /\ kind' = kind /\ base' = base /\ enc'.x = n
  BY <1>1, <1>2, <1>8, <1>9, <1>12, <1>13, <1>14, CodedKept DEF n, x, force
<1> QED  BY <1>2, <1>7, <1>15 DEF FieldInv, Ranged, Between

(* The bytes of a model come back one by one. *)
LEMMA ModelKeeps ==
  ASSUME FieldAssumption, NotNegative, FieldInv, SendModel
  PROVE  FieldInv'
<1>1. PICK lo \in Optional(Los), hi \in Optional(His) :
        LET n == IF lo = None THEN base ELSE Join(lo, Given(hi, 0)) IN
        /\ lo = None => hi = None
        /\ Coded([lo |-> lo, hi |-> hi], n, 0,
                 Flag("lo", lo = Low(base)) \cup Flag("hi", hi # None /\ High(n) \in {High(base), 0}),
                 Join(Low(IF Low(n) # Low(enc.x) THEN n ELSE dec.x),
                      Low(High(IF High(n) # High(enc.x) THEN n ELSE dec.x))), 0)
  BY DEF SendModel
<1> DEFINE n == IF lo = None THEN base ELSE Join(lo, Given(hi, 0))
           x == Join(Low(IF Low(n) # Low(enc.x) THEN n ELSE dec.x),
                     Low(High(IF High(n) # High(enc.x) THEN n ELSE dec.x)))
           force == Flag("lo", lo = Low(base)) \cup Flag("hi", hi # None /\ High(n) \in {High(base), 0})
<1>2. kind = "model" /\ Between(base, 0, 32767) /\ Between(enc.x, 0, 32767) /\ dec.x = enc.x
  BY DEF SendModel, FieldInv, Ranged, MemoriesAgree
<1>3. Low(base) # None
  BY <1>2, SMT DEF Low, Between, None
<1>4. /\ lo # None => Between(lo, 0, 255)
      /\ Between(Given(hi, 0), 0, 127) /\ (hi # None => Given(hi, 0) = hi)
  BY ValuesInRange DEF Given, Optional, Between, NotNegative
<1>5. Low(Given(hi, 0)) = Given(hi, 0) /\ 0 # None
  BY <1>4, SMT DEF Low, Between, None
<1>6. lo # None => Between(n, 0, 32767) /\ Low(n) = lo /\ High(n) = Given(hi, 0)
  BY <1>4, BytesJoined DEF Between
<1>7. Between(n, 0, 32767)
  BY <1>2, <1>6
<1>8. x = n
  <2>1. x = Join(Low(n), Low(High(n)))
    BY <1>2
  <2>2. Join(Low(n), Low(High(n))) = n
    <3>1. /\ Between(Low(n), 0, 255) /\ Between(High(n), 0, 127) /\ Low(High(n)) = High(n)
          /\ Low(n) + 256 * High(n) = n
      <4>1. n \in Int /\ 0 <= n /\ n <= 32767
        BY <1>7 DEF Between
      <4> HIDE DEF n
      <4> QED  BY <4>1, BytesTaken DEF Between
    <3> QED  BY <3>1, BytesJoined DEF Between
  <2> QED  BY <2>1, <2>2
<1>9. /\ force \in SUBSET {"lo", "hi"} /\ ("lo" \in force <=> lo = Low(base))
      /\ "hi" \in force <=> hi # None /\ High(n) \in {High(base), 0}
  BY DEF Flag
<1> HIDE DEF force
<1>10. LowPart([x |-> n, dx |-> 0, force |-> force]) = lo
  BY <1>3, <1>6, <1>9, LowComesBack
<1>11. HighPart([x |-> n, dx |-> 0, force |-> force]) = hi
  BY <1>1, <1>4, <1>5, <1>6, <1>9, HighComesBack DEF Given
<1>12. Built([x |-> x, dx |-> 0, force |-> force]) = [lo |-> lo, hi |-> hi]
  BY <1>2, <1>8, <1>10, <1>11 DEF Built
<1>13. [lo |-> lo, hi |-> hi] \in Message
  BY MessageTyped
<1>14. n \in Int /\ x \in Int /\ 0 \in Int
  BY <1>7, <1>8 DEF Between
<1> HIDE DEF n, x
<1>15. /\ FieldTypeOK' /\ MemoriesAgree' /\ MessagesComeBack'
       /\ kind' = kind /\ base' = base /\ enc'.x = n
  BY <1>1, <1>2, <1>8, <1>9, <1>12, <1>13, <1>14, CodedKeeps, SMTT(30) DEF n, x, force
<1> QED  BY <1>2, <1>7, <1>15 DEF FieldInv, Ranged, Between

(* A coordinate comes back from what both sides expect of it. *)
LEMMA OriginKeeps ==
  ASSUME FieldAssumption, FieldInv, SendOrigin
  PROVE  FieldInv'
<1>1. PICK v \in Optional(Coordinates) :
        LET n == Given(v, base)
            told == OriginPlus(OriginDiff(n, [x |-> enc.x, dx |-> enc.dx]), [x |-> dec.x, dx |-> dec.dx])
        IN Coded([lo |-> v, hi |-> None], n, n - enc.x, Flag("lo", v = base), told.x, told.dx)
  BY DEF SendOrigin
<1> DEFINE n == Given(v, base)
           told == OriginPlus(OriginDiff(n, [x |-> enc.x, dx |-> enc.dx]), [x |-> dec.x, dx |-> dec.dx])
           force == Flag("lo", v = base)
<1>2. /\ kind = "origin" /\ dec.x = enc.x /\ dec.dx = enc.dx
      /\ enc.x \in Int /\ enc.dx \in Int
  BY DEF SendOrigin, FieldInv, FieldTypeOK, Memory, MemoriesAgree
<1>3. Between(base, -32768, 32767)
  BY ShortsBetween DEF FieldInv, FieldTypeOK, Between
<1>4. Between(n, -32768, 32767) /\ (v # None => n = v)
  BY <1>3, ValuesInRange DEF Given, Optional
<1>5. base # None
  BY <1>3, SMT DEF Between, None
<1>6. told = [x |-> n, dx |-> n - enc.x]
  BY <1>2, <1>4, OriginsBack DEF Between
<1>7. force \in SUBSET {"lo", "hi"} /\ ("lo" \in force <=> v = base)
  BY DEF Flag
<1>8. n \in Int
  BY <1>4 DEF Between
<1>9. n - enc.x \in Int
  BY <1>2, <1>8
<1> HIDE DEF force
<1>10. Coordinate([x |-> n, dx |-> n - enc.x, force |-> force]) = v
  BY <1>4, <1>5, <1>7 DEF Coordinate, Given
<1> HIDE DEF n
<1>11. Built([x |-> n, dx |-> n - enc.x, force |-> force]) = [lo |-> v, hi |-> None]
  BY <1>2, <1>10 DEF Built
<1>12. [lo |-> v, hi |-> None] \in Message
  BY MessageTyped
<1>13. Coded([lo |-> v, hi |-> None], n, n - enc.x, force, n, n - enc.x)
  BY <1>1, <1>6 DEF n, force
<1>14. /\ FieldTypeOK' /\ MemoriesAgree' /\ MessagesComeBack'
       /\ kind' = kind /\ base' = base
  BY <1>2, <1>7, <1>8, <1>9, <1>11, <1>12, <1>13, CodedKeeps
<1> QED  BY <1>2, <1>14 DEF FieldInv, Ranged

(* Bailing out changes none of it. *)
LEMMA BailKeeps ==
  ASSUME FieldInv, Bail
  PROVE  FieldInv'
BY DEF Bail, FieldInv, FieldTypeOK, Ranged, MemoriesAgree, MessagesComeBack, Kept

-----------------------------------------------------------------------------
(* The theorems.                                                           *)

(* Both sides start with the baseline. *)
LEMMA FieldStarts ==
  ASSUME FieldAssumption, NotNegative, Init
  PROVE  FieldInv
<1>1. \A lo \in Los : Between(lo, 0, 255)
  BY ValuesInRange
<1>2. ASSUME NEW lo \in Los, NEW hi \in His
      PROVE  Between(Join(lo, hi), 0, 32767)
  <2>1. Between(lo, 0, 255) /\ Between(hi, 0, 127)
    BY ValuesInRange DEF Between, NotNegative
  <2> QED  BY <2>1, BytesJoined DEF Between
<1>3. kind \in {"byte", "plain"} => Between(base, 0, 255)
  BY <1>1 DEF Init, Baselines
<1>4. kind \in {"frame", "model"} => Between(base, 0, 32767)
  <2>1. \A lo \in Los : Between(lo, 0, 32767)
    BY <1>1, SMT DEF Between
  <2> QED  BY <1>2, <2>1 DEF Init, Baselines
<1>5. kind \in {"flag", "word", "count", "health"} => base = 0
  BY DEF Init, Baselines
<1>6. kind = "origin" => base \in Int16
  BY DEF Init, Baselines, FieldAssumption
<1>7. base \in Int16
  <2>1. \A v : Between(v, 0, 255) => v \in Int16
    BY ShortsBetween, SMT DEF Between
  <2>2. \A v : Between(v, 0, 32767) => v \in Int16
    BY ShortsBetween, SMT DEF Between
  <2>3. 0 \in Int16
    BY ShortsBetween, SMT
  <2> QED  BY <1>3, <1>4, <1>5, <1>6, <2>1, <2>2, <2>3 DEF Init, Kinds
<1>8. base \in Int
  BY <1>7, ShortsBetween
<1>9. [lo |-> None, hi |-> None] \in Message
  BY MessageTyped DEF Optional
<1>10. FieldTypeOK
  <2>1. enc \in Memory /\ dec \in Memory
    BY <1>8 DEF Init, Memory
  <2>2. sent \in Message /\ got \in Message
    BY <1>9 DEF Init
  <2> QED  BY <1>7, <2>1, <2>2 DEF Init, FieldTypeOK
<1>11. Ranged
  <2>1. \A v : Between(v, 0, 255) => Between(v, 0, 32767)
    BY SMT DEF Between
  <2>2. Between(0, 0, 32767)
    BY SMT DEF Between
  <2> QED  BY <1>3, <1>4, <1>5, <2>1, <2>2 DEF Init, Ranged
<1>12. MemoriesAgree
  <2>1. kind = "health" => Short(base) = base
    BY <1>5, WholesBack, SMT
  <2> QED  BY <2>1 DEF Init, MemoriesAgree
<1>13. MessagesComeBack
  <2>1. Low(base) # None /\ 0 # None
    BY <1>8, SMT DEF Low, None
  <2> QED  BY <2>1 DEF Init, Kept, MessagesComeBack
<1> QED  BY <1>10, <1>11, <1>12, <1>13 DEF FieldInv

(* The invariant holds in every state, whatever bytes, shorts and coordinates come. *)
THEOREM FieldInvariant == NotNegative => (Spec => []FieldInv)
<1> SUFFICES ASSUME NotNegative
             PROVE  Spec => []FieldInv
  OBVIOUS
<1>1. Init => FieldInv
  BY FieldAssumption, FieldStarts
<1>2. FieldInv /\ [Next]_vars => FieldInv'
  <2> SUFFICES ASSUME FieldInv, [Next]_vars
               PROVE  FieldInv'
    OBVIOUS
  <2>1. CASE SendByte
    BY <2>1, FieldAssumption, ByteKeeps
  <2>2. CASE SendPlain
    BY <2>2, FieldAssumption, PlainKeeps
  <2>3. CASE SendFlag
    BY <2>3, FieldAssumption, FlagKeeps
  <2>4. CASE SendWord
    BY <2>4, FieldAssumption, WordKeeps
  <2>5. CASE Bail
    BY <2>5, BailKeeps
  <2>6. CASE SendCount
    BY <2>6, FieldAssumption, CountKeeps
  <2>7. CASE SendHealth
    BY <2>7, FieldAssumption, HealthKeeps
  <2>8. CASE SendFrame
    BY <2>8, FieldAssumption, FrameKeeps
  <2>9. CASE SendModel
    BY <2>9, FieldAssumption, ModelKeeps
  <2>10. CASE SendOrigin
    BY <2>10, FieldAssumption, OriginKeeps
  <2>11. CASE UNCHANGED vars
    BY <2>11 DEF vars, FieldInv, FieldTypeOK, Ranged, MemoriesAgree, MessagesComeBack, Kept
  <2> QED  BY <2>1, <2>2, <2>3, <2>4, <2>5, <2>6, <2>7, <2>8, <2>9, <2>10, <2>11 DEF Next
<1> QED  BY <1>1, <1>2, PTL DEF Spec

(* The decoder remembers of each field what the encoder does. *)
THEOREM MemoriesAlwaysAgree == NotNegative => (Spec => []MemoriesAgree)
<1>1. FieldInv => MemoriesAgree
  BY DEF FieldInv
<1> QED  BY <1>1, FieldInvariant, PTL

(* Each message comes out as it went in, with nothing filled in, and nothing left out but *)
(* the second byte of a count that is 0 and the first byte of a frame that the baseline    *)
(* has beside a second one.                                                                *)
THEOREM MessagesAlwaysComeBack == NotNegative => (Spec => []MessagesComeBack)
<1>1. FieldInv => MessagesComeBack
  BY DEF FieldInv
<1> QED  BY <1>1, FieldInvariant, PTL

(* What both sides remember, and the messages, keep their types. *)
THEOREM FieldsTyped == NotNegative => (Spec => []FieldTypeOK)
<1>1. FieldInv => FieldTypeOK
  BY DEF FieldInv
<1> QED  BY <1>1, FieldInvariant, PTL
=============================================================================
