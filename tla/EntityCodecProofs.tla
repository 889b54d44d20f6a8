-------------------------- MODULE EntityCodecProofs --------------------------
(***************************************************************************)
(* Every demo comes back, for any number of entities, any coordinates and  *)
(* any length of the demo, and the two sides' tables stay the same.        *)
(*                                                                         *)
(* It is assumed (CleanStart) that baselines come before the first message *)
(* about an entity, as Quake's servers send them, or else that nothing of  *)
(* an earlier demo is left in the decoder's newent.                        *)
(*                                                                         *)
(* The invariant says what is in flight.  With nothing to decode, the      *)
(* tables agree, but for the run of updates that is held back (Held).  A   *)
(* message that tells a run will leave the decoder with the encoder's      *)
(* tables and give the updates back (Tells); any other message comes out   *)
(* as it went in (Waits).  So a step of the decoder has nothing to look    *)
(* up in the encoder, and a step of the encoder nothing in the decoder     *)
(* that it does not know.                                                  *)
(***************************************************************************)
EXTENDS EntityCodec, Induction, FiniteSetTheorems, SequenceTheorems, TLAPS

-----------------------------------------------------------------------------
(* Sets of entities in ascending order.                                    *)

\* A set of entities is finite, and so is its part up to an entity
LEMMA PartsFinite ==
  ASSUME NEW n \in Nat, NEW S \in SUBSET (1 .. n), NEW e
  PROVE  /\ IsFiniteSet(S) /\ Cardinality(S) \in Nat
         /\ IsFiniteSet({f \in S : f <= e}) /\ Place(S, e) \in Nat
         /\ Place(S, e) <= Cardinality(S)
<1>1. IsFiniteSet(1 .. n)
  BY FS_Interval
<1>2. IsFiniteSet(S)
  BY <1>1, FS_Subset
<1>3. {f \in S : f <= e} \in SUBSET S
  OBVIOUS
<1>4. IsFiniteSet({f \in S : f <= e}) /\ Cardinality({f \in S : f <= e}) <= Cardinality(S)
  BY <1>2, <1>3, FS_Subset
<1> QED
  BY <1>2, <1>4, FS_CardinalityType DEF Place

\* The place of a later entity is a later place
LEMMA PlacesAscend ==
  ASSUME NEW n \in Nat, NEW S \in SUBSET (1 .. n), NEW e \in S, NEW f \in S, e < f
  PROVE  Place(S, e) < Place(S, f)
<1> DEFINE E == {g \in S : g <= e}
           F == {g \in S : g <= f}
<1>0. e \in Int /\ f \in Int /\ \A g \in S : g \in Int
  OBVIOUS
<1>1. E \in SUBSET F /\ f \in F /\ f \notin E
  <2>1. \A g \in Int : g <= e => g <= f
    BY <1>0
  <2>2. f <= f /\ ~ (f <= e)
    BY <1>0
  <2> QED
    BY <1>0, <2>1, <2>2
<1>2. IsFiniteSet(F) /\ Cardinality(F) \in Nat /\ Cardinality(E) \in Nat
  BY PartsFinite DEF Place
<1>3. Cardinality(E) <= Cardinality(F) /\ (Cardinality(F) = Cardinality(E) => F = E)
  BY <1>1, <1>2, FS_Subset
<1> QED
  BY <1>1, <1>2, <1>3 DEF Place

\* No two entities of a set have the same place, and the first place is 1
LEMMA PlacesDiffer ==
  ASSUME NEW n \in Nat, NEW S \in SUBSET (1 .. n), NEW e \in S
  PROVE  /\ Place(S, e) \in 1 .. Cardinality(S)
         /\ \A f \in S : Place(S, e) = Place(S, f) => e = f
<1>1. ASSUME NEW f \in S, Place(S, e) = Place(S, f) PROVE e = f
  <2>1. e \in Int /\ f \in Int
    OBVIOUS
  <2>2. Place(S, e) \in Nat
    BY PartsFinite
  <2>3. ~ (e < f)
    <3>1. SUFFICES ASSUME e < f PROVE FALSE
      OBVIOUS
    <3>2. Place(S, e) < Place(S, f)
      BY <3>1, PlacesAscend
    <3> QED
      BY <1>1, <2>2, <3>2
  <2>4. ~ (f < e)
    <3>1. SUFFICES ASSUME f < e PROVE FALSE
      OBVIOUS
    <3>2. Place(S, f) < Place(S, e)
      BY <3>1, PlacesAscend
    <3> QED
      BY <1>1, <2>2, <3>2
  <2> QED
    BY <2>1, <2>3, <2>4
<1>2. Place(S, e) # 0
  <2>1. e \in {f \in S : f <= e} /\ IsFiniteSet({f \in S : f <= e})
    BY PartsFinite
  <2> QED
    BY <2>1, FS_EmptySet DEF Place
<1>3. Place(S, e) \in Nat /\ Cardinality(S) \in Nat /\ Place(S, e) <= Cardinality(S)
  BY PartsFinite
<1> QED
  BY <1>1, <1>2, <1>3

\* What a last entity adds: the places of the others stay
LEMMA PlaceOfLast ==
  ASSUME NEW n \in Nat, NEW S \in SUBSET (1 .. n), NEW m \in 1 .. n, \A e \in S : m > e
  PROVE  /\ Cardinality(S \cup {m}) = Cardinality(S) + 1
         /\ Place(S \cup {m}, m) = Cardinality(S) + 1
         /\ \A e \in S : Place(S \cup {m}, e) = Place(S, e)
<1>1. m \notin S
  OBVIOUS
<1>2. Cardinality(S \cup {m}) = Cardinality(S) + 1
  BY <1>1, PartsFinite, FS_AddElement
<1>3. {f \in S \cup {m} : f <= m} = S \cup {m}
  <2>1. m \in Int /\ \A e \in S : e \in Int /\ e < m
    OBVIOUS
  <2>2. m <= m /\ \A e \in S : e <= m
    BY <2>1
  <2> QED
    BY <2>2
<1>4. ASSUME NEW e \in S PROVE {f \in S \cup {m} : f <= e} = {f \in S : f <= e}
  OBVIOUS
<1> QED
  BY <1>2, <1>3, <1>4 DEF Place

\* Every place up to the number of entities is taken
LEMMA PlacesTaken ==
  ASSUME NEW n \in Nat, NEW S \in SUBSET (1 .. n), NEW k \in 1 .. Cardinality(S)
  PROVE  \E e \in S : Place(S, e) = k
<1> DEFINE Full(A) == \A i \in 1 .. Cardinality(A) : \E e \in A : Place(A, e) = i
           K == {j \in 0 .. n : \A A \in SUBSET (1 .. j) : Full(A)}
<1>1. 0 \in K
  <2>1. 1 .. 0 = {} /\ Cardinality({}) = 0
    BY FS_EmptySet
  <2>2. 1 .. Cardinality({}) = {}
    BY <2>1
  <2>3. Full({})
    BY <2>2
  <2> HIDE DEF Full
  <2>4. \A A \in SUBSET (1 .. 0) : Full(A)
    BY <2>1, <2>3
  <2>5. 0 \in 0 .. n
    OBVIOUS
  <2> QED
    BY <2>4, <2>5
<1>2. ASSUME NEW j \in 1 .. n, j - 1 \in K PROVE j \in K
  <2> SUFFICES ASSUME NEW A \in SUBSET (1 .. j) PROVE Full(A)
    OBVIOUS
  <2> DEFINE B == A \ {j}
  <2>1. B \in SUBSET (1 .. j - 1) /\ B \in SUBSET (1 .. n) /\ \A e \in B : j > e
    OBVIOUS
  <2>2. Full(B)
    BY <1>2, <2>1
  <2>3. CASE j \in A
    <3>1. A = B \cup {j}
      BY <2>3
    <3>2. /\ Cardinality(A) = Cardinality(B) + 1 /\ Place(A, j) = Cardinality(B) + 1
          /\ \A e \in B : Place(A, e) = Place(B, e)
      <4> HIDE DEF B
      <4> QED
        BY <2>1, <3>1, PlaceOfLast
    <3>3. Cardinality(B) \in Nat
      BY <2>1, PartsFinite
    <3> SUFFICES ASSUME NEW i \in 1 .. Cardinality(A) PROVE \E e \in A : Place(A, e) = i
      OBVIOUS
    <3>4. CASE i = Cardinality(B) + 1
      BY <2>3, <3>2, <3>4
    <3>5. CASE i # Cardinality(B) + 1
      <4>1. i \in 1 .. Cardinality(B)
        BY <3>2, <3>3, <3>5
      <4>2. PICK e \in B : Place(B, e) = i
        BY <2>2, <4>1
      <4> QED
        BY <3>2, <4>2
    <3> QED
      BY <3>4, <3>5
  <2>4. CASE j \notin A
    <3>1. A = B
      BY <2>4
    <3> QED
      BY <2>2, <3>1
  <2> QED
    BY <2>3, <2>4
<1> HIDE DEF K
<1>3. 0 .. n \subseteq K
  BY <1>1, <1>2, BoundedInduction
<1>4. n \in K
  BY <1>3
<1> QED
  BY <1>4 DEF K

\* Order finds for each place its entity
LEMMA OrderFacts ==
  ASSUME NEW n \in Nat, NEW S \in SUBSET (1 .. n)
  PROVE  /\ Order(S) \in Seq(S) /\ Len(Order(S)) = Cardinality(S)
         /\ DOMAIN Order(S) = 1 .. Cardinality(S)
         /\ \A k \in 1 .. Cardinality(S) : Order(S)[k] \in S /\ Place(S, Order(S)[k]) = k
         /\ \A e \in S : Place(S, e) \in 1 .. Cardinality(S) /\ Order(S)[Place(S, e)] = e
<1>1. Cardinality(S) \in Nat
  BY PartsFinite
<1>2. ASSUME NEW k \in 1 .. Cardinality(S)
      PROVE  Order(S)[k] \in S /\ Place(S, Order(S)[k]) = k
  <2>1. \E e \in S : Place(S, e) = k
    BY PlacesTaken
  <2>2. Order(S)[k] = CHOOSE e \in S : Place(S, e) = k
    BY DEF Order
  <2> QED
    BY <2>1, <2>2
<1>3. DOMAIN Order(S) = 1 .. Cardinality(S) /\ Order(S) \in [1 .. Cardinality(S) -> S]
  <2>1. DOMAIN Order(S) = 1 .. Cardinality(S)
    BY DEF Order
  <2>2. Order(S) = [k \in 1 .. Cardinality(S) |-> Order(S)[k]]
    BY DEF Order
  <2> QED
    BY <1>2, <2>1, <2>2
<1>4. Order(S) \in Seq(S) /\ Len(Order(S)) = Cardinality(S)
  BY <1>1, <1>3
<1>5. ASSUME NEW e \in S PROVE Place(S, e) \in 1 .. Cardinality(S) /\ Order(S)[Place(S, e)] = e
  <2>1. Place(S, e) \in 1 .. Cardinality(S)
    BY PlacesDiffer
  <2>2. Order(S)[Place(S, e)] \in S /\ Place(S, Order(S)[Place(S, e)]) = Place(S, e)
    BY <1>2, <2>1
  <2> QED
    BY <2>1, <2>2, PlacesDiffer
<1> QED
  BY <1>2, <1>3, <1>4, <1>5

\* An entity after all others comes last
LEMMA OrderOfLast ==
  ASSUME NEW n \in Nat, NEW S \in SUBSET (1 .. n), NEW m \in 1 .. n, \A e \in S : m > e
  PROVE  /\ Cardinality(S \cup {m}) = Cardinality(S) + 1
         /\ Order(S \cup {m})[Cardinality(S) + 1] = m
         /\ \A k \in 1 .. Cardinality(S) : Order(S \cup {m})[k] = Order(S)[k]
<1> DEFINE T == S \cup {m}
<1>1. T \in SUBSET (1 .. n)
  OBVIOUS
<1>2. /\ Cardinality(T) = Cardinality(S) + 1 /\ Place(T, m) = Cardinality(S) + 1
      /\ \A e \in S : Place(T, e) = Place(S, e)
  BY PlaceOfLast
<1>3. S \subseteq T /\ m \in T
  OBVIOUS
<1> HIDE DEF T
<1>4. \A e \in T : Order(T)[Place(T, e)] = e
  BY <1>1, OrderFacts
<1>5. \A k \in 1 .. Cardinality(S) : Order(S)[k] \in S /\ Place(S, Order(S)[k]) = k
  BY OrderFacts
<1>6. \A k \in 1 .. Cardinality(S) : Order(T)[k] = Order(S)[k]
  BY <1>2, <1>3, <1>4, <1>5
<1> QED
  BY <1>2, <1>3, <1>4, <1>6 DEF T

\* A baseline's number comes back from its distance to the last one
LEMMA NumberBack ==
  ASSUME NEW M \in Nat \ {0}, NEW a \in 0 .. M - 1, NEW s \in 0 .. M - 1
  PROVE  (s + ((a - s) % M)) % M = a
<1>1. CASE a >= s
  <2>1. a - s \in 0 .. M - 1
    BY <1>1
  <2>2. \A d \in 0 .. M - 1 : d % M = d
    OBVIOUS
  <2> QED
    BY <2>1, <2>2
<1>2. CASE a < s
  <2>1. (a - s) + M \in 0 .. M - 1
    BY <1>2
  <2>2. (a - s) % M = (a - s) + M
    BY <2>1
  <2>3. (a + M) % M = a
    OBVIOUS
  <2> QED
    BY <2>2, <2>3
<1> QED
  BY <1>1, <1>2

-----------------------------------------------------------------------------
(* Movements.                                                              *)

\* Coordinates are integers
LEMMA ShortsAreInts ==
  ASSUME NEW v \in Int16
  PROVE  v \in Int /\ -32768 <= v /\ v <= 32767
<1> DEFINE a == -32768
           b == 32767
<1>1. v \in Int16 <=> v \in a .. b
  BY SMTT(30) DEF Int16
<1>2. a \in Int /\ b \in Int
  BY SMT
<1> HIDE DEF a, b
<1>3. v \in Int /\ a <= v /\ v <= b
  BY <1>1, <1>2
<1> QED
  BY <1>3 DEF a, b

\* What is told of an entity's new coordinate gives it back, and its movement;
\* nothing need be told just if it has gone on as before
LEMMA MovementBack ==
  ASSUME NEW n \in Int16, NEW x \in Int16, NEW dx \in Int
  PROVE  /\ OriginDiff(n, [x |-> x, dx |-> dx]) = Same <=> n = x + dx
         /\ OriginDiff(n, [x |-> x, dx |-> dx]) # Same =>
              OriginPlus(OriginDiff(n, [x |-> x, dx |-> dx]), [x |-> x, dx |-> dx])
                = [x |-> n, dx |-> n - x]
<1> DEFINE o == [x |-> x, dx |-> dx]
<1>1. n \in Int /\ -32768 <= n /\ n <= 32767 /\ x \in Int
  BY ShortsAreInts
<1>2. PICK d \in Int : d = (n - x) - dx
  BY <1>1
<1>3. CASE d = 0
  <2>1. OriginDiff(n, o) = Same
    BY <1>2, <1>3 DEF OriginDiff
  <2> QED
    BY <1>1, <1>2, <1>3, <2>1
<1>4. CASE d # 0 /\ OneByte(d)
  <2>1. OriginDiff(n, o) = ByteStep(d)
    BY <1>2, <1>4 DEF OriginDiff
  <2>2. OriginPlus(ByteStep(d), o) = [x |-> x + bplus(d % 256, dx), dx |-> bplus(d % 256, dx)]
    BY DEF OriginPlus, ByteStep
  <2>3. -128 <= d /\ d <= 127
    BY <1>4, SMT DEF OneByte
  <2>4. bplus(d % 256, dx) = dx + d
    BY <2>3, SMT DEF bplus
  <2>5. dx + d = n - x /\ x + (n - x) = n
    BY <1>1, <1>2
  <2>6. ByteStep(d) # Same /\ n # x + dx
    BY <1>1, <1>2, <1>4 DEF ByteStep, Same
  <2> QED
    BY <2>1, <2>2, <2>4, <2>5, <2>6
<1>5. CASE d # 0 /\ ~ OneByte(d)
  <2>1. OriginDiff(n, o) = Whole(n)
    BY <1>2, <1>5 DEF OriginDiff
  <2>2. OriginPlus(Whole(n), o) = [x |-> Short(n % 65536), dx |-> Short(n % 65536) - x]
    BY DEF OriginPlus, Whole
  <2>3. Short(n % 65536) = n
    BY <1>1, SMT DEF Short
  <2>4. Whole(n) # Same /\ n # x + dx
    BY <1>1, <1>2, <1>5 DEF Whole, Same
  <2> QED
    BY <2>1, <2>2, <2>3, <2>4
<1> QED
  BY <1>3, <1>4, <1>5

-----------------------------------------------------------------------------
(* The inductive invariant.                                                *)

\* the decoder's sets and tables while and after it reads D
LinkedBy(D) == dLinked \cup D.woken
ActivesBy(D) == {e \in LinkedBy(D) : dNew[e].active \/ e \in D.woken}
RecordBy(D, e) == D.records[Place(ActivesBy(D), e)]
GoneBy(D) == {e \in ActivesBy(D) : RecordBy(D, e).t = "gone"}

\* what it makes of an entity that stays
ReadBy(D, e) ==
  LET n == Moved(dNew[e])
      r == RecordBy(D, e)
  IN [IF e \notin ActivesBy(D) THEN n
      ELSE IF r.t = "rest" THEN [n EXCEPT !.active = FALSE] ELSE Changed(e, r)
        EXCEPT !.force = (dNew[e].force # (e \in D.flips))]

\* read by the decoder, D leaves L linked and makes both of its tables T
Tells(D, L, T) ==
  /\ D.t = "diff" /\ Len(D.records) = Cardinality(ActivesBy(D))
  /\ D.woken \subseteq Ents
  /\ L = LinkedBy(D) \ GoneBy(D)
  /\ T \in [Ents -> EntType]
  /\ \A e \in Ents \ LinkedBy(D) : T[e] = dNew[e] /\ T[e] = dOld[e]
  /\ \A e \in GoneBy(D) : T[e] = dBase[e] /\ e \notin D.flips /\ ~ T[e].force
  /\ \A e \in L : T[e] = ReadBy(D, e)
  /\ \A e \in L \cap ActivesBy(D) : RecordBy(D, e).t \in {"rest", "change"}

\* the updates for the entities of L, as they are in T
Restoreds(L, T) == [k \in 1 .. Cardinality(L) |-> Restored(T[Order(L)[k]], Order(L)[k])]

\* the last message of the stream tells rest, once both of the decoder's tables are T
Waits(m, T, rest) ==
  \/ /\ m.t \in {"update", "sound", "serverinfo"}
     /\ rest = <<IF m.t = "sound" THEN [t |-> "sound", e |-> m.e, x |-> m.d + eOld[m.e].x] ELSE m>>
     /\ m.t = "sound" => begun /\ m.e \in Ents
     /\ dBase = eBase /\ dCopy = eCopy /\ eSble = IF m.t = "serverinfo" THEN 0 ELSE dSble
     /\ begun => T = eOld
  \/ /\ m.t = "baseline"
     /\ \E b \in Baselines :
          /\ rest = <<b>> /\ m.x = b.x /\ b.second = (m.second /\ ~m.large)
          /\ b.e = IF m.second THEN m.n ELSE NearNumber(m.n)
          /\ eSble = IF m.second THEN dSble ELSE b.e
          /\ eBase = [dBase EXCEPT ![b.e] = [Zero EXCEPT !.x = b.x]]
     /\ eCopy = TRUE /\ (begun => T = eOld)
  \/ /\ m.t = "end" /\ rest = << >>
     /\ dBase = eBase /\ dSble = eSble /\ eCopy = FALSE
     /\ IF dCopy THEN begun /\ eOld = eBase ELSE begun => T = eOld

\* nothing is held back
Quiet == TablesAgree /\ todo = << >>

\* a run of updates is held back: the decoder knows of those that were linked before
Held ==
  /\ begun
  /\ dBase = eBase /\ dSble = eSble /\ dCopy = eCopy /\ dNew = eOld /\ dOld = eOld
  /\ eLinked = dLinked \cup present /\ wasPresent \subseteq dLinked
  /\ \A e \in present : eNew[e].dx = eNew[e].x - eOld[e].x /\ ~eNew[e].active
  /\ todo = Restoreds(present, eNew)

\* one message is to be decoded
OneLeft ==
  /\ Len(stream) = 1 /\ stream = <<stream[1]>>
  /\ begun => dOld = dNew \/ (stream[1].t = "end" /\ dCopy)
  /\ Waits(stream[1], dNew, todo)
  /\ dLinked = eLinked

\* two are, of which the first tells the updates that were held back
DiffLeft ==
  /\ begun
  /\ \E D, m, T, rest :
       /\ stream = <<D, m>> /\ Tells(D, eLinked, T) /\ Waits(m, T, rest)
       /\ todo = Restoreds(eLinked, T) \o rest

Phases ==
  /\ stream = << >> => IF frame = 1 THEN Held ELSE Quiet
  /\ stream # << >> => frame # 1 /\ (OneLeft \/ DiffLeft)

Linking ==
  /\ frame # 1 => present = {} /\ wasPresent \subseteq eLinked
  /\ ~begun => frame = 0

Typed ==
  /\ eBase \in [Ents -> EntType] /\ eOld \in [Ents -> EntType] /\ eNew \in [present -> EntType]
  /\ dBase \in [Ents -> EntType] /\ dOld \in [Ents -> EntType] /\ dNew \in [Ents -> EntType]
  /\ \A e \in Ents : ~ eBase[e].force
  /\ EntityTypeOK

EntityInv == Typed /\ Linking /\ Phases /\ DemoComesBack

-----------------------------------------------------------------------------
(* The message that ends a run.                                            *)

\* oldent once the run has ended
After == [e \in Ents |-> OldAfter(e)]

\* The decoder has the encoder's links again, and finds for each entity its record
LEMMA RecordsFound ==
  ASSUME EntityInv, Held, NEW D, D = DiffMessage
  PROVE  /\ LinkedBy(D) = eLinked /\ ActivesBy(D) = eLinked \ Silent
         /\ Len(D.records) = Cardinality(ActivesBy(D))
         /\ \A e \in ActivesBy(D) : RecordBy(D, e) = Record(e)
         /\ GoneBy(D) = Gone /\ present = eLinked \ Gone
<1> DEFINE R == eLinked \ Silent
<1>1. /\ D.t = "diff" /\ D.woken = Woken
      /\ D.records = [k \in DOMAIN Order(R) |-> Record(Order(R)[k])]
  BY DEF DiffMessage
<1>2. /\ present \subseteq eLinked /\ eLinked \subseteq Ents
      /\ dLinked \subseteq eLinked /\ wasPresent \subseteq dLinked
      /\ eLinked = dLinked \cup present /\ dNew = eOld
  BY DEF EntityInv, Typed, EntityTypeOK, Held
<1>3. LinkedBy(D) = eLinked
  <2>1. \A e \in eLinked \ dLinked : e \in Woken
    BY <1>2 DEF Woken
  <2> QED
    BY <1>1, <1>2, <2>1 DEF LinkedBy, Woken
<1>4. ActivesBy(D) = R
  <2>1. ASSUME NEW e \in eLinked
        PROVE  (eOld[e].active \/ e \in Woken) <=> e \notin Silent
    BY <1>2 DEF Woken, Silent
  <2> QED
    BY <1>1, <1>2, <1>3, <2>1 DEF ActivesBy
<1>5. /\ Len(Order(R)) = Cardinality(R) /\ DOMAIN Order(R) = 1 .. Cardinality(R)
      /\ \A e \in R : Place(R, e) \in 1 .. Cardinality(R) /\ Order(R)[Place(R, e)] = e
      /\ Cardinality(R) \in Nat
  <2>1. MaxEnt \in Nat /\ R \in SUBSET (1 .. MaxEnt)
    BY <1>2, EntityAssumption DEF Ents
  <2> HIDE DEF R
  <2> QED
    BY <2>1, OrderFacts, PartsFinite
<1> HIDE DEF R
<1>6. Len(D.records) = Cardinality(ActivesBy(D))
  BY <1>1, <1>4, <1>5
<1>7. \A e \in ActivesBy(D) : RecordBy(D, e) = Record(e)
  BY <1>1, <1>4, <1>5 DEF RecordBy
<1>8. GoneBy(D) = Gone /\ present = eLinked \ Gone
  <2>1. \A e : Record(e).t = "gone" <=> e \in Gone
    BY DEF Record
  <2>2. Gone \subseteq R
    BY <1>2 DEF R, Gone, Silent
  <2>3. GoneBy(D) = Gone
    BY <1>4, <1>7, <2>1, <2>2 DEF GoneBy
  <2> QED
    BY <1>2, <2>3 DEF Gone
<1> QED
  BY <1>3, <1>4, <1>6, <1>7, <1>8 DEF R

\* What the decoder makes of an entity that is present is what the encoder keeps of it
LEMMA EntityTold ==
  ASSUME EntityInv, Held, NEW D, D = DiffMessage, NEW e \in present
  PROVE  Told(e) = ReadBy(D, e)
<1> DEFINE n == Moved(dNew[e])
           r == RecordBy(D, e)
           A == ActivesBy(D)
<1>1. PICK o \in EntType : o = eOld[e] /\ o = dNew[e] /\ o = dOld[e]
  BY DEF EntityInv, Typed, EntityTypeOK, Held
<1>2. PICK p \in EntType : p = eNew[e] /\ p.dx = p.x - o.x /\ p.active = FALSE
  BY <1>1 DEF EntityInv, Typed, Held, EntType
<1>3. /\ o = [x |-> o.x, dx |-> o.dx, active |-> o.active, force |-> o.force]
      /\ p = [x |-> p.x, dx |-> p.dx, active |-> FALSE, force |-> p.force]
      /\ o.x \in Int16 /\ o.dx \in Int /\ p.x \in Int16
      /\ o.active \in BOOLEAN /\ o.force \in BOOLEAN /\ p.force \in BOOLEAN
  BY <1>2 DEF EntType
<1>4. Change(e) = OriginDiff(p.x, [x |-> o.x, dx |-> o.dx])
  BY <1>1, <1>2 DEF Change
<1>5. /\ Rests(e) <=> p.x = o.x + o.dx
      /\ ~Rests(e) => OriginPlus(Change(e), [x |-> o.x, dx |-> o.dx]) = [x |-> p.x, dx |-> p.x - o.x]
  BY <1>3, <1>4, MovementBack DEF Rests
<1>6. o.x \in Int /\ p.x \in Int
  BY <1>3, ShortsAreInts
<1>7. n = [x |-> o.x + o.dx, dx |-> o.dx, active |-> o.active, force |-> o.force]
  BY <1>1, <1>3 DEF Moved
<1>8. (dNew[e].force # (e \in D.flips)) = p.force
  <2>1. D.flips = {f \in present : eOld[f].force # eNew[f].force}
    BY DEF DiffMessage
  <2>2. e \in D.flips <=> o.force # p.force
    BY <1>1, <1>2, <2>1
  <2> QED
    BY <1>1, <1>3, <2>2
<1>9. Told(e) = [x |-> p.x, dx |-> p.dx, active |-> ~Rests(e), force |-> p.force]
  BY <1>2, <1>3 DEF Told
<1>10. A = eLinked \ Silent /\ e \in eLinked /\ e \notin Gone /\ \A f \in A : RecordBy(D, f) = Record(f)
  BY RecordsFound DEF EntityInv, Typed, EntityTypeOK, Gone
<1>0. ReadBy(D, e) = [IF e \notin A THEN n
                      ELSE IF r.t = "rest" THEN [n EXCEPT !.active = FALSE] ELSE Changed(e, r)
                        EXCEPT !.force = p.force]
  BY <1>8 DEF ReadBy
<1>11. CASE Rests(e)
  <2>1. p.x = o.x + o.dx /\ p.dx = o.dx
    BY <1>2, <1>3, <1>5, <1>6, <1>11
  <2>2. Told(e) = [x |-> o.x + o.dx, dx |-> o.dx, active |-> FALSE, force |-> p.force]
    BY <1>9, <1>11, <2>1
  <2>3. CASE e \in A
    <3>1. r.t = "rest"
      BY <1>10, <1>11, <2>3 DEF Record
    <3> HIDE DEF n, r, A
    <3> QED
      BY <1>0, <1>7, <2>2, <2>3, <3>1
  <2>4. CASE e \notin A
    <3>1. o.active = FALSE
      BY <1>1, <1>3, <1>10, <2>4 DEF Silent
    <3> HIDE DEF n, r, A
    <3> QED
      BY <1>0, <1>7, <2>2, <2>4, <3>1
  <2> QED
    BY <2>3, <2>4
<1>12. CASE ~Rests(e)
  <2>1. e \in A
    BY <1>10, <1>12 DEF Silent
  <2>2. r = [t |-> "change", x |-> Change(e)] /\ Change(e) # Same
    BY <1>10, <1>12, <2>1 DEF Record, Rests
  <2>3. Changed(e, r) = [x |-> p.x, dx |-> p.dx, active |-> TRUE, force |-> o.force]
    <3>1. OriginPlus(r.x, [x |-> dOld[e].x, dx |-> dOld[e].dx]) = [x |-> p.x, dx |-> p.x - o.x]
      BY <1>1, <1>5, <1>12, <2>2
    <3>2. r.x # Same
      BY <2>2
    <3>3. Changed(e, r) = [n EXCEPT !.active = TRUE, !.x = p.x, !.dx = p.x - o.x]
      <4> DEFINE told == OriginPlus(r.x, [x |-> dOld[e].x, dx |-> dOld[e].dx])
      <4>1. Changed(e, r) = [n EXCEPT !.active = TRUE,
                               !.x = IF r.x = Same THEN n.x ELSE told.x,
                               !.dx = IF r.x = Same THEN n.dx ELSE told.dx]
        BY DEF Changed
      <4>2. told.x = p.x /\ told.dx = p.x - o.x
        BY <3>1
      <4> HIDE DEF told, n, r
      <4> QED
        BY <3>2, <4>1, <4>2
    <3> HIDE DEF n, r
    <3> QED
      BY <1>2, <1>7, <3>3
  <2>4. r.t = "change"
    BY <2>2
  <2>5. Told(e) = [x |-> p.x, dx |-> p.dx, active |-> TRUE, force |-> p.force]
    BY <1>9, <1>12
  <2>6. ReadBy(D, e) = [Changed(e, r) EXCEPT !.force = p.force]
    <3> HIDE DEF n, r, A
    <3> QED
      BY <1>0, <2>1, <2>4
  <2>7. ReadBy(D, e) = [x |-> p.x, dx |-> p.dx, active |-> TRUE, force |-> p.force]
    <3> DEFINE c == [x |-> p.x, dx |-> p.dx, active |-> TRUE, force |-> o.force]
    <3>1. ReadBy(D, e) = [c EXCEPT !.force = p.force]
      BY <2>3, <2>6
    <3>2. \A q, s, t, u, v : [[x |-> q, dx |-> s, active |-> t, force |-> u] EXCEPT !.force = v]
                            = [x |-> q, dx |-> s, active |-> t, force |-> v]
      OBVIOUS
    <3> QED
      BY <3>1, <3>2, Zenon
  <2> QED
    BY <2>5, <2>7
<1> QED
  BY <1>11, <1>12

\* So the message tells the decoder what the encoder keeps, and gives the updates back
LEMMA HeldTells ==
  ASSUME EntityInv, Held, frame = 1, NEW D, D = DiffMessage
  PROVE  /\ Tells(D, present, After) /\ todo = Restoreds(present, After)
         /\ present \subseteq Ents /\ After \in [Ents -> EntType]
<1>1. /\ LinkedBy(D) = eLinked /\ ActivesBy(D) = eLinked \ Silent
      /\ Len(D.records) = Cardinality(ActivesBy(D))
      /\ \A e \in ActivesBy(D) : RecordBy(D, e) = Record(e)
      /\ GoneBy(D) = Gone /\ present = eLinked \ Gone
  BY RecordsFound
<1>2. \A e \in present : Told(e) = ReadBy(D, e)
  BY EntityTold
<1>3. /\ present \subseteq eLinked /\ eLinked \subseteq Ents
      /\ dNew = eOld /\ dOld = eOld /\ dBase = eBase
      /\ eOld \in [Ents -> EntType] /\ eBase \in [Ents -> EntType] /\ eNew \in [present -> EntType]
      /\ \A e \in Ents : ~ eBase[e].force
  BY DEF EntityInv, Typed, EntityTypeOK, Held
<1>0. frame = 1
  OBVIOUS
<1>4. /\ \A e \in Ents \ eLinked : After[e] = eOld[e]
      /\ \A e \in Gone : After[e] = eBase[e]
      /\ \A e \in present : After[e] = Told(e)
  BY <1>0, <1>3 DEF After, OldAfter, Told, Gone
<1>5. After \in [Ents -> EntType]
  <2>1. ASSUME NEW e \in present PROVE Told(e) \in EntType
    <3>1. eNew[e] \in EntType
      BY <1>3
    <3>2. Told(e) = [eNew[e] EXCEPT !.active = ~Rests(e)]
      BY DEF Told
    <3>3. (~Rests(e)) \in BOOLEAN
      BY DEF Rests
    <3> HIDE DEF EntType
    <3> QED
      BY <3>1, <3>2, <3>3 DEF EntType
  <2>2. After = [e \in Ents |-> After[e]]
    BY DEF After
  <2>3. \A e \in Ents : After[e] \in EntType
    <3>1. \A e \in Ents : e \in Ents \ eLinked \/ e \in Gone \/ e \in present
      BY <1>3 DEF Gone
    <3> QED
      BY <1>1, <1>3, <1>4, <2>1, <3>1
  <2> QED
    BY <2>2, <2>3
<1>6. Tells(D, present, After)
  <2>1. D.t = "diff" /\ D.woken \subseteq Ents
    BY <1>3 DEF DiffMessage, Woken
  <2>2. \A e \in Gone : e \notin D.flips
    BY DEF DiffMessage, Gone
  <2>3. \A e \in present \cap ActivesBy(D) : RecordBy(D, e).t \in {"rest", "change"}
    BY <1>1 DEF Record
  <2>4. Gone \subseteq Ents
    BY <1>3 DEF Gone
  <2> HIDE DEF After
  <2> QED
    BY <1>1, <1>2, <1>3, <1>4, <1>5, <2>1, <2>2, <2>3, <2>4 DEF Tells
<1>7. todo = Restoreds(present, After)
  <2>1. ASSUME NEW e \in present PROVE Restored(After[e], e) = Restored(eNew[e], e)
    <3>1. After[e] = [eNew[e] EXCEPT !.active = ~Rests(e)] /\ eNew[e] \in EntType
      BY <1>3, <1>4 DEF Told
    <3>2. After[e].x = eNew[e].x /\ After[e].force = eNew[e].force
      BY <3>1 DEF EntType
    <3> QED
      BY <3>2 DEF Restored
  <2>2. \A k \in 1 .. Cardinality(present) : Order(present)[k] \in present
    <3>1. MaxEnt \in Nat /\ present \in SUBSET (1 .. MaxEnt)
      BY <1>3, EntityAssumption DEF Ents
    <3> QED
      BY <3>1, OrderFacts
  <2>3. todo = Restoreds(present, eNew)
    BY DEF Held
  <2> HIDE DEF After
  <2>4. \A k \in 1 .. Cardinality(present) :
          Restored(After[Order(present)[k]], Order(present)[k])
            = Restored(eNew[Order(present)[k]], Order(present)[k])
    BY <2>1, <2>2
  <2> QED
    BY <2>3, <2>4 DEF Restoreds
<1> QED
  BY <1>3, <1>5, <1>6, <1>7

-----------------------------------------------------------------------------
(* The decoder.                                                            *)

\* What comes out, when it is what is first among what is still missing
LEMMA FirstComesOut ==
  ASSUME NEW S, NEW ms \in Seq(S), NEW rest \in Seq(S),
         same, todo = ms \o rest, ComesOut(ms)
  PROVE  same' = TRUE /\ todo' = rest
<1>1. /\ Len(ms) \in Nat /\ Len(rest) \in Nat /\ Len(todo) = Len(ms) + Len(rest)
      /\ todo \in Seq(S)
  BY ConcatProperties
<1>2. SubSeq(ms, 1, Len(ms)) = SubSeq(todo, 1, Len(ms))
  BY SubSeqOfConcat1, SubSeqFull
<1>3. IsPrefix(ms, todo)
  BY <1>1, <1>2 DEF IsPrefix
<1>4. SubSeq(todo, Len(ms) + 1, Len(todo)) = rest
  BY <1>1, SubSeqOfConcat2, SubSeqFull
<1>5. same' = (same /\ IsPrefix(ms, todo))
  BY DEF ComesOut
<1>6. todo' = rest
  BY <1>1, <1>4 DEF ComesOut
<1> QED
  BY <1>3, <1>5, <1>6, Zenon

\* The message that a run was told by gives the decoder the tables it speaks of
LEMMA DiffDecoded ==
  ASSUME EntityInv, DecodeDiff, NEW D, NEW m, NEW L, NEW T, stream = <<D, m>>, Tells(D, L, T)
  PROVE  /\ dNew' = T /\ dOld' = T /\ dLinked' = L /\ stream' = <<m>>
         /\ ComesOut(Restoreds(L, T))
         /\ UNCHANGED <<encVars, dBase, dSble, dCopy, begun>>
<1>1. Due = D /\ Tail(stream) = <<m>>
  BY DEF Due
<1>2. LinkedNow = LinkedBy(D) /\ LinkedBy(D) \subseteq Ents
  BY <1>1 DEF LinkedNow, LinkedBy, EntityInv, Typed, EntityTypeOK, Tells
<1>3. \A e \in LinkedBy(D) : ActiveNow(e) <=> e \in ActivesBy(D)
  BY <1>1 DEF ActiveNow, ActivesBy
<1>4. Actives = ActivesBy(D)
  BY <1>1, <1>2 DEF Actives, ActiveNow, ActivesBy
<1>5. \A e : RecordOf(e) = RecordBy(D, e)
  BY <1>1, <1>4 DEF RecordOf, RecordBy
<1>6. StillLinked = L /\ L = LinkedBy(D) \ GoneBy(D) /\ GoneBy(D) \subseteq LinkedBy(D)
  BY <1>2, <1>3, <1>5 DEF StillLinked, Tells, GoneBy, ActivesBy
<1>7. /\ T \in [Ents -> EntType] /\ dNew \in [Ents -> EntType] /\ dBase \in [Ents -> EntType]
      /\ \A e \in Ents \ LinkedBy(D) : T[e] = dNew[e] /\ T[e] = dOld[e]
      /\ \A e \in GoneBy(D) : T[e] = dBase[e] /\ e \notin D.flips /\ ~ T[e].force
      /\ \A e \in L : T[e] = ReadBy(D, e)
      /\ \A e \in L \cap ActivesBy(D) : RecordBy(D, e).t \in {"rest", "change"}
  BY DEF Tells, EntityInv, Typed
<1>8. ASSUME NEW e \in GoneBy(D) PROVE Flipped(Updated(e), e) = T[e]
  <2>1. Updated(e) = dBase[e]
    BY <1>3, <1>5, <1>6, <1>8 DEF Updated, GoneBy
  <2>2. PICK b \in EntType : b = T[e] /\ b = dBase[e] /\ b.force = FALSE
    BY <1>2, <1>6, <1>7 DEF EntType
  <2>5. (b.force # (e \in D.flips)) = FALSE
    <3>1. ~ (e \in D.flips)
      BY <1>7, <1>8
    <3>2. b.force \in BOOLEAN /\ (b.force <=> e \in D.flips)
      BY <2>2, <3>1
    <3> QED
      BY <3>2
  <2>3. Flipped(b, e) = [b EXCEPT !.force = FALSE]
    BY <1>1, <2>5 DEF Flipped
  <2>4. [b EXCEPT !.force = FALSE] = b
    BY <2>2 DEF EntType
  <2> QED
    BY <2>1, <2>2, <2>3, <2>4
<1>9. ASSUME NEW e \in L PROVE Flipped(Updated(e), e) = T[e]
  <2> DEFINE n == Moved(dNew[e])
             r == RecordBy(D, e)
             u == IF e \notin ActivesBy(D) THEN n
                  ELSE IF r.t = "rest" THEN [n EXCEPT !.active = FALSE] ELSE Changed(e, r)
  <2>1. Updated(e) = u
    <3>1. CASE e \notin ActivesBy(D)
      BY <1>3, <1>6, <3>1 DEF Updated
    <3>2. CASE e \in ActivesBy(D)
      <4>1. r.t = "rest" \/ r.t = "change"
        BY <1>7, <3>2
      <4> QED
        BY <1>3, <1>5, <1>6, <3>2, <4>1 DEF Updated
    <3> QED
      BY <3>1, <3>2
  <2>2. PICK o \in EntType : o = dNew[e]
    BY <1>2, <1>6, <1>7
  <2>3. n.force = o.force /\ DOMAIN n = {"x", "dx", "active", "force"}
    BY <2>2 DEF Moved, EntType
  <2>4. u.force = o.force
    <3>1. [n EXCEPT !.active = FALSE].force = n.force
      BY <2>3
    <3>2. Changed(e, r).force = n.force
      BY <2>3 DEF Changed
    <3> HIDE DEF n, r
    <3> QED
      BY <2>3, <3>1, <3>2
  <2>5. Flipped(u, e) = [u EXCEPT !.force = (o.force # (e \in D.flips))]
    <3> HIDE DEF u
    <3> QED
      BY <1>1, <2>4 DEF Flipped
  <2>6. ReadBy(D, e) = [u EXCEPT !.force = (o.force # (e \in D.flips))]
    BY <2>2 DEF ReadBy
  <2> HIDE DEF u
  <2> QED
    BY <1>7, <2>1, <2>5, <2>6
<1>10. dNew' = T
  <2>1. dNew' = [e \in Ents |-> IF e \in LinkedNow THEN Flipped(Updated(e), e) ELSE dNew[e]]
    BY DEF DecodeDiff
  <2>2. \A e \in Ents : (IF e \in LinkedNow THEN Flipped(Updated(e), e) ELSE dNew[e]) = T[e]
    BY <1>2, <1>6, <1>7, <1>8, <1>9
  <2> QED
    BY <1>7, <2>1, <2>2
<1>11. dOld' = T
  <2>1. dOld' = [e \in Ents |-> IF e \in StillLinked THEN dNew'[e]
                                ELSE IF e \in LinkedNow THEN dBase[e] ELSE dOld[e]]
    BY DEF DecodeDiff
  <2>2. \A e \in Ents : (IF e \in StillLinked THEN dNew'[e]
                         ELSE IF e \in LinkedNow THEN dBase[e] ELSE dOld[e]) = T[e]
    BY <1>2, <1>6, <1>7, <1>10
  <2> QED
    BY <1>7, <2>1, <2>2
<1>12. ComesOut(Restoreds(L, T))
  <2> DEFINE es == Order(StillLinked)
             ms == [k \in DOMAIN es |-> Restored(dNew'[es[k]], es[k])]
  <2>1. ComesOut(ms)
    BY DEF DecodeDiff
  <2>2. DOMAIN Order(L) = 1 .. Cardinality(L)
    BY DEF Order
  <2>3. ms = Restoreds(L, T)
    BY <1>6, <1>10, <2>2 DEF Restoreds
  <2> HIDE DEF ms
  <2> QED
    BY <2>1, <2>3
<1> QED
  BY <1>1, <1>6, <1>10, <1>11, <1>12 DEF DecodeDiff, Taken

-----------------------------------------------------------------------------
(* The encoder.                                                            *)

\* With nothing to be decoded the tables are the same, but for what a run has changed
LEMMA IdleFacts ==
  ASSUME EntityInv, stream = << >>
  PROVE  /\ dBase = eBase /\ dSble = eSble /\ dCopy = eCopy
         /\ After \in [Ents -> EntType]
         /\ frame = 1 => Held /\ begun /\ eLinked \ Gone = present
         /\ frame # 1 => /\ After = eOld /\ dLinked = eLinked /\ todo = << >> /\ present = {}
                         /\ begun => dNew = eOld /\ dOld = eOld
<1>1. CASE frame = 1
  <2>1. Held
    BY <1>1 DEF EntityInv, Phases
  <2>2. PICK D : D = DiffMessage
    OBVIOUS
  <2>3. After \in [Ents -> EntType] /\ present = eLinked \ Gone
    BY <1>1, <2>1, <2>2, HeldTells, RecordsFound
  <2> QED
    BY <1>1, <2>1, <2>3 DEF Held
<1>2. CASE frame # 1
  <2>1. Quiet /\ present = {}
    BY <1>2 DEF EntityInv, Phases, Linking
  <2>2. eOld \in [Ents -> EntType]
    BY DEF EntityInv, Typed
  <2>3. After = eOld
    BY <1>2, <2>2 DEF After, OldAfter
  <2> QED
    BY <1>2, <2>1, <2>2, <2>3 DEF Quiet, TablesAgree
<1> QED
  BY <1>1, <1>2

\* The updates of a run are a sequence
LEMMA RestoredsIsSeq ==
  ASSUME NEW L \in SUBSET Ents, NEW T
  PROVE  \E S : Restoreds(L, T) \in Seq(S)
<1>1. Cardinality(L) \in Nat
  BY EntityAssumption, PartsFinite DEF Ents
<1> DEFINE S == {Restoreds(L, T)[k] : k \in 1 .. Cardinality(L)}
<1>2. Restoreds(L, T) \in [1 .. Cardinality(L) -> S]
  BY DEF Restoreds
<1> HIDE DEF S
<1>3. Restoreds(L, T) \in Seq(S)
  BY <1>1, <1>2
<1> QED
  BY <1>3

\* and so is what is still missing
LEMMA TodoIsSeq ==
  ASSUME EntityInv, stream = << >>
  PROVE  \E S : todo \in Seq(S)
<1>1. CASE frame = 1
  <2>1. todo = Restoreds(present, eNew) /\ present \subseteq Ents
    BY <1>1, IdleFacts DEF Held, EntityInv, Typed, EntityTypeOK
  <2> QED
    BY <2>1, RestoredsIsSeq
<1>2. CASE frame # 1
  <2>1. << >> \in Seq({})
    OBVIOUS
  <2> QED
    BY <1>2, <2>1, IdleFacts
<1> QED
  BY <1>1, <1>2

\* What the decoder has read of a message does not depend on the encoder
LEMMA TellsStays ==
  ASSUME NEW D, NEW L, NEW T, Tells(D, L, T), UNCHANGED decVars
  PROVE  Tells(D, L, T)' /\ Restoreds(L, T)' = Restoreds(L, T)
<1>1. dBase' = dBase /\ dOld' = dOld /\ dNew' = dNew /\ dLinked' = dLinked
  BY DEF decVars
<1>2. Restoreds(L, T)' = Restoreds(L, T)
  BY <1>1 DEF Restoreds, Restored
<1>3. LinkedBy(D)' = LinkedBy(D) /\ ActivesBy(D)' = ActivesBy(D)
  BY <1>1 DEF LinkedBy, ActivesBy
<1>4. \A e : RecordBy(D, e)' = RecordBy(D, e)
  BY <1>3 DEF RecordBy
<1>5. GoneBy(D)' = GoneBy(D)
  BY <1>3, <1>4 DEF GoneBy
<1>6. ASSUME NEW e PROVE ReadBy(D, e)' = ReadBy(D, e)
  <2>1. RecordBy(D, e)' = RecordBy(D, e) /\ dNew' = dNew /\ dOld' = dOld
    BY <1>1, <1>4
  <2>2. (e \in ActivesBy(D))' <=> e \in ActivesBy(D)
    BY <1>3
  <2> QED
    BY <2>1, <2>2 DEF ReadBy, Changed
<1>7. Tells(D, L, T)'
  BY <1>1, <1>3, <1>4, <1>5, <1>6 DEF Tells
<1> QED
  BY <1>2, <1>7

\* the run, if there is one, is told, and m after it
Tell(m) ==
  /\ stream' = IF frame = 1 THEN <<DiffMessage, m>> ELSE <<m>>
  /\ eLinked' = IF frame = 1 THEN eLinked \ Gone ELSE eLinked
  /\ frame' # 1 /\ UNCHANGED decVars

\* A message that ends the run, and tells what remains missing, keeps the phases right
LEMMA RunIsTold ==
  ASSUME EntityInv, stream = << >>, NEW m, NEW S, NEW rest \in Seq(S),
         Tell(m), todo' = todo \o rest,
         begun' => begun \/ (m.t = "end" /\ dCopy),
         begun => begun',
         \A T : (begun => T = After) => Waits(m, T, rest)'
  PROVE  Phases'
<1>1. /\ stream' # << >> /\ frame' # 1
      /\ dNew' = dNew /\ dOld' = dOld /\ dLinked' = dLinked /\ dCopy' = dCopy
  BY DEF Tell, decVars
<1>2. CASE frame = 1
  <2>1. Held /\ begun /\ eLinked \ Gone = present
    BY <1>2, IdleFacts
  <2>2. PICK D : D = DiffMessage
    OBVIOUS
  <2>3. Tells(D, present, After) /\ todo = Restoreds(present, After)
    BY <1>2, <2>1, <2>2, HeldTells
  <2>4. PICK T : T = After
    OBVIOUS
  <2>5. PICK L : L = present
    OBVIOUS
  <2>6. Tells(D, L, T) /\ todo = Restoreds(L, T)
    BY <2>3, <2>4, <2>5
  <2>7. Tells(D, L, T)' /\ Restoreds(L, T)' = Restoreds(L, T)
    BY <2>6, TellsStays DEF Tell
  <2>8. eLinked' = L /\ stream' = <<D, m>>
    BY <1>2, <2>1, <2>2, <2>5 DEF Tell
  <2>9. Waits(m, T, rest)'
    BY <2>4
  <2>10. (todo = Restoreds(eLinked, T) \o rest)'
    <3>1. Restoreds(eLinked, T)' = Restoreds(L, T)'
      BY <2>8 DEF Restoreds
    <3> QED
      BY <2>6, <2>7, <3>1
  <2>11. DiffLeft'
    BY <2>1, <2>7, <2>8, <2>9, <2>10 DEF DiffLeft
  <2> QED
    BY <1>1, <2>11 DEF Phases
<1>3. CASE frame # 1
  <2>1. dLinked = eLinked /\ todo = << >> /\ After = eOld /\ (begun => dNew = eOld /\ dOld = eOld)
    BY <1>3, IdleFacts
  <2>2. stream' = <<m>> /\ eLinked' = eLinked /\ todo' = rest
    BY <1>3, <2>1 DEF Tell
  <2>3. PICK T : T = dNew
    OBVIOUS
  <2>4. Waits(m, T, rest)'
    BY <2>1, <2>3
  <2>5. Waits(stream[1], dNew, todo)'
    BY <1>1, <2>2, <2>3, <2>4
  <2>6. OneLeft'
    BY <1>1, <2>1, <2>2, <2>5 DEF OneLeft
  <2> QED
    BY <1>1, <2>6 DEF Phases
<1> QED
  BY <1>2, <1>3

\* The tables have their types if they are functions into EntType
LEMMA TypesOfTables ==
  ASSUME eBase' \in [Ents -> EntType], eOld' \in [Ents -> EntType],
         eNew' \in [DOMAIN eNew' -> EntType], DOMAIN eNew' \subseteq eLinked',
         dBase' \in [Ents -> EntType], dOld' \in [Ents -> EntType], dNew' \in [Ents -> EntType],
         \A e \in Ents : ~ eBase'[e].force,
         eLinked' \subseteq Ents, dLinked' \subseteq Ents, wasPresent' \subseteq Ents,
         frame' \in 0 .. 2, eSble' \in 0 .. MaxOld - 1, dSble' \in 0 .. MaxOld - 1,
         eCopy' \in BOOLEAN, dCopy' \in BOOLEAN, same' \in BOOLEAN, begun' \in BOOLEAN
  PROVE  Typed'
<1>1. EntityTypeOK'
  BY DEF EntityTypeOK, present
<1> QED
  BY <1>1 DEF Typed, present

\* What is true of the types before a step
LEMMA TypesBefore ==
  ASSUME EntityInv
  PROVE  /\ eBase \in [Ents -> EntType] /\ eOld \in [Ents -> EntType]
         /\ eNew \in [DOMAIN eNew -> EntType] /\ DOMAIN eNew \subseteq eLinked
         /\ dBase \in [Ents -> EntType] /\ dOld \in [Ents -> EntType] /\ dNew \in [Ents -> EntType]
         /\ \A e \in Ents : ~ eBase[e].force
         /\ eLinked \subseteq Ents /\ dLinked \subseteq Ents /\ wasPresent \subseteq Ents
         /\ frame \in 0 .. 2 /\ eSble \in 0 .. MaxOld - 1 /\ dSble \in 0 .. MaxOld - 1
         /\ eCopy \in BOOLEAN /\ dCopy \in BOOLEAN /\ same = TRUE /\ begun \in BOOLEAN
<1>1. Typed /\ EntityTypeOK
  BY DEF EntityInv, Typed
<1>2. eBase \in [Ents -> EntType] /\ eOld \in [Ents -> EntType]
      /\ eNew \in [DOMAIN eNew -> EntType] /\ DOMAIN eNew \subseteq eLinked
      /\ dBase \in [Ents -> EntType] /\ dOld \in [Ents -> EntType] /\ dNew \in [Ents -> EntType]
      /\ \A e \in Ents : ~ eBase[e].force
  BY <1>1 DEF Typed, EntityTypeOK, present
<1>3. /\ eLinked \subseteq Ents /\ dLinked \subseteq Ents /\ wasPresent \subseteq Ents
      /\ frame \in 0 .. 2 /\ eSble \in 0 .. MaxOld - 1 /\ dSble \in 0 .. MaxOld - 1
      /\ eCopy \in BOOLEAN /\ dCopy \in BOOLEAN /\ same \in BOOLEAN /\ begun \in BOOLEAN
  BY <1>1 DEF EntityTypeOK
<1>4. same = TRUE
  BY <1>3 DEF EntityInv, DemoComesBack
<1> QED
  BY <1>2, <1>3, <1>4

\* the run ends, or there is none, and m is told
Ends(m) ==
  \/ frame = 1 /\ Diffed /\ stream' = <<DiffMessage, m>>
  \/ frame # 1 /\ stream' = <<m>> /\ UNCHANGED <<eOld, wasPresent, eNew, eLinked, frame>>

\* That leaves the encoder with what it has told, and nothing held back
LEMMA RunEnds ==
  ASSUME EntityInv, stream = << >>, NEW m, Ends(m), UNCHANGED decVars, begun' = begun
  PROVE  /\ Tell(m) /\ eOld' = After /\ Linking'
         /\ DOMAIN eNew' = {} /\ eNew' \in [DOMAIN eNew' -> EntType]
         /\ frame' \in 0 .. 2 /\ eLinked' \subseteq Ents /\ wasPresent' \subseteq Ents
<1>1. CASE frame = 1
  <2>1. Diffed /\ stream' = <<DiffMessage, m>>
    BY <1>1 DEF Ends
  <2>2. eLinked' = eLinked \ Gone /\ wasPresent' = present /\ frame' = 2 /\ eNew' = << >>
    BY <2>1 DEF Diffed
  <2>3. eOld' = After
    BY <1>1, <2>1 DEF Diffed, After, OldAfter
  <2>4. eLinked \ Gone = present /\ begun
    BY <1>1, IdleFacts
  <2>5. DOMAIN << >> = {} /\ << >> \in [{} -> EntType]
    OBVIOUS
  <2>6. Tell(m)
    BY <1>1, <2>1, <2>2 DEF Tell
  <2>7. Linking'
    BY <2>2, <2>4, <2>5 DEF Linking, present
  <2>8. eLinked \subseteq Ents /\ present \subseteq eLinked
    BY TypesBefore DEF present
  <2> QED
    BY <2>2, <2>3, <2>4, <2>5, <2>6, <2>7, <2>8
<1>2. CASE frame # 1
  <2>1. stream' = <<m>> /\ UNCHANGED <<eOld, wasPresent, eNew, eLinked, frame>>
    BY <1>2 DEF Ends
  <2>2. After = eOld /\ present = {}
    BY <1>2, IdleFacts
  <2>3. Tell(m)
    BY <1>2, <2>1 DEF Tell
  <2>4. Linking'
    BY <2>1 DEF Linking, present, EntityInv
  <2> QED
    BY <2>1, <2>2, <2>3, <2>4, TypesBefore DEF present
<1> QED
  BY <1>1, <1>2

\* Sound keeps the invariant
LEMMA SoundKeeps ==
  ASSUME EntityInv, NEW m \in Sounds, Sound(m)
  PROVE  EntityInv'
<1>0. PICK c : c = [t |-> "sound", e |-> m.e, d |-> m.x - OldAfter(m.e).x]
  OBVIOUS
<1>1. /\ stream = << >> /\ begun /\ Flush(c) /\ todo' = Append(todo, m)
      /\ UNCHANGED <<eBase, eSble, eCopy, decVars, same, begun>>
  BY <1>0 DEF Sound
<1>2. Ends(c)
  BY <1>1 DEF Flush, Ends
<1>3. /\ Tell(c) /\ eOld' = After /\ Linking'
      /\ DOMAIN eNew' = {} /\ eNew' \in [DOMAIN eNew' -> EntType]
      /\ frame' \in 0 .. 2 /\ eLinked' \subseteq Ents /\ wasPresent' \subseteq Ents
  BY <1>1, <1>2, RunEnds
<1>4. /\ dBase = eBase /\ dSble = eSble /\ dCopy = eCopy /\ After \in [Ents -> EntType]
  BY <1>1, IdleFacts
<1>5. Typed'
  BY <1>1, <1>3, <1>4, TypesBefore, TypesOfTables DEF decVars
<1>6. m.e \in Ents /\ m.x \in Int /\ m = [t |-> "sound", e |-> m.e, x |-> m.x]
  BY ShortsAreInts, EntityAssumption DEF Sounds
<1>7. OldAfter(m.e) = After[m.e] /\ After[m.e].x \in Int
  BY <1>4, <1>6, ShortsAreInts DEF After, EntType
<1>8. ASSUME NEW T, begun => T = After PROVE Waits(c, T, <<m>>)'
  <2>1. c.d + After[m.e].x = m.x
    BY <1>0, <1>6, <1>7
  <2>2. <<m>> = <<[t |-> "sound", e |-> c.e, x |-> c.d + eOld'[c.e].x]>>
    BY <1>0, <1>3, <1>6, <2>1
  <2>3. c.t = "sound" /\ c.e = m.e
    BY <1>0
  <2>4. /\ begun' /\ m.e \in Ents /\ T = eOld'
        /\ dBase' = eBase' /\ dCopy' = eCopy' /\ eSble' = dSble'
    BY <1>1, <1>3, <1>4, <1>6, <1>8 DEF decVars
  <2> QED
    BY <2>2, <2>3, <2>4 DEF Waits
<1>9. Phases'
  <2>1. <<m>> \in Seq({m})
    OBVIOUS
  <2>2. todo' = todo \o <<m>>
    BY <1>1
  <2>3. c.t # "end"
    BY <1>0
  <2> QED
    BY <1>1, <1>3, <1>8, <2>1, <2>2, <2>3, RunIsTold
<1> QED
  BY <1>1, <1>3, <1>5, <1>9 DEF EntityInv, DemoComesBack

\* UpdateCopied keeps the invariant
LEMMA CopiedKeeps ==
  ASSUME EntityInv, NEW m \in Updates, UpdateCopied(m)
  PROVE  EntityInv'
<1>1. /\ stream = << >> /\ begun /\ todo' = Append(todo, m)
      /\ UNCHANGED <<eBase, eSble, eCopy, decVars, same, begun>>
  BY DEF UpdateCopied
<1>2. Ends(m)
  BY DEF UpdateCopied, Ends
<1>3. /\ Tell(m) /\ eOld' = After /\ Linking'
      /\ DOMAIN eNew' = {} /\ eNew' \in [DOMAIN eNew' -> EntType]
      /\ frame' \in 0 .. 2 /\ eLinked' \subseteq Ents /\ wasPresent' \subseteq Ents
  BY <1>1, <1>2, RunEnds
<1>4. /\ dBase = eBase /\ dSble = eSble /\ dCopy = eCopy /\ After \in [Ents -> EntType]
  BY <1>1, IdleFacts
<1>5. Typed'
  BY <1>1, <1>3, <1>4, TypesBefore, TypesOfTables DEF decVars
<1>6. m.t = "update"
  BY DEF Updates
<1>7. ASSUME NEW T, begun => T = After PROVE Waits(m, T, <<m>>)'
  <2>1. /\ begun' /\ T = eOld'
        /\ dBase' = eBase' /\ dCopy' = eCopy' /\ eSble' = dSble'
    BY <1>1, <1>3, <1>4, <1>7 DEF decVars
  <2> QED
    BY <1>6, <2>1 DEF Waits
<1>8. Phases'
  <2>1. <<m>> \in Seq({m})
    OBVIOUS
  <2>2. todo' = todo \o <<m>>
    BY <1>1
  <2> QED
    BY <1>1, <1>3, <1>6, <1>7, <2>1, <2>2, RunIsTold
<1> QED
  BY <1>1, <1>3, <1>5, <1>8 DEF EntityInv, DemoComesBack

\* ServerInfo keeps the invariant
LEMMA ServerInfoKeeps ==
  ASSUME EntityInv, ServerInfo
  PROVE  EntityInv'
<1>0. PICK m : m = [t |-> "serverinfo"]
  OBVIOUS
<1>1. /\ stream = << >> /\ Flush(m) /\ todo' = Append(todo, m) /\ eSble' = 0
      /\ UNCHANGED <<eBase, eCopy, decVars, same, begun>>
  BY <1>0 DEF ServerInfo
<1>2. Ends(m)
  BY <1>1 DEF Flush, Ends
<1>3. /\ Tell(m) /\ eOld' = After /\ Linking'
      /\ DOMAIN eNew' = {} /\ eNew' \in [DOMAIN eNew' -> EntType]
      /\ frame' \in 0 .. 2 /\ eLinked' \subseteq Ents /\ wasPresent' \subseteq Ents
  BY <1>1, <1>2, RunEnds
<1>4. /\ dBase = eBase /\ dSble = eSble /\ dCopy = eCopy /\ After \in [Ents -> EntType]
  BY <1>1, IdleFacts
<1>5. Typed'
  <2>1. 0 \in 0 .. MaxOld - 1
    BY EntityAssumption
  <2> QED
    BY <1>1, <1>3, <1>4, <2>1, TypesBefore, TypesOfTables DEF decVars
<1>6. m.t = "serverinfo"
  BY <1>0
<1>7. ASSUME NEW T, begun => T = After PROVE Waits(m, T, <<m>>)'
  <2>1. /\ begun' => T = eOld'
        /\ dBase' = eBase' /\ dCopy' = eCopy' /\ eSble' = 0
    BY <1>1, <1>3, <1>4, <1>7 DEF decVars
  <2> QED
    BY <1>6, <2>1 DEF Waits
<1>8. Phases'
  <2>1. <<m>> \in Seq({m})
    OBVIOUS
  <2>2. todo' = todo \o <<m>>
    BY <1>1
  <2> QED
    BY <1>1, <1>3, <1>6, <1>7, <2>1, <2>2, RunIsTold
<1> QED
  BY <1>1, <1>3, <1>5, <1>8 DEF EntityInv, DemoComesBack

\* Baseline keeps the invariant
LEMMA BaselineKeeps ==
  ASSUME EntityInv, NEW m \in Baselines, Baseline(m)
  PROVE  EntityInv'
<1>0. PICK c : c = [t |-> "baseline", second |-> m.second \/ m.e >= MaxOld,
                    large |-> ~m.second /\ m.e >= MaxOld, n |-> BaselineNumber(m), x |-> m.x]
  OBVIOUS
<1>1. /\ stream = << >> /\ Flush(c) /\ todo' = Append(todo, m)
      /\ eBase' = [eBase EXCEPT ![m.e] = [Zero EXCEPT !.x = m.x]]
      /\ eSble' = IF m.second \/ m.e >= MaxOld THEN eSble ELSE m.e
      /\ eCopy' = TRUE
      /\ UNCHANGED <<decVars, same, begun>>
  BY <1>0 DEF Baseline
<1>2. Ends(c)
  BY <1>1 DEF Flush, Ends
<1>3. /\ Tell(c) /\ eOld' = After /\ Linking'
      /\ DOMAIN eNew' = {} /\ eNew' \in [DOMAIN eNew' -> EntType]
      /\ frame' \in 0 .. 2 /\ eLinked' \subseteq Ents /\ wasPresent' \subseteq Ents
  BY <1>1, <1>2, RunEnds
<1>4. /\ dBase = eBase /\ dSble = eSble /\ dCopy = eCopy /\ After \in [Ents -> EntType]
  BY <1>1, IdleFacts
<1>5. /\ m.e \in Ents /\ m.e \in Nat /\ m.x \in Int16 /\ m.second \in BOOLEAN
      /\ MaxOld \in Nat \ {0}
  BY EntityAssumption DEF Baselines, Ents
<1>6. eSble' \in 0 .. MaxOld - 1 /\ eSble \in 0 .. MaxOld - 1
  <2>1. eSble \in 0 .. MaxOld - 1
    BY TypesBefore
  <2> QED
    BY <1>1, <1>5, <2>1
<1>7. eBase' \in [Ents -> EntType] /\ \A e \in Ents : ~ eBase'[e].force
  <2>1. eBase \in [Ents -> EntType] /\ \A e \in Ents : ~ eBase[e].force
    BY TypesBefore
  <2>2. PICK z : z = [Zero EXCEPT !.x = m.x]
    OBVIOUS
  <2>3. z = [x |-> m.x, dx |-> 0, active |-> FALSE, force |-> FALSE]
    BY <2>2 DEF Zero
  <2>4. z \in EntType /\ ~ z.force
    BY <1>5, <2>3 DEF EntType
  <2>5. eBase' = [eBase EXCEPT ![m.e] = z]
    BY <1>1, <2>2
  <2> QED
    BY <1>5, <2>1, <2>4, <2>5
<1>8. Typed'
  BY <1>1, <1>3, <1>4, <1>6, <1>7, TypesBefore, TypesOfTables DEF decVars
<1>9. c.t = "baseline" /\ c.x = m.x
  BY <1>0
<1>10. ASSUME NEW T, begun => T = After PROVE Waits(c, T, <<m>>)'
  <2>1. m.second = (c.second /\ ~c.large)
    <3>1. c.second = (m.second \/ m.e >= MaxOld) /\ c.large = (~m.second /\ m.e >= MaxOld)
      BY <1>0
    <3> QED
      BY <1>5, <3>1
  <2>2. m.e = IF c.second THEN c.n ELSE NearNumber(c.n)
    <3>1. CASE m.second \/ m.e >= MaxOld
      <4>1. c.second /\ c.n = m.e
        BY <1>0, <3>1 DEF BaselineNumber
      <4> QED
        BY <4>1
    <3>2. CASE ~ (m.second \/ m.e >= MaxOld)
      <4>1. ~ c.second /\ c.n = (m.e - eSble) % MaxOld
        BY <1>0, <3>2 DEF BaselineNumber
      <4>2. m.e \in 0 .. MaxOld - 1
        BY <1>5, <3>2
      <4>4. (eSble + ((m.e - eSble) % MaxOld)) % MaxOld = m.e
        BY <1>5, <1>6, <4>2, NumberBack
      <4>3. NearNumber(c.n) = m.e
        <5>1. NearNumber(c.n) = (eSble + c.n) % MaxOld
          BY <1>4 DEF NearNumber
        <5>2. PICK d : d = (m.e - eSble) % MaxOld
          OBVIOUS
        <5>3. c.n = d
          BY <4>1, <5>2
        <5>4. (eSble + d) % MaxOld = m.e
          BY <1>5, <1>6, <4>4, <5>2
        <5> QED
          BY <5>1, <5>3, <5>4
      <4> QED
        BY <4>1, <4>3
    <3> QED
      BY <3>1, <3>2
  <2>3. dBase' = dBase /\ dSble' = dSble /\ NearNumber(c.n)' = NearNumber(c.n)
    BY <1>1 DEF decVars, NearNumber
  <2>4. (m.e = IF c.second THEN c.n ELSE NearNumber(c.n))'
    BY <2>2, <2>3
  <2>5. (eSble = IF c.second THEN dSble ELSE m.e)'
    <3>1. c.second <=> m.second \/ m.e >= MaxOld
      BY <1>0
    <3> QED
      BY <1>1, <1>4, <2>3, <3>1
  <2>6. (eBase = [dBase EXCEPT ![m.e] = [Zero EXCEPT !.x = m.x]])'
    BY <1>1, <1>4, <2>3
  <2>7. (eCopy = TRUE /\ (begun => T = eOld))'
    BY <1>1, <1>3, <1>10
  <2> QED
    BY <1>9, <2>1, <2>4, <2>5, <2>6, <2>7 DEF Waits
<1>11. Phases'
  <2>1. <<m>> \in Seq({m})
    OBVIOUS
  <2>2. todo' = todo \o <<m>>
    BY <1>1
  <2> QED
    BY <1>1, <1>3, <1>9, <1>10, <2>1, <2>2, RunIsTold
<1> QED
  BY <1>1, <1>3, <1>8, <1>11 DEF EntityInv, DemoComesBack

\* EndBlock keeps the invariant
LEMMA EndBlockKeeps ==
  ASSUME EntityInv, EndBlock
  PROVE  EntityInv'
<1>0. PICK m : m = [t |-> "end"]
  OBVIOUS
<1>1. /\ stream = << >>
      /\ eOld' = IF eCopy THEN eBase ELSE After
      /\ wasPresent' = IF eCopy THEN {} ELSE IF frame = 1 THEN present ELSE wasPresent
      /\ eNew' = << >> /\ frame' = 0 /\ eCopy' = FALSE
      /\ eLinked' = IF frame = 1 THEN eLinked \ Gone ELSE eLinked
      /\ stream' = IF frame = 1 THEN <<DiffMessage, m>> ELSE <<m>>
      /\ begun' = (begun \/ eCopy)
      /\ UNCHANGED <<eBase, eSble, decVars, todo, same>>
  BY <1>0 DEF EndBlock, After
<1>2. /\ dBase = eBase /\ dSble = eSble /\ dCopy = eCopy /\ After \in [Ents -> EntType]
      /\ frame = 1 => eLinked \ Gone = present
  BY <1>1, IdleFacts
<1>3. Tell(m)
  BY <1>1 DEF Tell
<1>4. DOMAIN << >> = {} /\ << >> \in [{} -> EntType]
  OBVIOUS
<1>5. Linking'
  <2>1. frame # 1 => wasPresent \subseteq eLinked
    BY DEF EntityInv, Linking
  <2> QED
    BY <1>1, <1>2, <1>4, <2>1 DEF Linking, present
<1>6. Typed'
  <2>1. present \subseteq eLinked
    BY TypesBefore DEF present
  <2>2. eBase \in [Ents -> EntType] /\ eCopy \in BOOLEAN /\ begun \in BOOLEAN
    BY TypesBefore
  <2>3. eOld' \in [Ents -> EntType] /\ begun' \in BOOLEAN
    BY <1>1, <1>2, <2>2
  <2>4. eLinked' \subseteq Ents /\ wasPresent' \subseteq Ents
    BY <1>1, <2>1, TypesBefore
  <2>5. DOMAIN eNew' = {} /\ eNew' \in [DOMAIN eNew' -> EntType]
    BY <1>1, <1>4
  <2>6. frame' \in 0 .. 2 /\ eCopy' \in BOOLEAN
    <3>1. frame' = 0 /\ eCopy' = FALSE
      BY <1>1
    <3>2. 0 \in 0 .. 2 /\ FALSE \in BOOLEAN
      OBVIOUS
    <3> QED
      BY <3>1, <3>2
  <2>7. UNCHANGED <<eBase, eSble, dBase, dOld, dNew, dLinked, dSble, dCopy, same>>
    BY <1>1 DEF decVars
  <2> QED
    BY <2>3, <2>4, <2>5, <2>6, <2>7, TypesBefore, TypesOfTables
<1>7. m.t = "end"
  BY <1>0
<1>8. ASSUME NEW T, begun => T = After PROVE Waits(m, T, << >>)'
  <2>1. /\ dBase' = eBase' /\ dSble' = eSble' /\ eCopy' = FALSE /\ dCopy' = eCopy
    BY <1>1, <1>2 DEF decVars
  <2>2. IF dCopy' THEN begun' /\ eOld' = eBase' ELSE begun' => T = eOld'
    BY <1>1, <1>8, <2>1
  <2> QED
    BY <1>7, <2>1, <2>2 DEF Waits
<1>9. Phases'
  <2>1. << >> \in Seq({m})
    OBVIOUS
  <2>2. todo' = todo \o << >>
    <3>1. \E S : todo \in Seq(S)
      BY <1>1, TodoIsSeq
    <3> QED
      BY <1>1, <3>1
  <2>3. (begun' => begun \/ (m.t = "end" /\ dCopy)) /\ (begun => begun')
    BY <1>1, <1>2, <1>7
  <2> QED
    BY <1>1, <1>3, <1>8, <2>1, <2>2, <2>3, RunIsTold
<1> QED
  BY <1>1, <1>5, <1>6, <1>9 DEF EntityInv, DemoComesBack

\* An update that is held back is told by what newent is then
LEMMA FilledComesBack ==
  ASSUME EntityInv, dBase = eBase, NEW m \in Updates
  PROVE  /\ Filled(m) \in EntType /\ Restored(Filled(m), m.e) = m
         /\ Filled(m).dx = Filled(m).x - eOld[m.e].x /\ ~ Filled(m).active
<1>1. /\ m.e \in Ents /\ m.x \in Xs \cup {None}
      /\ m = [t |-> "update", e |-> m.e, x |-> m.x]
  BY DEF Updates, Optional
<1>2. /\ eBase[m.e] \in EntType /\ eOld[m.e] \in EntType
  BY <1>1, TypesBefore
<1>3. PICK b \in Int16 : b = eBase[m.e].x
  BY <1>2 DEF EntType
<1>4. PICK o \in Int16 : o = eOld[m.e].x
  BY <1>2 DEF EntType
<1>5. PICK x : x = Given(m.x, b)
  OBVIOUS
<1>6. x \in Int16 /\ None \notin Int16
  <2>1. \A v \in Int16 : v # None
    BY ShortsAreInts, SMT DEF None
  <2> QED
    BY <1>1, <1>5, <2>1, EntityAssumption DEF Given
<1>0. PICK q \in BOOLEAN : q = (m.x = b)
  OBVIOUS
<1>7. Filled(m) = [x |-> x, dx |-> x - o, active |-> FALSE, force |-> q]
  BY <1>0, <1>3, <1>4, <1>5 DEF Filled
<1>8. x - o \in Int
  BY <1>6, ShortsAreInts
<1>9. Filled(m) \in EntType
  BY <1>6, <1>7, <1>8 DEF EntType
<1>10. /\ Filled(m).x = x /\ Filled(m).force = q /\ Filled(m).dx = x - o
       /\ Filled(m).active = FALSE
  BY <1>7
<1>11. Restored(Filled(m), m.e) = [t |-> "update", e |-> m.e, x |-> IF x # b \/ q THEN x ELSE None]
  BY <1>3, <1>10 DEF Restored
<1>12. (IF x # b \/ q THEN x ELSE None) = m.x
  BY <1>0, <1>1, <1>5, <1>6, EntityAssumption DEF Given
<1> QED
  BY <1>1, <1>4, <1>9, <1>10, <1>11, <1>12

\* Once begun, and with nothing to be decoded, there may be a run, or an empty one
LEMMA BegunHeld ==
  ASSUME EntityInv, stream = << >>, begun
  PROVE  Held
<1>1. CASE frame = 1
  BY <1>1, IdleFacts
<1>2. CASE frame # 1
  <2>1. /\ dBase = eBase /\ dSble = eSble /\ dCopy = eCopy /\ dNew = eOld /\ dOld = eOld
        /\ dLinked = eLinked /\ todo = << >> /\ present = {}
    BY <1>2, IdleFacts
  <2>2. wasPresent \subseteq eLinked
    BY <1>2 DEF EntityInv, Linking
  <2>3. Restoreds({}, eNew) = << >>
    <3>1. 1 .. Cardinality({}) = {}
      BY FS_EmptySet
    <3> QED
      BY <3>1 DEF Restoreds
  <2> QED
    BY <2>1, <2>2, <2>3 DEF Held
<1> QED
  BY <1>1, <1>2

\* Update keeps the invariant
LEMMA UpdateKeeps ==
  ASSUME EntityInv, NEW m \in Updates, Update(m)
  PROVE  EntityInv'
<1>1. /\ stream = << >> /\ begun /\ frame' = 1 /\ \A e \in present : m.e > e
      /\ eNew' = [e \in present \cup {m.e} |-> IF e = m.e THEN Filled(m) ELSE eNew[e]]
      /\ eLinked' = eLinked \cup {m.e} /\ todo' = Append(todo, m)
      /\ UNCHANGED <<eBase, eOld, wasPresent, eSble, eCopy, decVars, stream, same, begun>>
  BY DEF Update, InOrder
<1>2. Held
  BY <1>1, BegunHeld
<1>3. m.e \in Ents /\ present \subseteq Ents /\ present \subseteq eLinked
  BY TypesBefore DEF Updates, present
<1>4. /\ Filled(m) \in EntType /\ Restored(Filled(m), m.e) = m
      /\ Filled(m).dx = Filled(m).x - eOld[m.e].x /\ ~ Filled(m).active
  BY <1>2, FilledComesBack DEF Held
<1>5. /\ present' = present \cup {m.e} /\ DOMAIN eNew' = present \cup {m.e}
      /\ eNew'[m.e] = Filled(m) /\ \A e \in present : eNew'[e] = eNew[e]
  <2>1. m.e \notin present
    <3>1. m.e \in Int
      BY <1>3 DEF Ents
    <3> QED
      BY <1>1, <3>1
  <2> QED
    BY <1>1, <2>1 DEF present
<1>6. Typed'
  <2>1. eNew' \in [DOMAIN eNew' -> EntType]
    <3>1. \A e \in present : eNew[e] \in EntType
      BY TypesBefore DEF present
    <3> HIDE DEF present
    <3> QED
      BY <1>1, <1>4, <3>1
  <2>2. DOMAIN eNew' \subseteq eLinked' /\ eLinked' \subseteq Ents
    BY <1>1, <1>3, <1>5, TypesBefore
  <2>3. frame' \in 0 .. 2
    <3>1. 1 \in 0 .. 2
      OBVIOUS
    <3> QED
      BY <1>1, <3>1
  <2>4. UNCHANGED <<eBase, eOld, wasPresent, eSble, eCopy, dBase, dOld, dNew, dLinked, dSble, dCopy,
                    same, begun>>
    BY <1>1 DEF decVars
  <2> QED
    BY <2>1, <2>2, <2>3, <2>4, TypesBefore, TypesOfTables
<1>7. Linking'
  BY <1>1 DEF Linking
<1>8. (todo = Restoreds(present, eNew))'
  <2>1. MaxEnt \in Nat /\ present \in SUBSET (1 .. MaxEnt) /\ m.e \in 1 .. MaxEnt
    BY <1>3, EntityAssumption DEF Ents
  <2> DEFINE n == Cardinality(present)
             new == present \cup {m.e}
  <2>2. n \in Nat /\ \A k \in 1 .. n : Order(present)[k] \in present
    BY <2>1, PartsFinite, OrderFacts
  <2>3. /\ Cardinality(new) = n + 1 /\ Order(new)[n + 1] = m.e
        /\ \A k \in 1 .. n : Order(new)[k] = Order(present)[k]
    BY <1>1, <2>1, OrderOfLast
  <2>4. todo = Restoreds(present, eNew)
    BY <1>2 DEF Held
  <2> DEFINE r(k) == Restored(eNew'[Order(new)[k]], Order(new)[k])
  <2>5. Restoreds(present, eNew)' = [k \in 1 .. Cardinality(new) |-> r(k)]
    <3>1. dBase' = dBase
      BY <1>1 DEF decVars
    <3> QED
      BY <1>5, <3>1 DEF Restoreds, Restored
  <2>6. r(n + 1) = m
    BY <1>4, <1>5, <2>3
  <2>7. \A k \in 1 .. n : r(k) = todo[k]
    BY <1>5, <2>2, <2>3, <2>4 DEF Restoreds
  <2>8. Len(todo) = n /\ \E S : todo \in Seq(S)
    <3>1. DOMAIN todo = 1 .. n
      BY <2>4 DEF Restoreds
    <3>2. \E S : todo \in Seq(S)
      BY <1>1, TodoIsSeq
    <3> HIDE DEF n
    <3> QED
      BY <2>2, <3>1, <3>2
  <2> HIDE DEF n, new, r
  <2>9. Append(todo, m) = [k \in 1 .. n + 1 |-> r(k)]
    <3>1. PICK S : todo \in Seq(S)
      BY <2>8
    <3>2. PICK U : U = S \cup {m}
      OBVIOUS
    <3>3. todo \in Seq(U) /\ m \in U
      BY <3>1, <3>2
    <3>4. /\ Append(todo, m) \in Seq(U) /\ Len(Append(todo, m)) = n + 1
          /\ Append(todo, m)[n + 1] = m
          /\ \A k \in 1 .. n : Append(todo, m)[k] = todo[k]
      BY <2>8, <3>3, AppendProperties
    <3> DEFINE a == Append(todo, m)
    <3>5. \A k \in 1 .. n + 1 : a[k] = r(k)
      BY <2>2, <2>6, <2>7, <3>4
    <3>6. a = [k \in 1 .. n + 1 |-> a[k]]
      <4>1. a \in Seq(U) /\ Len(a) = n + 1
        BY <3>4
      <4> HIDE DEF a
      <4> QED
        BY <4>1, LenProperties
    <3> HIDE DEF a
    <3>7. a = [k \in 1 .. n + 1 |-> r(k)]
      BY <3>5, <3>6
    <3> QED
      BY <3>7 DEF a
  <2> QED
    BY <1>1, <2>3, <2>5, <2>9
<1>9. Held'
  <2>1. /\ begun' /\ dBase' = eBase' /\ dSble' = eSble' /\ dCopy' = eCopy'
        /\ dNew' = eOld' /\ dOld' = eOld'
        /\ eLinked' = dLinked' \cup present' /\ wasPresent' \subseteq dLinked'
    BY <1>1, <1>2, <1>5 DEF Held, decVars
  <2>2. \A e \in present' : eNew'[e].dx = eNew'[e].x - eOld'[e].x /\ ~ eNew'[e].active
    BY <1>1, <1>2, <1>4, <1>5 DEF Held
  <2> QED
    BY <1>8, <2>1, <2>2 DEF Held
<1>10. Phases'
  BY <1>1, <1>9 DEF Phases
<1> QED
  BY <1>1, <1>6, <1>7, <1>10 DEF EntityInv, DemoComesBack

-----------------------------------------------------------------------------
(* The decoder's steps.                                                    *)

\* Any other message is decoded alone
LEMMA OneIsDecoded ==
  ASSUME EntityInv, stream # << >>, Due.t # "diff"
  PROVE  /\ frame # 1 /\ present = {} /\ wasPresent \subseteq eLinked /\ stream = <<Due>>
         /\ Waits(Due, dNew, todo) /\ dLinked = eLinked
         /\ begun => dOld = dNew \/ (Due.t = "end" /\ dCopy)
<1>1. frame # 1 /\ (OneLeft \/ DiffLeft)
  BY DEF EntityInv, Phases
<1>2. ~ DiffLeft
  <2> SUFFICES ASSUME NEW D, NEW m, NEW T, stream = <<D, m>>, Tells(D, eLinked, T)
               PROVE  FALSE
    BY DEF DiffLeft
  <2> QED
    BY DEF Tells, Due
<1>3. OneLeft
  BY <1>1, <1>2
<1>4. Due = stream[1]
  BY <1>3 DEF OneLeft, Due
<1> QED
  BY <1>1, <1>3, <1>4 DEF OneLeft, EntityInv, Linking

\* When it has been, with the same tables on both sides, all is as it should be
LEMMA OneKeeps ==
  ASSUME EntityInv, stream # << >>, Due.t # "diff", UNCHANGED <<encVars, dLinked, begun>>,
         stream' = Tail(stream), same' = TRUE, todo' = << >>,
         dBase' = eBase, dSble' = eSble, dCopy' = eCopy,
         dNew' \in [Ents -> EntType], dOld' \in [Ents -> EntType],
         begun => dNew' = eOld /\ dOld' = eOld
  PROVE  EntityInv'
<1>1. /\ frame # 1 /\ present = {} /\ wasPresent \subseteq eLinked /\ stream = <<Due>>
      /\ dLinked = eLinked
  BY OneIsDecoded
<1>2. stream' = << >>
  BY <1>1
<1>3. UNCHANGED <<eBase, eOld, eNew, wasPresent, eLinked, frame, eSble, eCopy>>
  BY DEF encVars
<1>4. Typed'
  BY <1>3, TypesBefore, TypesOfTables
<1>5. Linking'
  BY <1>3 DEF EntityInv, Linking, present
<1>6. TablesAgree'
  BY <1>1, <1>3 DEF TablesAgree
<1>7. Phases'
  BY <1>1, <1>2, <1>3, <1>6 DEF Phases, Quiet
<1> QED
  BY <1>4, <1>5, <1>7 DEF EntityInv, DemoComesBack

\* What comes out alone is the one that is missing
LEMMA OneComesOut ==
  ASSUME EntityInv, NEW b, todo = <<b>>, ComesOut(<<b>>)
  PROVE  same' = TRUE /\ todo' = << >>
<1>1. <<b>> \in Seq({b}) /\ << >> \in Seq({b}) /\ <<b>> = <<b>> \o << >>
  OBVIOUS
<1>2. same
  BY TypesBefore
<1> QED
  BY <1>1, <1>2, FirstComesOut

\* DecodeDiff keeps the invariant
LEMMA DiffKeeps ==
  ASSUME EntityInv, DecodeDiff
  PROVE  EntityInv'
<1>1. stream # << >> /\ Due.t = "diff"
  BY DEF DecodeDiff
<1>2. ~ OneLeft
  <2> SUFFICES ASSUME OneLeft PROVE FALSE
    OBVIOUS
  <2>1. Due = stream[1]
    BY DEF OneLeft, Due
  <2> QED
    BY <1>1, <2>1 DEF OneLeft, Waits
<1>3. frame # 1 /\ DiffLeft /\ begun
  BY <1>1, <1>2 DEF EntityInv, Phases, DiffLeft
<1>4. PICK D, m, T, rest :
        /\ stream = <<D, m>> /\ Tells(D, eLinked, T) /\ Waits(m, T, rest)
        /\ todo = Restoreds(eLinked, T) \o rest
  BY <1>3 DEF DiffLeft
<1>5. /\ dNew' = T /\ dOld' = T /\ dLinked' = eLinked /\ stream' = <<m>>
      /\ ComesOut(Restoreds(eLinked, T))
      /\ UNCHANGED <<encVars, dBase, dSble, dCopy, begun>>
  BY <1>4, DiffDecoded
<1>6. UNCHANGED <<eBase, eOld, eNew, wasPresent, eLinked, frame, eSble, eCopy>>
  BY <1>5 DEF encVars
<1>7. same' = TRUE /\ todo' = rest
  <2> DEFINE ms == Restoreds(eLinked, T)
  <2>1. PICK U : ms \in Seq(U)
    BY TypesBefore, RestoredsIsSeq
  <2>2. \E b : rest = <<b>> \/ rest = << >>
    BY <1>4 DEF Waits
  <2>3. PICK V : rest \in Seq(V)
    <3>1. PICK b : rest = <<b>> \/ rest = << >>
      BY <2>2
    <3>2. CASE rest = <<b>>
      <4>1. rest \in Seq({b})
        BY <3>2
      <4> QED
        BY <4>1
    <3>3. CASE rest = << >>
      <4>1. rest \in Seq({})
        BY <3>3
      <4> QED
        BY <4>1
    <3> QED
      BY <3>1, <3>2, <3>3
  <2> HIDE DEF ms
  <2>4. ms \in Seq(U \cup V) /\ rest \in Seq(U \cup V)
    BY <2>1, <2>3
  <2>5. todo = ms \o rest /\ ComesOut(ms)
    BY <1>4, <1>5 DEF ms
  <2>6. same
    BY TypesBefore
  <2> QED
    BY <2>4, <2>5, <2>6, FirstComesOut
<1>8. T \in [Ents -> EntType]
  BY <1>4 DEF Tells
<1>9. Typed'
  <2>1. UNCHANGED <<dBase, dSble, dCopy, begun>>
    BY <1>5
  <2> QED
    BY <1>5, <1>6, <1>7, <1>8, <2>1, TypesBefore, TypesOfTables
<1>10. Linking'
  BY <1>5, <1>6 DEF EntityInv, Linking, present
<1>11. Waits(m, T, rest)'
  <2>1. UNCHANGED <<dBase, dSble, dCopy, begun>> /\ \A n : NearNumber(n)' = NearNumber(n)
    BY <1>5 DEF NearNumber
  <2> QED
    BY <1>4, <1>6, <2>1 DEF Waits
<1>12. OneLeft'
  <2>1. Waits(stream[1], dNew, todo)'
    BY <1>5, <1>7, <1>11
  <2> QED
    BY <1>5, <1>6, <2>1 DEF OneLeft
<1>13. Phases'
  BY <1>3, <1>5, <1>6, <1>12 DEF Phases
<1> QED
  BY <1>7, <1>9, <1>10, <1>13 DEF EntityInv, DemoComesBack

\* The other steps of the decoder keep the invariant: DecodeCopied changes no table
LEMMA CopiedDecodes ==
  ASSUME EntityInv, DecodeCopied
  PROVE  EntityInv'
<1>1. /\ stream # << >> /\ Due.t = "update" /\ ComesOut(<<Due>>) /\ stream' = Tail(stream)
      /\ UNCHANGED <<encVars, decVars, begun>>
  BY DEF DecodeCopied, Taken
<1>2. Waits(Due, dNew, todo) /\ (begun => dOld = dNew \/ (Due.t = "end" /\ dCopy))
  BY <1>1, OneIsDecoded
<1>3. /\ todo = <<Due>> /\ dBase = eBase /\ dCopy = eCopy /\ eSble = dSble
      /\ begun => dNew = eOld /\ dOld = eOld
  BY <1>1, <1>2 DEF Waits
<1>4. same' = TRUE /\ todo' = << >>
  <2>1. PICK b : b = Due
    OBVIOUS
  <2> QED
    BY <1>1, <1>3, <2>1, OneComesOut
<1>5. UNCHANGED <<dBase, dOld, dNew, dLinked, dSble, dCopy>>
  BY <1>1 DEF decVars
<1> QED
  BY <1>1, <1>3, <1>4, <1>5, TypesBefore, OneKeeps

\* DecodeSound does: the distance was taken from the coordinate it is added to
LEMMA SoundDecodes ==
  ASSUME EntityInv, DecodeSound
  PROVE  EntityInv'
<1>0. PICK b : b = [t |-> "sound", e |-> Due.e, x |-> Due.d + dNew[Due.e].x]
  OBVIOUS
<1>1. /\ stream # << >> /\ Due.t = "sound" /\ ComesOut(<<b>>) /\ stream' = Tail(stream)
      /\ UNCHANGED <<encVars, decVars, begun>>
  BY <1>0 DEF DecodeSound, Taken
<1>2. Waits(Due, dNew, todo) /\ (begun => dOld = dNew \/ (Due.t = "end" /\ dCopy))
  BY <1>1, OneIsDecoded
<1>3. /\ todo = <<[t |-> "sound", e |-> Due.e, x |-> Due.d + eOld[Due.e].x]>> /\ begun
      /\ dBase = eBase /\ dCopy = eCopy /\ eSble = dSble /\ dNew = eOld /\ dOld = eOld
  BY <1>1, <1>2 DEF Waits
<1>4. same' = TRUE /\ todo' = << >>
  <2>1. todo = <<b>>
    BY <1>0, <1>3
  <2> QED
    BY <1>1, <2>1, OneComesOut
<1>5. UNCHANGED <<dBase, dOld, dNew, dLinked, dSble, dCopy>>
  BY <1>1 DEF decVars
<1> QED
  BY <1>1, <1>3, <1>4, <1>5, TypesBefore, OneKeeps

\* DecodeBaseline does: the number is found again, and the baseline is the encoder's
LEMMA BaselineDecodes ==
  ASSUME EntityInv, DecodeBaseline
  PROVE  EntityInv'
<1>0. PICK e : e = IF Due.second THEN Due.n ELSE NearNumber(Due.n)
  OBVIOUS
<1>1. /\ stream # << >> /\ Due.t = "baseline" /\ stream' = Tail(stream)
      /\ dBase' = [dBase EXCEPT ![e] = [Zero EXCEPT !.x = Due.x]]
      /\ dSble' = IF Due.second THEN dSble ELSE e
      /\ ComesOut(<<[t |-> "baseline", e |-> e, x |-> Due.x, second |-> Due.second /\ ~Due.large]>>)
      /\ dCopy' = TRUE
      /\ UNCHANGED <<encVars, dOld, dNew, dLinked, begun>>
  BY <1>0 DEF DecodeBaseline, Taken
<1>2. Waits(Due, dNew, todo) /\ (begun => dOld = dNew \/ (Due.t = "end" /\ dCopy))
  BY <1>1, OneIsDecoded
<1>3. PICK b \in Baselines :
          /\ todo = <<b>> /\ Due.x = b.x /\ b.second = (Due.second /\ ~Due.large)
          /\ b.e = IF Due.second THEN Due.n ELSE NearNumber(Due.n)
          /\ eSble = IF Due.second THEN dSble ELSE b.e
          /\ eBase = [dBase EXCEPT ![b.e] = [Zero EXCEPT !.x = b.x]]
          /\ eCopy = TRUE /\ (begun => dNew = eOld)
  BY <1>1, <1>2 DEF Waits
<1>4. b = [t |-> "baseline", e |-> e, x |-> Due.x, second |-> Due.second /\ ~Due.large]
  <2>1. b = [t |-> "baseline", e |-> b.e, x |-> b.x, second |-> b.second]
    BY DEF Baselines
  <2>2. b.e = e
    BY <1>0, <1>3
  <2> QED
    BY <1>3, <2>1, <2>2
<1>5. same' = TRUE /\ todo' = << >>
  <2>1. ComesOut(<<b>>)
    BY <1>1, <1>4
  <2> QED
    BY <1>3, <2>1, OneComesOut
<1>6. dBase' = eBase /\ dSble' = eSble /\ dCopy' = eCopy
  BY <1>0, <1>1, <1>3
<1>7. begun => dNew' = eOld /\ dOld' = eOld
  BY <1>1, <1>2, <1>3
<1> QED
  BY <1>1, <1>5, <1>6, <1>7, TypesBefore, OneKeeps

\* DecodeServerInfo does: sble starts anew on both sides
LEMMA ServerInfoDecodes ==
  ASSUME EntityInv, DecodeServerInfo
  PROVE  EntityInv'
<1>1. /\ stream # << >> /\ Due.t = "serverinfo" /\ ComesOut(<<Due>>) /\ stream' = Tail(stream)
      /\ dSble' = 0 /\ UNCHANGED <<encVars, dBase, dOld, dNew, dLinked, dCopy, begun>>
  BY DEF DecodeServerInfo, Taken
<1>2. Waits(Due, dNew, todo) /\ (begun => dOld = dNew \/ (Due.t = "end" /\ dCopy))
  BY <1>1, OneIsDecoded
<1>3. /\ todo = <<Due>> /\ dBase = eBase /\ dCopy = eCopy /\ eSble = 0
      /\ begun => dNew = eOld /\ dOld = eOld
  BY <1>1, <1>2 DEF Waits
<1>4. same' = TRUE /\ todo' = << >>
  <2>1. PICK b : b = Due
    OBVIOUS
  <2> QED
    BY <1>1, <1>3, <2>1, OneComesOut
<1> QED
  BY <1>1, <1>3, <1>4, TypesBefore, OneKeeps

\* DecodeEnd does: both sides take the baselines over, or neither
LEMMA EndDecodes ==
  ASSUME EntityInv, DecodeEnd
  PROVE  EntityInv'
<1>1. /\ stream # << >> /\ Due.t = "end" /\ stream' = Tail(stream)
      /\ dOld' = (IF dCopy THEN dBase ELSE dOld) /\ dNew' = (IF dCopy THEN dBase ELSE dNew)
      /\ dCopy' = FALSE
      /\ UNCHANGED <<encVars, dBase, dLinked, dSble, todo, same, begun>>
  BY DEF DecodeEnd, Taken, NewAfter
<1>2. Waits(Due, dNew, todo) /\ (begun => dOld = dNew \/ (Due.t = "end" /\ dCopy))
  BY <1>1, OneIsDecoded
<1>3. /\ todo = << >> /\ dBase = eBase /\ dSble = eSble /\ eCopy = FALSE
      /\ IF dCopy THEN begun /\ eOld = eBase ELSE begun => dNew = eOld
  BY <1>1, <1>2 DEF Waits
<1>4. same' = TRUE /\ todo' = << >>
  BY <1>1, <1>3, TypesBefore
<1>5. begun => dNew' = eOld /\ dOld' = eOld
  BY <1>1, <1>2, <1>3
<1>6. dNew' \in [Ents -> EntType] /\ dOld' \in [Ents -> EntType]
  BY <1>1, TypesBefore
<1> QED
  BY <1>1, <1>3, <1>4, <1>5, <1>6, OneKeeps

-----------------------------------------------------------------------------
(* The theorems.                                                           *)

\* whoever is spoken of before the first baselines has the same newent on both sides
CleanStart == Signon \/ Leftovers \subseteq {Zero}

\* Then the invariant holds at the start, with all tables empty
LEMMA EntitiesStart ==
  ASSUME CleanStart, Init
  PROVE  EntityInv
<1>1. /\ eBase = [e \in Ents |-> Zero] /\ eOld = eBase /\ eNew = << >> /\ wasPresent = {}
      /\ eLinked = {} /\ frame = 0 /\ eSble = 0 /\ eCopy = FALSE /\ dBase = eBase /\ dOld = eBase
      /\ dLinked = {} /\ dSble = 0 /\ dCopy = FALSE /\ stream = << >> /\ todo = << >>
      /\ same = TRUE /\ begun = ~Signon
  BY DEF Init
<1>2. PICK left \in Leftovers : dNew = [e \in Ents |-> left]
  BY DEF Init
<1>3. Zero \in EntType /\ Zero.force = FALSE /\ left \in EntType
  <2>1. 0 \in Int16
    BY SMT DEF Int16
  <2> QED
    BY <2>1, EntityAssumption DEF Zero, EntType
<1>4. begun => dNew = eOld
  BY <1>1, <1>2 DEF CleanStart
<1>5. DOMAIN eNew = {} /\ eNew \in [{} -> EntType]
  BY <1>1
<1>6. /\ eBase \in [Ents -> EntType] /\ eOld \in [Ents -> EntType]
      /\ dBase \in [Ents -> EntType] /\ dOld \in [Ents -> EntType] /\ dNew \in [Ents -> EntType]
      /\ \A e \in Ents : ~ eBase[e].force
  BY <1>1, <1>2, <1>3
<1>7. EntityTypeOK
  <2>1. frame \in 0 .. 2 /\ 0 \in 0 .. MaxOld - 1
    BY <1>1, EntityAssumption
  <2>2. {eCopy, dCopy, same, begun} \subseteq BOOLEAN
    BY <1>1, EntityAssumption
  <2> QED
    BY <1>1, <1>5, <1>6, <2>1, <2>2 DEF EntityTypeOK, present
<1>8. Typed
  BY <1>5, <1>6, <1>7 DEF Typed, present
<1>9. Linking
  <2>1. present = {}
    BY <1>5 DEF present
  <2> QED
    BY <1>1, <2>1 DEF Linking
<1>10. Phases
  <2>1. stream = << >> /\ frame # 1
    BY <1>1
  <2>2. TablesAgree
    BY <1>1, <1>4 DEF TablesAgree
  <2> QED
    BY <1>1, <2>1, <2>2 DEF Phases, Quiet
<1> QED
  BY <1>1, <1>8, <1>9, <1>10 DEF EntityInv, DemoComesBack

\* In every state of encoding (encode.c) and decoding (decode.c) a demo, what is in the stream is
\* what the decoder needs to come to the encoder's tables
THEOREM EntityInvariant == CleanStart => (Spec => []EntityInv)
<1> SUFFICES ASSUME CleanStart PROVE Spec => []EntityInv
  OBVIOUS
<1>1. Init => EntityInv
  BY EntitiesStart
<1>2. EntityInv /\ [Next]_vars => EntityInv'
  <2> SUFFICES ASSUME EntityInv, [Next]_vars PROVE EntityInv'
    OBVIOUS
  <2>1. ASSUME NEW m \in Updates, Update(m) PROVE EntityInv'
    BY <2>1, UpdateKeeps
  <2>2. ASSUME NEW m \in Updates, UpdateCopied(m) PROVE EntityInv'
    BY <2>2, CopiedKeeps
  <2>3. ASSUME NEW m \in Sounds, Sound(m) PROVE EntityInv'
    BY <2>3, SoundKeeps
  <2>4. ASSUME NEW m \in Baselines, Baseline(m) PROVE EntityInv'
    BY <2>4, BaselineKeeps
  <2>5. CASE ServerInfo
    BY <2>5, ServerInfoKeeps
  <2>6. CASE EndBlock
    BY <2>6, EndBlockKeeps
  <2>7. CASE DecodeDiff
    BY <2>7, DiffKeeps
  <2>8. CASE DecodeCopied
    BY <2>8, CopiedDecodes
  <2>9. CASE DecodeSound
    BY <2>9, SoundDecodes
  <2>10. CASE DecodeBaseline
    BY <2>10, BaselineDecodes
  <2>11. CASE DecodeServerInfo
    BY <2>11, ServerInfoDecodes
  <2>12. CASE DecodeEnd
    BY <2>12, EndDecodes
  <2>13. CASE UNCHANGED vars
    <3>1. UNCHANGED <<eBase, eOld, eNew, wasPresent, eLinked, frame, eSble, eCopy,
                      dBase, dOld, dNew, dLinked, dSble, dCopy, stream, todo, same, begun>>
      BY <2>13 DEF vars, encVars, decVars
    <3>2. Typed' /\ Linking'
      BY <3>1 DEF EntityInv, Typed, EntityTypeOK, Linking, present
    <3>3. Phases'
      <4>1. \A m, T, rest : Waits(m, T, rest)' <=> Waits(m, T, rest)
        BY <3>1 DEF Waits, NearNumber
      <4>2. \A D, L, T : Tells(D, L, T) => Tells(D, L, T)' /\ Restoreds(L, T)' = Restoreds(L, T)
        BY <2>13, TellsStays DEF vars
      <4>3. Quiet => Quiet'
        BY <3>1 DEF Quiet, TablesAgree
      <4>4. Held => Held'
        <5>1. present' = present
          BY <3>1 DEF present
        <5>2. Restoreds(present, eNew)' = Restoreds(present, eNew)
          BY <3>1 DEF Restoreds, Restored, present
        <5> QED
          BY <3>1, <5>1, <5>2 DEF Held
      <4>5. OneLeft => OneLeft'
        <5>1. Waits(stream[1], dNew, todo)' <=> Waits(stream[1], dNew, todo)
          BY <3>1 DEF Waits, NearNumber
        <5> QED
          BY <3>1, <5>1 DEF OneLeft
      <4>6. DiffLeft => DiffLeft'
        BY <3>1, <4>1, <4>2 DEF DiffLeft
      <4>7. Phases
        BY DEF EntityInv
      <4> QED
        BY <3>1, <4>3, <4>4, <4>5, <4>6, <4>7 DEF Phases
    <3> QED
      BY <3>1, <3>2, <3>3 DEF EntityInv, DemoComesBack
  <2> QED
    BY <2>1, <2>2, <2>3, <2>4, <2>5, <2>6, <2>7, <2>8, <2>9, <2>10, <2>11, <2>12, <2>13
       DEF Next, Encode, Decode
<1> QED
  BY <1>1, <1>2, PTL DEF Spec

\* The tables of both sides keep their types: coordinates stay shorts, since every one came in
\* as one, and nothing is linked or present that is not an entity
THEOREM EntitiesTyped == CleanStart => (Spec => []EntityTypeOK)
<1>1. EntityInv => EntityTypeOK
  BY DEF EntityInv, Typed
<1> QED
  BY <1>1, EntityInvariant, PTL

\* Decoder and encoder have the same links, baselines, entities and sble whenever the decoder
\* (demx_updateentity and the rest) has read all that diff_entities and the rest have put out
THEOREM TablesAlwaysAgree == CleanStart => (Spec => []TablesAgree)
<1>1. EntityInv => TablesAgree
  BY DEF EntityInv, Phases, Quiet, TablesAgree
<1> QED
  BY <1>1, EntityInvariant, PTL

\* A message of diff_entities has a record for each entity that demx_updateentity will look for
\* one for, and none besides, though neither the entities' numbers nor their count are told
THEOREM RecordsMeetTheActives == CleanStart => (Spec => []RecordsMeetActives)
<1>1. EntityInv => RecordsMeetActives
  <2> SUFFICES ASSUME EntityInv, stream # << >>, Due.t = "diff" PROVE RecordsFit
    BY DEF RecordsMeetActives
  <2>1. ~ OneLeft
    <3> SUFFICES ASSUME OneLeft PROVE FALSE
      OBVIOUS
    <3>1. Due = stream[1]
      BY DEF OneLeft, Due
    <3> QED
      BY <3>1 DEF OneLeft, Waits
  <2>2. DiffLeft
    BY <2>1 DEF EntityInv, Phases
  <2>3. PICK D, m, T : stream = <<D, m>> /\ Tells(D, eLinked, T)
    BY <2>2 DEF DiffLeft
  <2>4. Due = D
    BY <2>3 DEF Due
  <2>5. Actives = ActivesBy(D)
    BY <2>4 DEF Actives, ActiveNow, LinkedNow, LinkedBy, ActivesBy
  <2> QED
    BY <2>3, <2>4, <2>5 DEF RecordsFit, Tells
<1> QED
  BY <1>1, EntityInvariant, PTL

\* What is decoded is what was encoded: each update with the fields it had, also those it had
\* without need, each sound and each baseline, in the order in which they were
THEOREM DemoAlwaysComesBack == CleanStart => (Spec => []DemoComesBack)
<1>1. EntityInv => DemoComesBack
  BY DEF EntityInv
<1> QED
  BY <1>1, EntityInvariant, PTL

\* No message is lost: with the stream read to its end only updates of the present run are
\* still missing
THEOREM NothingStaysMissing == CleanStart => (Spec => []NothingMissing)
<1>1. EntityInv => NothingMissing
  <2> SUFFICES ASSUME EntityInv, stream = << >>
               PROVE  Len(todo) = IF frame = 1 THEN Cardinality(present) ELSE 0
    BY DEF NothingMissing
  <2>1. CASE frame = 1
    <3>1. todo = Restoreds(present, eNew)
      BY <2>1, IdleFacts DEF Held
    <3>2. Cardinality(present) \in Nat
      BY TypesBefore, EntityAssumption, PartsFinite DEF Ents, present
    <3>3. PICK S : todo \in Seq(S)
      BY TodoIsSeq
    <3>4. DOMAIN todo = 1 .. Cardinality(present)
      BY <3>1 DEF Restoreds
    <3> QED
      BY <2>1, <3>2, <3>3, <3>4, LenProperties
  <2>2. CASE frame # 1
    BY <2>2, IdleFacts
  <2> QED
    BY <2>1, <2>2
<1> QED
  BY <1>1, EntityInvariant, PTL
=============================================================================
