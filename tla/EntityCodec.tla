----------------------------- MODULE EntityCodec -----------------------------
(***************************************************************************)
(* The tables by which encoder and decoder know the entities of a demo.    *)
(*                                                                         *)
(* A run of updateentity messages in ascending order is held back until    *)
(* something else comes (diff_entities) and then told as one message: who  *)
(* begins to change, what each changing entity does, in order but without  *)
(* its number, and whose force bits flip.  Whoever is not told of goes on  *)
(* moving.  Sounds are told by their distance to the entity.  All this is  *)
(* right only as long as both sides have the same tables.                  *)
(*                                                                         *)
(* An entity is one coordinate, x, with its last movement dx and one force *)
(* bit, for an x that is the baseline's and was said all the same; other   *)
(* fields and how each is told are in FieldCodec.  The decoder follows at  *)
(* once: in the program it reads the same stream later, and nothing of the *)
(* encoder's but the stream.                                               *)
(***************************************************************************)
EXTENDS DemFields, Sequences, FiniteSets, SequencesExt

CONSTANTS
  MaxEnt,     \* the last entity; MAX_ENT - 1
  MaxOld,     \* MAX_ENT_OLD, baselines from here on have another form
  Xs,         \* coordinates in messages
  Leftovers,  \* what the decoder's newent may hold from the file extracted before
  Signon      \* TRUE: no entity is spoken of before the block with the baselines is over

Ents == 1 .. MaxEnt

\* ent_t without present, which only means something to the encoder
EntType == [x: Int16, dx: Int, active: BOOLEAN, force: BOOLEAN]

ASSUME EntityAssumption ==
  /\ MaxEnt \in Nat \ {0} /\ MaxOld \in Nat \ {0}
  /\ Xs \subseteq Int16
  /\ Leftovers \subseteq EntType /\ Signon \in BOOLEAN

VARIABLES
  \* encoder
  eBase, eOld,   \* base, oldent
  eNew,          \* newent of those that are present
  wasPresent,    \* whose oldent is
  eLinked,       \* the members of entlink
  frame,         \* dem_updateframe
  eSble, eCopy,  \* sble, copybaseline
  \* decoder
  dBase, dOld, dNew, dLinked, dSble, dCopy,
  \* between and around them
  stream,        \* messages put out, not yet decoded
  todo,          \* messages that went in and have not come out again
  same,          \* those that came out are those that went in
  begun          \* entities may be spoken of

encVars == <<eBase, eOld, eNew, wasPresent, eLinked, frame, eSble, eCopy>>
decVars == <<dBase, dOld, dNew, dLinked, dSble, dCopy>>
vars == <<encVars, decVars, stream, todo, same, begun>>

Zero == [x |-> 0, dx |-> 0, active |-> FALSE, force |-> FALSE]

Init ==
  /\ eBase = [e \in Ents |-> Zero] /\ eOld = eBase
  /\ eNew = << >> /\ wasPresent = {} /\ eLinked = {}
  /\ frame = 0 /\ eSble = 0 /\ eCopy = FALSE
  /\ dBase = eBase /\ dOld = eBase
  /\ \E left \in Leftovers : dNew = [e \in Ents |-> left]
  /\ dLinked = {} /\ dSble = 0 /\ dCopy = FALSE
  /\ stream = << >> /\ todo = << >> /\ same = TRUE
  /\ begun = ~Signon

-----------------------------------------------------------------------------
(* The messages of a demo.                                                 *)

Updates == [t: {"update"}, e: Ents, x: Optional(Xs)]
Sounds == [t: {"sound"}, e: Ents, x: Xs]
Baselines == [t: {"baseline"}, e: Ents, x: Xs, second: BOOLEAN]

\* a seeded fault: what is left out is not filled in
Given_Dropped(v, default) == v

Given(v, default) == IF v = None THEN default ELSE v

present == DOMAIN eNew

\* the place of e in S, and S in ascending order
Place(S, e) == Cardinality({f \in S : f <= e})

Order(S) == [k \in 1 .. Cardinality(S) |-> CHOOSE e \in S : Place(S, e) = k]

-----------------------------------------------------------------------------
(* Encoder: dem_updateentity and diff_entities.                            *)

\* a seeded fault: what need not be said is what was the same before
Filled_Old(m) ==
  LET x == Given(m.x, eBase[m.e].x) IN
    [x |-> x, dx |-> x - eOld[m.e].x, active |-> FALSE, force |-> m.x = eOld[m.e].x]

\* newent: what the message leaves out is as in the baseline; what it says without need is forced
Filled(m) ==
  LET x == Given(m.x, eBase[m.e].x) IN
    [x |-> x, dx |-> x - eOld[m.e].x, active |-> FALSE, force |-> m.x = eBase[m.e].x]

\* what is told of an entity that is present
Change(e) ==
  OriginDiff(eNew[e].x, [x |-> eOld[e].x, dx |-> eOld[e].dx])

Rests(e) == Change(e) = Same

Gone == eLinked \ present

\* nothing is told of an entity that rests and did so before
Silent == {e \in present \cap wasPresent : Rests(e) /\ ~eOld[e].active}

\* a seeded fault: one that is gone is not woken to be told so
Woken_Present == {e \in present : e \notin wasPresent \/ (~eOld[e].active /\ ~Rests(e))}

\* who is put among the active ones, update_activate
Woken ==
  {e \in eLinked :
     IF e \in present
     THEN e \notin wasPresent \/ (~eOld[e].active /\ ~Rests(e))
     ELSE ~eOld[e].active}

Record(e) ==
  IF e \in Gone THEN [t |-> "gone"]
  ELSE IF Rests(e) THEN [t |-> "rest"] ELSE [t |-> "change", x |-> Change(e)]

\* oldent once it has been told
Told(e) == IF e \in present THEN [eNew[e] EXCEPT !.active = ~Rests(e)] ELSE eBase[e]

DiffMessage ==
  [t |-> "diff",
   woken |-> Woken,
   records |-> LET told == Order(eLinked \ Silent) IN [k \in DOMAIN told |-> Record(told[k])],
   flips |-> {e \in present : eOld[e].force # eNew[e].force}]

\* diff_entities
Diffed ==
  /\ eOld' = [e \in Ents |-> IF e \in eLinked THEN Told(e) ELSE eOld[e]]
  /\ wasPresent' = present
  /\ eNew' = << >>
  /\ eLinked' = eLinked \ Gone
  /\ frame' = 2

\* a seeded fault: the same one again counts as in order
InOrder_Equal(m) == \A e \in present : m.e >= e

\* entity > lastentity, which is the last one of the run
InOrder(m) == \A e \in present : m.e > e

\* an update in order is held back
Update(m) ==
  /\ stream = << >> /\ begun
  /\ frame \in {0, 1} /\ InOrder(m)
  /\ frame' = 1
  /\ eNew' = [e \in present \cup {m.e} |-> IF e = m.e THEN Filled(m) ELSE eNew[e]]
  /\ eLinked' = eLinked \cup {m.e}
  /\ todo' = Append(todo, m)
  /\ UNCHANGED <<eBase, eOld, wasPresent, eSble, eCopy, decVars, stream, same, begun>>

\* the first one out of order ends the run and is copied, as are all that follow in the block
UpdateCopied(m) ==
  /\ stream = << >> /\ begun
  /\ \/ frame = 2 /\ UNCHANGED <<eOld, wasPresent, eNew, eLinked, frame>>
        /\ stream' = <<m>>
     \/ frame = 1 /\ ~InOrder(m) /\ Diffed
        /\ stream' = <<DiffMessage, m>>
  /\ todo' = Append(todo, m)
  /\ UNCHANGED <<eBase, eSble, eCopy, decVars, same, begun>>

\* any other message first ends the run
Flush(m) ==
  IF frame = 1
  THEN Diffed /\ stream' = <<DiffMessage, m>>
  ELSE stream' = <<m>> /\ UNCHANGED <<eOld, wasPresent, eNew, eLinked, frame>>

\* oldent as it is once the run has ended
OldAfter(e) == IF frame = 1 /\ e \in eLinked THEN Told(e) ELSE eOld[e]

Sound(m) ==
  /\ stream = << >> /\ begun
  /\ Flush([t |-> "sound", e |-> m.e, d |-> m.x - OldAfter(m.e).x])
  /\ todo' = Append(todo, m)
  /\ UNCHANGED <<eBase, eSble, eCopy, decVars, same, begun>>

\* the number, or its distance to the last one
BaselineNumber(m) == IF m.second \/ m.e >= MaxOld THEN m.e ELSE (m.e - eSble) % MaxOld

\* dem_spawnbaseline
Baseline(m) ==
  /\ stream = << >>
  /\ Flush([t |-> "baseline", second |-> m.second \/ m.e >= MaxOld,
            large |-> ~m.second /\ m.e >= MaxOld, n |-> BaselineNumber(m), x |-> m.x])
  /\ eBase' = [eBase EXCEPT ![m.e] = [Zero EXCEPT !.x = m.x]]
  /\ eSble' = IF m.second \/ m.e >= MaxOld THEN eSble ELSE m.e
  /\ eCopy' = TRUE
  /\ todo' = Append(todo, m)
  /\ UNCHANGED <<decVars, same, begun>>

\* dem_serverinfo; all messages that are only copied are like this one, but for sble
ServerInfo ==
  /\ stream = << >>
  /\ Flush([t |-> "serverinfo"])
  /\ eSble' = 0
  /\ todo' = Append(todo, [t |-> "serverinfo"])
  /\ UNCHANGED <<eBase, eCopy, decVars, same, begun>>

\* the end of dem_compress's loop over a block that left something to be done
EndBlock ==
  /\ stream = << >>
  /\ frame # 0 \/ eCopy
  /\ eOld' = IF eCopy THEN eBase ELSE [e \in Ents |-> OldAfter(e)]
  /\ wasPresent' = IF eCopy THEN {} ELSE IF frame = 1 THEN present ELSE wasPresent
  /\ eNew' = << >>
  /\ eLinked' = IF frame = 1 THEN eLinked \ Gone ELSE eLinked
  /\ frame' = 0
  /\ eCopy' = FALSE
  /\ stream' = IF frame = 1 THEN <<DiffMessage, [t |-> "end"]>> ELSE <<[t |-> "end"]>>
  /\ begun' = (begun \/ eCopy)
  /\ UNCHANGED <<eBase, eSble, decVars, todo, same>>

-----------------------------------------------------------------------------
(* Decoder: demx_updateentity.                                             *)

Due == Head(stream)

\* the messages of ms come out, and are compared with those that went in
ComesOut(ms) ==
  /\ same' = (same /\ IsPrefix(ms, todo))
  /\ todo' = IF Len(ms) <= Len(todo) THEN SubSeq(todo, Len(ms) + 1, Len(todo)) ELSE << >>

Taken == stream' = Tail(stream)

LinkedNow == dLinked \cup Due.woken
ActiveNow(e) == dNew[e].active \/ e \in Due.woken
Actives == {e \in LinkedNow : ActiveNow(e)}

\* an entity's record is found by its place among the active ones
RecordOf(e) == Due.records[Place(Actives, e)]

\* without being told, an entity goes on as before
Moved(n) == [n EXCEPT !.x = n.x + n.dx]

Changed(e, r) ==
  LET n == Moved(dNew[e])
      o == dOld[e]
      told == OriginPlus(r.x, [x |-> o.x, dx |-> o.dx])
  IN [n EXCEPT !.active = TRUE,
               !.x = IF r.x = Same THEN n.x ELSE told.x,
               !.dx = IF r.x = Same THEN n.dx ELSE told.dx]

Updated(e) ==
  IF ~ActiveNow(e) THEN Moved(dNew[e])
  ELSE CASE RecordOf(e).t = "gone" -> dBase[e]
         [] RecordOf(e).t = "rest" -> [Moved(dNew[e]) EXCEPT !.active = FALSE]
         [] RecordOf(e).t = "change" -> Changed(e, RecordOf(e))

Flipped(n, e) == [n EXCEPT !.force = (n.force # (e \in Due.flips))]

\* the message that says what n is, and no more than it has to
Restored(n, e) ==
  [t |-> "update", e |-> e, x |-> IF n.x # dBase[e].x \/ n.force THEN n.x ELSE None]

StillLinked == {e \in LinkedNow : ~(ActiveNow(e) /\ RecordOf(e).t = "gone")}

\* records for the wrong number of entities are not modelled: see RecordsMeetActives
RecordsFit == Len(Due.records) = Cardinality(Actives)

DecodeDiff ==
  /\ stream # << >> /\ Due.t = "diff" /\ RecordsFit
  /\ dNew' = [e \in Ents |-> IF e \in LinkedNow THEN Flipped(Updated(e), e) ELSE dNew[e]]
  /\ dOld' = [e \in Ents |-> IF e \in StillLinked THEN dNew'[e]
                             ELSE IF e \in LinkedNow THEN dBase[e] ELSE dOld[e]]
  /\ dLinked' = StillLinked
  /\ LET es == Order(StillLinked) IN ComesOut([k \in DOMAIN es |-> Restored(dNew'[es[k]], es[k])])
  /\ Taken
  /\ UNCHANGED <<encVars, dBase, dSble, dCopy, begun>>

DecodeCopied ==
  /\ stream # << >> /\ Due.t = "update"
  /\ ComesOut(<<Due>>)
  /\ Taken
  /\ UNCHANGED <<encVars, decVars, begun>>

DecodeSound ==
  /\ stream # << >> /\ Due.t = "sound"
  /\ ComesOut(<<[t |-> "sound", e |-> Due.e, x |-> Due.d + dNew[Due.e].x]>>)
  /\ Taken
  /\ UNCHANGED <<encVars, decVars, begun>>

NearNumber(n) == (dSble + n) % MaxOld

DecodeBaseline ==
  /\ stream # << >> /\ Due.t = "baseline"
  /\ LET e == IF Due.second THEN Due.n ELSE NearNumber(Due.n) IN
       /\ dBase' = [dBase EXCEPT ![e] = [Zero EXCEPT !.x = Due.x]]
       /\ dSble' = IF Due.second THEN dSble ELSE e
       /\ ComesOut(<<[t |-> "baseline", e |-> e, x |-> Due.x,
                      second |-> Due.second /\ ~Due.large]>>)
  /\ dCopy' = TRUE
  /\ Taken
  /\ UNCHANGED <<encVars, dOld, dNew, dLinked, begun>>

DecodeServerInfo ==
  /\ stream # << >> /\ Due.t = "serverinfo"
  /\ dSble' = 0
  /\ ComesOut(<<Due>>)
  /\ Taken
  /\ UNCHANGED <<encVars, dBase, dOld, dNew, dLinked, dCopy, begun>>

\* a seeded fault: newent is left as it was
NewAfter_Kept == dNew

NewAfter == IF dCopy THEN dBase ELSE dNew

\* the end of dem_uncompress_block
DecodeEnd ==
  /\ stream # << >> /\ Due.t = "end"
  /\ dOld' = IF dCopy THEN dBase ELSE dOld
  /\ dNew' = NewAfter
  /\ dCopy' = FALSE
  /\ Taken
  /\ UNCHANGED <<encVars, dBase, dLinked, dSble, todo, same, begun>>

Encode ==
  \/ \E m \in Updates : Update(m) \/ UpdateCopied(m)
  \/ \E m \in Sounds : Sound(m)
  \/ \E m \in Baselines : Baseline(m)
  \/ ServerInfo \/ EndBlock

Decode ==
  \/ DecodeDiff \/ DecodeCopied \/ DecodeSound \/ DecodeBaseline \/ DecodeServerInfo \/ DecodeEnd

Next == Encode \/ Decode

Spec == Init /\ [][Next]_vars

-----------------------------------------------------------------------------
(* Properties.                                                             *)

EntityTypeOK ==
  /\ {eBase[e] : e \in Ents} \cup {eOld[e] : e \in Ents} \cup {eNew[e] : e \in present} \subseteq EntType
  /\ {dBase[e] : e \in Ents} \cup {dOld[e] : e \in Ents} \cup {dNew[e] : e \in Ents} \subseteq EntType
  /\ eLinked \subseteq Ents /\ dLinked \subseteq Ents
  /\ present \subseteq eLinked /\ wasPresent \subseteq Ents
  /\ frame \in 0 .. 2
  /\ {eSble, dSble} \subseteq 0 .. MaxOld - 1 /\ {eCopy, dCopy, same, begun} \subseteq BOOLEAN

\* Whenever the decoder has caught up it knows of every entity what the encoder does
TablesAgree ==
  stream = << >> /\ frame # 1 =>
    /\ dBase = eBase /\ dLinked = eLinked
    /\ dSble = eSble /\ dCopy = eCopy
    /\ begun => dNew = eOld /\ dOld = eOld

\* There is a record for every active entity and for no other, so that each finds its own
RecordsMeetActives == stream # << >> /\ Due.t = "diff" => RecordsFit

\* The demo comes out as it went in: every update, sound and baseline, with nothing left out,
\* nothing added and nothing in another order
DemoComesBack == same

\* Only the updates that are held back are still missing
NothingMissing == stream = << >> => Len(todo) = IF frame = 1 THEN Cardinality(present) ELSE 0
=============================================================================
