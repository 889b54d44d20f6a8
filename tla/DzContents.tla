----------------------------- MODULE DzContents -----------------------------
(***************************************************************************)
(* What an archive promises, without streams, positions or numbering: it   *)
(* is a list of items, which grows at its end by whole files, folders and  *)
(* paks, and loses exactly the items it is asked to give up.               *)
(***************************************************************************)
EXTENDS Integers, Sequences

CONSTANT Groups    \* what one input adds: a sequence of items

VARIABLE contents

Kept(s, gone) ==
  LET rank[x \in 0 .. Len(s)] ==
        IF x = 0 THEN 0 ELSE rank[x - 1] + (IF x \in gone THEN 0 ELSE 1)
      place(y) == CHOOSE x \in DOMAIN s \ gone : rank[x] = y
  IN [y \in 1 .. rank[Len(s)] |-> s[place(y)]]

\* an item is <<name>>, or <<pak, name>> for a member; a pak goes with its members
Closed(s, gone) ==
  \A x \in gone : Len(s[x]) = 1 =>
    \A y \in DOMAIN s :
      /\ y > x /\ Len(s[y]) = 2
      /\ \A z \in x + 1 .. y : Len(s[z]) = 2
      => y \in gone

Init == contents = << >>
AddGroup == \E g \in Groups : contents' = contents \o g
Remove == \E gone \in SUBSET DOMAIN contents :
            Closed(contents, gone) /\ contents' = Kept(contents, gone)

Next == AddGroup \/ Remove
Spec == Init /\ [][Next]_contents
=============================================================================
