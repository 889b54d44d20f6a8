------------------------------ MODULE ListView ------------------------------
(***************************************************************************)
(* The list view of the Windows program: what of the open archive's        *)
(* directory is listed (lventries), in which order (lvorderarray), and     *)
(* what the virtual list control, which knows rows and nothing else,       *)
(* believes to be selected and focused.  Paks open and close in place,     *)
(* columns sort, a worker thread appends what it adds while the window     *)
(* thread may sort, and a deletion turns the selected rows into the sorted *)
(* list of directory positions that dzDeleteFiles takes.                   *)
(*                                                                         *)
(* Rows, entries and directory positions count from 1.  A name is a path   *)
(* and a base, both small numbers; dates, ratios, icons and texts are left *)
(* out, and so is SetItemState's notification where it tells an entry what *)
(* the entry has just told the control.                                    *)
(***************************************************************************)
EXTENDS Integers, Sequences, FiniteSets

LOCAL INSTANCE SequencesExt
LOCAL INSTANCE FiniteSetsExt
LOCAL INSTANCE TLC

CONSTANTS
  Archives,    \* the directories of the archives that can be opened
  Names,       \* what a file can be renamed to: <<path, base>>
  Additions,   \* what one added name brings: a sequence of directory entries
  Sorts,       \* the sort types in use, a subset of SortTypes
  MaxEntries,  \* bound: entries of a directory
  MaxChanges   \* bound: renames, additions and deletions of one behaviour

SortTypes == {0, 2, 6, 8}   \* path and name, size, name only, none

ASSUME ListAssumption ==
  /\ Sorts \subseteq SortTypes /\ 0 \in Sorts
  /\ MaxEntries \in Nat /\ MaxChanges \in Nat

VARIABLES
  directory, \* the codec's directory; << >> when no archive is open
  view,      \* lventries, lvorderarray, lvNumEntries, focus; items is the control
  SortType,  \* by: the low seven bits, reversed: the eighth
  pc,        \* "closed", "idle", "adding", "counting" or "deleting"
  array,     \* DeleteThread: the positions to delete, in ascending order,
  numsel,    \* and for how many it has made room
  chosen,    \* for the properties: the positions whose rows showed as selected
  misparented,  \* for the properties: CollapseFile has moved a pak away from the index that
                \* its members know as their parent
  changes    \* bound: renames, additions and deletions so far

vars == <<directory, view, SortType, pc, array, numsel, chosen, misparented, changes>>

NoRows == [count |-> 0, selected |-> {}, focused |-> 0]

EmptyView ==
  [lventries |-> << >>, lvorderarray |-> << >>, lvNumEntries |-> 0, focus |-> 1,
   items |-> NoRows]

-----------------------------------------------------------------------------
(* The directory, as far as the list looks at it.                          *)

IsPak(e) == e.type = "pak"

\* a member's number is its distance from its pak
IsMember(e) == e.pak # 0 /\ ~IsPak(e)

Members(d, x) == IF IsPak(d[x]) THEN x + 1 .. x + d[x].pak ELSE {}

WithMembers(d, s) == UNION {{x} \cup Members(d, x) : x \in s}

\* what dzDeleteFiles leaves, its members renumbered; DzDelete has the detail
Remaining(d, gone) ==
  LET kept == SetToSortSeq(DOMAIN d \ gone, <)
      lost(x, y) == Cardinality(gone \cap x .. y)
      renumbered(x) ==
        CASE IsPak(d[x]) -> [d[x] EXCEPT !.pak = @ - lost(x + 1, x + @)]
          [] IsMember(d[x]) -> [d[x] EXCEPT !.pak = @ - lost(x - @, x)]
          [] OTHER -> d[x]
  IN [k \in DOMAIN kept |-> renumbered(kept[k])]

-----------------------------------------------------------------------------
(* LVSort.                                                                 *)

\* LVqsortfunc's case: ascending is first; a folder comes after what is none
Key(by, e) ==
  CASE by = 0 -> e.name
    [] by = 2 -> <<IF e.folder THEN 1 ELSE 0, -e.real>>
    [] by = 6 -> <<e.name[2], 0>>
    [] by = 8 -> <<e.filepos, 0>>

\* a seeded fault: members are compared by what they are themselves
Standing_Self(es, x, y) == es[x]

\* a member is compared with what is outside its pak as the pak would be
Standing(es, x, y) ==
  IF es[x].indent # 0 /\ (es[y].indent = 0 \/ es[x].parent # es[y].parent)
    THEN es[es[x].parent] ELSE es[x]

Before(s, t) == s[1] < t[1] \/ (s[1] = t[1] /\ s[2] < t[2])

\* LVqsortfunc: whether entry x goes before entry y; on a tie the old order stays
LVqsortfunc(es, sort, x, y) ==
  LET a == Standing(es, x, y)
      b == Standing(es, y, x)
      ka == Key(sort.by, a)
      kb == Key(sort.by, b)
  IN IF es[x].indent # 0 /\ es[y].indent = 0 /\ es[x].parent = y THEN FALSE
     ELSE IF es[y].indent # 0 /\ es[x].indent = 0 /\ es[y].parent = x THEN TRUE
     ELSE IF ka = kb THEN a.lvpos < b.lvpos
     ELSE IF sort.reversed THEN Before(kb, ka) ELSE Before(ka, kb)

\* a seeded fault: the control keeps the selection it had
Reselected_Not(items, es, order, rows) == items

\* rows told anew which of them are selected; rows the control does not have are ignored
Reselected(items, es, order, rows) ==
  [items EXCEPT !.selected =
     (@ \ rows) \cup {r \in rows \cap 1 .. items.count : es[order[r]].selected}]

\* rows from .. to
LVSort(v, sort, from, to) ==
  LET rows == from .. to
      block == SortSeq(SubSeq(v.lvorderarray, from, to),
                       LAMBDA x, y : LVqsortfunc(v.lventries, sort, x, y))
      order == [r \in DOMAIN v.lvorderarray |->
                  IF r \in rows THEN block[r - from + 1] ELSE v.lvorderarray[r]]
      placed == [x \in DOMAIN v.lventries |->
                   IF \E r \in rows : order[r] = x
                     THEN [v.lventries[x] EXCEPT !.lvpos = CHOOSE r \in rows : order[r] = x]
                     ELSE v.lventries[x]]
      items == IF v.items.selected = {} THEN v.items
               ELSE Reselected(v.items, v.lventries, order, rows)
      row == placed[v.focus].lvpos
  IN IF to = 0 THEN v
     ELSE [v EXCEPT !.lvorderarray = order, !.lventries = placed,
                    !.items = IF row <= items.count THEN [items EXCEPT !.focused = row]
                                                    ELSE items]

\* LVM_SETITEMCOUNT: rows that are gone are neither selected nor focused
LVSetItemCount(v, n) ==
  [v EXCEPT !.items = [count |-> n, selected |-> @.selected \cap 1 .. n,
                       focused |-> IF @.focused > n THEN 0 ELSE @.focused]]

LVFinishedAdding(v, sort) == LVSetItemCount(LVSort(v, sort, 1, v.lvNumEntries), v.lvNumEntries)

-----------------------------------------------------------------------------
(* LVAddFileToListView.                                                    *)

\* the new entry and its place in the order, but for lvpos and the count
FillEntry(v, d, x, indent, parent) ==
  [v EXCEPT
     !.lventries = Append(@,
        [filepos |-> x, name |-> d[x].name, folder |-> d[x].type = "folder",
         real |-> d[x].real, expandable |-> IsPak(d[x]), expanded |-> FALSE,
         selected |-> FALSE, indent |-> indent, parent |-> parent, lvpos |-> 0]),
     !.lvorderarray = Append(@, Len(v.lventries) + 1)]

\* lve->lvpos = lvNumEntries++
CountEntry(v) ==
  [v EXCEPT !.lventries[v.lvNumEntries + 1].lvpos = v.lvNumEntries + 1,
            !.lvNumEntries = @ + 1]

LVAddFiles(v, d, xs, indent, parent) ==
  LET after[k \in 0 .. Len(xs)] ==
        IF k = 0 THEN v ELSE CountEntry(FillEntry(after[k - 1], d, xs[k], indent, parent))
  IN after[Len(xs)]

\* dzOpenFile lists what is not in a pak; OpenArchive sorts it and focuses the first row
Opened(d, sort) ==
  LET listed == SelectSeq([x \in DOMAIN d |-> x], LAMBDA x : ~IsMember(d[x]))
      v == LVFinishedAdding(LVAddFiles(EmptyView, d, listed, 0, 1), sort)
  IN [v EXCEPT !.focus = v.lvorderarray[1], !.items.focused = 1]

-----------------------------------------------------------------------------
(* ExpandFile, CollapseFile.                                               *)

\* dzExpandFile appends the members; the rows below the pak make room for them
ExpandFile(v, d, sort, x) ==
  LET pak == v.lventries[x]
      n == Cardinality(Members(d, pak.filepos))
      j == pak.lvpos
      old == v.lvNumEntries
      added == LVAddFiles(v, d, [k \in 1 .. n |-> pak.filepos + k], 1, x)
      order == [r \in 1 .. old + n |->
                  IF r <= j THEN v.lvorderarray[r]
                  ELSE IF r <= j + n THEN old + r - j
                  ELSE v.lvorderarray[r - n]]
      placed == [y \in 1 .. old + n |->
                   [added.lventries[y] EXCEPT
                      !.expanded = @ \/ y = x,
                      !.lvpos = CHOOSE r \in 1 .. old + n : order[r] = y]]
      shifted == LVSetItemCount(
                   [added EXCEPT !.lvorderarray = order, !.lventries = placed], old + n)
      told == [shifted EXCEPT !.items = Reselected(@, placed, order, j + n + 1 .. old + n)]
  IN IF pak.expanded THEN v ELSE LVSort(told, sort, j + 1, j + n)

\* a seeded fault: entries above the gap move down, rows still name their old places
MovedDown_OldRows(es, order, gap, deleted) == order

\* the gap in lventries closes, and the rows follow
MovedDown(es, order, gap, deleted) ==
  LET moved == {es[x].lvpos : x \in {y \in DOMAIN es : y >= gap}}
  IN [r \in DOMAIN order |-> IF r \in moved THEN order[r] - deleted ELSE order[r]]

CollapseFile(v, x) ==
  LET pak == v.lventries[x]
      j == pak.lvpos + 1
      after == Min({r \in j .. v.lvNumEntries :
                      v.lventries[v.lvorderarray[r]].indent = pak.indent}
                   \cup {v.lvNumEntries + 1})
      gap == Min({v.lvorderarray[r] : r \in j .. after - 1} \cup {v.lvNumEntries + 1})
      deleted == after - j
      n == v.lvNumEntries - deleted
      order == [r \in 1 .. n |-> v.lvorderarray[IF r < j THEN r ELSE r + deleted]]
      es == [y \in DOMAIN v.lventries |->
               [v.lventries[y] EXCEPT
                  !.expanded = @ /\ y # x,
                  !.lvpos = IF \E r \in j .. n : order[r] = y THEN @ - deleted ELSE @]]
      items == [Reselected(v.items, es, order, j .. n)
                  EXCEPT !.focused = IF @ \in j .. n THEN 0 ELSE @]
      closed == [y \in 1 .. n |-> es[IF y < gap THEN y ELSE y + deleted]]
  IN IF ~pak.expanded THEN v
     ELSE LVSetItemCount(
            [v EXCEPT !.lventries = closed, !.lvNumEntries = n, !.items = items,
                      !.lvorderarray = MovedDown(closed, order, gap, deleted)], n)

\* an open pak behind the members of pak x moves down with them gone, and its own members
\* are not told: it was added while x was open
MovesParents(v, x) ==
  /\ v.lventries[x].expanded
  /\ \E y, p \in 1 .. v.lvNumEntries :
       /\ v.lventries[y].indent # 0 /\ v.lventries[y].parent = x
       /\ p > y /\ v.lventries[p].expanded

\* one after the other, for the entries there are now
AllExpanded(v, d, sort) ==
  LET after[x \in 0 .. v.lvNumEntries] ==
        IF x = 0 THEN v
        ELSE IF v.lventries[x].expandable THEN ExpandFile(after[x - 1], d, sort, x)
        ELSE after[x - 1]
  IN after[v.lvNumEntries]

\* DeleteThread's first loop, which ends where the entries then end
SelectedCollapsed(v) ==
  LET after[x \in 0 .. v.lvNumEntries] ==
        IF x = 0 THEN v
        ELSE LET w == after[x - 1]
             IN IF x <= w.lvNumEntries /\ w.lventries[x].expanded /\ w.lventries[x].selected
                  THEN CollapseFile(w, x) ELSE w
  IN after[v.lvNumEntries]

-----------------------------------------------------------------------------
(* ExtractSetup: Extract.list for type 0 (all), 1 (selected) or 2 (focused).*)

\* a seeded fault: the members of a listed pak are listed too
AfterMembers_Next(v, r) == r + 1

AfterMembers(v, r) ==
  LET e == v.lventries[v.lvorderarray[r]]
  IN IF ~e.expanded THEN r + 1
     ELSE Min({s \in r + 1 .. v.lvNumEntries :
                 v.lventries[v.lvorderarray[s]].indent <= e.indent} \cup {v.lvNumEntries + 1})

ExtractList(v, type, directories) ==
  LET from[r \in 1 .. v.lvNumEntries + 1] ==
        IF r > v.lvNumEntries THEN << >>
        ELSE LET x == v.lvorderarray[r]
                 e == v.lventries[x]
             IN IF \/ type = 1 /\ ~e.selected
                   \/ e.folder /\ ~directories
                   \/ e.expanded /\ type = 0 /\ ~directories  \* a test: its members follow
                  THEN from[r + 1]
                  ELSE <<x>> \o from[AfterMembers(v, r)]
  IN IF type = 2 THEN <<v.focus>> ELSE from[1]

\* how long a list it makes room for
ExtractRoom(v, type) ==
  CASE type = 0 -> v.lvNumEntries
    [] type = 1 -> Cardinality(v.items.selected)
    [] type = 2 -> 1

-----------------------------------------------------------------------------
Init ==
  /\ directory = << >> /\ view = EmptyView /\ pc = "closed"
  /\ SortType = [by |-> 0, reversed |-> FALSE]
  /\ array = << >> /\ numsel = 0 /\ chosen = {} /\ misparented = FALSE /\ changes = 0

NoDeletion == UNCHANGED <<array, numsel, chosen>>

Change == changes < MaxChanges /\ changes' = changes + 1

OpenArchive ==
  /\ pc = "closed"
  /\ \E d \in Archives : directory' = d /\ view' = Opened(d, SortType)
  /\ pc' = "idle"
  /\ NoDeletion /\ UNCHANGED <<SortType, misparented, changes>>

Close == directory' = << >> /\ view' = EmptyView /\ pc' = "closed" /\ misparented' = FALSE

CloseArchive == pc = "idle" /\ Close /\ NoDeletion /\ UNCHANGED <<SortType, changes>>

Show(v) ==
  /\ pc = "idle"
  /\ view' = v
  /\ NoDeletion /\ UNCHANGED <<directory, SortType, pc, changes>>

\* what the user does to the list alone
Look(v) == Show(v) /\ UNCHANGED misparented

\* LVN_ITEMCHANGED and LVN_ODSTATECHANGED: the rows' new state is kept by entry
ItemsChanged(v, items) ==
  LET changed == (items.selected \ v.items.selected) \cup (v.items.selected \ items.selected)
      told == {v.lvorderarray[r] : r \in changed}
  IN [v EXCEPT
        !.items = items,
        !.focus = IF items.focused = v.items.focused THEN @ ELSE v.lvorderarray[items.focused],
        !.lventries = [x \in DOMAIN @ |->
                         IF x \in told THEN [@[x] EXCEPT !.selected = ~@] ELSE @[x]]]

Rows == 1 .. view.lvNumEntries

Click == \E r \in Rows :
  Look(ItemsChanged(view, [view.items EXCEPT !.selected = {r}, !.focused = r]))

CtrlClick == \E r \in Rows :
  Look(ItemsChanged(view, [view.items EXCEPT
         !.selected = IF r \in @ THEN @ \ {r} ELSE @ \cup {r}, !.focused = r]))

ShiftClick == \E r \in Rows :
  LET f == view.items.focused
  IN Look(ItemsChanged(view, [view.items EXCEPT
            !.selected = IF f <= r THEN f .. r ELSE r .. f, !.focused = r]))

ActionsSelectAll == Look(ItemsChanged(view, [view.items EXCEPT !.selected = Rows]))

\* row by row, from what the entries say
ActionsInvert ==
  Look(ItemsChanged(view, [view.items EXCEPT
         !.selected = {r \in Rows :
                         \E x \in Rows : /\ view.lventries[x].lvpos = r
                                         /\ ~view.lventries[x].selected}]))

\* VK_ADD, VK_SUBTRACT, and NM_RETURN for either
FocusExpandable == pc = "idle" /\ view.lventries[view.focus].expandable

Expand == FocusExpandable /\ Look(ExpandFile(view, directory, SortType, view.focus))

Collapse ==
  /\ FocusExpandable
  /\ Show(CollapseFile(view, view.focus))
  /\ misparented' = (misparented \/ MovesParents(view, view.focus))

ExpandAll == pc = "idle" /\ Look(AllExpanded(view, directory, SortType))

\* VK_BACK: from a member to its pak
BackToPak ==
  /\ pc = "idle" /\ view.lventries[view.focus].indent # 0
  /\ LET r == view.lventries[view.lventries[view.focus].parent].lvpos
     IN Look(ItemsChanged(view, [view.items EXCEPT !.selected = {r}, !.focused = r]))

\* the sort commands stay enabled while a worker adds; that they do while one
\* deletes, with a focus that may be gone, is left out
LVChangeSort(sort) ==
  /\ pc \notin {"deleting", "removing"} /\ sort.by \in Sorts
  /\ SortType' = sort
  /\ view' = LVSort(view, sort, 1, view.lvNumEntries)
  /\ NoDeletion /\ UNCHANGED <<directory, pc, misparented, changes>>

SortBy == \E by \in Sorts : LVChangeSort([SortType EXCEPT !.by = by])

SortReverse == LVChangeSort([SortType EXCEPT !.reversed = ~@])

\* LVN_COLUMNCLICK without a path column: the name's column takes four turns
ColumnClick ==
  \E column \in Sorts \ {6} :
    LVChangeSort(
      IF column = 0 /\ SortType = [by |-> 0, reversed |-> TRUE] THEN [by |-> 6, reversed |-> FALSE]
      ELSE IF column = 0 /\ SortType = [by |-> 6, reversed |-> FALSE] THEN [by |-> 6, reversed |-> TRUE]
      ELSE IF SortType.by = column THEN [SortType EXCEPT !.reversed = ~@]
      ELSE [by |-> column, reversed |-> FALSE])

\* LVEndLabelEdit; only the sorts by name are brought up to date
Rename ==
  /\ pc = "idle" /\ Change
  /\ \E n \in Names :
       LET x == view.focus
           v == [view EXCEPT !.lventries[x].name = n]
       IN /\ directory' = [directory EXCEPT ![view.lventries[x].filepos].name = n]
          /\ view' = IF SortType.by \in {0, 6} THEN LVSort(v, SortType, 1, v.lvNumEntries) ELSE v
  /\ NoDeletion /\ UNCHANGED <<SortType, pc, misparented>>

-----------------------------------------------------------------------------
(* AddThread, a worker: the window thread may sort between any two steps.  *)

BeginAdd ==
  /\ pc = "idle" \/ pc = "closed"   \* closed: NewArchive has made an empty one
  /\ Change
  /\ pc' = "adding"
  /\ NoDeletion /\ UNCHANGED <<directory, view, SortType, misparented>>

\* dzAddFile, dzAddFolder_GUI: filled, shown, and then counted
AddFile ==
  /\ pc = "adding"
  /\ \E g \in Additions :
       /\ Len(directory) + Len(g) <= MaxEntries
       /\ directory' = directory \o g
       /\ view' = LVSetItemCount(FillEntry(view, directory', Len(directory) + 1, 0, 1),
                                 view.lvNumEntries + 1)
  /\ pc' = "counting"
  /\ NoDeletion /\ UNCHANGED <<SortType, misparented, changes>>

CountAdded ==
  /\ pc = "counting"
  /\ view' = CountEntry(view)
  /\ pc' = "adding"
  /\ NoDeletion /\ UNCHANGED <<directory, SortType, misparented, changes>>

\* all are added, or the operation was aborted; a new archive may have come to nothing
FinishedAdd ==
  /\ pc = "adding"
  /\ IF view.lvNumEntries # 0
       THEN /\ view' = LVFinishedAdding(view, SortType)
            /\ pc' = "idle" /\ UNCHANGED <<directory, misparented>>
       ELSE Close
  /\ NoDeletion /\ UNCHANGED <<SortType, changes>>

-----------------------------------------------------------------------------
(* DeleteThread, a worker that cannot be aborted.                          *)

\* a seeded fault: open paks stay open
DeleteView_Open == view

DeleteView == SelectedCollapsed(view)

DeleteThread ==
  /\ pc = "idle" /\ view.items.selected # {} /\ Change
  /\ view' = DeleteView
  /\ chosen' = {view.lventries[view.lvorderarray[r]].filepos : r \in view.items.selected}
  /\ IF Cardinality(view'.items.selected) = view'.lvNumEntries
       THEN pc' = "removing" /\ UNCHANGED <<array, numsel>>
       ELSE LET entries == {x \in 1 .. view'.lvNumEntries : view'.lventries[x].selected}
            IN /\ pc' = "deleting"
               /\ numsel' = Cardinality(view'.items.selected)
               /\ array' = SetToSortSeq({view'.lventries[x].filepos : x \in entries}, <)
  /\ UNCHANGED <<directory, SortType, misparented>>

Deleted == array' = << >> /\ numsel' = 0 /\ chosen' = {}

\* dzDeleteFiles, and FileRecentFile(0) reads what it left
DeleteFiles ==
  /\ pc = "deleting"
  /\ directory' = Remaining(directory, WithMembers(directory, ToSet(array)))
  /\ view' = Opened(directory', SortType)
  /\ misparented' = FALSE
  /\ pc' = "idle"
  /\ Deleted /\ UNCHANGED <<SortType, changes>>

DeleteCurrentFile == pc = "removing" /\ Close /\ Deleted /\ UNCHANGED <<SortType, changes>>

Browse ==
  Click \/ CtrlClick \/ ShiftClick \/ ActionsSelectAll \/ ActionsInvert
  \/ Expand \/ Collapse \/ ExpandAll \/ BackToPak

Sort == SortBy \/ SortReverse \/ ColumnClick

Next ==
  \/ OpenArchive \/ CloseArchive \/ Browse \/ Sort \/ Rename
  \/ BeginAdd \/ AddFile \/ CountAdded \/ FinishedAdd
  \/ DeleteThread \/ DeleteFiles \/ DeleteCurrentFile

Spec == Init /\ [][Next]_vars

-----------------------------------------------------------------------------
(* Properties.  What the list does with parents that are not paks any more,  *)
(* or not entries, is not followed: see Oriented.                          *)

Oriented == ~misparented

LOCAL Shown(r) == view.lventries[view.lvorderarray[r]]

LOCAL Standing1(e) == IF e.indent # 0 THEN view.lventries[e.parent] ELSE e

LOCAL NotAfter(a, b) ==
  LET ka == Key(SortType.by, a)
      kb == Key(SortType.by, b)
  IN IF SortType.reversed THEN ~Before(ka, kb) ELSE ~Before(kb, ka)

(* lvorderarray and the entries' lvpos are inverse to each other through every
   sort, expansion, collapse and addition, also when the window thread sorts
   between two steps of the worker; and between operations the rows follow the
   sort type, members under their pak whatever the sort.  This lasts until a pak
   that was added while another was open is moved by CollapseFile from under its
   own open members. *)
RowsInOrder == ~misparented =>
  /\ Len(view.lvorderarray) = Len(view.lventries)
  /\ Len(view.lventries) = view.lvNumEntries + (IF pc = "counting" THEN 1 ELSE 0)
  /\ pc \in {"idle", "adding", "counting"} => view.focus \in 1 .. Max({1, view.lvNumEntries})
  /\ \A r \in Rows : view.lvorderarray[r] \in Rows /\ Shown(r).lvpos = r
  /\ pc = "idle" => \A r \in 1 .. view.lvNumEntries - 1 :
       LET a == Shown(r)
           b == Shown(r + 1)
       IN CASE b.indent # 0 /\ b.parent = view.lvorderarray[r] -> TRUE
            [] b.indent # 0 /\ a.indent # 0 /\ a.parent = b.parent -> NotAfter(a, b)
            [] OTHER -> b.indent = 0 /\ NotAfter(Standing1(a), b)

(* The list shows what the archive holds: one entry for each file, folder and
   pak of the directory and for each member of an open pak, none twice, each
   with its record's name and size; and the entries of a pak are the rows
   directly below it, which know it as their parent (until CollapseFile moves a
   pak that was added later; a deletion, which ends with a new list, does so too,
   but no longer looks at parents). *)
ShowsDirectory == ~misparented =>
  /\ \A x \in Rows :
       LET e == view.lventries[x]
           d == directory[e.filepos]
           p == view.lventries[e.parent]    \* its pak
       IN /\ e.name = d.name /\ e.real = d.real /\ e.folder = (d.type = "folder")
          /\ (e.indent # 0) = IsMember(d)
          /\ e.indent # 0 /\ pc \notin {"deleting", "removing"} =>
               /\ p.expanded /\ e.filepos \in Members(directory, p.filepos)
               /\ e.lvpos \in p.lvpos + 1 .. p.lvpos + Cardinality(Members(directory, p.filepos))
  /\ pc # "counting" =>
       LET open == {x \in Rows : view.lventries[x].expanded}
           listed == {x \in DOMAIN directory : ~IsMember(directory[x])}
                     \cup UNION {Members(directory, view.lventries[x].filepos) : x \in open}
       IN /\ {view.lventries[x].filepos : x \in Rows} = listed
          /\ view.lvNumEntries = Cardinality(listed)

(* What the control shows as selected and focused, by row, is what the entries
   remember, by entry: a command that goes by the rows (LVNumSelected) and one
   that goes by the entries mean the same files, while members know their paks. *)
ControlAgrees == ~misparented =>
  /\ view.items.selected = {r \in Rows : Shown(r).selected}
  /\ pc = "idle" => view.items.focused = view.lventries[view.focus].lvpos
  /\ pc # "adding" =>
       view.items.count = view.lvNumEntries + (IF pc = "counting" THEN 1 ELSE 0)

(* What DeleteThread hands to dzDeleteFiles fits the room it made, is in
   ascending order without repetition, names no member together with its pak,
   and means exactly the rows that were shown as selected; the whole archive
   is removed only when all of it was chosen.  The list it is begun from is one
   in which members know their paks. *)
DeletesWhatIsShown == ~misparented =>
  /\ pc = "deleting" =>
       /\ Len(array) <= numsel
       /\ \A k \in 1 .. Len(array) - 1 : array[k] < array[k + 1]
       /\ \A x \in ToSet(array) : Members(directory, x) \cap ToSet(array) = {}
       /\ WithMembers(directory, ToSet(array)) = WithMembers(directory, chosen)
  /\ pc = "removing" => WithMembers(directory, chosen) = DOMAIN directory

(* Whatever is open, selected and sorted, an extraction or a test meets each
   file it is to meet once - on its own or inside its pak, never both - and the
   list of them fits the room made for it, while members know their paks. *)
ExtractsOnce ==
  ~misparented /\ pc = "idle" => \A type \in {0, 1}, directories \in BOOLEAN :
    LET list == ExtractList(view, type, directories)
        met(k) == WithMembers(directory, {view.lventries[list[k]].filepos})
        chose == {Shown(r).filepos : r \in IF type = 0 THEN Rows ELSE view.items.selected}
        wanted == {x \in WithMembers(directory, chose) :
                     directories \/ directory[x].type # "folder"}
        content(s) == {x \in s : ~IsPak(directory[x])}
    IN /\ Len(list) <= ExtractRoom(view, type)
       /\ UNION {content(met(k)) : k \in DOMAIN list} = content(wanted)
       /\ \A j, k \in DOMAIN list : j # k => met(j) \cap met(k) = {}
=============================================================================
