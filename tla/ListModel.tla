------------------------------ MODULE ListModel ------------------------------
(***************************************************************************)
(* FMListModel, the GtkTreeModel behind the views: rows in sorted lists,   *)
(* sub-folders with rows of their own, the dummy row that keeps a folder's *)
(* expander, the maps from files and folders to rows, and the signals that *)
(* tell the widget what changed.                                           *)
(*                                                                         *)
(* A row is the sequence of files on the way to it; <<>> is the top.  A    *)
(* model is a record                                                       *)
(*   lists   the sequence of children of each row that has files # NULL    *)
(*   sub     the rows whose subdirectory is set                            *)
(*   rev     top_reverse_map, and the reverse_map of the rows in sub       *)
(*   dirs    directory_reverse_map                                         *)
(*   column, reversed    sort_id and order                                 *)
(*   size    the sizes of the files                                        *)
(*   shown   the lists as somebody knows them who follows the signals      *)
(*   open    the rows the widget has expanded                              *)
(* and each function of the code an operator from models to models.  Where *)
(* a function loops or calls itself, the operators here are what one round *)
(* does; ListView has the calls.                                           *)
(***************************************************************************)
EXTENDS FileOrder, SequencesExt

CONSTANT Dummy   \* the file of a dummy row: NULL

ASSUME DummyAssumption == Dummy \notin Files

Entries == Files \cup {Dummy}
NoRow == <<Dummy, Dummy>>
Top == <<>>

EmptyModel(size) ==
    [lists |-> [row \in {Top} |-> <<>>], sub |-> {}, rev |-> [row \in {Top} |-> {}],
     dirs |-> [d \in {} |-> Top], column |-> "name", reversed |-> FALSE, size |-> size,
     shown |-> [row \in {Top} |-> <<>>], open |-> {}]

With(fn, key, value) ==
    [x \in DOMAIN fn \cup {key} |-> IF x = key THEN value ELSE fn[x]]
Without(fn, keys) == [x \in DOMAIN fn \ keys |-> fn[x]]
Where(s, x) == CHOOSE i \in DOMAIN s : s[i] = x
IsRow(m, row) ==
    row # Top /\ Front(row) \in DOMAIN m.lists /\ Last(row) \in ToSet(m.lists[Front(row)])
Below(row, rows) == {r \in rows : IsPrefix(row, r)}

\* fm_list_model_file_entry_compare_func: the dummy row comes first.
CompareEntries(m, f, g) ==
    IF f # Dummy /\ g # Dummy THEN CompareForSort(m.size, m.column, m.reversed, f, g)
    ELSE IF f = Dummy THEN -1 ELSE 1

\* g_sequence_insert_sorted: behind all that are not greater.
InsertSorted(m, s, f) ==
    LET greater == {i \in DOMAIN s : CompareEntries(m, s[i], f) > 0}
        at == IF greater = {} THEN Len(s) + 1 ELSE Min(greater)
    IN  InsertAt(s, at, f)

\* get_path: the positions on the way to a row.
GetPath(lists, row) ==
    [i \in 1..Len(row) |-> Where(lists[SubSeq(row, 1, i - 1)], row[i])]

\* get_iter: the row at a path, in the model or in what was shown of it.
GetIter(lists, path) ==
    LET at[i \in 0..Len(path)] ==
          IF i = 0 THEN Top
          ELSE IF at[i-1] \in DOMAIN lists /\ path[i] \in DOMAIN lists[at[i-1]]
               THEN Append(at[i-1], lists[at[i-1]][path[i]])
               ELSE NoRow
    IN  at[Len(path)]
-----------------------------------------------------------------------------
(* Moving from row to row.                                                 *)

IterNext(m, row) ==
    LET files == m.lists[Front(row)]
        i == Where(files, Last(row))
    IN  IF i < Len(files) THEN Append(Front(row), files[i + 1]) ELSE NoRow

IterChildren(m, row) ==
    IF row \notin DOMAIN m.lists THEN NoRow
    ELSE IF m.lists[row] = <<>> THEN NoRow
    ELSE Append(row, m.lists[row][1])

\* get_next_visible_iter of the list view when it does not go down: the next
\* row, or the one after the nearest parent that has one.
NextAfter(m, row) ==
    LET levels == {n \in 1..Len(row) : IterNext(m, SubSeq(row, 1, n)) # NoRow}
    IN  IF levels = {} THEN NoRow ELSE IterNext(m, SubSeq(row, 1, Max(levels)))

NextVisible(m, row) ==
    IF row \in m.open /\ IterChildren(m, row) # NoRow THEN IterChildren(m, row)
    ELSE NextAfter(m, row)
-----------------------------------------------------------------------------
(* The signals, and what a listener makes of them.                         *)

\* A folder's row can have children from the moment it is there.
WithRow(shown, row) ==
    IF Last(row) \in Folders THEN With(shown, row, <<>>) ELSE shown

RowInserted(m, path) ==
    LET row == GetIter(m.lists, path)
        parent == GetIter(m.shown, Front(path))
        children == InsertAt(m.shown[parent], Last(path), Last(row))
    IN  [m EXCEPT !.shown = WithRow([@ EXCEPT ![parent] = children], row)]

\* The dummy row has become a file.
RowChanged(m, path) ==
    LET row == GetIter(m.lists, path)
        parent == GetIter(m.shown, Front(path))
    IN  [m EXCEPT !.shown =
            WithRow([@ EXCEPT ![parent][Last(path)] = Last(row)], row)]

\* The widget collapses a row that has lost its last child.
RowDeleted(m, path) ==
    LET row == GetIter(m.shown, path)
        parent == Front(row)
        left == RemoveAt(m.shown[parent], Last(path))
    IN  [m EXCEPT !.shown = Without([@ EXCEPT ![parent] = left], Below(row, DOMAIN @)),
                  !.open = @ \ (Below(row, @) \cup (IF left = <<>> THEN {parent} ELSE {}))]

\* newOrder[newpos] = oldpos
RowsReordered(m, parent, newOrder) ==
    [m EXCEPT !.shown[GetIter(m.shown, GetPath(m.lists, parent))] =
        [i \in DOMAIN @ |-> @[newOrder[i]]]]
-----------------------------------------------------------------------------
(* Adding, changing and sorting.                                           *)

AddDummyRow(m, parent) ==
    LET new == [m EXCEPT !.lists[parent] = InsertSorted(m, @, Dummy)]
    IN  RowInserted(new, GetPath(new.lists, Append(parent, Dummy)))

\* A folder that is no row's subdirectory is taken for the view's own.
ParentOf(m, dir) == IF dir \in DOMAIN m.dirs THEN m.dirs[dir] ELSE Top

AddFile(m, file, dir) ==
    LET parent == ParentOf(m, dir)
        row == Append(parent, file)
        replacedDummy == parent # Top /\ m.lists[parent] = <<Dummy>>
        old == IF replacedDummy THEN <<>> ELSE m.lists[parent]
        in == [m EXCEPT !.lists = WithRow([@ EXCEPT ![parent] = InsertSorted(m, old, file)], row),
                        !.rev[parent] = @ \cup {file}]
        path == GetPath(in.lists, row)
        told == IF replacedDummy THEN RowChanged(in, path) ELSE RowInserted(in, path)
    IN  IF file \in m.rev[parent] THEN m
        ELSE IF file \in Folders THEN AddDummyRow(told, row) ELSE told

LookupFile(m, file, dir) ==
    LET parent == ParentOf(m, dir)
    IN  IF parent \in DOMAIN m.rev /\ file \in m.rev[parent] THEN Append(parent, file) ELSE NoRow

\* Mutant: rows before the one that moved are shifted as well.
MoveOrderShifted(length, before, after) ==
    [i \in 1..length |->
        IF i = after THEN before
        ELSE LET old == IF i < after THEN i ELSE i - 1
             IN  IF old > before THEN old + 1 ELSE old]

\* The permutation that fm_list_model_file_changed computes.
MoveOrder(length, before, after) ==
    [i \in 1..length |->
        IF i = after THEN before
        ELSE LET old == IF i < after THEN i ELSE i - 1
             IN  IF old >= before THEN old + 1 ELSE old]

\* Mutant: a row whose file changed stays where it is.
FileChangedInPlace(m, file, dir) == m

FileChanged(m, file, dir) ==
    LET row == LookupFile(m, file, dir)
        parent == Front(row)
        old == m.lists[parent]
        new == InsertSorted(m, RemoveAt(old, Where(old, file)), file)
        moved == [m EXCEPT !.lists[parent] = new]
    IN  IF row = NoRow THEN m
        ELSE IF new = old THEN m
        ELSE RowsReordered(moved, parent,
                           MoveOrder(Len(old), Where(old, file), Where(new, file)))

\* g_sequence_sort.
SortedFiles(m, files) ==
    CHOOSE s \in [DOMAIN files -> ToSet(files)] :
        /\ IsInjective(s)
        /\ \A i, j \in DOMAIN s : i < j => CompareEntries(m, s[i], s[j]) <= 0

\* The lists that fm_list_model_sort_file_entries comes to: it does nothing at
\* all, not even below, where there is a single row.
ListsToSort(m) ==
    {row \in DOMAIN m.lists : \A n \in 0..Len(row) : Len(m.lists[SubSeq(row, 1, n)]) > 1}

\* fm_list_model_sort_file_entries for one of them, those below it being done.
SortFileEntries(m, row) ==
    LET files == m.lists[row]
        new == SortedFiles(m, files)
    IN  RowsReordered([m EXCEPT !.lists[row] = new], row,
                      [i \in DOMAIN new |-> Where(files, new[i])])

SetSortColumn(m, column, reversed) == [m EXCEPT !.column = column, !.reversed = reversed]
-----------------------------------------------------------------------------
(* Removing.                                                               *)

\* The child that the loop at the start of fm_list_model_remove removes next.
\* One that is not found by its folder would be tried for ever.
ChildToRemove(m, row) ==
    LookupFile(m, Head(m.lists[row]), IF row \in m.sub THEN Last(row) ELSE Dummy)

RemoveDummy(m, row) ==
    RowDeleted([m EXCEPT !.lists[row] = Tail(@)], Append(GetPath(m.lists, row), 1))

\* The row is no longer found by its file.
Forget(m, row) ==
    IF Front(row) \in DOMAIN m.rev THEN [m EXCEPT !.rev[Front(row)] = @ \ {Last(row)}] ELSE m

\* A dummy row takes the place of the last file of a folder.
KeepExpander(m, row, left) ==
    IF Front(row) # Top /\ Len(m.lists[Front(row)]) = left /\ Last(row) # Dummy
    THEN AddDummyRow(m, Front(row)) ELSE m

TakeOut(m, row) ==
    LET files == m.lists[Front(row)]
    IN  RowDeleted([m EXCEPT
                       !.lists = Without([@ EXCEPT ![Front(row)] = RemoveAt(files, Where(files, Last(row)))],
                                         {row}),
                       !.dirs = IF row \in m.sub THEN Without(@, {Last(row)}) ELSE @,
                       !.sub = @ \ {row},
                       !.rev = Without(@, {row})],
                   GetPath(m.lists, row))

\* Mutant: the last file of a folder goes before the dummy row comes.
RemoveRowFirst(m, row) == KeepExpander(TakeOut(Forget(m, row), row), row, 0)

\* fm_list_model_remove, of a row that has no children left: the dummy row comes
\* before the last file goes, or the widget would collapse the folder.
RemoveRow(m, row) == TakeOut(KeepExpander(Forget(m, row), row, 1), row)
-----------------------------------------------------------------------------
(* Sub-folders.                                                            *)

CanLoadSubdirectory(m, row) == Last(row) # Dummy /\ row \notin m.sub

LoadSubdirectory(m, row) ==
    [m EXCEPT !.sub = @ \cup {row},
              !.dirs = With(@, Last(row), row),
              !.rev = With(@, row, {})]

\* Mutant: the folder stays in the map.
UnloadKeepingFolder(m, row) == m

\* fm_list_model_unload_subdirectory, before its loop removes the children ...
UnloadSubdirectory(m, row) == [m EXCEPT !.dirs = Without(@, {Last(row)})]

\* ... and after it, when none is found any more.
Unloaded(m, row) == [m EXCEPT !.sub = @ \ {row}, !.rev = Without(@, {row})]

\* fm_list_model_get_first_iter_for_file: the top comes first, then the
\* sub-folders in the order of a hash table.
FirstItersForFile(m, file) ==
    IF file \in m.rev[Top] THEN {<<file>>}
    ELSE {Append(m.dirs[d], file) : d \in {e \in DOMAIN m.dirs : file \in m.rev[m.dirs[e]]}}
=============================================================================
