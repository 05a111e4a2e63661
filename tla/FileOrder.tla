------------------------------ MODULE FileOrder ------------------------------
(***************************************************************************)
(* The order of the rows of a view: gof_file_compare_for_sort and the      *)
(* comparisons it is made of.  The list model sorts with it, inserts into  *)
(* lists that it sorted, and moves single rows; all of that is only right  *)
(* if the comparison is a strict total order, whatever the column.         *)
(***************************************************************************)
EXTENDS Integers

CONSTANTS
    Files,      \* the files
    Folders,    \* those that are folders
    SortLast,   \* those whose name starts with '.' or '#'
    Name,       \* utf8_collation_key, as the rank of the key
    Type,       \* formated_type, as its rank
    Time        \* modified

ASSUME FoldersAssumption == Folders \subseteq Files /\ SortLast \subseteq Files
ASSUME KeysAssumption == /\ Name \in [Files -> Int]
                         /\ Type \in [Files -> Int]
                         /\ Time \in [Files -> Int]

Columns == {"name", "size", "type", "modified"}

By(a, b) == IF a < b THEN -1 ELSE IF a > b THEN 1 ELSE 0

\* The second comparison decides where the first does not.
OrElse(c, d) == IF c # 0 THEN c ELSE d

DirectoriesFirst(f, g) ==
    IF f \in Folders /\ g \notin Folders THEN -1
    ELSE IF g \in Folders /\ f \notin Folders THEN 1 ELSE 0

CompareByDisplayName(f, g) ==
    IF f \in SortLast /\ g \notin SortLast THEN 1
    ELSE IF f \notin SortLast /\ g \in SortLast THEN -1
    ELSE By(Name[f], Name[g])

\* The size of a file changes; it is an argument.
CompareBySize(size, f, g) == OrElse(DirectoriesFirst(f, g), By(size[f], size[g]))

CompareByType(f, g) ==
    IF f \in Folders /\ g \in Folders THEN 0
    ELSE OrElse(DirectoriesFirst(f, g), By(Type[f], Type[g]))

CompareByTime(f, g) == OrElse(DirectoriesFirst(f, g), By(Time[f], Time[g]))

\* The switch over the column, folders being taken care of.
CompareInColumn(size, column, f, g) ==
    LET key == CASE column = "size"     -> CompareBySize(size, f, g)
                 [] column = "type"     -> CompareByType(f, g)
                 [] column = "modified" -> CompareByTime(f, g)
                 [] OTHER               -> 0
    IN  OrElse(key, CompareByDisplayName(f, g))

\* directories_first is TRUE in every call; folders stay first when the
\* order is reversed.
CompareForSort(size, column, reversed, f, g) ==
    LET c == CompareInColumn(size, column, f, g)
    IN  IF f = g THEN 0
        ELSE OrElse(DirectoriesFirst(f, g), IF reversed THEN 0 - c ELSE c)
=============================================================================
