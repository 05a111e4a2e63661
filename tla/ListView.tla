------------------------------- MODULE ListView -------------------------------
(***************************************************************************)
(* The list view of a folder with its sub-folders: the list model, the     *)
(* handlers by which the view follows each folder, and the timers that     *)
(* unload what was collapsed.                                              *)
(*                                                                         *)
(* The folders are folders of the cache: what they hold changes, they tell *)
(* whoever is connected, and reading one takes time.  What a handler calls *)
(* runs to its end before anything else happens; its loops, and functions  *)
(* that call themselves, go on in steps, since each of them sends signals. *)
(***************************************************************************)
EXTENDS ListModel

CONSTANTS
    Root,       \* the folder of the slot
    Home,       \* Home[f]: the folder a file lies in
    Coming,     \* the files that come and go
    Growing,    \* the files whose size changes
    Sizes,      \* the sizes of files
    Orders,     \* the columns the user sorts by, each with its direction
    MaxTimers,  \* bound: pending unload timers of a folder
    MaxAfter    \* bound: events after a mishap

ASSUME OrdersAssumption == Orders \subseteq Columns \X BOOLEAN
ASSUME BoundsAssumption == Sizes \subseteq Int /\ MaxTimers \in Nat /\ MaxAfter \in Nat
ASSUME RootAssumption == Root \notin Files /\ Home \in [Files -> Folders \cup {Root}]

Dirs == Folders \cup {Root}

VARIABLES
    model,      \* the FMListModel, a record (see ListModel)
    calls,      \* the calls at work, the innermost first
    has,        \* has[d]: the files in d
    loading,    \* the folders the view follows that are being read
    read,       \* read[d]: the files the reading of d has come to
    failed,     \* those whose reading failed or was given up
    connected,  \* the folders whose signals the view handles
    held,       \* loaded_subdirectories: how often the view holds a folder
    timers,     \* timers[d]: scheduled unloads of the row of d
    missed,     \* history: the folders of which the view has missed files
    mishaps,    \* history: see the properties
    after       \* events since the first of them

reading == <<loading, read, failed, missed>>
vars == <<model, calls, has, reading, connected, held, timers, mishaps, after>>

\* A folder that was deleted, or lies in one, tells nothing any more.
Alive == LET up[n \in 0..Cardinality(Folders)] ==
               IF n = 0 THEN {Root}
               ELSE up[n-1] \cup {d \in Folders : Home[d] \in up[n-1] /\ d \in has[Home[d]]}
         IN  up[Cardinality(Folders)]

Removing(row) == [do |-> "remove", row |-> row]     \* fm_list_model_remove
Clearing(row) == [do |-> "clear", row |-> row]       \* fm_list_model_clear_directory
Unloading(row) == [do |-> "unload", row |-> row]     \* fm_list_model_unload_subdirectory
\* file_loaded for each of the files; done_loading after the last
Listing(d, files, last) == [do |-> "list", dir |-> d, files |-> files, last |-> last]
ListingAgain(dirs) == [do |-> "again", dirs |-> dirs]             \* GOFDirectoryAsync.load of each
Sorting(rows) == [do |-> "sort", rows |-> rows]              \* fm_list_model_sort

Calls == [do : {"remove", "clear", "unload"}, row : Seq(Entries)]
         \cup [do : {"list"}, dir : Dirs, files : SUBSET Files, last : BOOLEAN]
         \cup [do : {"again"}, dirs : SUBSET Dirs]
         \cup [do : {"sort"}, rows : SUBSET Seq(Folders)]

TypeOK ==
    /\ \A row \in DOMAIN model.lists :
          row \in Seq(Folders) /\ model.lists[row] \in Seq(Entries)
    /\ calls \in Seq(Calls)
    /\ has \in [Dirs -> SUBSET Files]
    /\ loading \subseteq Dirs
    /\ read \in [Dirs -> SUBSET Files]
    /\ failed \subseteq Dirs
    /\ missed \subseteq Dirs
    /\ connected \subseteq Dirs
    /\ held \in [Folders -> Nat]
    /\ timers \in [Folders -> 0..MaxTimers]
    /\ after \in 0..MaxAfter
    /\ mishaps \subseteq {"hidden", "orphaned", "reexpanded", "single"}

\* The view stays connected to the folders whose rows go away with this one.
Orphaned(row) ==
    IF \E r \in Below(row, model.sub) : Last(r) \in connected THEN {"orphaned"} ELSE {}

Init ==
    /\ has = [d \in Dirs |-> {f \in Files : Home[f] = d}]
    /\ model = EmptyModel([f \in Files |-> 0])
    /\ calls = <<>>
    /\ loading = {Root}
    /\ read = [d \in Dirs |-> {}]
    /\ failed = {}
    /\ missed = {}
    /\ connected = {Root}
    /\ held = [d \in Folders |-> 0]
    /\ timers = [d \in Folders |-> 0]
    /\ mishaps = {}
    /\ after = 0
-----------------------------------------------------------------------------
(* What the folders do.                                                    *)

\* next_files_async gives some more files: file_loaded for each of them.
Batch(d, some) ==
    /\ d \in loading /\ some # {} /\ some \subseteq has[d] \ read[d]
    /\ read' = [read EXCEPT ![d] = @ \cup some]
    /\ calls' = IF d \in connected THEN <<Listing(d, some, FALSE)>> ELSE <<>>
    /\ UNCHANGED <<model, has, loading, failed, missed, connected, held, timers, mishaps>>

\* done_loading, whose handler sets the sort column again.
ReadingEnds(d) ==
    /\ loading' = loading \ {d}
    /\ read' = [read EXCEPT ![d] = {}]
    /\ calls' = IF d \in connected THEN <<Sorting(ListsToSort(model))>> ELSE <<>>
    /\ UNCHANGED <<model, has, connected, held, timers, mishaps>>

DoneLoading(d) ==
    /\ d \in loading /\ read[d] = has[d]
    /\ ReadingEnds(d)
    /\ UNCHANGED <<failed, missed>>

ReadingFails(d) ==
    /\ d \in loading
    /\ ReadingEnds(d)
    /\ failed' = failed \cup {d}
    /\ missed' = missed \cup {d}

\* A folder is monitored from the start of its reading on.
Told(d, files) == read' = [read EXCEPT ![d] = IF d \in loading THEN files ELSE {}]

\* A folder that comes back holds what it held.
FileAdded(f) ==
    LET d == Home[f]
    IN  /\ f \in Coming /\ d \in Alive /\ f \notin has[d]
        /\ has' = [has EXCEPT ![d] = @ \cup {f}]
        /\ Told(d, read[d] \cup {f})
        /\ model' = IF d \in connected THEN AddFile(model, f, d) ELSE model
        /\ UNCHANGED <<calls, loading, failed, missed, connected, held, timers, mishaps>>

FileDeleted(f) ==
    LET d == Home[f]
        row == IF d \in connected THEN LookupFile(model, f, d) ELSE NoRow
    IN  /\ f \in Coming /\ d \in Alive /\ f \in has[d]
        /\ has' = [has EXCEPT ![d] = @ \ {f}]
        /\ Told(d, read[d] \ {f})
        /\ calls' = IF row = NoRow THEN <<>> ELSE <<Removing(row)>>
        /\ mishaps' = mishaps \cup Orphaned(row)
        /\ UNCHANGED <<model, loading, failed, missed, connected, held, timers>>

FileGrows(f) ==
    LET d == Home[f]
    IN  /\ d \in Alive /\ f \in has[d] \cap Growing
        /\ \E s \in Sizes \ {model.size[f]} :
             model' = LET m == [model EXCEPT !.size[f] = s]
                      IN  IF d \in connected THEN FileChanged(m, f, d) ELSE m
        /\ UNCHANGED <<calls, has, reading, connected, held, timers, mishaps>>

StartReading(d) ==
    /\ loading' = loading \cup {d}
    /\ read' = [read EXCEPT ![d] = {}]
    /\ failed' = failed \ {d}
    /\ missed' = missed \ {d}

\* GOFDirectoryAsync.load, and the calls that go on after it: while the folder is
\* being read it does nothing, and what was read before is not told again.
Load(d, rest) ==
    \/ /\ d \in loading
       /\ missed' = IF read[d] = {} THEN missed ELSE missed \cup {d}
       /\ calls' = rest
       /\ UNCHANGED <<loading, read, failed>>
    \/ /\ d \in failed
       /\ StartReading(d)
       /\ calls' = rest
    \/ /\ d \notin loading \cup failed
       /\ calls' = <<Listing(d, has[d], TRUE)>> \o rest
       /\ missed' = missed \ {d}
       /\ UNCHANGED <<loading, read, failed>>

\* load of a folder the view did not follow: it is read now; or it has been read, for
\* another tab or before, and is served at once; or its reading is under way.
LoadShared(d) ==
    \/ StartReading(d) /\ calls' = <<>>
    \/ /\ calls' = <<Listing(d, has[d], TRUE)>>
       /\ missed' = missed \ {d} /\ failed' = failed \ {d}
       /\ UNCHANGED <<loading, read>>
    \/ /\ \E some \in SUBSET has[d] \ {{}} : read' = [read EXCEPT ![d] = some]
       /\ loading' = loading \cup {d}
       /\ missed' = missed \cup {d} /\ failed' = failed \ {d}
       /\ calls' = <<>>
-----------------------------------------------------------------------------
(* What the user does.                                                     *)

HasChild(row) == row \in DOMAIN model.lists /\ model.lists[row] # <<>>

\* on_row_expanded and add_subdirectory.
Expand(row) ==
    LET d == Last(row)
        opened == [model EXCEPT !.open = @ \cup {row}]
    IN  /\ row # Top /\ HasChild(row) /\ row \notin model.open
        /\ Len(row) > 1 => Front(row) \in model.open
        /\ IF CanLoadSubdirectory(model, row)
           THEN /\ model' = LoadSubdirectory(opened, row)
                /\ connected' = connected \cup {d}
                /\ held' = [held EXCEPT ![d] = @ + 1]
                /\ IF d \in loading THEN Load(d, <<>>) ELSE LoadShared(d)
                /\ UNCHANGED mishaps
           ELSE /\ model' = opened
                /\ mishaps' = mishaps \cup {"reexpanded"}
                /\ UNCHANGED <<calls, reading, connected, held>>
        /\ UNCHANGED <<has, timers>>

\* remove_subdirectory disconnects every handler and gives up one reference.  Its
\* reading, if it goes on, is no more to the view than one of another tab.
Release(d) ==
    /\ connected' = connected \ {d}
    /\ held' = [held EXCEPT ![d] = IF @ > 0 THEN @ - 1 ELSE 0]
    /\ loading' = loading \ {d}
    /\ read' = [read EXCEPT ![d] = {}]
    /\ failed' = failed \ {d}
    /\ missed' = missed \ {d}

\* on_row_collapsed; the rows below are closed with the row.
Collapse(row) ==
    LET d == Last(row)
    IN  /\ row \in model.open
        /\ timers[d] < MaxTimers
        /\ model' = [model EXCEPT !.open = @ \ Below(row, @)]
        /\ timers' = [timers EXCEPT ![d] = @ + 1]
        /\ Release(d)
        /\ UNCHANGED <<calls, has, mishaps>>

\* schedule_model_unload_directory, after its delay; unloading cancels the
\* reading of the folder.
UnloadTimer(d) ==
    /\ timers[d] > 0
    /\ timers' = [timers EXCEPT ![d] = @ - 1]
    /\ \/ /\ FirstItersForFile(model, d) = {}
          /\ UNCHANGED <<model, calls, loading, read, failed, mishaps>>
       \/ \E row \in FirstItersForFile(model, d) :
             IF row \in model.open \/ row \notin model.sub
             THEN UNCHANGED <<model, calls, loading, read, failed, mishaps>>
             ELSE /\ model' = UnloadSubdirectory(model, row)
                  /\ calls' = <<Unloading(row)>>
                  /\ loading' = loading \ {d}
                  /\ read' = [read EXCEPT ![d] = {}]
                  /\ failed' = failed \cup ({d} \cap loading)
                  /\ mishaps' = mishaps \cup Orphaned(row)
    /\ UNCHANGED <<has, missed, connected, held>>

\* set_sort_column_id.  A list of one row is not looked into.
Sort(column, reversed) ==
    /\ <<column, reversed>> # <<model.column, model.reversed>>
    /\ model' = SetSortColumn(model, column, reversed)
    /\ calls' = <<Sorting(ListsToSort(model))>>
    /\ mishaps' = mishaps \cup
          (IF \E row, r \in DOMAIN model.lists :
                 Len(model.lists[row]) = 1 /\ IsStrictPrefix(row, r) /\ Len(model.lists[r]) > 1
           THEN {"single"} ELSE {})
    /\ UNCHANGED <<has, reading, connected, held, timers>>

\* on_show_hidden_files_changed when hidden files are to be hidden: the model
\* is cleared, and the view's folder and all those it holds are loaded again.
HideHidden ==
    LET subs == {d \in Folders : held[d] > 0}
    IN  /\ calls' = <<Clearing(Top), ListingAgain({Root}), ListingAgain(subs)>>
        /\ mishaps' = IF subs = {} THEN mishaps ELSE mishaps \cup {"hidden"}
        /\ UNCHANGED <<model, has, reading, connected, held, timers>>

\* change_directory and the load that follows it.  What is known of the folder is
\* given up first, unless the user has been to another folder and comes back.
Reload ==
    /\ calls' = <<Clearing(Top), ListingAgain({Root})>>
    /\ connected' = {Root}
    /\ held' = [d \in Folders |-> 0]
    /\ \/ loading' = {} /\ failed' = {Root}
       \/ loading' = loading \cap {Root} /\ failed' = failed \cap {Root}
    /\ read' = [d \in Dirs |-> IF d \in loading' THEN read[d] ELSE {}]
    /\ missed' = {}
    /\ UNCHANGED <<model, has, timers, mishaps>>
-----------------------------------------------------------------------------
(* The calls.                                                              *)

Call == Head(calls)
Return == calls' = Tail(calls)
MakeCalls(inner) == calls' = inner \o calls

\* fm_list_model_remove empties the row first.
RemoveChild ==
    LET row == Call.row
    IN  /\ Call.do = "remove" /\ IsRow(model, row) /\ HasChild(row)
        /\ IF Head(model.lists[row]) = Dummy
           THEN model' = RemoveDummy(model, row) /\ UNCHANGED calls
           ELSE /\ ChildToRemove(model, row) # NoRow
                /\ MakeCalls(<<Removing(ChildToRemove(model, row))>>)
                /\ UNCHANGED model

RemoveItself ==
    /\ Call.do = "remove" /\ IsRow(model, Call.row) /\ ~HasChild(Call.row)
    /\ model' = RemoveRow(model, Call.row)
    /\ Return

\* One row of fm_list_model_clear_directory.
ClearDirectory ==
    LET row == Call.row
        first == Append(row, Head(model.lists[row]))
    IN  /\ Call.do = "clear" /\ row \in DOMAIN model.lists
        /\ IF ~HasChild(row) THEN Return
           ELSE MakeCalls((IF first \in DOMAIN model.lists THEN <<Clearing(first)>> ELSE <<>>)
                          \o <<Removing(first)>>)
        /\ UNCHANGED model

\* One child in fm_list_model_unload_subdirectory, or its end, which asserts
\* that none is found any more.
UnloadChild ==
    LET row == Call.row
    IN  /\ Call.do = "unload" /\ row \in model.sub
        /\ IF HasChild(row) /\ Head(model.lists[row]) # Dummy
           THEN /\ MakeCalls(<<Removing(Append(row, Head(model.lists[row])))>>)
                /\ UNCHANGED model
           ELSE /\ model.rev[row] = {}
                /\ model' = Unloaded(model, row)
                /\ Return

\* file_loaded, with its handler, for one file after the other.
ListFile ==
    /\ Call.do = "list" /\ Call.files # {}
    /\ \E f \in Call.files :
          /\ model' = AddFile(model, f, Call.dir)
          /\ calls' = <<[Call EXCEPT !.files = @ \ {f}]>> \o Tail(calls)

\* done_loading, if the folder has told everything.
ListDone ==
    /\ Call.do = "list" /\ Call.files = {}
    /\ calls' = IF Call.last /\ Call.dir \in connected
                THEN <<Sorting(ListsToSort(model))>> \o Tail(calls) ELSE Tail(calls)
    /\ UNCHANGED model

\* GOFDirectoryAsync.load of one folder after the other.
ListNext ==
    /\ Call.do = "again"
    /\ IF Call.dirs = {} THEN Return /\ UNCHANGED reading
       ELSE \E d \in Call.dirs : Load(d, <<ListingAgain(Call.dirs \ {d})>> \o Tail(calls))
    /\ UNCHANGED model

\* fm_list_model_sort_file_entries: the lists below first.
SortNext ==
    /\ Call.do = "sort"
    /\ IF Call.rows = {} THEN Return /\ UNCHANGED model
       ELSE \E row \in Call.rows :
               /\ \A r \in Call.rows : ~IsStrictPrefix(row, r)
               /\ model' = SortFileEntries(model, row)
               /\ calls' = <<Sorting(Call.rows \ {row})>> \o Tail(calls)

Working ==
    /\ calls # <<>>
    /\ \/ /\ \/ RemoveChild \/ RemoveItself \/ ClearDirectory \/ UnloadChild
             \/ ListFile \/ ListDone \/ SortNext
          /\ UNCHANGED reading
       \/ ListNext
    /\ UNCHANGED <<has, connected, held, timers, mishaps, after>>

Happens ==
    /\ calls = <<>> /\ (mishaps = {} \/ after < MaxAfter)
    /\ after' = IF mishaps = {} THEN 0 ELSE after + 1
    /\ \/ \E d \in Dirs : \/ \E some \in SUBSET (has[d] \ read[d]) : Batch(d, some)
                         \/ DoneLoading(d) \/ ReadingFails(d)
       \/ \E f \in Files : FileAdded(f) \/ FileDeleted(f) \/ FileGrows(f)
       \/ \E row \in DOMAIN model.lists : Expand(row) \/ Collapse(row)
       \/ \E d \in Folders : UnloadTimer(d)
       \/ \E o \in Orders : Sort(o[1], o[2])
       \/ HideHidden
       \/ Reload

Next == Happens \/ Working

Spec == Init /\ [][Next]_vars
-----------------------------------------------------------------------------
(* Properties.                                                             *)

\* Whoever follows the signals of the model (the widget, with the selection
\* and the open rows it keeps by position) knows every list as it is, after
\* each of them.
ShownIsModel == model.shown = model.lists

\* A loop never ends, a row that was freed is used, or the assertion at the
\* end of fm_list_model_unload_subdirectory fails.
Stuck ==
    /\ calls # <<>>
    /\ LET row == Call.row
       IN  \/ Call.do = "remove" /\ ~IsRow(model, row)
           \/ /\ Call.do = "remove" /\ HasChild(row)
              /\ Head(model.lists[row]) # Dummy /\ ChildToRemove(model, row) = NoRow
           \/ Call.do = "clear" /\ row \notin DOMAIN model.lists
           \/ Call.do = "unload" /\ row \notin model.sub
           \/ /\ Call.do = "unload" /\ model.rev[row] # {}
              /\ HasChild(row) => Head(model.lists[row]) = Dummy

\* The maps from files and folders to rows are those of the rows that exist,
\* every folder without files has its dummy row and no other has one, when all
\* calls have returned, and they all do.  The code keeps this while a folder
\* has one row at most.
MapsAgree ==
    mishaps \cap {"hidden", "orphaned"} = {} =>
    /\ ~Stuck
    /\ calls = <<>> =>
       /\ DOMAIN model.rev = model.sub \cup {Top}
       /\ \A row \in DOMAIN model.rev : model.rev[row] = ToSet(model.lists[row]) \ {Dummy}
       /\ model.dirs = [d \in {Last(r) : r \in model.sub} |->
                          CHOOSE r \in model.sub : Last(r) = d]
       /\ \A row \in DOMAIN model.lists \ {Top} :
             Dummy \in ToSet(model.lists[row]) => model.lists[row] = <<Dummy>>
       /\ \A row \in DOMAIN model.lists \ {Top} : model.lists[row] # <<>>

\* An open row, and the top, show nothing from another folder; while the folder is
\* read they show all that has been read, and then all there is.  The view misses
\* files when the reading fails, and when it asks for a folder in the midst of its
\* reading: another tab has begun it, or hiding the hidden files has cleared the
\* rows of the batches before.
RowsBelong ==
    calls = <<>> /\ (mishaps = {} \/ mishaps = {"single"}) =>
    \A row \in {Top} \cup model.open :
       LET d == IF row = Top THEN Root ELSE Last(row)
           rows == ToSet(model.lists[row]) \ {Dummy}
       IN  /\ rows \subseteq has[d]
           /\ d \notin missed => rows = IF d \in loading THEN read[d] ELSE has[d]
\* The rows, and the maps to them, are those of the folders the view follows.
ListsTrue == MapsAgree /\ RowsBelong

\* The rows of every folder the view follows are in order; rows that compare
\* equal have one name.
RowsSorted ==
    calls = <<>> /\ mishaps = {} =>
    \A row \in {Top} \cup model.open : \A i, j \in DOMAIN model.lists[row] :
       i < j => CompareEntries(model, model.lists[row][i], model.lists[row][j]) <= 0

\* The order of the rows on the screen.
ComesBefore(p, q) ==
    \/ IsStrictPrefix(p, q)
    \/ \E i \in DOMAIN p \cap DOMAIN q :
          p[i] < q[i] /\ SubSeq(p, 1, i-1) = SubSeq(q, 1, i-1)

\* Walking from any row, as the thumbnailer's caller does, leaves none of the
\* rows out that follow it on the screen, and comes to each but once.
WalkVisitsAll ==
    LET visible == UNION {{Append(row, g) : g \in ToSet(model.lists[row])} :
                             row \in {Top} \cup model.open}
        before(a, b) == ComesBefore(GetPath(model.lists, a), GetPath(model.lists, b))
    IN  \A row \in visible :
           LET next == NextVisible(model, row)
               later == {r \in visible : before(row, r)}
           IN  IF later = {} THEN next = NoRow
               ELSE next \in later /\ \A r \in later \ {next} : before(next, r)

\* The widget and whoever walks through the rows see them as they are.
WidgetTrue == ShownIsModel /\ WalkVisitsAll

\* A row that the user opened stays open, whatever comes and goes in it,
\* until he closes it or one above it, or it is about to go itself.
KeptOpen ==
    [][\A row \in model.open :
          \/ row \in model'.open
          \/ row \notin DOMAIN model'.lists
          \/ \E above \in model.open : IsPrefix(above, row) /\ Collapse(above)
          \/ \E i \in DOMAIN calls : calls[i] = Removing(row)]_vars
=============================================================================
