--------------------------- MODULE DirectoryChanges ---------------------------
(***************************************************************************)
(* How the views of a local folder follow what happens in it: the monitor, *)
(* the freezing of updates and the notifications of GOF.Directory.Async    *)
(* (libcore/gof-directory-async.vala), with what the tabs of one window    *)
(* that share the folder do to it (src/View/AbstractDirectoryView.vala,    *)
(* Slot.vala, ViewContainer.vala).                                         *)
(*                                                                         *)
(* The disk changes under the program at any time.  What was read in a     *)
(* thread (a listing, the info of one file) reaches the main loop later.   *)
(* The changes queue is one sequence here, consumed in one step: see       *)
(* FileChangesQueue.  Overlapping listings, their failures and hidden      *)
(* files are those of DirectoryLoad.  A file has a version, the number of  *)
(* the disk operation that made it; the GOF.File <<f, k>> is the k-th      *)
(* object for file f that is in use.                                       *)
(***************************************************************************)
EXTENDS Naturals, Sequences, FiniteSets, FiniteSetsExt, SequencesExt

CONSTANTS
  View,        \* the tabs that show the folder
  File,        \* the names in it
  FCHANGES_MAX,\* how many events a frozen folder stores
  MaxOps,      \* bound: operations on the disk
  MaxActs      \* bound: tabs opened, names edited, jobs and creations started, ...

ASSUME ChangesAssumption ==
  /\ FCHANGES_MAX \in Nat \ {0}
  /\ {MaxOps, MaxActs} \subseteq Nat

VARIABLES
  disk,        \* the version of each file, 0 if there is none
  ops, acts,   \* how many there have been
  state,       \* of the folder
  hash,        \* file_hash: the object of each file, 0 for none
  cache,       \* file_cache of the GOF.Files: the same for all folders
  info,        \* the version in gof.info of each object, 0 for null
  gone,        \* the objects with is_gone
  listing,     \* list_directory and what it has read
  monitor,     \* the folder has one
  events,      \* what it has still to emit
  handlers,    \* how often directory_changed is connected to it
  blocked,     \* monitor_blocked
  freeze,      \* freeze_update
  stored,      \* list_fchanges
  changes,     \* the changes queue
  consumers,   \* who will consume it: the idle source of the folder, a job
  notifying,   \* changes_consume_changes is at work
  queries,     \* calls of query_info_async
  shown,       \* the open tabs
  listening,   \* those connected to file_loaded
  frozen,      \* those with updates_frozen
  renaming,    \* those in which a name is edited
  loads,       \* idle sources of load_slot_directory
  reload,      \* the tabs with an idle source of ViewContainer.reload
  creating,    \* the creation of a file: its job, the delay after it
  rows,        \* the rows of each tab
  mishaps      \* history: what has happened of Mishaps

diskVars == <<disk, ops>>
monitorVars == <<monitor, events, handlers, blocked>>
freezeVars == <<freeze, stored>>
queueVars == <<changes, consumers, notifying>>
fileVars == <<hash, cache, info, gone>>
viewVars == <<shown, listening, frozen, renaming, rows>>
idleVars == <<loads, reload>>
folderVars == <<diskVars, acts, state, fileVars, listing, monitorVars,
                freezeVars, queueVars, queries, viewVars, idleVars, creating, mishaps>>

Version == 0 .. MaxOps
MaxObjects == MaxOps + 3
Object == File \X (1 .. MaxObjects)
EventKinds == {"added", "changed", "removed"}
FileChange == [kind : EventKinds, file : File]

\* deaf: an event is thrown away because the monitor is blocked.  forgotten: one
\* is because the folder is frozen once more.  unwatched: the disk changes when it
\* has been read and is not watched yet.  overtaken: two readings of one file, by
\* queries or the listing, come in the wrong order.  doubled: a file has two
\* objects.  leftover: the folder is read while the removal of an earlier file of
\* that name is in the queue or stored.  outlived: it is read when a file is gone
\* whose object the cache keeps.  late: a tab is told done_loading before it was
\* handed all the files.  outrun: the folder hears that a file is removed when the
\* thread has found it and list_directory has not got it.  early: it hears of
\* changes before it is watched.  stuck: no view remembers that it is frozen.
\* shared: it is cleared under a tab that is not reloaded.
Mishaps == {"deaf", "forgotten", "unwatched", "overtaken", "doubled", "leftover",
            "outlived", "late", "outrun", "early", "stuck", "shared"}

NoObjects == [f \in File |-> 0]
Nothing == [pc |-> "none", found |-> NoObjects]

FolderInit ==
  /\ disk = NoObjects /\ ops = 0 /\ acts = 0
  /\ state = "NOT_LOADED"
  /\ hash = NoObjects /\ cache = NoObjects /\ info = [o \in Object |-> 0] /\ gone = {}
  /\ listing = Nothing
  /\ monitor = FALSE /\ events = <<>> /\ handlers = 0 /\ blocked = FALSE
  /\ freeze = FALSE /\ stored = <<>>
  /\ changes = <<>> /\ consumers = {} /\ notifying = FALSE /\ queries = <<>>
  /\ shown = {} /\ listening = {} /\ frozen = {} /\ renaming = {}
  /\ loads = [v \in View |-> 0] /\ reload = {}
  /\ creating = "no"
  /\ rows = [v \in View |-> {}]
  /\ mishaps = {}

\* The main loop is in load, between list_directory and monitor_directory, or in
\* changes_consume_changes.
Loading == state = "LOADING" /\ ~monitor
Busy == Loading \/ notifying
Act == acts < MaxActs /\ acts' = acts + 1
Leftovers ==
  {x \in Range(changes) \cup Range(stored) : x.kind = "removed" /\ disk[x.file] # 0}
Mishap(m, happens) == mishaps' = mishaps \cup (IF happens THEN {m} ELSE {})

-----------------------------------------------------------------------------
(* GOF.Directory.Async: freezing *)

\* real_directory_changed adds the idle source of the folder.
\* Mutant: it does not.
FolderNever(cs) == consumers
Folder(cs) == consumers \cup (IF cs # <<>> THEN {"folder"} ELSE {})

\* directory_changed while the folder is frozen, n times.
Store(es) == stored' = SubSeq(stored \o es, 1, Min({FCHANGES_MAX, Len(stored \o es)}))

\* freeze_update is set to TRUE: what was stored is cleared.
Freeze ==
  /\ freeze' = TRUE /\ stored' = <<>>
  /\ Mishap("forgotten", stored # <<>>)

\* freeze_update is set to FALSE.
\* Mutant: the list is not turned round again.
ReplayedBackwards == Reverse(stored)
Replayed == stored
Full == Len(stored) >= FCHANGES_MAX
Unfreeze ==
  /\ freeze' = FALSE /\ stored' = <<>>
  /\ IF Full
       THEN reload' = shown /\ UNCHANGED queueVars
       ELSE /\ changes' = changes \o Replayed /\ consumers' = Folder(Replayed)
            /\ UNCHANGED <<notifying, reload>>

\* What the folder holds and has looked at.
Hashed == {o \in Object : hash[o[1]] = o[2] /\ info[o] # 0}

\* Mutant: the tabs stay frozen.
DoneLoadingTabsFrozen ==
  /\ Mishap("late", \E v \in listening : ~(Hashed \subseteq rows'[v]))
  /\ listening' = {}
  /\ UNCHANGED frozen
  /\ IF frozen # {} THEN Unfreeze ELSE UNCHANGED <<freezeVars, queueVars, reload>>

\* done_loading is emitted: every tab is disconnected from file_loaded and
\* unfrozen, the first of them does it for the folder.
DoneLoading ==
  /\ Mishap("late", \E v \in listening : ~(Hashed \subseteq rows'[v]))
  /\ listening' = {}
  /\ frozen' = {}
  /\ IF frozen # {} THEN Unfreeze ELSE UNCHANGED <<freezeVars, queueVars, reload>>

-----------------------------------------------------------------------------
(* GOF.Directory.Async: objects and rows *)

InUse(s) ==
  {o \in Object : s.hash[o[1]] = o[2] \/ s.cache[o[1]] = o[2]}
    \cup (UNION {s.rows[v] : v \in View}) \cup {q.object : q \in Range(s.queries)}

\* new GOF.File
New(s, f) == <<f, CHOOSE k \in 1 .. MaxObjects : <<f, k>> \notin InUse(s)>>

\* bound: the objects of a file that are in use at once.
Fits(s) == \A f \in File : \E k \in 1 .. MaxObjects : <<f, k>> \notin InUse(s)

\* The object that stands for f, 0 if there is none.
Known(s, f) == IF s.hash[f] # 0 THEN s.hash[f] ELSE s.cache[f]

Files(q) ==
  [hash |-> hash, cache |-> cache, info |-> info, gone |-> gone, rows |-> rows, queries |-> q]
\* Objects that nothing refers to are freed.
Become(new) ==
  \E s \in {new} : \E used \in {InUse(s)} :
    /\ hash' = s.hash /\ cache' = s.cache /\ rows' = s.rows /\ queries' = s.queries
    /\ info' = [o \in Object |-> IF o \in used THEN s.info[o] ELSE 0]
    /\ gone' = s.gone \cap used

\* file_added, file_loaded: the model has a row for an object at most once.
Shown(s, vs, os) ==
  [s EXCEPT !.rows = [v \in View |-> IF v \in vs THEN @[v] \cup os ELSE @[v]]]

\* file_cache_find_or_insert, where update is update_hash
FindOrInsert(s, f, update) ==
  LET k == IF Known(s, f) = 0 THEN New(s, f)[2] ELSE Known(s, f) IN
  IF update \/ Known(s, f) = 0 THEN [s EXCEPT !.hash[f] = k] ELSE s

\* notify_file_added, notify_file_changed
Ask(s, f, kind) ==
  [s EXCEPT !.queries = Append(@,
     [object |-> <<f, Known(s, f)>>, kind |-> kind, read |-> FALSE, got |-> 0])]

\* notify_file_removed
\* Mutant: the row stays.
RemovedKeepsRow(s, f) ==
  [s EXCEPT !.hash[f] = 0, !.cache[f] = 0, !.gone = @ \cup {<<f, Known(s, f)>>}]
Removed(s, f) ==
  LET o == <<f, Known(s, f)>> IN
  [s EXCEPT !.rows = [v \in View |-> @[v] \ {o}],
            !.hash[f] = 0, !.cache[f] = 0, !.gone = @ \cup {o}]

\* notify_files_added, notify_files_changed, notify_files_removed.  Nobody hears
\* of the folder when no tab shows it.
Notify(s, c) ==
  IF shown = {} THEN s
  ELSE LET t == FindOrInsert(s, c.file, c.kind = "added") IN
       IF c.kind = "removed" THEN Removed(t, c.file) ELSE Ask(t, c.file, c.kind)

-----------------------------------------------------------------------------
(* The disk, the jobs of the program and the monitor *)

Happens(f, kind) ==
  /\ ops < MaxOps
  /\ (disk[f] = 0) = (kind = "added")
  /\ ops' = ops + 1
  /\ disk' = [disk EXCEPT ![f] = IF kind = "removed" THEN 0 ELSE ops + 1]
  /\ events' = IF monitor THEN Append(events, [kind |-> kind, file |-> f]) ELSE events
  /\ Mishap("unwatched", Loading /\ listing.pc # "reading")

\* Another program.
Elsewhere(f, kind) ==
  /\ Happens(f, kind)
  /\ UNCHANGED <<acts, state, fileVars, listing, monitor, handlers, blocked,
                 freezeVars, queueVars, queries, viewVars, idleVars, creating>>

\* A job, which reports what it did and consumes the queue in the end.
JobDoes(f, kind) ==
  /\ Act
  /\ Happens(f, kind)
  /\ changes' = Append(changes, [kind |-> kind, file |-> f])
  /\ consumers' = consumers \cup {"job"}
  /\ UNCHANGED <<state, fileVars, listing, monitor, handlers, blocked,
                 freezeVars, notifying, queries, viewVars, idleVars, creating>>

\* directory_changed
DirectoryChanged ==
  LET es == [i \in 1 .. handlers |-> Head(events)] IN
  /\ ~Busy /\ events # <<>>
  /\ events' = Tail(events)
  /\ IF freeze
       THEN Store(es) /\ UNCHANGED queueVars
       ELSE /\ changes' = changes \o es /\ consumers' = Folder(es)
            /\ UNCHANGED <<notifying, stored>>
  /\ Mishap("deaf", es = <<>>)
  /\ UNCHANGED <<diskVars, acts, state, fileVars, listing, monitor,
                 handlers, blocked, freeze, queries, viewVars, idleVars, creating>>

\* changes_consume_changes: the main loop does nothing else until it returns.
Consume(c) ==
  /\ ~Busy /\ c \in consumers
  /\ consumers' = consumers \ {c}
  /\ notifying' = TRUE
  /\ UNCHANGED <<diskVars, acts, state, fileVars, listing, monitorVars, freezeVars, changes,
                 queries, viewVars, idleVars, creating, mishaps>>

NextChange ==
  /\ notifying /\ changes # <<>> /\ Fits(Files(queries))
  /\ changes' = Tail(changes)
  /\ Become(Notify(Files(queries), Head(changes)))
  /\ mishaps' = mishaps
       \cup (IF listing.pc = "batch" /\ Head(changes).kind = "removed"
               THEN {"outrun"} ELSE {})
       \cup (IF ~monitor /\ shown # {} THEN {"early"} ELSE {})
  /\ UNCHANGED <<diskVars, acts, state, listing, monitorVars, freezeVars, consumers,
                 notifying, shown, listening, frozen, renaming, idleVars, creating>>

Consumed ==
  /\ notifying /\ changes = <<>>
  /\ notifying' = FALSE
  /\ UNCHANGED <<diskVars, acts, state, fileVars, listing, monitorVars, freezeVars, changes,
                 consumers, queries, viewVars, idleVars, creating, mishaps>>

\* The thread of query_info_async reads the file.
QueryRead(i) ==
  /\ ~queries[i].read
  /\ queries' =
       [queries EXCEPT ![i] = [@ EXCEPT !.read = TRUE, !.got = disk[queries[i].object[1]]]]
  /\ UNCHANGED <<diskVars, acts, state, fileVars, listing, monitorVars,
                 freezeVars, queueVars, viewVars, idleVars, creating, mishaps>>

\* changed_and_refresh, add_and_refresh, for an object that is not gone.
Refresh(s, q) ==
  IF q.object \notin s.gone /\ q.kind = "added" THEN Shown(s, shown, {q.object}) ELSE s

\* query_info_async goes on.
QueryReturns(i) ==
  LET q == queries[i]
      s == Files(RemoveAt(queries, i))
  IN
  /\ ~Busy /\ q.read
  /\ Become(IF q.got = 0 THEN s
            ELSE Refresh([s EXCEPT !.info[q.object] = q.got], q))
  /\ mishaps' = mishaps
       \cup (IF q.object \notin gone /\ 0 < q.got /\ q.got < info[q.object]
               THEN {"overtaken"} ELSE {})
       \cup (IF q.object \notin gone /\ hash[q.object[1]] # q.object[2]
               THEN {"doubled"} ELSE {})
  /\ UNCHANGED <<diskVars, acts, state, listing, monitorVars, freezeVars,
                 queueVars, shown, listening, frozen, renaming, idleVars, creating>>

-----------------------------------------------------------------------------
(* GOF.Directory.Async: loading *)

\* load, when a tab's idle source runs.
LoadIdle(v) ==
  /\ ~Busy /\ loads[v] > 0
  /\ loads' = [loads EXCEPT ![v] = @ - 1]
  /\ \/ /\ state = "NOT_LOADED"
        /\ state' = "LOADING"
        /\ listing' = [Nothing EXCEPT !.pc = "reading"]
        /\ UNCHANGED <<freezeVars, queueVars, listening, frozen, rows, reload, mishaps>>
     \/ /\ state = "LOADING"
        /\ UNCHANGED <<state, listing, freezeVars, queueVars, listening, frozen, rows, reload,
                       mishaps>>
     \/ /\ state = "LOADED"
        /\ rows' = [u \in View |-> rows[u] \cup (IF u \in listening THEN Hashed ELSE {})]
        /\ DoneLoading
        /\ UNCHANGED <<state, listing>>
  /\ UNCHANGED <<diskVars, acts, fileVars, monitorVars, queries, shown,
                 renaming, creating>>

\* monitor_directory, while list_directory may be reading already.
Watch ==
  /\ Loading
  /\ monitor' = TRUE /\ handlers' = 1
  /\ UNCHANGED <<diskVars, acts, state, fileVars, listing, events, blocked,
                 freezeVars, queueVars, queries, viewVars, idleVars, creating, mishaps>>

\* The thread of list_directory reads the folder.
ListingReads ==
  /\ listing.pc = "reading"
  /\ listing' = [pc |-> "batch", found |-> disk]
  /\ mishaps' = mishaps
       \cup (IF Leftovers # {} THEN {"leftover"} ELSE {})
       \cup (IF \E f \in File : disk[f] = 0 /\ cache[f] # 0 THEN {"outlived"} ELSE {})
  /\ UNCHANGED <<diskVars, acts, state, fileVars, monitorVars, freezeVars,
                 queueVars, queries, viewVars, idleVars, creating>>

\* list_directory gets the files.  It looks for them in the cache of the
\* GOF.Files; those the folder made itself are only in its hash.
ListingBatch ==
  LET s == Files(queries)
      found == {f \in File : listing.found[f] # 0}
      Of(f) == IF cache[f] # 0 THEN cache[f] ELSE New(s, f)[2]
      files == [s EXCEPT
        !.hash = [f \in File |-> IF f \in found THEN Of(f) ELSE @[f]],
        !.info = [o \in Object |-> IF o[1] \in found /\ o[2] = Of(o[1])
                                     THEN listing.found[o[1]] ELSE @[o]]]
  IN
  /\ ~Busy /\ listing.pc = "batch" /\ Fits(s)
  /\ listing' = [Nothing EXCEPT !.pc = "last"]
  /\ Become(Shown(files, listening, {<<f, Of(f)>> : f \in found}))
  /\ mishaps' = mishaps
       \cup (IF \E f \in found : hash[f] \notin {0, Of(f)} THEN {"doubled"} ELSE {})
       \cup (IF \E f \in found : info[<<f, Of(f)>>] > listing.found[f]
               THEN {"overtaken"} ELSE {})
  /\ UNCHANGED <<diskVars, acts, state, monitorVars, freezeVars, queueVars,
                 shown, listening, frozen, renaming, idleVars, creating>>

\* There are no more.
ListingEnds ==
  /\ ~Busy /\ listing.pc = "last"
  /\ listing' = Nothing
  /\ state' = "LOADED"
  /\ UNCHANGED rows /\ DoneLoading
  /\ UNCHANGED <<diskVars, acts, fileVars, monitorVars, queries, shown,
                 renaming, loads, creating>>

\* The idle sources of ViewContainer.reload, one after the other: each of these
\* tabs clears the folder, starts anew with it and schedules two loads.
\* unblock_model leaves updates_frozen FALSE.
LoadsOfReload == 2
Reload ==
  /\ ~Busy /\ reload # {} /\ listing.pc = "none"
  /\ reload' = {}
  /\ state' = "NOT_LOADED"
  /\ Become([Files(queries) EXCEPT
       !.hash = NoObjects, !.rows = [v \in View |-> IF v \in reload THEN {} ELSE @[v]]])
  /\ monitor' = FALSE /\ handlers' = 0 /\ events' = <<>>
  /\ consumers' = consumers \ {"folder"}
  /\ listening' = listening \cup reload
  /\ frozen' = frozen \ reload
  /\ loads' = [v \in View |-> IF v \in reload THEN loads[v] + LoadsOfReload ELSE loads[v]]
  /\ Mishap("shared", shown # reload)
  /\ UNCHANGED <<diskVars, acts, listing, blocked, freezeVars, changes, notifying, shown,
                 renaming, creating>>

-----------------------------------------------------------------------------
(* The tabs *)

\* A new tab; make_view freezes its view until done_loading.
NewTab(v) ==
  /\ ~Busy /\ Act
  /\ v \notin shown
  /\ shown' = shown \cup {v} /\ listening' = listening \cup {v}
  /\ frozen' = frozen \cup {v} /\ Freeze
  /\ loads' = [loads EXCEPT ![v] = 1]
  /\ UNCHANGED <<diskVars, state, fileVars, listing, monitorVars,
                 queueVars, queries, renaming, rows, reload, creating>>

\* The hidden files (there are none here) shall not be shown any more: in each
\* view on_show_hidden_files_changed clears the rows, sets updates_frozen to
\* FALSE with unblock_model, and loads.
HideHidden ==
  /\ ~Busy /\ Act
  /\ shown # {} /\ frozen' = {}
  /\ \/ /\ state = "LOADED"
        /\ rows' = [v \in View |-> IF v \in shown THEN Hashed ELSE {}]
        /\ listening' = {}
        /\ \E first \in shown :
             IF frozen \ {first} # {} THEN Unfreeze
                                      ELSE UNCHANGED <<freezeVars, queueVars, reload>>
        /\ UNCHANGED <<state, listing>>
     \/ /\ state # "LOADED"
        /\ rows' = [v \in View |-> {}]
        /\ listening' = listening \cup shown
        /\ state' = "LOADING"
        /\ listing' = IF state = "LOADING" THEN listing ELSE [Nothing EXCEPT !.pc = "reading"]
        /\ UNCHANGED <<freezeVars, queueVars, reload>>
  /\ Mishap("stuck", freeze' /\ renaming = {})
  /\ UNCHANGED <<diskVars, fileVars, monitorVars, queries, shown, renaming, loads, creating>>

\* start_renaming_file, on_name_editing_started.
StartRenaming(v) ==
  /\ renaming' = renaming \cup {v}
  /\ frozen' = frozen \cup {v}

\* The handlers of keys and clicks are disconnected from a frozen view.
Rename(v) ==
  /\ ~Busy /\ Act
  /\ v \notin renaming \cup frozen /\ rows[v] # {}
  /\ StartRenaming(v) /\ Freeze
  /\ UNCHANGED <<diskVars, state, fileVars, listing, monitorVars, queueVars,
                 queries, shown, listening, rows, idleVars, creating>>

\* on_name_editing_canceled, which on_name_edited calls too.
RenameEnds(v) ==
  /\ ~Busy /\ v \in renaming
  /\ renaming' = renaming \ {v} /\ frozen' = frozen \ {v}
  /\ Unfreeze
  /\ UNCHANGED <<diskVars, acts, state, fileVars, listing, monitorVars,
                 queries, shown, listening, rows, loads, creating, mishaps>>

\* new_empty_file, create_from_template: block_monitor.
NewFile ==
  /\ ~Busy /\ shown # {} /\ creating = "no"
  /\ Act
  /\ creating' = "job"
  /\ IF monitor /\ ~blocked THEN blocked' = TRUE /\ handlers' = 0
                            ELSE UNCHANGED <<blocked, handlers>>
  /\ UNCHANGED <<diskVars, state, fileVars, listing, monitor, events, freezeVars,
                 queueVars, queries, viewVars, idleVars, mishaps>>

\* The thread of create_job makes the file, or does not.
Created(f) ==
  /\ creating = "job"
  /\ Happens(f, "added")
  /\ changes' = Append(changes, [kind |-> "added", file |-> f])
  /\ creating' = f
  /\ UNCHANGED <<acts, state, fileVars, listing, monitor, handlers, blocked,
                 freezeVars, consumers, notifying, queries, viewVars, idleVars>>

\* create_job_done: create_file_done gets a GOF.File, which is cached if it is
\* new, or returns at once, so the monitor stays blocked; then
\* changes_consume_changes.
CreateJobDone ==
  LET s == Files(queries) IN
  /\ ~Busy /\ notifying' = TRUE /\ Fits(s)
  /\ \/ /\ creating = "job"
        /\ creating' = "no"
        /\ UNCHANGED <<fileVars, queries, rows>>
     \/ \E f \in File :
          /\ creating = f
          /\ creating' = "delay"
          /\ Become(IF Known(s, f) = 0 THEN [s EXCEPT !.cache[f] = New(s, f)[2]] ELSE s)
  /\ UNCHANGED <<diskVars, acts, state, listing, monitorVars, freezeVars, changes, consumers,
                 shown, listening, frozen, renaming, idleVars, mishaps>>

\* 250 ms after create_file_done: its name is edited, then unblock_monitor.
AfterDelay ==
  /\ ~Busy /\ creating = "delay"
  /\ creating' = "no"
  /\ \/ \E v \in shown \ renaming :
          rows[v] # {} /\ StartRenaming(v) /\ Freeze
     \/ UNCHANGED <<renaming, frozen, freezeVars, mishaps>>
  /\ IF monitor /\ blocked THEN blocked' = FALSE /\ handlers' = handlers + 1
                           ELSE UNCHANGED <<blocked, handlers>>
  /\ UNCHANGED <<diskVars, acts, state, fileVars, listing, monitor, events, queueVars,
                 queries, shown, listening, rows, idleVars>>

-----------------------------------------------------------------------------
Thread == ListingReads \/ \E i \in 1 .. Len(queries) : QueryRead(i)

FolderLoop ==
  \/ Watch \/ DirectoryChanged \/ ListingBatch \/ ListingEnds \/ Reload
  \/ (\E c \in {"folder", "job"} : Consume(c)) \/ NextChange \/ Consumed
  \/ \E i \in 1 .. Len(queries) : QueryReturns(i)
  \/ \E v \in View : LoadIdle(v)
  \/ CreateJobDone \/ AfterDelay

User ==
  \/ \E v \in View : NewTab(v) \/ Rename(v) \/ RenameEnds(v)
  \/ HideHidden \/ NewFile \/ (\E f \in File : Created(f))

FolderNext ==
  \/ \E f \in File, k \in EventKinds : Elsewhere(f, k) \/ JobDoes(f, k)
  \/ Thread \/ FolderLoop \/ User

FolderSpec == FolderInit /\ [][FolderNext]_folderVars

\* The threads answer and the main loop dispatches what is ready: both have only
\* so much to do between two changes.  The user need not end anything.
FolderFairSpec ==
  /\ FolderSpec
  /\ WF_folderVars(Thread)
  /\ WF_folderVars(FolderLoop)

-----------------------------------------------------------------------------
(* Properties *)

\* Nothing the folder has been told is still on its way to the views.
Settled ==
  /\ state = "LOADED" /\ events = <<>> /\ consumers = {} /\ ~notifying /\ queries = <<>>
  /\ ~freeze /\ reload = {} /\ \A v \in shown : loads[v] = 0

\* The tabs show each file of the disk, in its last version, and nothing else.
Accurate ==
  \A v \in shown :
    /\ {o[1] : o \in rows[v]} = {f \in File : disk[f] # 0}
    /\ \A o \in rows[v] : info[o] = disk[o[1]]

\* When all is quiet the views tell the truth, whatever happened while the
\* folder was read, frozen or reloaded and in whatever order the answers came,
\* but for the mishaps: those are the ways in which this code loses a change.
SettledIsAccurate == Settled /\ mishaps = {} => Accurate

\* A removed file never comes back into a view, however late the answer to a query
\* about it is; and the rows of the views are objects of the folder, so no file has
\* two rows and whatever removes a file finds its row, until a file has got a
\* second object or only some of the tabs are reloaded.
RowsAreLive ==
  /\ \A v \in View : rows[v] \cap gone = {}
  /\ mishaps \cap {"doubled", "shared"} = {} =>
       \A v \in View : \A o \in rows[v] : hash[o[1]] = o[2]

\* A view that was frozen for the time of loading hears of changes again.
ViewsThaw == \A v \in View : v \in frozen ~> v \notin frozen \/ v \in renaming

\* If no user keeps a name in the edit, the views will tell the truth in the end.
SettlesAccurate ==
  <>[](shown = {} \/ renaming # {} \/ mishaps # {} \/ (Settled /\ Accurate))

=============================================================================
