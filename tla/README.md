# Pantheon Files: a TLA+ model

This directory holds TLA+ specifications of parts of Pantheon Files (the file
manager of elementary OS: a Vala program over a C core library), TLC
configurations that check them on small instances, and proofs for TLAPS. Paths
in this file are relative to `src/`.

`PROJECT.json` says for each definition which lines of the code it stands for,
which runs there are, which property a plausible bug of which definition breaks
(the mutants), where the code is hard to test (the hazards), where it disagrees
with what its comments promise (the findings), and which theorems are proved.

## 1. The system

One process, one GLib main loop. Windows, views, folders and their signals live
in the main loop; a *job* (copy, move, delete, trash, link, create, empty trash)
runs on a thread of GIO's I/O scheduler, and comes back to the main loop in an
idle source, at its end or when it has to show a dialog. What a job did reaches
the views only through the *file changes queue*. Everything else that looks
concurrent is a callback of GIO, of Gtk or of D-Bus that arrives later, in the
main loop: between the call and its callback anything may happen.

| part | code | state | operations | talks to |
|---|---|---|---|---|
| Undo manager | `libcore/marlin-undostack-manager.c` | the queue of actions, the index that separates what is done from what is undone, undo levels, `undo_redo_flag`, per-action `locked` and `freed` | add_action, undo, redo, their callbacks, trash_has_emptied, change of levels | jobs (it starts them and they record in it), windows (`request-menu-update`) |
| Delete and trash job | `libcore/marlin-file-operations.c` | the job's skip/delete-all flags, the scan's counts, what is trashed | scan, trash_files, delete_files, dialogs, end of job | progress info, undo manager, changes queue, views (callback) |
| Copy, move and duplicate job | the same file | overwrite and skip flags, the fallbacks of a move, the transfer's top folder | move_files_prepare, scan, copy_move_file and its recursion, conflict and error dialogs | as above |
| Link and create jobs | the same file | the name that is tried, its count, the flags of the dialogs | one loop each | as above |
| File changes queue | `libcore/marlin-file-changes-queue.c` | one list of changes, the four lists consume_changes collects | put (any thread), consume_changes (main loop) | jobs and monitors put; folders are notified |
| Folders | `libcore/gof-directory-async.vala` | the cache of folders, state, file_hash, cancellable, monitor, freeze list | load, list_directory, load_hiddens, cancel, monitor callbacks | views through signals, queue, GIO |
| Files | `libcore/gof-file.c` | the cache of files, per-file info, icon and flags | get, query, remove, compare | everybody |
| List model | `libcore/fm-list-model.c` | rows, sub-folders, dummy rows, reverse maps | add, remove, sort, load and unload sub-folder | views, Gtk's tree view |
| Views and tabs | `src/View/*.vala` | slot, rows, open rows, frozen or not, pasting or not | open, reload, leave, close, expand, collapse, paste | folders, jobs, clipboard, thumbnailer |
| Thumbnailer | `src/marlin-thumbnailer.c`, `libcore/marlin-icon-info.c` | requests, D-Bus handles, idle functions; the cache of icons | queue, dequeue, ready, error, finished | views, D-Bus service |
| Progress | `libcore/marlin-progress-info*.c`, `src/Progress*.vala` | the info of each job under its lock, its source; the list of jobs; window, notification, hold on the application | start, pause, report, finish; hide, present, close | job threads, main loop |
| Clipboard | `src/marlin-clipboard-manager.c` | the files cut or copied, what can be pasted | cut, copy, paste, a new owner, the answers | display server, views, jobs |
| Trash monitor, bookmarks, tags, search, properties, plugins, dialogs | see `PROJECT.json` | small | | |

What is hard: handlers of one folder's signals belonging to several tabs and to
the location bar; calls of `list_directory` that overlap after a reload; undo
actions that are released while the job of an undo still runs; changes put by a
job's thread while the main loop consumes; recursion of a job over trees whose
entries fail one by one under answers such as "Skip all"; names that are taken
between two attempts; rows that are known by their position to Gtk and by their
file to the model; requests, handles and signals of the thumbnail service that
cross; flags that a thread sets while the main loop emits earlier ones;
answers about a clipboard whose owner has changed.

### What makes each part correct

* Undo manager: the index separates what is undone from what is done; an action
  in use by a job is not released; the windows offer what is possible;
  recording is suspended only while an undo or redo runs, and resumes.
* Jobs: nothing is lost that the user did not agree to lose; what was skipped
  stays; a cancel stops the work; the undo record and the reported changes are
  true; what was asked for is done or the user is told; the job ends.
* Changes queue: every change reaches the views once and in order.
* Folders: a loaded folder is complete, a loading one is being read, every tab
  hears of every file once, and no tab waits for ever.
* Changes of a folder: when all is quiet the tabs show what is on the disk;
  removed files do not come back; what is frozen thaws.
* List model: the widget knows the rows as they are, the maps are those of the
  rows, rows are in order, and an open row stays open.
* Thumbnails: when all is quiet an icon shows the contents as they are, and no
  file waits for ever.
* Progress: what is shown is true, no job is killed by closing a window, nothing
  is kept of a job that is over.
* Clipboard: what can be pasted is known, and a view that pasted can paste again.

## 2. Modules

| module | models | kind |
|---|---|---|
| `UndoManager` | the undo manager, its jobs as operations in flight, the menus of the windows | component |
| `DeleteJob` | `delete_job` with its scan, trash phase, deletion and dialogs | component |
| `CopyMoveJob` | `copy_job`, `move_job` and duplicate, with conflicts and errors | component |
| `FileNames` | the names made up for copies, links and new folders, with limits and FAT | operators |
| `MakeJobs` | `link_job` and `create_job`, several at once, in one folder | component |
| `FileChangesQueue` | the queue, its producers and consume_changes | component |
| `OrderedDelivery` | what the queue promises: each change delivered once, in order | abstract specification |
| `DirectoryLoad` | a cached folder, its `load` and `list_directory` calls, the tabs that show it, the location bar's completion | composition of folders, views, slots |
| `DirectoryChanges` | the monitor, freezing and notification of a folder, with the disk, the jobs, the queue and the tabs | composition of folders, queue, views |
| `FileOrder` | `gof_file_compare_for_sort` | operators |
| `ListModel` | the functions of `FMListModel`, as operators from models to models | operators |
| `ListView` | a list view with expanded sub-folders over the model and its folders | composition |
| `Thumbnails` | the thumbnailer, the service, the cache of icons, the view that asks | composition |
| `JobProgress` | the progress infos, their manager and the window; the job that empties the trash | composition |
| `Clipboard` | the manager, the display server's news and answers, the views' pastes | composition |
| `Undo_proofs` (`MakeJobs`, `UndoManager`), `DeleteJob_proofs`, `CopyMoveJob_proofs`, `DirectoryLoad_proofs`, `Changes_proofs` (`FileChangesQueue`, `DirectoryChanges`), `View_proofs` (`Clipboard`, `Thumbnails`, `JobProgress`), `ListModel_proofs` (`FileOrder`, `ListModel`), `ListView_proofs` | 47 theorems | proofs |
| `MC*` | the sets and functions the configurations assign | model checking |

Definitions keep the code's names where they can. A comment "Mutant:" in front of a
definition marks a variant with a plausible bug in it, which no specification uses;
it shows that a property depends on the code it speaks of.

Several modules have a variable of *mishaps*: history that names, one by one, the
ways in which this code goes wrong or gives up. Each is described where it is
defined. A property claims what the code keeps in all other histories; section 4
lists them, since each is a defect or a limit of the code.

### UndoManager

`stack` is the GQueue, newest first, `index` the position that separates the
undone actions from the others; `kind`, `uris`, `locked`, `freeLater` are fields
of the actions and `phase` says what became of them; `inFlight` holds the undos
and redos whose job has not yet called `undo_redo_done_transfer_callback`; `flag`
is `undo_redo_flag`; `menu` is what the windows last heard in
`request-menu-update`. An operation of the user is `StartOp` (the job is created
and asks whether it may record) and `AddAction` or `FinishWithoutAction` (it
ends). `Undo`, `Redo`, `TransferDone`, `TrashHasEmptied` and `SetUndoLevels` are
whole handlers, evictions and menu update included. `fault` says that the
process read a null or released action; nothing follows that.

### DeleteJob

One job over a tree of files (`Kids`), in the phases of `delete_job`: the
confirmation, `scan_sources`, `trash_files`, `delete_files` with its recursion
as the stack `frames`, and the callback. The files selected are the sequence
`Top`, which may name a folder and a file in it; the lists made from it are sets of
files that are gone through in the order of `Top` (`First`). GIO's calls succeed or fail
nondeterministically; each dialog may get any of the answers it offers; Cancel
may be pressed between any two steps. `disk` and `trashed` are where the files
really are, `agreed` what the user has consented to lose. `Under` is the least set
that is closed under `Kids`; that a skipped file stays is claimed when no selected
file is in another (`Apart`), since otherwise the code may be asked for it twice.

### CopyMoveJob

`job` is one record of the set `Jobs`: its kind, whether the file system can
rename from source to destination (`native`), the names the destination rejects
(`invalid`), what is there beforehand (`old`), the selected files in order
(`top`), and those that would be copied into or over themselves (`into`, `over`).
`Way` says where each file is, as a path of names, so that the files form a tree:
`Under` is what is in a folder at any depth. Several files may have one name, and a
selected file may be in a selected folder. A place is a path below the destination
folder and `dest` says whose content is there. `cur` is the call of `move_file_prepare` or `copy_move_file` at work with
its local flags, `frames` the stack of `copy_move_directory` calls, `removing`
the one of `remove_target_recursively`. `Succeed`, `Respell`, `NextName`,
`Conflict`, `PutOff`, `Empty`, `Recurse`, `Stop` and `Fail` are the outcomes of a
file, in the order in which the code tells them apart. An attempt that fails, or is
cancelled, may leave all as it was, or have emptied the place, begun the file or done all
of it, and still answer FALSE (`LeavesSome`; the comment at
`libcore/marlin-file-operations.c:4362` tells of the last). So does `g_file_copy`, and
`g_file_move` where it falls back on copying; in `move_file_prepare` it is told not to
(`G_FILE_COPY_NO_FALLBACK_FOR_MOVE`), and a rename happens or does not. `left` is the
history of it. A folder whose name is invalid gets the valid spelling of its source's
name, also where a duplicate is made (`MakeFolder`), as `create_dest_dir` has it. The
scan is one step, since `DeleteJob` has it in full; it may fail at up to `MaxFaults`
places. `shown` is what somebody who follows the reported
changes believes to be in the destination; `agreed`, `renamed`, `merged` and `told`
are history. `CopyName` bounds the names that a duplicate tries. That what was
skipped stays is claimed when no selected file is in another (`Apart`), since
otherwise the code may be asked for it twice.

### FileNames and MakeJobs

A name is a sequence of tokens one byte long, so that limits on its length, cutting it
and its suffix mean something. `MakeJobs` has several jobs in one folder: each tries
a name (`Results` says what the file system may answer), takes the next, respells
it, asks or gives up; `case` is the folder and what the jobs are to make, `cur` the
file at hand. Another program (`Meddle`) makes and removes names between any two steps.

### FileChangesQueue and OrderedDelivery

`queue` is the list guarded by the mutex; `lists` are the four local lists of
consume_changes, and a step of the consumer is one turn of its loop, so that
producers come between. Jobs run `consume_changes` from their callback, folders
from an idle source, which `clear_directory_info` may take away. `arrived` and
`sent` are history, and the queue implements `OrderedDelivery` with `heard <- sent`.

### DirectoryLoad

One folder and any tabs. `state`, `cancelled`, `hash` are fields of the folder,
`listing` the `list_directory` calls that are suspended at a `yield`, each with
what it has still to read; `shown`, `fileLoaded`, `frozen`, `rows` belong to the
tabs and `loads` counts the idle sources of `load_slot_directory`, which run also for a tab
that was closed before (`closed`). A call makes
new objects, so that a row of an object nobody keeps is visible as such. No fairness
is assumed here: that no tab waits for ever is said as `NobodyWaits`, a frozen tab
always has a call of list_directory, or an idle source that makes one, to wait for.

### DirectoryChanges

The disk changes at any time: by another program (`Elsewhere`), by a job that
reports it (`JobDoes`), or by a file created in a view (`NewFile`, `Created`,
`CreateJobDone`, `AfterDelay`). A monitored folder gets `events`; `DirectoryChanged`
puts them in `changes`, or in `stored` while `freeze` is on. `notifying` is one
call of consume_changes, which the main loop does not leave; each change makes
the folder find or make an object (`hash`, `cache`, `info`, `gone`) and ask for its
info with a query, whose answer comes later. Tabs freeze the folder while it
loads and while a name is edited, and reload it when more was missed than is stored.
A file has a version, so that "the last version is shown" can be said.

### FileOrder, ListModel and ListView

A row is the sequence of files on the way to it, a model a record of the lists, the
maps, the order and what the widget was told. What `fm-list-model.c` does between two
signals is an operator from models to models, the signal included: it carries a path,
that is positions, and `shown` is what somebody knows who applies them in turn.
Where a function loops or calls itself (`fm_list_model_remove`,
`fm_list_model_clear_directory`, `fm_list_model_unload_subdirectory`, the listing of a
folder, sorting) `ListView` goes on in steps: `calls` is the stack of the calls at work,
the innermost first, and each step is what one of them does up to the next signal. So
the widget and the maps are looked at within a handler, and not only around it; nothing
else happens until the stack is empty, for the code runs in the main loop. `ListView`
also has the folders, which change and are read in their own time, the user, and the
timers that unload what was collapsed. The comparison is a module of its own.

A folder is read in batches of any size (`Batch`), between which anything may happen;
`read` is what its reading has come to, and each file of a batch is told in a step of its
own (`Listing`). A reading ends well (`DoneLoading`) or fails at any point
(`ReadingFails`). `load` does nothing for a folder that is being read, reads one that has
not been, and serves one that has been from its hash (`Load`); a folder that the view
comes to follow may be in the hands of another tab in any of these ways (`LoadShared`).
`missed` is history: the folders of which the view has not been told all, since their
reading failed, or since it asked for them in the midst of it. Files and folders come and
go, and a folder that comes back holds what it held. A folder has one reading at a time
here, and what it tells of a file is true at that moment: two readings, and news that is
late, are `DirectoryLoad`'s and `DirectoryChanges`'.

### Thumbnails

Requests of `MarlinThumbnailer` with the two tables between requests and handles,
the D-Bus service, which also works for other programs and may refuse or fail,
its signals, the idle functions they leave behind, the state and icon of each
file, the cache of icons by path and size, the scrolling view that asks and gives
up its last request, and the thread that goes over the files after a change of zoom.

### JobProgress

A job's thread changes its `MarlinProgressInfo` under the lock and attaches a
source; the main loop begins to dispatch it, takes the flags, and emits, in three
steps, between which the thread goes on. The handlers
(manager, window, widgets, notification, hold on the application) run in `Emit`.

### Clipboard

`owner` is what the display server knows, `files` and `cutted` what the manager
holds, `canPaste` what it believes. News of a new owner, requests and answers take
their time, unless the clipboard is ours: then Gtk answers at once. A paste starts a
job that calls its view back, which the user may have closed.

## 3. Runs

`CHECK_DEADLOCK FALSE` is said where the system may stop: the users need do
nothing, a job ends, or a bound is reached.

| run | instance | what is checked |
|---|---|---|
| `undo` | three operations of every class, two levels that may become three or be refused (0), one uri | index, redos alive, menu; recording resumes |
| `delete` | a file on a share, one in the trash, a folder with a file and a folder in it | what is lost was agreed to, what was skipped stays, the reports and the record are true, a cancel stops, the job ends |
| `changes` | two jobs, a folder, a change of each kind, three changes in flight | jobs are heard, `OrderedDelivery` |
| `dirload` | two tabs and the completion, a visible and a hidden file, three calls of list_directory, failures | a loaded folder is complete; rows complete and alive; no tab waits for ever |
| `copymove` | eleven jobs over a folder with a file and a folder in it, and a file: copies, moves by rename and by copy, a duplicate, a selected file in a selected folder; free, taken and differently spelled names; a new name, "x", which may be taken; one fault of the scan | replacements agreed to, nothing moved lost, record and reports true but for what failed attempts leave, all files accounted for, the job ends |
| `copymove_renamed` | the same, with a new name that is taken | expected violation: what the user wanted to keep is replaced |
| `dirchanges` | two tabs, a file, three operations on the disk, two acts of the users, three events stored | accuracy when all is quiet, rows of living files, thawing, and that quiet accuracy is reached |
| `listview` | a folder with a note and a folder, in which there are two files and a folder with a sketch; batches of any size; a file at the top, a folder and a file in it that come and go; two orders | widget and walk agree with the model, maps and rows with each other and with the folders or what their readings have come to, order, open rows |
| `thumbnails` | a picture, two sizes, two versions, a request of each program at a time, a change of zoom | the icon shows the contents; no file waits for ever |
| `make` | seven pairs of jobs in folders with limits of 2, 5, 6 and none, POSIX, FAT and NTFS; a name that is shortened to make room for its tag (6); two acts of another program | the record takes back what was made, all files accounted for, types kept, the jobs end |
| `progress` | a job that copies and one that empties the trash, two reports and a dialog each | what is shown is true, no job is killed, nothing is kept |
| `clipboard` | a cut or copy, a foreign owner, two pastes in two views | what can be pasted is known; a view can paste again |

Why the bounds are enough:

* `undo`: with two levels the third operation evicts, with an undo in flight or
  not; raising the levels in between adds the case where it does not.
* `delete`, `copymove`: every loop runs zero, one and several times, and the
  recursion goes two deep, so that an inner failure has to pass the outer loops.
  Each place (share, trash, local) has its own path through the code. One fault of
  `copymove`'s scan skips a file or the rest of a folder, each in its turn; the theorems
  are for any number (`MaxFaults`).
* `make`: each pair meets one kind of limit and one file system, and wants one
  name, so that a job is overtaken between any two attempts; `MaxCount` is above
  all the counts that two jobs and two meddlings can cause.
* `changes`: the lists matter by kind, two neighbouring changes of one kind or
  of two; three changes make every order of collecting and flushing, and a
  producer may come between any two of them. The program calls consume_changes
  with TRUE only, as the run does; the proof is for both arguments.
* `dirload`: one call suffices to be superseded and one to supersede it; the
  third starts after both.
* `dirchanges`: three operations fill the list of stored events (FCHANGES_MAX is 3
  here and 20 in the code) and make a file appear, change and vanish; a second
  tab is what shares a folder. One file suffices: nothing in the code relates
  two of them, but for the order of the queue, which is `FileChangesQueue`'s.
* `listview`: folders nest twice, so that rows have rows below them that are
  closed, loaded or both; each list is empty, of one row and of several. Two files
  that compare equal need none: names in a folder differ. A folder of three has batches
  before, between and after whatever else happens. A history ends with its first mishap
  (`MaxAfter` is 0); the theorems are for any `MaxAfter`.
* `thumbnails`: what goes wrong is about one file and its icons; a second request
  is what overtakes the first, and the other program's handles confuse the tables.
* `progress`: a second report comes while the first is queued, dispatched and
  emitted; the second job makes the counters and the hold more than flags.
* `clipboard`: one owner before, one after; a second paste comes before, during
  and after the first.

Fairness: threads of the I/O scheduler and of GIO answer, the thumbnail service
works, and the main loop dispatches each ready source, so their steps are weakly
fair. Users answer the dialogs of a job, and do not answer "Retry" or a new name
for ever (strong fairness of the other answers, in the jobs that have them); nothing
else they do is assumed.

Symmetry is not used: nearly all runs check liveness.

## 4. Where the code disagrees with its comments, and where it gives up

The violation run is a finding in `PROJECT.json`, with the line it contradicts. The
others are named in the modules, mostly as mishaps. Where the mishap is the very thing
that a hazard of `PROJECT.json` is about, the property does not show that it is absent,
for it is there; it shows that the code comes to the bad state in no other way. The notes
of those hazards say which (`shared` of `RowsAlive`, `single` of `RowsSorted`, `overtaken`
of `QuietTrue`, and those of `SettledIsAccurate`, `ListsTrue`, `ShownIsCurrent`, `Settles`,
`NotKilled` and `PasteEnds`).

* Undo manager: `clear_redo_actions` does not look at the lock, so the action of an
  *undo* in flight is released (`libcore/marlin-undostack-manager.c:1153` against the
  comments at 41 and 1724); that of a redo lies behind the index by then, and is safe.
  An action of the default kind stays locked after its undo; one flag serves all undos
  in flight, so the first to end resumes recording; of a trash action only the first
  uri is compared when the trash is emptied; lowering the levels can leave the index
  past the end of the list (`fault`).
* Deletion: a folder skipped after "Skip all" is not counted as skipped.
* Copy and move: what a copy, or a move that copies, leaves behind when it fails is
  reported to no view and recorded in no undo action, also when all of it is there
  (`LeavesSome`, `LeftAt`; the comment at `libcore/marlin-file-operations.c:4362`: "the
  view will need to be refreshed anyway"); a name without a valid spelling is skipped in silence in
  `move_file_prepare`; the deletion of a moved source folder is not reported;
  `move_files` forgets how `move_file_prepare` came to the name of a file it put off,
  and uses the overwrite flag for another place (`Mistaken`): the first one tried,
  though the user chose another name, or the respelled one, though the copy would be
  taken under the name it has (`libcore/marlin-file-operations.c:5092`, 5227).
* Link and create: where the limit on names is short the number of a new folder is
  cut off, and `create_job` tries one name for ever (`NumberCut`); an invalid name that
  respelling does not change ends the job in silence, `dest` being released more often
  than it was taken (`silent`, `alive`); a file that was created and could not be
  written stays, in no record and not announced (`unwritten`).
* Changes queue: it is created without a lock by whoever comes first.
* Loading: a listing that was superseded ends in LOADED (`superseded`); a reload in
  one tab frees the files whose rows another tab shows (`shared`); a tab that comes
  while the folder is read does not get the files read before
  (`libcore/gof-directory-async.vala:312` against the comment at 301), one that leaves
  early keeps its file_loaded handler, and `load_hiddens` says done_loading too early (`impatient`).
* Changes of a folder: `deaf` (nobody unblocks the monitor when a creation
  fails), `forgotten` (a second freeze clears the stored events), `stuck`
  (`unblock_model` forgets that the folder is frozen, and what was stored is not sent:
  `src/View/AbstractDirectoryView.vala:2231` against `libcore/gof-directory-async.vala:604`), `unwatched`,
  `overtaken`, `doubled`, `late`, `outrun`, `early`, `shared`; `leftover` (news of the
  removal of an earlier file of a name is still in the queue, or stored, when the folder
  is read, and takes the new file's row away) and `outlived` (the cache still holds the
  object of a file that is gone when the folder is read, and gives it to the next of
  that name with the old info).
* List view: hiding hidden files clears all rows and leaves the view connected to the
  sub-folders, whose files then appear at the top (`hidden`); so do those of a
  folder below a row that was unloaded or removed (`orphaned`); a row opened again before its
  timer fires stays disconnected (`reexpanded`); a list of one row is not sorted, nor
  are the lists below it (`single`). A folder that is shown again in the midst of its
  reading, because hiding hidden files has cleared the rows or another tab has begun to
  read it, lacks the batches told before (`missed`; `libcore/gof-directory-async.vala:312`).
* Thumbnails: `refused`, `ignored` (errors that nobody hears leave files loading
  for ever), `failed`, `overtaken`, `undrawn`, `zoomed`; and Finished removes
  the number of the request, not the handle, from the table of handles
  (`src/marlin-thumbnailer.c:509` against the comment at 77), so that the handle stays, and
  that of another request may go.
* Progress: a job that starts while the window is hidden has no widget when the
  window is presented again (`unlisted`); the program may end before "started" is
  emitted; the manager drops its infos without releasing them.
* Clipboard: a paste that finds nothing leaves its view unable to paste (`empty`); an
  older answer may be taken for the newest (`overtaken`); a job calls back a view that was
  closed (`freed`). The manager asks for nothing when the program starts, so that what
  another program copied before cannot be pasted; a cut from another program can be
  pasted, and moved, twice; `file_destroyed` never runs, since no file emits "destroy".
* `unmount_mount_full`, with the emptying of the trash before it, is called by nothing.

## 5. Proofs

TLAPS proves these for all values of the constants, from the named assumptions
about them and nothing else:

* `Undo_proofs`, of the manager (`UndoAssumption`): `TypeCorrect`, `IndexCorrect`,
  `RedoAlive`, `MenuCorrect`, `FlagCorrect`. None of the properties is inductive
  alone. `UndoInv` adds that an action in flight is locked (so `Undo` and `Redo` do not
  take it), that only pushed actions are undone, in flight or marked, and that none
  on the queue is marked to be released.
* `Changes_proofs`, of the queue (`FileChangesAssumption`): `TypeCorrect`,
  `OneListAtATime`, `OrderKept`, `JobsAreHeard`, `Implements`. That the lists are
  sent in a fixed order keeps the order of arrival only because at most one is
  not empty, so `InOrder` and `OneList` are inductive together; the lists are
  empty outside consume_changes, and a job's last change lies within `arrived`.
  The refinement follows: what is sent grows by a segment of `arrived`.
* `Changes_proofs`, of a folder (`ChangesAssumption`), for any tabs, files, operations,
  acts and length of the list of stored events: `RemovedStaysAway` and `QuietIsAccurate`.
  For the first: an object that is gone is in no map, no cache and no row, and nothing but
  a query holds it (`FolderIInv`), though a query may still answer for it. For the second,
  `RowsAreLive` does not help; `HeardInv` follows the news instead. Each file is as the
  views show it, or what will tell them is on its way: a reading of the folder that has not
  come to it, an answer of a query for its object, or an event, in the monitor, among
  the stored ones of a folder that is frozen, or in the queue with somebody due to
  consume it (`Heard`). Versions that were read are not newer than the disk's
  (`Versions`); each removal on its way is followed by an "added" if there is a file again
  (`EventsRedeemed`); tabs that follow the folder are attached to it (`Attached`). The
  proof found two ways to go wrong that the model had not named: `outlived`, and
  `leftover` in the queue itself. In the model an object is free when nothing refers to
  it; that there always is one is a bound (`Fits`), not an assumption, and it never blocks.
* `DirectoryLoad_proofs` (`LoadAssumption`): `TypeCorrect`, `LoadingIsListed`,
  `LoadedIsComplete`, `DoneNotPremature`, `NobodyWaitsForEver`, `RowsAreAlive`,
  `RowsAreComplete`, for any tabs, files,
  operations, failures and number of calls. The strengthening of the third: unless a
  reading was superseded, at most one call is at work, and each file it has not
  still to read is in the hash. Of the last: unless somebody disturbed a reading, a
  frozen tab has a source of its own to dispatch or a call that reads for the tabs
  and is not cancelled, and the completion reads for itself only while nobody waits.
  Of the rows: unless a mishap, each tab that follows the folder has a row for what
  is in the hash and visible and for nothing else, the hash loses objects only when all
  tabs have dropped theirs, and what a call has read and not handed on it still holds.
* `DeleteJob_proofs` (`DeleteAssumption`: the files form a forest): `TypeCorrect`,
  `CancelIsObeyed`, `LostIsAgreed`, `ToldIsTrue`, `SkippedStays`, for any tree,
  selection and places. The inductive invariant `JobInv` ties the recursion to the
  disk: each frame is about a folder that is still there, a child of the one below
  it on the stack; a folder goes only after all that is in it (`GoneWhole`); what is
  deleted lies in a file agreed upon (`Agreed`), and what is to be trashed is
  neither deleted nor trashed yet (`Unrelated`). For `SkippedStays`, with `Apart`:
  what the scan left out and what waits in the lists is whole (`Untouched`), the scan
  looks only into the files of the list (`Scanned`), and no more files are counted as
  skipped than are settled and still there (`Counted`).
* `CopyMoveJob_proofs` (`FileAssumption`: the files are part of a tree; `NameAssumption`;
  `FaultsAssumption`; `JobAssumption`: what is in the destination is in folders, under names its file system
  takes, and no file is selected twice): `TypeCorrect`, `ReportedRight`,
  `NothingReplacedUnasked`, `RecordRight`, `NoFileForgotten`, `NothingLostOnTheWay`, for
  any tree, destination, names and answers. `Shape` is the base: the destination stays a
  tree, the calls of `copy_move_directory` are nested in it, a folder has left its place
  only after all in it, and the file at work goes directly into the folder at hand.
  `Grants` says what the overwrite flag stands for, which the code never writes down: a
  consent for exactly the place at hand, or a folder to be merged. A flag put off with
  its file stands for the name that file will have again, hence `Mistaken`, and a place
  that may be respelled is not yet valid (`ValidNames`). `RecordTrue` and the first half
  of `NoSourceLost` follow from it. `Accounted` follows each selected file from the list
  through the call, the dialog and what is put off. For `ReportedTrue` what the reports
  leave differs from the destination only at and below the places in `left`, where a
  later success replaces both, and the file of each such place is asked about at once,
  skipped, or ended by the cancel (`LeftOwned`). The second half of `NoSourceLost`
  needs `Tidy`: each file still to do or skipped is in one of the list, the list put off,
  the call, the folders being read, or what was skipped (`Sorted`); all of these are whole
  and none is in another (`Untouched`), nor is a folder at work in one of them (`Entered`);
  and in a folder that is entered and not yet read nothing is touched (`Reading`).
* `Undo_proofs`, of the jobs (`MakeAssumption`): `RecordsAreTrue`, `NoneForgotten`, for any
  number of jobs at work in one folder. The names stay open: it is enough that a job
  makes a file only under a free name. What a job has made is told by where it is:
  nothing yet of the file it is about to try, a file it has still to write under
  the name it has just tried, and each file before these made or told of.
  `NoNameTwice` is about the names themselves, for any name and limit: shortening
  depends on the length alone, so the number stays at one place in all names made up
  for a file (`TagIs`, `LinkIs`, `FolderIs`), and respelling does not touch a number
  (`ValidIs`); a set of places has a first and a last (`FirstExists`, `LastExists`), which
  the CHOOSEs of `FileNames` need. `RespelledOnce`: once respelled, the file system is
  known, and every later name is made up for it.
* `View_proofs` (`ProgressAssumption`): `JobsNotKilled`, `ProgressShown`. That the application
  is held is not inductive, since "started" is heard after the job is at work.
  The strengthening: the info's flag, the flags the main loop has taken or the hold
  knows of each job at work, and "finished" is flagged only when the job is over.
  For `ShownTrue`: a job whose "started" is flagged, taken or waiting for its two
  seconds is not counted yet, and what is flagged has a source that emits it.
* `View_proofs` (`ClipboardAssumption`): `ClipboardQuietTrue`. While the manager
  knows less than is true, the news of the loss, the event of the new owner, or a
  question that this owner will answer is on its way.
* `View_proofs` (`SizesAssumption`, `HandlesAssumption`): `IconsTrue`, for any files, sizes,
  versions and handles, under `ThumbSpec`. Neither the file nor the cache holds an older
  picture, unless a change of the file is still to be told or a mishap befell it
  (`UpToDate`). For that, what is ready or cached is found again when the file
  changes (`Findable`), who shows that it waits has been asked for (`Awaited`), and no
  signal "ready" is sent before there is a thumbnail (`Announced`). The tables of requests
  and handles do not come into it: they decide only which errors are heard.

* `ListModel_proofs`, of the order of rows (`FoldersAssumption`, `KeysAssumption`):
  `SortIsAntisymmetric`, `SortIsTransitive`, `TiesHaveOneName`. The comparison of two rows
  is a total order, in every column and direction and for any sizes, which sorting, sorted
  insertion and the search for a row's place rely on. Each comparison is the product of
  simpler ones; the lemmas say that `OrElse` keeps both laws. The lemmas on `ListModel` say
  what each operator does to a tree of rows with its maps (`ModelTrue`), and that a listener
  who applies the paths of the signals has the lists of the model after each.
* `ListView_proofs` (also `DummyAssumption`, `OrdersAssumption`,
  `BoundsAssumption`, `RootAssumption`): `ViewTypes`, `ShownAsItIs`, `WidgetIsTrue`,
  `OpenedStaysOpen`, `ListsAreTrue`, `RowsStaySorted`, for any files, folders in folders
  to any depth, batches, failures, openings, sizes and orders. Four inductive invariants, one on the other.
  `Always`, of every state: the rows form a tree of which the widget has every list
  (`ModelTrue`); a folder is cleared or loses its dummy row only while it is itself
  removed, and nothing is called while a folder is listed or sorted (`CallsTrue`); only a
  row that is being removed has lost its last child (`EmptyIsLeaving`), which is why no
  opened row is closed by the widget. That walking leaves no row out needs the order of
  the paths (`ComesBefore`) to be a total order with the rows below a row next to it.
  `GoodNow`, while nothing was hidden or orphaned: a file's row lies below its folder's
  (`AtHome`), so a folder has one row; what the calls are about is still there, each lies
  below the one that called it, and nothing below is followed (`CallsNested`); a row the
  maps do not find is being unloaded (`Found`). Hence no loop is stuck. `FollowedNow`,
  while every open row is followed: what is due (`Due`: what the reading has come to, or,
  when none is under way, what the folder has) is what its row shows, with what is still
  to be listed and without what is being removed (`Follows`), unless the view has `missed`
  some; then it shows no more than that. Clearing all rows is followed by asking for the
  view's folder again, right after the last row has gone (`ClearedFirst`), so that what
  `load` then tells, begins, or leaves out is about a view without rows. `OrderedNow`, without
  a mishap: each followed list is in order, or some call is still to sort it.
  An insertion keeps the order by the search for the first row that comes later, a change
  of size by taking the row out of an ordered list and putting it back, and sorting by
  `SortSeq`'s definition, from the laws of the comparison above.

Where two components share a module of proofs, one has an `Init`, `Next` and `Spec` with
names of their own (`UndoSpec`, `ThumbSpec`, `ProgressSpec`, `FolderSpec`).

The runs check what these theorems state, where it is a property of a run
(`PROJECT.json` names it); types, `FlagOnlyInFlight`, `OneList`, `InOrder`,
`LoadingHasListing` and `NoPrematureDone` are only proved.

Model-checked only: all liveness (with fairness it is out of this prover's reach), so also
that the loops of the list model end; and `KeepsType` of `MakeJobs`, also where a name is
shortened to make room for its tag. It leaves out the names that have a dot before the tag
of a copy (`TagBehindDot`), of which it is false: "a.b (copy)", whose last dot is before
the tag, becomes "a.b (another copy)".

## 6. What is not modelled, and the plan

Every part is in `PROJECT.json` under "components" with the reason it is left
out. Within the modelled parts:

* `CopyMoveJob`: progress, bytes, free-space figures, symbolic links, permissions. Two
  files of one name are in the proofs, not in the run.
* `MakeJobs`: positions of icons. `JobProgress`: the launcher of Unity, the texts.
* `DirectoryLoad`: network folders, mounting, Miller columns.
* `DirectoryChanges`: moves, hidden files, remote folders, Miller columns
  (`track_longest_name`), what a rename does to the caches, other windows, tabs
  that close. Overlapping listings are `DirectoryLoad`'s.
* `ListView`: selection and the values of columns. `Thumbnails`: themed icons, and
  what a change of theme does. `Clipboard`: pasting into the trash.

Next, in this order:

1. Proofs: a measure that goes down with every call of the list model, so that its
   loops end.
2. `Navigation`: the history of a tab, slots and their folders, the windows.
3. `TagsPlugin` (its queue and timers), `BookmarkList` (saving, the monitor of its
   own file), `SearchResults`, `PropertiesWindow`.
