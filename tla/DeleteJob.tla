------------------------------ MODULE DeleteJob ------------------------------
(***************************************************************************)
(* The job of libcore/marlin-file-operations.c that moves files to the     *)
(* trash or deletes them: delete_job, which sorts the files and asks for   *)
(* confirmation, scan_sources, delete_files with its recursion through     *)
(* delete_file and delete_dir, trash_files, and delete_job_done.           *)
(*                                                                         *)
(* The job runs in a thread of its own.  It stops at every question, which *)
(* the user answers in the main loop, and the user may cancel it from the  *)
(* progress window between any two of its steps.  Every access to the disk *)
(* may fail.  `frames` is the stack of delete_dir calls.                   *)
(***************************************************************************)
EXTENDS Naturals, Sequences, FiniteSets, Functions

CONSTANTS
  File,         \* the files and folders the job can meet
  Kids,         \* the children of each folder, [Folder -> SUBSET File]
  Top,          \* job->files, a sequence
  Place,        \* where each of them is, [File -> Places]
  TryTrash,     \* job->try_trash
  ConfirmTrash, \* the confirm-trash preference
  Recorded,     \* no undo or redo was running when the job was created
  NoFile        \* not a file

Folder == DOMAIN Kids
\* can_delete_without_confirm holds of "burn" alone; "trash" and "smb" are the
\* schemes that delete_job does not trash from.
Places == {"local", "trash", "smb", "burn"}
TopFiles == Range(Top)

\* Everything in a file or folder, itself included: the least set with it that has
\* the children of every folder it has.
HasKids(S) == \A d \in S \cap Folder : Kids[d] \subseteq S
Under == [f \in File |->
           {g \in File : \A S \in SUBSET File : f \in S /\ HasKids(S) => g \in S}]

\* A file is in one folder only, and no folder in itself; links are not followed.
ASSUME DeleteAssumption ==
  /\ NoFile \notin File
  /\ Folder \subseteq File
  /\ Kids \in [Folder -> SUBSET File]
  /\ \A d, e \in Folder : d # e => Kids[d] \cap Kids[e] = {}
  /\ \A d \in Folder : \A k \in Kids[d] : d \notin Under[k]
  /\ Top \in Seq(File) /\ Top # <<>>
  /\ \A i, j \in DOMAIN Top : Top[i] = Top[j] => i = j
  /\ Place \in [File -> Places]
  /\ {TryTrash, ConfirmTrash, Recorded} \subseteq BOOLEAN

VARIABLES
  pc,          \* where the thread is, see Steps
  question,    \* the dialog the thread waits for, and the file it is about
  cancelled,   \* the job's GCancellable
  userCancel,  \* job->user_cancel
  skipAll,     \* common->skip_all_error
  deleteAll,   \* common->delete_all
  skipFiles,   \* common->skip_files
  skipReaddir, \* common->skip_readdir_error
  scanFiles,   \* files scan_sources has still to count
  scanDirs,    \* the queue of folders of scan_file
  list,        \* the files left of the list at hand
  toTrash,     \* to_trash_files, until trash_files starts
  toDelete,    \* to_delete in trash_files
  frames,      \* the delete_dir calls, innermost first
  skipped,     \* files_skipped
  disk,        \* the files that are still in their place
  agreed,      \* history: files the user agreed to lose for good
  trashed,     \* history: files moved to the trash
  record,      \* the trashed files of the undo record
  changes,     \* the removals reported to the change queue
  done         \* "no", then what the done callback got

vars == <<pc, question, cancelled, userCancel, skipAll, deleteAll, skipFiles,
          skipReaddir, scanFiles, scanDirs, list, toTrash, toDelete, frames,
          skipped, disk, agreed, trashed, record, changes, done>>
flags == <<cancelled, userCancel, skipAll, deleteAll>>
scanVars == <<skipFiles, skipReaddir, scanFiles, scanDirs>>
fileVars == <<disk, agreed, trashed, record, changes>>

\* "then" is between delete_files and what follows it.
Steps == {"start", "scan", "delete", "then", "trash", "finish", "notify", "over"}
\* What the questions are about: confirmation; a scan that cannot read a file,
\* or not all of a folder; a file that cannot be removed; a folder that cannot
\* be opened, read to its end, or removed; a file that cannot be trashed, with
\* and without the offer to delete it.
Questions == {"none", "confirm", "info", "readdir", "remove", "open", "list",
              "folder", "trash", "trashOnly"}

NoQuestion == [kind |-> "none", file |-> NoFile]
Ask(k, f) == question' = [kind |-> k, file |-> f]

\* One delete_dir call: enumerating or not yet, the children to come, whether
\* the enumeration breaks off with an error, and local_skipped_file.
Frame == [dir : Folder, opened : BOOLEAN, left : SUBSET File,
          broken : BOOLEAN, skip : BOOLEAN]

TypeOK ==
  /\ pc \in Steps
  /\ question \in [kind : Questions, file : File \cup {NoFile}]
  /\ flags \in BOOLEAN \X BOOLEAN \X BOOLEAN \X BOOLEAN
  /\ skipFiles \subseteq File /\ skipReaddir \subseteq File
  /\ scanFiles \subseteq TopFiles /\ scanDirs \subseteq File
  /\ list \subseteq TopFiles /\ toTrash \subseteq TopFiles /\ toDelete \subseteq TopFiles
  /\ frames \in Seq(Frame)
  /\ skipped \in Nat
  /\ disk \subseteq File
  /\ agreed \subseteq File /\ trashed \subseteq File /\ record \subseteq File
  /\ changes \in Seq(File)
  /\ done \in {"no", "cancelled", "done"}

\* Every list the job makes of its files has them in the order of job->files, so
\* that it is modelled by a set; the next of it to be handled is the first.
Before(f, g) == \E i, j \in DOMAIN Top : i <= j /\ Top[i] = f /\ Top[j] = g
First(S) == {f \in S : \A g \in S : Before(f, g)}

\* The thread runs: it waits for no answer and finds the job not aborted.
\* Mutant: nothing looks at the cancellable.
GoingAnyway == question = NoQuestion
Going == question = NoQuestion /\ ~cancelled

\* What is still there in a folder; nothing is in a file.
Present(f) == IF f \in Folder THEN Kids[f] \cap disk ELSE {}

-----------------------------------------------------------------------------
Init ==
  /\ pc = "start"
  /\ question = NoQuestion
  /\ cancelled = FALSE /\ userCancel = FALSE
  /\ skipAll = FALSE /\ deleteAll = FALSE
  /\ skipFiles = {} /\ skipReaddir = {}
  /\ scanFiles = {} /\ scanDirs = {}
  /\ list = {} /\ toTrash = {} /\ toDelete = {}
  /\ frames = <<>>
  /\ skipped = 0
  /\ disk = File
  /\ agreed = {} /\ trashed = {} /\ record = {}
  /\ changes = <<>>
  /\ done = "no"

\* The progress window's cancel button.
Cancel ==
  /\ pc # "over"
  /\ cancelled' = TRUE
  /\ UNCHANGED <<pc, question, userCancel, skipAll, deleteAll, skipFiles,
                 skipReaddir, scanFiles, scanDirs, list, toTrash, toDelete,
                 frames, skipped, disk, agreed, trashed, record, changes, done>>

-----------------------------------------------------------------------------
\* delete_job sorts the files; see the three branches of its first loop.
Free == {f \in TopFiles : Place[f] = "burn"}
ToTrash == {f \in TopFiles \ Free : TryTrash /\ Place[f] \notin {"trash", "smb"}}
ToDelete == TopFiles \ ToTrash
MustConfirm == ConfirmTrash /\ ~(ToDelete \subseteq Free)

\* delete_files starts to scan its list.
\* Mutant: it works on job->files.
StartScanAll(files) ==
  pc' = "scan" /\ list' = TopFiles /\ scanFiles' = TopFiles /\ scanDirs' = {}
StartScan(files) ==
  /\ list' = files
  /\ IF cancelled THEN pc' = "then" /\ UNCHANGED <<scanFiles, scanDirs>>
                  ELSE pc' = "scan" /\ scanFiles' = files /\ scanDirs' = {}

Start ==
  /\ pc = "start" /\ question = NoQuestion
  /\ toTrash' = ToTrash
  /\ IF ToDelete = {}
       THEN /\ pc' = "then"
            /\ UNCHANGED <<question, agreed, list, scanFiles, scanDirs>>
       ELSE IF MustConfirm
         THEN /\ Ask("confirm", NoFile)
              /\ UNCHANGED <<pc, agreed, list, scanFiles, scanDirs>>
         ELSE /\ agreed' = IF ConfirmTrash THEN ToDelete \cap Free ELSE ToDelete
              /\ StartScan(ToDelete)
              /\ UNCHANGED question
  /\ UNCHANGED <<flags, skipFiles, skipReaddir, toDelete, frames, skipped,
                 disk, trashed, record, changes, done>>

\* confirm_delete_from_trash, confirm_delete_directly.
AnswerConfirm ==
  /\ question.kind = "confirm"
  /\ question' = NoQuestion
  /\ \/ /\ agreed' = ToDelete
        /\ StartScan(ToDelete)
        /\ UNCHANGED userCancel
     \/ /\ userCancel' = TRUE
        /\ pc' = "then"
        /\ UNCHANGED <<agreed, list, scanFiles, scanDirs>>
  /\ UNCHANGED <<cancelled, skipAll, deleteAll, skipFiles, skipReaddir, toTrash,
                 toDelete, frames, skipped, disk, trashed, record, changes, done>>

-----------------------------------------------------------------------------
\* scan_sources: scan_file looks at the next file, then at every folder below
\* it, scan_dir at one of them.
Scanning == pc = "scan" /\ Going

\* A file or a folder that cannot be read is asked about, or skipped at once.
ScanFails(f) ==
  IF skipAll THEN skipFiles' = skipFiles \cup {f} /\ UNCHANGED question
             ELSE Ask("info", f) /\ UNCHANGED skipFiles

ScanFile(f) ==
  /\ Scanning /\ scanDirs = {} /\ f \in First(scanFiles)
  /\ scanFiles' = scanFiles \ {f}
  /\ \/ /\ f \in disk
        /\ scanDirs' = {f} \cap Folder
        /\ UNCHANGED <<skipFiles, question>>
     \/ ScanFails(f) /\ UNCHANGED scanDirs
  /\ UNCHANGED <<pc, flags, skipReaddir, list, toTrash, toDelete, frames,
                 skipped, fileVars, done>>

ScanDir(d) ==
  /\ Scanning /\ d \in scanDirs
  /\ \/ /\ scanDirs' = (scanDirs \ {d}) \cup (Present(d) \cap Folder)
        /\ UNCHANGED <<skipFiles, question>>
     \/ /\ \E seen \in SUBSET (Present(d) \cap Folder) :
             scanDirs' = (scanDirs \ {d}) \cup seen
        /\ Ask("readdir", d)
        /\ UNCHANGED skipFiles
     \/ ScanFails(d) /\ scanDirs' = scanDirs \ {d}
  /\ UNCHANGED <<pc, flags, skipReaddir, scanFiles, list, toTrash, toDelete,
                 frames, skipped, fileVars, done>>

\* Cancel, Skip all or Skip; for Retry see below.
AnswerInfo ==
  /\ question.kind = "info"
  /\ question' = NoQuestion
  /\ \/ /\ cancelled' = TRUE
        /\ UNCHANGED <<skipAll, skipFiles>>
     \/ /\ skipAll' \in {skipAll, TRUE}
        /\ skipFiles' = skipFiles \cup {question.file}
        /\ UNCHANGED cancelled
  /\ UNCHANGED <<pc, userCancel, deleteAll, skipReaddir, scanFiles, scanDirs,
                 list, toTrash, toDelete, frames, skipped, fileVars, done>>

\* Cancel or Skip.
AnswerReaddir ==
  /\ question.kind = "readdir"
  /\ question' = NoQuestion
  /\ \/ cancelled' = TRUE /\ UNCHANGED skipReaddir
     \/ skipReaddir' = skipReaddir \cup {question.file} /\ UNCHANGED cancelled
  /\ UNCHANGED <<pc, userCancel, skipAll, deleteAll, skipFiles, scanFiles,
                 scanDirs, list, toTrash, toDelete, frames, skipped, fileVars,
                 done>>

\* A file at the top is looked at again before its folders; a folder is read
\* again, while the folders already found in it stay queued.
RetryScan ==
  LET f == question.file IN
  /\ question.kind \in {"info", "readdir"}
  /\ question' = NoQuestion
  /\ IF question.kind = "info" /\ f \in TopFiles /\ scanDirs = {}
       THEN scanFiles' = scanFiles \cup {f} /\ UNCHANGED scanDirs
       ELSE scanDirs' = scanDirs \cup {f} /\ UNCHANGED scanFiles
  /\ UNCHANGED <<pc, flags, skipFiles, skipReaddir, list, toTrash, toDelete,
                 frames, skipped, fileVars, done>>

\* delete_files goes on unless the job was cancelled.
ScanDone ==
  /\ pc = "scan" /\ question = NoQuestion
  /\ cancelled \/ (scanFiles = {} /\ scanDirs = {})
  /\ pc' = IF cancelled THEN "then" ELSE "delete"
  /\ scanFiles' = {} /\ scanDirs' = {}
  /\ UNCHANGED <<question, flags, skipFiles, skipReaddir, list, toTrash,
                 toDelete, frames, skipped, fileVars, done>>

-----------------------------------------------------------------------------
\* delete_files, delete_file and delete_dir.
Call == Head(frames)
Calls(c) == frames' = <<c>> \o Tail(frames)

\* *skipped_file = TRUE in the caller: the delete_dir call, or delete_files.
MarkIn(fs) ==
  IF fs = <<>> THEN skipped' = skipped + 1 /\ frames' = fs
               ELSE /\ frames' = <<[Head(fs) EXCEPT !.skip = TRUE]>> \o Tail(fs)
                    /\ UNCHANGED skipped

\* A removed file is reported.
Gone(f) == disk' = disk \ {f} /\ changes' = Append(changes, f)

\* should_skip_file, or g_file_delete finds the job cancelled.
Skips(f) == f \in skipFiles \/ cancelled

\* delete_file for f, with the calls fs around it.  An error may be that the
\* job was cancelled while the file was being removed.
DeleteFile(f, fs) ==
  \/ /\ Skips(f)
     /\ MarkIn(fs)
     /\ UNCHANGED <<question, disk, changes>>
  \/ /\ ~Skips(f)
     /\ \/ /\ f \in disk /\ Present(f) = {}
           /\ Gone(f)
           /\ frames' = fs
           /\ UNCHANGED <<question, skipped>>
        \/ /\ Present(f) # {}
           /\ frames' = <<[dir |-> f, opened |-> FALSE, left |-> {},
                           broken |-> FALSE, skip |-> FALSE]>> \o fs
           /\ UNCHANGED <<question, skipped, disk, changes>>
        \/ /\ IF skipAll THEN MarkIn(fs) /\ UNCHANGED question
                         ELSE /\ Ask("remove", f)
                              /\ frames' = fs
                              /\ UNCHANGED skipped
           /\ UNCHANGED <<disk, changes>>

\* The loop of delete_files takes the next file.
DeleteNext(f) ==
  /\ pc = "delete" /\ Going /\ frames = <<>> /\ f \in First(list)
  /\ list' = list \ {f}
  /\ DeleteFile(f, <<>>)
  /\ UNCHANGED <<pc, flags, scanVars, toTrash, toDelete, agreed, trashed,
                 record, done>>

DeleteDone ==
  /\ pc = "delete" /\ question = NoQuestion /\ frames = <<>> /\ (list = {} \/ cancelled)
  /\ pc' = "then"
  /\ list' = {}
  /\ UNCHANGED <<question, flags, scanVars, toTrash, toDelete, frames, skipped,
                 fileVars, done>>

\* Cancel, Skip all or Skip: either way the file counts as skipped.
AnswerRemove ==
  /\ question.kind = "remove"
  /\ question' = NoQuestion
  /\ \/ cancelled' = TRUE /\ UNCHANGED skipAll
     \/ skipAll' \in {skipAll, TRUE} /\ UNCHANGED cancelled
  /\ MarkIn(frames)
  /\ UNCHANGED <<pc, userCancel, deleteAll, scanVars, list, toTrash, toDelete,
                 fileVars, done>>

\* delete_dir opens the folder: it will see all its children, or some of them
\* and then an error, which is ignored if the scan met one there.
OpenDir ==
  /\ pc = "delete" /\ Going /\ frames # <<>> /\ ~Call.opened
  /\ \/ /\ Calls([Call EXCEPT !.opened = TRUE, !.left = Present(Call.dir)])
        /\ UNCHANGED question
     \/ /\ \E seen \in SUBSET Present(Call.dir) :
             Calls([Call EXCEPT !.opened = TRUE, !.left = seen,
                                !.broken = Call.dir \notin skipReaddir])
        /\ UNCHANGED question
     \/ Ask("open", Call.dir) /\ UNCHANGED frames
  /\ UNCHANGED <<pc, flags, scanVars, list, toTrash, toDelete, skipped,
                 fileVars, done>>

\* Cancel or Skip.
AnswerOpen ==
  /\ question.kind = "open"
  /\ question' = NoQuestion
  /\ \/ /\ cancelled' = TRUE
        /\ UNCHANGED frames
     \/ /\ Calls([Call EXCEPT !.opened = TRUE, !.skip = TRUE])
        /\ UNCHANGED cancelled
  /\ UNCHANGED <<pc, userCancel, skipAll, deleteAll, scanVars, list, toTrash,
                 toDelete, skipped, fileVars, done>>

RetryOpen ==
  /\ question.kind = "open"
  /\ question' = NoQuestion
  /\ UNCHANGED <<pc, flags, scanVars, list, toTrash, toDelete, frames, skipped,
                 fileVars, done>>

DeleteChild(f) ==
  /\ pc = "delete" /\ Going /\ frames # <<>> /\ Call.opened
  /\ f \in Call.left
  /\ DeleteFile(f, <<[Call EXCEPT !.left = Call.left \ {f}]>> \o Tail(frames))
  /\ UNCHANGED <<pc, flags, scanVars, list, toTrash, toDelete, agreed, trashed,
                 record, done>>

\* The enumeration ended with an error.
ListBreaks ==
  /\ pc = "delete" /\ Going /\ frames # <<>> /\ Call.opened
  /\ Call.left = {} /\ Call.broken
  /\ Calls([Call EXCEPT !.broken = FALSE])
  /\ Ask("list", Call.dir)
  /\ UNCHANGED <<pc, flags, scanVars, list, toTrash, toDelete, skipped,
                 fileVars, done>>

\* Cancel or Skip.
AnswerList ==
  /\ question.kind = "list"
  /\ question' = NoQuestion
  /\ \/ cancelled' = TRUE /\ UNCHANGED frames
     \/ Calls([Call EXCEPT !.skip = TRUE]) /\ UNCHANGED cancelled
  /\ UNCHANGED <<pc, userCancel, skipAll, deleteAll, scanVars, list, toTrash,
                 toDelete, skipped, fileVars, done>>

\* delete_dir removes the folder unless something in it was skipped.  A failure
\* after "Skip all" returns without a word to the caller.
RemoveDir ==
  /\ pc = "delete" /\ Going /\ frames # <<>> /\ Call.opened
  /\ Call.left = {} /\ ~Call.broken /\ ~Call.skip
  /\ \/ /\ Present(Call.dir) = {}
        /\ Gone(Call.dir)
        /\ frames' = Tail(frames)
        /\ UNCHANGED question
     \/ /\ IF skipAll THEN frames' = Tail(frames) /\ UNCHANGED question
                      ELSE Ask("folder", Call.dir) /\ UNCHANGED frames
        /\ UNCHANGED <<disk, changes>>
  /\ UNCHANGED <<pc, flags, scanVars, list, toTrash, toDelete, skipped, agreed,
                 trashed, record, done>>

\* Cancel, Skip all or Skip.
AnswerFolder ==
  /\ question.kind = "folder"
  /\ question' = NoQuestion
  /\ \/ /\ cancelled' = TRUE
        /\ frames' = Tail(frames)
        /\ UNCHANGED <<skipAll, skipped>>
     \/ /\ skipAll' \in {skipAll, TRUE}
        /\ MarkIn(Tail(frames))
        /\ UNCHANGED cancelled
  /\ UNCHANGED <<pc, userCancel, deleteAll, scanVars, list, toTrash, toDelete,
                 fileVars, done>>

\* delete_dir returns without removing the folder.
\* Mutant: its loop does not end when the job is cancelled.
LeavesSkipped == Call.opened /\ Call.left = {} /\ ~Call.broken /\ Call.skip
Leaves == cancelled \/ LeavesSkipped
LeaveDir ==
  /\ pc = "delete" /\ question = NoQuestion /\ frames # <<>>
  /\ Leaves
  /\ IF Call.skip THEN MarkIn(Tail(frames))
                  ELSE frames' = Tail(frames) /\ UNCHANGED skipped
  /\ UNCHANGED <<pc, question, flags, scanVars, list, toTrash, toDelete,
                 fileVars, done>>

-----------------------------------------------------------------------------
\* delete_job turns to the files to trash, once, unless there are none.
\* Mutant: the list is not cleared.
ThenAgain ==
  /\ pc = "then" /\ question = NoQuestion
  /\ pc' = IF toTrash = {} THEN "finish" ELSE "trash"
  /\ list' = toTrash
  /\ UNCHANGED <<question, flags, scanVars, toTrash, toDelete, frames, skipped,
                 fileVars, done>>
Then ==
  /\ pc = "then" /\ question = NoQuestion
  /\ pc' = IF toTrash = {} THEN "finish" ELSE "trash"
  /\ list' = toTrash
  /\ toTrash' = {}
  /\ UNCHANGED <<question, flags, scanVars, toDelete, frames, skipped, fileVars,
                 done>>

\* marlin_undo_manager_data_add_trashed_file.
\* Mutant: the whole list is recorded before it is known what can be trashed.
RecordAll(f) == record' = IF Recorded THEN TopFiles ELSE record
Record(f) == record' = IF Recorded THEN record \cup {f} ELSE record

\* trash_files: the file is trashed with all that is in it, and kept for the
\* undo; or it cannot be, and is skipped, put aside for deletion or asked about.
TrashNext(f) ==
  /\ pc = "trash" /\ Going /\ f \in First(list)
  /\ \/ /\ f \in disk
        /\ list' = list \ {f}
        /\ disk' = disk \ Under[f]
        /\ trashed' = trashed \cup {f}
        /\ Record(f)
        /\ changes' = Append(changes, f)
        /\ UNCHANGED <<question, toDelete, skipped, agreed>>
     \/ /\ \/ /\ skipAll
              /\ list' = list \ {f}
              /\ skipped' = skipped + 1
              /\ UNCHANGED <<question, toDelete, agreed>>
           \/ /\ ~skipAll /\ deleteAll
              /\ list' = list \ {f}
              /\ toDelete' = toDelete \cup {f}
              /\ agreed' = agreed \cup {f}
              /\ UNCHANGED <<question, skipped>>
           \/ /\ ~skipAll /\ ~deleteAll
              /\ \E k \in {"trash", "trashOnly"} : Ask(k, f)
              /\ UNCHANGED <<list, toDelete, skipped, agreed>>
        /\ UNCHANGED <<disk, trashed, record, changes>>
  /\ UNCHANGED <<pc, flags, scanVars, toTrash, frames, done>>

\* Cancel, Skip all, Skip and, if it may help, Delete all or Delete.  The
\* answers for all are offered while other files are left.
AnswerTrash ==
  LET all == IF list \ {question.file} # {} THEN {TRUE, FALSE} ELSE {FALSE} IN
  /\ question.kind \in {"trash", "trashOnly"}
  /\ question' = NoQuestion
  /\ list' = list \ {question.file}
  /\ \/ /\ cancelled' = TRUE /\ userCancel' = TRUE
        /\ UNCHANGED <<skipAll, deleteAll, skipped, toDelete, agreed>>
     \/ /\ \E a \in all : skipAll' = a
        /\ skipped' = skipped + 1
        /\ UNCHANGED <<cancelled, userCancel, deleteAll, toDelete, agreed>>
     \/ /\ question.kind = "trash"
        /\ \E a \in all : deleteAll' = a
        /\ toDelete' = toDelete \cup {question.file}
        /\ agreed' = agreed \cup {question.file}
        /\ UNCHANGED <<cancelled, userCancel, skipAll, skipped>>
  /\ UNCHANGED <<pc, scanVars, toTrash, frames, disk, trashed, record, changes,
                 done>>

\* The end of trash_files: what was put aside is deleted.
TrashDone ==
  /\ pc = "trash" /\ question = NoQuestion /\ (list = {} \/ cancelled)
  /\ toDelete' = {}
  /\ IF toDelete = {} THEN pc' = "then" /\ UNCHANGED <<list, scanFiles, scanDirs>>
                        ELSE StartScan(toDelete)
  /\ UNCHANGED <<question, flags, skipFiles, skipReaddir, toTrash, frames,
                 skipped, fileVars, done>>

\* The end of delete_job.
Finish ==
  /\ pc = "finish" /\ question = NoQuestion
  /\ userCancel' = (userCancel \/ skipped = Len(Top))
  /\ pc' = "notify"
  /\ UNCHANGED <<question, cancelled, skipAll, deleteAll, scanVars, list,
                 toTrash, toDelete, frames, skipped, fileVars, done>>

\* delete_job_done in the main loop; the record is handed to the undo manager
\* and the removals to the views.
Done ==
  /\ pc = "notify"
  /\ done' = IF userCancel THEN "cancelled" ELSE "done"
  /\ pc' = "over"
  /\ UNCHANGED <<question, flags, scanVars, list, toTrash, toDelete, frames,
                 skipped, fileVars>>

-----------------------------------------------------------------------------
Thread ==
  \/ \E f \in File : ScanFile(f) \/ DeleteNext(f) \/ DeleteChild(f) \/ TrashNext(f)
  \/ \E d \in Folder : ScanDir(d)
  \/ Start \/ ScanDone \/ DeleteDone
  \/ OpenDir \/ ListBreaks \/ RemoveDir \/ LeaveDir
  \/ Then \/ TrashDone \/ Finish \/ Done
Answer ==
  \/ AnswerConfirm \/ AnswerInfo \/ AnswerReaddir \/ AnswerRemove
  \/ AnswerOpen \/ AnswerList \/ AnswerFolder \/ AnswerTrash
Retry == RetryScan \/ RetryOpen

Next == Thread \/ Answer \/ Retry \/ Cancel

Spec == Init /\ [][Next]_vars

\* The I/O scheduler runs the thread; the user answers, and does not choose
\* Retry for the same file for ever.
FairSpec ==
  /\ Spec
  /\ WF_vars(Thread)
  /\ \A f \in File \cup {NoFile} : SF_vars(question.file = f /\ Answer)

-----------------------------------------------------------------------------
(* Properties *)

\* What is gone for good was agreed to, file by file or for all: by the
\* confirmation, by "Delete" or "Delete all", or by the preference not to ask.
OnlyAgreedLost ==
  \A f \in File \ disk : \E t \in agreed \cup trashed : f \in Under[t]

\* Once the job is cancelled, from a question or from the progress window, no
\* file is removed or trashed, not even those put aside for deletion.
CancelStops == [][cancelled => disk' = disk]_vars

\* Nothing chosen is inside something chosen, as it may be in a list view with an
\* expanded folder.
Apart == \A s, t \in TopFiles : s # t => s \notin Under[t]

\* What the scan could not read and the user skipped is not touched, and no file
\* counts as skipped that is gone: a job that reports that everything was skipped
\* has removed none of its files.
SkippedNotGone ==
  Apart => /\ \A f \in skipFiles : Under[f] \subseteq disk
           /\ skipped <= Cardinality(TopFiles \cap disk)

\* The views hear of every removal once: of what is inside a folder before the
\* folder, and of a trashed folder only.
ReportedOnce ==
  /\ \A i, j \in DOMAIN changes : i < j => changes[j] \notin Under[changes[i]]
  /\ Range(changes) \subseteq File \ disk
  /\ \A f \in File \ disk : f \in Range(changes) \/ \E t \in trashed : f \in Under[t]

\* What the undo would bring back from the trash is there, and was not deleted.
RecordRestorable ==
  /\ record \cap agreed = {}
  /\ record \subseteq trashed
  /\ pc = "over" /\ Recorded => record = trashed

\* What the job tells the views and the undo manager is true, wherever it failed,
\* was refused or was cancelled on the way.
ToldTrue == ReportedOnce /\ RecordRestorable

\* The done callback is called, whatever fails and whatever the user answers.
JobEnds == <>(pc = "over")

=============================================================================
