----------------------------- MODULE CopyMoveJob -----------------------------
(***************************************************************************)
(* The jobs of libcore/marlin-file-operations.c that copy, move and        *)
(* duplicate files: copy_job and move_job with all they call.              *)
(*                                                                         *)
(* copy_job scans, looks at the destination, and lets copy_move_file do    *)
(* every file, which recurses through copy_move_directory.  move_job first *)
(* tries to rename every file (move_file_prepare) and puts off those that  *)
(* have to be copied and deleted; these it does like a copy.               *)
(*                                                                         *)
(* A place in the destination is a path, a sequence of names below the     *)
(* destination folder; `dest` says what is there.  The scan is one step    *)
(* here, as DeleteJob models it in full.                                   *)
(***************************************************************************)
EXTENDS Naturals, Sequences, FiniteSets, SequencesExt

CONSTANTS
  File,      \* the files and folders to be copied or moved, and all in them
  Folder,    \* the folders among them
  Name,      \* file names
  Way,       \* where each file is, [File -> Seq(Name)]
  Safe,      \* make_file_name_valid_for_dest_fs, [Name -> Name]
  CopyName,  \* get_duplicate_name, [Name -> Seq(Name)]
  NewNames,  \* names the user may enter in the conflict dialog
  Jobs,      \* the jobs to look at, see JobAssumption
  MaxFaults, \* bound: what the scan cannot read
  NoFile, OldFile, OldFolder  \* what is in the destination beforehand

Path == Seq(Name)

\* The paths of the folders that p is in.
Above(p) == {SubSeq(p, 1, k) : k \in 1 .. Len(p) - 1}

\* The files are part of a tree.
ASSUME FileAssumption ==
  /\ {NoFile, OldFile, OldFolder} \cap File = {}
  /\ Cardinality({NoFile, OldFile, OldFolder}) = 3
  /\ Folder \subseteq File
  /\ Way \in [File -> Path]
  /\ \A f \in File : Way[f] # <<>>
  /\ \A f, g \in File :
       /\ Way[f] = Way[g] => f = g
       /\ IsPrefix(Way[f], Way[g]) =>
            \A p \in Above(Way[g]) :
              IsPrefix(Way[f], p) => \E d \in Folder : Way[d] = p

ASSUME FaultsAssumption == MaxFaults \in Nat

ASSUME NameAssumption ==
  /\ Safe \in [Name -> Name]
  /\ CopyName \in [Name -> Path]
  /\ \A n \in Name : CopyName[n] # <<>>
  /\ NewNames \subseteq Name

\* A job: its kind; whether a rename can do the move; the names the file system
\* of the destination rejects; what is in the destination; the selected files,
\* and those of them that have the destination inside, or would be put in the
\* place of a folder they are in.
ASSUME JobAssumption ==
  \A j \in Jobs :
    /\ j.kind \in {"copy", "move", "duplicate"}
    /\ j.native \in BOOLEAN
    /\ j.invalid \subseteq Name
    /\ DOMAIN j.old \subseteq Path \ {<<>>}
    /\ j.old \in [DOMAIN j.old -> {OldFile, OldFolder}]
    /\ \A p \in DOMAIN j.old :
         /\ Last(p) \notin j.invalid
         /\ \A q \in Above(p) : q \in DOMAIN j.old /\ j.old[q] = OldFolder
    /\ j.top \in Seq(File) /\ j.top # <<>>
    /\ \A i, k \in DOMAIN j.top : j.top[i] = j.top[k] => i = k
    /\ {j.into, j.over} \subseteq SUBSET Range(j.top)

VARIABLES
  job,        \* the job, one of Jobs
  pc,         \* where the thread is
  question,   \* the dialog it waits for, and the file it is about
  common,     \* CommonJob: the cancellable and the answers that hold for all
  list,       \* the files left in the loop at hand, with their overwrite flag
  fallbacks,  \* *fallback_files of move_files_prepare
  cur,        \* the call of move_file_prepare or copy_move_file at work
  frames,     \* the copy_move_directory calls, innermost first
  removing,   \* the remove_target_recursively calls, innermost first
  topFs,      \* dest_fs_type of the destination folder is known
  src,        \* the source files that are still in their place
  dest,       \* what is at each path
  debuting,   \* job->debuting_files
  record,     \* the pairs of the undo record
  shown,      \* history: the paths the reported changes leave
  left,       \* history: the files whose attempts failed, and the places where
              \* these left something all the same
  agreed,     \* history: the paths the user agreed to replace
  renamed,    \* history: the paths of files to move, for which the user chose
              \* another name
  told,       \* history: the files the user knows were skipped
  merged      \* history: the folders copied into one in the destination

vars == <<job, pc, question, common, list, fallbacks, cur, frames, removing,
          topFs, src, dest, debuting, record, shown, left, agreed, renamed, told, merged>>
fileVars == <<src, dest, debuting, record, shown, left>>
said == <<agreed, renamed, told, merged>>
lists == <<job, list, fallbacks>>

IsMove == job.kind = "move"
TopFiles == Range(job.top)
IsDir(p) == p \in DOMAIN dest /\ dest[p] \in Folder \cup {OldFolder}
Below(p) == {q \in DOMAIN dest : IsPrefix(p, q)}
Within(p) == Below(p) \ {p}

NoQuestion == [kind |-> "none", file |-> NoFile]
Ask(k, f) == question' = [kind |-> k, file |-> f]
\* Errors with the answers Cancel, Skip all and Skip.
Errors == {"itself", "failed", "old", "target"}
Questions == Errors \cup {"none", "query", "space", "refused", "conflict", "make",
                          "open", "list", "source"}

Idle == [file |-> NoFile, dest |-> <<>>, over |-> FALSE, handled |-> FALSE,
         nth |-> 0, stage |-> "try"]

NameOf(f) == Last(Way[f])
\* Everything in a source folder, itself included; its children; those left.
Under(f) == {g \in File : IsPrefix(Way[f], Way[g])}
Kids(d) == {g \in Under(d) : Len(Way[g]) = Len(Way[d]) + 1}
Present(d) == Kids(d) \cap src

-----------------------------------------------------------------------------
Init ==
  /\ job \in Jobs
  /\ pc = IF job.kind = "move" THEN "query" ELSE "scan"
  /\ question = NoQuestion
  /\ common = [cancelled |-> FALSE, skipAll |-> FALSE, skipConflicts |-> FALSE,
               mergeAll |-> FALSE, replaceAll |-> FALSE, skipFiles |-> {},
               skipReaddir |-> {}]
  /\ list = [i \in DOMAIN job.top |-> [file |-> job.top[i], over |-> FALSE]]
  /\ fallbacks = <<>>
  /\ cur = Idle /\ frames = <<>> /\ removing = <<>>
  /\ topFs = FALSE
  /\ src = File /\ dest = job.old
  /\ debuting = {} /\ record = {}
  /\ shown = DOMAIN job.old /\ left = {}
  /\ agreed = {} /\ renamed = {} /\ told = {} /\ merged = {}

\* The progress window's cancel button.
Cancel ==
  /\ pc # "over"
  /\ common' = [common EXCEPT !.cancelled = TRUE]
  /\ UNCHANGED <<lists, pc, question, cur, frames, removing, topFs, fileVars, said>>

Abort == common' = [common EXCEPT !.cancelled = TRUE]
\* job_aborted is looked at between any two steps.
Going == question = NoQuestion /\ ~common.cancelled

\* The thread is done with its files and calls copy_job_done or move_job_done.
Aborted ==
  /\ pc \in {"query", "prepare", "scan", "verify", "copy"}
  /\ question = NoQuestion /\ common.cancelled
  /\ cur = Idle /\ frames = <<>>
  /\ pc' = "notify"
  /\ UNCHANGED <<lists, question, common, cur, frames, removing, topFs, fileVars, said>>

Done ==
  /\ pc = "notify"
  /\ pc' = "over"
  /\ UNCHANGED <<lists, question, common, cur, frames, removing, topFs, fileVars, said>>

-----------------------------------------------------------------------------
\* verify_destination: the folder cannot be read, is short of space, or is no
\* folder or read-only; then the phase that follows.
AfterVerify == IF pc = "query" THEN "prepare" ELSE "copy"
Verify ==
  /\ pc \in {"query", "verify"} /\ Going
  /\ \/ pc' = AfterVerify /\ UNCHANGED question
     \/ \E k \in {"query", "space", "refused"} : Ask(k, NoFile) /\ UNCHANGED pc
  /\ UNCHANGED <<lists, common, cur, frames, removing, topFs, fileVars, said>>

AnswerDestination ==
  /\ question.kind \in {"query", "space", "refused"}
  /\ question' = NoQuestion
  /\ \/ Abort /\ UNCHANGED pc
     \/ /\ question.kind = "space"
        /\ pc' = AfterVerify
        /\ UNCHANGED common
  /\ UNCHANGED <<lists, cur, frames, removing, topFs, fileVars, said>>

\* scan_sources skips some files and the rest of some folders, if asked to.
ScanFaults(files) ==
  {s \in [files : SUBSET UNION {({f} \cup Folder) \cap Under(f) : f \in files},
          dirs : SUBSET (Folder \cap UNION {Under(f) : f \in files})] :
     Cardinality(s.files) + Cardinality(s.dirs) <= MaxFaults}
Scan ==
  /\ pc = "scan" /\ Going
  /\ \/ \E s \in ScanFaults({list[i].file : i \in DOMAIN list}),
           all \in {common.skipAll, TRUE} :
          /\ all => common.skipAll \/ s.files # {}
          /\ common' = [common EXCEPT !.skipFiles = s.files, !.skipReaddir = s.dirs,
                                      !.skipAll = all]
     \/ Abort
  /\ pc' = "verify"
  /\ UNCHANGED <<lists, question, cur, frames, removing, topFs, fileVars, said>>

-----------------------------------------------------------------------------
\* get_target_file, get_unique_target_file: the place for a file in the folder
\* at hand, with its name made valid if the file system is known.
Folders == IF frames = <<>> THEN <<>> ELSE Head(frames).dest
FsKnown == IF frames = <<>> THEN topFs ELSE Head(frames).fs
Unique == job.kind = "duplicate" /\ frames = <<>>
Target(f, nth, fs) ==
  LET n == IF Unique THEN CopyName[NameOf(f)][nth] ELSE NameOf(f)
  IN Append(Folders, IF fs THEN Safe[n] ELSE n)
\* The names in CopyName are the bound on the names tried.
HasName == Unique => cur.nth \in DOMAIN CopyName[NameOf(cur.file)]
\* *dest_fs_type is set for the rest of the folder.
LearnFs(fs) ==
  IF fs = <<>> THEN topFs' = TRUE /\ frames' = fs
               ELSE frames' = <<[Head(fs) EXCEPT !.fs = TRUE]>> \o Tail(fs)
                    /\ UNCHANGED topFs

\* *skipped_file = TRUE in the caller; the callers at the top ignore it.
MarkIn(fs) == IF fs = <<>> THEN fs
                           ELSE <<[Head(fs) EXCEPT !.skip = TRUE]>> \o Tail(fs)
Out == cur' = Idle /\ frames' = MarkIn(frames)

\* An error on the file, which is asked about unless all errors are skipped.
Trouble(k, f) ==
  IF common.skipAll THEN Out /\ told' = told \cup {f} /\ UNCHANGED question
                    ELSE Ask(k, f) /\ UNCHANGED <<cur, frames, told>>

\* The loop over the list, and the loop over a folder, start a call.
Begin(f, over) ==
  IF pc = "copy" /\ f \in common.skipFiles
    THEN Out /\ UNCHANGED <<question, told>>
    ELSE IF f \in job.into \/ (pc = "copy" /\ f \in job.over)
      THEN Trouble("itself", f)
      ELSE /\ cur' = [Idle EXCEPT !.file = f, !.dest = Target(f, 1, FsKnown),
                                  !.over = over, !.handled = FsKnown, !.nth = 2]
           /\ UNCHANGED <<question, frames, told>>

TakeNext ==
  /\ pc \in {"prepare", "copy"} /\ Going
  /\ cur = Idle /\ frames = <<>> /\ list # <<>>
  /\ list' = Tail(list)
  /\ Begin(Head(list).file, Head(list).over)
  /\ UNCHANGED <<job, pc, common, fallbacks, removing, topFs, fileVars, agreed, renamed,
                 merged>>

\* The end of a list: move_job goes on to what was put off.
ListDone ==
  /\ pc \in {"prepare", "copy"} /\ Going
  /\ cur = Idle /\ frames = <<>> /\ list = <<>>
  /\ IF pc = "prepare" THEN pc' = "scan" /\ list' = fallbacks ELSE pc' = "notify" /\ UNCHANGED list
  /\ UNCHANGED <<job, fallbacks, question, common, cur, frames, removing, topFs,
                 fileVars, said>>

-----------------------------------------------------------------------------
\* One attempt of g_file_move or g_file_copy, see their documentation.
Native == IsMove /\ job.native
Attempt(f, p) ==
  IF f \notin src THEN "missing"
  ELSE IF Last(p) \in job.invalid /\ (f \in Folder => Native) THEN "invalid"
  ELSE IF p \in DOMAIN dest /\ ~cur.over THEN "exists"
  ELSE IF IsDir(p) /\ f \in Folder THEN "merge"
  ELSE IF IsDir(p) THEN "isDirectory"
  ELSE IF f \in Folder /\ ~Native THEN "recurse"
  ELSE IF pc = "prepare" /\ ~Native THEN "unsupported"
  ELSE "ok"

Trying ==
  /\ pc \in {"prepare", "copy"} /\ question = NoQuestion
  /\ cur # Idle /\ cur.stage = "try" /\ removing = <<>>
Result(r) == Trying /\ ~common.cancelled /\ Attempt(cur.file, cur.dest) = r

\* What is at p is replaced, by f and, if it is a folder that was renamed, by
\* all that is in it.
PathIn(f, g) == SubSeq(Way[g], Len(Way[f]) + 1, Len(Way[g]))
Put(f, p, files) ==
  LET at == [q \in {p \o PathIn(f, g) : g \in files} |->
               CHOOSE g \in files : q = p \o PathIn(f, g)]
  IN dest' = [q \in (DOMAIN dest \ Below(p)) \cup DOMAIN at |->
                IF q \in DOMAIN at THEN at[q] ELSE dest[q]]

\* A failed attempt leaves all as it was, or: what was in the place is gone, what
\* comes is begun, or all of it is there, but the result is FALSE, so that nobody
\* hears of it.  Only g_file_copy, and g_file_move where it may copy, fail so.
LeavesSome(f, p) ==
  \/ UNCHANGED <<dest, left>>
  \/ /\ pc = "copy" /\ cur.stage = "try" /\ removing = <<>> /\ Attempt(f, p) = "ok"
     /\ \E files \in {{}, {f}, Under(f) \cap src} : Put(f, p, files)
     /\ left' = left \cup {<<f, p>>}

\* Debuting files are those at the top.
Debut(p) == debuting' = IF frames = <<>> THEN debuting \cup {p} ELSE debuting
\* Mutant: the pair has the place the file would have had.
RecordTarget(f, p) == record' = record \cup {<<f, Target(f, 1, FALSE)>>}
Record(f, p) == record' = record \cup {<<f, p>>}
\* marlin_file_changes_queue_file_moved, _file_added.
Report(f, p, files) ==
  shown' = (shown \ {q \in shown : IsPrefix(p, q)}) \cup {p \o PathIn(f, g) : g \in files}

Succeed ==
  LET f == cur.file  files == Under(f) \cap src IN
  /\ Result("ok")
  /\ src' = IF IsMove THEN src \ files ELSE src
  /\ Put(f, cur.dest, files)
  /\ Debut(cur.dest) /\ Record(f, cur.dest) /\ Report(f, cur.dest, files)
  /\ cur' = Idle
  /\ UNCHANGED <<lists, pc, question, common, frames, removing, topFs, left, said>>

\* INVALID_FILENAME: another spelling is tried, once in a folder.  If there is
\* none copy_move_file goes on to its other errors; move_file_prepare leaves
\* the file out without a word.
Respell ==
  LET new == Target(cur.file, cur.nth, TRUE) IN
  /\ Result("invalid") /\ ~cur.handled /\ HasName
  /\ LearnFs(frames)
  /\ cur' = IF new # cur.dest THEN [cur EXCEPT !.dest = new, !.handled = TRUE]
            ELSE IF pc = "prepare" THEN Idle ELSE [cur EXCEPT !.handled = TRUE]
  /\ UNCHANGED <<lists, pc, question, common, removing, fileVars, said>>

\* EXISTS: duplicates take the next name.
NextName ==
  /\ Result("exists") /\ Unique /\ HasName
  /\ cur' = [cur EXCEPT !.dest = Target(cur.file, cur.nth, FsKnown), !.nth = cur.nth + 1]
  /\ UNCHANGED <<lists, pc, question, common, frames, removing, topFs, fileVars, said>>

\* An earlier answer covers the conflict, or the user is asked.
Merging == IsDir(cur.dest) /\ cur.file \in Folder
\* Mutant: merge all also replaces.
CoveredEither == common.mergeAll \/ common.replaceAll
Covered == IF Merging THEN common.mergeAll ELSE common.replaceAll
Agree(all) == agreed' = agreed \cup (IF Merging \/ ~all THEN {} ELSE {cur.dest})
Conflict ==
  /\ Result("exists") /\ ~Unique
  /\ \/ /\ Covered
        /\ cur' = [cur EXCEPT !.over = TRUE]
        /\ Agree(common.replaceAll)
        /\ UNCHANGED <<question, frames, told>>
     \/ /\ ~Covered /\ common.skipConflicts
        /\ Out /\ told' = told \cup {cur.file}
        /\ UNCHANGED <<question, agreed>>
     \/ /\ ~Covered /\ ~common.skipConflicts
        /\ Ask("conflict", cur.file)
        /\ UNCHANGED <<cur, frames, told, agreed>>
  /\ UNCHANGED <<lists, pc, common, removing, topFs, fileVars, renamed, merged>>

AnswerConflict ==
  /\ question.kind = "conflict"
  /\ question' = NoQuestion
  /\ \/ Abort /\ Out /\ UNCHANGED said
     \/ /\ common' \in {common, [common EXCEPT !.skipConflicts = TRUE]}
        /\ Out /\ told' = told \cup {cur.file}
        /\ UNCHANGED <<agreed, renamed, merged>>
     \/ /\ common' \in {common, IF Merging THEN [common EXCEPT !.mergeAll = TRUE]
                                           ELSE [common EXCEPT !.replaceAll = TRUE]}
        /\ cur' = [cur EXCEPT !.over = TRUE]
        /\ Agree(TRUE)
        /\ UNCHANGED <<frames, renamed, told, merged>>
  /\ UNCHANGED <<lists, pc, removing, topFs, fileVars>>

\* Mutant: with the overwrite flag.
RenameOver(n) == cur' = [cur EXCEPT !.dest = Append(Folders, n), !.over = TRUE]
Rename(n) == cur' = [cur EXCEPT !.dest = Append(Folders, n)]
AnswerRename ==
  /\ question.kind = "conflict"
  /\ question' = NoQuestion
  /\ \E n \in NewNames : Rename(n)
  /\ renamed' = IF pc = "prepare" THEN renamed \cup {cur.dest} ELSE renamed
  /\ UNCHANGED <<lists, pc, common, frames, removing, topFs, fileVars, agreed, told, merged>>

\* move_file_prepare puts off what a rename cannot do, with its overwrite flag
\* but under its own name.
\* Mutant: the list is begun anew.
PutOffOnly(f, over) == fallbacks' = <<[file |-> f, over |-> over]>>
PutOnList(f, over) == fallbacks' = Append(fallbacks, [file |-> f, over |-> over])
PutOff ==
  /\ Trying /\ ~common.cancelled /\ pc = "prepare"
  /\ \/ Attempt(cur.file, cur.dest) \in {"recurse", "merge", "isDirectory", "unsupported"}
     \/ ~Native
  /\ PutOnList(cur.file, cur.over)
  /\ cur' = Idle
  /\ UNCHANGED <<job, list, pc, question, common, frames, removing, topFs, fileVars, said>>

\* IS_DIRECTORY: a file takes the place of a folder, which is emptied first.
Empty ==
  /\ Result("isDirectory") /\ pc = "copy"
  /\ removing' = <<cur.dest>>
  /\ UNCHANGED <<lists, pc, question, common, cur, frames, topFs, fileVars, said>>

\* WOULD_RECURSE, WOULD_MERGE: a folder is made, or an old one is used.
Frame(created) ==
  [dir |-> cur.file, dest |-> cur.dest, created |-> created, stage |-> "open",
   left |-> {}, broken |-> FALSE, skip |-> FALSE, fs |-> FALSE]
Enter(created) ==
  /\ frames' = <<Frame(created)>> \o frames /\ cur' = Idle
  /\ merged' = IF created THEN merged ELSE merged \cup {cur.file}

Recurse ==
  /\ pc = "copy"
  /\ \/ /\ Result("recurse")
        /\ cur' = [cur EXCEPT !.stage = IF cur.over THEN "drop" ELSE "make"]
        /\ UNCHANGED <<frames, merged>>
     \/ Result("merge") /\ Enter(FALSE)
  /\ UNCHANGED <<lists, pc, question, common, removing, topFs, fileVars, agreed, renamed,
                 told>>

\* CANCELLED, in any of the calls on the file.
Stop ==
  /\ pc \in {"prepare", "copy"} /\ question = NoQuestion /\ common.cancelled
  /\ cur # Idle
  /\ LeavesSome(cur.file, cur.dest)
  /\ Out
  /\ removing' = <<>>
  /\ UNCHANGED <<lists, pc, question, common, topFs, src, debuting, record, shown, said>>

\* Any other error; also a name that has no valid spelling.
Fail ==
  /\ Trying /\ ~common.cancelled
  /\ Attempt(cur.file, cur.dest) = "invalid" => cur.handled
  /\ LeavesSome(cur.file, cur.dest)
  /\ Trouble("failed", cur.file)
  /\ UNCHANGED <<lists, pc, common, removing, topFs, src, debuting, record, shown, agreed,
                 renamed, merged>>

-----------------------------------------------------------------------------
\* remove_target_recursively, one file or folder at a time; the first error
\* ends it.
\* Mutant: the removal is not reported.
GoneQuietly(p) == dest' = [q \in DOMAIN dest \ {p} |-> dest[q]] /\ UNCHANGED shown
Gone(p) ==
  /\ dest' = [q \in DOMAIN dest \ {p} |-> dest[q]]
  /\ shown' = shown \ {q \in shown : IsPrefix(p, q)}
RemoveTarget ==
  LET p == Head(removing) IN
  /\ removing # <<>> /\ Going
  /\ \/ /\ \E q \in Within(p) : Len(q) = Len(p) + 1 /\ removing' = <<q>> \o removing
        /\ UNCHANGED <<fileVars, question, cur, frames, told>>
     \/ /\ Within(p) = {}
        /\ Gone(p)
        /\ removing' = Tail(removing)
        /\ UNCHANGED <<src, debuting, record, left, question, cur, frames, told>>
     \/ /\ Trouble("target", cur.file)
        /\ removing' = <<>>
        /\ UNCHANGED fileVars
  /\ UNCHANGED <<lists, pc, common, topFs, agreed, renamed, merged>>

\* A folder takes the place of a file.
DropOld ==
  /\ cur.stage = "drop" /\ Going
  /\ \/ /\ Gone(cur.dest)
        /\ cur' = [cur EXCEPT !.stage = "make"]
        /\ UNCHANGED <<src, debuting, record, left, question, frames, told>>
     \/ /\ cur.dest \in DOMAIN dest
        /\ Trouble("old", cur.file)
        /\ UNCHANGED fileVars
  /\ UNCHANGED <<lists, pc, common, removing, topFs, agreed, renamed, merged>>

\* create_dest_dir, which may come back with another spelling, that of the
\* source's name also where a duplicate is to be made.
MakeFolder ==
  LET f == cur.file  p == cur.dest
      bad == Last(p) \in job.invalid
      new == Append(Folders, Safe[NameOf(f)])
  IN
  /\ cur.stage = "make" /\ Going
  /\ \/ /\ ~bad
        /\ Put(f, p, {f})
        /\ Report(f, p, {f})
        /\ Debut(p) /\ Record(f, p)
        /\ Enter(TRUE)
        /\ UNCHANGED <<src, left, question, topFs>>
     \/ /\ bad /\ ~FsKnown
        /\ LearnFs(frames)
        /\ IF new # p
             THEN /\ cur' = [cur EXCEPT !.dest = new, !.handled = TRUE, !.stage = "try"]
                  /\ UNCHANGED question
             ELSE Ask("make", f) /\ UNCHANGED cur
        /\ UNCHANGED <<fileVars, merged>>
     \/ /\ bad => FsKnown
        /\ Ask("make", f)
        /\ UNCHANGED <<cur, frames, topFs, fileVars, merged>>
  /\ UNCHANGED <<lists, pc, common, removing, agreed, renamed, told>>

\* Cancel, Skip all or Skip.
AnswerError ==
  /\ question.kind \in Errors
  /\ question' = NoQuestion
  /\ \/ Abort /\ UNCHANGED told
     \/ /\ common' \in {common, [common EXCEPT !.skipAll = TRUE]}
        /\ told' = told \cup {question.file}
  /\ Out
  /\ UNCHANGED <<lists, pc, removing, topFs, fileVars, agreed, renamed, merged>>

\* Cancel or Skip.
NotMade == Out
AnswerMake ==
  /\ question.kind = "make"
  /\ question' = NoQuestion
  /\ \/ Abort /\ UNCHANGED told
     \/ UNCHANGED common /\ told' = told \cup {question.file}
  /\ NotMade
  /\ UNCHANGED <<lists, pc, removing, topFs, fileVars, agreed, renamed, merged>>

-----------------------------------------------------------------------------
\* copy_move_directory
Call == Head(frames)
Calls(c) == frames' = <<c>> \o Tail(frames)
InFolder(stage) == cur = Idle /\ frames # <<>> /\ Call.stage = stage

\* It will see all children, or some and then an error, which is ignored if the
\* scan met one.
OpenDir ==
  /\ InFolder("open") /\ Going
  /\ \/ /\ Calls([Call EXCEPT !.stage = "list", !.left = Present(Call.dir)])
        /\ UNCHANGED question
     \/ /\ \E seen \in SUBSET Present(Call.dir) :
             Calls([Call EXCEPT !.stage = "list", !.left = seen,
                                !.broken = Call.dir \notin common.skipReaddir])
        /\ UNCHANGED question
     \/ Ask("open", Call.dir) /\ UNCHANGED frames
  /\ UNCHANGED <<lists, pc, common, cur, removing, topFs, fileVars, said>>

\* Nothing is overwritten for a child without being asked about.
CopyChild(f) ==
  /\ InFolder("list") /\ Going
  /\ f \in Call.left
  /\ LET rest == <<[Call EXCEPT !.left = Call.left \ {f}]>> \o Tail(frames) IN
     IF f \in common.skipFiles
       THEN frames' = MarkIn(rest) /\ UNCHANGED cur
       ELSE /\ frames' = rest
            /\ cur' = [Idle EXCEPT !.file = f, !.dest = Target(f, 1, FsKnown),
                                   !.over = FALSE, !.handled = FsKnown, !.nth = 2]
  /\ UNCHANGED <<lists, pc, question, common, removing, topFs, fileVars, said>>

\* The end of the children, or of the reading of them.
\* Mutant: the loop does not look whether the job is aborted.
NoneLeft == Call.left = {}
Ends == Call.left = {} \/ common.cancelled
CloseDir ==
  /\ InFolder("list") /\ question = NoQuestion
  /\ Ends
  /\ IF Call.broken /\ ~common.cancelled
       THEN /\ Ask("list", Call.dir)
            /\ Calls([Call EXCEPT !.broken = FALSE])
            /\ UNCHANGED debuting
       ELSE /\ Calls([Call EXCEPT !.stage = "end"])
            /\ debuting' = IF Len(frames) = 1 THEN debuting \cup {Call.dest} ELSE debuting
            /\ UNCHANGED question
  /\ UNCHANGED <<lists, pc, common, cur, removing, topFs, src, dest, record, shown, left,
                 said>>

\* Cancel, or Skip: the folder does not count as moved.
AnswerFolder ==
  /\ question.kind \in {"open", "list"}
  /\ question' = NoQuestion
  /\ \/ Abort /\ UNCHANGED frames
     \/ /\ UNCHANGED common
        /\ Calls([Call EXCEPT !.skip = TRUE,
                              !.stage = IF question.kind = "open" THEN "end" ELSE "list"])
  /\ UNCHANGED <<lists, pc, cur, removing, topFs, fileVars, said>>

Retry ==
  /\ question.kind \in {"query", "space", "make", "open"}
  /\ question' = NoQuestion
  /\ UNCHANGED <<lists, pc, common, cur, frames, removing, topFs, fileVars, said>>

Return(skip) == frames' = IF skip THEN MarkIn(Tail(frames)) ELSE Tail(frames)

\* A moved folder is deleted, unless something in it was skipped.
EndDir ==
  /\ InFolder("end") /\ question = NoQuestion
  /\ IF IsMove /\ ~Call.skip /\ ~common.cancelled
       THEN \/ /\ Present(Call.dir) = {}
               /\ src' = src \ {Call.dir}
               /\ Return(FALSE)
               /\ UNCHANGED question
            \/ /\ UNCHANGED src
               /\ IF common.skipAll THEN Return(FALSE) /\ UNCHANGED question
                                    ELSE Ask("source", Call.dir) /\ UNCHANGED frames
       ELSE Return(Call.skip) /\ UNCHANGED <<src, question>>
  /\ UNCHANGED <<lists, pc, common, cur, removing, topFs, dest, debuting, record,
                 shown, left, said>>

LeaveDir ==
  /\ InFolder("open") /\ question = NoQuestion /\ common.cancelled
  /\ Return(Call.skip)
  /\ UNCHANGED <<lists, pc, question, common, cur, removing, topFs, fileVars, said>>

\* Cancel, Skip all or Skip.
AnswerSource ==
  /\ question.kind = "source"
  /\ question' = NoQuestion
  /\ \/ Abort /\ Return(FALSE)
     \/ /\ common' \in {common, [common EXCEPT !.skipAll = TRUE]}
        /\ Return(TRUE)
  /\ UNCHANGED <<lists, pc, cur, removing, topFs, fileVars, said>>

-----------------------------------------------------------------------------
Thread ==
  \/ Aborted \/ Done \/ Verify \/ Scan \/ TakeNext \/ ListDone
  \/ Succeed \/ Respell \/ NextName \/ Conflict \/ PutOff \/ Empty \/ Recurse
  \/ Stop \/ Fail \/ RemoveTarget \/ DropOld \/ MakeFolder
  \/ OpenDir \/ (\E f \in File : CopyChild(f)) \/ CloseDir \/ EndDir \/ LeaveDir
Answer ==
  \/ AnswerDestination \/ AnswerConflict \/ AnswerError \/ AnswerMake
  \/ AnswerFolder \/ AnswerSource

Next == Thread \/ Answer \/ AnswerRename \/ Retry \/ Cancel

Spec == Init /\ [][Next]_vars

\* The I/O scheduler runs the thread; the user answers, and does not choose
\* nothing but Retry or another name for ever.
FairSpec == Spec /\ WF_vars(Thread) /\ SF_vars(Answer)

-----------------------------------------------------------------------------
(* Properties *)

Entry == [file : File, over : BOOLEAN]
Level == [dir : Folder, dest : Path, created : BOOLEAN, stage : {"open", "list", "end"},
          left : SUBSET File, broken : BOOLEAN, skip : BOOLEAN, fs : BOOLEAN]

\* Each variable has its type.
TypeOK ==
  /\ job \in Jobs
  /\ pc \in {"query", "prepare", "scan", "verify", "copy", "notify", "over"}
  /\ question \in [kind : Questions, file : File \cup {NoFile}]
  /\ common \in [cancelled : BOOLEAN, skipAll : BOOLEAN, skipConflicts : BOOLEAN,
                 mergeAll : BOOLEAN, replaceAll : BOOLEAN,
                 skipFiles : SUBSET File, skipReaddir : SUBSET File]
  /\ list \in Seq(Entry) /\ fallbacks \in Seq(Entry)
  /\ cur \in [file : File \cup {NoFile}, dest : Path, over : BOOLEAN,
              handled : BOOLEAN, nth : Nat, stage : {"try", "drop", "make"}]
  /\ frames \in Seq(Level) /\ removing \in Seq(Path) /\ topFs \in BOOLEAN
  /\ src \subseteq File
  /\ DOMAIN dest \subseteq Path
  /\ dest \in [DOMAIN dest -> File \cup {OldFile, OldFolder}]
  /\ record \subseteq File \X Path /\ {debuting, shown, agreed, renamed} \subseteq SUBSET Path
  /\ left \subseteq File \X Path
  /\ {told, merged} \subseteq SUBSET File

Kept(p, f) == p \in DOMAIN dest /\ dest[p] = f
\* The user agreed to lose what is at p, or a folder above it.
Agreed(p) == \E q \in agreed : IsPrefix(q, p)
\* Where move_files may replace what the user did not agree to lose: it puts a file
\* that move_file_prepare has put off where it first tried it, though the user
\* chose another name, or in the place of its respelled name, though the file
\* system takes the other.
Respelt == {<<Safe[n]>> : n \in {m \in Name \ job.invalid : Safe[m] # m}}
Mistaken(p) == IsMove /\ \E q \in renamed \cup Respelt : IsPrefix(q, p)
Given(p) == Agreed(p) \/ Mistaken(p)

\* Nothing in the destination is lost, in a folder that is merged or in one that
\* is replaced, unless the user chose to replace it in the conflict dialog, or
\* chose it for all and there was a conflict.  Except for Mistaken, see
\* AskedBeforeReplaced.
OnlyAgreedReplaced == \A p \in DOMAIN job.old : Kept(p, job.old[p]) \/ Given(p)

\* The same without the exception: what move_files overwrites, "the user has
\* selected overwrite on".
AskedBeforeReplaced == \A p \in DOMAIN job.old : Kept(p, job.old[p]) \/ Agreed(p)

\* No selected file is in another.
Apart == \A s, t \in TopFiles : s # t => s \notin Under(t)

\* No file leaves its place before it is in the other, alone or with a folder, and
\* what was moved is not lost to a later file unless that was agreed to; what
\* the user skipped stays whole in its place, and of it nothing is in the other
\* but what the attempt that failed has left there.
NoSourceLost ==
  /\ \A f \in File \ src : f \notin Folder =>
       \E r \in record :
         f \in Under(r[1]) /\ LET p == r[2] \o PathIn(r[1], f) IN Kept(p, f) \/ Given(p)
  /\ Apart => \A f \in told :
       /\ Under(f) \subseteq src
       /\ \A p \in DOMAIN dest : dest[p] \in Under(f) =>
            \E l \in left : l[1] = f /\ IsPrefix(l[2], p)

\* Undo finds what it would move back or delete, or what replaced it later.
RecordTrue == \A r \in record : Kept(r[2], r[1]) \/ Given(r[2])

\* p is where a failed attempt left something, or below.
LeftAt(p) == \E l \in left : IsPrefix(l[2], p)
\* The user knows that the file failed, is asked about it, or did not wait for it.
KnowsOf(f) == f \in told \/ question.file = f \/ common.cancelled

\* The changes put in the queue leave the views with what is in the destination,
\* except where a copy, or a move that copies, failed half way: "the change will
\* not be notified to the view".  Of each such file the user knows that it failed.
ReportedTrue ==
  /\ \A p \in shown \cup DOMAIN dest : (p \in shown <=> p \in DOMAIN dest) \/ LeftAt(p)
  /\ \A l \in left : KnowsOf(l[1])

\* At the end of a job that was not cancelled the user knows of every selected
\* file that was neither copied nor moved, nor merged into a folder.  Except:
\* move_file_prepare says nothing of a name that has no valid spelling.
AllAccounted ==
  pc = "over" /\ ~common.cancelled =>
    \A f \in TopFiles \ (told \cup common.skipFiles \cup merged) :
      \/ f \in {r[1] : r \in record}
      \/ IsMove /\ Safe[NameOf(f)] \in job.invalid

\* The done callback is called, whatever fails and whatever the user answers.
JobEnds == <>(pc = "over")

=============================================================================
