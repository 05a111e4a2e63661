------------------------------- MODULE MakeJobs -------------------------------
(***************************************************************************)
(* The jobs of libcore/marlin-file-operations.c that put something new     *)
(* into a folder: link_job makes a link to every selected file, create_job *)
(* a folder, an empty file or a file from a template.  When the name is    *)
(* taken they try the next one (FileNames) until the file system takes it. *)
(*                                                                         *)
(* Several jobs, each in its thread, and another program work in the same  *)
(* folder.                                                                 *)
(***************************************************************************)
EXTENDS FileNames

CONSTANTS
  Jobs,       \* the jobs
  Cases,      \* the folders and what the jobs are to make in them, see below
  OtherNames, \* the names another program may put there
  MaxMeddle,  \* bound: what the other program does
  MaxCount    \* bound: the number in a name stays there

\* A folder: its file case, what get_max_name_length says of it, the names in
\* it.  A job: the names of the files to link to, or the one name to create;
\* whether the files are in the folder itself, or not local; and whether an undo
\* or redo runs the job, which then keeps no record.
ASSUME MakeAssumption ==
  /\ "other" \notin Jobs
  /\ \A c \in Cases :
       /\ c.system \in {"posix", "fat", "ntfs"} /\ c.max \in Int
       /\ DOMAIN c.work = Jobs
       /\ \A j \in Jobs :
            /\ c.work[j].kind \in {"link", "folder", "template", "file"}
            /\ {c.work[j].here, c.work[j].remote, c.work[j].undoing} \subseteq BOOLEAN
            /\ c.work[j].wanted \in Seq(Seq(STRING \X Nat)) \ {<<>>}
            /\ c.work[j].kind # "link" => Len(c.work[j].wanted) = 1
  /\ {MaxMeddle, MaxCount} \subseteq Nat

VARIABLES
  alive,      \* the program runs
  case,       \* the folder and the jobs, one of Cases
  dir,        \* what is in it: who made each name
  pc,         \* where each thread is
  cur,        \* the file at hand: its place in Wanted, the name that is tried,
              \* count and handled_invalid_filename
  fsKnown,    \* dest_fs_type has been asked for
  skipAll,    \* skip_all_error
  cancelled,  \* the cancellable
  record,     \* the undo record
  announced,  \* marlin_file_changes_queue_file_added
  meddled,    \* history: what the other program has done
  unwritten,  \* history: the files created whose contents are not written
  told,       \* history: the files the user knows could not be made
  silent      \* history: the files given up without a word

vars == <<alive, case, dir, pc, cur, fsKnown, skipAll, cancelled, record, announced,
          meddled, unwritten, told, silent>>

Other == <<"other", 0>>
Kind(j) == case.work[j].kind
Wanted(j) == case.work[j].wanted
MaxName == case.max
Creates(j) == Kind(j) # "link"
IsFat == case.system = "fat"
Fat(j) == fsKnown[j] /\ IsFat
This(j) == <<j, cur[j].i>>

\* The name of the file for a count, as get_target_file_for_link or create_job
\* make it.
NameFor(j, i, count, fat) ==
  LET name == Wanted(j)[i]
  IN ValidForFs(IF Kind(j) = "link" THEN LinkName(name, count, MaxName)
                ELSE IF Kind(j) = "folder" THEN NumberedName(name, count, MaxName)
                ELSE DuplicateName(name, count, MaxName), fat)

\* The name a file is first tried with.
Begin(j, i) ==
  IF Creates(j) THEN [i |-> i, name |-> Wanted(j)[i], count |-> 1, handled |-> FALSE]
  ELSE LET count == IF case.work[j].here THEN 1 ELSE 0
       IN [i |-> i, name |-> NameFor(j, i, count, Fat(j)), count |-> count,
           handled |-> fsKnown[j]]

Init ==
  /\ alive = TRUE
  /\ case \in Cases
  /\ dir = [n \in case.taken |-> Other]
  /\ pc = [j \in Jobs |-> "start"]
  /\ fsKnown = [j \in Jobs |-> FALSE]
  /\ cur = [j \in Jobs |-> [i |-> 1, name |-> <<>>, count |-> 0, handled |-> FALSE]]
  /\ skipAll = [j \in Jobs |-> FALSE]
  /\ cancelled = [j \in Jobs |-> FALSE]
  /\ record = [j \in Jobs |-> {}]
  /\ announced = {}
  /\ meddled = 0
  /\ unwritten = {} /\ told = {} /\ silent = {}

\* The next file, or the end of the loop.
MoveOn(j) ==
  IF cur[j].i < Len(Wanted(j)) /\ ~ cancelled'[j]
  THEN pc' = [pc EXCEPT ![j] = "make"] /\ cur' = [cur EXCEPT ![j] = Begin(j, cur[j].i + 1)]
  ELSE pc' = [pc EXCEPT ![j] = "done"] /\ UNCHANGED cur

\* verify_destination: a job that is cancelled goes no further, and one whose
\* folder is gone or no folder shows an error that cancels it.
Start(j) ==
  /\ pc[j] = "start"
  /\ \/ /\ ~ cancelled[j]
        /\ pc' = [pc EXCEPT ![j] = "make"]
        /\ cur' = [cur EXCEPT ![j] = Begin(j, 1)]
     \/ /\ cancelled[j]
        /\ pc' = [pc EXCEPT ![j] = "done"]
        /\ UNCHANGED cur
     \/ /\ ~ cancelled[j]
        /\ pc' = [pc EXCEPT ![j] = "verify"]
        /\ UNCHANGED cur
  /\ UNCHANGED <<alive, case, dir, fsKnown, skipAll, cancelled, record, announced,
                 meddled, unwritten, told, silent>>

AnswerVerify(j) ==
  /\ pc[j] = "verify"
  /\ cancelled' = [cancelled EXCEPT ![j] = TRUE]
  /\ pc' = [pc EXCEPT ![j] = "done"]
  /\ UNCHANGED <<alive, case, dir, cur, fsKnown, skipAll, record, announced,
                 meddled, unwritten, told, silent>>

\* What the file system may say to a name.
Results(j) ==
  LET name == cur[j].name
      odd == \E i \in DOMAIN name : name[i] \in Forbidden
  IN IF case.work[j].remote THEN {"failed"}
     ELSE IF cancelled[j] THEN {"cancelled"}
     ELSE IF case.system # "posix" /\ odd THEN {"invalid"}
     ELSE IF MaxName # NoLimit /\ Len(name) > MaxName THEN {"failed"}
     ELSE IF name \in DOMAIN dir THEN {"exists"}
     ELSE {"made", "failed"}

\* Mutant: the name that was wanted is recorded.
ReportFirst(j) ==
  /\ announced' = announced \cup {Wanted(j)[cur[j].i]}
  /\ record' = IF case.work[j].undoing THEN record
               ELSE [record EXCEPT ![j] = @ \cup {<<cur[j].i, Wanted(j)[cur[j].i]>>}]

\* The undo record, where there is one, and the queue of changes.
Report(j) ==
  /\ announced' = announced \cup {cur[j].name}
  /\ record' = IF case.work[j].undoing THEN record
               ELSE [record EXCEPT ![j] = @ \cup {<<cur[j].i, cur[j].name>>}]

\* A folder, a link or a copy of the template is there at once; an empty file
\* still has to be written and closed.
Made(j) ==
  /\ pc[j] = "make" /\ "made" \in Results(j)
  /\ dir' = [n \in DOMAIN dir \cup {cur[j].name} |->
               IF n = cur[j].name THEN This(j) ELSE dir[n]]
  /\ UNCHANGED cancelled
  /\ IF Kind(j) = "file"
     THEN /\ pc' = [pc EXCEPT ![j] = "write"]
          /\ unwritten' = unwritten \cup {This(j)}
          /\ UNCHANGED <<cur, record, announced>>
     ELSE Report(j) /\ MoveOn(j) /\ UNCHANGED unwritten
  /\ UNCHANGED <<alive, case, fsKnown, skipAll, meddled, told, silent>>

Written(j) ==
  /\ pc[j] = "write" /\ ~ cancelled[j]
  /\ unwritten' = unwritten \ {This(j)}
  /\ UNCHANGED cancelled
  /\ Report(j) /\ MoveOn(j)
  /\ UNCHANGED <<alive, case, dir, fsKnown, skipAll, meddled, told, silent>>

\* Mutant: an error is taken for a cancel.
NotMade(j) == pc[j] = "make" /\ "failed" \in Results(j)

\* The error says that the job was cancelled.
Stopped(j) ==
  \/ pc[j] = "make" /\ "cancelled" \in Results(j)
  \/ pc[j] = "write" /\ cancelled[j]

\* Then the job has nothing to say.
Quiet(j) ==
  /\ Stopped(j)
  /\ UNCHANGED cancelled
  /\ MoveOn(j)
  /\ UNCHANGED <<alive, case, dir, fsKnown, skipAll, record, announced, meddled,
                 unwritten, told, silent>>

\* handled_invalid_filename is still FALSE.
MayRespell(j) == pc[j] = "make" /\ "invalid" \in Results(j) /\ ~ cur[j].handled

\* An error the user has to hear of.
Fails(j) ==
  \/ pc[j] = "make" /\ "failed" \in Results(j)
  \/ pc[j] = "make" /\ "invalid" \in Results(j) /\ ~ MayRespell(j)
  \/ pc[j] = "write" /\ ~ cancelled[j]
  \* A link to a name that cannot be respelled.
  \/ MayRespell(j) /\ ~ Creates(j) /\ NameFor(j, cur[j].i, cur[j].count, IsFat)
                                       = cur[j].name

\* run_warning, unless the user has said to skip all.
Trouble(j) ==
  /\ Fails(j)
  /\ fsKnown' = [fsKnown EXCEPT ![j] = @ \/ MayRespell(j)]
  /\ told' = told \cup {This(j)}
  /\ UNCHANGED cancelled
  /\ IF skipAll[j] THEN MoveOn(j)
     ELSE pc' = [pc EXCEPT ![j] = "ask"] /\ UNCHANGED cur
  /\ UNCHANGED <<alive, case, dir, skipAll, record, announced, meddled,
                 unwritten, silent>>

\* Cancel, Skip all, which only a link job with more files to do offers, or Skip.
Answer(j) ==
  /\ pc[j] = "ask"
  /\ \/ cancelled' = [cancelled EXCEPT ![j] = TRUE] /\ UNCHANGED skipAll
     \/ /\ ~ Creates(j) /\ cur[j].i < Len(Wanted(j))
        /\ skipAll' = [skipAll EXCEPT ![j] = TRUE]
        /\ UNCHANGED cancelled
     \/ UNCHANGED <<skipAll, cancelled>>
  /\ MoveOn(j)
  /\ UNCHANGED <<alive, case, dir, fsKnown, record, announced, meddled, unwritten,
                 told, silent>>

\* Where the file system does not take a name, it is asked what it is, and the
\* name respelled, once.
RespellLink(j) ==
  /\ MayRespell(j) /\ ~ Creates(j)
  /\ LET name == NameFor(j, cur[j].i, cur[j].count, IsFat)
     IN /\ name # cur[j].name
        /\ cur' = [cur EXCEPT ![j].name = name, ![j].handled = TRUE]
  /\ fsKnown' = [fsKnown EXCEPT ![j] = TRUE]
  /\ UNCHANGED <<alive, case, dir, pc, skipAll, cancelled, record, announced, meddled,
                 unwritten, told, silent>>

\* create_job releases the file it tried twice, which may end the program; and
\* when the name stays as it is, the job ends without a word.
RespellNew(j) ==
  /\ MayRespell(j) /\ Creates(j)
  /\ LET asked == IF cur[j].count = 1 THEN Wanted(j)[1]
                  ELSE NameFor(j, 1, cur[j].count, FALSE)
         name == ValidForFs(asked, IsFat)
     IN IF name # asked
        THEN /\ cur' = [cur EXCEPT ![j].name = name, ![j].handled = TRUE]
             /\ UNCHANGED <<pc, silent>>
        ELSE /\ pc' = [pc EXCEPT ![j] = "done"]
             /\ silent' = silent \cup {This(j)}
             /\ UNCHANGED cur
  /\ alive' \in BOOLEAN
  /\ fsKnown' = [fsKnown EXCEPT ![j] = TRUE]
  /\ UNCHANGED <<case, dir, skipAll, cancelled, record, announced, meddled,
                 unwritten, told>>

Capped(n) == IF n < MaxCount THEN n ELSE MaxCount

\* Mutant: the count stays.
SameAgain(j) == [cur[j] EXCEPT !.name = NameFor(j, cur[j].i, cur[j].count, Fat(j))]

\* The name for the next count.  A folder counts first; the others count after
\* they have made up the name.
Recount(j) ==
  LET count == cur[j].count
      next == Capped(count + 1)
  IN [cur[j] EXCEPT
        !.count = next,
        !.name = NameFor(j, cur[j].i, IF Kind(j) = "folder" THEN next ELSE count, Fat(j))]

Exists(j) ==
  /\ pc[j] = "make" /\ "exists" \in Results(j)
  /\ cur' = [cur EXCEPT ![j] = Recount(j)]
  /\ UNCHANGED <<alive, case, dir, pc, fsKnown, skipAll, cancelled, record, announced,
                 meddled, unwritten, told, silent>>

\* link_job_done and create_job_done in the main loop.
Done(j) ==
  /\ pc[j] = "done"
  /\ pc' = [pc EXCEPT ![j] = "ended"]
  /\ UNCHANGED <<alive, case, dir, cur, fsKnown, skipAll, cancelled, record, announced,
                 meddled, unwritten, told, silent>>

\* The progress window's cancel button.
Cancel(j) ==
  /\ pc[j] # "ended" /\ ~ cancelled[j]
  /\ cancelled' = [cancelled EXCEPT ![j] = TRUE]
  /\ UNCHANGED <<alive, case, dir, pc, cur, fsKnown, skipAll, record, announced,
                 meddled, unwritten, told, silent>>

\* Another program makes a name or removes one.
Meddle ==
  /\ meddled < MaxMeddle
  /\ meddled' = meddled + 1
  /\ \/ \E n \in OtherNames \ DOMAIN dir :
          dir' = [m \in DOMAIN dir \cup {n} |-> IF m = n THEN Other ELSE dir[m]]
     \/ \E n \in DOMAIN dir : dir' = [m \in DOMAIN dir \ {n} |-> dir[m]]
  /\ UNCHANGED <<alive, case, pc, cur, fsKnown, skipAll, cancelled, record, announced,
                 unwritten, told, silent>>

Thread(j) ==
  /\ alive
  /\ \/ Start(j) \/ Made(j) \/ Written(j) \/ Quiet(j) \/ Trouble(j)
     \/ RespellLink(j) \/ RespellNew(j) \/ Exists(j)

MainLoop(j) == alive /\ (AnswerVerify(j) \/ Answer(j) \/ Done(j))

Next ==
  \/ \E j \in Jobs : Thread(j) \/ MainLoop(j) \/ (alive /\ Cancel(j))
  \/ alive /\ Meddle

\* The threads are run, the main loop serves its idle calls, and the user
\* answers a dialog some time.
Fairness == \A j \in Jobs : WF_vars(Thread(j)) /\ WF_vars(MainLoop(j))

Spec == Init /\ [][Next]_vars
FairSpec == Spec /\ Fairness
-----------------------------------------------------------------------------
Owned(j) == {n \in DOMAIN dir : dir[n][1] = j}

\* Undoing a job takes back what it made and nothing else: its record, where it
\* keeps one, names every file it put into the folder under the name it got in
\* the end, and each of them is announced to the views; but a file that was
\* created and not written is in neither.
UndoTakesBack ==
  \A j \in Jobs :
    /\ \A n \in Owned(j) :
         dir[n] \notin unwritten =>
           n \in announced /\ (case.work[j].undoing \/ <<dir[n][2], n>> \in record[j])
    /\ \A r \in record[j] :
         \/ r[2] \in DOMAIN dir /\ dir[r[2]] = <<j, r[1]>>
         \/ meddled > 0

\* When a job has ended uncancelled, each of its files was made, or the user was
\* told that it was not; but for the new file or folder whose name cannot be
\* respelled.
AllAccounted ==
  \A j \in Jobs : pc[j] = "ended" /\ ~ cancelled[j] =>
    \A i \in DOMAIN Wanted(j) :
      \/ <<j, i>> \in told \cup silent
      \/ \E n \in Owned(j) : dir[n] = <<j, i>>
      \/ meddled > 0

LastDot(name) ==
  LET dots == {i \in DOMAIN name : name[i] = Dot}
  IN IF dots = {} THEN 0 ELSE CHOOSE i \in dots : \A k \in dots : k <= i
TypeOf(name) ==
  IF LastDot(name) \in {0, 1} THEN <<>> ELSE SubSeq(name, LastDot(name), Len(name))
TagBehindDot(name) == \E i, k \in DOMAIN name : i < k /\ name[i] = Dot /\ name[k] = Copy

\* A file that gets another name because its own is taken is still of the same
\* type: it keeps what follows the last dot of the name that was asked for, also
\* where the name is shortened to make room for the tag.  Except for a name that
\* has the tag of a copy behind a dot: get_duplicate_name takes what follows the
\* tag for no suffix, and it is lost.
KeepsType ==
  \A j \in Jobs : Kind(j) \in {"file", "template"} /\ ~ TagBehindDot(Wanted(j)[1]) =>
    \A n \in Owned(j) : TypeOf(n) = TypeOf(ValidForFs(Wanted(j)[1], n # Wanted(j)[1] /\ Fat(j)))

\* The number that tells a new folder from the ones there are does not fit into
\* its name, and the same name is tried for ever.
NumberCut(j) ==
  /\ Kind(j) = "folder" /\ cur[j].count > 1
  /\ cur[j].name[Len(cur[j].name)] # Number(cur[j].count)

\* Every job comes to its end, whoever else makes names in the folder; but for
\* the folder whose number is cut off.
JobEnds ==
  \A j \in Jobs : (pc[j] # "ended") ~> (pc[j] = "ended" \/ ~ alive \/ NumberCut(j))
=============================================================================
