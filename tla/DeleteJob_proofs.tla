--------------------------- MODULE DeleteJob_proofs ---------------------------
(***************************************************************************)
(* Proofs about DeleteJob, for any files, folders, choice and preferences. *)
(***************************************************************************)
EXTENDS DeleteJob, FiniteSetTheorems, SequenceTheorems, TLAPS

-----------------------------------------------------------------------------
(* What is in a folder *)

LEMMA FoldersAndTops == Folder \subseteq File /\ TopFiles \subseteq File
  BY DeleteAssumption DEF TopFiles, Range

LEMMA UnderLeast ==
  ASSUME NEW f \in File, NEW S \in SUBSET File, f \in S, HasKids(S)
  PROVE  Under[f] \subseteq S
  BY DeleteAssumption DEF Under

LEMMA UnderSelf ==
  ASSUME NEW f \in File
  PROVE  f \in Under[f] /\ Under[f] \subseteq File /\ HasKids(Under[f])
  BY DeleteAssumption DEF Under, HasKids

LEMMA UnderKids ==
  ASSUME NEW f \in File, NEW d \in Under[f], d \in Folder
  PROVE  Kids[d] \subseteq Under[f]
  BY DeleteAssumption, UnderSelf DEF HasKids

LEMMA UnderUnder ==
  ASSUME NEW f \in File, NEW g \in Under[f]
  PROVE  g \in File /\ Under[g] \subseteq Under[f]
  BY DeleteAssumption, UnderSelf, UnderLeast

\* What is in a folder and not the folder itself is in one that is in it.
LEMMA UnderParent ==
  ASSUME NEW f \in File, NEW d \in Folder, NEW g \in Kids[d], g \in Under[f], g # f
  PROVE  d \in Under[f]
<1> SUFFICES ASSUME d \notin Under[f] PROVE FALSE
  BY DeleteAssumption
<1>1. HasKids(Under[f] \ {g})
  BY DeleteAssumption, UnderSelf DEF HasKids
<1> QED  BY DeleteAssumption, <1>1, UnderSelf, UnderLeast

\* A folder is not in its child, nor is another child of it.
LEMMA UnderChild ==
  ASSUME NEW d \in Folder, NEW g \in Kids[d]
  PROVE  /\ g \in File /\ d \notin Under[g] /\ g \in Under[d]
         /\ \A h \in Kids[d] : h # g => h \notin Under[g]
<1>1. g \in File /\ d \notin Under[g]
  BY DeleteAssumption
<1>2. g \in Under[d]
  BY DeleteAssumption, UnderSelf, UnderKids
<1> QED  BY DeleteAssumption, <1>1, <1>2, UnderParent

\* Two files of which none is in the other have nothing in common.
LEMMA UnderApart ==
  ASSUME NEW s \in File, NEW t \in File, s \notin Under[t], t \notin Under[s]
  PROVE  Under[s] \cap Under[t] = {}
<1>1. HasKids(Under[s] \ Under[t])
  <2> SUFFICES ASSUME NEW d \in Under[s] \ Under[t], d \in Folder, NEW k \in Kids[d],
                      k \in Under[t]
               PROVE  FALSE
    BY DeleteAssumption, UnderSelf DEF HasKids
  <2>1. k \in Under[s]
    BY DeleteAssumption, UnderKids
  <2> QED  BY DeleteAssumption, <2>1, UnderParent
<1> QED  BY DeleteAssumption, <1>1, UnderSelf, UnderLeast

\* Nothing is left in what is gone.
GoneWhole == \A d \in Folder : d \notin disk => Kids[d] \cap disk = {}

LEMMA NothingLeft ==
  ASSUME GoneWhole, disk \subseteq File, NEW f \in File, Present(f) = {}
  PROVE  Under[f] \cap disk \subseteq {f}
<1>1. HasKids({f} \cup (File \ disk))
  BY DeleteAssumption DEF GoneWhole, Present, HasKids
<1> QED  BY DeleteAssumption, <1>1, UnderLeast

-----------------------------------------------------------------------------
(* The stack of calls *)

\* The same calls with the same folders, and no more to come in any of them.
Shrinks(fs, gs) ==
  /\ gs \in Seq(Frame) /\ Len(gs) = Len(fs)
  /\ \A k \in DOMAIN fs : gs[k].dir = fs[k].dir /\ gs[k].left \subseteq fs[k].left

LEMMA ShrinksSame == ASSUME NEW fs \in Seq(Frame) PROVE Shrinks(fs, fs)
  BY DEF Shrinks

LEMMA ShrinksTwice ==
  ASSUME NEW fs \in Seq(Frame), NEW gs, NEW hs, Shrinks(fs, gs), Shrinks(gs, hs)
  PROVE  Shrinks(fs, hs)
  BY DEF Shrinks

\* A call put in the place of the innermost.
LEMMA HeadReplaced ==
  ASSUME NEW fs \in Seq(Frame), fs # <<>>, NEW c \in Frame
  PROVE  /\ <<c>> \o Tail(fs) \in Seq(Frame)
         /\ Len(<<c>> \o Tail(fs)) = Len(fs)
         /\ (<<c>> \o Tail(fs))[1] = c
         /\ \A k \in DOMAIN fs : k # 1 => (<<c>> \o Tail(fs))[k] = fs[k]
         /\ Head(fs) = fs[1] /\ fs[1] \in Frame /\ 1 \in DOMAIN fs
  OBVIOUS

LEMMA HeadShrinks ==
  ASSUME NEW fs \in Seq(Frame), fs # <<>>, NEW c \in Frame,
         c.dir = fs[1].dir, c.left \subseteq fs[1].left
  PROVE  Shrinks(fs, <<c>> \o Tail(fs))
  BY HeadReplaced DEF Shrinks

LEMMA MarkInShrinks ==
  ASSUME NEW fs \in Seq(Frame), skipped \in Nat, MarkIn(fs)
  PROVE  /\ Shrinks(fs, frames') /\ skipped' \in Nat
         /\ skipped' = IF fs = <<>> THEN skipped + 1 ELSE skipped
<1>1. CASE fs = <<>>
  <2>1. frames' = fs /\ skipped' = skipped + 1
    BY <1>1 DEF MarkIn
  <2>2. Shrinks(fs, fs)
    BY ShrinksSame
  <2> QED  BY <1>1, <2>1, <2>2
<1>2. CASE fs # <<>>
  <2> DEFINE c == [Head(fs) EXCEPT !.skip = TRUE]
  <2>1. fs[1] \in Frame /\ Head(fs) = fs[1]
    BY <1>2
  <2>2. c \in Frame /\ c.dir = fs[1].dir /\ c.left = fs[1].left
    BY <2>1 DEF Frame
  <2>3. frames' = <<c>> \o Tail(fs) /\ skipped' = skipped
    BY <1>2 DEF MarkIn
  <2> HIDE DEF c
  <2> QED  BY <1>2, <2>2, <2>3, HeadShrinks
<1> QED  BY <1>1, <1>2

LEMMA Popped ==
  ASSUME NEW fs \in Seq(Frame), fs # <<>>
  PROVE  /\ Tail(fs) \in Seq(Frame) /\ Len(Tail(fs)) = Len(fs) - 1
         /\ \A k \in DOMAIN Tail(fs) : k + 1 \in DOMAIN fs /\ Tail(fs)[k] = fs[k + 1]
  OBVIOUS

LEMMA Pushed ==
  ASSUME NEW fs \in Seq(Frame), NEW c \in Frame
  PROVE  /\ <<c>> \o fs \in Seq(Frame) /\ Len(<<c>> \o fs) = Len(fs) + 1
         /\ (<<c>> \o fs)[1] = c
         /\ \A k \in DOMAIN fs : (<<c>> \o fs)[k + 1] = fs[k]
  OBVIOUS

-----------------------------------------------------------------------------
LEMMA Choices == /\ ToTrash \subseteq TopFiles /\ ToDelete \subseteq TopFiles
                 /\ ToTrash \cap ToDelete = {} /\ Free \subseteq ToDelete
  BY DEF ToTrash, ToDelete, Free

LEMMA StartScanTyped ==
  ASSUME TypeOK, NEW files \in SUBSET TopFiles, StartScan(files)
  PROVE  /\ pc' \in {"scan", "then"} /\ list' = files
         /\ scanFiles' \in SUBSET TopFiles /\ scanDirs' \in SUBSET File
  BY DEF StartScan, TypeOK

LEMMA GoneTyped ==
  ASSUME TypeOK, NEW f \in File, Gone(f)
  PROVE  disk' \subseteq File /\ changes' \in Seq(File)
  BY DEF Gone, TypeOK

LEMMA Asks ==
  ASSUME NEW k \in Questions, NEW f \in File \cup {NoFile}, Ask(k, f)
  PROVE  question' \in [kind : Questions, file : File \cup {NoFile}]
  BY DEF Ask

\* A call of delete_dir that begins.
New(f) == [dir |-> f, opened |-> FALSE, left |-> {}, broken |-> FALSE, skip |-> FALSE]

\* What delete_file can come to.
LEMMA DeleteFileDoes ==
  ASSUME TypeOK, NEW f \in File, NEW fs \in Seq(Frame), DeleteFile(f, fs)
  PROVE  \/ /\ MarkIn(fs) /\ UNCHANGED <<question, disk, changes>>
         \/ /\ f \notin skipFiles /\ f \in disk /\ Present(f) = {} /\ Gone(f)
            /\ frames' = fs /\ UNCHANGED <<question, skipped>>
         \/ /\ f \notin skipFiles /\ f \in Folder /\ Present(f) # {}
            /\ New(f) \in Frame /\ frames' = <<New(f)>> \o fs
            /\ UNCHANGED <<question, skipped, disk, changes>>
         \/ /\ Ask("remove", f) /\ frames' = fs /\ UNCHANGED <<skipped, disk, changes>>
<1>1. Present(f) # {} => f \in Folder
  BY DEF Present
<1>2. f \in Folder => New(f) \in Frame
  BY DEF New, Frame
<1> QED  BY <1>1, <1>2 DEF DeleteFile, Skips, New

LEMMA DeleteFileTyped ==
  ASSUME TypeOK, NEW f \in File, NEW fs \in Seq(Frame), DeleteFile(f, fs)
  PROVE  /\ question' \in [kind : Questions, file : File \cup {NoFile}]
         /\ frames' \in Seq(Frame) /\ skipped' \in Nat
         /\ disk' \in SUBSET File /\ changes' \in Seq(File)
<1> USE DEF TypeOK
<1>1. CASE MarkIn(fs) /\ UNCHANGED <<question, disk, changes>>
  BY <1>1, MarkInShrinks DEF Shrinks
<1>2. CASE Gone(f) /\ frames' = fs /\ UNCHANGED <<question, skipped>>
  BY <1>2 DEF Gone
<1>3. CASE /\ New(f) \in Frame /\ frames' = <<New(f)>> \o fs
           /\ UNCHANGED <<question, skipped, disk, changes>>
  BY <1>3, Pushed
<1>4. CASE Ask("remove", f) /\ frames' = fs /\ UNCHANGED <<skipped, disk, changes>>
  BY <1>4, Asks DEF Questions
<1> QED  BY <1>1, <1>2, <1>3, <1>4, DeleteFileDoes

\* The call at work, when there is one.
LEMMA CallIs ==
  ASSUME TypeOK, frames # <<>>
  PROVE  /\ Call = frames[1] /\ Call \in Frame /\ 1 \in DOMAIN frames
         /\ Call.dir \in Folder /\ Call.left \in SUBSET File
<1>1. Call = frames[1] /\ Call \in Frame /\ 1 \in DOMAIN frames
  BY HeadReplaced DEF Call, TypeOK
<1> QED  BY <1>1 DEF Frame

\* Another state of that call.
LEMMA CallsTyped ==
  ASSUME TypeOK, frames # <<>>, NEW c \in Frame, Calls(c)
  PROVE  frames' \in Seq(Frame) /\ frames' # <<>>
  BY HeadReplaced DEF Calls, TypeOK

LEMMA CallStates ==
  ASSUME TypeOK, frames # <<>>
  PROVE  /\ \A left \in SUBSET File : [Call EXCEPT !.left = left] \in Frame
         /\ \A left \in SUBSET File : [Call EXCEPT !.opened = TRUE, !.left = left] \in Frame
         /\ \A left \in SUBSET File, b \in BOOLEAN :
              [Call EXCEPT !.opened = TRUE, !.left = left, !.broken = b] \in Frame
         /\ [Call EXCEPT !.opened = TRUE, !.skip = TRUE] \in Frame
         /\ [Call EXCEPT !.skip = TRUE] \in Frame
         /\ [Call EXCEPT !.broken = FALSE] \in Frame
<1>1. Call \in Frame
  BY CallIs
<1> QED  BY <1>1 DEF Frame

LEMMA PresentTyped == ASSUME TypeOK, NEW f PROVE Present(f) \in SUBSET File
  BY DEF Present, TypeOK

-----------------------------------------------------------------------------
\* Where the thread is when it asks, and what its lists and its stack are then.
Control ==
  /\ question.kind = "none" => question = NoQuestion
  /\ frames # <<>> => pc = "delete"
  /\ question.kind = "confirm" => pc = "start"
  /\ question.kind \in {"info", "readdir"} => pc = "scan" /\ question.file \in File
  /\ question.kind \in {"remove", "open", "list", "folder"} =>
       pc = "delete" /\ question.file \in File
  /\ question.kind \in {"open", "list", "folder"} => frames # <<>>
  /\ question.kind \in {"trash", "trashOnly"} => pc = "trash" /\ question.file \in list
  /\ pc = "start" =>
       /\ disk = File /\ list = {} /\ toTrash \subseteq ToTrash
       /\ skipped = 0 /\ changes = <<>>
       /\ agreed = {} /\ trashed = {} /\ record = {} /\ skipFiles = {}
  /\ pc # "trash" => toDelete = {}
  /\ pc = "trash" => toTrash = {}

LEMMA InitTyped == Init => TypeOK
<1> SUFFICES ASSUME Init PROVE TypeOK
  OBVIOUS
<1>1. frames \in Seq(Frame) /\ changes \in Seq(File)
  BY DEF Init
<1>2. question \in [kind : Questions, file : File \cup {NoFile}] /\ pc \in Steps
  BY DEF Init, NoQuestion, Questions, Steps
<1> QED  BY <1>1, <1>2 DEF Init, TypeOK, flags

LEMMA NextTyped == TypeOK /\ Control /\ [Next]_vars => TypeOK'
<1> SUFFICES ASSUME TypeOK, Control, [Next]_vars PROVE TypeOK'
  OBVIOUS
<1>a. NoQuestion \in [kind : Questions, file : File \cup {NoFile}]
  BY DEF NoQuestion, Questions
<1> USE DEF TypeOK, flags, scanVars, fileVars, Steps
<1>1. ASSUME NEW f \in File, ScanFile(f) PROVE TypeOK'
  <2>1. f \in TopFiles
    BY <1>1 DEF ScanFile, First
  <2>2. question' \in [kind : Questions, file : File \cup {NoFile}]
    BY <1>1, Asks DEF ScanFile, ScanFails, Questions
  <2> QED  BY <1>1, <2>1, <2>2 DEF ScanFile, ScanFails
<1>2. ASSUME NEW d \in Folder, ScanDir(d) PROVE TypeOK'
  <2>1. d \in File /\ Present(d) \in SUBSET File
    BY FoldersAndTops, PresentTyped
  <2>2. question' \in [kind : Questions, file : File \cup {NoFile}]
    BY <1>2, <2>1, Asks DEF ScanDir, ScanFails, Questions
  <2>3. scanDirs' \in SUBSET File /\ skipFiles' \in SUBSET File
    BY <1>2, <2>1 DEF ScanDir, ScanFails
  <2> QED  BY <1>2, <2>2, <2>3 DEF ScanDir
<1>3. CASE ScanDone
  BY <1>3 DEF ScanDone
<1>4. ASSUME NEW f \in File, DeleteNext(f) PROVE TypeOK'
  <2>1. <<>> \in Seq(Frame)
    OBVIOUS
  <2> QED  BY <1>4, <2>1, DeleteFileTyped DEF DeleteNext
<1>5. ASSUME NEW f \in File, DeleteChild(f) PROVE TypeOK'
  <2> DEFINE c == [Call EXCEPT !.left = Call.left \ {f}]
  <2>1. frames # <<>> /\ DeleteFile(f, <<c>> \o Tail(frames))
    BY <1>5 DEF DeleteChild
  <2>2. c \in Frame
    BY <2>1, CallStates, CallIs
  <2> HIDE DEF c
  <2>3. <<c>> \o Tail(frames) \in Seq(Frame)
    BY <2>1, <2>2, HeadReplaced
  <2> QED  BY <1>5, <2>1, <2>3, DeleteFileTyped DEF DeleteChild
<1>6. CASE DeleteDone
  BY <1>6 DEF DeleteDone
<1>7. CASE AnswerRemove
  BY <1>7, <1>a, MarkInShrinks DEF AnswerRemove, Shrinks
<1>8. CASE OpenDir
  <2>0. frames # <<>> /\ Call.dir \in File /\ Present(Call.dir) \in SUBSET File
    BY <1>8, CallIs, FoldersAndTops, PresentTyped DEF OpenDir
  <2>1. question' \in [kind : Questions, file : File \cup {NoFile}]
    BY <1>8, <2>0, Asks DEF OpenDir, Questions
  <2>2. frames' \in Seq(Frame)
    <3>1. CASE Calls([Call EXCEPT !.opened = TRUE, !.left = Present(Call.dir)])
      BY <2>0, <3>1, CallStates, CallsTyped
    <3>2. ASSUME NEW seen \in SUBSET Present(Call.dir),
                 Calls([Call EXCEPT !.opened = TRUE, !.left = seen,
                                    !.broken = Call.dir \notin skipReaddir])
          PROVE  frames' \in Seq(Frame)
      <4>1. (Call.dir \notin skipReaddir) \in BOOLEAN /\ seen \in SUBSET File
        BY <2>0
      <4> QED  BY <2>0, <3>2, <4>1, CallStates, CallsTyped
    <3> QED  BY <1>8, <3>1, <3>2 DEF OpenDir
  <2> QED  BY <1>8, <2>1, <2>2 DEF OpenDir
<1>9. CASE AnswerOpen \/ AnswerList
  <2>1. frames # <<>>
    BY <1>9 DEF AnswerOpen, AnswerList, Control
  <2> QED  BY <1>9, <1>a, <2>1, CallStates, CallsTyped DEF AnswerOpen, AnswerList
<1>10. CASE RetryOpen
  BY <1>10, <1>a DEF RetryOpen
<1>11. CASE ListBreaks
  <2>1. frames # <<>> /\ Call.dir \in File
    BY <1>11, CallIs, FoldersAndTops DEF ListBreaks
  <2>2. question' \in [kind : Questions, file : File \cup {NoFile}]
    BY <1>11, <2>1, Asks DEF ListBreaks, Questions
  <2>3. frames' \in Seq(Frame)
    BY <1>11, <2>1, CallStates, CallsTyped DEF ListBreaks
  <2> QED  BY <1>11, <2>2, <2>3 DEF ListBreaks
<1>12. CASE RemoveDir
  <2>1. frames # <<>> /\ Call.dir \in File /\ Tail(frames) \in Seq(Frame)
    BY <1>12, CallIs, FoldersAndTops, Popped DEF RemoveDir
  <2>2. question' \in [kind : Questions, file : File \cup {NoFile}]
    BY <1>12, <2>1, Asks DEF RemoveDir, Questions
  <2>3. frames' \in Seq(Frame)
    BY <1>12, <2>1 DEF RemoveDir
  <2>4. disk' \subseteq File /\ changes' \in Seq(File)
    <3>1. Gone(Call.dir) \/ UNCHANGED <<disk, changes>>
      BY <1>12 DEF RemoveDir
    <3> QED  BY <2>1, <3>1, GoneTyped
  <2> QED  BY <1>12, <2>2, <2>3, <2>4 DEF RemoveDir
<1>13. CASE AnswerFolder
  <2>1. Tail(frames) \in Seq(Frame)
    BY <1>13, Popped DEF AnswerFolder, Control
  <2> QED  BY <1>13, <1>a, <2>1, MarkInShrinks DEF AnswerFolder, Shrinks
<1>14. CASE LeaveDir
  <2>1. Tail(frames) \in Seq(Frame)
    BY <1>14, Popped DEF LeaveDir
  <2> QED  BY <1>14, <2>1, MarkInShrinks DEF LeaveDir, Shrinks
<1>15. CASE Start
  <2>1. question' \in [kind : Questions, file : File \cup {NoFile}]
    BY <1>15, Asks DEF Start, Questions
  <2>2. pc' \in Steps /\ list' \in SUBSET TopFiles /\ scanFiles' \in SUBSET TopFiles
        /\ scanDirs' \in SUBSET File /\ agreed' \in SUBSET File /\ toTrash' \in SUBSET TopFiles
    BY <1>15, Choices, FoldersAndTops, StartScanTyped DEF Start
  <2> QED  BY <1>15, <2>1, <2>2 DEF Start
<1>16. CASE AnswerConfirm
  <2>1. pc' \in Steps /\ list' \subseteq TopFiles /\ scanFiles' \subseteq TopFiles
        /\ scanDirs' \subseteq File /\ agreed' \subseteq File /\ userCancel' \in BOOLEAN
    BY <1>16, Choices, FoldersAndTops, StartScanTyped DEF AnswerConfirm
  <2> QED  BY <1>16, <1>a, <2>1 DEF AnswerConfirm
<1>17. CASE AnswerInfo
  BY <1>17, <1>a DEF AnswerInfo, Control
<1>18. CASE AnswerReaddir
  BY <1>18, <1>a DEF AnswerReaddir, Control
<1>19. CASE RetryScan
  BY <1>19, <1>a DEF RetryScan, Control
<1>20. CASE Then
  BY <1>20 DEF Then
<1>21. ASSUME NEW f \in File, TrashNext(f) PROVE TypeOK'
  <2>1. f \in TopFiles
    BY <1>21 DEF TrashNext, First
  <2>2. question' \in [kind : Questions, file : File \cup {NoFile}]
    BY <1>21, Asks DEF TrashNext, Questions
  <2>3. list' \subseteq TopFiles /\ toDelete' \subseteq TopFiles /\ skipped' \in Nat
        /\ agreed' \subseteq File
    BY <1>21, <2>1 DEF TrashNext
  <2>4. disk' \subseteq File /\ trashed' \subseteq File /\ record' \subseteq File
        /\ changes' \in Seq(File)
    <3>1. \/ /\ disk' = disk \ Under[f] /\ trashed' = trashed \cup {f} /\ Record(f)
             /\ changes' = Append(changes, f)
          \/ UNCHANGED <<disk, trashed, record, changes>>
      BY <1>21 DEF TrashNext
    <3>2. Append(changes, f) \in Seq(File)
      BY AppendProperties
    <3>3. record' \in {record, record \cup {f}}
      BY <3>1 DEF Record
    <3> QED  BY <3>1, <3>2, <3>3
  <2> QED  BY <1>21, <2>2, <2>3, <2>4 DEF TrashNext
<1>22. CASE AnswerTrash
  <2>1. question.file \in TopFiles
    BY <1>22 DEF AnswerTrash, Control
  <2>2. /\ cancelled' \in BOOLEAN /\ userCancel' \in BOOLEAN /\ skipAll' \in BOOLEAN
        /\ deleteAll' \in BOOLEAN /\ skipped' \in Nat
    <3>1. /\ cancelled' \in {cancelled, TRUE} /\ userCancel' \in {userCancel, TRUE}
          /\ skipAll' \in {skipAll, TRUE, FALSE} /\ deleteAll' \in {deleteAll, TRUE, FALSE}
          /\ skipped' \in {skipped, skipped + 1}
      BY <1>22 DEF AnswerTrash
    <3>2. /\ cancelled \in BOOLEAN /\ userCancel \in BOOLEAN /\ skipAll \in BOOLEAN
          /\ deleteAll \in BOOLEAN
      OBVIOUS
    <3>3. /\ cancelled' \in BOOLEAN /\ userCancel' \in BOOLEAN /\ skipAll' \in BOOLEAN
          /\ deleteAll' \in BOOLEAN
      BY <3>1, <3>2, Zenon
    <3> QED  BY <3>1, <3>3
  <2>3. list' \subseteq TopFiles /\ toDelete' \subseteq TopFiles /\ agreed' \subseteq File
    BY <1>22, <2>1, FoldersAndTops DEF AnswerTrash
  <2> QED  BY <1>22, <1>a, <2>2, <2>3 DEF AnswerTrash
<1>23. CASE TrashDone
  BY <1>23, StartScanTyped DEF TrashDone
<1>24. CASE Finish
  BY <1>24 DEF Finish
<1>25. CASE Done
  BY <1>25 DEF Done
<1>26. CASE Cancel
  BY <1>26 DEF Cancel
<1>27. CASE UNCHANGED vars
  BY <1>27 DEF vars
<1> QED
  BY <1>1, <1>2, <1>3, <1>4, <1>5, <1>6, <1>7, <1>8, <1>9, <1>10, <1>11, <1>12, <1>13,
     <1>14, <1>15, <1>16, <1>17, <1>18, <1>19, <1>20, <1>21, <1>22, <1>23, <1>24, <1>25,
     <1>26, <1>27 DEF Next, Thread, Answer, Retry

LEMMA InitControl == Init => Control
  BY DEF Init, Control, NoQuestion

LEMMA NextControl == TypeOK /\ Control /\ [Next]_vars => Control'
<1> SUFFICES ASSUME TypeOK, Control, [Next]_vars PROVE Control'
  OBVIOUS
<1> USE DEF Control, NoQuestion, Ask, scanVars, fileVars, flags
<1>1. ASSUME NEW f \in File, ScanFile(f) PROVE Control'
  BY <1>1 DEF ScanFile, Scanning, Going, ScanFails
<1>2. ASSUME NEW d \in Folder, ScanDir(d) PROVE Control'
  <2>1. d \in File
    BY FoldersAndTops
  <2> QED  BY <1>2, <2>1 DEF ScanDir, Scanning, Going, ScanFails
<1>3. CASE ScanDone
  BY <1>3 DEF ScanDone
<1>4. ASSUME NEW f \in File, DeleteNext(f) PROVE Control'
  <2>1. pc = "delete" /\ question = NoQuestion /\ DeleteFile(f, <<>>)
    BY <1>4 DEF DeleteNext, Going
  <2>2. \/ question' = question
        \/ question'.kind = "remove" /\ question'.file \in File
    BY <2>1 DEF DeleteFile
  <2> QED  BY <1>4, <2>1, <2>2 DEF DeleteNext
<1>5. ASSUME NEW f \in File, DeleteChild(f) PROVE Control'
  <2>1. pc = "delete" /\ question = NoQuestion
    BY <1>5 DEF DeleteChild, Going
  <2>2. \/ question' = question
        \/ question'.kind = "remove" /\ question'.file \in File
    BY <1>5, <2>1 DEF DeleteChild, DeleteFile
  <2> QED  BY <1>5, <2>1, <2>2 DEF DeleteChild
<1>6. CASE DeleteDone
  BY <1>6 DEF DeleteDone
<1>7. CASE AnswerRemove
  BY <1>7 DEF AnswerRemove
<1>8. CASE OpenDir \/ ListBreaks \/ RemoveDir
  <2>1. /\ frames # <<>> /\ Call.dir \in File /\ pc = "delete" /\ question = NoQuestion
        /\ UNCHANGED <<pc, toTrash, toDelete>>
    BY <1>8, CallIs, FoldersAndTops DEF OpenDir, ListBreaks, RemoveDir, Going
  <2>2. \/ question' = question
        \/ /\ question'.kind \in {"open", "list", "folder"} /\ question'.file \in File
           /\ question'.kind = "list" => frames' # <<>>
           /\ question'.kind # "list" => frames' = frames
    <3>1. CASE OpenDir
      <4>1. question' = question \/ (Ask("open", Call.dir) /\ frames' = frames)
        BY <3>1 DEF OpenDir
      <4> QED  BY <2>1, <4>1
    <3>2. CASE ListBreaks
      <4>1. frames' # <<>>
        BY <2>1, <3>2, CallStates, CallsTyped DEF ListBreaks
      <4> QED  BY <2>1, <3>2, <4>1 DEF ListBreaks
    <3>3. CASE RemoveDir
      <4>1. question' = question \/ (Ask("folder", Call.dir) /\ frames' = frames)
        BY <3>3 DEF RemoveDir
      <4> QED  BY <2>1, <4>1
    <3> QED  BY <1>8, <3>1, <3>2, <3>3
  <2> QED  BY <2>1, <2>2
<1>9. CASE AnswerOpen \/ AnswerList \/ RetryOpen \/ AnswerFolder
  <2>1. /\ pc = "delete" /\ question' = NoQuestion
        /\ UNCHANGED <<pc, toTrash, toDelete>>
    BY <1>9 DEF AnswerOpen, AnswerList, RetryOpen, AnswerFolder
  <2> QED  BY <2>1
<1>10. CASE LeaveDir
  BY <1>10 DEF LeaveDir
<1>11. CASE Start
  <2>1. pc = "start" /\ toDelete' = {} /\ frames' = <<>>
    BY <1>11 DEF Start
  <2>2. \/ pc' \in {"scan", "then"} /\ question' = NoQuestion
        \/ /\ pc' = "start" /\ question' = [kind |-> "confirm", file |-> NoFile]
           /\ agreed' = agreed /\ list' = list
    BY <1>11, <2>1 DEF Start, StartScan
  <2>3. /\ toTrash' = ToTrash
        /\ UNCHANGED <<skipFiles, skipped, disk, trashed, record, changes>>
    BY <1>11 DEF Start
  <2> QED  BY <2>1, <2>2, <2>3
<1>12. CASE AnswerConfirm
  BY <1>12 DEF AnswerConfirm, StartScan
<1>13. CASE AnswerInfo \/ AnswerReaddir \/ RetryScan
  <2>1. /\ pc = "scan" /\ question' = NoQuestion
        /\ UNCHANGED <<pc, toTrash, toDelete, frames>>
    BY <1>13 DEF AnswerInfo, AnswerReaddir, RetryScan
  <2> QED  BY <2>1
<1>14. CASE Then
  BY <1>14 DEF Then
<1>15. ASSUME NEW f \in File, TrashNext(f) PROVE Control'
  <2>1. /\ pc = "trash" /\ question = NoQuestion /\ UNCHANGED <<pc, toTrash, frames>>
        /\ f \in list
    BY <1>15 DEF TrashNext, Going, First
  <2>2. \/ question' = question
        \/ /\ question'.kind \in {"trash", "trashOnly"} /\ question'.file = f
           /\ list' = list
    BY <1>15 DEF TrashNext
  <2> QED  BY <2>1, <2>2
<1>16. CASE AnswerTrash
  BY <1>16 DEF AnswerTrash
<1>17. CASE TrashDone
  BY <1>17 DEF TrashDone, StartScan
<1>18. CASE Finish \/ Done
  BY <1>18 DEF Finish, Done
<1>19. CASE Cancel \/ UNCHANGED vars
  BY <1>19 DEF Cancel, vars
<1> QED
  BY <1>1, <1>2, <1>3, <1>4, <1>5, <1>6, <1>7, <1>8, <1>9, <1>10, <1>11, <1>12, <1>13,
     <1>14, <1>15, <1>16, <1>17, <1>18, <1>19 DEF Next, Thread, Answer, Retry

\* The type invariant: every value that the steps of the thread and the answers
\* leave in a variable of the job is one it can hold; a call of delete_dir that
\* a dialog is answered for is there.
THEOREM TypeCorrect == Spec => [](TypeOK /\ Control)
  BY InitTyped, InitControl, NextTyped, NextControl, PTL DEF Spec

\* Nothing is removed or trashed once the job is cancelled: whatever changes the
\* disk looks at the cancellable first, in all loops and recursive calls.
THEOREM CancelIsObeyed == Spec => CancelStops
<1>1. Next /\ cancelled => disk' = disk
  BY DEF Next, Thread, Answer, Retry, Going, Scanning, fileVars, ScanFile, DeleteNext,
    DeleteChild, TrashNext, ScanDir, Start, ScanDone, DeleteDone, OpenDir, ListBreaks,
    RemoveDir, LeaveDir, Then, TrashDone, Finish, Done, AnswerConfirm, AnswerInfo,
    AnswerReaddir, AnswerRemove, AnswerOpen, AnswerList, AnswerFolder, AnswerTrash,
    RetryScan, RetryOpen, Cancel
<1> QED  BY <1>1, PTL DEF Spec, CancelStops

-----------------------------------------------------------------------------
(* What a step does to the disk and to the stack *)

\* No file comes or goes, and nothing is reported.
Still == UNCHANGED <<disk, changes, trashed, record>>

\* g_file_delete removes a file or an empty folder.
Removes(f) ==
  /\ f \in disk /\ Present(f) = {} /\ Gone(f)
  /\ UNCHANGED <<trashed, record, agreed>>

\* g_file_trash.
Trashes(f) ==
  /\ pc = "trash" /\ f \in list /\ f \in disk
  /\ disk' = disk \ Under[f] /\ trashed' = trashed \cup {f} /\ Record(f)
  /\ changes' = Append(changes, f) /\ list' = list \ {f}
  /\ UNCHANGED <<pc, frames, agreed, toTrash, toDelete>>

\* The innermost call finds children in its folder.
Reads ==
  /\ frames # <<>> /\ frames' \in Seq(Frame) /\ Len(frames') = Len(frames)
  /\ frames'[1].dir = frames[1].dir
  /\ frames'[1].left \subseteq Present(frames[1].dir)
  /\ \A k \in DOMAIN frames : k # 1 => frames'[k] = frames[k]

\* A call of delete_dir begins, for a file of the list or a child.
Enters(f) ==
  /\ f \notin skipFiles /\ f \in Folder /\ Present(f) # {} /\ New(f) \in Frame
  /\ UNCHANGED agreed
  /\ \E fs \in Seq(Frame) :
       /\ Shrinks(frames, fs) /\ frames' = <<New(f)>> \o fs
       /\ IF frames = <<>> THEN pc = "delete" /\ f \in list
                           ELSE f \in frames[1].left /\ f \notin fs[1].left

RemovesTop(f) ==
  /\ pc = "delete" /\ f \in list /\ f \notin skipFiles
  /\ frames = <<>> /\ frames' = <<>> /\ Removes(f)

RemovesChild(f) ==
  /\ frames # <<>> /\ f \in frames[1].left /\ f \notin skipFiles
  /\ Shrinks(frames, frames') /\ f \notin frames'[1].left /\ Removes(f)

RemovesDir ==
  frames # <<>> /\ frames' = Tail(frames) /\ Removes(frames[1].dir)

StackStep ==
  \/ Still /\ Shrinks(frames, frames')
  \/ Still /\ Reads
  \/ Still /\ frames # <<>> /\ Shrinks(Tail(frames), frames')
  \/ \E f \in File : Still /\ Enters(f)
  \/ \E f \in File : RemovesTop(f) \/ RemovesChild(f)
  \/ RemovesDir
  \/ \E f \in File : Trashes(f)

\* The calls are for folders that are there, each inside the folders of the calls
\* around it, of which none has still to come to anything inside it.
Stacked(fs, D) ==
  \A k \in DOMAIN fs :
    /\ fs[k].dir \in D
    /\ fs[k].left \subseteq Kids[fs[k].dir] \cap D
    /\ \A m \in DOMAIN fs : k < m =>
         /\ fs[k].dir \in Under[fs[m].dir]
         /\ fs[m].dir \notin Under[fs[k].dir]
         /\ fs[m].left \cap Under[fs[k].dir] = {}

LEMMA StackSteps ==
  ASSUME TypeOK, Control, Stacked(frames, disk), [Next]_vars
  PROVE  StackStep
<1>0. Shrinks(frames, frames)
  BY ShrinksSame DEF TypeOK
<1>1. ASSUME UNCHANGED frames, Still PROVE StackStep
  BY <1>0, <1>1 DEF StackStep

\* A call that is not the one of the folder any more, with what is left of it.
<1>2. ASSUME frames # <<>>, NEW c \in Frame, Calls(c), c.dir = Call.dir, Still,
             c.left \subseteq Call.left \/ c.left \subseteq Present(Call.dir)
      PROVE  StackStep
  <2>1. Call = frames[1] /\ frames \in Seq(Frame)
    BY <1>2, CallIs DEF TypeOK
  <2>2. CASE c.left \subseteq Call.left
    BY <1>2, <2>1, <2>2, HeadShrinks DEF Calls, StackStep
  <2>3. CASE c.left \subseteq Present(Call.dir)
    <3>1. Reads
      BY <1>2, <2>1, <2>3, HeadReplaced DEF Calls, Reads
    <3> QED  BY <1>2, <3>1 DEF StackStep
  <2> QED  BY <1>2, <2>2, <2>3
<1>3. ASSUME NEW f \in File, DeleteNext(f) PROVE StackStep
  <2>1. /\ frames = <<>> /\ pc = "delete" /\ f \in list /\ DeleteFile(f, <<>>)
        /\ <<>> \in Seq(Frame) /\ UNCHANGED <<trashed, record, agreed>>
    BY <1>3 DEF DeleteNext, First
  <2>2. CASE MarkIn(<<>>) /\ UNCHANGED <<question, disk, changes>>
    BY <1>1, <2>1, <2>2 DEF MarkIn, Still
  <2>3. CASE f \notin skipFiles /\ f \in disk /\ Present(f) = {} /\ Gone(f) /\ frames' = <<>>
    BY <2>1, <2>3 DEF StackStep, RemovesTop, Removes
  <2>4. CASE /\ f \notin skipFiles /\ f \in Folder /\ Present(f) # {}
             /\ New(f) \in Frame /\ frames' = <<New(f)>> \o <<>>
             /\ UNCHANGED <<question, skipped, disk, changes>>
    BY <1>0, <2>1, <2>4 DEF StackStep, Still, Enters
  <2>5. CASE Ask("remove", f) /\ frames' = <<>> /\ UNCHANGED <<skipped, disk, changes>>
    BY <1>1, <2>1, <2>5 DEF Still
  <2> QED  BY <2>1, <2>2, <2>3, <2>4, <2>5, DeleteFileDoes
<1>4. ASSUME NEW f \in File, DeleteChild(f) PROVE StackStep
  <2> DEFINE c == [Call EXCEPT !.left = Call.left \ {f}]
             fs == <<c>> \o Tail(frames)
  <2>1. /\ frames # <<>> /\ f \in Call.left /\ DeleteFile(f, fs)
        /\ UNCHANGED <<trashed, record, agreed>>
    BY <1>4 DEF DeleteChild
  <2>2. Call = frames[1] /\ Call \in Frame
    BY <2>1, CallIs
  <2>3. c \in Frame /\ c.dir = frames[1].dir /\ c.left = frames[1].left \ {f}
    BY <2>2 DEF Frame
  <2> HIDE DEF c
  <2>4. /\ fs \in Seq(Frame) /\ Shrinks(frames, fs) /\ fs # <<>>
        /\ f \in frames[1].left /\ f \notin fs[1].left
    <3>1. frames \in Seq(Frame)
      BY DEF TypeOK
    <3>2. fs \in Seq(Frame) /\ fs[1] = c
      BY <2>1, <2>3, <3>1, HeadReplaced
    <3>3. Shrinks(frames, fs)
      BY <2>1, <2>3, <3>1, HeadShrinks
    <3>4. fs # <<>>
      BY <2>1, <3>1, <3>2, <3>3 DEF Shrinks
    <3> QED  BY <2>1, <2>2, <2>3, <3>2, <3>3, <3>4
  <2> HIDE DEF fs
  <2>5. CASE MarkIn(fs) /\ UNCHANGED <<question, disk, changes>>
    <3>1. Shrinks(frames, frames')
      BY <2>4, <2>5, MarkInShrinks, ShrinksTwice DEF TypeOK
    <3> QED  BY <2>1, <2>5, <3>1 DEF StackStep, Still
  <2>6. CASE f \notin skipFiles /\ f \in disk /\ Present(f) = {} /\ Gone(f) /\ frames' = fs
    BY <2>1, <2>4, <2>6 DEF StackStep, RemovesChild, Removes
  <2>7. CASE /\ f \notin skipFiles /\ f \in Folder /\ Present(f) # {}
             /\ New(f) \in Frame /\ frames' = <<New(f)>> \o fs
             /\ UNCHANGED <<question, skipped, disk, changes>>
    BY <2>1, <2>4, <2>7 DEF StackStep, Still, Enters
  <2>8. CASE Ask("remove", f) /\ frames' = fs /\ UNCHANGED <<skipped, disk, changes>>
    BY <2>1, <2>4, <2>8 DEF StackStep, Still
  <2> QED  BY <2>1, <2>4, <2>5, <2>6, <2>7, <2>8, DeleteFileDoes
<1>5. CASE OpenDir
  <2>1. frames # <<>> /\ Still
    BY <1>5 DEF OpenDir, Still, fileVars
  <2>2. Call \in Frame /\ Present(Call.dir) \in SUBSET File
    BY <2>1, CallIs, PresentTyped
  <2>3. ASSUME NEW seen \in SUBSET Present(Call.dir), NEW b \in BOOLEAN,
               Calls([Call EXCEPT !.opened = TRUE, !.left = seen, !.broken = b])
        PROVE  StackStep
    <3> DEFINE c == [Call EXCEPT !.opened = TRUE, !.left = seen, !.broken = b]
    <3>1. c \in Frame /\ c.dir = Call.dir /\ c.left \subseteq Present(Call.dir)
      BY <2>2 DEF Frame
    <3>2. Calls(c)
      BY <2>3
    <3> HIDE DEF c
    <3> QED  BY <1>2, <2>1, <3>1, <3>2
  <2>4. ASSUME Calls([Call EXCEPT !.opened = TRUE, !.left = Present(Call.dir)])
        PROVE  StackStep
    <3> DEFINE c == [Call EXCEPT !.opened = TRUE, !.left = Present(Call.dir)]
    <3>1. c \in Frame /\ c.dir = Call.dir /\ c.left \subseteq Present(Call.dir)
      BY <2>2 DEF Frame
    <3>2. Calls(c)
      BY <2>4
    <3> HIDE DEF c
    <3> QED  BY <1>2, <2>1, <3>1, <3>2
  <2>5. (Call.dir \notin skipReaddir) \in BOOLEAN
    OBVIOUS
  <2> QED  BY <1>1, <1>5, <2>1, <2>3, <2>4, <2>5 DEF OpenDir
<1>6. CASE AnswerOpen \/ AnswerList \/ ListBreaks
  <2>1. frames # <<>> /\ Still
    BY <1>6 DEF AnswerOpen, AnswerList, ListBreaks, Control, Still, fileVars
  <2>2. Call \in Frame
    BY <2>1, CallIs
  <2>3. ASSUME NEW c \in { [Call EXCEPT !.opened = TRUE, !.skip = TRUE],
                           [Call EXCEPT !.skip = TRUE], [Call EXCEPT !.broken = FALSE] },
               Calls(c)
        PROVE  StackStep
    <3>1. c \in Frame /\ c.dir = Call.dir /\ c.left = Call.left
      BY <2>2, <2>3 DEF Frame
    <3> QED  BY <1>2, <2>1, <2>3, <3>1
  <2>4. UNCHANGED frames \/ \E c \in { [Call EXCEPT !.opened = TRUE, !.skip = TRUE],
              [Call EXCEPT !.skip = TRUE], [Call EXCEPT !.broken = FALSE] } : Calls(c)
    BY <1>6 DEF AnswerOpen, AnswerList, ListBreaks
  <2> QED  BY <1>1, <2>1, <2>3, <2>4
<1>7. CASE AnswerRemove
  BY <1>7, MarkInShrinks DEF AnswerRemove, StackStep, Still, fileVars, TypeOK
<1>8. CASE RemoveDir
  <2>1. frames # <<>> /\ UNCHANGED <<trashed, record, agreed>>
    BY <1>8 DEF RemoveDir
  <2>2. Call = frames[1] /\ Call.dir \in File /\ Tail(frames) \in Seq(Frame)
    BY <2>1, CallIs, FoldersAndTops, Popped DEF TypeOK
  <2>3. Shrinks(Tail(frames), Tail(frames))
    BY <2>2, ShrinksSame
  <2>4. \/ Present(Call.dir) = {} /\ Gone(Call.dir) /\ frames' = Tail(frames)
        \/ Still /\ frames' \in {frames, Tail(frames)}
    BY <1>8 DEF RemoveDir, Still
  <2>5. CASE Present(Call.dir) = {} /\ Gone(Call.dir) /\ frames' = Tail(frames)
    <3>1. Call.dir \in disk
      BY <2>1, <2>2, CallIs DEF Stacked
    <3> QED  BY <2>1, <2>2, <2>5, <3>1 DEF StackStep, RemovesDir, Removes
  <2> QED  BY <1>0, <2>1, <2>3, <2>4, <2>5 DEF StackStep
<1>9. CASE AnswerFolder \/ LeaveDir
  <2>1. frames # <<>> /\ Still
    BY <1>9 DEF AnswerFolder, LeaveDir, Control, Still, fileVars
  <2>2. Tail(frames) \in Seq(Frame) /\ (MarkIn(Tail(frames)) \/ frames' = Tail(frames))
    BY <1>9, <2>1, Popped DEF AnswerFolder, LeaveDir, TypeOK
  <2>3. Shrinks(Tail(frames), frames')
    BY <2>2, MarkInShrinks, ShrinksSame DEF TypeOK
  <2> QED  BY <2>1, <2>3 DEF StackStep
<1>10. ASSUME NEW f \in File, TrashNext(f) PROVE StackStep
  <2>1. UNCHANGED frames /\ pc = "trash" /\ f \in list
    BY <1>10 DEF TrashNext, First
  <2>2. Trashes(f) \/ Still
    BY <1>10, <2>1 DEF TrashNext, Trashes, Still
  <2> QED  BY <1>1, <2>1, <2>2 DEF StackStep
<1>11. ASSUME NEW f \in File, ScanFile(f) PROVE StackStep
  BY <1>1, <1>11 DEF ScanFile, Still, fileVars
<1>12. ASSUME NEW d \in Folder, ScanDir(d) PROVE StackStep
  BY <1>1, <1>12 DEF ScanDir, Still, fileVars
<1>13. CASE \/ Start \/ AnswerConfirm \/ AnswerInfo \/ AnswerReaddir \/ RetryScan
            \/ ScanDone \/ DeleteDone \/ RetryOpen
  BY <1>1, <1>13 DEF Start, AnswerConfirm, AnswerInfo, AnswerReaddir, RetryScan,
     ScanDone, DeleteDone, RetryOpen, Still, fileVars
<1>14. CASE \/ Then \/ AnswerTrash \/ TrashDone \/ Finish \/ Done \/ Cancel
            \/ UNCHANGED vars
  BY <1>1, <1>14 DEF Then, AnswerTrash, TrashDone, Finish, Done, Cancel, vars, Still,
     fileVars
<1> QED
  BY <1>3, <1>4, <1>5, <1>6, <1>7, <1>8, <1>9, <1>10, <1>11, <1>12, <1>13, <1>14
     DEF Next, Thread, Answer, Retry

\* Calls are for folders.
LEMMA FramesTyped ==
  ASSUME NEW fs \in Seq(Frame), NEW k \in DOMAIN fs
  PROVE  fs[k] \in Frame /\ fs[k].dir \in Folder /\ fs[k].dir \in File
<1>1. fs[k] \in Frame
  OBVIOUS
<1> QED  BY <1>1, FoldersAndTops DEF Frame

LEMMA StackedShrinks ==
  ASSUME NEW fs \in Seq(Frame), NEW gs, NEW D, Stacked(fs, D), Shrinks(fs, gs)
  PROVE  Stacked(gs, D)
<1>1. DOMAIN gs = DOMAIN fs
  BY DEF Shrinks
<1> QED  BY <1>1 DEF Stacked, Shrinks

LEMMA StackedTail ==
  ASSUME NEW fs \in Seq(Frame), fs # <<>>, NEW D, Stacked(fs, D)
  PROVE  Stacked(Tail(fs), D)
<1> DEFINE gs == Tail(fs)
<1>1. \A k \in DOMAIN gs : k \in Nat /\ k + 1 \in DOMAIN fs /\ gs[k] = fs[k + 1]
  BY Popped
<1> HIDE DEF gs
<1>2. ASSUME NEW k \in DOMAIN gs, NEW m \in DOMAIN gs, k < m
      PROVE  k + 1 < m + 1
  BY <1>1, <1>2
<1> QED  BY <1>1, <1>2 DEF Stacked

\* Something goes that is in no folder of the stack, and is no more to come.
LEMMA StackedWithout ==
  ASSUME NEW fs \in Seq(Frame), NEW D, Stacked(fs, D), NEW f,
         \A k \in DOMAIN fs : fs[k].dir # f /\ f \notin fs[k].left
  PROVE  Stacked(fs, D \ {f})
  BY DEF Stacked

\* The calls around the innermost, its folder being gone.
LEMMA StackedPop ==
  ASSUME NEW fs \in Seq(Frame), fs # <<>>, NEW D, Stacked(fs, D)
  PROVE  Stacked(Tail(fs), D \ {fs[1].dir})
<1> DEFINE gs == Tail(fs)
           f == fs[1].dir
<1>1. /\ gs \in Seq(Frame)
      /\ \A k \in DOMAIN gs : k \in Nat /\ k >= 1 /\ k + 1 \in DOMAIN fs /\ gs[k] = fs[k + 1]
  BY Popped
<1>2. 1 \in DOMAIN fs
  OBVIOUS
<1>3. f \in Under[f]
  BY <1>2, FramesTyped, UnderSelf
<1>4. Stacked(gs, D)
  BY StackedTail
<1>5. ASSUME NEW k \in DOMAIN gs PROVE gs[k].dir # f /\ f \notin gs[k].left
  <2>1. k + 1 \in DOMAIN fs /\ 1 < k + 1 /\ gs[k] = fs[k + 1]
    BY <1>1
  <2> HIDE DEF gs
  <2>2. fs[k + 1].dir \notin Under[f] /\ fs[k + 1].left \cap Under[f] = {}
    BY <1>2, <2>1 DEF Stacked
  <2> QED  BY <1>3, <2>1, <2>2
<1> HIDE DEF gs, f
<1>6. Stacked(gs, D \ {f})
  BY <1>1, <1>4, <1>5, StackedWithout
<1> QED  BY <1>6 DEF gs, f

\* A child of the innermost folder that is no more to come is in none of what
\* the calls have still to do, nor is any of their folders in it.
LEMMA ChildApart ==
  ASSUME NEW fs \in Seq(Frame), fs # <<>>, NEW D, Stacked(fs, D),
         NEW f \in Kids[fs[1].dir], f \notin fs[1].left, NEW k \in DOMAIN fs
  PROVE  /\ f \in File /\ f \in Under[fs[k].dir]
         /\ fs[k].dir \notin Under[f] /\ fs[k].left \cap Under[f] = {}
         /\ fs[k].dir # f /\ f \notin fs[k].left
<1> DEFINE d == fs[1].dir
<1>1. 1 \in DOMAIN fs /\ d \in Folder /\ d \in File
  BY FramesTyped
<1>2. /\ f \in File /\ d \notin Under[f] /\ f \in Under[d]
      /\ \A h \in Kids[d] : h # f => h \notin Under[f]
  BY <1>1, UnderChild
<1>3. f \in Under[f] /\ Under[f] \subseteq Under[d]
  BY <1>1, <1>2, UnderSelf, UnderUnder
<1>4. CASE k = 1
  <2>1. fs[1].left \subseteq Kids[d]
    BY <1>1 DEF Stacked
  <2> QED  BY <1>2, <1>3, <1>4, <2>1
<1>5. CASE k # 1
  <2>1. 1 < k
    BY <1>5
  <2>2. d \in Under[fs[k].dir] /\ fs[k].dir \notin Under[d] /\ fs[k].left \cap Under[d] = {}
    BY <1>1, <2>1 DEF Stacked
  <2>3. f \in Under[fs[k].dir]
    BY <1>1, <2>2, FramesTyped, UnderKids
  <2> QED  BY <1>2, <1>3, <2>2, <2>3
<1> QED  BY <1>4, <1>5

\* A call for that child.
LEMMA StackedPush ==
  ASSUME NEW fs \in Seq(Frame), NEW D, Stacked(fs, D), NEW f \in D, New(f) \in Frame,
         fs # <<>> => f \in Kids[fs[1].dir] /\ f \notin fs[1].left
  PROVE  Stacked(<<New(f)>> \o fs, D)
<1> DEFINE gs == <<New(f)>> \o fs
<1>1. /\ gs[1] = New(f) /\ \A k \in DOMAIN gs : k \in Nat /\ k >= 1
      /\ \A k \in DOMAIN gs : k # 1 => k - 1 \in DOMAIN fs /\ gs[k] = fs[k - 1]
  BY Pushed
<1>2. New(f).dir = f /\ New(f).left = {}
  BY DEF New
<1> HIDE DEF gs
<1>3. ASSUME NEW k \in DOMAIN gs
      PROVE  gs[k].dir \in D /\ gs[k].left \subseteq Kids[gs[k].dir] \cap D
  <2>1. CASE k = 1
    BY <1>1, <1>2, <2>1
  <2>2. CASE k # 1
    BY <1>1, <2>2 DEF Stacked
  <2> QED  BY <2>1, <2>2
<1>4. ASSUME NEW k \in DOMAIN gs, NEW m \in DOMAIN gs, k < m
      PROVE  /\ gs[k].dir \in Under[gs[m].dir] /\ gs[m].dir \notin Under[gs[k].dir]
             /\ gs[m].left \cap Under[gs[k].dir] = {}
  <2>1. m # 1 /\ m - 1 \in DOMAIN fs /\ gs[m] = fs[m - 1]
    BY <1>1, <1>4
  <2>2. CASE k = 1
    <3>1. fs # <<>>
      BY <2>1
    <3> QED  BY <1>1, <1>2, <2>1, <2>2, <3>1, ChildApart
  <2>3. CASE k # 1
    <3>1. k - 1 \in DOMAIN fs /\ gs[k] = fs[k - 1] /\ k - 1 < m - 1
      BY <1>1, <1>4, <2>3
    <3> QED  BY <2>1, <3>1 DEF Stacked
  <2> QED  BY <2>2, <2>3
<1>5. Stacked(gs, D)
  BY <1>3, <1>4 DEF Stacked
<1> QED  BY <1>5 DEF gs

LEMMA NextStacked ==
  TypeOK /\ Control /\ Stacked(frames, disk) /\ GoneWhole /\ [Next]_vars
    => (Stacked(frames, disk) /\ GoneWhole)'
<1> SUFFICES ASSUME TypeOK, Control, Stacked(frames, disk), GoneWhole, [Next]_vars
             PROVE  Stacked(frames', disk') /\ GoneWhole'
  BY DEF Stacked
<1>1. frames \in Seq(Frame) /\ disk \in SUBSET File
  BY DEF TypeOK
<1>2. StackStep
  BY StackSteps

\* A file is removed, or a folder when nothing is left in it.
<1>3. ASSUME NEW f \in File, Removes(f) PROVE GoneWhole' /\ disk' = disk \ {f}
  <2>1. disk' = disk \ {f} /\ Present(f) = {}
    BY <1>3 DEF Removes, Gone
  <2> QED  BY <2>1 DEF GoneWhole, Present
<1>4. Still => disk' = disk /\ GoneWhole'
  BY DEF Still, GoneWhole
<1>5. CASE Still /\ Shrinks(frames, frames')
  BY <1>1, <1>4, <1>5, StackedShrinks
<1>6. CASE Still /\ Reads
  <2>1. /\ frames' \in Seq(Frame) /\ DOMAIN frames' = DOMAIN frames /\ disk' = disk
        /\ frames'[1].dir = frames[1].dir /\ 1 \in DOMAIN frames
        /\ frames'[1].left \subseteq Present(frames[1].dir)
        /\ \A k \in DOMAIN frames : k # 1 => frames'[k] = frames[k]
    BY <1>1, <1>4, <1>6 DEF Reads
  <2>2. frames'[1].left \subseteq Kids[frames[1].dir] \cap disk
    BY <1>1, <2>1, FramesTyped DEF Present
  <2>3. \A k, m \in DOMAIN frames : k < m => m # 1
    BY <1>1
  <2>4. Stacked(frames', disk)
    BY <2>1, <2>2, <2>3 DEF Stacked
  <2> QED  BY <1>4, <1>6, <2>1, <2>4
<1>7. CASE Still /\ frames # <<>> /\ Shrinks(Tail(frames), frames')
  BY <1>1, <1>4, <1>7, Popped, StackedTail, StackedShrinks
<1>8. ASSUME NEW f \in File, Still, Enters(f) PROVE Stacked(frames', disk') /\ GoneWhole'
  <2>1. PICK fs \in Seq(Frame) :
           /\ Shrinks(frames, fs) /\ frames' = <<New(f)>> \o fs
           /\ IF frames = <<>> THEN pc = "delete" /\ f \in list
                               ELSE f \in frames[1].left /\ f \notin fs[1].left
    BY <1>8 DEF Enters
  <2>2. Stacked(fs, disk) /\ (fs # <<>> <=> frames # <<>>)
    <3>1. Len(fs) = Len(frames)
      BY <2>1 DEF Shrinks
    <3>2. fs # <<>> <=> frames # <<>>
      BY <1>1, <3>1
    <3> QED  BY <1>1, <2>1, <3>2, StackedShrinks
  <2>3. f \in disk /\ New(f) \in Frame
    BY <1>8 DEF Enters, GoneWhole, Present
  <2>4. fs # <<>> => f \in Kids[fs[1].dir] /\ f \notin fs[1].left
    <3> SUFFICES ASSUME fs # <<>> PROVE f \in Kids[fs[1].dir] /\ f \notin fs[1].left
      OBVIOUS
    <3>1. 1 \in DOMAIN frames /\ f \in frames[1].left /\ f \notin fs[1].left
      BY <1>1, <2>1, <2>2
    <3>2. fs[1].dir = frames[1].dir
      BY <2>1, <3>1 DEF Shrinks
    <3> QED  BY <3>1, <3>2 DEF Stacked
  <2> QED  BY <1>4, <1>8, <2>1, <2>2, <2>3, <2>4, StackedPush
<1>9. ASSUME NEW f \in File, RemovesTop(f) PROVE Stacked(frames', disk') /\ GoneWhole'
  BY <1>3, <1>9 DEF RemovesTop, Stacked
<1>10. ASSUME NEW f \in File, RemovesChild(f) PROVE Stacked(frames', disk') /\ GoneWhole'
  <2>1. /\ frames # <<>> /\ f \in frames[1].left /\ Shrinks(frames, frames')
        /\ f \notin frames'[1].left /\ disk' = disk \ {f} /\ GoneWhole'
    BY <1>3, <1>10 DEF RemovesChild
  <2>2. /\ frames' \in Seq(Frame) /\ frames' # <<>> /\ Stacked(frames', disk)
        /\ 1 \in DOMAIN frames /\ frames'[1].dir = frames[1].dir
    BY <1>1, <2>1, StackedShrinks DEF Shrinks
  <2>3. f \in Kids[frames'[1].dir]
    BY <2>1, <2>2 DEF Stacked
  <2>4. \A k \in DOMAIN frames' : frames'[k].dir # f /\ f \notin frames'[k].left
    BY <2>1, <2>2, <2>3, ChildApart
  <2> QED  BY <2>1, <2>2, <2>4, StackedWithout
<1>11. CASE RemovesDir
  <2>1. frames # <<>> /\ frames' = Tail(frames) /\ frames[1].dir \in File
    BY <1>1, <1>11, FramesTyped DEF RemovesDir
  <2> QED  BY <1>1, <1>3, <1>11, <2>1, StackedPop DEF RemovesDir
<1>12. ASSUME NEW f \in File, Trashes(f) PROVE Stacked(frames', disk') /\ GoneWhole'
  <2>1. frames' = <<>> /\ disk' = disk \ Under[f]
    BY <1>12 DEF Trashes, Control
  <2>2. GoneWhole'
    BY <1>1, <2>1, UnderKids DEF GoneWhole
  <2> QED  BY <2>1, <2>2 DEF Stacked
<1> QED
  BY <1>2, <1>5, <1>6, <1>7, <1>8, <1>9, <1>10, <1>11, <1>12 DEF StackStep

-----------------------------------------------------------------------------
(* What a step does to the lists of files, and to what was agreed to *)

\* The lists stay or lose a file, or are done with.
Goes ==
  /\ list' \subseteq list /\ UNCHANGED <<toTrash, toDelete, agreed>>
  /\ \/ pc' = pc
     \/ pc = "scan" /\ pc' = "delete"
     \/ pc # "start" /\ pc' \in {"then", "finish", "notify", "over"}

\* The files are sorted, and deleted if that is agreed.
Sorts ==
  /\ pc = "start" /\ pc' \in {"start", "scan", "then"}
  /\ toTrash' \subseteq ToTrash /\ agreed' \subseteq ToDelete /\ list' \subseteq agreed'
  /\ UNCHANGED toDelete

TurnsToTrash ==
  /\ pc = "then" /\ pc' = "trash" /\ list' = toTrash /\ toTrash' = {}
  /\ UNCHANGED <<toDelete, agreed>>

PutsAside(f) ==
  /\ pc = "trash" /\ f \in list /\ list' = list \ {f}
  /\ toDelete' = toDelete \cup {f} /\ agreed' = agreed \cup {f}
  /\ UNCHANGED <<pc, toTrash>>

TurnsToDelete ==
  /\ pc = "trash" /\ pc' \in {"scan", "then"} /\ list' = toDelete /\ toDelete' = {}
  /\ UNCHANGED <<toTrash, agreed>>

ListStep ==
  Goes \/ Sorts \/ TurnsToTrash \/ TurnsToDelete \/ \E f \in File : PutsAside(f)

LEMMA ListSteps ==
  ASSUME TypeOK, Control, [Next]_vars
  PROVE  ListStep
<1>1. ASSUME Goes PROVE ListStep
  BY <1>1 DEF ListStep
<1>2. CASE Start
  <2>1. pc = "start" /\ toTrash' = ToTrash /\ UNCHANGED toDelete /\ list = {} /\ agreed = {}
    BY <1>2 DEF Start, Control
  <2>2. CASE /\ ToDelete # {} /\ ~MustConfirm /\ StartScan(ToDelete)
             /\ agreed' = IF ConfirmTrash THEN ToDelete \cap Free ELSE ToDelete
    <3>1. agreed' = ToDelete
      BY <2>2, Choices DEF MustConfirm
    <3> QED  BY <2>1, <2>2, <3>1 DEF StartScan, Sorts, ListStep
  <2>3. CASE pc' \in {"start", "then"} /\ UNCHANGED <<agreed, list>>
    BY <2>1, <2>3 DEF Sorts, ListStep
  <2> QED  BY <1>2, <2>1, <2>2, <2>3 DEF Start
<1>3. CASE AnswerConfirm
  <2>1. pc = "start" /\ toTrash \subseteq ToTrash /\ UNCHANGED <<toDelete, toTrash>>
        /\ list = {} /\ agreed = {}
    BY <1>3 DEF AnswerConfirm, Control
  <2>2. \/ agreed' = ToDelete /\ list' = ToDelete /\ pc' \in {"scan", "then"}
        \/ pc' = "then" /\ UNCHANGED <<agreed, list>>
    BY <1>3 DEF AnswerConfirm, StartScan
  <2> QED  BY <2>1, <2>2 DEF Sorts, ListStep
<1>4. CASE Then
  BY <1>4 DEF Then, TurnsToTrash, Goes, ListStep, fileVars
<1>5. CASE TrashDone
  BY <1>5 DEF TrashDone, StartScan, TurnsToDelete, Goes, ListStep, fileVars
<1>6. ASSUME NEW f \in File, TrashNext(f) PROVE ListStep
  <2>1. pc = "trash" /\ f \in list /\ UNCHANGED <<pc, toTrash>>
    BY <1>6 DEF TrashNext, First
  <2>2. \/ /\ list' \in {list, list \ {f}} /\ UNCHANGED <<toDelete, agreed>>
        \/ /\ list' = list \ {f} /\ toDelete' = toDelete \cup {f}
           /\ agreed' = agreed \cup {f}
    BY <1>6 DEF TrashNext
  <2> QED  BY <2>1, <2>2 DEF Goes, PutsAside, ListStep
<1>7. CASE AnswerTrash
  <2>1. /\ pc = "trash" /\ question.file \in list /\ question.file \in File
        /\ list' = list \ {question.file} /\ UNCHANGED <<pc, toTrash>>
    BY <1>7, FoldersAndTops DEF AnswerTrash, Control, TypeOK
  <2>2. \/ UNCHANGED <<toDelete, agreed>>
        \/ /\ toDelete' = toDelete \cup {question.file}
           /\ agreed' = agreed \cup {question.file}
    BY <1>7 DEF AnswerTrash
  <2> QED  BY <2>1, <2>2 DEF Goes, PutsAside, ListStep
<1>8. CASE \E f \in File : ScanFile(f) \/ DeleteNext(f) \/ DeleteChild(f)
  BY <1>1, <1>8 DEF ScanFile, DeleteNext, DeleteChild, Goes, fileVars
<1>9. CASE \E d \in Folder : ScanDir(d)
  BY <1>1, <1>9 DEF ScanDir, Goes, fileVars
<1>10. CASE ScanDone \/ DeleteDone \/ OpenDir \/ ListBreaks \/ RemoveDir \/ LeaveDir
  BY <1>1, <1>10 DEF ScanDone, DeleteDone, OpenDir, ListBreaks, RemoveDir, LeaveDir, Goes,
    fileVars
<1>11. CASE \/ AnswerInfo \/ AnswerReaddir \/ AnswerRemove \/ AnswerOpen \/ AnswerList
            \/ AnswerFolder \/ RetryScan \/ RetryOpen
  BY <1>1, <1>11 DEF AnswerInfo, AnswerReaddir, AnswerRemove, AnswerOpen, AnswerList,
    AnswerFolder, RetryScan, RetryOpen, Goes, fileVars
<1>12. CASE Finish \/ Done \/ Cancel \/ UNCHANGED vars
  BY <1>1, <1>12 DEF Finish, Done, Cancel, vars, Goes, fileVars
<1> QED
  BY <1>2, <1>3, <1>4, <1>5, <1>6, <1>7, <1>8, <1>9, <1>10, <1>11, <1>12
     DEF Next, Thread, Answer, Retry

-----------------------------------------------------------------------------
(* What is agreed to, what is trashed and what is recorded *)

\* What is being deleted was agreed to.
Agreed ==
  /\ agreed \subseteq TopFiles /\ toDelete \subseteq agreed
  /\ pc \in {"scan", "delete"} => list \subseteq agreed
  /\ \A k \in DOMAIN frames : \E t \in agreed : frames[k].dir \in Under[t]

\* What is to be trashed was neither deleted nor trashed yet.
Unrelated ==
  /\ toTrash \cap (agreed \cup trashed) = {}
  /\ pc = "trash" => list \cap (agreed \cup trashed) = {}
  /\ agreed \cap trashed = {}
  /\ trashed \cap disk = {}
  /\ record = IF Recorded THEN trashed ELSE {}

\* What is in a file that is gone is gone.
LEMMA GoneUnder ==
  ASSUME GoneWhole, disk \subseteq File, NEW f \in File, f \notin disk
  PROVE  Under[f] \cap disk = {}
<1>1. HasKids(File \ disk)
  BY DeleteAssumption DEF GoneWhole, HasKids
<1> QED  BY <1>1, UnderLeast

\* Files go from the disk only.
LEMMA DiskShrinks ==
  ASSUME TypeOK, Control, StackStep
  PROVE  /\ disk' \subseteq disk
         /\ UNCHANGED <<trashed, record>> \/ \E f \in File : Trashes(f)
<1>1. ASSUME NEW f \in File, RemovesTop(f) \/ RemovesChild(f) PROVE Removes(f)
  BY <1>1 DEF RemovesTop, RemovesChild
<1>2. RemovesDir => Removes(frames[1].dir)
  BY DEF RemovesDir
<1>3. ASSUME NEW f, Removes(f) PROVE disk' \subseteq disk /\ UNCHANGED <<trashed, record>>
  BY <1>3 DEF Removes, Gone
<1>4. ASSUME NEW f \in File, Trashes(f) PROVE disk' \subseteq disk
  BY <1>4 DEF Trashes
<1> QED  BY <1>1, <1>2, <1>3, <1>4 DEF StackStep, Still

LEMMA NextUnrelated ==
  ASSUME TypeOK, Control, StackStep, ListStep, Unrelated
  PROVE  Unrelated'
<1>1. CASE UNCHANGED <<trashed, record>>
  <2>1. disk' \subseteq disk
    BY DiskShrinks
  <2>2. CASE Goes
    <3>1. pc' = "trash" => pc = "trash"
      BY <2>2 DEF Goes
    <3> QED  BY <1>1, <2>1, <2>2, <3>1 DEF Goes, Unrelated
  <2>3. CASE Sorts
    <3>1. trashed = {}
      BY <2>3 DEF Sorts, Control
    <3> QED  BY <1>1, <2>1, <2>3, <3>1, Choices DEF Sorts, Unrelated
  <2>4. CASE TurnsToTrash
    BY <1>1, <2>1, <2>4 DEF TurnsToTrash, Unrelated
  <2>5. CASE TurnsToDelete
    BY <1>1, <2>1, <2>5 DEF TurnsToDelete, Unrelated
  <2>6. ASSUME NEW f \in File, PutsAside(f) PROVE Unrelated'
    <3>1. toTrash = {}
      BY <2>6 DEF PutsAside, Control
    <3> QED  BY <1>1, <2>1, <2>6, <3>1 DEF PutsAside, Unrelated
  <2> QED  BY <2>2, <2>3, <2>4, <2>5, <2>6 DEF ListStep
<1>2. ASSUME NEW f \in File, Trashes(f) PROVE Unrelated'
  <2>1. /\ disk' = disk \ Under[f] /\ trashed' = trashed \cup {f} /\ agreed' = agreed
        /\ list' = list \ {f} /\ pc = "trash" /\ f \in list /\ pc' = pc /\ toTrash' = toTrash
        /\ record' = IF Recorded THEN record \cup {f} ELSE record
    BY <1>2 DEF Trashes, Record
  <2>2. f \in Under[f] /\ toTrash = {}
    BY <2>1, UnderSelf DEF Control
  <2> QED  BY <2>1, <2>2 DEF Unrelated
<1> QED  BY <1>1, <1>2, DiskShrinks

LEMMA NextAgreed ==
  ASSUME TypeOK, Control, Stacked(frames, disk), StackStep, ListStep, Agreed
  PROVE  Agreed' /\ agreed \subseteq agreed'
<1>1. /\ agreed \subseteq agreed' /\ agreed' \subseteq TopFiles /\ toDelete' \subseteq agreed'
      /\ pc' \in {"scan", "delete"} => list' \subseteq agreed'
  <2>1. CASE Goes
    <3>1. pc' \in {"scan", "delete"} => pc \in {"scan", "delete"}
      BY <2>1 DEF Goes
    <3> QED  BY <2>1, <3>1 DEF Goes, Agreed
  <2>2. CASE Sorts
    BY <2>2, Choices DEF Sorts, Control
  <2>3. CASE TurnsToTrash \/ TurnsToDelete
    BY <2>3 DEF TurnsToTrash, TurnsToDelete, Agreed
  <2>4. ASSUME NEW f \in File, PutsAside(f)
        PROVE  /\ agreed \subseteq agreed' /\ agreed' \subseteq TopFiles
               /\ toDelete' \subseteq agreed'
               /\ pc' \in {"scan", "delete"} => list' \subseteq agreed'
    BY <2>4 DEF PutsAside, Agreed, TypeOK
  <2> QED  BY <2>1, <2>2, <2>3, <2>4 DEF ListStep
<1> DEFINE In(fs) == \A k \in DOMAIN fs : \E t \in agreed : fs[k].dir \in Under[t]
<1>2. /\ frames \in Seq(Frame) /\ agreed \in SUBSET File
      /\ In(frames) /\ (frames # <<>> => In(Tail(frames)))
  BY Popped DEF TypeOK, Agreed
<1>3. ASSUME NEW fs \in Seq(Frame), In(fs), NEW gs, Shrinks(fs, gs) PROVE In(gs)
  BY <1>3 DEF Shrinks
<1>4. In(frames')
  <2>1. CASE Shrinks(frames, frames')
    BY <1>2, <1>3, <2>1
  <2>2. CASE Reads
    BY <1>2, <2>2 DEF Reads
  <2>3. CASE frames # <<>> /\ Shrinks(Tail(frames), frames')
    BY <1>2, <1>3, <2>3, Popped
  <2>4. ASSUME NEW f \in File, Enters(f) PROVE In(frames')
    <3>1. PICK fs \in Seq(Frame) :
             /\ Shrinks(frames, fs) /\ frames' = <<New(f)>> \o fs
             /\ IF frames = <<>> THEN pc = "delete" /\ f \in list
                                 ELSE f \in frames[1].left
      BY <2>4 DEF Enters
    <3>2. In(fs)
      BY <1>2, <1>3, <3>1
    <3>3. \E t \in agreed : f \in Under[t]
      <4>1. CASE frames = <<>>
        BY <3>1, <4>1, UnderSelf DEF Agreed
      <4>2. CASE frames # <<>>
        <5>1. 1 \in DOMAIN frames /\ f \in Kids[frames[1].dir] /\ frames[1].dir \in Folder
          BY <1>2, <3>1, <4>2, FramesTyped DEF Stacked
        <5> QED  BY <1>2, <5>1, UnderKids
      <4> QED  BY <4>1, <4>2
    <3>4. New(f) \in Frame /\ New(f).dir = f
      BY <2>4 DEF Enters, New
    <3> HIDE DEF In
    <3>5. ASSUME NEW k \in DOMAIN frames' PROVE \E t \in agreed : frames'[k].dir \in Under[t]
      <4>1. k = 1 => frames'[k] = New(f)
        BY <3>1, <3>4, Pushed
      <4>2. k # 1 => k - 1 \in DOMAIN fs /\ frames'[k] = fs[k - 1]
        BY <3>1, <3>4, Pushed
      <4> QED  BY <3>2, <3>3, <3>4, <4>1, <4>2 DEF In
    <3> QED  BY <3>5 DEF In
  <2>5. ASSUME NEW f \in File, RemovesTop(f) \/ RemovesChild(f) PROVE In(frames')
    <3>1. frames' = <<>> \/ Shrinks(frames, frames')
      BY <2>5 DEF RemovesTop, RemovesChild
    <3> QED  BY <1>2, <1>3, <3>1
  <2>6. RemovesDir => In(frames')
    BY <1>2 DEF RemovesDir
  <2>7. ASSUME NEW f \in File, Trashes(f) PROVE In(frames')
    BY <1>2, <2>7 DEF Trashes
  <2> QED  BY <2>1, <2>2, <2>3, <2>4, <2>5, <2>6, <2>7 DEF StackStep
<1>5. \A k \in DOMAIN frames' : \E t \in agreed' : frames'[k].dir \in Under[t]
  BY <1>1, <1>4
<1> QED  BY <1>1, <1>5 DEF Agreed

-----------------------------------------------------------------------------
(* What is lost, and what is reported *)

\* What a step removes from its folder is in a file that was agreed to.
LEMMA RemovedAgreed ==
  ASSUME TypeOK, Control, Stacked(frames, disk), Agreed, NEW f \in File,
         RemovesTop(f) \/ RemovesChild(f) \/ (RemovesDir /\ f = frames[1].dir)
  PROVE  Removes(f) /\ \E t \in agreed : f \in Under[t]
<1>1. CASE RemovesTop(f)
  BY <1>1, UnderSelf DEF RemovesTop, Agreed
<1>2. CASE RemovesChild(f)
  <2>1. /\ 1 \in DOMAIN frames /\ f \in Kids[frames[1].dir]
        /\ frames[1].dir \in Folder /\ agreed \subseteq File
    BY <1>2, FramesTyped DEF RemovesChild, TypeOK, Stacked
  <2> QED  BY <1>2, <2>1, UnderKids DEF RemovesChild, Agreed
<1>3. CASE RemovesDir /\ f = frames[1].dir
  <2>1. 1 \in DOMAIN frames
    BY <1>3 DEF RemovesDir, TypeOK
  <2> QED  BY <1>3, <2>1 DEF RemovesDir, Agreed
<1> QED  BY <1>1, <1>2, <1>3

\* What a step does to the disk, for what is told of it.
LEMMA DiskSteps ==
  ASSUME TypeOK, Control, Stacked(frames, disk), Agreed, StackStep
  PROVE  \/ UNCHANGED <<disk, changes, trashed, record>>
         \/ \E f \in File : Removes(f) /\ \E t \in agreed : f \in Under[t]
         \/ \E f \in File : Trashes(f)
<1>1. RemovesDir => frames[1].dir \in File
  BY FramesTyped DEF RemovesDir, TypeOK
<1> QED  BY <1>1, RemovedAgreed DEF StackStep, Still

LEMMA NextLost ==
  ASSUME TypeOK, Control, Stacked(frames, disk), Agreed, StackStep,
         agreed \subseteq agreed', OnlyAgreedLost
  PROVE  OnlyAgreedLost'
<1>1. CASE UNCHANGED <<disk, changes, trashed, record>>
  BY <1>1 DEF OnlyAgreedLost
<1>2. ASSUME NEW f \in File, Removes(f), \E t \in agreed : f \in Under[t]
      PROVE  OnlyAgreedLost'
  BY <1>2 DEF OnlyAgreedLost, Removes, Gone
<1>3. ASSUME NEW f \in File, Trashes(f) PROVE OnlyAgreedLost'
  BY <1>3 DEF OnlyAgreedLost, Trashes
<1> QED  BY <1>1, <1>2, <1>3, DiskSteps

\* A further removal of something that was still there.
LEMMA ReportsOnce ==
  ASSUME TypeOK, GoneWhole, ReportedOnce, NEW f \in File, f \in disk,
         changes' = Append(changes, f), NEW D \in SUBSET disk, f \notin D
  PROVE  /\ \A i, j \in DOMAIN changes' : i < j => changes'[j] \notin Under[changes'[i]]
         /\ Range(changes') = Range(changes) \cup {f}
         /\ Range(changes') \subseteq File \ D
<1>1. changes \in Seq(File) /\ disk \subseteq File
  BY DEF TypeOK
<1>2. /\ changes' \in Seq(File) /\ Len(changes') = Len(changes) + 1
      /\ changes'[Len(changes) + 1] = f /\ Len(changes) \in Nat
      /\ DOMAIN changes = 1 .. Len(changes) /\ DOMAIN changes' = 1 .. Len(changes) + 1
      /\ \A i \in DOMAIN changes : changes'[i] = changes[i]
  BY <1>1, AppendProperties
<1>3. Range(changes') = Range(changes) \cup {f}
  BY <1>2 DEF Range
<1>4. ASSUME NEW i \in DOMAIN changes', NEW j \in DOMAIN changes', i < j
      PROVE  changes'[j] \notin Under[changes'[i]]
  <2>1. i \in DOMAIN changes
    BY <1>2, <1>4
  <2>2. changes[i] \in File \ disk
    BY <2>1 DEF ReportedOnce, Range
  <2>3. CASE j \in DOMAIN changes
    BY <1>2, <1>4, <2>1, <2>3 DEF ReportedOnce
  <2>4. CASE j \notin DOMAIN changes
    <3>1. changes'[j] = f
      BY <1>2, <2>4
    <3> QED  BY <1>1, <1>2, <2>1, <2>2, <3>1, GoneUnder
  <2> QED  BY <2>3, <2>4
<1> QED  BY <1>3, <1>4 DEF ReportedOnce

LEMMA NextReported ==
  ASSUME TypeOK, Control, Stacked(frames, disk), GoneWhole, Agreed, Unrelated, StackStep,
         ReportedOnce
  PROVE  ReportedOnce'
<1>1. CASE UNCHANGED <<disk, changes, trashed, record>>
  BY <1>1 DEF ReportedOnce, Range
<1>2. ASSUME NEW f \in File, Removes(f) PROVE ReportedOnce'
  <2>1. /\ f \in disk /\ disk' = disk \ {f} /\ changes' = Append(changes, f)
        /\ trashed' = trashed /\ disk' \in SUBSET disk /\ f \notin disk'
    BY <1>2 DEF Removes, Gone
  <2>2. /\ \A i, j \in DOMAIN changes' : i < j => changes'[j] \notin Under[changes'[i]]
        /\ Range(changes') = Range(changes) \cup {f}
        /\ Range(changes') \subseteq File \ disk'
    BY <2>1, ReportsOnce
  <2>3. ASSUME NEW g \in File \ disk'
        PROVE  g \in Range(changes') \/ \E t \in trashed' : g \in Under[t]
    BY <2>1, <2>2, <2>3 DEF ReportedOnce
  <2> QED  BY <2>2, <2>3 DEF ReportedOnce
<1>3. ASSUME NEW f \in File, Trashes(f) PROVE ReportedOnce'
  <2>1. /\ f \in disk /\ disk' = disk \ Under[f] /\ changes' = Append(changes, f)
        /\ trashed' = trashed \cup {f} /\ disk' \in SUBSET disk
    BY <1>3 DEF Trashes
  <2>2. f \notin disk'
    BY <2>1, UnderSelf
  <2>3. /\ \A i, j \in DOMAIN changes' : i < j => changes'[j] \notin Under[changes'[i]]
        /\ Range(changes') = Range(changes) \cup {f}
        /\ Range(changes') \subseteq File \ disk'
    BY <2>1, <2>2, ReportsOnce
  <2>4. ASSUME NEW g \in File \ disk'
        PROVE  g \in Range(changes') \/ \E t \in trashed' : g \in Under[t]
    BY <2>1, <2>3, <2>4 DEF ReportedOnce
  <2> QED  BY <2>3, <2>4 DEF ReportedOnce
<1> QED  BY <1>1, <1>2, <1>3, DiskSteps

-----------------------------------------------------------------------------
(* The inductive invariant *)

JobInv ==
  /\ TypeOK /\ Control
  /\ Stacked(frames, disk) /\ GoneWhole
  /\ Agreed /\ Unrelated
  /\ OnlyAgreedLost /\ ReportedOnce

LEMMA InitJob == Init => JobInv
<1> SUFFICES ASSUME Init PROVE JobInv
  OBVIOUS
<1>1. TypeOK /\ Control
  BY InitTyped, InitControl
<1>2. Stacked(frames, disk) /\ Agreed
  BY DEF Init, Stacked, Agreed
<1>3. GoneWhole /\ OnlyAgreedLost
  BY FoldersAndTops DEF Init, GoneWhole, OnlyAgreedLost
<1>4. Unrelated
  BY DEF Init, Unrelated
<1>5. ReportedOnce
  BY DEF Init, ReportedOnce, Range
<1> QED  BY <1>1, <1>2, <1>3, <1>4, <1>5 DEF JobInv

LEMMA NextJob == JobInv /\ [Next]_vars => JobInv'
<1> SUFFICES ASSUME JobInv, [Next]_vars PROVE JobInv'
  OBVIOUS
<1> USE DEF JobInv
<1>1. TypeOK' /\ Control'
  BY NextTyped, NextControl
<1>2. (Stacked(frames, disk) /\ GoneWhole)'
  BY NextStacked
<1>3. StackStep /\ ListStep
  BY StackSteps, ListSteps
<1>4. Agreed' /\ agreed \subseteq agreed' /\ Unrelated'
  BY <1>3, NextAgreed, NextUnrelated
<1>5. OnlyAgreedLost' /\ ReportedOnce'
  BY <1>3, <1>4, NextLost, NextReported
<1> QED  BY <1>1, <1>2, <1>4, <1>5

LEMMA JobAlways == Spec => []JobInv
  BY InitJob, NextJob, PTL DEF Spec

\* Whatever fails, is skipped, retried or cancelled on the way down a tree, and in
\* whichever order the children come, nothing goes for good but what is inside a
\* file the user agreed to lose, or was put in the trash.
THEOREM LostIsAgreed == Spec => []OnlyAgreedLost
  BY JobAlways, PTL DEF JobInv

\* The views hear once of everything that goes, and of nothing else, the inside of a
\* folder before the folder; what the undo manager is told was trashed is all that
\* was, and none of it was deleted after all.
THEOREM ToldIsTrue == Spec => []ToldTrue
<1>1. JobInv => ToldTrue
  BY DEF JobInv, ToldTrue, RecordRestorable, Unrelated
<1> QED  BY <1>1, JobAlways, PTL

-----------------------------------------------------------------------------
(* What is skipped, when nothing chosen is inside something chosen *)

\* Of two files that are inside each other there is one.
LEMMA UnderBoth ==
  ASSUME NEW g \in File, NEW f \in Under[g], g \in Under[f]
  PROVE  f = g
<1> SUFFICES ASSUME f # g PROVE FALSE
  OBVIOUS
<1>1. CASE g \notin Folder
  <2>1. HasKids({g})
    BY <1>1 DEF HasKids
  <2> QED  BY <2>1, UnderLeast
<1>2. CASE g \in Folder
  <2> DEFINE S == {g} \cup {h \in File : \E k \in Kids[g] : h \in Under[k]}
  <2>1. HasKids(S)
    <3> SUFFICES ASSUME NEW d \in S, d \in Folder, NEW k \in Kids[d] PROVE k \in S
      BY DEF HasKids
    <3>1. k \in File /\ k \in Under[k]
      BY UnderChild, UnderSelf
    <3>2. CASE d = g
      BY <3>1, <3>2
    <3>3. CASE d # g
      <4>1. PICK c \in Kids[g] : d \in Under[c]
        BY <3>3
      <4>2. c \in File /\ k \in Under[c]
        BY <1>2, <4>1, UnderChild, UnderKids
      <4> QED  BY <3>1, <4>1, <4>2
    <3> QED  BY <3>2, <3>3
  <2>2. f \in S
    BY <2>1, UnderLeast
  <2>3. PICK k \in Kids[g] : f \in Under[k]
    BY <2>2
  <2>4. k \in File /\ g \notin Under[k]
    BY <1>2, UnderChild
  <2> QED  BY <2>3, <2>4, UnderUnder
<1> QED  BY <1>1, <1>2

\* The file that the outermost call is for.
Root(fs) == IF fs = <<>> THEN {} ELSE {fs[Len(fs)].dir}

LEMMA RootSame ==
  ASSUME NEW fs \in Seq(Frame), NEW gs \in Seq(Frame), Len(gs) = Len(fs),
         \A k \in DOMAIN fs : gs[k].dir = fs[k].dir
  PROVE  Root(gs) = Root(fs) /\ (gs = <<>> <=> fs = <<>>)
<1>1. gs = <<>> <=> fs = <<>>
  OBVIOUS
<1>2. fs # <<>> => Len(fs) \in DOMAIN fs
  OBVIOUS
<1> QED  BY <1>1, <1>2 DEF Root

LEMMA RootShrinks ==
  ASSUME NEW fs \in Seq(Frame), NEW gs, Shrinks(fs, gs)
  PROVE  Root(gs) = Root(fs) /\ (gs = <<>> <=> fs = <<>>)
  BY RootSame DEF Shrinks

LEMMA RootCalls ==
  ASSUME TypeOK, frames # <<>>, NEW c \in Frame, c.dir = Call.dir, Calls(c)
  PROVE  Root(frames') = Root(frames) /\ frames' # <<>>
<1>1. /\ frames' \in Seq(Frame) /\ Len(frames') = Len(frames)
      /\ \A k \in DOMAIN frames : frames'[k].dir = frames[k].dir
  BY HeadReplaced DEF Calls, Call, TypeOK
<1> QED  BY <1>1, RootSame DEF TypeOK

LEMMA RootTail ==
  ASSUME NEW fs \in Seq(Frame), fs # <<>>
  PROVE  /\ Tail(fs) = <<>> => Root(fs) = {fs[1].dir} /\ Root(Tail(fs)) = {}
         /\ Tail(fs) # <<>> => Root(Tail(fs)) = Root(fs) /\ Len(fs) > 1
<1>1. CASE Tail(fs) = <<>>
  <2> DEFINE gs == Tail(fs)
  <2>1. Len(gs) = Len(fs) - 1 /\ Len(fs) \in Nat /\ gs = <<>>
    BY <1>1, Popped
  <2> HIDE DEF gs
  <2>2. Len(gs) = 0
    BY <2>1
  <2>3. Len(fs) = 1
    BY <2>1, <2>2
  <2> QED  BY <1>1, <2>3 DEF Root
<1>2. CASE Tail(fs) # <<>>
  <2>1. Len(Tail(fs)) = Len(fs) - 1 /\ Len(fs) > 1 /\ Tail(fs)[Len(fs) - 1] = fs[Len(fs)]
    BY <1>2
  <2> QED  BY <1>2, <2>1 DEF Root
<1> QED  BY <1>1, <1>2

LEMMA RootPush ==
  ASSUME NEW fs \in Seq(Frame), NEW f, New(f) \in Frame
  PROVE  /\ <<New(f)>> \o fs # <<>>
         /\ Root(<<New(f)>> \o fs) = IF fs = <<>> THEN {f} ELSE Root(fs)
<1> DEFINE c == New(f)
<1>1. c \in Frame /\ c.dir = f
  BY DEF New
<1> HIDE DEF c
<1>2. Len(<<c>> \o fs) = Len(fs) + 1 /\ <<c>> \o fs # <<>> /\ (<<c>> \o fs)[1] = c
  BY <1>1, Pushed
<1>3. fs # <<>> => (<<c>> \o fs)[Len(fs) + 1] = fs[Len(fs)]
  BY <1>1, Pushed
<1> QED  BY <1>1, <1>2, <1>3 DEF Root, c

\* The folders of all calls are in it, and it is in none of the others.
LEMMA RootHolds ==
  ASSUME NEW fs \in Seq(Frame), fs # <<>>, NEW D, Stacked(fs, D)
  PROVE  \E r \in File :
           /\ Root(fs) = {r} /\ r \in D
           /\ \E k \in DOMAIN fs : r = fs[k].dir
           /\ \A k \in DOMAIN fs : fs[k].dir \in Under[r]
           /\ Len(fs) > 1 => r # fs[1].dir
<1> DEFINE n == Len(fs)
           r == fs[n].dir
<1>1. n \in DOMAIN fs /\ 1 \in DOMAIN fs /\ \A k \in DOMAIN fs : k < n \/ k = n
  OBVIOUS
<1>2. r \in File /\ r \in D
  BY <1>1, FramesTyped DEF Stacked
<1>3. r \in Under[r]
  BY <1>2, UnderSelf
<1>4. Root(fs) = {r}
  BY DEF Root
<1>5. n > 1 => r # fs[1].dir
  <2>1. fs[1].dir \in Under[fs[1].dir]
    BY <1>1, FramesTyped, UnderSelf
  <2> QED  BY <1>1, <2>1 DEF Stacked
<1> HIDE DEF n
<1>6. \A k \in DOMAIN fs : fs[k].dir \in Under[r]
  BY <1>1, <1>3 DEF Stacked
<1> QED  BY <1>1, <1>2, <1>4, <1>5, <1>6 DEF n

\* The files still to be handled, and the one whose handling has begun: the one
\* asked about, or the one the calls are for.
Waiting == list \cup toTrash \cup toDelete
AtHand == IF frames = <<>> /\ question.kind = "remove" THEN {question.file}
                                                       ELSE Root(frames)

LEMMA HandEmpty == ASSUME Control, pc # "delete" PROVE AtHand = {} /\ frames = <<>>
  BY DEF Control, AtHand, Root

\* Nothing is counted, and files are done with only.
Rests ==
  UNCHANGED <<skipped, disk>> /\ AtHand' \subseteq AtHand /\ Waiting' \subseteq Waiting

Takes(f) ==
  /\ f \in list /\ AtHand = {} /\ AtHand' = {f} /\ Waiting' \subseteq Waiting \ {f}
  /\ UNCHANGED <<skipped, disk>>

\* A file counts as skipped, handled or not.
Passes(f) ==
  /\ f \in Waiting /\ AtHand = {} /\ AtHand' = {} /\ Waiting' \subseteq Waiting \ {f}
  /\ skipped' = skipped + 1 /\ UNCHANGED disk
Drops(f) ==
  /\ AtHand = {f} /\ AtHand' = {} /\ Waiting' = Waiting
  /\ skipped' = skipped + 1 /\ UNCHANGED disk

\* A file is gone that was to be handled, or was in the one at hand.
LosesTop(f) ==
  /\ f \in Waiting /\ AtHand = {} /\ AtHand' = {} /\ Waiting' \subseteq Waiting \ {f}
  /\ disk \ Under[f] \subseteq disk' /\ UNCHANGED skipped
LosesIn(f) ==
  /\ \E r \in File : AtHand = {r} /\ f \in Under[r]
  /\ AtHand' \subseteq AtHand \ {f} /\ Waiting' = Waiting
  /\ disk' = disk \ {f} /\ UNCHANGED skipped

Opens ==
  pc = "start" /\ disk' = File /\ skipped' = 0 /\ AtHand' = {} /\ Waiting' \subseteq TopFiles

HandStep ==
  \/ Rests \/ Opens
  \/ \E f \in File : Takes(f) \/ Passes(f) \/ Drops(f) \/ LosesTop(f) \/ LosesIn(f)

LEMMA HandSteps ==
  ASSUME TypeOK, Control, TypeOK', Control', Stacked(frames, disk), Agreed, Unrelated,
         [Next]_vars
  PROVE  HandStep
<1>a. pc' # "delete" => AtHand' = {} /\ frames' = <<>>
  BY DEF Control, AtHand, Root
<1>b. frames # <<>> \/ question.kind # "remove" => AtHand = Root(frames)
  BY DEF AtHand
<1>c. frames' # <<>> \/ question'.kind # "remove" => AtHand' = Root(frames')
  BY DEF AtHand
<1>d. ASSUME UNCHANGED <<list, toTrash, toDelete>> PROVE Waiting' = Waiting
  BY <1>d DEF Waiting
<1>e. NoQuestion.kind # "remove" /\ Root(<<>>) = {} /\ frames \in Seq(Frame)
  BY DEF NoQuestion, Root, TypeOK

\* Steps of the calls that change none of their folders.
<1>f. ASSUME frames # <<>>, frames' # <<>>, Root(frames') = Root(frames),
             UNCHANGED <<skipped, disk, list, toTrash, toDelete>>
      PROVE  HandStep
  BY <1>b, <1>c, <1>d, <1>f DEF HandStep, Rests
<1>1. ASSUME NEW f \in File, DeleteNext(f) PROVE HandStep
  <2>1. /\ pc = "delete" /\ frames = <<>> /\ f \in list /\ list' = list \ {f}
        /\ DeleteFile(f, <<>>) /\ question = NoQuestion /\ UNCHANGED <<toTrash, toDelete>>
        /\ <<>> \in Seq(Frame)
    BY <1>1 DEF DeleteNext, First, Going
  <2>2. AtHand = {} /\ f \in Waiting /\ Waiting' \subseteq Waiting \ {f}
    <3>1. f \in agreed /\ toDelete = {} /\ toTrash \cap agreed = {}
      BY <2>1 DEF Agreed, Unrelated, Control
    <3> QED  BY <1>b, <1>e, <2>1, <3>1 DEF Waiting
  <2>3. CASE MarkIn(<<>>) /\ UNCHANGED <<question, disk, changes>>
    <3>1. skipped' = skipped + 1 /\ frames' = <<>>
      BY <2>3 DEF MarkIn
    <3> QED  BY <1>c, <1>e, <2>1, <2>2, <2>3, <3>1 DEF HandStep, Passes
  <2>4. CASE /\ f \in disk /\ Gone(f) /\ frames' = <<>>
             /\ UNCHANGED <<question, skipped>>
    <3>1. disk \ Under[f] \subseteq disk' /\ AtHand' = {}
      BY <1>c, <1>e, <2>1, <2>4, UnderSelf DEF Gone
    <3> QED  BY <2>2, <2>4, <3>1 DEF HandStep, LosesTop
  <2>5. CASE /\ New(f) \in Frame /\ frames' = <<New(f)>> \o <<>>
             /\ UNCHANGED <<question, skipped, disk, changes>>
    <3>1. AtHand' = {f}
      BY <1>c, <2>1, <2>5, RootPush
    <3> QED  BY <2>1, <2>2, <2>5, <3>1 DEF HandStep, Takes
  <2>6. CASE Ask("remove", f) /\ frames' = <<>> /\ UNCHANGED <<skipped, disk, changes>>
    <3>1. AtHand' = {f}
      BY <2>6 DEF Ask, AtHand
    <3> QED  BY <2>1, <2>2, <2>6, <3>1 DEF HandStep, Takes
  <2> QED  BY <2>1, <2>3, <2>4, <2>5, <2>6, DeleteFileDoes
<1>2. ASSUME NEW f \in File, DeleteChild(f) PROVE HandStep
  <2> DEFINE c == [Call EXCEPT !.left = Call.left \ {f}]
             fs == <<c>> \o Tail(frames)
  <2>1. /\ frames # <<>> /\ f \in Call.left /\ DeleteFile(f, fs)
        /\ UNCHANGED <<list, toTrash, toDelete>> /\ question = NoQuestion
    BY <1>2 DEF DeleteChild, Going
  <2>2. Call = frames[1] /\ Call \in Frame
    BY <2>1, CallIs
  <2>3. c \in Frame /\ c.dir = frames[1].dir /\ c.left = frames[1].left \ {f}
    BY <2>2 DEF Frame
  <2> HIDE DEF c
  <2>4. /\ fs \in Seq(Frame) /\ Shrinks(frames, fs) /\ fs # <<>>
        /\ f \in frames[1].left /\ f \notin fs[1].left /\ fs[1].dir = frames[1].dir
    <3>1. fs \in Seq(Frame) /\ fs[1] = c
      BY <1>e, <2>1, <2>3, HeadReplaced
    <3>2. Shrinks(frames, fs)
      BY <1>e, <2>1, <2>3, HeadShrinks
    <3>3. fs # <<>>
      BY <1>e, <2>1, <3>1, <3>2, RootShrinks
    <3> QED  BY <2>1, <2>2, <2>3, <3>1, <3>2, <3>3
  <2> HIDE DEF fs
  <2>5. Root(fs) = Root(frames) /\ Stacked(fs, disk)
    BY <1>e, <2>4, RootShrinks, StackedShrinks
  <2>6. CASE MarkIn(fs) /\ UNCHANGED <<question, disk, changes>>
    <3>1. Shrinks(fs, frames') /\ skipped' = skipped
      BY <2>4, <2>6, MarkInShrinks DEF TypeOK
    <3>2. Root(frames') = Root(fs) /\ frames' # <<>>
      BY <2>4, <3>1, RootShrinks
    <3> QED  BY <1>f, <2>1, <2>5, <2>6, <3>1, <3>2
  <2>7. CASE Gone(f) /\ frames' = fs /\ UNCHANGED <<question, skipped>>
    <3>1. f \in Kids[fs[1].dir]
      BY <1>e, <2>1, <2>4 DEF Stacked
    <3>2. PICK r \in File : Root(fs) = {r} /\ \E k \in DOMAIN fs : r = fs[k].dir
      BY <2>4, <2>5, RootHolds
    <3>3. f \in Under[r] /\ r # f
      BY <2>4, <2>5, <3>1, <3>2, ChildApart
    <3>4. AtHand = {r} /\ AtHand' = {r}
      BY <1>b, <1>c, <2>1, <2>4, <2>5, <2>7, <3>2
    <3> QED  BY <1>d, <2>1, <2>7, <3>3, <3>4 DEF HandStep, LosesIn, Gone
  <2>8. CASE /\ New(f) \in Frame /\ frames' = <<New(f)>> \o fs
             /\ UNCHANGED <<question, skipped, disk, changes>>
    <3>1. Root(frames') = Root(fs) /\ frames' # <<>>
      BY <2>4, <2>8, RootPush
    <3> QED  BY <1>f, <2>1, <2>5, <2>8, <3>1
  <2>9. CASE Ask("remove", f) /\ frames' = fs /\ UNCHANGED <<skipped, disk, changes>>
    BY <1>f, <2>1, <2>4, <2>5, <2>9
  <2> QED  BY <2>1, <2>4, <2>6, <2>7, <2>8, <2>9, DeleteFileDoes
<1>3. CASE OpenDir \/ AnswerOpen \/ RetryOpen \/ ListBreaks \/ AnswerList
  <2>1. frames # <<>> /\ UNCHANGED <<skipped, disk, list, toTrash, toDelete>>
    BY <1>3 DEF OpenDir, AnswerOpen, RetryOpen, ListBreaks, AnswerList, Control, fileVars
  <2>2. Call \in Frame /\ Present(Call.dir) \in SUBSET File
    BY <2>1, CallIs, PresentTyped
  <2>3. ASSUME NEW c \in Frame, c.dir = Call.dir, Calls(c) PROVE HandStep
    BY <1>f, <2>1, <2>3, RootCalls
  <2>4. ASSUME NEW left \in SUBSET File, NEW b \in BOOLEAN
        PROVE  /\ [Call EXCEPT !.opened = TRUE, !.left = left, !.broken = b] \in Frame
               /\ [Call EXCEPT !.opened = TRUE, !.left = left, !.broken = b].dir = Call.dir
    BY <2>2 DEF Frame
  <2>5. ASSUME NEW c \in { [Call EXCEPT !.opened = TRUE, !.left = Present(Call.dir)],
                           [Call EXCEPT !.opened = TRUE, !.skip = TRUE],
                           [Call EXCEPT !.skip = TRUE], [Call EXCEPT !.broken = FALSE] },
               Calls(c)
        PROVE  HandStep
    <3>1. c \in Frame /\ c.dir = Call.dir
      BY <2>2 DEF Frame
    <3> QED  BY <2>3, <2>5, <3>1
  <2>6. ASSUME NEW seen \in SUBSET Present(Call.dir),
               Calls([Call EXCEPT !.opened = TRUE, !.left = seen,
                                  !.broken = Call.dir \notin skipReaddir])
        PROVE  HandStep
    <3>1. (Call.dir \notin skipReaddir) \in BOOLEAN /\ seen \in SUBSET File
      BY <2>2
    <3> QED  BY <2>3, <2>4, <2>6, <3>1
  <2>7. UNCHANGED frames => HandStep
    BY <1>f, <2>1
  <2> QED  BY <1>3, <2>5, <2>6, <2>7 DEF OpenDir, AnswerOpen, RetryOpen, ListBreaks, AnswerList
<1>4. CASE RemoveDir
  <2>1. /\ frames # <<>> /\ question = NoQuestion
        /\ UNCHANGED <<skipped, list, toTrash, toDelete>>
    BY <1>4 DEF RemoveDir, Going
  <2>2. Call = frames[1] /\ Call.dir \in Folder /\ AtHand = Root(frames)
    BY <1>b, <2>1, CallIs
  <2>3. PICK r \in File :
           /\ Root(frames) = {r} /\ \A k \in DOMAIN frames : frames[k].dir \in Under[r]
           /\ Len(frames) > 1 => r # frames[1].dir
    BY <1>e, <2>1, RootHolds
  <2>4. \/ Root(Tail(frames)) = {}
        \/ Root(Tail(frames)) = {r} /\ r # frames[1].dir
    BY <1>e, <2>1, <2>3, RootTail
  <2>5. CASE Gone(Call.dir) /\ frames' = Tail(frames) /\ UNCHANGED question
    <3>1. frames[1].dir \in Under[r] /\ frames[1].dir \in File
      BY <1>e, <2>1, <2>3, FramesTyped
    <3>2. AtHand' \subseteq AtHand \ {frames[1].dir}
      BY <1>c, <1>e, <2>1, <2>2, <2>3, <2>4, <2>5
    <3> QED  BY <1>d, <2>1, <2>2, <2>3, <2>5, <3>1, <3>2 DEF HandStep, LosesIn, Gone
  <2>6. CASE frames' = Tail(frames) /\ UNCHANGED <<question, disk>>
    <3>1. AtHand' \subseteq AtHand
      BY <1>c, <1>e, <2>1, <2>2, <2>3, <2>4, <2>6
    <3> QED  BY <1>d, <2>1, <2>6, <3>1 DEF HandStep, Rests
  <2>7. CASE UNCHANGED <<frames, disk>>
    BY <1>f, <2>1, <2>7
  <2> QED  BY <1>4, <2>5, <2>6, <2>7 DEF RemoveDir
<1>5. CASE AnswerFolder \/ LeaveDir
  <2>1. /\ frames # <<>> /\ question' = NoQuestion
        /\ UNCHANGED <<disk, list, toTrash, toDelete>>
    BY <1>5 DEF AnswerFolder, LeaveDir, Control, fileVars
  <2>2. \/ MarkIn(Tail(frames))
        \/ frames' = Tail(frames) /\ UNCHANGED skipped
    BY <1>5 DEF AnswerFolder, LeaveDir
  <2>3. /\ AtHand = Root(frames) /\ AtHand' = Root(frames') /\ Waiting' = Waiting
        /\ Tail(frames) \in Seq(Frame)
    BY <1>b, <1>c, <1>d, <1>e, <2>1, Popped
  <2>4. PICK r \in File : Root(frames) = {r} /\ Root(Tail(frames)) \subseteq {r}
    BY <1>e, <2>1, RootHolds, RootTail
  <2>5. CASE MarkIn(Tail(frames))
    <3>1. /\ Shrinks(Tail(frames), frames')
          /\ skipped' = IF Tail(frames) = <<>> THEN skipped + 1 ELSE skipped
      BY <2>3, <2>5, MarkInShrinks DEF TypeOK
    <3>2. Root(frames') = Root(Tail(frames))
      BY <2>3, <3>1, RootShrinks
    <3>3. CASE Tail(frames) = <<>>
      <4>1. AtHand = {r} /\ AtHand' = {}
        BY <1>e, <2>3, <2>4, <3>2, <3>3
      <4> QED  BY <2>1, <2>3, <3>1, <3>3, <4>1 DEF HandStep, Drops
    <3>4. CASE Tail(frames) # <<>>
      BY <2>1, <2>3, <2>4, <3>1, <3>2, <3>4 DEF HandStep, Rests
    <3> QED  BY <3>3, <3>4
  <2>6. CASE frames' = Tail(frames) /\ UNCHANGED skipped
    BY <2>1, <2>3, <2>4, <2>6 DEF HandStep, Rests
  <2> QED  BY <2>2, <2>5, <2>6
<1>6. CASE AnswerRemove
  <2>1. /\ question.kind = "remove" /\ question' = NoQuestion /\ MarkIn(frames)
        /\ UNCHANGED <<disk, list, toTrash, toDelete>> /\ question.file \in File
    BY <1>6 DEF AnswerRemove, Control, fileVars
  <2>2. /\ Shrinks(frames, frames')
        /\ skipped' = IF frames = <<>> THEN skipped + 1 ELSE skipped
    BY <1>e, <2>1, MarkInShrinks DEF TypeOK
  <2>3. /\ Root(frames') = Root(frames) /\ AtHand' = Root(frames')
        /\ frames' = <<>> <=> frames = <<>>
    BY <1>c, <1>e, <2>1, <2>2, RootShrinks
  <2>4. CASE frames = <<>>
    <3>1. AtHand = {question.file} /\ AtHand' = {}
      BY <1>e, <2>1, <2>3, <2>4 DEF AtHand
    <3> QED  BY <1>d, <2>1, <2>2, <2>4, <3>1 DEF HandStep, Drops
  <2>5. CASE frames # <<>>
    BY <1>f, <2>1, <2>2, <2>3, <2>5
  <2> QED  BY <2>4, <2>5
<1>7. ASSUME NEW f \in File, TrashNext(f) PROVE HandStep
  <2>1. /\ pc = "trash" /\ pc' = "trash" /\ f \in list /\ toTrash = {} /\ toTrash' = {}
        /\ f \notin toDelete
    BY <1>7 DEF TrashNext, First, Control, Agreed, Unrelated
  <2>2. AtHand = {} /\ AtHand' = {} /\ f \in Waiting
    BY <1>a, <2>1, HandEmpty DEF Waiting
  <2>3. CASE list' = list \ {f} /\ disk' = disk \ Under[f] /\ UNCHANGED <<toDelete, skipped>>
    BY <2>1, <2>2, <2>3 DEF HandStep, LosesTop, Waiting
  <2>4. CASE list' = list \ {f} /\ skipped' = skipped + 1 /\ UNCHANGED <<toDelete, disk>>
    BY <2>1, <2>2, <2>4 DEF HandStep, Passes, Waiting
  <2>5. CASE /\ list' \subseteq list /\ toDelete' \subseteq toDelete \cup {f}
             /\ UNCHANGED <<skipped, disk>>
    BY <2>1, <2>2, <2>5 DEF HandStep, Rests, Waiting
  <2> QED  BY <1>7, <2>3, <2>4, <2>5 DEF TrashNext
<1>8. CASE AnswerTrash
  <2> DEFINE f == question.file
  <2>1. /\ pc = "trash" /\ pc' = "trash" /\ f \in list /\ toTrash = {} /\ toTrash' = {}
        /\ f \notin toDelete /\ f \in File /\ list' = list \ {f} /\ UNCHANGED disk
    BY <1>8, FoldersAndTops DEF AnswerTrash, Control, Agreed, Unrelated, TypeOK
  <2>2. AtHand = {} /\ AtHand' = {} /\ f \in Waiting
    BY <1>a, <2>1, HandEmpty DEF Waiting
  <2>3. \/ UNCHANGED <<skipped, toDelete>>
        \/ skipped' = skipped + 1 /\ UNCHANGED toDelete
        \/ UNCHANGED skipped /\ toDelete' = toDelete \cup {f}
    BY <1>8 DEF AnswerTrash
  <2> HIDE DEF f
  <2>4. CASE skipped' = skipped + 1 /\ UNCHANGED toDelete
    BY <2>1, <2>2, <2>4 DEF HandStep, Passes, Waiting
  <2>5. CASE UNCHANGED skipped /\ toDelete' \subseteq toDelete \cup {f}
    BY <2>1, <2>2, <2>5 DEF HandStep, Rests, Waiting
  <2> QED  BY <2>3, <2>4, <2>5
<1>9. CASE Start \/ AnswerConfirm
  <2>1. /\ pc = "start" /\ pc' # "delete" /\ UNCHANGED <<disk, skipped>>
    BY <1>9 DEF Start, AnswerConfirm, StartScan, Control
  <2>2. disk = File /\ skipped = 0 /\ Waiting' \subseteq TopFiles
    BY <2>1 DEF Control, TypeOK, Waiting
  <2> QED  BY <1>a, <2>1, <2>2 DEF HandStep, Opens
\* Everything else is done with none at hand.
<1>10. ASSUME UNCHANGED <<skipped, disk>>, frames' = <<>>, question'.kind # "remove",
              Waiting' \subseteq Waiting
       PROVE  HandStep
  BY <1>c, <1>e, <1>10 DEF HandStep, Rests
<1>11. CASE \E f \in File : ScanFile(f)
  <2>1. PICK f \in File : ScanFile(f)
    BY <1>11
  <2>2. frames = <<>> /\ question'.kind # "remove"
    BY <2>1 DEF ScanFile, ScanFails, Scanning, Going, Ask, NoQuestion, Control
  <2> QED  BY <1>d, <1>10, <2>1, <2>2 DEF ScanFile, fileVars
<1>12. CASE \E d \in Folder : ScanDir(d)
  <2>1. PICK d \in Folder : ScanDir(d)
    BY <1>12
  <2>2. frames = <<>> /\ question'.kind # "remove"
    BY <2>1 DEF ScanDir, ScanFails, Scanning, Going, Ask, NoQuestion, Control
  <2> QED  BY <1>d, <1>10, <2>1, <2>2 DEF ScanDir, fileVars
<1>13. CASE AnswerInfo \/ AnswerReaddir \/ RetryScan \/ ScanDone
  <2>1. frames = <<>> /\ question' = NoQuestion
        /\ UNCHANGED <<frames, skipped, disk, list, toTrash, toDelete>>
    BY <1>13 DEF AnswerInfo, AnswerReaddir, RetryScan, ScanDone, Control, fileVars
  <2> QED  BY <1>d, <1>e, <1>10, <2>1
<1>14. CASE DeleteDone \/ Then \/ TrashDone
  <2>1. frames = <<>> /\ question' = NoQuestion /\ UNCHANGED <<frames, skipped, disk>>
    BY <1>14 DEF DeleteDone, Then, TrashDone, Control, fileVars
  <2>2. Waiting' \subseteq Waiting
    BY <1>14 DEF DeleteDone, Then, TrashDone, StartScan, Waiting
  <2> QED  BY <1>e, <1>10, <2>1, <2>2
<1>15. CASE Finish \/ Done \/ Cancel \/ UNCHANGED vars
  <2>1. UNCHANGED <<frames, question, skipped, disk, list, toTrash, toDelete>>
    BY <1>15 DEF Finish, Done, Cancel, vars, fileVars
  <2> QED  BY <1>d, <2>1 DEF HandStep, Rests, AtHand
<1> QED
  BY <1>1, <1>2, <1>3, <1>4, <1>5, <1>6, <1>7, <1>8, <1>9, <1>11, <1>12, <1>13, <1>14,
     <1>15 DEF Next, Thread, Answer, Retry

-----------------------------------------------------------------------------
\* What the scan was told to skip is inside something that was agreed to; it is
\* all there, and no call is for anything inside it.  What is waiting is all there.
Untouched ==
  /\ \A f \in skipFiles : Under[f] \subseteq disk /\ \E t \in agreed : f \in Under[t]
  /\ \A k \in DOMAIN frames : \A f \in skipFiles : frames[k].dir \notin Under[f]
  /\ \A t \in Waiting : Under[t] \subseteq disk
  /\ AtHand \subseteq TopFiles \cap disk /\ AtHand \cap Waiting = {}

\* The scan is inside the files of the list.
Scanned ==
  /\ pc = "scan" => \A f \in scanFiles \cup scanDirs : \E t \in list : f \in Under[t]
  /\ question.kind \in {"info", "readdir"} => \E t \in list : question.file \in Under[t]

Settled == (TopFiles \cap disk) \ (Waiting \cup AtHand)
Counted == skipped <= Cardinality(Settled)

LEMMA NextScanned ==
  TypeOK /\ Control /\ Scanned /\ [Next]_vars => Scanned'
<1> SUFFICES ASSUME TypeOK, Control, Scanned, [Next]_vars PROVE Scanned'
  OBVIOUS
<1> DEFINE In(S) == \A f \in S : \E t \in list : f \in Under[t]
<1>a. list \in SUBSET File
  BY FoldersAndTops DEF TypeOK
<1>b. ASSUME pc' # "scan", question' = NoQuestion \/ question'.kind \notin {"info", "readdir"}
      PROVE  Scanned'
  BY <1>b DEF Scanned, NoQuestion
<1>c. ASSUME UNCHANGED list, In(scanFiles' \cup scanDirs'),
             question' = NoQuestion \/ In({question'.file})
      PROVE  Scanned'
  BY <1>c DEF Scanned, NoQuestion
<1>d. pc = "scan" => In(scanFiles \cup scanDirs)
  BY DEF Scanned
<1>1. ASSUME NEW f \in File, ScanFile(f) PROVE Scanned'
  <2>1. /\ pc = "scan" /\ question = NoQuestion /\ UNCHANGED list /\ f \in scanFiles
        /\ scanFiles' = scanFiles \ {f} /\ scanDirs = {} /\ scanDirs' \subseteq {f}
        /\ question' = NoQuestion \/ question'.file = f
    BY <1>1 DEF ScanFile, Scanning, Going, First, ScanFails, Ask
  <2> QED  BY <1>c, <1>d, <2>1
<1>2. ASSUME NEW d \in Folder, ScanDir(d) PROVE Scanned'
  <2>1. /\ pc = "scan" /\ question = NoQuestion /\ UNCHANGED <<list, scanFiles>>
        /\ d \in scanDirs /\ scanDirs' \subseteq scanDirs \cup Kids[d]
        /\ question' = NoQuestion \/ question'.file = d
    BY <1>2 DEF ScanDir, Scanning, Going, ScanFails, Ask, Present
  <2>2. In(Kids[d])
    BY <1>a, <1>d, <2>1, UnderKids
  <2> QED  BY <1>c, <1>d, <2>1, <2>2
<1>3. CASE AnswerInfo \/ AnswerReaddir
  BY <1>c, <1>d, <1>3 DEF AnswerInfo, AnswerReaddir, Control
<1>4. CASE RetryScan
  <2>1. /\ pc = "scan" /\ UNCHANGED list /\ question' = NoQuestion
        /\ scanFiles' \cup scanDirs' = scanFiles \cup scanDirs \cup {question.file}
    BY <1>4 DEF RetryScan, Control
  <2>2. In({question.file})
    BY <1>4 DEF RetryScan, Scanned
  <2> QED  BY <1>c, <1>d, <2>1, <2>2
\* The scan begins with the files of the list.
<1>5. ASSUME NEW files \in SUBSET File, StartScan(files), question' = NoQuestion
      PROVE  Scanned'
  <2>1. CASE cancelled
    BY <1>b, <1>5, <2>1 DEF StartScan
  <2>2. CASE ~cancelled
    <3>1. list' = files /\ scanFiles' = files /\ scanDirs' = {}
      BY <1>5, <2>2 DEF StartScan
    <3> QED  BY <1>5, <3>1, UnderSelf DEF Scanned, NoQuestion
  <2> QED  BY <2>1, <2>2
<1>6. CASE Start \/ AnswerConfirm
  <2>1. ToDelete \in SUBSET File /\ pc = "start"
    BY <1>6, Choices, FoldersAndTops DEF Start, AnswerConfirm, Control
  <2>2. \/ StartScan(ToDelete) /\ question' = NoQuestion
        \/ /\ pc' \in {"start", "then"}
           /\ question' = NoQuestion \/ question'.kind = "confirm"
    BY <1>6, <2>1 DEF Start, AnswerConfirm, Ask
  <2> QED  BY <1>b, <1>5, <2>1, <2>2
<1>7. CASE TrashDone
  <2>1. toDelete \in SUBSET File /\ question' = NoQuestion
    BY <1>7, FoldersAndTops DEF TrashDone, TypeOK
  <2>2. StartScan(toDelete) \/ pc' = "then"
    BY <1>7 DEF TrashDone
  <2> QED  BY <1>b, <1>5, <2>1, <2>2
<1>8. CASE ScanDone \/ DeleteDone \/ Then \/ Finish
  BY <1>b, <1>8 DEF ScanDone, DeleteDone, Then, Finish, NoQuestion
<1>9. ASSUME NEW f \in File, DeleteNext(f) \/ DeleteChild(f) PROVE Scanned'
  <2>1. pc = "delete" /\ pc' = pc /\ question = NoQuestion
    BY <1>9 DEF DeleteNext, DeleteChild, Going
  <2>2. question' = NoQuestion \/ question'.kind = "remove"
    BY <1>9, <2>1 DEF DeleteNext, DeleteChild, DeleteFile, Ask
  <2> QED  BY <1>b, <2>1, <2>2
<1>10. CASE \/ OpenDir \/ ListBreaks \/ RemoveDir \/ LeaveDir \/ AnswerRemove \/ AnswerOpen
            \/ AnswerList \/ AnswerFolder \/ RetryOpen
  <2>1. pc = "delete" /\ pc' = pc
    BY <1>10 DEF OpenDir, ListBreaks, RemoveDir, LeaveDir, AnswerRemove, AnswerOpen,
      AnswerList, AnswerFolder, RetryOpen, Control
  <2>2. question' = NoQuestion \/ question'.kind \in {"open", "list", "folder"}
    <3>1. CASE OpenDir \/ ListBreaks \/ RemoveDir
      <4>1. question = NoQuestion
        BY <3>1 DEF OpenDir, ListBreaks, RemoveDir, Going
      <4>2. \/ UNCHANGED question \/ Ask("open", Call.dir)
            \/ Ask("list", Call.dir) \/ Ask("folder", Call.dir)
        BY <3>1 DEF OpenDir, ListBreaks, RemoveDir
      <4> QED  BY <4>1, <4>2 DEF Ask
    <3>2. CASE AnswerRemove \/ AnswerOpen \/ AnswerList \/ AnswerFolder \/ RetryOpen
      BY <3>2 DEF AnswerRemove, AnswerOpen, AnswerList, AnswerFolder, RetryOpen
    <3>3. CASE LeaveDir
      BY <3>3 DEF LeaveDir
    <3> QED  BY <1>10, <3>1, <3>2, <3>3
  <2> QED  BY <1>b, <2>1, <2>2
<1>11. ASSUME NEW f \in File, TrashNext(f) PROVE Scanned'
  <2>1. pc = "trash" /\ pc' = pc /\ question = NoQuestion
    BY <1>11 DEF TrashNext, Going
  <2>2. question' = NoQuestion \/ question'.kind \in {"trash", "trashOnly"}
    BY <1>11, <2>1 DEF TrashNext, Ask
  <2> QED  BY <1>b, <2>1, <2>2
<1>12. CASE AnswerTrash
  BY <1>b, <1>12 DEF AnswerTrash, Control
<1>13. CASE Done \/ Cancel \/ UNCHANGED vars
  <2>1. /\ UNCHANGED <<question, list, scanFiles, scanDirs>>
        /\ pc' = "scan" => pc = "scan"
    BY <1>13 DEF Done, Cancel, vars, scanVars
  <2> QED  BY <2>1 DEF Scanned
<1> QED
  BY <1>1, <1>2, <1>3, <1>4, <1>6, <1>7, <1>8, <1>9, <1>10, <1>11, <1>12, <1>13
     DEF Next, Thread, Answer, Retry

\* What a call of delete_file is for, when it is not skipped, is in nothing skipped.
LEMMA NotSkipped ==
  ASSUME TypeOK, Apart, Agreed, Untouched, Stacked(frames, disk),
         NEW g \in File, g \notin skipFiles,
         g \in TopFiles \/ (frames # <<>> /\ g \in frames[1].left)
  PROVE  \A f \in skipFiles : g \notin Under[f]
<1> SUFFICES ASSUME NEW f \in skipFiles, g \in Under[f] PROVE FALSE
  OBVIOUS
<1>1. f \in File /\ TopFiles \subseteq File
  BY FoldersAndTops DEF TypeOK
<1>2. CASE g \in TopFiles
  <2>1. PICK t \in agreed : f \in Under[t]
    BY DEF Untouched
  <2>2. t \in TopFiles /\ g \in Under[t]
    BY <1>1, <2>1, UnderUnder DEF Agreed
  <2>3. g = t
    BY <1>2, <2>2 DEF Apart
  <2> QED  BY <2>1, <2>3, UnderBoth
<1>3. CASE frames # <<>> /\ g \in frames[1].left
  <2>1. 1 \in DOMAIN frames /\ frames[1].dir \in Folder /\ g \in Kids[frames[1].dir]
    BY <1>3, FramesTyped DEF TypeOK, Stacked
  <2>2. frames[1].dir \in Under[f]
    BY <1>1, <2>1, UnderParent
  <2> QED  BY <2>1, <2>2 DEF Untouched
<1> QED  BY <1>2, <1>3

\* What a step does to what was skipped.
LEMMA SkipSteps ==
  ASSUME TypeOK, Control, Scanned, [Next]_vars
  PROVE  \/ UNCHANGED skipFiles
         \/ /\ pc = "scan" /\ UNCHANGED <<disk, frames, agreed>>
            /\ \E x \in File :
                 skipFiles' = skipFiles \cup {x} /\ \E t \in list : x \in Under[t]
<1>1. ASSUME NEW f \in File, ScanFile(f)
      PROVE  UNCHANGED skipFiles \/ \E x \in {f} : skipFiles' = skipFiles \cup {x}
  BY <1>1 DEF ScanFile, ScanFails
<1>2. ASSUME NEW d \in Folder, ScanDir(d)
      PROVE  UNCHANGED skipFiles \/ \E x \in {d} : skipFiles' = skipFiles \cup {x}
  BY <1>2 DEF ScanDir, ScanFails
<1>3. ASSUME NEW f \in File, ScanFile(f)
      PROVE  /\ pc = "scan" /\ UNCHANGED <<disk, frames, agreed>>
             /\ \E t \in list : f \in Under[t]
  <2>1. pc = "scan" /\ f \in scanFiles
    BY <1>3 DEF ScanFile, Scanning, First
  <2> QED  BY <1>3, <2>1 DEF ScanFile, Scanned, fileVars
<1>4. ASSUME NEW d \in Folder, ScanDir(d)
      PROVE  /\ pc = "scan" /\ UNCHANGED <<disk, frames, agreed>> /\ d \in File
             /\ \E t \in list : d \in Under[t]
  <2>1. pc = "scan" /\ d \in scanDirs /\ d \in File
    BY <1>4, FoldersAndTops DEF ScanDir, Scanning
  <2> QED  BY <1>4, <2>1 DEF ScanDir, Scanned, fileVars
<1>5. CASE AnswerInfo
  BY <1>5 DEF AnswerInfo, Control, Scanned, fileVars
<1>6. CASE AnswerReaddir \/ RetryScan \/ ScanDone \/ Start \/ AnswerConfirm
  BY <1>6 DEF AnswerReaddir, RetryScan, ScanDone, Start, AnswerConfirm
<1>7. CASE \E f \in File : DeleteNext(f) \/ DeleteChild(f) \/ TrashNext(f)
  BY <1>7 DEF DeleteNext, DeleteChild, TrashNext, scanVars
<1>8. CASE \/ DeleteDone \/ OpenDir \/ ListBreaks \/ RemoveDir \/ LeaveDir \/ AnswerRemove
           \/ AnswerOpen \/ AnswerList \/ AnswerFolder \/ RetryOpen
  BY <1>8 DEF DeleteDone, OpenDir, ListBreaks, RemoveDir, LeaveDir, AnswerRemove,
    AnswerOpen, AnswerList, AnswerFolder, RetryOpen, scanVars
<1>9. CASE \/ Then \/ AnswerTrash \/ TrashDone \/ Finish \/ Done \/ Cancel
           \/ UNCHANGED vars
  BY <1>9 DEF Then, AnswerTrash, TrashDone, Finish, Done, Cancel, vars, scanVars
<1> QED
  BY <1>1, <1>2, <1>3, <1>4, <1>5, <1>6, <1>7, <1>8, <1>9
     DEF Next, Thread, Answer, Retry

\* What is skipped stays there, and no call begins inside it.
LEMMA NextSkipped ==
  ASSUME TypeOK, Control, Apart, Stacked(frames, disk), GoneWhole, Agreed, Unrelated,
         Untouched, Scanned, StackStep, [Next]_vars, agreed \subseteq agreed'
  PROVE  /\ \A f \in skipFiles' : Under[f] \subseteq disk' /\ \E t \in agreed' : f \in Under[t]
         /\ \A k \in DOMAIN frames' : \A f \in skipFiles' : frames'[k].dir \notin Under[f]
<1>a. frames \in Seq(Frame) /\ skipFiles \in SUBSET File /\ TopFiles \in SUBSET File
  BY FoldersAndTops DEF TypeOK
<1>1. CASE /\ pc = "scan" /\ UNCHANGED <<disk, frames, agreed>>
           /\ \E x \in File : skipFiles' = skipFiles \cup {x} /\ \E t \in list : x \in Under[t]
  <2>1. PICK x \in File : skipFiles' = skipFiles \cup {x} /\ \E t \in list : x \in Under[t]
    BY <1>1
  <2>2. frames' = <<>> /\ list \subseteq agreed
    BY <1>1 DEF Control, Agreed
  <2>3. PICK t \in list : x \in Under[t]
    BY <2>1
  <2>4. t \in File /\ Under[t] \subseteq disk
    BY <1>a, <2>3 DEF TypeOK, Untouched, Waiting
  <2>5. Under[x] \subseteq disk
    BY <2>3, <2>4, UnderUnder
  <2> QED  BY <1>1, <2>1, <2>2, <2>3, <2>5 DEF Untouched
<1>2. CASE UNCHANGED skipFiles
  <2> DEFINE Clear(fs) == \A k \in DOMAIN fs : \A f \in skipFiles : fs[k].dir \notin Under[f]
             There(D) == \A f \in skipFiles : Under[f] \subseteq D
  <2>1. Clear(frames) /\ There(disk) /\ (frames # <<>> => Clear(Tail(frames)))
    BY <1>a, Popped DEF Untouched
  <2>2. ASSUME NEW fs \in Seq(Frame), Clear(fs), NEW gs, Shrinks(fs, gs) PROVE Clear(gs)
    BY <2>2 DEF Shrinks
  \* A file is removed that is in nothing skipped.
  <2>3. ASSUME NEW g \in File, Removes(g), \A f \in skipFiles : g \notin Under[f]
        PROVE  There(disk')
    BY <2>1, <2>3 DEF Removes, Gone
  <2>4. Clear(frames') /\ There(disk')
    <3>1. CASE Still /\ Shrinks(frames, frames')
      BY <1>a, <2>1, <2>2, <3>1 DEF Still
    <3>2. CASE Still /\ Reads
      BY <2>1, <3>2 DEF Still, Reads
    <3>3. CASE Still /\ frames # <<>> /\ Shrinks(Tail(frames), frames')
      BY <1>a, <2>1, <2>2, <3>3, Popped DEF Still
    <3>4. ASSUME NEW g \in File, Still, Enters(g) PROVE Clear(frames') /\ There(disk')
      <4>1. PICK fs \in Seq(Frame) :
               /\ Shrinks(frames, fs) /\ frames' = <<New(g)>> \o fs
               /\ IF frames = <<>> THEN pc = "delete" /\ g \in list
                                   ELSE g \in frames[1].left
        BY <3>4 DEF Enters
      <4>2. New(g) \in Frame /\ New(g).dir = g /\ g \notin skipFiles
        BY <3>4 DEF Enters, New
      <4>3. \A f \in skipFiles : g \notin Under[f]
        BY <4>1, <4>2, NotSkipped DEF TypeOK
      <4>4. Clear(fs)
        BY <1>a, <2>1, <2>2, <4>1
      <4>5. ASSUME NEW k \in DOMAIN frames', NEW f \in skipFiles
            PROVE  frames'[k].dir \notin Under[f]
        <5>1. k = 1 => frames'[k] = New(g)
          BY <4>1, <4>2, Pushed
        <5>2. k # 1 => k - 1 \in DOMAIN fs /\ frames'[k] = fs[k - 1]
          BY <4>1, <4>2, Pushed
        <5> QED  BY <4>2, <4>3, <4>4, <5>1, <5>2
      <4> QED  BY <2>1, <3>4, <4>5 DEF Still
    <3>5. ASSUME NEW g \in File, RemovesTop(g) PROVE Clear(frames') /\ There(disk')
      <4>1. g \in TopFiles /\ g \notin skipFiles /\ Removes(g) /\ frames' = <<>>
        BY <3>5 DEF RemovesTop, TypeOK
      <4> QED  BY <2>3, <4>1, NotSkipped
    <3>6. ASSUME NEW g \in File, RemovesChild(g) PROVE Clear(frames') /\ There(disk')
      <4>1. /\ frames # <<>> /\ g \in frames[1].left /\ g \notin skipFiles /\ Removes(g)
            /\ Shrinks(frames, frames')
        BY <3>6 DEF RemovesChild
      <4>2. Clear(frames')
        BY <1>a, <2>1, <2>2, <4>1
      <4> QED  BY <2>3, <4>1, <4>2, NotSkipped
    <3>7. CASE RemovesDir
      <4>1. frames # <<>> /\ frames' = Tail(frames) /\ Removes(frames[1].dir)
        BY <3>7 DEF RemovesDir
      <4>2. 1 \in DOMAIN frames /\ frames[1].dir \in File
        BY <1>a, <4>1, FramesTyped
      <4> QED  BY <2>1, <2>3, <4>1, <4>2
    <3>8. ASSUME NEW g \in File, Trashes(g) PROVE Clear(frames') /\ There(disk')
      <4>1. /\ g \in list /\ g \in TopFiles /\ g \notin agreed
            /\ disk' = disk \ Under[g] /\ frames' = frames
        BY <3>8 DEF Trashes, TypeOK, Unrelated
      <4>2. ASSUME NEW f \in skipFiles PROVE Under[f] \cap Under[g] = {}
        <5>1. PICK t \in agreed : f \in Under[t]
          BY DEF Untouched
        <5>2. t \in TopFiles /\ t # g
          BY <4>1, <5>1 DEF Agreed
        <5>3. Under[t] \cap Under[g] = {}
          BY <1>a, <4>1, <5>2, UnderApart DEF Apart
        <5> QED  BY <1>a, <5>1, <5>2, <5>3, UnderUnder
      <4> QED  BY <2>1, <4>1, <4>2
    <3> QED  BY <3>1, <3>2, <3>3, <3>4, <3>5, <3>6, <3>7, <3>8 DEF StackStep
  <2>5. \A f \in skipFiles : \E t \in agreed' : f \in Under[t]
    BY DEF Untouched
  <2> QED  BY <1>2, <2>4, <2>5
<1> QED  BY <1>1, <1>2, SkipSteps

\* What waits is all there, and what is at hand is there.
LEMMA NextWaiting ==
  ASSUME TypeOK, Control, Apart, Untouched, TypeOK', HandStep
  PROVE  /\ \A t \in Waiting' : Under[t] \subseteq disk'
         /\ AtHand' \subseteq TopFiles \cap disk' /\ AtHand' \cap Waiting' = {}
<1>a. /\ Waiting \subseteq TopFiles /\ TopFiles \subseteq File
      /\ \A t \in Waiting : Under[t] \subseteq disk
      /\ AtHand \subseteq TopFiles \cap disk /\ AtHand \cap Waiting = {}
  BY FoldersAndTops DEF Untouched, TypeOK, Waiting
<1>b. \A s, t \in TopFiles : s # t => Under[s] \cap Under[t] = {}
  BY <1>a, UnderApart DEF Apart
<1> HIDE DEF Waiting, AtHand
<1>1. CASE Rests
  BY <1>a, <1>1 DEF Rests
<1>2. CASE Opens
  BY <1>2, FoldersAndTops, UnderSelf DEF Opens
<1>3. ASSUME NEW f \in File, Takes(f)
      PROVE  /\ \A t \in Waiting' : Under[t] \subseteq disk'
             /\ AtHand' \subseteq TopFiles \cap disk' /\ AtHand' \cap Waiting' = {}
  <2>1. f \in Waiting /\ f \in Under[f]
    BY <1>3, UnderSelf DEF Takes, Waiting
  <2> QED  BY <1>a, <1>3, <2>1 DEF Takes
<1>4. ASSUME NEW f \in File, Passes(f) \/ Drops(f)
      PROVE  /\ \A t \in Waiting' : Under[t] \subseteq disk'
             /\ AtHand' \subseteq TopFiles \cap disk' /\ AtHand' \cap Waiting' = {}
  BY <1>a, <1>4 DEF Passes, Drops
<1>5. ASSUME NEW f \in File, LosesTop(f)
      PROVE  /\ \A t \in Waiting' : Under[t] \subseteq disk'
             /\ AtHand' \subseteq TopFiles \cap disk' /\ AtHand' \cap Waiting' = {}
  BY <1>a, <1>b, <1>5 DEF LosesTop
<1>6. ASSUME NEW f \in File, LosesIn(f)
      PROVE  /\ \A t \in Waiting' : Under[t] \subseteq disk'
             /\ AtHand' \subseteq TopFiles \cap disk' /\ AtHand' \cap Waiting' = {}
  <2>1. PICK r \in File : AtHand = {r} /\ f \in Under[r]
    BY <1>6 DEF LosesIn
  <2>2. \A t \in Waiting : f \notin Under[t]
    BY <1>a, <1>b, <2>1
  <2> QED  BY <1>a, <1>6, <2>2 DEF LosesIn
<1> QED  BY <1>1, <1>2, <1>3, <1>4, <1>5, <1>6 DEF HandStep

LEMMA TopFinite == IsFiniteSet(TopFiles)
<1>1. Len(Top) \in Nat /\ Top \in [1 .. Len(Top) -> TopFiles]
  BY DeleteAssumption DEF TopFiles, Range
<1>2. \A t \in TopFiles : \E i \in 1 .. Len(Top) : Top[i] = t
  BY DeleteAssumption DEF TopFiles, Range
<1>3. ExistsSurjection(1 .. Len(Top), TopFiles)
  BY <1>1, <1>2 DEF ExistsSurjection, Surjection
<1> QED  BY <1>1, <1>3, FS_NatSurjection

\* Every file that counts as skipped is settled, and still there.
LEMMA NextCounted ==
  ASSUME TypeOK, Control, Apart, Untouched, Counted, TypeOK', HandStep
  PROVE  Counted'
<1>a. /\ skipped \in Nat /\ IsFiniteSet(Settled) /\ IsFiniteSet(Settled')
      /\ Cardinality(Settled) \in Nat /\ Cardinality(Settled') \in Nat
  BY TopFinite, FS_Subset, FS_CardinalityType DEF TypeOK, Settled
<1>b. /\ Waiting \subseteq TopFiles /\ TopFiles \subseteq File
      /\ \A t \in Waiting : Under[t] \subseteq disk
      /\ AtHand \subseteq TopFiles \cap disk /\ AtHand \cap Waiting = {}
  BY FoldersAndTops DEF Untouched, TypeOK, Waiting
<1>c. \A s, t \in TopFiles : s # t => s \notin Under[t]
  BY DEF Apart
<1>d. \A t \in Waiting : t \in disk
  BY <1>b, UnderSelf
<1> HIDE DEF Waiting, AtHand
<1>1. ASSUME skipped' = skipped, Settled \subseteq Settled' PROVE Counted'
  <2>1. Cardinality(Settled) <= Cardinality(Settled')
    BY <1>a, <1>1, FS_Subset
  <2> QED  BY <1>a, <1>1, <2>1 DEF Counted
<1>2. ASSUME NEW f \in File, skipped' = skipped + 1, f \notin Settled,
             Settled \cup {f} \subseteq Settled'
      PROVE  Counted'
  <2>1. Cardinality(Settled \cup {f}) = Cardinality(Settled) + 1
    BY <1>a, <1>2, FS_AddElement
  <2>2. Cardinality(Settled \cup {f}) <= Cardinality(Settled')
    BY <1>a, <1>2, FS_Subset
  <2> QED  BY <1>a, <1>2, <2>1, <2>2 DEF Counted
<1>3. CASE Rests
  BY <1>1, <1>3 DEF Rests, Settled
<1>4. CASE Opens
  BY <1>a, <1>4 DEF Opens, Counted
<1>5. ASSUME NEW f \in File, Takes(f) PROVE Counted'
  <2>1. f \in Waiting
    BY <1>5 DEF Takes, Waiting
  <2> QED  BY <1>1, <1>5, <2>1 DEF Takes, Settled
<1>6. ASSUME NEW f \in File, Passes(f) \/ Drops(f) PROVE Counted'
  BY <1>2, <1>6, <1>b, <1>d DEF Passes, Drops, Settled
<1>7. ASSUME NEW f \in File, LosesTop(f) PROVE Counted'
  <2>1. Settled \subseteq Settled'
    BY <1>7, <1>b, <1>c DEF LosesTop, Settled
  <2> QED  BY <1>1, <1>7, <2>1 DEF LosesTop
<1>8. ASSUME NEW f \in File, LosesIn(f) PROVE Counted'
  <2>1. PICK r \in File : AtHand = {r} /\ f \in Under[r]
    BY <1>8 DEF LosesIn
  <2>2. f \notin Settled
    BY <1>b, <1>c, <2>1 DEF Settled
  <2>3. Settled \subseteq Settled'
    BY <1>8, <2>2 DEF LosesIn, Settled
  <2> QED  BY <1>1, <1>8, <2>3 DEF LosesIn
<1> QED  BY <1>3, <1>4, <1>5, <1>6, <1>7, <1>8 DEF HandStep

LEMMA InitSkipped == Init => Untouched /\ Scanned /\ Counted
<1> SUFFICES ASSUME Init PROVE Untouched /\ Scanned /\ Counted
  OBVIOUS
<1>1. Waiting = {} /\ AtHand = {} /\ question.kind = "none"
  BY DEF Init, Waiting, AtHand, Root, NoQuestion
<1>2. Untouched /\ Scanned
  BY <1>1 DEF Init, Untouched, Scanned
<1>3. IsFiniteSet(Settled) /\ skipped = 0
  BY TopFinite, FS_Subset DEF Init, Settled
<1> QED  BY <1>2, <1>3, FS_CardinalityType DEF Counted

LEMMA NextUntouched ==
  ASSUME JobInv, JobInv', Apart, Untouched, Scanned, Counted, [Next]_vars
  PROVE  Untouched' /\ Counted'
<1> USE DEF JobInv
<1>1. StackStep /\ HandStep /\ agreed \subseteq agreed'
  BY StackSteps, ListSteps, HandSteps, NextAgreed
<1>2. Counted'
  BY <1>1, NextCounted
<1>3. /\ \A f \in skipFiles' : Under[f] \subseteq disk' /\ \E t \in agreed' : f \in Under[t]
      /\ \A k \in DOMAIN frames' : \A f \in skipFiles' : frames'[k].dir \notin Under[f]
  BY <1>1, NextSkipped
<1>4. /\ \A t \in Waiting' : Under[t] \subseteq disk'
      /\ AtHand' \subseteq TopFiles \cap disk' /\ AtHand' \cap Waiting' = {}
  BY <1>1, NextWaiting
<1> QED  BY <1>2, <1>3, <1>4 DEF Untouched

\* When nothing chosen is inside something chosen, what the user skipped in the scan
\* stays whole, though the job goes on to delete what is around it, and no more files
\* count as skipped than are left: a job that ends with the count of its files, and
\* so as cancelled, has removed none of them.
THEOREM SkippedStays == Spec => []SkippedNotGone
<1>1. JobInv /\ Untouched /\ Counted => SkippedNotGone
  <2> SUFFICES ASSUME JobInv, Untouched, Counted, Apart PROVE SkippedNotGone
    BY DEF SkippedNotGone
  <2>1. /\ skipped \in Nat /\ IsFiniteSet(TopFiles \cap disk)
        /\ Settled \subseteq TopFiles \cap disk
    BY TopFinite, FS_Subset DEF JobInv, TypeOK, Settled
  <2>2. /\ Cardinality(Settled) <= Cardinality(TopFiles \cap disk)
        /\ Cardinality(Settled) \in Nat /\ Cardinality(TopFiles \cap disk) \in Nat
    BY <2>1, FS_Subset, FS_CardinalityType
  <2> QED  BY <2>1, <2>2 DEF SkippedNotGone, Untouched, Counted
<1>2. JobInv /\ Scanned /\ [Next]_vars => Scanned'
  BY NextScanned DEF JobInv
<1>3. ~Apart => SkippedNotGone
  BY DEF SkippedNotGone
<1>4. CASE Apart
  <2>1. Init => JobInv /\ Untouched /\ Scanned /\ Counted
    BY InitJob, InitSkipped
  <2>2. JobInv /\ Untouched /\ Scanned /\ Counted /\ [Next]_vars
          => (JobInv /\ Untouched /\ Scanned /\ Counted)'
    BY <1>2, <1>4, NextJob, NextUntouched
  <2> QED  BY <1>1, <2>1, <2>2, PTL DEF Spec
<1>5. CASE ~Apart
  BY <1>3, <1>5, PTL
<1> QED  BY <1>4, <1>5

=============================================================================
