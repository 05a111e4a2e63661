---------------------------- MODULE Changes_proofs ----------------------------
(***************************************************************************)
(* What happens to files on its way to the views: through the queue of the *)
(* jobs and monitors, which keeps the order and loses nothing, for any     *)
(* changes, jobs, folders and bound on the chunk; and through the folder,  *)
(* whose objects and rows stay those of living files, for any files, views *)
(* and bounds.                                                             *)
(***************************************************************************)
EXTENDS FileChangesQueue, DirectoryChanges, SequenceTheorems, TLAPS

-----------------------------------------------------------------------------
(* The queue.  TypeOK, OneList, InOrder and JobHeard are inductive once    *)
(* two facts are added: outside consume_changes its lists are empty, and   *)
(* what a job did last has arrived.                                        *)

ListsEmptyOutside == ~consuming => lists = Empty
LastArrived == \A t \in Job : last[t] <= Len(arrived)

IInv ==
  TypeOK /\ OneList /\ InOrder /\ ListsEmptyOutside /\ LastArrived /\ JobHeard

USE FileChangesAssumption

-----------------------------------------------------------------------------
(* Sequences *)

LEMMA HeadTail ==
  ASSUME NEW S, NEW q \in Seq(S), q # <<>>
  PROVE  /\ Head(q) \in S /\ Tail(q) \in Seq(S)
         /\ q = <<Head(q)>> \o Tail(q)
<1>1. Head(q) \in S /\ Tail(q) \in Seq(S) /\ Len(Tail(q)) = Len(q) - 1
  BY HeadTailProperties
<1>2. \A i \in 1 .. Len(Tail(q)) : Tail(q)[i] = q[i + 1]
  BY HeadTailProperties
<1>3. <<Head(q)>> \o Tail(q) \in Seq(S) /\ Len(<<Head(q)>> \o Tail(q)) = Len(q)
  BY <1>1
<1>4. \A i \in 1 .. Len(q) : (<<Head(q)>> \o Tail(q))[i] = q[i]
  BY <1>1, <1>2
<1> QED  BY <1>1, <1>3, <1>4, SeqEqual

LEMMA MoveOver ==
  \A a, b, t \in Seq(Change), c \in Change :
    (a \o b) \o (<<c>> \o t) = (a \o Append(b, c)) \o t
<1> SUFFICES ASSUME NEW a \in Seq(Change), NEW b \in Seq(Change),
                    NEW t \in Seq(Change), NEW c \in Change
             PROVE  (a \o b) \o (<<c>> \o t) = (a \o Append(b, c)) \o t
  OBVIOUS
<1>1. <<c>> \in Seq(Change) /\ a \o b \in Seq(Change) /\ b \o <<c>> = Append(b, c)
  OBVIOUS
<1>2. (a \o b) \o (<<c>> \o t) = ((a \o b) \o <<c>>) \o t
  BY <1>1, ConcatAssociative
<1>3. (a \o b) \o <<c>> = a \o (b \o <<c>>)
  BY <1>1, ConcatAssociative
<1> QED  BY <1>1, <1>2, <1>3

LEMMA AppendRight ==
  \A a, q \in Seq(Change), c \in Change : Append(a \o q, c) = a \o Append(q, c)
<1> SUFFICES ASSUME NEW a \in Seq(Change), NEW q \in Seq(Change), NEW c \in Change
             PROVE  Append(a \o q, c) = a \o Append(q, c)
  OBVIOUS
<1> QED  OBVIOUS

LEMMA PrefixOfConcat ==
  ASSUME NEW S, NEW a \in Seq(S), NEW b \in Seq(S)
  PROVE  a = SubSeq(a \o b, 1, Len(a)) /\ Len(a \o b) = Len(a) + Len(b)
  OBVIOUS

(* The lists of consume_changes *)

LEMMA EmptyInTurn == InTurn(Empty) = <<>> /\ Empty \in [Kinds -> Seq(Change)]
  BY DEF InTurn, Empty, Kinds

LEMMA OneInTurn ==
  ASSUME NEW k \in Kinds, NEW s \in Seq(Change)
  PROVE  /\ InTurn([Empty EXCEPT ![k] = s]) = s
         /\ [Empty EXCEPT ![k] = s] \in [Kinds -> Seq(Change)]
<1> DEFINE l == [Empty EXCEPT ![k] = s]
<1>1. l \in [Kinds -> Seq(Change)] /\ l[k] = s /\ \A j \in Kinds \ {k} : l[j] = <<>>
  <2>1. Empty \in [Kinds -> Seq(Change)] /\ \A j \in Kinds : Empty[j] = <<>>
    BY EmptyInTurn DEF Empty
  <2> QED  BY <2>1
<1>2. CASE k = "removed"  BY <1>1, <1>2 DEF InTurn, Kinds
<1>3. CASE k = "moved"    BY <1>1, <1>3 DEF InTurn, Kinds
<1>4. CASE k = "added"    BY <1>1, <1>4 DEF InTurn, Kinds
<1>5. CASE k = "changed"  BY <1>1, <1>5 DEF InTurn, Kinds
<1> QED  BY <1>1, <1>2, <1>3, <1>4, <1>5 DEF Kinds

\* If no flush is needed, all that is in the lists is of the kind of the change.
LEMMA SameKind ==
  ASSUME TypeOK, NEW c \in Change, ~FlushNeeded(c)
  PROVE  lists = [Empty EXCEPT ![Kind[c]] = lists[Kind[c]]]
<1>1. Kind[c] \in Kinds  OBVIOUS
<1>2. \A k \in Kinds : k # Kind[c] => lists[k] = <<>>
  BY DEF FlushNeeded
<1> QED  BY <1>1, <1>2 DEF TypeOK, Empty

-----------------------------------------------------------------------------
LEMMA InitIInv == Init => IInv
<1> SUFFICES ASSUME Init PROVE IInv
  OBVIOUS
<1>1. TypeOK
  <2>1. <<>> \in Seq(Change) /\ Empty \in [Kinds -> Seq(Change)]
    BY EmptyInTurn, EmptySeq
  <2>2. /\ job \in [Job -> {"working", "ended", "over"}]
        /\ last \in [Job -> Nat] /\ chunk \in 0 .. MaxChunk
    BY DEF Init
  <2> QED  BY <2>1, <2>2 DEF Init, TypeOK
<1>2. Pending = <<>>
  BY EmptyInTurn DEF Init, Pending
<1>3. OneList /\ InOrder /\ ListsEmptyOutside
  BY <1>2 DEF Init, OneList, InOrder, ListsEmptyOutside, Empty
<1>4. LastArrived /\ JobHeard
  BY DEF Init, LastArrived, JobHeard
<1> QED  BY <1>1, <1>3, <1>4 DEF IInv

LEMMA PendingType == ASSUME TypeOK PROVE Pending \in Seq(Change)
<1>1. /\ lists["removed"] \in Seq(Change) /\ lists["moved"] \in Seq(Change)
      /\ lists["added"] \in Seq(Change) /\ lists["changed"] \in Seq(Change)
  BY DEF TypeOK, Kinds
<1> QED  BY <1>1 DEF Pending, InTurn

\* A change is put in, by a job or by a monitor.
LEMMA AddKeepsOrder ==
  ASSUME TypeOK, InOrder, NEW c \in Change, Add(c), UNCHANGED <<lists, sent>>
  PROVE  /\ queue' \in Seq(Change) /\ arrived' \in Seq(Change)
         /\ Len(arrived') = Len(arrived) + 1
         /\ InOrder'
<1>1. queue' \in Seq(Change) /\ arrived' \in Seq(Change) /\ Len(arrived') = Len(arrived) + 1
  BY DEF TypeOK, Add
<1>2. Pending' = Pending /\ sent \o Pending \in Seq(Change)
  BY PendingType DEF Pending, TypeOK
<1>3. Append((sent \o Pending) \o queue, c) = (sent \o Pending) \o Append(queue, c)
  <2>1. queue \in Seq(Change)
    BY DEF TypeOK
  <2> QED  BY <1>2, <2>1, AppendRight, Zenon
<1> QED  BY <1>1, <1>2, <1>3 DEF InOrder, Add

\* consume_changes is called.
LEMMA BeginKeeps ==
  ASSUME IInv, Begin, UNCHANGED <<queue, arrived, sent, last>>
  PROVE  /\ all' \in BOOLEAN /\ chunk' \in 0 .. MaxChunk
         /\ lists' \in [Kinds -> Seq(Change)] /\ consuming'
         /\ OneList' /\ InOrder' /\ ListsEmptyOutside' /\ LastArrived'
<1>1. lists' = lists
  BY DEF IInv, Begin, ListsEmptyOutside
<1>2. Pending' = Pending
  BY <1>1 DEF Pending
<1> QED  BY <1>1, <1>2
  DEF IInv, TypeOK, Begin, OneList, InOrder, ListsEmptyOutside, LastArrived

\* The last lists are sent off.
LEMMA ReturnKeeps == ASSUME IInv, Return PROVE IInv'
<1>1. Pending \in Seq(Change)
  BY PendingType DEF IInv
<1>2. Pending' = <<>>
  BY EmptyInTurn DEF Return, Pending
<1>3. TypeOK'
  <2>1. sent \o Pending \in Seq(Change) /\ Empty \in [Kinds -> Seq(Change)]
    BY <1>1, EmptyInTurn DEF IInv, TypeOK
  <2> QED  BY <2>1 DEF IInv, TypeOK, Return
<1>4. OneList' /\ ListsEmptyOutside' /\ LastArrived'
  BY DEF IInv, Return, OneList, ListsEmptyOutside, LastArrived, Empty
<1>5. sent' = arrived'
  BY <1>1 DEF IInv, TypeOK, InOrder, Return
<1>6. InOrder'
  BY <1>2, <1>3, <1>5 DEF InOrder, Return, TypeOK
<1>7. JobHeard'
  BY <1>4, <1>5 DEF JobHeard, LastArrived
<1> QED  BY <1>3, <1>4, <1>6, <1>7 DEF IInv

\* One turn of the loop.
LEMMA TakeKeeps == ASSUME IInv, Take PROVE IInv'
<1> DEFINE c == Head(queue)
           k == Kind[c]
<1>1. /\ c \in Change /\ k \in Kinds /\ Tail(queue) \in Seq(Change)
      /\ queue = <<c>> \o Tail(queue)
  BY HeadTail DEF IInv, TypeOK, Take
<1>2. sent \in Seq(Change) /\ Pending \in Seq(Change) /\ sent \o Pending \in Seq(Change)
  BY PendingType DEF IInv, TypeOK
<1>3. arrived = (sent \o Pending) \o (<<c>> \o Tail(queue))
  BY <1>1 DEF IInv, InOrder
<1>4. chunk' \in 0 .. MaxChunk
  BY DEF IInv, TypeOK, Take
<1>5. LastArrived' /\ ListsEmptyOutside' /\ JobHeard'
  BY DEF IInv, Take, LastArrived, ListsEmptyOutside, JobHeard
<1>6. CASE FlushNeeded(c)
  <2>1. sent' = sent \o Pending /\ lists' = [Empty EXCEPT ![k] = <<c>>] /\ queue' = Tail(queue)
    BY <1>6 DEF Take
  <2>2. Pending' = <<c>> /\ lists' \in [Kinds -> Seq(Change)]
    <3>1. <<c>> \in Seq(Change)
      BY <1>1
    <3>2. \A s \in Seq(Change) : /\ InTurn([Empty EXCEPT ![k] = s]) = s
                                 /\ [Empty EXCEPT ![k] = s] \in [Kinds -> Seq(Change)]
      BY <1>1, OneInTurn
    <3> QED  BY <2>1, <3>1, <3>2, Zenon DEF Pending
  <2>3. TypeOK'
    BY <1>1, <1>2, <1>4, <2>1, <2>2 DEF IInv, TypeOK, Take
  <2>4. OneList'
    BY <1>1, <2>1 DEF OneList, Empty
  <2>5. (sent \o Pending) \o (<<c>> \o Tail(queue)) = ((sent \o Pending) \o <<c>>) \o Tail(queue)
    BY <1>1, <1>2
  <2>6. InOrder'
    BY <1>3, <2>1, <2>2, <2>5 DEF InOrder, Take
  <2> QED  BY <1>5, <2>3, <2>4, <2>6 DEF IInv
<1>7. CASE ~FlushNeeded(c)
  <2>1. lists' = [lists EXCEPT ![k] = Append(lists[k], c)] /\ sent' = sent /\ queue' = Tail(queue)
    BY <1>7 DEF Take
  <2>2. lists = [Empty EXCEPT ![k] = lists[k]]
    BY <1>1, <1>7, SameKind DEF IInv
  <2>3. lists[k] \in Seq(Change) /\ Append(lists[k], c) \in Seq(Change)
    BY <1>1 DEF IInv, TypeOK
  <2>4. lists' = [Empty EXCEPT ![k] = Append(lists[k], c)]
    BY <1>1, <2>1, <2>2, <2>3 DEF Empty
  <2>5. Pending = lists[k]
    BY <1>1, <2>2, <2>3, OneInTurn DEF Pending
  <2>6. Pending' = Append(lists[k], c) /\ lists' \in [Kinds -> Seq(Change)]
    BY <1>1, <2>3, <2>4, OneInTurn DEF Pending
  <2>7. TypeOK'
    BY <1>1, <1>4, <2>1, <2>6 DEF IInv, TypeOK, Take
  <2>8. OneList'
    BY <1>1, <2>4 DEF OneList, Empty
  <2>9. (sent \o Pending) \o (<<c>> \o Tail(queue)) = (sent \o Append(Pending, c)) \o Tail(queue)
    BY <1>1, <1>2, MoveOver, ZenonT(40)
  <2>10. InOrder'
    BY <1>3, <2>1, <2>5, <2>6, <2>9 DEF InOrder, Take
  <2> QED  BY <1>5, <2>7, <2>8, <2>10 DEF IInv
<1> QED  BY <1>6, <1>7

LEMMA NextIInv == IInv /\ [Next]_vars => IInv'
<1> SUFFICES ASSUME IInv, [Next]_vars PROVE IInv'
  OBVIOUS
<1>1. ASSUME NEW t \in Job, NEW c \in Change, JobReports(t, c) PROVE IInv'
  <2>1. /\ queue' \in Seq(Change) /\ arrived' \in Seq(Change)
        /\ Len(arrived') = Len(arrived) + 1 /\ InOrder'
    BY <1>1, AddKeepsOrder DEF IInv, JobReports
  <2>2. Len(arrived) \in Nat
    BY DEF IInv, TypeOK
  <2>3. TypeOK'
    BY <1>1, <2>1, <2>2 DEF IInv, TypeOK, JobReports
  <2>4. LastArrived'
    BY <1>1, <2>1, <2>2 DEF IInv, TypeOK, LastArrived, JobReports
  <2>5. OneList' /\ ListsEmptyOutside'
    BY <1>1 DEF IInv, OneList, ListsEmptyOutside, JobReports
  <2>6. JobHeard'
    BY <1>1 DEF IInv, TypeOK, JobHeard, JobReports
  <2> QED  BY <2>1, <2>3, <2>4, <2>5, <2>6 DEF IInv
<1>2. ASSUME NEW t \in Job, JobEnds(t) PROVE IInv'
  <2>1. UNCHANGED <<queue, lists, chunk, all, consuming, idle, arrived, sent, last>>
    BY <1>2 DEF JobEnds
  <2>2. TypeOK' /\ JobHeard'
    BY <1>2, <2>1 DEF IInv, TypeOK, JobHeard, JobEnds
  <2>3. OneList' /\ InOrder' /\ ListsEmptyOutside' /\ LastArrived'
    BY <2>1 DEF IInv, OneList, InOrder, Pending, ListsEmptyOutside, LastArrived
  <2> QED  BY <2>2, <2>3 DEF IInv
<1>3. ASSUME NEW d \in Dir, NEW c \in Change, MonitorReports(d, c) PROVE IInv'
  <2>1. /\ queue' \in Seq(Change) /\ arrived' \in Seq(Change)
        /\ Len(arrived') = Len(arrived) + 1 /\ InOrder'
    BY <1>3, AddKeepsOrder DEF IInv, MonitorReports
  <2>2. TypeOK' /\ LastArrived' /\ JobHeard'
    BY <1>3, <2>1 DEF IInv, TypeOK, LastArrived, JobHeard, MonitorReports
  <2>3. OneList' /\ ListsEmptyOutside'
    BY <1>3 DEF IInv, OneList, ListsEmptyOutside, MonitorReports
  <2> QED  BY <2>1, <2>2, <2>3 DEF IInv
<1>4. ASSUME NEW d \in Dir, ClearDirectory(d) PROVE IInv'
  BY <1>4 DEF IInv, TypeOK, OneList, InOrder, Pending, ListsEmptyOutside,
              LastArrived, JobHeard, ClearDirectory
<1>5. ASSUME NEW d \in Dir, IdleConsume(d) PROVE IInv'
  <2>1. /\ all' \in BOOLEAN /\ chunk' \in 0 .. MaxChunk
        /\ lists' \in [Kinds -> Seq(Change)] /\ consuming'
        /\ OneList' /\ InOrder' /\ ListsEmptyOutside' /\ LastArrived'
    BY <1>5, BeginKeeps DEF IdleConsume
  <2>2. TypeOK' /\ JobHeard'
    BY <1>5, <2>1 DEF IInv, TypeOK, JobHeard, IdleConsume
  <2> QED  BY <2>1, <2>2 DEF IInv
<1>6. ASSUME NEW t \in Job, JobDone(t) PROVE IInv'
  <2>1. /\ all' \in BOOLEAN /\ chunk' \in 0 .. MaxChunk
        /\ lists' \in [Kinds -> Seq(Change)] /\ consuming'
        /\ OneList' /\ InOrder' /\ ListsEmptyOutside' /\ LastArrived'
    BY <1>6, BeginKeeps DEF JobDone
  <2>2. TypeOK' /\ JobHeard'
    BY <1>6, <2>1 DEF IInv, TypeOK, JobHeard, JobDone
  <2> QED  BY <2>1, <2>2 DEF IInv
<1>7. CASE Take  BY <1>7, TakeKeeps
<1>8. CASE Return  BY <1>8, ReturnKeeps
<1>9. CASE UNCHANGED vars
  BY <1>9 DEF IInv, TypeOK, OneList, InOrder, Pending, ListsEmptyOutside,
              LastArrived, JobHeard, vars
<1> QED  BY <1>1, <1>2, <1>3, <1>4, <1>5, <1>6, <1>7, <1>8, <1>9 DEF Next, MainLoop

LEMMA Invariance == Spec => []IInv
<1> QED  BY InitIInv, NextIInv, PTL DEF Spec

-----------------------------------------------------------------------------
\* The variables keep their types.
THEOREM TypeCorrect == Spec => []TypeOK
<1>1. IInv => TypeOK  BY DEF IInv
<1> QED  BY <1>1, Invariance, PTL

\* consume_changes has changes in at most one of its lists.
THEOREM OneListAtATime == Spec => []OneList
<1>1. IInv => OneList  BY DEF IInv
<1> QED  BY <1>1, Invariance, PTL

\* No change is lost, doubled or overtaken.
THEOREM OrderKept == Spec => []InOrder
<1>1. IInv => InOrder  BY DEF IInv
<1> QED  BY <1>1, Invariance, PTL

\* After a job's callback the views have heard of all the job did.
THEOREM JobsAreHeard == Spec => []JobHeard
<1>1. IInv => JobHeard  BY DEF IInv
<1> QED  BY <1>1, Invariance, PTL

\* A step that sends something off is a step of the promise.
LEMMA SendingHears ==
  ASSUME NEW b \in Seq(Change), NEW r \in Seq(Change), sent \in Seq(Change),
         arrived = (sent \o b) \o r, sent' = sent \o b, UNCHANGED arrived
  PROVE  [Delivery!Next]_<<arrived, sent>>
<1>1. CASE b = <<>>
  <2>1. sent' = sent  BY <1>1
  <2> QED  BY <2>1
<1>2. CASE b # <<>>
  <2>1. sent' \in Seq(Change) /\ Len(sent') = Len(sent) + Len(b) /\ Len(b) > 0
    BY <1>2
  <2>2. sent' = SubSeq(arrived, 1, Len(sent')) /\ Len(arrived) = Len(sent') + Len(r)
    BY <2>1, PrefixOfConcat
  <2>3. Len(sent') \in (Len(sent) + 1) .. Len(arrived)
    BY <2>1, <2>2
  <2>4. Delivery!Hear
    BY <2>2, <2>3 DEF Delivery!Hear
  <2> QED  BY <2>4 DEF Delivery!Next
<1> QED  BY <1>1, <1>2

\* The queue keeps the promise of OrderedDelivery.
THEOREM Implements == Spec => DeliverySpec
<1>1. Init => Delivery!Init
  BY DEF Init, Delivery!Init
<1>2. IInv /\ [Next]_vars => [Delivery!Next]_<<arrived, sent>>
  <2> SUFFICES ASSUME IInv, [Next]_vars PROVE [Delivery!Next]_<<arrived, sent>>
    OBVIOUS
  <2>1. ASSUME NEW t \in Job, NEW c \in Change, JobReports(t, c)
        PROVE  [Delivery!Next]_<<arrived, sent>>
    BY <2>1 DEF JobReports, Add, Delivery!Next, Delivery!Arrive
  <2>2. ASSUME NEW d \in Dir, NEW c \in Change, MonitorReports(d, c)
        PROVE  [Delivery!Next]_<<arrived, sent>>
    BY <2>2 DEF MonitorReports, Add, Delivery!Next, Delivery!Arrive
  <2>3. CASE Take
    <3>1. Pending \in Seq(Change) /\ queue \in Seq(Change) /\ sent \in Seq(Change)
      BY PendingType DEF IInv, TypeOK
    <3>2. CASE FlushNeeded(Head(queue))
      BY <2>3, <3>1, <3>2, SendingHears DEF Take, IInv, InOrder
    <3>3. CASE ~FlushNeeded(Head(queue))
      BY <2>3, <3>3 DEF Take
    <3> QED  BY <3>2, <3>3
  <2>4. CASE Return
    <3>1. Pending \in Seq(Change) /\ queue \in Seq(Change) /\ sent \in Seq(Change)
      BY PendingType DEF IInv, TypeOK
    <3> QED  BY <2>4, <3>1, SendingHears DEF Return, IInv, InOrder
  <2>5. ASSUME NEW t \in Job, JobEnds(t) \/ JobDone(t)
        PROVE  UNCHANGED <<arrived, sent>>
    BY <2>5 DEF JobEnds, JobDone
  <2>6. ASSUME NEW d \in Dir, ClearDirectory(d) \/ IdleConsume(d)
        PROVE  UNCHANGED <<arrived, sent>>
    BY <2>6 DEF ClearDirectory, IdleConsume
  <2>7. CASE UNCHANGED vars
    BY <2>7 DEF vars
  <2> QED  BY <2>1, <2>2, <2>3, <2>4, <2>5, <2>6, <2>7 DEF Next, MainLoop
<1> QED  BY <1>1, <1>2, Invariance, PTL DEF Spec, DeliverySpec, Delivery!Spec

-----------------------------------------------------------------------------
(* The folder.  A removed object that is still around is held by queries   *)
(* only: the maps, the cache and the views have let it go, and no name is  *)
(* given an object that is in use.                                         *)

Number == 0 .. MaxObjects
Query == [object : Object, kind : EventKinds, read : BOOLEAN, got : Version]
Listing == [pc : {"none", "reading", "batch", "last"}, found : [File -> Version]]

FolderTypeOK ==
  /\ disk \in [File -> Version] /\ ops \in 0 .. MaxOps
  /\ listing \in Listing
  /\ handlers \in Nat /\ events \in Seq(FileChange)
  /\ stored \in Seq(FileChange) /\ changes \in Seq(FileChange)
  /\ shown \subseteq View /\ listening \subseteq shown /\ reload \subseteq shown

FilesTyped(s) ==
  /\ s.hash \in [File -> Number] /\ s.cache \in [File -> Number]
  /\ s.info \in [Object -> Version] /\ s.gone \subseteq Object
  /\ s.rows \in [View -> SUBSET Object] /\ s.queries \in Seq(Query)

\* What is gone is in no map and in no view.
Alive(s) ==
  /\ \A f \in File : <<f, s.hash[f]>> \notin s.gone /\ <<f, s.cache[f]>> \notin s.gone
  /\ \A v \in View : s.rows[v] \cap s.gone = {}

OneRow(s) == \A v \in View : \A o \in s.rows[v] : s.hash[o[1]] = o[2]
RowsOf(s, vs) == \A v \in View \ vs : s.rows[v] = {}

Sound(s, vs, clean) ==
  FilesTyped(s) /\ Alive(s) /\ RowsOf(s, vs) /\ (clean => OneRow(s))

\* Who still holds what is gone.
GoneAsked(s) == s.gone \subseteq {q.object : q \in Range(s.queries)}

Clean == mishaps \cap {"doubled", "shared"} = {}

FilesOK == Sound(Files(queries), shown, Clean) /\ GoneAsked(Files(queries))

FolderIInv == FolderTypeOK /\ FilesOK

-----------------------------------------------------------------------------
(* Objects                                                                 *)

LEMMA NumberType ==
  /\ MaxObjects \in Nat
  /\ \A o \in Object : o[1] \in File /\ o[2] \in Number /\ o[2] # 0 /\ o = <<o[1], o[2]>>
  /\ \A f \in File, k \in Number : k # 0 => <<f, k>> \in Object
<1>1. MaxOps \in Nat
  BY ChangesAssumption
<1> QED  BY <1>1 DEF MaxObjects, Number, Object

LEMMA NewIsFree ==
  ASSUME NEW s, FilesTyped(s), GoneAsked(s), Fits(s), NEW f \in File
  PROVE  /\ New(s, f) = <<f, New(s, f)[2]>> /\ New(s, f)[2] \in Number \ {0}
         /\ New(s, f) \notin s.gone /\ \A v \in View : New(s, f) \notin s.rows[v]
<1> DEFINE k == CHOOSE n \in 1 .. MaxObjects : <<f, n>> \notin InUse(s)
<1>1. k \in 1 .. MaxObjects /\ <<f, k>> \notin InUse(s)
  BY DEF Fits
<1>2. New(s, f) = <<f, k>>
  BY DEF New
<1> HIDE DEF k
<1>3. k \in Number \ {0}
  BY <1>1, NumberType DEF Number
<1>4. <<f, k>> \notin s.gone
  <2>1. <<f, k>> \notin {q.object : q \in Range(s.queries)}
    BY <1>1 DEF InUse
  <2> QED  BY <2>1 DEF GoneAsked
<1>5. \A v \in View : <<f, k>> \notin s.rows[v]
  BY <1>1 DEF InUse
<1> QED  BY <1>2, <1>3, <1>4, <1>5

\* Freeing what nothing refers to leaves what is gone to the queries.
LEMMA BecomeSound ==
  ASSUME NEW s, NEW vs, NEW clean, Sound(s, vs, clean), Become(s)
  PROVE  Sound(Files(queries)', vs, clean) /\ GoneAsked(Files(queries)')
<1>1. /\ hash' = s.hash /\ cache' = s.cache /\ rows' = s.rows /\ queries' = s.queries
      /\ info' = [o \in Object |-> IF o \in InUse(s) THEN s.info[o] ELSE 0]
      /\ gone' = s.gone \cap InUse(s)
  BY DEF Become
<1> DEFINE t == Files(queries)'
<1>2. /\ t.hash = s.hash /\ t.cache = s.cache /\ t.rows = s.rows /\ t.queries = s.queries
      /\ t.info = info' /\ t.gone = gone'
  BY <1>1 DEF Files
<1> HIDE DEF t
<1>3. info' \in [Object -> Version]
  <2>1. 0 \in Version
    BY ChangesAssumption DEF Version
  <2> QED  BY <1>1, <2>1 DEF Sound, FilesTyped
<1>4. FilesTyped(t) /\ Alive(t) /\ RowsOf(t, vs) /\ (clean => OneRow(t))
  BY <1>1, <1>2, <1>3 DEF Sound, FilesTyped, Alive, RowsOf, OneRow
<1>5. GoneAsked(t)
  <2>1. SUFFICES ASSUME NEW o \in s.gone, o \in InUse(s)
                 PROVE  o \in {q.object : q \in Range(s.queries)}
    BY <1>1, <1>2 DEF GoneAsked
  <2>2. o \in Object /\ o = <<o[1], o[2]>> /\ o[1] \in File
    BY NumberType DEF Sound, FilesTyped
  <2>3. s.hash[o[1]] # o[2] /\ s.cache[o[1]] # o[2] /\ \A v \in View : o \notin s.rows[v]
    BY <2>2 DEF Sound, Alive
  <2>4. o \notin UNION {s.rows[v] : v \in View}
    BY <2>3
  <2>5. o \notin {p \in Object : s.hash[p[1]] = p[2] \/ s.cache[p[1]] = p[2]}
    BY <2>3
  <2> QED  BY <2>1, <2>4, <2>5 DEF InUse
<1> QED  BY <1>4, <1>5 DEF Sound, t

LEMMA FindOrInsertSound ==
  ASSUME NEW s, NEW vs, NEW clean, Sound(s, vs, clean), GoneAsked(s), Fits(s),
         NEW f \in File, NEW update \in BOOLEAN
  PROVE  /\ Sound(FindOrInsert(s, f, update), vs, clean)
         /\ Known(FindOrInsert(s, f, update), f) \in Number \ {0}
         /\ FindOrInsert(s, f, update).gone = s.gone
<1> DEFINE k == IF Known(s, f) = 0 THEN New(s, f)[2] ELSE Known(s, f)
           t == [s EXCEPT !.hash[f] = k]
<1>0. FilesTyped(s) /\ s.hash[f] \in Number /\ s.cache[f] \in Number
  BY DEF Sound, FilesTyped
<1>1. CASE ~ (update \/ Known(s, f) = 0)
  BY <1>0, <1>1 DEF FindOrInsert, Known
<1>2. CASE update \/ Known(s, f) = 0
  <2>1. /\ k \in Number \ {0} /\ <<f, k>> \notin s.gone
        /\ s.hash[f] = 0 \/ s.hash[f] = k
    BY <1>0, NewIsFree DEF Known, Sound, Alive
  <2>2. FindOrInsert(s, f, update) = t
    BY <1>2 DEF FindOrInsert
  <2> HIDE DEF k
  <2>3. /\ t.hash = [s.hash EXCEPT ![f] = k] /\ t.cache = s.cache /\ t.info = s.info
        /\ t.gone = s.gone /\ t.rows = s.rows /\ t.queries = s.queries
    OBVIOUS
  <2> HIDE DEF t
  <2>4. /\ t.hash \in [File -> Number] /\ t.hash[f] = k
        /\ \A g \in File \ {f} : t.hash[g] = s.hash[g]
    BY <1>0, <2>1, <2>3 DEF FilesTyped
  <2>5. FilesTyped(t) /\ Alive(t) /\ RowsOf(t, vs)
    BY <1>0, <2>1, <2>3, <2>4 DEF Sound, FilesTyped, Alive, RowsOf
  <2>6. ASSUME clean PROVE OneRow(t)
    <3>1. SUFFICES ASSUME NEW v \in View, NEW o \in s.rows[v] PROVE t.hash[o[1]] = o[2]
      BY <2>3 DEF OneRow
    <3>2. s.hash[o[1]] = o[2] /\ o \in Object
      BY <1>0, <2>6 DEF Sound, OneRow, FilesTyped
    <3>3. o[1] \in File /\ o[2] # 0
      BY <3>2, NumberType
    <3> QED  BY <2>1, <2>4, <3>2, <3>3
  <2>7. Known(t, f) = k
    BY <2>1, <2>4 DEF Known
  <2> QED  BY <2>1, <2>2, <2>3, <2>5, <2>6, <2>7 DEF Sound
<1> QED  BY <1>1, <1>2

LEMMA AskSound ==
  ASSUME NEW s, NEW vs, NEW clean, Sound(s, vs, clean), NEW f \in File,
         NEW kind \in EventKinds, Known(s, f) \in Number \ {0}
  PROVE  Sound(Ask(s, f, kind), vs, clean)
<1> DEFINE q == [object |-> <<f, Known(s, f)>>, kind |-> kind, read |-> FALSE, got |-> 0]
           t == Ask(s, f, kind)
<1>1. q \in Query
  <2>1. <<f, Known(s, f)>> \in Object /\ 0 \in Version
    BY NumberType, ChangesAssumption DEF Version
  <2> QED  BY <2>1 DEF Query
<1>2. /\ t.hash = s.hash /\ t.cache = s.cache /\ t.info = s.info
      /\ t.gone = s.gone /\ t.rows = s.rows /\ t.queries = Append(s.queries, q)
  BY DEF Ask
<1> HIDE DEF q, t
<1>3. t.queries \in Seq(Query)
  BY <1>1, <1>2 DEF Sound, FilesTyped
<1>4. FilesTyped(t) /\ Alive(t) /\ RowsOf(t, vs) /\ (clean => OneRow(t))
  BY <1>2, <1>3 DEF Sound, FilesTyped, Alive, RowsOf, OneRow
<1> QED  BY <1>4 DEF Sound, t

\* Whatever removes a file finds its row.
LEMMA RemovedSound ==
  ASSUME NEW s, NEW vs, NEW clean, Sound(s, vs, clean), NEW f \in File,
         Known(s, f) \in Number \ {0}
  PROVE  Sound(Removed(s, f), vs, clean)
<1> DEFINE o == <<f, Known(s, f)>>
           t == Removed(s, f)
<1>1. o \in Object /\ o[1] = f /\ o[2] = Known(s, f)
  BY NumberType
<1>2. /\ t.hash = [s.hash EXCEPT ![f] = 0] /\ t.cache = [s.cache EXCEPT ![f] = 0]
      /\ t.info = s.info /\ t.gone = s.gone \cup {o} /\ t.queries = s.queries
      /\ t.rows = [v \in View |-> s.rows[v] \ {o}]
  BY DEF Removed
<1> HIDE DEF o, t
<1>3. FilesTyped(s) /\ 0 \in Number
  BY NumberType DEF Sound, Number
<1>4. /\ t.hash \in [File -> Number] /\ t.cache \in [File -> Number]
      /\ t.hash[f] = 0 /\ t.cache[f] = 0
      /\ \A g \in File \ {f} : t.hash[g] = s.hash[g] /\ t.cache[g] = s.cache[g]
  BY <1>2, <1>3 DEF FilesTyped
<1>5. FilesTyped(t)
  BY <1>1, <1>2, <1>3, <1>4 DEF FilesTyped
<1>6. Alive(t)
  <2>1. ASSUME NEW g \in File
        PROVE  <<g, t.hash[g]>> \notin t.gone /\ <<g, t.cache[g]>> \notin t.gone
    <3>1. CASE g = f
      <4>1. <<f, 0>> \notin Object
        BY NumberType
      <4> QED  BY <1>4, <1>5, <3>1, <4>1 DEF FilesTyped
    <3>2. CASE g # f
      BY <1>1, <1>2, <1>4, <3>2 DEF Sound, Alive, o
    <3> QED  BY <3>1, <3>2
  <2>2. \A v \in View : t.rows[v] \cap t.gone = {}
    BY <1>2 DEF Sound, Alive
  <2> QED  BY <2>1, <2>2 DEF Alive
<1>7. RowsOf(t, vs)
  BY <1>2 DEF Sound, RowsOf
<1>8. ASSUME clean PROVE OneRow(t)
  <2>1. SUFFICES ASSUME NEW v \in View, NEW r \in s.rows[v], r # o PROVE t.hash[r[1]] = r[2]
    BY <1>2 DEF OneRow
  <2>2. s.hash[r[1]] = r[2] /\ r \in Object
    BY <1>3, <1>8 DEF Sound, OneRow, FilesTyped
  <2>3. r[1] \in File /\ r[2] # 0 /\ r = <<r[1], r[2]>>
    BY <2>2, NumberType
  <2>4. r[1] # f
    BY <2>1, <2>2, <2>3 DEF Known, o
  <2> QED  BY <1>4, <2>2, <2>3, <2>4
<1> QED  BY <1>5, <1>6, <1>7, <1>8 DEF Sound, t

LEMMA NotifySound ==
  ASSUME NEW s, NEW clean, Sound(s, shown, clean), GoneAsked(s), Fits(s),
         NEW c \in FileChange
  PROVE  Sound(Notify(s, c), shown, clean)
<1>1. c.file \in File /\ c.kind \in EventKinds
  BY DEF FileChange
<1>2. CASE shown = {}
  BY <1>2 DEF Notify
<1>3. CASE shown # {}
  <2> DEFINE t == FindOrInsert(s, c.file, c.kind = "added")
  <2>1. Sound(t, shown, clean) /\ Known(t, c.file) \in Number \ {0}
    BY <1>1, FindOrInsertSound
  <2>2. Notify(s, c) = IF c.kind = "removed" THEN Removed(t, c.file)
                       ELSE Ask(t, c.file, c.kind)
    BY <1>3 DEF Notify
  <2> HIDE DEF t
  <2> QED  BY <1>1, <2>1, <2>2, AskSound, RemovedSound
<1> QED  BY <1>2, <1>3

LEMMA ShownSound ==
  ASSUME NEW s, NEW vs, NEW clean, Sound(s, vs, clean), NEW us \in SUBSET vs,
         NEW os \in SUBSET Object, os \cap s.gone = {},
         clean => \A o \in os : s.hash[o[1]] = o[2]
  PROVE  Sound(Shown(s, us, os), vs, clean)
<1> DEFINE t == Shown(s, us, os)
<1>1. /\ t.hash = s.hash /\ t.cache = s.cache /\ t.info = s.info
      /\ t.gone = s.gone /\ t.queries = s.queries
      /\ t.rows = [v \in View |-> IF v \in us THEN s.rows[v] \cup os ELSE s.rows[v]]
  BY DEF Shown
<1> HIDE DEF t
<1>2. FilesTyped(t) /\ Alive(t) /\ RowsOf(t, vs) /\ (clean => OneRow(t))
  BY <1>1 DEF Sound, FilesTyped, Alive, RowsOf, OneRow
<1> QED  BY <1>2 DEF Sound, t
-----------------------------------------------------------------------------
(* The steps of the folder: what they leave typed.                         *)

LEMMA FreezeTyped ==
  ASSUME FolderTypeOK, Freeze
  PROVE  stored' \in Seq(FileChange) /\ mishaps \subseteq mishaps'
BY DEF Freeze, Mishap

LEMMA UnfreezeTyped ==
  ASSUME FolderTypeOK, Unfreeze
  PROVE  /\ stored' \in Seq(FileChange) /\ changes' \in Seq(FileChange)
         /\ reload' \in {shown, reload}
<1>1. CASE Full
  BY <1>1 DEF FolderTypeOK, Unfreeze, queueVars
<1>2. CASE ~Full
  <2>1. stored' = <<>> /\ changes' = changes \o stored /\ reload' = reload
    BY <1>2 DEF Unfreeze, Replayed
  <2> QED  BY <2>1 DEF FolderTypeOK
<1> QED  BY <1>1, <1>2

LEMMA DoneLoadingTyped ==
  ASSUME FolderTypeOK, DoneLoading
  PROVE  /\ stored' \in Seq(FileChange) /\ changes' \in Seq(FileChange)
         /\ reload' \in {shown, reload} /\ listening' = {} /\ mishaps \subseteq mishaps'
<1>1. listening' = {} /\ mishaps \subseteq mishaps'
  BY DEF DoneLoading, Mishap
<1>2. CASE frozen # {}
  BY <1>1, <1>2, UnfreezeTyped DEF DoneLoading
<1>3. CASE frozen = {}
  BY <1>1, <1>3 DEF DoneLoading, FolderTypeOK, freezeVars, queueVars
<1> QED  BY <1>2, <1>3

LEMMA StoreTyped ==
  ASSUME FolderTypeOK, NEW es \in Seq(FileChange), Store(es)
  PROVE  stored' \in Seq(FileChange)
<1> DEFINE full == stored \o es
           n == Min({FCHANGES_MAX, Len(full)})
<1>1. full \in Seq(FileChange) /\ Len(full) \in Nat
  BY DEF FolderTypeOK
<1> HIDE DEF full
<1>2. n \in {FCHANGES_MAX, Len(full)} /\ n <= Len(full)
  <2>1. FCHANGES_MAX \in Nat
    BY ChangesAssumption
  <2>2. \E m \in {FCHANGES_MAX, Len(full)} :
          \A k \in {FCHANGES_MAX, Len(full)} : m <= k
    BY <1>1, <2>1
  <2> QED  BY <1>1, <2>1, <2>2 DEF Min
<1>3. n \in Nat /\ n <= Len(full)
  BY <1>1, <1>2, ChangesAssumption
<1> HIDE DEF n
<1>4. SubSeq(full, 1, n) \in Seq(FileChange)
  BY <1>1, <1>3, SubSeqProperties
<1> QED  BY <1>4 DEF Store, full, n

LEMMA HappensTyped ==
  ASSUME FolderTypeOK, NEW f \in File, NEW kind \in EventKinds, Happens(f, kind)
  PROVE  /\ disk' \in [File -> Version] /\ ops' \in 0 .. MaxOps
         /\ events' \in Seq(FileChange) /\ mishaps \subseteq mishaps'
         /\ [kind |-> kind, file |-> f] \in FileChange
<1>1. [kind |-> kind, file |-> f] \in FileChange
  BY DEF FileChange
<1>2. ops' \in 0 .. MaxOps /\ mishaps \subseteq mishaps'
  BY ChangesAssumption DEF FolderTypeOK, Happens, Mishap
<1>3. disk' \in [File -> Version]
  <2>1. ops + 1 \in Version /\ 0 \in Version
    BY ChangesAssumption DEF FolderTypeOK, Happens, Version
  <2> QED  BY <2>1 DEF FolderTypeOK, Happens
<1>4. events' \in Seq(FileChange)
  <2> DEFINE e == [kind |-> kind, file |-> f]
  <2>1. events' = IF monitor THEN Append(events, e) ELSE events
    BY DEF Happens
  <2> HIDE DEF e
  <2> QED  BY <1>1, <2>1 DEF FolderTypeOK, e
<1> QED  BY <1>1, <1>2, <1>3, <1>4

LEMMA ListingTyped ==
  /\ Nothing \in Listing
  /\ \A pc \in {"reading", "last"} : [Nothing EXCEPT !.pc = pc] \in Listing
<1>1. NoObjects \in [File -> Version]
  BY ChangesAssumption DEF NoObjects, Version
<1> QED  BY <1>1 DEF Nothing, Listing

LEMMA FolderTyped ==
  ASSUME FolderTypeOK, FolderNext
  PROVE  FolderTypeOK'
<1> USE DEF FolderTypeOK, diskVars, monitorVars, freezeVars, queueVars, fileVars, viewVars, idleVars
<1>1. ASSUME NEW f \in File, NEW k \in EventKinds, Elsewhere(f, k) PROVE FolderTypeOK'
  BY <1>1, HappensTyped DEF Elsewhere
<1>2. ASSUME NEW f \in File, NEW k \in EventKinds, JobDoes(f, k) PROVE FolderTypeOK'
  BY <1>2, HappensTyped DEF JobDoes
<1>3. CASE ListingReads
  BY <1>3 DEF ListingReads, Listing
<1>4. ASSUME NEW i, QueryRead(i) PROVE FolderTypeOK'
  BY <1>4 DEF QueryRead
<1>5. CASE Watch
  BY <1>5 DEF Watch
<1>6. CASE DirectoryChanged
  <2> DEFINE es == [i \in 1 .. handlers |-> Head(events)]
  <2>1. es \in Seq(FileChange) /\ Tail(events) \in Seq(FileChange)
    BY <1>6 DEF DirectoryChanged
  <2>2. /\ events' = Tail(events)
        /\ (Store(es) /\ changes' = changes) \/ (changes' = changes \o es /\ stored' = stored)
    BY <1>6 DEF DirectoryChanged
  <2>3. UNCHANGED <<disk, ops, listing, handlers, shown, listening, reload>>
    BY <1>6 DEF DirectoryChanged
  <2> HIDE DEF es
  <2>4. Store(es) => stored' \in Seq(FileChange)
    BY <2>1, StoreTyped
  <2>5. changes \o es \in Seq(FileChange)
    BY <2>1
  <2>6. stored' \in Seq(FileChange) /\ changes' \in Seq(FileChange)
    BY <2>2, <2>4, <2>5
  <2> QED  BY <2>1, <2>2, <2>3, <2>6
<1>7. CASE ListingBatch
  <2>1. /\ listing' \in Listing
        /\ UNCHANGED <<disk, ops, handlers, events, stored, changes, shown, listening, reload>>
    BY <1>7, ListingTyped DEF ListingBatch
  <2> QED  BY <2>1
<1>8. CASE ListingEnds
  BY <1>8, DoneLoadingTyped, ListingTyped DEF ListingEnds
<1>9. CASE Reload
  <2>1. /\ reload' = {} /\ events' = <<>> /\ handlers' = 0
        /\ listening' = listening \cup reload
        /\ UNCHANGED <<disk, ops, listing, stored, changes, shown>>
    BY <1>9 DEF Reload
  <2> QED  BY <2>1
<1>10. ASSUME NEW c, Consume(c) PROVE FolderTypeOK'
  BY <1>10 DEF Consume
<1>11. CASE NextChange
  <2>1. /\ changes # <<>> /\ changes' = Tail(changes)
        /\ UNCHANGED <<disk, ops, listing, handlers, events, stored, shown, listening, reload>>
    BY <1>11 DEF NextChange
  <2> QED  BY <2>1
<1>12. CASE Consumed
  BY <1>12 DEF Consumed
<1>13. ASSUME NEW i, QueryReturns(i) PROVE FolderTypeOK'
  <2>1. UNCHANGED <<disk, ops, listing, handlers, events, stored, changes, shown, listening,
                    reload>>
    BY <1>13 DEF QueryReturns
  <2> QED  BY <2>1
<1>14. ASSUME NEW v \in View, LoadIdle(v) PROVE FolderTypeOK'
  <2>1. UNCHANGED <<disk, ops, handlers, events, shown>>
    BY <1>14 DEF LoadIdle
  <2>2. CASE DoneLoading /\ listing' = listing
    BY <2>1, <2>2, DoneLoadingTyped
  <2>3. CASE /\ listing' \in {listing, [Nothing EXCEPT !.pc = "reading"]}
             /\ UNCHANGED <<stored, changes, listening, reload>>
    BY <2>1, <2>3, ListingTyped
  <2> QED  BY <1>14, <2>2, <2>3 DEF LoadIdle
<1>15. CASE CreateJobDone
  BY <1>15 DEF CreateJobDone
<1>16. CASE AfterDelay
  <2>1. /\ UNCHANGED <<disk, ops, listing, events, changes, shown, listening, reload>>
        /\ handlers' \in {handlers, handlers + 1}
        /\ stored' \in Seq(FileChange)
    BY <1>16, FreezeTyped DEF AfterDelay
  <2> QED  BY <2>1
<1>17. ASSUME NEW v \in View, NewTab(v) PROVE FolderTypeOK'
  BY <1>17, FreezeTyped DEF NewTab
<1>18. ASSUME NEW v \in View, Rename(v) PROVE FolderTypeOK'
  BY <1>18, FreezeTyped DEF Rename
<1>19. ASSUME NEW v \in View, RenameEnds(v) PROVE FolderTypeOK'
  BY <1>19, UnfreezeTyped DEF RenameEnds
<1>20. CASE HideHidden
  <2>1. UNCHANGED <<disk, ops, handlers, events, shown>>
    BY <1>20 DEF HideHidden
  <2>2. CASE state = "LOADED"
    <3>1. listening' = {} /\ listing' = listing
      BY <1>20, <2>2 DEF HideHidden
    <3>2. Unfreeze \/ UNCHANGED <<stored, changes, reload>>
      BY <1>20, <2>2 DEF HideHidden
    <3> QED  BY <2>1, <3>1, <3>2, UnfreezeTyped
  <2>3. CASE state # "LOADED"
    <3>1. /\ listing' \in {listing, [Nothing EXCEPT !.pc = "reading"]}
          /\ listening' = listening \cup shown
          /\ UNCHANGED <<stored, changes, reload>>
      BY <1>20, <2>3 DEF HideHidden
    <3> QED  BY <2>1, <3>1, ListingTyped
  <2> QED  BY <2>2, <2>3
<1>21. CASE NewFile
  <2>1. /\ UNCHANGED <<disk, ops, listing, events, stored, changes, shown, listening, reload>>
        /\ handlers' \in {handlers, 0}
    BY <1>21 DEF NewFile
  <2> QED  BY <2>1
<1>22. ASSUME NEW f \in File, Created(f) PROVE FolderTypeOK'
  <2>1. Happens(f, "added") /\ "added" \in EventKinds
    BY <1>22 DEF Created, EventKinds
  <2>2. /\ changes' = Append(changes, [kind |-> "added", file |-> f])
        /\ UNCHANGED <<listing, handlers, stored, shown, listening, reload>>
    BY <1>22 DEF Created
  <2> QED  BY <2>1, <2>2, HappensTyped
<1> QED
  BY <1>1, <1>2, <1>3, <1>4, <1>5, <1>6, <1>7, <1>8, <1>9, <1>10, <1>11, <1>12, <1>13, <1>14,
     <1>15, <1>16, <1>17, <1>18, <1>19, <1>20, <1>21, <1>22
     DEF FolderNext, Thread, FolderLoop, User
-----------------------------------------------------------------------------
(* The steps of the folder: what they leave alive.                         *)

LEMMA FilesFields ==
  ASSUME NEW q
  PROVE  /\ Files(q).hash = hash /\ Files(q).cache = cache /\ Files(q).info = info
         /\ Files(q).gone = gone /\ Files(q).rows = rows /\ Files(q).queries = q
BY DEF Files

\* What has happened of Mishaps is not forgotten.
LEMMA CleanStays ==
  ASSUME mishaps \subseteq mishaps', Clean'
  PROVE  Clean
BY DEF Clean

LEMMA BecomeKeeps ==
  ASSUME NEW s, NEW clean, Sound(s, shown, clean), Become(s), shown' = shown, Clean' => clean
  PROVE  FilesOK'
<1>1. Sound(Files(queries)', shown, clean) /\ GoneAsked(Files(queries)')
  BY BecomeSound
<1>2. Sound(Files(queries)', shown, Clean')
  BY <1>1 DEF Sound
<1> QED  BY <1>1, <1>2 DEF FilesOK

\* Tabs are handed objects of the folder, or cleared.
LEMMA RowsHandedOut ==
  ASSUME FilesOK, UNCHANGED <<hash, cache, info, gone>>, shown \subseteq shown',
         mishaps \subseteq mishaps', rows' \in [View -> SUBSET Object],
         \A v \in View : rows'[v] \subseteq rows[v] \cup Hashed,
         \A v \in View \ shown : rows'[v] = {},
         queries' \in Seq(Query), GoneAsked(Files(queries'))
  PROVE  FilesOK'
<1> DEFINE s == Files(queries)
           t == Files(queries)'
<1>1. /\ s.hash = hash /\ s.cache = cache /\ s.info = info
      /\ s.gone = gone /\ s.rows = rows
      /\ t.hash = hash /\ t.cache = cache /\ t.info = info
      /\ t.gone = gone /\ t.rows = rows' /\ t.queries = queries'
  BY FilesFields DEF Files
<1>2. Sound(s, shown, Clean)
  BY DEF FilesOK
<1>3. GoneAsked(t)
  BY <1>1, FilesFields DEF GoneAsked
<1> HIDE DEF s, t
<1>4. FilesTyped(t) /\ RowsOf(t, shown')
  BY <1>1, <1>2 DEF Sound, FilesTyped, RowsOf
<1>5. \A o \in Hashed : o \notin gone /\ hash[o[1]] = o[2]
  <2>1. SUFFICES ASSUME NEW o \in Hashed PROVE o \notin gone
    BY DEF Hashed
  <2>2. o = <<o[1], hash[o[1]]>> /\ o[1] \in File
    BY NumberType DEF Hashed
  <2> QED  BY <1>1, <1>2, <2>2 DEF Sound, Alive
<1>6. Alive(t)
  <2>1. \A v \in View : t.rows[v] \cap t.gone = {}
    BY <1>1, <1>2, <1>5 DEF Sound, Alive
  <2> QED  BY <1>1, <1>2, <2>1 DEF Sound, Alive
<1>7. Clean' => OneRow(t)
  BY <1>1, <1>2, <1>5, CleanStays DEF Sound, OneRow
<1>8. Sound(t, shown', Clean')
  BY <1>4, <1>6, <1>7 DEF Sound
<1> QED  BY <1>3, <1>8 DEF FilesOK, t

LEMMA FilesKept ==
  ASSUME FilesOK, UNCHANGED <<hash, cache, info, gone, rows, queries>>,
         shown \subseteq shown', mishaps \subseteq mishaps'
  PROVE  FilesOK'
<1>1. /\ rows \in [View -> SUBSET Object] /\ queries \in Seq(Query)
      /\ \A v \in View \ shown : rows[v] = {}
  BY FilesFields DEF FilesOK, Sound, FilesTyped, RowsOf
<1>2. GoneAsked(Files(queries'))
  BY DEF FilesOK
<1> QED  BY <1>1, <1>2, RowsHandedOut

LEMMA NextChangeKeeps ==
  ASSUME FolderIInv, NextChange
  PROVE  FilesOK'
<1> DEFINE s == Files(queries)
           c == Head(changes)
<1>1. /\ changes # <<>> /\ Fits(s) /\ shown' = shown /\ Become(Notify(s, c))
      /\ mishaps \subseteq mishaps'
  BY DEF NextChange
<1>2. c \in FileChange
  BY <1>1 DEF FolderIInv, FolderTypeOK
<1>3. Sound(s, shown, Clean) /\ GoneAsked(s)
  BY DEF FolderIInv, FilesOK
<1> HIDE DEF s, c
<1>4. Sound(Notify(s, c), shown, Clean)
  BY <1>1, <1>2, <1>3, NotifySound
<1> QED  BY <1>1, <1>4, BecomeKeeps, CleanStays

LEMMA QueryReadKeeps ==
  ASSUME FolderIInv, NEW i \in 1 .. Len(queries), QueryRead(i)
  PROVE  FilesOK'
<1>1. FilesTyped(Files(queries)) /\ GoneAsked(Files(queries))
  BY DEF FolderIInv, FilesOK, Sound
<1>2. queries \in Seq(Query) /\ gone \subseteq {q.object : q \in Range(queries)}
  BY <1>1, FilesFields DEF FilesTyped, GoneAsked
<1>3. queries[i] \in Query /\ disk[queries[i].object[1]] \in Version
  <2>1. queries[i] \in Query
    BY <1>2
  <2>2. queries[i].object \in Object
    BY <2>1 DEF Query
  <2>3. queries[i].object[1] \in File
    BY <2>2, NumberType
  <2> QED  BY <2>1, <2>3 DEF FolderIInv, FolderTypeOK
<1> DEFINE r == [queries[i] EXCEPT !.read = TRUE, !.got = disk[queries[i].object[1]]]
<1>4. r \in Query /\ r.object = queries[i].object
  BY <1>3 DEF Query
<1>5. queries' = [queries EXCEPT ![i] = r]
  BY DEF QueryRead
<1> HIDE DEF r
<1>6. queries' \in Seq(Query) /\ DOMAIN queries' = DOMAIN queries
  BY <1>2, <1>4, <1>5
<1>7. \A j \in DOMAIN queries : queries'[j].object = queries[j].object
  BY <1>2, <1>4, <1>5
<1>8. GoneAsked(Files(queries'))
  <2>1. ASSUME NEW o \in gone PROVE o \in {q.object : q \in Range(queries')}
    <3>1. PICK j \in DOMAIN queries : queries[j].object = o
      BY <1>2, <2>1 DEF Range
    <3>2. queries'[j] \in Range(queries') /\ queries'[j].object = o
      BY <1>6, <1>7, <3>1 DEF Range
    <3> QED  BY <3>2
  <2> QED  BY <2>1, FilesFields DEF GoneAsked
<1>9. /\ UNCHANGED <<hash, cache, info, gone, rows, shown, mishaps>>
      /\ FilesOK
  BY DEF QueryRead, FolderIInv, fileVars, viewVars
<1>10. rows \in [View -> SUBSET Object] /\ \A v \in View \ shown : rows[v] = {}
  BY <1>9, FilesFields DEF FilesOK, Sound, FilesTyped, RowsOf
<1> QED  BY <1>6, <1>8, <1>9, <1>10, RowsHandedOut

LEMMA QueryReturnsKeeps ==
  ASSUME FolderIInv, NEW i \in 1 .. Len(queries), QueryReturns(i)
  PROVE  FilesOK'
<1> DEFINE q == queries[i]
           s == Files(RemoveAt(queries, i))
           t == [s EXCEPT !.info[q.object] = q.got]
           clean == Clean /\ (q.object \in gone \/ hash[q.object[1]] = q.object[2])
<1>1. Sound(Files(queries), shown, Clean)
  BY DEF FolderIInv, FilesOK
<1>2. q \in Query
  BY <1>1, FilesFields DEF Sound, FilesTyped
<1>3. RemoveAt(queries, i) \in Seq(Query)
  <2>1. queries \in Seq(Query) /\ i \in Nat /\ Len(queries) \in Nat
    BY <1>1, FilesFields DEF Sound, FilesTyped
  <2>2. SubSeq(queries, 1, i - 1) \in Seq(Query)
    BY <2>1, SubSeqProperties
  <2>3. SubSeq(queries, i + 1, Len(queries)) \in Seq(Query)
    BY <2>1, SubSeqProperties
  <2> QED  BY <2>2, <2>3 DEF RemoveAt
<1>4. /\ s.hash = hash /\ s.cache = cache /\ s.info = info
      /\ s.gone = gone /\ s.rows = rows /\ s.queries = RemoveAt(queries, i)
  BY FilesFields
<1>5. /\ shown' = shown /\ Become(IF q.got = 0 THEN s ELSE Refresh(t, q))
      /\ mishaps \subseteq mishaps'
      /\ (q.object \notin gone /\ hash[q.object[1]] # q.object[2] => "doubled" \in mishaps')
  BY DEF QueryReturns
<1>6. Clean' => clean
  BY <1>5, CleanStays DEF Clean
<1>7. clean => Clean /\ (q.object \notin gone => hash[q.object[1]] = q.object[2])
  OBVIOUS
<1> HIDE DEF clean, q
<1>8. /\ t.hash = hash /\ t.cache = cache /\ t.info = [info EXCEPT ![q.object] = q.got]
      /\ t.gone = gone /\ t.rows = rows /\ t.queries = RemoveAt(queries, i)
  BY <1>4
<1> HIDE DEF s, t
<1>9. Sound(s, shown, clean)
  BY <1>1, <1>3, <1>4, <1>7, FilesFields
     DEF Sound, FilesTyped, Alive, RowsOf, OneRow
<1>10. q.object \in Object /\ q.got \in Version
  BY <1>2 DEF Query
<1>11. t.info \in [Object -> Version]
  BY <1>1, <1>8, <1>10, FilesFields DEF Sound, FilesTyped
<1>12. Sound(t, shown, clean)
  BY <1>4, <1>8, <1>9, <1>11 DEF Sound, FilesTyped, Alive, RowsOf, OneRow
<1>13. Sound(Refresh(t, q), shown, clean)
  <2>1. CASE q.object \notin t.gone /\ q.kind = "added"
    <3>1. {q.object} \subseteq Object /\ {q.object} \cap t.gone = {}
      BY <1>10, <2>1
    <3>2. clean => \A o \in {q.object} : t.hash[o[1]] = o[2]
      BY <1>7, <1>8, <2>1
    <3>3. Sound(Shown(t, shown, {q.object}), shown, clean)
      BY <1>12, <3>1, <3>2, ShownSound
    <3> QED  BY <2>1, <3>3 DEF Refresh
  <2>2. CASE ~(q.object \notin t.gone /\ q.kind = "added")
    BY <1>12, <2>2 DEF Refresh
  <2> QED  BY <2>1, <2>2
<1>14. CASE q.got = 0
  BY <1>5, <1>6, <1>9, <1>14, BecomeKeeps
<1>15. CASE q.got # 0
  BY <1>5, <1>6, <1>13, <1>15, BecomeKeeps
<1> QED  BY <1>14, <1>15

\* list_directory: a file of the cache is alive, a new one too.
LEMMA ListingBatchKeeps ==
  ASSUME FolderIInv, ListingBatch
  PROVE  FilesOK'
<1> DEFINE s == Files(queries)
           found == {f \in File : listing.found[f] # 0}
           Of(f) == IF cache[f] # 0 THEN cache[f] ELSE New(s, f)[2]
           objects == {<<f, Of(f)>> : f \in found}
           files == [s EXCEPT
             !.hash = [f \in File |-> IF f \in found THEN Of(f) ELSE @[f]],
             !.info = [o \in Object |-> IF o[1] \in found /\ o[2] = Of(o[1])
                                          THEN listing.found[o[1]] ELSE @[o]]]
           clean == Clean /\ \A f \in found : hash[f] \in {0, Of(f)}
<1>1. Fits(s) /\ shown' = shown /\ Become(Shown(files, listening, objects))
  BY DEF ListingBatch
<1>2. Clean' => clean
  <2>1. mishaps \subseteq mishaps'
        /\ ((\E f \in found : hash[f] \notin {0, Of(f)}) => "doubled" \in mishaps')
    BY DEF ListingBatch
  <2> QED  BY <2>1, CleanStays DEF Clean
<1>3. clean => Clean /\ \A f \in found : hash[f] \in {0, Of(f)}
  OBVIOUS
<1>4. Sound(s, shown, Clean) /\ GoneAsked(s)
  BY DEF FolderIInv, FilesOK
<1>5. /\ s.hash = hash /\ s.cache = cache /\ s.info = info
      /\ s.gone = gone /\ s.rows = rows
  BY FilesFields
<1>6. found \subseteq File /\ \A f \in found : listing.found[f] \in Version
  BY DEF FolderIInv, FolderTypeOK, Listing
<1>7. \A f \in found : Of(f) \in Number \ {0} /\ <<f, Of(f)>> \notin gone
  <2>1. SUFFICES ASSUME NEW f \in found
                 PROVE  Of(f) \in Number \ {0} /\ <<f, Of(f)>> \notin gone
    OBVIOUS
  <2>2. CASE cache[f] # 0
    BY <1>4, <1>5, <2>2 DEF Sound, FilesTyped, Alive
  <2>3. CASE cache[f] = 0
    BY <1>1, <1>4, <1>5, <2>3, NewIsFree DEF Sound
  <2> QED  BY <2>2, <2>3
<1>8. /\ files.hash = [f \in File |-> IF f \in found THEN Of(f) ELSE hash[f]]
      /\ files.info = [o \in Object |-> IF o[1] \in found /\ o[2] = Of(o[1])
                                          THEN listing.found[o[1]] ELSE info[o]]
      /\ files.cache = cache /\ files.gone = gone /\ files.rows = rows
      /\ files.queries = s.queries
  BY <1>5
<1> HIDE DEF s, found, Of, files, clean
<1>9. /\ files.hash \in [File -> Number] /\ files.info \in [Object -> Version]
  <2>1. hash \in [File -> Number] /\ info \in [Object -> Version]
    BY <1>4, <1>5 DEF Sound, FilesTyped
  <2>2. files.hash \in [File -> Number]
    <3>1. \A f \in File : (IF f \in found THEN Of(f) ELSE hash[f]) \in Number
      BY <2>1, <1>7
    <3> QED  BY <3>1, <1>8
  <2>3. \A o \in Object : o[1] \in found => listing.found[o[1]] \in Version
    BY <1>6
  <2>4. files.info \in [Object -> Version]
    BY <2>1, <2>3, <1>8
  <2> QED  BY <2>2, <2>4
<1>10. FilesTyped(files) /\ RowsOf(files, shown)
  BY <1>4, <1>5, <1>8, <1>9 DEF Sound, FilesTyped, RowsOf
<1>11. Alive(files)
  <2>1. /\ \A f \in File : <<f, hash[f]>> \notin gone /\ <<f, cache[f]>> \notin gone
        /\ \A v \in View : rows[v] \cap gone = {}
    BY <1>4, <1>5 DEF Sound, Alive
  <2>2. \A f \in File : <<f, files.hash[f]>> \notin gone
    <3>1. ASSUME NEW f \in File PROVE <<f, files.hash[f]>> \notin gone
      <4>1. files.hash[f] = IF f \in found THEN Of(f) ELSE hash[f]
        BY <1>8
      <4> QED  BY <4>1, <1>7, <2>1
    <3> QED  BY <3>1
  <2> QED  BY <2>1, <2>2, <1>8 DEF Alive
<1>12. ASSUME clean PROVE OneRow(files)
  <2>1. SUFFICES ASSUME NEW v \in View, NEW o \in rows[v]
                 PROVE  files.hash[o[1]] = o[2]
    BY <1>8 DEF OneRow
  <2>2. hash[o[1]] = o[2] /\ o \in Object
    BY <1>3, <1>4, <1>5, <1>12 DEF Sound, OneRow, FilesTyped
  <2>3. o[1] \in File /\ o[2] # 0
    BY <2>2, NumberType
  <2> QED  BY <1>3, <1>8, <1>12, <2>2, <2>3
<1>13. Sound(files, shown, clean)
  BY <1>10, <1>11, <1>12 DEF Sound
<1>14. /\ objects \subseteq Object /\ objects \cap files.gone = {}
       /\ \A o \in objects : files.hash[o[1]] = o[2]
  BY <1>6, <1>7, <1>8, NumberType
<1>15. listening \subseteq shown
  BY DEF FolderIInv, FolderTypeOK
<1> HIDE DEF objects
<1>16. Sound(Shown(files, listening, objects), shown, clean)
  BY <1>13, <1>14, <1>15, ShownSound
<1> QED  BY <1>1, <1>2, <1>16, BecomeKeeps

\* The folder forgets its files: the rows of the other tabs would be lost objects.
LEMMA ReloadKeeps ==
  ASSUME FolderIInv, Reload
  PROVE  FilesOK'
<1> DEFINE s == Files(queries)
           t == [s EXCEPT !.hash = NoObjects,
                          !.rows = [v \in View |-> IF v \in reload THEN {} ELSE @[v]]]
           clean == shown = reload
<1>1. /\ shown' = shown /\ Become(t)
      /\ mishaps' = mishaps \cup (IF shown # reload THEN {"shared"} ELSE {})
  BY DEF Reload, Mishap
<1>2. Clean' => clean
  BY <1>1 DEF Clean
<1>3. clean => shown = reload
  OBVIOUS
<1>4. Sound(s, shown, Clean)
  BY DEF FolderIInv, FilesOK
<1>5. /\ t.hash = NoObjects /\ t.cache = s.cache /\ t.info = s.info /\ t.gone = s.gone
      /\ t.rows = [v \in View |-> IF v \in reload THEN {} ELSE s.rows[v]]
      /\ t.queries = s.queries
  BY FilesFields
<1> HIDE DEF s, t, clean
<1>6. /\ NoObjects \in [File -> Number] /\ \A f \in File : NoObjects[f] = 0
      /\ \A f \in File : <<f, 0>> \notin Object
  BY NumberType DEF NoObjects, Number
<1>7. FilesTyped(t) /\ RowsOf(t, shown)
  BY <1>4, <1>5, <1>6 DEF Sound, FilesTyped, RowsOf
<1>8. Alive(t)
  <2>1. s.gone \subseteq Object
    BY <1>4 DEF Sound, FilesTyped
  <2>2. \A f \in File : <<f, t.hash[f]>> \notin t.gone /\ <<f, t.cache[f]>> \notin t.gone
    BY <1>4, <1>5, <1>6, <2>1 DEF Sound, Alive
  <2>3. \A v \in View : t.rows[v] \cap t.gone = {}
    BY <1>4, <1>5 DEF Sound, Alive
  <2> QED  BY <2>2, <2>3 DEF Alive
<1>9. clean => OneRow(t)
  BY <1>3, <1>4, <1>5 DEF Sound, OneRow, RowsOf
<1>10. Sound(t, shown, clean)
  BY <1>7, <1>8, <1>9 DEF Sound
<1> QED  BY <1>1, <1>2, <1>10, BecomeKeeps

LEMMA CreateJobDoneKeeps ==
  ASSUME FolderIInv, CreateJobDone
  PROVE  FilesOK'
<1> DEFINE s == Files(queries)
<1>1. Fits(s) /\ shown' = shown /\ mishaps' = mishaps
  BY DEF CreateJobDone
<1>2. Sound(s, shown, Clean) /\ GoneAsked(s) /\ FilesOK
  BY DEF FolderIInv, FilesOK
<1>3. CASE UNCHANGED <<fileVars, queries, rows>>
  BY <1>1, <1>2, <1>3, FilesKept DEF fileVars
<1>4. ASSUME NEW f \in File,
             Become(IF Known(s, f) = 0 THEN [s EXCEPT !.cache[f] = New(s, f)[2]] ELSE s)
      PROVE  FilesOK'
  <2> DEFINE k == New(s, f)[2]
             t == [s EXCEPT !.cache[f] = k]
  <2>1. k \in Number \ {0} /\ <<f, k>> \notin s.gone
    BY <1>1, <1>2, NewIsFree DEF Sound
  <2>2. /\ t.cache = [s.cache EXCEPT ![f] = k] /\ t.hash = s.hash /\ t.info = s.info
        /\ t.gone = s.gone /\ t.rows = s.rows /\ t.queries = s.queries
    BY FilesFields
  <2>3. CASE Known(s, f) = 0
    <3>1. Become(t)
      BY <1>4, <2>3
    <3> HIDE DEF s, t, k
    <3>2. Sound(t, shown, Clean)
      BY <1>2, <2>1, <2>2 DEF Sound, FilesTyped, Alive, RowsOf, OneRow
    <3> QED  BY <1>1, <3>1, <3>2, BecomeKeeps, CleanStays
  <2>4. CASE Known(s, f) # 0
    BY <1>1, <1>2, <1>4, <2>4, BecomeKeeps, CleanStays
  <2> QED  BY <2>3, <2>4
<1> QED  BY <1>3, <1>4 DEF CreateJobDone

\* The rows are typed, and only tabs that are shown have some.
LEMMA RowsTyped ==
  ASSUME FilesOK
  PROVE  /\ rows \in [View -> SUBSET Object] /\ \A v \in View \ shown : rows[v] = {}
         /\ queries \in Seq(Query) /\ GoneAsked(Files(queries))
BY FilesFields DEF FilesOK, Sound, FilesTyped, RowsOf

LEMMA LoadIdleKeeps ==
  ASSUME FolderIInv, NEW v \in View, LoadIdle(v)
  PROVE  FilesOK'
<1>1. FilesOK /\ UNCHANGED <<hash, cache, info, gone, queries, shown>>
      /\ listening \subseteq shown
  BY DEF LoadIdle, fileVars, FolderIInv, FolderTypeOK
<1>2. CASE UNCHANGED <<rows, mishaps>>
  BY <1>1, <1>2, FilesKept
<1>3. CASE /\ rows' = [u \in View |-> rows[u] \cup (IF u \in listening THEN Hashed ELSE {})]
           /\ DoneLoading
  <2>1. mishaps \subseteq mishaps'
    BY <1>3, DoneLoadingTyped DEF FolderIInv
  <2>2. Hashed \subseteq Object
    BY DEF Hashed
  <2>3. rows' \in [View -> SUBSET Object]
    BY <1>1, <1>3, <2>2, RowsTyped
  <2>4. /\ \A u \in View : rows'[u] \subseteq rows[u] \cup Hashed
        /\ \A u \in View \ shown : rows'[u] = {}
    BY <1>1, <1>3, RowsTyped
  <2> QED  BY <1>1, <2>1, <2>3, <2>4, RowsHandedOut, RowsTyped
<1> QED  BY <1>2, <1>3 DEF LoadIdle

LEMMA HideHiddenKeeps ==
  ASSUME FolderIInv, HideHidden
  PROVE  FilesOK'
<1>1. /\ FilesOK /\ UNCHANGED <<hash, cache, info, gone, queries, shown>>
      /\ mishaps \subseteq mishaps'
  BY DEF HideHidden, Mishap, fileVars, FolderIInv
<1>2. rows' \in {[u \in View |-> IF u \in shown THEN Hashed ELSE {}], [u \in View |-> {}]}
  BY DEF HideHidden
<1>3. Hashed \subseteq Object
  BY DEF Hashed
<1>4. /\ rows' \in [View -> SUBSET Object]
      /\ \A u \in View : rows'[u] \subseteq rows[u] \cup Hashed
      /\ \A u \in View \ shown : rows'[u] = {}
  BY <1>2, <1>3
<1> QED  BY <1>1, <1>4, RowsHandedOut, RowsTyped

\* Whatever the folder does leaves its objects in order.
LEMMA FolderSteps ==
  ASSUME FolderIInv, FolderNext
  PROVE  FilesOK'
<1>0. FilesOK
  BY DEF FolderIInv
<1> DEFINE Kept == /\ UNCHANGED <<hash, cache, info, gone, rows, queries>>
                   /\ shown \subseteq shown' /\ mishaps \subseteq mishaps'
<1>1. ASSUME NEW f \in File, NEW k \in EventKinds, Elsewhere(f, k) \/ JobDoes(f, k) PROVE Kept
  BY <1>1 DEF Elsewhere, JobDoes, Happens, Mishap, fileVars, viewVars
<1>2. ASSUME ListingReads PROVE Kept
  BY <1>2 DEF ListingReads, Mishap, fileVars, viewVars
<1>3. ASSUME NEW i \in 1 .. Len(queries), QueryRead(i) PROVE FilesOK'
  BY <1>3, QueryReadKeeps
<1>4. ASSUME Watch \/ DirectoryChanged \/ Consumed \/ \E c \in {"folder", "job"} : Consume(c)
      PROVE  Kept
  BY <1>4 DEF Watch, DirectoryChanged, Consumed, Consume, Mishap, fileVars, viewVars
<1>5. CASE ListingBatch
  BY <1>5, ListingBatchKeeps
<1>6. ASSUME ListingEnds PROVE Kept
  BY <1>6 DEF ListingEnds, DoneLoading, Mishap, fileVars
<1>7. CASE Reload
  BY <1>7, ReloadKeeps
<1>8. CASE NextChange
  BY <1>8, NextChangeKeeps
<1>9. ASSUME NEW i \in 1 .. Len(queries), QueryReturns(i) PROVE FilesOK'
  BY <1>9, QueryReturnsKeeps
<1>10. ASSUME NEW v \in View, LoadIdle(v) PROVE FilesOK'
  BY <1>10, LoadIdleKeeps
<1>11. CASE CreateJobDone
  BY <1>11, CreateJobDoneKeeps
<1>12. ASSUME AfterDelay PROVE Kept
  <2>1. mishaps \subseteq mishaps'
    BY <1>12 DEF AfterDelay, Freeze, Mishap
  <2> QED  BY <1>12, <2>1 DEF AfterDelay, fileVars
<1>13. ASSUME NEW v \in View, NewTab(v) \/ Rename(v) PROVE Kept
  <2>1. mishaps \subseteq mishaps'
    BY <1>13 DEF NewTab, Rename, Freeze, Mishap
  <2>2. /\ UNCHANGED <<hash, cache, info, gone, rows, queries>>
        /\ shown' \in {shown, shown \cup {v}}
    BY <1>13 DEF NewTab, Rename, fileVars
  <2> QED  BY <2>1, <2>2
<1>14. ASSUME NEW v \in View, RenameEnds(v) PROVE Kept
  BY <1>14 DEF RenameEnds, fileVars
<1>15. CASE HideHidden
  BY <1>15, HideHiddenKeeps
<1>16. ASSUME NewFile \/ \E f \in File : Created(f) PROVE Kept
  BY <1>16 DEF NewFile, Created, Happens, Mishap, fileVars, viewVars
<1>17. ASSUME Kept PROVE FilesOK'
  BY <1>0, <1>17, FilesKept
<1> HIDE DEF Kept
<1> QED
  BY <1>1, <1>2, <1>3, <1>4, <1>5, <1>6, <1>7, <1>8, <1>9, <1>10, <1>11, <1>12, <1>13, <1>14,
     <1>15, <1>16, <1>17 DEF FolderNext, Thread, FolderLoop, User

LEMMA FolderStarts ==
  ASSUME FolderInit
  PROVE  FolderIInv
<1>1. /\ NoObjects \in [File -> Version] /\ NoObjects \in [File -> Number]
      /\ [o \in Object |-> 0] \in [Object -> Version]
  BY NumberType, ChangesAssumption DEF NoObjects, Version, Number
<1>2. FolderTypeOK
  BY <1>1, ListingTyped, ChangesAssumption DEF FolderInit, FolderTypeOK
<1>3. FilesTyped(Files(queries))
  <2>1. rows \in [View -> SUBSET Object] /\ queries \in Seq(Query)
    BY DEF FolderInit
  <2>2. gone \subseteq Object /\ info \in [Object -> Version]
    BY <1>1 DEF FolderInit
  <2>3. hash \in [File -> Number] /\ cache \in [File -> Number]
    BY <1>1 DEF FolderInit
  <2> QED  BY <2>1, <2>2, <2>3, FilesFields DEF FilesTyped
<1>4. /\ Alive(Files(queries)) /\ OneRow(Files(queries)) /\ RowsOf(Files(queries), shown)
      /\ GoneAsked(Files(queries))
  BY FilesFields DEF FolderInit, Alive, OneRow, RowsOf, GoneAsked
<1> QED  BY <1>2, <1>3, <1>4 DEF FolderIInv, FilesOK, Sound

LEMMA FolderInvariance == FolderSpec => []FolderIInv
<1>1. FolderInit => FolderIInv
  BY FolderStarts
<1>2. FolderIInv /\ [FolderNext]_folderVars => FolderIInv'
  <2>1. ASSUME FolderIInv, FolderNext PROVE FolderIInv'
    BY <2>1, FolderTyped, FolderSteps DEF FolderIInv
  <2>2. ASSUME FolderIInv, UNCHANGED folderVars PROVE FolderIInv'
    <3>1. /\ UNCHANGED <<disk, ops, fileVars, listing, events, handlers, stored, changes,
                         queries, shown, listening, rows, reload, mishaps>>
      BY <2>2 DEF folderVars, diskVars, monitorVars, freezeVars, queueVars, viewVars, idleVars
    <3>2. FolderTypeOK'
      BY <2>2, <3>1 DEF FolderIInv, FolderTypeOK
    <3>3. FilesOK'
      BY <2>2, <3>1, FilesKept DEF FolderIInv, fileVars
    <3> QED  BY <3>2, <3>3 DEF FolderIInv
  <2> QED  BY <2>1, <2>2
<1> QED  BY <1>1, <1>2, PTL DEF FolderSpec

\* A removed file never comes back into a view, and the rows are objects of the
\* folder until a file has a second object or a tab is not reloaded with the rest.
THEOREM RemovedStaysAway == FolderSpec => []RowsAreLive
<1>1. FolderIInv => RowsAreLive
  <2> SUFFICES ASSUME FolderIInv PROVE RowsAreLive
    OBVIOUS
  <2>1. \A v \in View : rows[v] \cap gone = {}
    BY FilesFields DEF FolderIInv, FilesOK, Sound, Alive
  <2>2. Clean => \A v \in View : \A o \in rows[v] : hash[o[1]] = o[2]
    BY FilesFields DEF FolderIInv, FilesOK, Sound, OneRow
  <2> QED  BY <2>1, <2>2 DEF RowsAreLive, Clean
<1> QED  BY <1>1, FolderInvariance, PTL

-----------------------------------------------------------------------------
(* That the views tell the truth when all is quiet.  What makes it          *)
(* inductive: unless a mishap has happened or the folder is to be reloaded, *)
(* each file is as the views show it, or news of it is on its way, or an    *)
(* answer, or the reading of the folder.                                    *)

NoMishap == mishaps = {}

\* What is stored is thrown away and the folder reloaded.
Stale == Full \/ reload # {}

\* The disk has still to be read.
Unread == state = "NOT_LOADED" \/ listing.pc = "reading"

News(kind, f) == [kind |-> kind, file |-> f]

\* What the folder will be notified of.  Changes that nobody is to consume may wait
\* for ever.
Due == consumers # {} \/ notifying
OnTheWay == (IF Due THEN Range(changes) ELSE {}) \cup Range(stored) \cup Range(events)

FolderShape ==
  /\ ~freeze => stored = <<>>
  /\ state \in {"NOT_LOADED", "LOADING", "LOADED"}
  /\ (state = "LOADING") = (listing.pc # "none")
  /\ state = "LOADED" \/ listing.pc = "last" => monitor
  /\ monitor => state # "NOT_LOADED"
  /\ ~monitor => events = <<>>
  /\ shown = {} => state = "NOT_LOADED"
  /\ loads \in [View -> Nat] /\ \A v \in View : loads[v] > 0 => v \in shown
  /\ state = "LOADED" => \A v \in listening : loads[v] > 0

\* What was read is not newer than the disk.
NotNewer(n, f) == n <= ops /\ (disk[f] # 0 => n <= disk[f])
Versions ==
  /\ \A f \in File : disk[f] <= ops /\ NotNewer(listing.found[f], f)
  /\ \A q \in Range(queries) : NotNewer(q.got, q.object[1])

\* The removal of a file that is there again is followed by the news that it is.
Redeemed(s, later, d) ==
  \A i \in DOMAIN s : s[i].kind = "removed" /\ d[s[i].file] # 0 =>
    \/ \E j \in DOMAIN s : j > i /\ s[j] = News("added", s[i].file)
    \/ News("added", s[i].file) \in later
EventsRedeemed == Redeemed(events, {}, disk)
AllRedeemed ==
  /\ Redeemed(changes, Range(stored) \cup Range(events), disk)
  /\ Redeemed(stored, Range(events), disk)

\* Only objects that somebody refers to have been looked at.
Freed(s) == \A o \in Object : s.info[o] # 0 => o \in InUse(s)
Attached ==
  /\ state # "LOADED" => listening = shown
  /\ ~monitor => hash = NoObjects
  /\ Freed(Files(queries))

\* No view shows f or will be handed an object for it.
Dead(s, f) ==
  /\ \A v \in View : \A o \in s.rows[v] : o[1] # f
  /\ \A k \in {s.hash[f], s.cache[f]} \ {0} :
       s.info[<<f, k>>] = 0 /\ \A q \in Range(s.queries) : q.object = <<f, k>> => q.got = 0

\* The tabs vs show f, but for those that will be handed it.
Present(s, f, vs, later) ==
  /\ s.hash[f] # 0 /\ s.info[<<f, s.hash[f]>>] # 0
  /\ \A v \in vs : <<f, s.hash[f]>> \in s.rows[v] \/ v \in later

\* An answer will show f.
Awaiting(s, f) ==
  s.hash[f] # 0 /\ \E q \in Range(s.queries) :
    q.object = <<f, s.hash[f]>> /\ q.kind = "added" /\ (q.read => q.got # 0)

\* The views know the version n of f; an answer will tell it.
Current(s, f, n) == s.hash[f] # 0 /\ s.info[<<f, s.hash[f]>>] = n
Asked(s, f, n) ==
  \E q \in Range(s.queries) : q.object = <<f, Known(s, f)>> /\ (q.read => q.got = n)

\* What the views have, or will have without any more news: that f is gone, that it
\* is there, its version.
SeenGone(f) ==
  Dead(Files(queries), f) /\ (listing.pc = "batch" => listing.found[f] = 0)
SeenThere(f) ==
  \/ Present(Files(queries), f, shown, listening) \/ Awaiting(Files(queries), f)
  \/ listing.pc = "batch" /\ listing.found[f] # 0
SeenNow(f) ==
  \/ Current(Files(queries), f, disk[f]) \/ Asked(Files(queries), f, disk[f])
  \/ listing.pc = "batch" /\ listing.found[f] = disk[f]

GoneHeard(f) ==
  disk[f] = 0 /\ (Unread => cache[f] = 0) => News("removed", f) \in OnTheWay \/ SeenGone(f)
ThereHeard(f) ==
  disk[f] # 0 =>
    /\ News("added", f) \in OnTheWay \/ SeenThere(f)
    /\ News("added", f) \in OnTheWay \/ News("changed", f) \in OnTheWay \/ SeenNow(f)

Heard ==
  /\ NoMishap /\ ~Stale => \A f \in File : GoneHeard(f)
  /\ NoMishap /\ ~Stale /\ ~Unread => AllRedeemed /\ \A f \in File : ThereHeard(f)

HeardInv ==
  FolderShape /\ Versions /\ EventsRedeemed /\ (NoMishap => Attached) /\ Heard

\* Most steps keep the news and what is seen.
NewsKept == OnTheWay \subseteq OnTheWay' /\ (AllRedeemed => AllRedeemed')
ViewsKept ==
  \A f \in File :
    /\ disk[f] = 0 /\ SeenGone(f) => SeenGone(f)'
    /\ disk[f] # 0 /\ SeenThere(f) => SeenThere(f)'
    /\ disk[f] # 0 /\ SeenNow(f) => SeenNow(f)'

-----------------------------------------------------------------------------
(* Sequences and what they hold                                            *)

LEMMA RangeOfAppend ==
  ASSUME NEW S, NEW s \in Seq(S), NEW x \in S
  PROVE  Range(Append(s, x)) = Range(s) \cup {x}
<1>1. Append(s, x) \in Seq(S) /\ Len(Append(s, x)) = Len(s) + 1 /\ Len(s) \in Nat
  OBVIOUS
<1>2. /\ \A i \in DOMAIN s : i \in DOMAIN Append(s, x) /\ Append(s, x)[i] = s[i]
      /\ Append(s, x)[Len(s) + 1] = x /\ Len(s) + 1 \in DOMAIN Append(s, x)
  BY <1>1
<1>3. \A i \in DOMAIN Append(s, x) : i = Len(s) + 1 \/ i \in DOMAIN s
  BY <1>1
<1> QED  BY <1>2, <1>3 DEF Range

LEMMA RangeOfConcat ==
  ASSUME NEW S, NEW s \in Seq(S), NEW t \in Seq(S)
  PROVE  Range(s \o t) = Range(s) \cup Range(t)
<1> DEFINE u == s \o t
<1>1. /\ u \in Seq(S) /\ Len(u) = Len(s) + Len(t) /\ Len(s) \in Nat /\ Len(t) \in Nat
      /\ \A i \in 1 .. Len(s) + Len(t) : u[i] = IF i <= Len(s) THEN s[i] ELSE t[i - Len(s)]
  BY ConcatProperties
<1>2. DOMAIN u = 1 .. Len(s) + Len(t) /\ DOMAIN s = 1 .. Len(s) /\ DOMAIN t = 1 .. Len(t)
  BY <1>1
<1> HIDE DEF u
<1>3. \A i \in DOMAIN s : i \in DOMAIN u /\ u[i] = s[i]
  BY <1>1, <1>2
<1>4. \A i \in DOMAIN t : i + Len(s) \in DOMAIN u /\ u[i + Len(s)] = t[i]
  BY <1>1, <1>2
<1>5. \A i \in DOMAIN u : \/ i \in DOMAIN s /\ u[i] = s[i]
                          \/ i - Len(s) \in DOMAIN t /\ u[i] = t[i - Len(s)]
  BY <1>1, <1>2
<1>6. Range(u) = Range(s) \cup Range(t)
  BY <1>3, <1>4, <1>5 DEF Range
<1> QED  BY <1>6 DEF u

LEMMA RangeOfTail ==
  ASSUME NEW S, NEW s \in Seq(S), s # <<>>
  PROVE  Range(s) = {Head(s)} \cup Range(Tail(s))
<1> DEFINE h == <<Head(s)>>
           t == Tail(s)
<1>1. Head(s) \in S /\ t \in Seq(S) /\ s = h \o t
  BY HeadTail
<1>2. h \in Seq(S) /\ Range(h) = {Head(s)}
  BY <1>1 DEF Range
<1> HIDE DEF h, t
<1>3. Range(h \o t) = Range(h) \cup Range(t)
  BY <1>1, <1>2, RangeOfConcat
<1> QED  BY <1>1, <1>2, <1>3 DEF t

LEMMA RangeOfRemoveAt ==
  ASSUME NEW S, NEW s \in Seq(S), NEW i \in 1 .. Len(s)
  PROVE  /\ RemoveAt(s, i) \in Seq(S)
         /\ Range(RemoveAt(s, i)) \subseteq Range(s)
         /\ \A x \in Range(s) : x = s[i] \/ x \in Range(RemoveAt(s, i))
<1> DEFINE a == SubSeq(s, 1, i - 1)
           b == SubSeq(s, i + 1, Len(s))
<1>1. Len(s) \in Nat /\ DOMAIN s = 1 .. Len(s) /\ i \in Nat
  BY LenProperties
<1>2. /\ a \in Seq(S) /\ Len(a) = i - 1
      /\ \A j \in 1 .. i - 1 : a[j] = s[j]
  BY <1>1, SubSeqProperties
<1>3. /\ b \in Seq(S) /\ Len(b) = Len(s) - i
      /\ \A j \in 1 .. Len(s) - i : b[j] = s[i + j]
  <2>1. \A j \in i + 1 .. Len(s) : s[j] \in S
    BY <1>1
  <2>2. /\ b \in Seq(S) /\ Len(b) = IF i + 1 <= Len(s) THEN Len(s) - (i + 1) + 1 ELSE 0
        /\ \A j \in 1 .. Len(s) - (i + 1) + 1 : b[j] = s[(i + 1) + j - 1]
    BY <1>1, <2>1, SubSeqProperties
  <2> HIDE DEF b
  <2>3. Len(b) = Len(s) - i /\ Len(s) - (i + 1) + 1 = Len(s) - i
    <3> DEFINE n == Len(s)
    <3>1. n \in Nat /\ i \in Nat /\ i <= n
      BY <1>1
    <3>2. Len(b) = IF i + 1 <= n THEN n - (i + 1) + 1 ELSE 0
      BY <2>2
    <3> HIDE DEF n
    <3>3. Len(b) = n - i /\ n - (i + 1) + 1 = n - i
      BY <3>1, <3>2
    <3> QED  BY <3>3 DEF n
  <2>4. ASSUME NEW j \in 1 .. Len(s) - i PROVE b[j] = s[i + j]
    <3>1. (i + 1) + j - 1 = i + j
      BY <1>1
    <3> QED  BY <2>2, <2>3, <3>1
  <2> QED  BY <2>2, <2>3, <2>4
<1>4. RemoveAt(s, i) = a \o b
  BY DEF RemoveAt
<1> HIDE DEF a, b
<1>5. DOMAIN a = 1 .. i - 1 /\ DOMAIN b = 1 .. Len(s) - i
  BY <1>1, <1>2, <1>3, LenProperties
<1>6. Range(RemoveAt(s, i)) = Range(a) \cup Range(b) /\ RemoveAt(s, i) \in Seq(S)
  BY <1>2, <1>3, <1>4, RangeOfConcat
<1>7. Range(a) \cup Range(b) \subseteq Range(s)
  <2>1. \A j \in DOMAIN a : j \in DOMAIN s /\ a[j] = s[j]
    BY <1>1, <1>2, <1>5
  <2>2. \A j \in DOMAIN b : i + j \in DOMAIN s /\ b[j] = s[i + j]
    BY <1>1, <1>3, <1>5
  <2> QED  BY <2>1, <2>2 DEF Range
<1>8. ASSUME NEW j \in DOMAIN s, j # i PROVE s[j] \in Range(a) \cup Range(b)
  <2>1. CASE j < i
    BY <1>1, <1>2, <1>5, <2>1 DEF Range
  <2>2. CASE j > i
    <3>1. j - i \in DOMAIN b /\ b[j - i] = s[j]
      BY <1>1, <1>3, <1>5, <2>2
    <3> QED  BY <3>1 DEF Range
  <2> QED  BY <1>1, <1>8, <2>1, <2>2
<1> QED  BY <1>6, <1>7, <1>8 DEF Range

LEMMA RangeOfUpdate ==
  ASSUME NEW S, NEW s \in Seq(S), NEW i \in 1 .. Len(s), NEW x \in S
  PROVE  /\ Range([s EXCEPT ![i] = x]) \subseteq Range(s) \cup {x}
         /\ x \in Range([s EXCEPT ![i] = x])
         /\ \A y \in Range(s) : y = s[i] \/ y \in Range([s EXCEPT ![i] = x])
<1> DEFINE t == [s EXCEPT ![i] = x]
<1>1. DOMAIN t = DOMAIN s /\ i \in DOMAIN s
  BY LenProperties
<1>2. t[i] = x /\ \A j \in DOMAIN s \ {i} : t[j] = s[j]
  BY <1>1
<1> HIDE DEF t
<1>3. /\ Range(t) \subseteq Range(s) \cup {x} /\ x \in Range(t)
      /\ \A y \in Range(s) : y = s[i] \/ y \in Range(t)
  BY <1>1, <1>2 DEF Range
<1> QED  BY <1>3 DEF t

LEMMA RedeemedLater ==
  ASSUME NEW s, NEW d, NEW later, NEW more
  PROVE  /\ Redeemed(s, later, d) /\ later \subseteq more => Redeemed(s, more, d)
         /\ Redeemed(<<>>, later, d)
BY DEF Redeemed

LEMMA RedeemedAppend ==
  ASSUME NEW s \in Seq(FileChange), NEW x \in FileChange, NEW d, NEW later, NEW more,
         Redeemed(s, later, d), later \subseteq more,
         x.kind = "removed" /\ d[x.file] # 0 => News("added", x.file) \in more
  PROVE  Redeemed(Append(s, x), more, d)
<1> DEFINE t == Append(s, x)
<1>1. /\ Len(s) \in Nat /\ DOMAIN s = 1 .. Len(s) /\ DOMAIN t = 1 .. Len(s) + 1
      /\ t[Len(s) + 1] = x /\ \A i \in DOMAIN s : t[i] = s[i]
  OBVIOUS
<1> HIDE DEF t
<1>2. SUFFICES ASSUME NEW i \in DOMAIN t, t[i].kind = "removed", d[t[i].file] # 0
               PROVE  \/ \E j \in DOMAIN t : j > i /\ t[j] = News("added", t[i].file)
                      \/ News("added", t[i].file) \in more
  BY DEF Redeemed, t
<1>3. CASE i = Len(s) + 1
  BY <1>1, <1>2, <1>3
<1>4. CASE i \in DOMAIN s
  <2>1. \/ \E j \in DOMAIN s : j > i /\ s[j] = News("added", s[i].file)
        \/ News("added", s[i].file) \in later
    BY <1>1, <1>2, <1>4 DEF Redeemed
  <2>2. DOMAIN s \subseteq DOMAIN t /\ t[i] = s[i]
    BY <1>1, <1>4
  <2> QED  BY <1>1, <2>1, <2>2
<1> QED  BY <1>1, <1>3, <1>4

LEMMA RedeemedTail ==
  ASSUME NEW s \in Seq(FileChange), s # <<>>, NEW d, NEW later, Redeemed(s, later, d)
  PROVE  /\ Redeemed(Tail(s), later, d)
         /\ Head(s).kind = "removed" /\ d[Head(s).file] # 0
              => News("added", Head(s).file) \in Range(Tail(s)) \cup later
<1> DEFINE t == Tail(s)
<1>1. /\ t \in Seq(FileChange) /\ Len(t) = Len(s) - 1 /\ Len(s) \in Nat \ {0}
      /\ \A i \in 1 .. Len(t) : t[i] = s[i + 1]
  BY HeadTailProperties
<1>2. /\ DOMAIN s = 1 .. Len(s) /\ DOMAIN t = 1 .. Len(s) - 1 /\ Head(s) = s[1]
  BY <1>1
<1> HIDE DEF t
<1>3. \A i \in DOMAIN t : i + 1 \in DOMAIN s /\ t[i] = s[i + 1]
  BY <1>1, <1>2
<1>4. \A j \in DOMAIN s : j > 1 => j - 1 \in DOMAIN t /\ t[j - 1] = s[j]
  BY <1>1, <1>2
<1>5. Redeemed(t, later, d)
  <2>1. SUFFICES ASSUME NEW i \in DOMAIN t, t[i].kind = "removed", d[t[i].file] # 0,
                        News("added", t[i].file) \notin later
                 PROVE  \E j \in DOMAIN t : j > i /\ t[j] = News("added", t[i].file)
    BY DEF Redeemed
  <2>2. PICK j \in DOMAIN s : j > i + 1 /\ s[j] = News("added", t[i].file)
    BY <1>3, <2>1 DEF Redeemed
  <2>3. j - 1 \in DOMAIN t /\ t[j - 1] = s[j] /\ j - 1 > i
    BY <1>2, <1>4, <2>2
  <2> QED  BY <2>2, <2>3
<1>6. ASSUME Head(s).kind = "removed", d[Head(s).file] # 0,
             News("added", Head(s).file) \notin later
      PROVE  News("added", Head(s).file) \in Range(t)
  <2>1. 1 \in DOMAIN s
    BY <1>1, <1>2
  <2>2. PICK j \in DOMAIN s : j > 1 /\ s[j] = News("added", Head(s).file)
    BY <1>2, <1>6, <2>1 DEF Redeemed
  <2> QED  BY <1>4, <2>2 DEF Range
<1> QED  BY <1>5, <1>6 DEF t

LEMMA RedeemedConcat ==
  ASSUME NEW s \in Seq(FileChange), NEW t \in Seq(FileChange), NEW d, NEW later,
         Redeemed(s, Range(t) \cup later, d), Redeemed(t, later, d)
  PROVE  Redeemed(s \o t, later, d)
<1> DEFINE u == s \o t
           n == Len(s)
<1>1. /\ u \in Seq(FileChange) /\ Len(u) = n + Len(t) /\ n \in Nat /\ Len(t) \in Nat
      /\ \A i \in 1 .. n + Len(t) : u[i] = IF i <= n THEN s[i] ELSE t[i - n]
  BY ConcatProperties
<1>2. DOMAIN u = 1 .. n + Len(t) /\ DOMAIN s = 1 .. n /\ DOMAIN t = 1 .. Len(t)
  BY <1>1
<1> HIDE DEF u, n
<1>3. \A i \in DOMAIN s : i \in DOMAIN u /\ u[i] = s[i] /\ i <= n
  BY <1>1, <1>2
<1>4. \A i \in DOMAIN t : i + n \in DOMAIN u /\ u[i + n] = t[i] /\ i + n > n
  BY <1>1, <1>2
<1>5. \A i \in DOMAIN u : \/ i \in DOMAIN s /\ u[i] = s[i]
                          \/ i - n \in DOMAIN t /\ u[i] = t[i - n]
  BY <1>1, <1>2
<1>6. SUFFICES ASSUME NEW i \in DOMAIN u, u[i].kind = "removed", d[u[i].file] # 0,
                      News("added", u[i].file) \notin later
               PROVE  \E j \in DOMAIN u : j > i /\ u[j] = News("added", u[i].file)
  BY DEF Redeemed, u
<1>7. CASE i \in DOMAIN s /\ u[i] = s[i]
  <2>1. \/ \E j \in DOMAIN s : j > i /\ s[j] = News("added", u[i].file)
        \/ News("added", u[i].file) \in Range(t)
    BY <1>6, <1>7 DEF Redeemed
  <2>2. CASE \E j \in DOMAIN s : j > i /\ s[j] = News("added", u[i].file)
    BY <1>3, <2>2
  <2>3. CASE News("added", u[i].file) \in Range(t)
    <3>1. PICK j \in DOMAIN t : t[j] = News("added", u[i].file)
      BY <2>3 DEF Range
    <3>2. j + n > i /\ j + n \in DOMAIN u
      BY <1>1, <1>2, <1>3, <1>4, <1>7
    <3> QED  BY <1>4, <3>1, <3>2
  <2> QED  BY <2>1, <2>2, <2>3
<1>8. CASE i - n \in DOMAIN t /\ u[i] = t[i - n]
  <2>1. PICK j \in DOMAIN t : j > i - n /\ t[j] = News("added", u[i].file)
    BY <1>6, <1>8 DEF Redeemed
  <2>2. j + n > i
    BY <1>1, <1>2, <2>1
  <2> QED  BY <1>4, <2>1, <2>2
<1> QED  BY <1>5, <1>7, <1>8

\* One operation on the disk.
LEMMA RedeemedDisk ==
  ASSUME NEW s \in Seq(FileChange), NEW d \in [File -> Nat], NEW later, NEW f \in File,
         NEW n \in Nat, Redeemed(s, later, d), n = 0 \/ d[f] # 0 \/ News("added", f) \in later
  PROVE  Redeemed(s, later, [d EXCEPT ![f] = n])
<1> DEFINE e == [d EXCEPT ![f] = n]
<1>1. \A i \in DOMAIN s : s[i].file \in File
  <2>1. \A i \in DOMAIN s : s[i] \in FileChange
    OBVIOUS
  <2> QED  BY <2>1 DEF FileChange
<1>2. e[f] = n /\ \A g \in File \ {f} : e[g] = d[g]
  OBVIOUS
<1> HIDE DEF e
<1>3. Redeemed(s, later, e)
  BY <1>1, <1>2 DEF Redeemed
<1> QED  BY <1>3 DEF e
-----------------------------------------------------------------------------
(* The shape of the folder, what was read, and the events.                 *)

LEMMA FreezeShape ==
  ASSUME FolderTypeOK, FolderShape
  PROVE  /\ Freeze => stored' = <<>> /\ freeze' = TRUE
         /\ Unfreeze => stored' = <<>> /\ freeze' = FALSE
         /\ DoneLoading => (~freeze' => stored' = <<>>) /\ listening' = {}
<1>1. Unfreeze => stored' = <<>> /\ freeze' = FALSE
  BY DEF Unfreeze
<1> QED  BY <1>1 DEF Freeze, DoneLoading, FolderShape, freezeVars

LEMMA ShapeKept ==
  ASSUME FolderTypeOK, FolderShape, FolderNext
  PROVE  FolderShape'
<1> USE DEF FolderShape, diskVars, monitorVars, freezeVars, queueVars, fileVars, viewVars, idleVars
<1>0. /\ Nothing.pc = "none" /\ [Nothing EXCEPT !.pc = "reading"].pc = "reading"
      /\ [Nothing EXCEPT !.pc = "last"].pc = "last"
  BY DEF Nothing
<1>1. ASSUME NEW f \in File, NEW k \in EventKinds, Elsewhere(f, k) PROVE FolderShape'
  BY <1>1 DEF Elsewhere, Happens
<1>2. ASSUME NEW f \in File, NEW k \in EventKinds, JobDoes(f, k) PROVE FolderShape'
  BY <1>2 DEF JobDoes, Happens
<1>3. CASE ListingReads
  BY <1>3 DEF ListingReads
<1>4. ASSUME NEW i, QueryRead(i) PROVE FolderShape'
  BY <1>4 DEF QueryRead
<1>5. CASE Watch
  BY <1>5 DEF Watch, Loading
<1>6. CASE DirectoryChanged
  BY <1>6 DEF DirectoryChanged
<1>7. CASE ListingBatch
  BY <1>0, <1>7 DEF ListingBatch, Busy, Loading
<1>8. CASE ListingEnds
  BY <1>0, <1>8, FreezeShape DEF ListingEnds
<1>9. CASE Reload
  <2>1. reload \subseteq shown /\ shown \subseteq View
    BY DEF FolderTypeOK
  <2>2. loads' \in [View -> Nat] /\ \A v \in View : loads'[v] > 0 => v \in shown
    BY <1>9, <2>1 DEF Reload, LoadsOfReload
  <2> QED  BY <1>9, <2>2 DEF Reload
<1>10. ASSUME NEW c, Consume(c) PROVE FolderShape'
  BY <1>10 DEF Consume
<1>11. CASE NextChange
  BY <1>11 DEF NextChange
<1>12. CASE Consumed
  BY <1>12 DEF Consumed
<1>13. ASSUME NEW i, QueryReturns(i) PROVE FolderShape'
  BY <1>13 DEF QueryReturns
<1>14. ASSUME NEW v \in View, LoadIdle(v) PROVE FolderShape'
  <2>1. /\ loads[v] > 0 /\ loads' = [loads EXCEPT ![v] = @ - 1]
        /\ UNCHANGED <<monitor, events, shown>> /\ v \in shown
    BY <1>14 DEF LoadIdle
  <2>2. loads' \in [View -> Nat] /\ \A u \in View : loads'[u] > 0 => u \in shown
    BY <2>1
  <2>3. CASE state = "NOT_LOADED"
    <3>1. state' = "LOADING" /\ listing'.pc = "reading" /\ UNCHANGED <<freeze, stored>>
      BY <1>0, <1>14, <2>3 DEF LoadIdle
    <3> QED  BY <2>1, <2>2, <3>1
  <2>4. CASE state = "LOADING"
    BY <1>14, <2>1, <2>2, <2>4 DEF LoadIdle
  <2>5. CASE state = "LOADED"
    <3>1. (~freeze' => stored' = <<>>) /\ listening' = {} /\ UNCHANGED <<state, listing>>
      BY <1>14, <2>5, FreezeShape DEF LoadIdle
    <3> QED  BY <2>1, <2>2, <3>1
  <2> QED  BY <2>3, <2>4, <2>5
<1>15. CASE CreateJobDone
  BY <1>15 DEF CreateJobDone
<1>16. CASE AfterDelay
  <2>0. Freeze \/ UNCHANGED <<freeze, stored>>
    BY <1>16 DEF AfterDelay
  <2>1. ~freeze' => stored' = <<>>
    BY <2>0, FreezeShape
  <2>2. UNCHANGED <<state, listing, monitor, events, shown, loads, listening>>
    BY <1>16 DEF AfterDelay
  <2> QED  BY <2>1, <2>2
<1>17. ASSUME NEW v \in View, NewTab(v) PROVE FolderShape'
  <2>1. loads' \in [View -> Nat] /\ \A u \in View : loads'[u] > 0 => u \in shown'
    BY <1>17 DEF NewTab
  <2>2. /\ listening' = listening \cup {v} /\ listening \subseteq View
        /\ loads' = [loads EXCEPT ![v] = 1]
    BY <1>17 DEF NewTab, FolderTypeOK
  <2>3. /\ freeze' = TRUE /\ shown' # {}
        /\ UNCHANGED <<state, listing, monitor, events>>
    BY <1>17, FreezeShape DEF NewTab
  <2> QED  BY <2>1, <2>2, <2>3
<1>18. ASSUME NEW v \in View, Rename(v) PROVE FolderShape'
  BY <1>18, FreezeShape DEF Rename
<1>19. ASSUME NEW v \in View, RenameEnds(v) PROVE FolderShape'
  BY <1>19, FreezeShape DEF RenameEnds
<1>20. CASE HideHidden
  <2>1. UNCHANGED <<monitor, events, shown, loads>> /\ shown # {}
    BY <1>20 DEF HideHidden
  <2>2. CASE state = "LOADED"
    <3>1. listening' = {} /\ UNCHANGED <<state, listing>>
      BY <1>20, <2>2 DEF HideHidden
    <3>2. ~freeze' => stored' = <<>>
      BY <1>20, <2>2, FreezeShape DEF HideHidden
    <3> QED  BY <2>1, <3>1, <3>2
  <2>3. CASE state # "LOADED"
    <3>1. /\ state' = "LOADING" /\ UNCHANGED <<freeze, stored>>
          /\ listing' = IF state = "LOADING" THEN listing ELSE [Nothing EXCEPT !.pc = "reading"]
      BY <1>20, <2>3 DEF HideHidden
    <3> QED  BY <1>0, <2>1, <2>3, <3>1
  <2> QED  BY <2>2, <2>3
<1>21. CASE NewFile
  BY <1>21 DEF NewFile
<1>22. ASSUME NEW f \in File, Created(f) PROVE FolderShape'
  BY <1>22 DEF Created, Happens
<1> QED
  BY <1>1, <1>2, <1>3, <1>4, <1>5, <1>6, <1>7, <1>8, <1>9, <1>10, <1>11, <1>12, <1>13, <1>14,
     <1>15, <1>16, <1>17, <1>18, <1>19, <1>20, <1>21, <1>22
     DEF FolderNext, Thread, FolderLoop, User

LEMMA BecomeFields ==
  ASSUME NEW s, Become(s)
  PROVE  /\ hash' = s.hash /\ cache' = s.cache /\ rows' = s.rows /\ queries' = s.queries
         /\ info' = [o \in Object |-> IF o \in InUse(s) THEN s.info[o] ELSE 0]
         /\ gone' = s.gone \cap InUse(s)
BY DEF Become

LEMMA QueriesTyped ==
  ASSUME FilesOK
  PROVE  /\ queries \in Seq(Query)
         /\ \A q \in Range(queries) : q \in Query /\ q.object \in Object /\ q.object[1] \in File
                                      /\ q.got \in Version
<1>1. queries \in Seq(Query)
  BY RowsTyped
<1>2. \A q \in Range(queries) : q \in Query
  BY <1>1 DEF Range
<1>3. \A q \in Query : q.object \in Object /\ q.got \in Version
  BY DEF Query
<1> QED  BY <1>1, <1>2, <1>3, NumberType

\* What notify_files does with the objects, and what it asks.
LEMMA FindOrInsertFields ==
  ASSUME NEW s, FilesTyped(s), GoneAsked(s), Fits(s), NEW f \in File,
         NEW update \in BOOLEAN
  PROVE  LET t == FindOrInsert(s, f, update) IN
         /\ t.cache = s.cache /\ t.info = s.info /\ t.gone = s.gone /\ t.rows = s.rows
         /\ t.queries = s.queries /\ t.hash \in [File -> Number]
         /\ \A g \in File \ {f} : t.hash[g] = s.hash[g]
         /\ Known(t, f) \in Number \ {0}
         /\ t.hash[f] \in {s.hash[f], Known(t, f)}
         /\ update => t.hash[f] = Known(t, f)
         /\ Known(s, f) # 0 => Known(t, f) = Known(s, f)
         /\ Known(s, f) = 0 => <<f, Known(t, f)>> \notin InUse(s) /\ t.hash[f] = Known(t, f)
<1> DEFINE k == IF Known(s, f) = 0 THEN New(s, f)[2] ELSE Known(s, f)
           t == [s EXCEPT !.hash[f] = k]
<1>0. s.hash[f] \in Number /\ s.cache[f] \in Number /\ s.hash \in [File -> Number]
  BY DEF FilesTyped
<1>1. CASE ~ (update \/ Known(s, f) = 0)
  <2>1. FindOrInsert(s, f, update) = s
    BY <1>1 DEF FindOrInsert
  <2> QED  BY <1>0, <1>1, <2>1 DEF Known
<1>2. CASE update \/ Known(s, f) = 0
  <2>1. k \in Number \ {0} /\ (Known(s, f) = 0 => <<f, k>> \notin InUse(s))
    <3>1. CASE Known(s, f) = 0
      <4>1. PICK n \in 1 .. MaxObjects : <<f, n>> \notin InUse(s)
        BY DEF Fits
      <4>2. <<f, New(s, f)[2]>> \notin InUse(s)
        BY <4>1 DEF New
      <4> QED  BY <3>1, <4>2, NewIsFree
    <3>2. CASE Known(s, f) # 0
      BY <1>0, <3>2 DEF Known
    <3> QED  BY <3>1, <3>2
  <2>2. FindOrInsert(s, f, update) = t
    BY <1>2 DEF FindOrInsert
  <2>3. Known(s, f) # 0 => k = Known(s, f)
    OBVIOUS
  <2>4. s.hash[f] # 0 => k = s.hash[f]
    BY DEF Known
  <2> HIDE DEF k
  <2>5. /\ t.hash = [s.hash EXCEPT ![f] = k] /\ t.cache = s.cache /\ t.info = s.info
        /\ t.gone = s.gone /\ t.rows = s.rows /\ t.queries = s.queries
    OBVIOUS
  <2> HIDE DEF t
  <2>6. /\ t.hash \in [File -> Number] /\ t.hash[f] = k
        /\ \A g \in File \ {f} : t.hash[g] = s.hash[g]
    BY <1>0, <2>1, <2>5
  <2>7. Known(t, f) = k
    BY <2>1, <2>6 DEF Known
  <2> QED  BY <2>1, <2>2, <2>3, <2>5, <2>6, <2>7
<1> QED  BY <1>1, <1>2

LEMMA AskFields ==
  ASSUME NEW s, NEW f, NEW kind
  PROVE  LET t == Ask(s, f, kind)
             q == [object |-> <<f, Known(s, f)>>, kind |-> kind, read |-> FALSE, got |-> 0] IN
         /\ t.hash = s.hash /\ t.cache = s.cache /\ t.info = s.info /\ t.gone = s.gone
         /\ t.rows = s.rows /\ t.queries = Append(s.queries, q)
BY DEF Ask

LEMMA ShownFields ==
  ASSUME NEW s, NEW vs, NEW os
  PROVE  LET t == Shown(s, vs, os) IN
         /\ t.hash = s.hash /\ t.cache = s.cache /\ t.info = s.info /\ t.gone = s.gone
         /\ t.queries = s.queries
         /\ t.rows = [v \in View |-> IF v \in vs THEN s.rows[v] \cup os ELSE s.rows[v]]
BY DEF Shown
-----------------------------------------------------------------------------
(* What is seen and what is on its way, step by step.                      *)

LEMMA HeardKept ==
  ASSUME Heard, NoMishap, ~Stale, Unread' <=> Unread, disk' = disk,
         \A f \in File : cache'[f] = 0 => cache[f] = 0, NewsKept, ViewsKept
  PROVE  Heard'
<1>1. ASSUME NEW f \in File PROVE GoneHeard(f)'
  <2>1. GoneHeard(f)
    BY DEF Heard
  <2>2. SUFFICES ASSUME disk[f] = 0, Unread => cache[f] = 0
                 PROVE  News("removed", f) \in OnTheWay' \/ SeenGone(f)'
    BY DEF GoneHeard, News
  <2>3. News("removed", f) \in OnTheWay \/ SeenGone(f)
    BY <2>1, <2>2 DEF GoneHeard
  <2> QED  BY <2>2, <2>3 DEF NewsKept, ViewsKept
<1>2. ASSUME ~Unread PROVE AllRedeemed' /\ \A f \in File : ThereHeard(f)'
  <2>1. AllRedeemed /\ \A f \in File : ThereHeard(f)
    BY <1>2 DEF Heard
  <2>2. ASSUME NEW f \in File PROVE ThereHeard(f)'
    <3>1. SUFFICES ASSUME disk[f] # 0
                   PROVE  /\ News("added", f) \in OnTheWay' \/ SeenThere(f)'
                          /\ \/ News("added", f) \in OnTheWay'
                             \/ News("changed", f) \in OnTheWay' \/ SeenNow(f)'
      BY DEF ThereHeard, News
    <3>2. /\ News("added", f) \in OnTheWay \/ SeenThere(f)
          /\ News("added", f) \in OnTheWay \/ News("changed", f) \in OnTheWay \/ SeenNow(f)
      BY <2>1, <3>1 DEF ThereHeard
    <3> QED  BY <3>1, <3>2 DEF NewsKept, ViewsKept
  <2> QED  BY <2>1, <2>2 DEF NewsKept
<1> QED  BY <1>1, <1>2 DEF Heard

\* A view has no row of a file of which the folder knows nothing.
LEMMA UnknownIsDead ==
  ASSUME NEW s, FilesTyped(s), OneRow(s), NEW f \in File, s.hash[f] = 0, s.cache[f] = 0
  PROVE  Dead(s, f)
<1>1. ASSUME NEW v \in View, NEW o \in s.rows[v] PROVE o[1] # f
  <2>1. o \in Object /\ s.hash[o[1]] = o[2]
    BY DEF FilesTyped, OneRow
  <2> QED  BY <2>1, NumberType
<1> QED  BY <1>1 DEF Dead

LEMMA HashIsUsed ==
  ASSUME NEW s, FilesTyped(s), NEW f \in File, NEW k \in {s.hash[f], s.cache[f]} \ {0}
  PROVE  <<f, k>> \in Object /\ <<f, k>> \in InUse(s)
<1>1. k \in Number /\ k # 0
  BY DEF FilesTyped
<1>2. <<f, k>> \in Object
  BY <1>1, NumberType
<1> QED  BY <1>2 DEF InUse

\* What is freed is not seen.
LEMMA BecomeSeen ==
  ASSUME NEW s, FilesTyped(s), Become(s), NEW f \in File
  PROVE  LET t == Files(queries)' IN
         /\ Dead(s, f) => Dead(t, f)
         /\ \A vs, later : Present(s, f, vs, later) => Present(t, f, vs, later)
         /\ Awaiting(s, f) => Awaiting(t, f)
         /\ \A n : (Current(s, f, n) => Current(t, f, n)) /\ (Asked(s, f, n) => Asked(t, f, n))
<1> DEFINE t == Files(queries)'
<1>1. /\ t.hash = s.hash /\ t.cache = s.cache /\ t.rows = s.rows /\ t.queries = s.queries
      /\ t.info = [o \in Object |-> IF o \in InUse(s) THEN s.info[o] ELSE 0]
  BY BecomeFields DEF Files
<1> HIDE DEF t
<1>2. \A k \in {s.hash[f], s.cache[f]} \ {0} : t.info[<<f, k>>] = s.info[<<f, k>>]
  BY <1>1, HashIsUsed
<1>3. Known(t, f) = Known(s, f)
  BY <1>1 DEF Known
<1>4. Dead(s, f) => Dead(t, f)
  BY <1>1, <1>2 DEF Dead
<1>5. \A vs, later : Present(s, f, vs, later) => Present(t, f, vs, later)
  BY <1>1, <1>2 DEF Present
<1>6. Awaiting(s, f) => Awaiting(t, f)
  BY <1>1 DEF Awaiting
<1>7. \A n : (Current(s, f, n) => Current(t, f, n)) /\ (Asked(s, f, n) => Asked(t, f, n))
  BY <1>1, <1>2, <1>3 DEF Current, Asked
<1> QED  BY <1>4, <1>5, <1>6, <1>7 DEF t

LEMMA BecomeFreed ==
  ASSUME NEW s, Become(s)
  PROVE  Freed(Files(queries)')
<1> DEFINE t == Files(queries)'
<1>1. /\ t.hash = s.hash /\ t.cache = s.cache /\ t.rows = s.rows /\ t.queries = s.queries
      /\ t.info = [o \in Object |-> IF o \in InUse(s) THEN s.info[o] ELSE 0]
  BY BecomeFields DEF Files
<1> HIDE DEF t
<1>2. InUse(t) = InUse(s)
  BY <1>1 DEF InUse
<1> QED  BY <1>1, <1>2 DEF Freed, t

\* A file is asked about, for an object the folder knows or has just made.
LEMMA NotifyAsks ==
  ASSUME NEW s, FilesTyped(s), GoneAsked(s), Fits(s), NEW c \in FileChange,
         c.kind # "removed", shown # {}
  PROVE  LET t == Notify(s, c)
             k == Known(t, c.file)
             q == [object |-> <<c.file, k>>, kind |-> c.kind, read |-> FALSE, got |-> 0] IN
         /\ FilesTyped(t) /\ t.cache = s.cache /\ t.info = s.info /\ t.rows = s.rows
         /\ Range(t.queries) = Range(s.queries) \cup {q}
         /\ \A g \in File \ {c.file} : t.hash[g] = s.hash[g]
         /\ t.hash[c.file] \in {s.hash[c.file], k} /\ k \in Number \ {0}
         /\ c.kind = "added" => t.hash[c.file] = k
         /\ Known(s, c.file) # 0 => k = Known(s, c.file)
         /\ Known(s, c.file) = 0 => <<c.file, k>> \notin InUse(s)
<1> DEFINE f == c.file
           update == c.kind = "added"
           u == FindOrInsert(s, f, update)
           t == Notify(s, c)
           k == Known(u, f)
           q == [object |-> <<f, k>>, kind |-> c.kind, read |-> FALSE, got |-> 0]
<1>1. f \in File /\ c.kind \in EventKinds /\ update \in BOOLEAN
  BY DEF FileChange
<1>2. t = Ask(u, f, c.kind)
  BY DEF Notify
<1> HIDE DEF f, update
<1>3. /\ u.cache = s.cache /\ u.info = s.info /\ u.gone = s.gone /\ u.rows = s.rows
      /\ u.queries = s.queries /\ u.hash \in [File -> Number]
      /\ \A g \in File \ {f} : u.hash[g] = s.hash[g]
      /\ k \in Number \ {0} /\ u.hash[f] \in {s.hash[f], k}
      /\ (update => u.hash[f] = k)
      /\ (Known(s, f) # 0 => k = Known(s, f))
      /\ (Known(s, f) = 0 => <<f, k>> \notin InUse(s))
  BY <1>1, FindOrInsertFields
<1>4. /\ t.hash = u.hash /\ t.cache = u.cache /\ t.info = u.info /\ t.gone = u.gone
      /\ t.rows = u.rows /\ t.queries = Append(u.queries, q)
  BY <1>2, AskFields
<1>5. Known(t, f) = k
  BY <1>4 DEF Known
<1>6. q \in Query
  <2>1. <<f, k>> \in Object /\ 0 \in Version
    BY <1>1, <1>3, NumberType, ChangesAssumption DEF Version
  <2> HIDE DEF k, f
  <2> QED  BY <1>1, <2>1 DEF Query
<1>7. s.queries \in Seq(Query)
  BY DEF FilesTyped
<1> HIDE DEF u, t, k, q
<1>8. Range(t.queries) = Range(s.queries) \cup {q} /\ t.queries \in Seq(Query)
  BY <1>3, <1>4, <1>6, <1>7, RangeOfAppend
<1>9. FilesTyped(t)
  BY <1>3, <1>4, <1>8 DEF FilesTyped
<1> QED  BY <1>3, <1>4, <1>5, <1>8, <1>9 DEF t, q, k, f, update

LEMMA NotifyRemoves ==
  ASSUME NEW s, FilesTyped(s), GoneAsked(s), Fits(s), NEW c \in FileChange,
         c.kind = "removed", shown # {}
  PROVE  LET t == Notify(s, c) IN
         /\ FilesTyped(t) /\ t.info = s.info /\ t.queries = s.queries
         /\ \A g \in File \ {c.file} : t.hash[g] = s.hash[g] /\ t.cache[g] = s.cache[g]
         /\ t.hash[c.file] = 0 /\ t.cache[c.file] = 0
         /\ \A v \in View : /\ t.rows[v] \subseteq s.rows[v]
                            /\ \A o \in s.rows[v] : o[1] # c.file => o \in t.rows[v]
<1> DEFINE f == c.file
           update == c.kind = "added"
           u == FindOrInsert(s, f, update)
           t == Notify(s, c)
           k == Known(u, f)
<1>1. f \in File /\ update \in BOOLEAN
  BY DEF FileChange
<1>2. t = Removed(u, f)
  BY DEF Notify
<1> HIDE DEF f, update
<1>3. /\ u.cache = s.cache /\ u.info = s.info /\ u.gone = s.gone /\ u.rows = s.rows
      /\ u.queries = s.queries /\ u.hash \in [File -> Number]
      /\ \A g \in File \ {f} : u.hash[g] = s.hash[g]
      /\ k \in Number \ {0} /\ u.hash[f] \in {s.hash[f], k}
      /\ (update => u.hash[f] = k)
      /\ (Known(s, f) # 0 => k = Known(s, f))
      /\ (Known(s, f) = 0 => <<f, k>> \notin InUse(s))
  BY <1>1, FindOrInsertFields
<1> HIDE DEF u, t
<1>4. /\ t.hash = [u.hash EXCEPT ![f] = 0] /\ t.cache = [u.cache EXCEPT ![f] = 0]
      /\ t.info = u.info /\ t.gone = u.gone \cup {<<f, k>>} /\ t.queries = u.queries
      /\ t.rows = [v \in View |-> u.rows[v] \ {<<f, k>>}]
  BY <1>2 DEF Removed
<1> HIDE DEF k
<1>5. s.cache \in [File -> Number] /\ 0 \in Number /\ <<f, k>> \in Object
  BY <1>1, <1>3, NumberType DEF FilesTyped, Number
<1>6. /\ t.hash \in [File -> Number] /\ t.cache \in [File -> Number]
      /\ t.hash[f] = 0 /\ t.cache[f] = 0
      /\ \A g \in File \ {f} : t.hash[g] = u.hash[g] /\ t.cache[g] = s.cache[g]
  BY <1>1, <1>3, <1>4, <1>5
<1>7. FilesTyped(t)
  BY <1>3, <1>4, <1>5, <1>6 DEF FilesTyped
<1>8. \A v \in View : /\ t.rows[v] \subseteq s.rows[v]
                      /\ \A o \in s.rows[v] : o[1] # f => o \in t.rows[v]
  BY <1>3, <1>4
<1> QED  BY <1>3, <1>4, <1>6, <1>7, <1>8 DEF t, f

\* A notification is about one file.
LEMMA NotifyOthers ==
  ASSUME NEW s, FilesTyped(s), GoneAsked(s), Fits(s), NEW c \in FileChange,
         shown # {}, NEW g \in File, g # c.file
  PROVE  LET t == Notify(s, c) IN
         /\ Dead(s, g) => Dead(t, g)
         /\ \A vs \in SUBSET View : \A later :
              Present(s, g, vs, later) => Present(t, g, vs, later)
         /\ Awaiting(s, g) => Awaiting(t, g)
         /\ \A n : (Current(s, g, n) => Current(t, g, n)) /\ (Asked(s, g, n) => Asked(t, g, n))
         /\ t.cache[g] = s.cache[g]
<1> DEFINE t == Notify(s, c)
<1>1. /\ t.info = s.info /\ t.hash[g] = s.hash[g] /\ t.cache[g] = s.cache[g]
      /\ Range(s.queries) \subseteq Range(t.queries)
      /\ \A q \in Range(t.queries) : q \in Range(s.queries) \/ q.object[1] # g
      /\ \A v \in View : /\ t.rows[v] \subseteq s.rows[v]
                         /\ \A o \in s.rows[v] : o[1] = g => o \in t.rows[v]
  <2>1. CASE c.kind = "removed"
    <3>1. /\ t.info = s.info /\ t.queries = s.queries
          /\ t.hash[g] = s.hash[g] /\ t.cache[g] = s.cache[g]
          /\ \A v \in View : /\ t.rows[v] \subseteq s.rows[v]
                             /\ \A o \in s.rows[v] : o[1] # c.file => o \in t.rows[v]
      BY <2>1, NotifyRemoves
    <3>2. \A q \in Range(t.queries) : q \in Range(s.queries)
      BY <3>1
    <3> QED  BY <3>1, <3>2
  <2>2. CASE c.kind # "removed"
    <3> DEFINE q == [object |-> <<c.file, Known(t, c.file)>>, kind |-> c.kind,
                     read |-> FALSE, got |-> 0]
    <3>1. /\ t.info = s.info /\ t.cache = s.cache /\ t.rows = s.rows
          /\ Range(t.queries) = Range(s.queries) \cup {q}
          /\ \A h \in File \ {c.file} : t.hash[h] = s.hash[h]
      BY <2>2, NotifyAsks, Zenon
    <3>2. q.object[1] # g
      OBVIOUS
    <3> HIDE DEF q
    <3> QED  BY <3>1, <3>2
  <2> QED  BY <2>1, <2>2
<1> HIDE DEF t
<1>2. Known(t, g) = Known(s, g)
  BY <1>1 DEF Known
<1>3. Dead(s, g) => Dead(t, g)
  BY <1>1 DEF Dead
<1>4. ASSUME NEW vs \in SUBSET View, NEW later, Present(s, g, vs, later)
      PROVE  Present(t, g, vs, later)
  BY <1>1, <1>4 DEF Present
<1>5. Awaiting(s, g) => Awaiting(t, g)
  BY <1>1 DEF Awaiting
<1>6. \A n : (Current(s, g, n) => Current(t, g, n)) /\ (Asked(s, g, n) => Asked(t, g, n))
  BY <1>1, <1>2 DEF Current, Asked
<1> QED  BY <1>1, <1>3, <1>4, <1>5, <1>6 DEF t

LEMMA NotifyItself ==
  ASSUME NEW s, Sound(s, shown, TRUE), GoneAsked(s), Fits(s), Freed(s), NEW c \in FileChange,
         shown # {}
  PROVE  LET t == Notify(s, c)
             f == c.file IN
         /\ FilesTyped(t)
         /\ c.kind = "removed" \/ Dead(s, f) => Dead(t, f)
         /\ c.kind = "added" => Awaiting(t, f)
         /\ c.kind # "removed" => t.cache[f] = s.cache[f] /\ \A n : Asked(t, f, n)
         /\ c.kind # "removed" =>
              /\ \A vs, later : Present(s, f, vs, later) => Present(t, f, vs, later)
              /\ Awaiting(s, f) => Awaiting(t, f)
<1> DEFINE f == c.file
           t == Notify(s, c)
           k == Known(t, f)
           q == [object |-> <<f, k>>, kind |-> c.kind, read |-> FALSE, got |-> 0]
<1>1. FilesTyped(s) /\ OneRow(s) /\ f \in File
  BY DEF Sound, FileChange
<1>2. CASE c.kind = "removed"
  <2>1. FilesTyped(t) /\ t.hash[f] = 0 /\ t.cache[f] = 0
    BY <1>1, <1>2, NotifyRemoves
  <2>2. Sound(t, shown, TRUE)
    BY NotifySound
  <2>3. OneRow(t)
    BY <2>2 DEF Sound
  <2> HIDE DEF t, f
  <2>4. Dead(t, f)
    BY <1>1, <2>1, <2>3, UnknownIsDead
  <2> QED  BY <1>2, <2>1, <2>4 DEF t, f
<1>3. CASE c.kind # "removed"
  <2>1. FilesTyped(t)
    BY <1>1, <1>3, NotifyAsks, Zenon
  <2>2. /\ t.cache = s.cache /\ t.info = s.info /\ t.rows = s.rows
        /\ Range(t.queries) = Range(s.queries) \cup {q}
        /\ t.hash[f] \in {s.hash[f], k} /\ k \in Number \ {0}
        /\ (c.kind = "added" => t.hash[f] = k)
        /\ (Known(s, f) # 0 => k = Known(s, f))
        /\ (Known(s, f) = 0 => <<f, k>> \notin InUse(s))
    BY <1>1, <1>3, NotifyAsks, Zenon
  <2>3. q.object = <<f, k>> /\ q.kind = c.kind /\ ~q.read /\ q.got = 0
    OBVIOUS
  <2>4. <<f, k>> \in Object
    BY <1>1, <2>2, NumberType
  <2>5. k = Known(t, f)
    OBVIOUS
  <2> HIDE DEF q, t, k, f
  <2>6. q \in Range(t.queries) /\ Range(s.queries) \subseteq Range(t.queries)
    BY <2>2
  <2>7. ASSUME Dead(s, f) PROVE Dead(t, f)
    <3>1. \A v \in View : \A o \in t.rows[v] : o[1] # f
      BY <2>2, <2>7 DEF Dead
    <3>2. ASSUME NEW j \in {t.hash[f], t.cache[f]} \ {0}
          PROVE  t.info[<<f, j>>] = 0 /\ \A r \in Range(t.queries) : r.object = <<f, j>> => r.got = 0
      <4>1. j \in {s.hash[f], s.cache[f], k}
        BY <2>2
      <4>2. CASE j \in {s.hash[f], s.cache[f]}
        <5>1. s.info[<<f, j>>] = 0 /\ \A r \in Range(s.queries) : r.object = <<f, j>> => r.got = 0
          BY <2>7, <3>2, <4>2 DEF Dead
        <5> QED  BY <2>2, <2>3, <5>1
      <4>3. CASE j = k /\ j \notin {s.hash[f], s.cache[f]}
        <5>1. <<f, k>> \notin InUse(s)
          BY <2>2, <4>3 DEF Known
        <5>2. s.info[<<f, k>>] = 0
          BY <2>4, <5>1 DEF Freed
        <5>3. \A r \in Range(s.queries) : r.object # <<f, k>>
          BY <5>1 DEF InUse
        <5> QED  BY <2>2, <2>3, <4>3, <5>2, <5>3
      <4> QED  BY <4>1, <4>2, <4>3
    <3> QED  BY <3>1, <3>2 DEF Dead
  <2>8. ASSUME c.kind = "added" PROVE Awaiting(t, f)
    BY <2>2, <2>3, <2>6, <2>8 DEF Awaiting
  <2>9. \A n : Asked(t, f, n)
    BY <2>3, <2>5, <2>6 DEF Asked
  <2>10. s.hash[f] # 0 => t.hash[f] = s.hash[f]
    BY <2>2 DEF Known
  <2>11. \A vs, later : Present(s, f, vs, later) => Present(t, f, vs, later)
    BY <2>2, <2>10 DEF Present
  <2>12. Awaiting(s, f) => Awaiting(t, f)
    BY <2>6, <2>10 DEF Awaiting
  <2> QED  BY <1>3, <2>1, <2>2, <2>7, <2>8, <2>9, <2>11, <2>12 DEF t, f
<1> QED  BY <1>2, <1>3

LEMMA HeardFacts ==
  ASSUME FolderIInv, HeardInv, NoMishap
  PROVE  /\ Sound(Files(queries), shown, TRUE) /\ FilesTyped(Files(queries))
         /\ Alive(Files(queries)) /\ OneRow(Files(queries)) /\ GoneAsked(Files(queries))
         /\ Freed(Files(queries)) /\ Attached
BY DEF FolderIInv, HeardInv, FilesOK, Sound, Clean, NoMishap, Attached

\* Before it is loaded the folder knows nothing.
LEMMA UnreadHeard ==
  ASSUME NoMishap', FilesOK', FolderShape', Attached', state' = "NOT_LOADED"
  PROVE  Heard'
<1>1. Unread' /\ ~monitor' /\ listing'.pc = "none"
  BY DEF Unread, FolderShape
<1>2. hash' = NoObjects
  BY <1>1 DEF Attached
<1> DEFINE t == Files(queries)'
<1>3. t.hash = hash' /\ t.cache = cache'
  BY DEF Files
<1>4. FilesTyped(t) /\ OneRow(t)
  BY DEF FilesOK, Sound, Clean, NoMishap
<1>5. ASSUME NEW f \in File, cache'[f] = 0 PROVE Dead(t, f)
  <2>1. t.hash[f] = 0 /\ t.cache[f] = 0
    BY <1>2, <1>3, <1>5 DEF NoObjects
  <2> HIDE DEF t
  <2> QED  BY <1>4, <2>1, UnknownIsDead
<1>6. ASSUME NEW f \in File PROVE GoneHeard(f)'
  BY <1>1, <1>5, <1>6 DEF GoneHeard, SeenGone
<1> QED  BY <1>1, <1>6 DEF Heard

LEMMA NewsFields ==
  \A kind, f : News(kind, f).kind = kind /\ News(kind, f).file = f
BY DEF News

\* One change is taken from the queue.
LEMMA NextChangeNews ==
  ASSUME FolderTypeOK, NextChange
  PROVE  /\ OnTheWay = {Head(changes)} \cup OnTheWay'
         /\ AllRedeemed => AllRedeemed'
         /\ AllRedeemed /\ Head(changes).kind = "removed" /\ disk[Head(changes).file] # 0
              => News("added", Head(changes).file) \in OnTheWay'
<1>1. /\ changes # <<>> /\ changes' = Tail(changes) /\ notifying
      /\ UNCHANGED <<disk, stored, events, consumers, notifying>>
  BY DEF NextChange, diskVars, monitorVars, freezeVars
<1>2. changes \in Seq(FileChange)
  BY DEF FolderTypeOK
<1>3. Range(changes) = {Head(changes)} \cup Range(changes')
  BY <1>1, <1>2, RangeOfTail
<1>4. OnTheWay = {Head(changes)} \cup OnTheWay' /\ Range(changes') \subseteq OnTheWay'
      /\ Range(stored) \cup Range(events) \subseteq OnTheWay'
  BY <1>1, <1>3 DEF OnTheWay, Due
<1>5. ASSUME AllRedeemed
      PROVE  /\ AllRedeemed'
             /\ Head(changes).kind = "removed" /\ disk[Head(changes).file] # 0
                  => News("added", Head(changes).file) \in OnTheWay'
  <2>1. Redeemed(changes, Range(stored) \cup Range(events), disk)
    BY <1>5 DEF AllRedeemed
  <2>2. /\ Redeemed(changes', Range(stored) \cup Range(events), disk)
        /\ Head(changes).kind = "removed" /\ disk[Head(changes).file] # 0
             => News("added", Head(changes).file)
                  \in Range(changes') \cup (Range(stored) \cup Range(events))
    BY <1>1, <1>2, <2>1, RedeemedTail
  <2>3. Redeemed(stored, Range(events), disk)
    BY <1>5 DEF AllRedeemed
  <2>4. AllRedeemed'
    BY <1>1, <2>2, <2>3 DEF AllRedeemed
  <2> QED  BY <1>4, <2>2, <2>4
<1> QED  BY <1>4, <1>5

LEMMA NextChangeHeard ==
  ASSUME FolderIInv, HeardInv, NextChange, FilesOK', FolderShape', Attached', NoMishap', ~Stale'
  PROVE  Heard'
<1> DEFINE s == Files(queries)
           c == Head(changes)
           f == c.file
           t == Notify(s, c)
           z == Files(queries)'
<1>1. /\ changes # <<>> /\ Fits(s) /\ Become(t)
      /\ UNCHANGED <<disk, state, monitor, listing, stored, shown, listening, reload>>
      /\ NoMishap /\ ~(listing.pc = "batch" /\ c.kind = "removed")
      /\ ~(~monitor /\ shown # {})
  BY DEF NextChange, NoMishap, diskVars, monitorVars, freezeVars, idleVars
<1>2. CASE state = "NOT_LOADED"
  BY <1>1, <1>2, UnreadHeard
<1>3. CASE state # "NOT_LOADED"
  <2>0. Unread' <=> Unread
    BY <1>1 DEF Unread
  <2>1. shown # {} /\ ~Stale
    <3>1. shown # {}
      BY <1>3 DEF HeardInv, FolderShape
    <3>2. stored' = stored /\ reload' = reload
      BY <1>1
    <3>3. ~Stale
      BY <3>2 DEF Stale, Full
    <3> QED  BY <3>1, <3>3
  <2>2. c \in FileChange /\ f \in File /\ c = News(c.kind, f) /\ FolderTypeOK
    <3>1. FolderTypeOK /\ c \in FileChange
      BY <1>1 DEF FolderIInv, FolderTypeOK
    <3> HIDE DEF c
    <3>2. c.file \in File /\ c = [kind |-> c.kind, file |-> c.file]
      BY <3>1 DEF FileChange
    <3> QED  BY <3>1, <3>2 DEF News
  <2>3. /\ Sound(s, shown, TRUE) /\ FilesTyped(s) /\ GoneAsked(s) /\ Freed(s)
        /\ s.cache = cache
    BY <1>1, HeardFacts, FilesFields
  <2>4. /\ OnTheWay = {c} \cup OnTheWay' /\ (AllRedeemed => AllRedeemed')
        /\ (AllRedeemed /\ c.kind = "removed" /\ disk[f] # 0 => News("added", f) \in OnTheWay')
    BY <2>2, NextChangeNews
  <2>5. z.cache = t.cache
    BY <1>1, BecomeFields DEF Files
  <2>6. /\ FilesTyped(t)
        /\ c.kind = "removed" \/ Dead(s, f) => Dead(t, f)
        /\ (c.kind = "added" => Awaiting(t, f))
        /\ (c.kind # "removed" => t.cache[f] = s.cache[f] /\ \A n : Asked(t, f, n))
        /\ c.kind # "removed" =>
              /\ \A vs, later : Present(s, f, vs, later) => Present(t, f, vs, later)
              /\ Awaiting(s, f) => Awaiting(t, f)
    BY <1>1, <2>1, <2>2, <2>3, NotifyItself
  <2>7. \A g \in File \ {f} :
          /\ Dead(s, g) => Dead(t, g)
          /\ Present(s, g, shown, listening) => Present(t, g, shown, listening)
          /\ Awaiting(s, g) => Awaiting(t, g)
          /\ \A n : (Current(s, g, n) => Current(t, g, n)) /\ (Asked(s, g, n) => Asked(t, g, n))
          /\ t.cache[g] = s.cache[g]
    <3>1. shown \in SUBSET View
      BY <2>2 DEF FolderTypeOK
    <3> HIDE DEF s, t, c
    <3> QED  BY <1>1, <2>1, <2>2, <2>3, <3>1, NotifyOthers DEF t
  <2> HIDE DEF s, c, f, t, z
  <2>8. \A g \in File :
          /\ Dead(t, g) => Dead(z, g)
          /\ \A vs, later : Present(t, g, vs, later) => Present(z, g, vs, later)
          /\ Awaiting(t, g) => Awaiting(z, g)
          /\ \A n : (Current(t, g, n) => Current(z, g, n)) /\ (Asked(t, g, n) => Asked(z, g, n))
    BY <1>1, <2>6, BecomeSeen DEF z
  <2>9. ASSUME NEW g \in File, disk[g] = 0, Unread => cache'[g] = 0
        PROVE  News("removed", g) \in OnTheWay' \/ SeenGone(g)'
    <3>1. CASE c = News("removed", g)
      <4>1. Dead(z, g) /\ listing.pc # "batch"
        BY <1>1, <2>2, <2>6, <2>8, <2>9, <3>1, NewsFields
      <4> QED  BY <1>1, <4>1 DEF SeenGone, z
    <3>2. CASE c # News("removed", g)
      <4>1. z.cache[g] = cache[g]
        <5>1. CASE g = f
          BY <2>2, <2>3, <2>5, <2>6, <3>2, <5>1
        <5>2. CASE g # f
          BY <2>3, <2>5, <2>7, <5>2
        <5> QED  BY <5>1, <5>2
      <4>2. cache'[g] = cache[g]
        BY <4>1 DEF z, Files
      <4>3. News("removed", g) \in OnTheWay \/ SeenGone(g)
        BY <1>1, <2>0, <2>1, <2>9, <4>2 DEF HeardInv, Heard, GoneHeard
      <4>4. CASE News("removed", g) \in OnTheWay
        BY <2>4, <3>2, <4>4
      <4>5. CASE SeenGone(g)
        <5>1. Dead(s, g)
          BY <4>5 DEF SeenGone, s
        <5>2. Dead(z, g)
          BY <2>6, <2>7, <2>8, <5>1
        <5> QED  BY <1>1, <4>5, <5>2 DEF SeenGone, z
      <4> QED  BY <4>3, <4>4, <4>5
    <3> QED  BY <3>1, <3>2
  <2>10. ASSUME NEW g \in File, disk[g] # 0, ~Unread
         PROVE  /\ News("added", g) \in OnTheWay' \/ SeenThere(g)'
                /\ News("added", g) \in OnTheWay' \/ News("changed", g) \in OnTheWay' \/ SeenNow(g)'
    <3>1. /\ AllRedeemed
          /\ News("added", g) \in OnTheWay \/ SeenThere(g)
          /\ News("added", g) \in OnTheWay \/ News("changed", g) \in OnTheWay \/ SeenNow(g)
      BY <1>1, <2>1, <2>10 DEF HeardInv, Heard, ThereHeard
    <3>2. CASE g = f /\ c.kind = "removed"
      BY <2>4, <2>10, <3>1, <3>2
    <3>3. CASE g = f /\ c.kind # "removed"
      <4>1. Asked(z, g, disk[g])
        BY <2>6, <2>8, <3>3
      <4>2. SeenNow(g)'
        BY <1>1, <4>1 DEF SeenNow, z
      <4>3. CASE c.kind = "added"
        <5>1. Awaiting(z, g)
          BY <2>6, <2>8, <3>3, <4>3
        <5> QED  BY <4>2, <5>1 DEF SeenThere, z
      <4>4. CASE c.kind # "added"
        <5>1. CASE News("added", g) \in OnTheWay
          BY <2>4, <4>2, <4>4, <5>1, NewsFields
        <5>2. CASE SeenThere(g)
          <6>1. \/ Present(z, g, shown, listening) \/ Awaiting(z, g)
                \/ listing.pc = "batch" /\ listing.found[g] # 0
            BY <2>6, <2>8, <3>3, <5>2 DEF SeenThere, s
          <6> QED  BY <1>1, <4>2, <6>1 DEF SeenThere, z
        <5> QED  BY <3>1, <5>1, <5>2
      <4> QED  BY <4>3, <4>4
    <3>4. CASE g # f
      <4>1. \A kind : News(kind, g) \in OnTheWay => News(kind, g) \in OnTheWay'
        BY <2>2, <2>4, <3>4, NewsFields
      <4>2. SeenThere(g) => SeenThere(g)'
        <5>1. /\ Present(s, g, shown, listening) => Present(z, g, shown, listening)
              /\ Awaiting(s, g) => Awaiting(z, g)
          BY <2>7, <2>8, <3>4
        <5> QED  BY <1>1, <5>1 DEF SeenThere, s, z
      <4>3. SeenNow(g) => SeenNow(g)'
        <5>1. /\ Current(s, g, disk[g]) => Current(z, g, disk[g])
              /\ Asked(s, g, disk[g]) => Asked(z, g, disk[g])
          BY <2>7, <2>8, <3>4
        <5> QED  BY <1>1, <5>1 DEF SeenNow, s, z
      <4> QED  BY <3>1, <4>1, <4>2, <4>3
    <3> QED  BY <3>2, <3>3, <3>4
  <2>11. \A g \in File : GoneHeard(g)'
    BY <1>1, <2>0, <2>1, <2>9 DEF GoneHeard, News
  <2>12. ~Unread => AllRedeemed' /\ \A g \in File : ThereHeard(g)'
    <3>1. ~Unread => AllRedeemed'
      BY <1>1, <2>1, <2>4 DEF HeardInv, Heard
    <3> QED  BY <1>1, <2>10, <3>1 DEF ThereHeard, News
  <2> QED  BY <2>0, <2>11, <2>12 DEF Heard
<1> QED  BY <1>2, <1>3

\* A thread has read a file as it is.
LEMMA QueryReadHeard ==
  ASSUME FolderIInv, HeardInv, NEW i \in 1 .. Len(queries), QueryRead(i), NoMishap', ~Stale'
  PROVE  Heard'
<1> DEFINE s == Files(queries)
           z == Files(queries)'
           q == queries[i]
           n == disk[q.object[1]]
           r == [q EXCEPT !.read = TRUE, !.got = n]
<1>1. /\ UNCHANGED <<disk, state, hash, cache, info, gone, listing, events, stored, changes,
                     consumers, notifying, shown, listening, reload, rows, mishaps>>
      /\ queries' = [queries EXCEPT ![i] = r]
  BY DEF QueryRead, diskVars, fileVars, monitorVars, freezeVars, queueVars, viewVars, idleVars
<1>2. NoMishap /\ ~Stale /\ (Unread' <=> Unread)
  BY <1>1 DEF NoMishap, Stale, Full, Unread
<1>3. queries \in Seq(Query) /\ q \in Query /\ n \in Version
  <2>1. queries \in Seq(Query)
    BY QueriesTyped DEF FolderIInv
  <2>2. q \in Query
    BY <2>1
  <2>3. q.object[1] \in File
    BY <2>2, NumberType DEF Query
  <2> QED  BY <2>1, <2>2, <2>3 DEF FolderIInv, FolderTypeOK
<1> HIDE DEF n, q
<1>4. r \in Query /\ r.object = q.object /\ r.kind = q.kind /\ r.read /\ r.got = n
  BY <1>3 DEF Query
<1> HIDE DEF r
<1>5. /\ Range(queries') \subseteq Range(queries) \cup {r} /\ r \in Range(queries')
      /\ \A y \in Range(queries) : y = q \/ y \in Range(queries')
  BY <1>1, <1>3, <1>4, RangeOfUpdate DEF q
<1>6. q \in Range(queries)
  BY <1>3 DEF q, Range
<1>7. /\ s.hash = hash /\ s.cache = cache /\ s.info = info /\ s.rows = rows /\ s.queries = queries
      /\ z.hash = hash /\ z.cache = cache /\ z.info = info /\ z.rows = rows
      /\ z.queries = queries'
  BY <1>1 DEF Files
<1> HIDE DEF s, z
<1>8. ASSUME NEW f \in File
      PROVE  /\ Known(z, f) = Known(s, f)
             /\ disk[f] = 0 /\ Dead(s, f) => Dead(z, f)
             /\ Present(s, f, shown, listening) => Present(z, f, shown, listening)
             /\ disk[f] # 0 /\ Awaiting(s, f) => Awaiting(z, f)
             /\ Current(s, f, disk[f]) => Current(z, f, disk[f])
             /\ Asked(s, f, disk[f]) => Asked(z, f, disk[f])
  <2>1. Known(z, f) = Known(s, f)
    BY <1>7 DEF Known
  <2>2. \A k : r.object = <<f, k>> => r.got = disk[f]
    BY <1>4 DEF n
  <2>3. disk[f] = 0 /\ Dead(s, f) => Dead(z, f)
    BY <1>5, <1>7, <2>2 DEF Dead
  <2>4. Present(s, f, shown, listening) => Present(z, f, shown, listening)
    BY <1>7 DEF Present
  <2>5. disk[f] # 0 /\ Awaiting(s, f) => Awaiting(z, f)
    BY <1>4, <1>5, <1>7, <2>2 DEF Awaiting
  <2>6. Current(s, f, disk[f]) => Current(z, f, disk[f])
    BY <1>7 DEF Current
  <2>7. Asked(s, f, disk[f]) => Asked(z, f, disk[f])
    BY <1>4, <1>5, <1>7, <2>1, <2>2 DEF Asked
  <2> QED  BY <2>1, <2>3, <2>4, <2>5, <2>6, <2>7
<1>9. ViewsKept
  BY <1>1, <1>8 DEF ViewsKept, SeenGone, SeenThere, SeenNow, s, z
<1>10. NewsKept
  BY <1>1 DEF NewsKept, OnTheWay, Due, AllRedeemed
<1> QED  BY <1>1, <1>2, <1>9, <1>10, HeardKept DEF HeardInv

\* What query_info_async goes on with.
LEMMA AnswerFields ==
  ASSUME NEW i \in 1 .. Len(queries), QueryReturns(i), FilesOK
  PROVE  \E t :
    LET q == queries[i] IN
    /\ Become(t) /\ t.hash = hash /\ t.cache = cache /\ t.queries = RemoveAt(queries, i)
    /\ t.info = IF q.got = 0 THEN info ELSE [info EXCEPT ![q.object] = q.got]
    /\ t.rows = IF q.got # 0 /\ q.object \notin gone /\ q.kind = "added"
                  THEN [v \in View |-> IF v \in shown THEN rows[v] \cup {q.object} ELSE rows[v]]
                  ELSE rows
    /\ t.gone = gone
<1> DEFINE q == queries[i]
           s == Files(RemoveAt(queries, i))
           u == [s EXCEPT !.info[q.object] = q.got]
           t == IF q.got = 0 THEN s ELSE Refresh(u, q)
<1>1. Become(t)
  BY DEF QueryReturns
<1>2. /\ s.hash = hash /\ s.cache = cache /\ s.info = info
      /\ s.gone = gone /\ s.rows = rows /\ s.queries = RemoveAt(queries, i)
  BY FilesFields
<1>3. /\ u.hash = hash /\ u.cache = cache /\ u.info = [info EXCEPT ![q.object] = q.got]
      /\ u.gone = gone /\ u.rows = rows /\ u.queries = RemoveAt(queries, i)
  BY <1>2
<1> HIDE DEF q, s, u
<1>4. t = IF q.got = 0 THEN s
          ELSE IF q.object \notin u.gone /\ q.kind = "added" THEN Shown(u, shown, {q.object}) ELSE u
  BY DEF Refresh
<1>5. CASE q.got = 0
  BY <1>1, <1>2, <1>4, <1>5 DEF q
<1>6. CASE q.got # 0 /\ q.object \notin u.gone /\ q.kind = "added"
  <2>1. t = Shown(u, shown, {q.object})
    BY <1>4, <1>6
  <2> HIDE DEF t
  <2> DEFINE w == Shown(u, shown, {q.object})
  <2>2. /\ w.hash = u.hash /\ w.cache = u.cache /\ w.info = u.info /\ w.gone = u.gone
        /\ w.queries = u.queries
        /\ w.rows = [v \in View |-> IF v \in shown THEN u.rows[v] \cup {q.object} ELSE u.rows[v]]
    BY ShownFields
  <2> HIDE DEF w
  <2>3. t = w
    BY <2>1 DEF w
  <2> QED  BY <1>1, <1>3, <1>6, <2>2, <2>3, ZenonT(40) DEF q
<1>7. CASE q.got # 0 /\ ~(q.object \notin u.gone /\ q.kind = "added")
  <2>1. t = u
    BY <1>4, <1>7
  <2> HIDE DEF t
  <2> QED  BY <1>1, <1>3, <1>7, <2>1 DEF q
<1> QED  BY <1>5, <1>6, <1>7

\* An answer comes: what it tells is seen, unless the file is gone meanwhile.
LEMMA QueryReturnsHeard ==
  ASSUME FolderIInv, HeardInv, NEW i \in 1 .. Len(queries), QueryReturns(i), NoMishap', ~Stale'
  PROVE  Heard'
<1> DEFINE s == Files(queries)
           z == Files(queries)'
           q == queries[i]
<1>1. /\ UNCHANGED <<disk, state, listing, events, stored, changes,
                     consumers, notifying, shown, listening, reload>>
      /\ q.read /\ NoMishap
      /\ (q.object \notin gone /\ 0 < q.got => ~(q.got < info[q.object]))
      /\ (q.object \notin gone => hash[q.object[1]] = q.object[2])
  BY DEF QueryReturns, NoMishap, diskVars, monitorVars, freezeVars, queueVars, idleVars
<1>2. /\ ~Stale /\ (Unread' <=> Unread) /\ NewsKept
  BY <1>1 DEF NoMishap, Stale, Full, Unread, NewsKept, OnTheWay, Due, AllRedeemed
<1>3. queries \in Seq(Query) /\ q \in Query /\ FilesOK /\ q \in Range(queries)
  <2>1. queries \in Seq(Query) /\ FilesOK
    BY QueriesTyped DEF FolderIInv
  <2> QED  BY <2>1 DEF Range
<1>4. q.object \in Object /\ q.got \in Version /\ q.object = <<q.object[1], q.object[2]>>
      /\ q.object[1] \in File /\ q.object[2] # 0
  BY <1>3, NumberType DEF Query
<1>5. PICK t :
        /\ Become(t) /\ t.hash = hash /\ t.cache = cache /\ t.queries = RemoveAt(queries, i)
        /\ t.info = IF q.got = 0 THEN info ELSE [info EXCEPT ![q.object] = q.got]
        /\ t.rows = IF q.got # 0 /\ q.object \notin gone /\ q.kind = "added"
                      THEN [v \in View |-> IF v \in shown THEN rows[v] \cup {q.object} ELSE rows[v]]
                      ELSE rows
        /\ t.gone = gone
  BY <1>3, AnswerFields
<1>6. /\ Range(t.queries) \subseteq Range(queries) /\ t.queries \in Seq(Query)
      /\ \A x \in Range(queries) : x = q \/ x \in Range(t.queries)
  BY <1>3, <1>5, RangeOfRemoveAt
<1>7. /\ s.hash = hash /\ s.cache = cache /\ s.info = info /\ s.rows = rows /\ s.queries = queries
      /\ s.gone = gone
  BY DEF Files
<1>8. FilesTyped(s) /\ Alive(s)
  BY <1>1, HeardFacts
<1> HIDE DEF s, q
<1>9. /\ \A v \in View : /\ rows[v] \subseteq t.rows[v]
                         /\ \A o \in t.rows[v] : o \in rows[v] \/ (o = q.object /\ q.got # 0
                                                                  /\ q.object \notin gone)
      /\ q.got # 0 /\ q.object \notin gone /\ q.kind = "added" =>
           \A v \in View : v \in shown => q.object \in t.rows[v]
      /\ t.rows \in [View -> SUBSET Object]
  <2>1. rows \in [View -> SUBSET Object]
    BY <1>7, <1>8 DEF FilesTyped
  <2> QED  BY <1>4, <1>5, <2>1
<1>10. /\ t.info \in [Object -> Version]
       /\ \A o \in Object : o # q.object => t.info[o] = info[o]
       /\ t.info[q.object] = IF q.got = 0 THEN info[q.object] ELSE q.got
  <2>1. info \in [Object -> Version]
    BY <1>7, <1>8 DEF FilesTyped
  <2> QED  BY <1>4, <1>5, <2>1
<1>11. FilesTyped(t)
  BY <1>5, <1>6, <1>7, <1>8, <1>9, <1>10 DEF FilesTyped
<1>12. \A f \in File : Known(t, f) = Known(s, f)
  BY <1>5, <1>7 DEF Known
<1>13. ASSUME NEW f \in File
       PROVE  /\ Dead(s, f) => Dead(t, f)
              /\ Present(s, f, shown, listening) \/ Awaiting(s, f)
                   => Present(t, f, shown, listening) \/ Awaiting(t, f)
              /\ disk[f] # 0 /\ (Current(s, f, disk[f]) \/ Asked(s, f, disk[f]))
                   => Current(t, f, disk[f]) \/ Asked(t, f, disk[f])
  <2>0. /\ s.hash[f] \in Number /\ s.cache[f] \in Number
        /\ \A k \in {s.hash[f], s.cache[f]} \ {0} : <<f, k>> \in Object
    BY <1>8, NumberType DEF FilesTyped
  <2>1. CASE q.object = <<f, s.hash[f]>> /\ q.object \notin gone
    <3>1. s.hash[f] # 0 /\ Known(s, f) = s.hash[f] /\ q.object[1] = f
      BY <1>4, <2>1 DEF Known
    <3>2. Dead(s, f) => Dead(t, f)
      <4>1. SUFFICES ASSUME Dead(s, f) PROVE Dead(t, f)
        OBVIOUS
      <4>2. q.got = 0
        BY <1>3, <1>7, <2>1, <3>1, <4>1 DEF Dead
      <4>3. t.rows = rows /\ t.info = info
        BY <1>5, <4>2
      <4> QED  BY <1>5, <1>6, <1>7, <4>1, <4>3 DEF Dead
    <3>3. Present(s, f, shown, listening) => Present(t, f, shown, listening)
      <4>1. SUFFICES ASSUME Present(s, f, shown, listening)
                     PROVE  Present(t, f, shown, listening)
        OBVIOUS
      <4>2. t.hash[f] = s.hash[f] /\ t.info[q.object] # 0
        BY <1>5, <1>7, <1>10, <2>1, <4>1 DEF Present
      <4>3. \A v \in shown : q.object \in t.rows[v] \/ v \in listening
        BY <1>7, <1>9, <2>1, <4>1 DEF Present, FolderIInv, FolderTypeOK
      <4> QED  BY <2>1, <3>1, <4>2, <4>3 DEF Present
    <3>4. Awaiting(s, f) => Present(t, f, shown, listening) \/ Awaiting(t, f)
      <4>1. SUFFICES ASSUME Awaiting(s, f), ~Awaiting(t, f)
                     PROVE  Present(t, f, shown, listening)
        OBVIOUS
      <4>2. PICK r \in Range(s.queries) :
                   r.object = <<f, s.hash[f]>> /\ r.kind = "added" /\ (r.read => r.got # 0)
        BY <4>1 DEF Awaiting
      <4>3. r = q
        BY <1>5, <1>6, <1>7, <3>1, <4>1, <4>2 DEF Awaiting
      <4>4. q.got # 0 /\ q.kind = "added"
        BY <1>1, <4>2, <4>3
      <4>5. shown \subseteq View
        BY DEF FolderIInv, FolderTypeOK
      <4> QED  BY <1>5, <1>7, <1>9, <1>10, <2>1, <3>1, <4>4, <4>5 DEF Present
    <3>5. ASSUME disk[f] # 0, Current(s, f, disk[f]) PROVE Current(t, f, disk[f])
      <4>1. info[q.object] = disk[f]
        BY <1>7, <2>1, <3>5 DEF Current
      <4>2. CASE q.got = 0
        BY <1>5, <1>7, <1>10, <2>1, <3>1, <4>1, <4>2 DEF Current
      <4>3. CASE q.got # 0
        <5>1. q.got <= disk[f]
          BY <1>3, <3>1, <3>5 DEF HeardInv, Versions, NotNewer
        <5>2. q.got \in Nat /\ disk[f] \in Nat
          BY <1>4 DEF FolderIInv, FolderTypeOK, Version
        <5>3. q.got = disk[f]
          BY <1>1, <2>1, <4>1, <4>3, <5>1, <5>2
        <5> QED  BY <1>5, <1>7, <1>10, <2>1, <3>1, <4>3, <5>3 DEF Current
      <4> QED  BY <4>2, <4>3
    <3>6. ASSUME disk[f] # 0, Asked(s, f, disk[f])
          PROVE  Current(t, f, disk[f]) \/ Asked(t, f, disk[f])
      <4>1. PICK r \in Range(s.queries) :
                   r.object = <<f, Known(s, f)>> /\ (r.read => r.got = disk[f])
        BY <3>6 DEF Asked
      <4>2. CASE r \in Range(t.queries)
        BY <1>12, <4>1, <4>2 DEF Asked
      <4>3. CASE r = q
        BY <1>1, <1>5, <1>7, <1>10, <2>1, <3>1, <3>6, <4>1, <4>3 DEF Current
      <4> QED  BY <1>6, <1>7, <4>2, <4>3
    <3> QED  BY <3>2, <3>3, <3>4, <3>5, <3>6
  <2>2. CASE ~(q.object = <<f, s.hash[f]>> /\ q.object \notin gone)
    <3>1. q.object \notin gone => q.object[1] # f
      BY <1>1, <1>4, <1>7, <2>2
    <3>2. ASSUME NEW k \in {s.hash[f], s.cache[f]} PROVE q.object # <<f, k>>
      <4>1. <<f, k>> \notin gone /\ <<f, k>>[1] = f
        BY <1>7, <1>8 DEF Alive
      <4> QED  BY <3>1, <4>1
    <3>3. \A k \in {s.hash[f], s.cache[f]} \ {0} : t.info[<<f, k>>] = s.info[<<f, k>>]
      BY <1>7, <1>10, <2>0, <3>2
    <3>4. Dead(s, f) => Dead(t, f)
      BY <1>5, <1>6, <1>7, <1>9, <3>1, <3>3 DEF Dead
    <3>5. Present(s, f, shown, listening) => Present(t, f, shown, listening)
      BY <1>5, <1>7, <1>9, <3>3 DEF Present, FolderIInv, FolderTypeOK
    <3>6. Awaiting(s, f) => Awaiting(t, f)
      BY <1>5, <1>6, <1>7, <3>2 DEF Awaiting
    <3>7. Current(s, f, disk[f]) => Current(t, f, disk[f])
      BY <1>5, <1>7, <3>3 DEF Current
    <3>8. Asked(s, f, disk[f]) => Asked(t, f, disk[f])
      <4>1. Known(s, f) \in {s.hash[f], s.cache[f]}
        BY DEF Known
      <4> QED  BY <1>6, <1>7, <1>12, <3>2, <4>1 DEF Asked
    <3> QED  BY <3>4, <3>5, <3>6, <3>7, <3>8
  <2> QED  BY <2>1, <2>2
<1> HIDE DEF z
<1>14. ASSUME NEW f \in File
       PROVE  /\ Dead(s, f) => Dead(z, f)
              /\ Present(s, f, shown, listening) \/ Awaiting(s, f)
                   => Present(z, f, shown, listening) \/ Awaiting(z, f)
              /\ disk[f] # 0 /\ (Current(s, f, disk[f]) \/ Asked(s, f, disk[f]))
                   => Current(z, f, disk[f]) \/ Asked(z, f, disk[f])
  <2>1. /\ Dead(t, f) => Dead(z, f)
        /\ \A vs, later : Present(t, f, vs, later) => Present(z, f, vs, later)
        /\ Awaiting(t, f) => Awaiting(z, f)
        /\ \A n : (Current(t, f, n) => Current(z, f, n)) /\ (Asked(t, f, n) => Asked(z, f, n))
    BY <1>5, <1>11, BecomeSeen DEF z
  <2> QED  BY <1>13, <2>1
<1>15. ViewsKept
  BY <1>1, <1>14 DEF ViewsKept, SeenGone, SeenThere, SeenNow, s, z
<1>16. cache' = cache
  BY <1>5, BecomeFields
<1> QED  BY <1>1, <1>2, <1>15, <1>16, HeardKept DEF HeardInv

\* The folder is read as it is: nothing of what is still to be told contradicts it.
LEMMA ListingReadsHeard ==
  ASSUME FolderIInv, HeardInv, ListingReads, NoMishap', ~Stale'
  PROVE  Heard'
<1> DEFINE z == Files(queries)'
<1>1. /\ UNCHANGED <<disk, state, hash, cache, info, gone, events, stored, changes,
                     consumers, notifying, shown, listening, reload, rows, queries>>
      /\ listing.pc = "reading" /\ listing' = [pc |-> "batch", found |-> disk]
      /\ NoMishap /\ Leftovers = {} /\ \A f \in File : disk[f] = 0 => cache[f] = 0
  BY DEF ListingReads, NoMishap, diskVars, fileVars, monitorVars, freezeVars, queueVars,
         viewVars, idleVars
<1>2. ~Stale
  BY <1>1 DEF Stale, Full
<1>3. z = Files(queries) /\ listing'.pc = "batch" /\ listing'.found = disk
  BY <1>1 DEF Files
<1> HIDE DEF z
<1>4. OnTheWay' = OnTheWay
  BY <1>1 DEF OnTheWay, Due
<1>5. ASSUME NEW f \in File PROVE GoneHeard(f)'
  <2>1. GoneHeard(f)
    BY <1>1, <1>2 DEF HeardInv, Heard
  <2>2. SUFFICES ASSUME disk[f] = 0 PROVE News("removed", f) \in OnTheWay' \/ SeenGone(f)'
    BY <1>1 DEF GoneHeard, News
  <2>3. News("removed", f) \in OnTheWay \/ Dead(Files(queries), f)
    BY <1>1, <2>1, <2>2 DEF GoneHeard, SeenGone
  <2> QED  BY <1>3, <1>4, <2>2, <2>3 DEF SeenGone, z
<1>6. ASSUME NEW f \in File PROVE ThereHeard(f)'
  <2>1. SUFFICES ASSUME disk[f] # 0 PROVE SeenThere(f)' /\ SeenNow(f)'
    BY <1>1 DEF ThereHeard
  <2> QED  BY <1>1, <1>3, <2>1 DEF SeenThere, SeenNow
<1>7. AllRedeemed'
  <2>1. \A x \in Range(changes) \cup Range(stored) : ~(x.kind = "removed" /\ disk[x.file] # 0)
    BY <1>1 DEF Leftovers
  <2>2. /\ \A i \in DOMAIN changes : changes[i] \in Range(changes)
        /\ \A i \in DOMAIN stored : stored[i] \in Range(stored)
    BY DEF Range
  <2>3. /\ Redeemed(changes, Range(stored) \cup Range(events), disk)
        /\ Redeemed(stored, Range(events), disk)
    BY <2>1, <2>2 DEF Redeemed
  <2> QED  BY <1>1, <2>3 DEF AllRedeemed
<1> QED  BY <1>5, <1>6, <1>7 DEF Heard

\* A file was created that nobody knew.
LEMMA CreateJobDoneHeard ==
  ASSUME FolderIInv, HeardInv, CreateJobDone, NoMishap', ~Stale'
  PROVE  Heard'
<1> DEFINE s == Files(queries)
           z == Files(queries)'
<1>1. /\ UNCHANGED <<disk, state, listing, events, stored, changes,
                     consumers, shown, listening, reload, mishaps>>
      /\ notifying' = TRUE /\ Fits(s)
  BY DEF CreateJobDone, diskVars, monitorVars, freezeVars, idleVars
<1>2. NoMishap /\ ~Stale /\ (Unread' <=> Unread)
  BY <1>1 DEF NoMishap, Stale, Full, Unread
<1>3. NewsKept
  BY <1>1 DEF NewsKept, OnTheWay, Due, AllRedeemed
<1>4. /\ FilesTyped(s) /\ GoneAsked(s) /\ Freed(s) /\ s.hash = hash /\ s.cache = cache
  BY <1>2, HeardFacts, FilesFields
<1>5. CASE UNCHANGED <<fileVars, queries, rows>>
  <2>1. z = s /\ cache' = cache
    BY <1>5 DEF Files, fileVars
  <2>2. ViewsKept
    BY <1>1, <2>1 DEF ViewsKept, SeenGone, SeenThere, SeenNow
  <2> QED  BY <1>1, <1>2, <1>3, <2>1, <2>2, HeardKept DEF HeardInv
<1>6. ASSUME NEW f \in File,
             Become(IF Known(s, f) = 0 THEN [s EXCEPT !.cache[f] = New(s, f)[2]] ELSE s)
      PROVE  Heard'
  <2> DEFINE k == New(s, f)[2]
             t == IF Known(s, f) = 0 THEN [s EXCEPT !.cache[f] = k] ELSE s
  <2>1. k \in Number \ {0} /\ <<f, k>> \notin InUse(s)
    <3>1. PICK n \in 1 .. MaxObjects : <<f, n>> \notin InUse(s)
      BY <1>1 DEF Fits
    <3>2. <<f, New(s, f)[2]>> \notin InUse(s)
      BY <3>1 DEF New
    <3> QED  BY <1>1, <1>4, <3>2, NewIsFree
  <2>2. Become(t)
    BY <1>6
  <2> HIDE DEF k, s
  <2>3. /\ t.hash = s.hash /\ t.info = s.info /\ t.rows = s.rows /\ t.queries = s.queries
        /\ t.gone = s.gone
        /\ t.cache = IF Known(s, f) = 0 THEN [s.cache EXCEPT ![f] = k] ELSE s.cache
    BY DEF s, Files
  <2> HIDE DEF t
  <2>4. /\ t.cache \in [File -> Number]
        /\ \A g \in File : t.cache[g] = s.cache[g] \/ (g = f /\ Known(s, f) = 0 /\ t.cache[f] = k)
    BY <1>4, <2>1, <2>3 DEF FilesTyped
  <2>5. FilesTyped(t)
    BY <1>4, <2>3, <2>4 DEF FilesTyped
  <2>6. <<f, k>> \in Object /\ s.info[<<f, k>>] = 0
        /\ \A q \in Range(s.queries) : q.object # <<f, k>>
    <3>1. <<f, k>> \in Object
      BY <2>1, NumberType
    <3> QED  BY <1>4, <2>1, <3>1 DEF Freed, InUse
  <2>7. ASSUME NEW g \in File
        PROVE  /\ Dead(s, g) => Dead(t, g)
               /\ Present(s, g, shown, listening) => Present(t, g, shown, listening)
               /\ Awaiting(s, g) => Awaiting(t, g)
               /\ \A n : Current(s, g, n) => Current(t, g, n)
               /\ \A n : Asked(s, g, n) => Asked(t, g, n)
    <3>1. Dead(s, g) => Dead(t, g)
      BY <2>3, <2>4, <2>6 DEF Dead
    <3>2. \A n : Asked(s, g, n) => Asked(t, g, n)
      <4>1. Known(t, g) = Known(s, g) \/ Known(s, g) = 0
        BY <2>3, <2>4 DEF Known
      <4>2. Known(s, g) = 0 => \A n : ~Asked(s, g, n)
        <5>1. <<g, 0>> \notin Object
          BY NumberType
        <5>2. \A q \in Range(s.queries) : q.object \in Object
          BY QueriesTyped DEF FolderIInv, s, Files
        <5> QED  BY <5>1, <5>2 DEF Asked
      <4> QED  BY <2>3, <4>1, <4>2 DEF Asked
    <3> QED  BY <2>3, <3>1, <3>2 DEF Present, Awaiting, Current
  <2>8. \A g \in File :
          /\ Dead(t, g) => Dead(z, g)
          /\ \A vs, later : Present(t, g, vs, later) => Present(z, g, vs, later)
          /\ Awaiting(t, g) => Awaiting(z, g)
          /\ \A n : (Current(t, g, n) => Current(z, g, n)) /\ (Asked(t, g, n) => Asked(z, g, n))
    BY <2>2, <2>5, BecomeSeen
  <2> HIDE DEF z
  <2>9. ViewsKept
    BY <1>1, <2>7, <2>8 DEF ViewsKept, SeenGone, SeenThere, SeenNow, s, z
  <2>10. \A g \in File : cache'[g] = 0 => cache[g] = 0
    <3>1. cache' = t.cache
      BY <2>2, BecomeFields
    <3> QED  BY <1>4, <2>1, <2>4, <3>1 DEF Known
  <2> QED  BY <1>1, <1>2, <1>3, <2>9, <2>10, HeardKept DEF HeardInv
<1> QED  BY <1>5, <1>6 DEF CreateJobDone

\* list_directory gets what was read: it is not older than what the views know.
LEMMA ListingBatchHeard ==
  ASSUME FolderIInv, HeardInv, ListingBatch, NoMishap', ~Stale'
  PROVE  Heard'
<1> DEFINE s == Files(queries)
           z == Files(queries)'
           found == {f \in File : listing.found[f] # 0}
           Of(f) == IF cache[f] # 0 THEN cache[f] ELSE New(s, f)[2]
           objects == {<<f, Of(f)>> : f \in found}
           files == [s EXCEPT
             !.hash = [f \in File |-> IF f \in found THEN Of(f) ELSE @[f]],
             !.info = [o \in Object |-> IF o[1] \in found /\ o[2] = Of(o[1])
                                          THEN listing.found[o[1]] ELSE @[o]]]
           t == Shown(files, listening, objects)
<1>1. /\ UNCHANGED <<disk, state, monitor, events, stored, changes,
                     consumers, notifying, shown, listening, reload>>
      /\ ~Busy /\ Fits(s) /\ listing.pc = "batch" /\ listing' = [Nothing EXCEPT !.pc = "last"]
  BY DEF ListingBatch, diskVars, monitorVars, freezeVars, queueVars, idleVars
<1>2. Become(t)
  BY DEF ListingBatch
<1>3. /\ NoMishap
      /\ \A f \in found : hash[f] \in {0, Of(f)} /\ ~(info[<<f, Of(f)>>] > listing.found[f])
  BY DEF ListingBatch, NoMishap
<1>4. ~Stale /\ state = "LOADING" /\ listing'.pc = "last"
  BY <1>1 DEF Stale, Full, HeardInv, FolderShape, Nothing
<1>5. ~Unread /\ ~Unread' /\ NewsKept
  BY <1>1, <1>4 DEF Unread, NewsKept, OnTheWay, Due, AllRedeemed
<1>6. listening = shown /\ shown \subseteq View
  BY <1>3, <1>4, HeardFacts DEF Attached, FolderIInv, FolderTypeOK
<1>7. /\ FilesTyped(s) /\ GoneAsked(s) /\ s.hash = hash /\ s.cache = cache /\ s.info = info
      /\ s.rows = rows /\ s.queries = queries
  BY <1>3, HeardFacts, FilesFields
<1>8. found \subseteq File /\ \A f \in File : listing.found[f] \in Version
  BY DEF FolderIInv, FolderTypeOK, Listing
<1>9. \A f \in found : Of(f) \in Number \ {0} /\ <<f, Of(f)>> \in Object
  <2>1. SUFFICES ASSUME NEW f \in found PROVE Of(f) \in Number \ {0}
    BY <1>8, NumberType
  <2>2. cache[f] \in Number
    BY <1>7, <1>8 DEF FilesTyped
  <2> QED  BY <1>1, <1>7, <1>8, <2>2, NewIsFree
<1>10. /\ files.hash = [f \in File |-> IF f \in found THEN Of(f) ELSE hash[f]]
       /\ files.info = [o \in Object |-> IF o[1] \in found /\ o[2] = Of(o[1])
                                           THEN listing.found[o[1]] ELSE info[o]]
       /\ files.cache = cache /\ files.gone = s.gone /\ files.rows = rows
       /\ files.queries = queries
  BY <1>7
<1> HIDE DEF files
<1>11. /\ t.hash = files.hash /\ t.cache = cache /\ t.info = files.info /\ t.gone = files.gone
       /\ t.queries = queries
       /\ t.rows = [v \in View |-> IF v \in listening THEN rows[v] \cup objects ELSE rows[v]]
  BY <1>10, ShownFields
<1>12. \A f \in found : (cache[f] # 0 => Of(f) = cache[f])
  OBVIOUS
<1> HIDE DEF s, t, Of
<1>13. objects \subseteq Object /\ \A o \in objects : o[1] \in found
  BY <1>9
<1>14. \A f \in found : <<f, Of(f)>> \in objects
  OBVIOUS
<1>15. \A f \in File : /\ f \in found <=> listing.found[f] # 0
                       /\ listing.found[f] \in Nat /\ disk[f] \in Nat
                       /\ disk[f] # 0 => listing.found[f] <= disk[f]
  BY <1>8 DEF Version, HeardInv, Versions, NotNewer, FolderIInv, FolderTypeOK
<1> HIDE DEF objects, found
<1>16. FilesTyped(t)
  <2>1. t.hash \in [File -> Number]
    <3>1. \A f \in File : (IF f \in found THEN Of(f) ELSE hash[f]) \in Number
      BY <1>7, <1>9 DEF FilesTyped
    <3> QED  BY <1>10, <1>11, <3>1
  <2>2. t.info \in [Object -> Version]
    <3>1. \A o \in Object : (IF o[1] \in found /\ o[2] = Of(o[1])
                               THEN listing.found[o[1]] ELSE info[o]) \in Version
      BY <1>7, <1>8 DEF FilesTyped
    <3> QED  BY <1>10, <1>11, <3>1
  <2>3. t.rows \in [View -> SUBSET Object]
    BY <1>7, <1>11, <1>13 DEF FilesTyped
  <2> QED  BY <1>7, <1>10, <1>11, <2>1, <2>2, <2>3 DEF FilesTyped
<1>17. ASSUME NEW f \in File, f \notin found
       PROVE  /\ Dead(s, f) => Dead(t, f)
              /\ Present(s, f, shown, listening) => Present(t, f, shown, listening)
              /\ Awaiting(s, f) => Awaiting(t, f)
              /\ Current(s, f, disk[f]) => Current(t, f, disk[f])
              /\ Asked(s, f, disk[f]) => Asked(t, f, disk[f])
  <2>1. t.hash[f] = s.hash[f] /\ t.cache[f] = s.cache[f] /\ Known(t, f) = Known(s, f)
    BY <1>7, <1>10, <1>11, <1>17 DEF Known
  <2>2. \A k \in {s.hash[f], s.cache[f]} \ {0} : t.info[<<f, k>>] = s.info[<<f, k>>]
    <3>1. ASSUME NEW k \in {s.hash[f], s.cache[f]} \ {0}
          PROVE  t.info[<<f, k>>] = s.info[<<f, k>>]
      <4>1. <<f, k>> \in Object /\ <<f, k>>[1] = f
        BY <1>7, HashIsUsed
      <4> QED  BY <1>7, <1>10, <1>11, <1>17, <4>1
    <3> QED  BY <3>1
  <2>3. Dead(s, f) => Dead(t, f)
    BY <1>7, <1>11, <1>13, <1>17, <2>1, <2>2 DEF Dead
  <2>4. Present(s, f, shown, listening) => Present(t, f, shown, listening)
    BY <1>6, <1>7, <1>11, <2>1, <2>2 DEF Present
  <2>5. Awaiting(s, f) => Awaiting(t, f)
    BY <1>7, <1>11, <2>1 DEF Awaiting
  <2>6. Current(s, f, disk[f]) => Current(t, f, disk[f])
    BY <2>1, <2>2 DEF Current
  <2>7. Asked(s, f, disk[f]) => Asked(t, f, disk[f])
    BY <1>7, <1>11, <2>1 DEF Asked
  <2> QED  BY <2>3, <2>4, <2>5, <2>6, <2>7
<1>18. ASSUME NEW f \in File, f \in found
       PROVE  /\ Present(t, f, shown, listening)
              /\ disk[f] # 0 /\ (SeenNow(f) \/ listing.found[f] = disk[f])
                   => Current(t, f, disk[f]) \/ Asked(t, f, disk[f])
  <2>1. /\ t.hash[f] = Of(f) /\ t.hash[f] # 0 /\ t.info[<<f, Of(f)>>] = listing.found[f]
        /\ t.cache[f] = cache[f]
    <3>1. <<f, Of(f)>> \in Object /\ <<f, Of(f)>>[1] = f /\ <<f, Of(f)>>[2] = Of(f)
      BY <1>9, <1>18
    <3>2. t.info[<<f, Of(f)>>] = listing.found[f]
      BY <1>10, <1>11, <1>18, <3>1
    <3> QED  BY <1>9, <1>10, <1>11, <1>18, <3>2
  <2>2. Present(t, f, shown, listening)
    BY <1>6, <1>11, <1>14, <1>15, <1>18, <2>1 DEF Present
  <2>3. CASE listing.found[f] = disk[f]
    BY <2>1, <2>2, <2>3 DEF Current
  <2>4. ASSUME disk[f] # 0, Current(s, f, disk[f]) PROVE Current(t, f, disk[f])
    <3>1. hash[f] = Of(f) /\ info[<<f, Of(f)>>] = disk[f]
      BY <1>3, <1>7, <1>18, <2>4 DEF Current
    <3>2. listing.found[f] = disk[f]
      BY <1>3, <1>15, <1>18, <2>4, <3>1
    <3> QED  BY <2>1, <3>2 DEF Current
  <2>5. ASSUME disk[f] # 0, Asked(s, f, disk[f]) PROVE Asked(t, f, disk[f])
    <3>1. PICK q \in Range(queries) :
                 q.object = <<f, Known(s, f)>> /\ (q.read => q.got = disk[f])
      BY <1>7, <2>5 DEF Asked
    <3>2. Known(s, f) # 0
      <4>1. <<f, 0>> \notin Object /\ q.object \in Object
        BY NumberType, QueriesTyped DEF FolderIInv
      <4> QED  BY <3>1, <4>1
    <3>3. Known(t, f) = Known(s, f)
      BY <1>3, <1>7, <1>12, <1>18, <2>1, <3>2 DEF Known
    <3> QED  BY <1>11, <3>1, <3>3 DEF Asked
  <2>6. SeenNow(f) => \/ Current(s, f, disk[f]) \/ Asked(s, f, disk[f])
                      \/ listing.found[f] = disk[f]
    BY DEF SeenNow, s
  <2> QED  BY <2>2, <2>3, <2>4, <2>5, <2>6
<1>19. \A g \in File :
         /\ Dead(t, g) => Dead(z, g)
         /\ \A vs, later : Present(t, g, vs, later) => Present(z, g, vs, later)
         /\ Awaiting(t, g) => Awaiting(z, g)
         /\ \A n : (Current(t, g, n) => Current(z, g, n)) /\ (Asked(t, g, n) => Asked(z, g, n))
  BY <1>2, <1>16, BecomeSeen
<1> HIDE DEF z
<1>20. ASSUME NEW f \in File, SeenGone(f) PROVE SeenGone(f)'
  <2>1. Dead(s, f) /\ f \notin found
    BY <1>1, <1>15, <1>20 DEF SeenGone, s
  <2>2. Dead(z, f)
    BY <1>17, <1>19, <2>1
  <2> QED  BY <1>4, <2>2 DEF SeenGone, z
<1>21. ASSUME NEW f \in File, SeenThere(f) PROVE SeenThere(f)'
  <2>1. Present(z, f, shown, listening) \/ Awaiting(z, f)
    <3>1. CASE f \in found
      BY <1>18, <1>19, <3>1
    <3>2. CASE f \notin found
      <4>1. Present(s, f, shown, listening) \/ Awaiting(s, f)
        BY <1>15, <1>21, <3>2 DEF SeenThere, s
      <4> QED  BY <1>17, <1>19, <3>2, <4>1
    <3> QED  BY <3>1, <3>2
  <2> QED  BY <1>1, <2>1 DEF SeenThere, z
<1>22. ASSUME NEW f \in File, disk[f] # 0, SeenNow(f) PROVE SeenNow(f)'
  <2>1. Current(z, f, disk[f]) \/ Asked(z, f, disk[f])
    <3>1. CASE f \in found
      BY <1>18, <1>19, <1>22, <3>1
    <3>2. CASE f \notin found
      <4>1. Current(s, f, disk[f]) \/ Asked(s, f, disk[f])
        BY <1>15, <1>22, <3>2 DEF SeenNow, s
      <4> QED  BY <1>17, <1>19, <3>2, <4>1
    <3> QED  BY <3>1, <3>2
  <2> QED  BY <1>1, <2>1 DEF SeenNow, z
<1>23. ViewsKept
  BY <1>20, <1>21, <1>22 DEF ViewsKept
<1>24. cache' = cache
  BY <1>2, <1>11, BecomeFields
<1> QED  BY <1>1, <1>3, <1>4, <1>5, <1>23, <1>24, HeardKept DEF HeardInv

\* Tabs that are handed the objects of the folder, or will be.
LEMMA RowsSeen ==
  ASSUME FolderIInv, UNCHANGED <<disk, hash, cache, info, queries>>,
         listing' = listing \/ (listing.pc # "batch" /\ listing'.pc # "batch"),
         shown' \subseteq View, \A v \in View : rows'[v] \subseteq rows[v] \cup Hashed,
         \A v \in shown' : \/ v \in listening' \/ Hashed \subseteq rows'[v]
                           \/ v \in shown /\ v \notin listening /\ rows[v] \subseteq rows'[v]
  PROVE  ViewsKept
<1> DEFINE s == Files(queries)
           z == Files(queries)'
<1>1. /\ s.hash = hash /\ s.cache = cache /\ s.info = info /\ s.rows = rows
      /\ s.queries = queries
      /\ z.hash = hash /\ z.cache = cache /\ z.info = info /\ z.rows = rows'
      /\ z.queries = queries
  BY DEF Files
<1>2. FilesTyped(s)
  BY DEF FolderIInv, FilesOK, Sound
<1> HIDE DEF s, z
<1>3. ASSUME NEW f \in File
      PROVE  /\ Dead(s, f) => Dead(z, f)
             /\ Present(s, f, shown, listening) => Present(z, f, shown', listening')
             /\ Awaiting(s, f) => Awaiting(z, f)
             /\ Current(s, f, disk[f]) => Current(z, f, disk[f])
             /\ Asked(s, f, disk[f]) => Asked(z, f, disk[f])
  <2>1. ASSUME Dead(s, f) PROVE Dead(z, f)
    <3>1. ASSUME NEW v \in View, NEW o \in rows'[v], o[1] = f PROVE FALSE
      <4>1. o \in Hashed
        BY <1>1, <2>1, <3>1 DEF Dead
      <4>2. o \in Object /\ o = <<f, hash[f]>> /\ hash[f] # 0 /\ info[o] # 0
        BY <3>1, <4>1, NumberType DEF Hashed
      <4> QED  BY <1>1, <2>1, <4>2 DEF Dead
    <3> QED  BY <1>1, <2>1, <3>1 DEF Dead
  <2>2. ASSUME Present(s, f, shown, listening) PROVE Present(z, f, shown', listening')
    <3>1. hash[f] # 0 /\ info[<<f, hash[f]>>] # 0
      BY <1>1, <2>2 DEF Present
    <3>2. <<f, hash[f]>> \in Object /\ <<f, hash[f]>>[1] = f /\ <<f, hash[f]>>[2] = hash[f]
      BY <1>1, <1>2, <3>1, HashIsUsed
    <3>3. <<f, hash[f]>> \in Hashed
      BY <3>1, <3>2 DEF Hashed
    <3>4. ASSUME NEW v \in shown' PROVE <<f, hash[f]>> \in rows'[v] \/ v \in listening'
      BY <1>1, <2>2, <3>3 DEF Present
    <3> QED  BY <1>1, <3>1, <3>4 DEF Present
  <2>3. Awaiting(s, f) => Awaiting(z, f)
    BY <1>1 DEF Awaiting
  <2>4. /\ Current(s, f, disk[f]) => Current(z, f, disk[f])
        /\ Asked(s, f, disk[f]) => Asked(z, f, disk[f])
    BY <1>1 DEF Current, Asked, Known
  <2> QED  BY <2>1, <2>2, <2>3, <2>4
<1> QED  BY <1>3 DEF ViewsKept, SeenGone, SeenThere, SeenNow, s, z

LEMMA NewsSame ==
  ASSUME UNCHANGED <<disk, changes, stored, events>>, Due => Due' \/ changes = <<>>
  PROVE  NewsKept
<1>1. Range(<<>>) = {}
  BY DEF Range
<1>2. Due => Range(changes) = {} \/ Due'
  BY <1>1
<1>3. Range(changes') = Range(changes)
  OBVIOUS
<1> QED  BY <1>2, <1>3 DEF NewsKept, OnTheWay, AllRedeemed

\* Nothing is stored when the folder is frozen.
LEMMA FreezeNews ==
  ASSUME FolderTypeOK, Freeze, NoMishap', ~Stale',
         UNCHANGED <<disk, changes, consumers, notifying, events, reload>>
  PROVE  NewsKept /\ ~Stale
<1>1. stored = <<>> /\ stored' = <<>>
  BY DEF Freeze, Mishap, NoMishap
<1>2. ~Stale
  BY <1>1 DEF Stale, Full
<1> QED  BY <1>1, <1>2, NewsSame DEF Due

\* What is stored is sent.
LEMMA UnfreezeNews ==
  ASSUME FolderTypeOK, FolderShape, Unfreeze, state # "NOT_LOADED", ~Stale',
         UNCHANGED <<disk, events>>
  PROVE  NewsKept /\ ~Stale
<1>1. ~Full
  BY DEF FolderShape, Unfreeze, Stale
<1>2. /\ changes' = changes \o stored /\ stored' = <<>> /\ UNCHANGED <<notifying, reload>>
      /\ consumers' = consumers \cup (IF stored # <<>> THEN {"folder"} ELSE {})
  BY <1>1 DEF Unfreeze, Replayed, Folder
<1>3. ~Stale
  BY <1>1, <1>2 DEF Stale
<1>4. changes \in Seq(FileChange) /\ stored \in Seq(FileChange)
  BY DEF FolderTypeOK
<1>5. Range(changes') = Range(changes) \cup Range(stored) /\ Range(<<>>) = {}
  <2>1. Range(<<>>) = {}
    BY DEF Range
  <2> QED  BY <1>2, <1>4, <2>1, RangeOfConcat
<1>6. (Due => Due') /\ (stored # <<>> => Due')
  BY <1>2 DEF Due
<1>7. OnTheWay \subseteq OnTheWay'
  BY <1>2, <1>5, <1>6 DEF OnTheWay
<1>8. ASSUME AllRedeemed PROVE AllRedeemed'
  <2>1. /\ Redeemed(changes, Range(stored) \cup Range(events), disk)
        /\ Redeemed(stored, Range(events), disk)
    BY <1>8 DEF AllRedeemed
  <2>2. Redeemed(changes \o stored, Range(events), disk)
    BY <1>4, <2>1, RedeemedConcat
  <2>3. Range(<<>>) \cup Range(events) = Range(events)
    BY <1>5
  <2> QED  BY <1>2, <2>2, <2>3, RedeemedLater DEF AllRedeemed
<1> QED  BY <1>3, <1>7, <1>8 DEF NewsKept

LEMMA DoneLoadingNews ==
  ASSUME FolderTypeOK, FolderShape, DoneLoading, state # "NOT_LOADED", ~Stale',
         UNCHANGED <<disk, events>>
  PROVE  NewsKept /\ ~Stale
<1>1. CASE frozen # {}
  BY <1>1, UnfreezeNews DEF DoneLoading
<1>2. CASE frozen = {}
  <2>1. UNCHANGED <<stored, changes, consumers, notifying, reload>>
    BY <1>2 DEF DoneLoading, freezeVars, queueVars
  <2>2. ~Stale
    BY <2>1 DEF Stale, Full
  <2> QED  BY <2>1, <2>2, NewsSame DEF Due
<1> QED  BY <1>1, <1>2

\* The disk changes, and the monitor tells it when the folder has been read.
LEMMA HappensHeard ==
  ASSUME FolderIInv, HeardInv, NEW f \in File, NEW kind \in EventKinds, Happens(f, kind),
         UNCHANGED <<state, hash, cache, info, gone, listing, monitor, stored, queries, rows,
                     shown, listening, reload>>,
         changes' \in {changes, Append(changes, News(kind, f))}, Due => Due',
         NoMishap', ~Stale'
  PROVE  Heard'
<1> DEFINE e == News(kind, f)
           n == IF kind = "removed" THEN 0 ELSE ops + 1
<1>1. /\ disk' = [disk EXCEPT ![f] = n] /\ (disk[f] = 0 <=> kind = "added")
      /\ events' = IF monitor THEN Append(events, e) ELSE events
      /\ NoMishap /\ ~(Loading /\ listing.pc # "reading")
  BY DEF Happens, Mishap, NoMishap, News
<1>2. ~Stale /\ (Unread' <=> Unread)
  BY DEF Stale, Full, Unread
<1>3. FolderTypeOK /\ e \in FileChange /\ disk \in [File -> Nat] /\ n \in Nat
      /\ (n = 0 <=> kind = "removed") /\ e.kind = kind /\ e.file = f
  BY DEF FolderIInv, FolderTypeOK, FileChange, News, Version
<1>4. /\ changes \in Seq(FileChange) /\ stored \in Seq(FileChange) /\ events \in Seq(FileChange)
  BY <1>3 DEF FolderTypeOK
<1> HIDE DEF n, e
<1>5. ~Unread => monitor
  <2>1. state \in {"NOT_LOADED", "LOADING", "LOADED"} /\ (state = "LOADED" => monitor)
    BY DEF HeardInv, FolderShape
  <2>2. state = "LOADING" /\ ~monitor => listing.pc = "reading"
    BY <1>1 DEF Loading
  <2> QED  BY <2>1, <2>2 DEF Unread
<1>6. Range(changes) \subseteq Range(changes')
  <2>1. Range(Append(changes, e)) = Range(changes) \cup {e}
    BY <1>3, <1>4, RangeOfAppend
  <2>2. changes' = changes \/ changes' = Append(changes, e)
    BY DEF e
  <2> QED  BY <2>1, <2>2
<1>7. Range(events') = Range(events) \cup (IF monitor THEN {e} ELSE {})
  BY <1>1, <1>3, <1>4, RangeOfAppend
<1>8. OnTheWay \subseteq OnTheWay' /\ (monitor => e \in OnTheWay')
  BY <1>6, <1>7 DEF OnTheWay
<1>9. Files(queries)' = Files(queries)
  BY DEF Files
<1>10. \A g \in File \ {f} : disk'[g] = disk[g]
  BY <1>1, <1>3
<1>11. disk'[f] = n
  BY <1>1, <1>3
<1>12. ASSUME NEW g \in File PROVE GoneHeard(g)'
  <2>1. SUFFICES ASSUME disk'[g] = 0, Unread => cache[g] = 0
                 PROVE  News("removed", g) \in OnTheWay' \/ SeenGone(g)'
    BY <1>2 DEF GoneHeard, News
  <2>2. CASE g = f
    <3>1. kind = "removed"
      BY <1>3, <1>11, <2>1, <2>2
    <3>2. CASE monitor
      BY <1>8, <2>2, <3>1, <3>2 DEF e
    <3>3. CASE ~monitor
      <4>1. Unread /\ hash = NoObjects /\ cache[g] = 0
        BY <1>1, <1>5, <2>1, <3>3, HeardFacts DEF Attached
      <4>2. Dead(Files(queries), g)
        <5>1. /\ FilesTyped(Files(queries)) /\ OneRow(Files(queries))
              /\ Files(queries).hash[g] = 0 /\ Files(queries).cache[g] = 0
          BY <1>1, <4>1, HeardFacts, FilesFields DEF NoObjects
        <5> QED  BY <5>1, UnknownIsDead
      <4>3. listing.pc # "batch"
        BY <4>1 DEF Unread, HeardInv, FolderShape
      <4> QED  BY <1>9, <4>2, <4>3 DEF SeenGone
    <3> QED  BY <3>2, <3>3
  <2>3. CASE g # f
    <3>1. News("removed", g) \in OnTheWay \/ SeenGone(g)
      BY <1>1, <1>2, <1>10, <2>1, <2>3 DEF HeardInv, Heard, GoneHeard
    <3>2. SeenGone(g) => SeenGone(g)'
      BY <1>9 DEF SeenGone
    <3> QED  BY <1>8, <3>1, <3>2
  <2> QED  BY <2>2, <2>3
<1>13. ASSUME ~Unread, NEW g \in File PROVE ThereHeard(g)'
  <2>1. SUFFICES ASSUME disk'[g] # 0
                 PROVE  /\ News("added", g) \in OnTheWay' \/ SeenThere(g)'
                        /\ \/ News("added", g) \in OnTheWay'
                           \/ News("changed", g) \in OnTheWay' \/ SeenNow(g)'
    BY DEF ThereHeard, News
  <2>2. SeenThere(g) => SeenThere(g)'
    BY <1>9 DEF SeenThere
  <2>3. CASE g # f
    <3>1. disk'[g] = disk[g] /\ disk[g] # 0
      BY <1>10, <2>1, <2>3
    <3>2. /\ News("added", g) \in OnTheWay \/ SeenThere(g)
          /\ News("added", g) \in OnTheWay \/ News("changed", g) \in OnTheWay \/ SeenNow(g)
      BY <1>1, <1>2, <1>13, <3>1 DEF HeardInv, Heard, ThereHeard
    <3>3. SeenNow(g) => SeenNow(g)'
      BY <1>9, <3>1 DEF SeenNow
    <3> QED  BY <1>8, <2>2, <3>2, <3>3
  <2>4. CASE g = f
    <3>1. e \in OnTheWay' /\ kind # "removed"
      BY <1>3, <1>5, <1>8, <1>11, <1>13, <2>1, <2>4
    <3>2. CASE kind = "added"
      BY <2>4, <3>1, <3>2 DEF e
    <3>3. CASE kind = "changed"
      <4>1. News("added", g) \in OnTheWay \/ SeenThere(g)
        BY <1>1, <1>2, <1>13, <2>4, <3>3 DEF HeardInv, Heard, ThereHeard
      <4> QED  BY <1>8, <2>2, <2>4, <3>1, <3>3, <4>1 DEF e
    <3> QED  BY <3>1, <3>2, <3>3 DEF EventKinds
  <2> QED  BY <2>3, <2>4
<1>14. ASSUME ~Unread PROVE AllRedeemed'
  <2> DEFINE before == Range(stored) \cup Range(events)
             after == Range(stored) \cup Range(events')
  <2>1. Redeemed(changes, before, disk) /\ Redeemed(stored, Range(events), disk)
    BY <1>1, <1>2, <1>14 DEF HeardInv, Heard, AllRedeemed
  <2>2. e \in Range(events') /\ Range(events) \subseteq Range(events') /\ before \subseteq after
    BY <1>5, <1>7, <1>14
  <2>3. n = 0 \/ disk[f] # 0 \/ News("added", f) \in Range(events')
    BY <1>1, <1>3, <2>2 DEF EventKinds, e
  <2>4. Redeemed(stored, Range(events'), disk')
    <3>1. Redeemed(stored, Range(events'), disk)
      BY <2>1, <2>2, RedeemedLater
    <3> QED  BY <1>1, <1>3, <1>4, <2>3, <3>1, RedeemedDisk
  <2>5. Redeemed(changes, after, disk')
    <3>1. Redeemed(changes, after, disk) /\ Range(events') \subseteq after
      BY <2>1, <2>2, RedeemedLater
    <3> HIDE DEF after
    <3> QED  BY <1>1, <1>3, <1>4, <2>3, <3>1, RedeemedDisk
  <2> HIDE DEF before, after
  <2>6. Redeemed(Append(changes, e), after, disk')
    <3>1. ~(e.kind = "removed" /\ disk'[e.file] # 0)
      BY <1>3, <1>11
    <3> QED  BY <1>3, <1>4, <2>5, <3>1, RedeemedAppend
  <2>7. Redeemed(changes', after, disk')
    BY <2>5, <2>6 DEF e
  <2> QED  BY <2>4, <2>7 DEF AllRedeemed, after
<1> QED  BY <1>2, <1>12, <1>13, <1>14 DEF Heard

\* What the folder stores while it is frozen is all there if it does not become full.
LEMMA StoreAll ==
  ASSUME FolderTypeOK, NEW es \in Seq(FileChange), Store(es), ~Full'
  PROVE  stored' = stored \o es /\ ~Full
<1> DEFINE full == stored \o es
           n == Min({FCHANGES_MAX, Len(full)})
<1>1. /\ full \in Seq(FileChange) /\ Len(full) \in Nat /\ FCHANGES_MAX \in Nat
      /\ Len(stored) \in Nat /\ Len(stored) <= Len(full)
  BY ChangesAssumption DEF FolderTypeOK
<1>2. stored' = SubSeq(full, 1, n)
  BY DEF Store
<1> HIDE DEF full
<1>3. n \in {FCHANGES_MAX, Len(full)} /\ n <= Len(full)
  <2>1. \E m \in {FCHANGES_MAX, Len(full)} :
          \A k \in {FCHANGES_MAX, Len(full)} : m <= k
    BY <1>1
  <2> QED  BY <1>1, <2>1 DEF Min
<1> HIDE DEF n
<1>4. n \in Nat
  BY <1>1, <1>3
<1>5. Len(stored') = n
  BY <1>1, <1>2, <1>3, <1>4, SubSeqProperties
<1>6. n < FCHANGES_MAX
  <2>1. ~(Len(stored') >= FCHANGES_MAX)
    BY DEF Full
  <2> QED  BY <1>1, <1>4, <1>5, <2>1
<1>7. n = Len(full)
  BY <1>1, <1>3, <1>6
<1>8. stored' = full
  BY <1>1, <1>2, <1>7
<1>9. ~Full
  BY <1>1, <1>6, <1>7 DEF Full
<1> QED  BY <1>8, <1>9 DEF full

\* The monitor emits an event.
LEMMA DirectoryChangedHeard ==
  ASSUME FolderIInv, HeardInv, DirectoryChanged, NoMishap', ~Stale'
  PROVE  Heard'
<1> DEFINE e == Head(events)
           es == [i \in 1 .. handlers |-> e]
<1>1. /\ events # <<>> /\ events' = Tail(events) /\ es # <<>> /\ NoMishap
      /\ UNCHANGED <<disk, state, hash, cache, info, listing, queries, rows, shown, listening,
                     reload, freeze, notifying>>
      /\ IF freeze THEN Store(es) /\ UNCHANGED <<changes, consumers>>
                   ELSE changes' = changes \o es /\ consumers' = Folder(es) /\ stored' = stored
  BY DEF DirectoryChanged, Mishap, NoMishap, diskVars, fileVars, viewVars, idleVars, queueVars
<1>2. /\ events \in Seq(FileChange) /\ stored \in Seq(FileChange) /\ changes \in Seq(FileChange)
      /\ handlers \in Nat /\ FolderTypeOK /\ e \in FileChange
  <2>1. FolderTypeOK
    BY DEF FolderIInv
  <2> QED  BY <1>1, <2>1, HeadTail DEF FolderTypeOK
<1>3. es \in Seq(FileChange)
  BY <1>2
<1>4. Range(es) = {e}
  <2>1. handlers # 0
    BY <1>1, <1>2
  <2>2. 1 \in 1 .. handlers
    BY <1>2, <2>1
  <2> QED  BY <2>2 DEF Range
<1>5. Range(events) = {e} \cup Range(events')
  BY <1>1, <1>2, RangeOfTail
<1>6. \A i \in DOMAIN es : es[i] = e
  OBVIOUS
<1>7. Redeemed(es, Range(events'), disk)
  <2>1. Redeemed(events, {}, disk)
    BY DEF HeardInv, EventsRedeemed
  <2>2. e.kind = "removed" /\ disk[e.file] # 0 => News("added", e.file) \in Range(events')
    <3>1. e.kind = "removed" /\ disk[e.file] # 0
             => News("added", e.file) \in Range(Tail(events)) \cup {}
      BY <1>1, <1>2, <2>1, RedeemedTail
    <3> QED  BY <1>1, <3>1
  <2> HIDE DEF e, es
  <2> QED  BY <1>6, <2>2 DEF Redeemed
<1> HIDE DEF e, es
<1>8. ~Stale /\ NewsKept
  <2>1. CASE freeze
    <3>1. stored' = stored \o es /\ ~Full
      BY <1>1, <1>2, <1>3, <2>1, StoreAll DEF Stale
    <3>2. ~Stale
      BY <1>1, <3>1 DEF Stale
    <3>3. Range(stored') = Range(stored) \cup {e}
      BY <1>2, <1>3, <1>4, <3>1, RangeOfConcat
    <3>4. OnTheWay \subseteq OnTheWay'
      BY <1>1, <1>5, <2>1, <3>3 DEF OnTheWay, Due
    <3>5. ASSUME AllRedeemed PROVE AllRedeemed'
      <4>1. /\ Redeemed(changes, Range(stored) \cup Range(events), disk)
            /\ Redeemed(stored, Range(events), disk)
        BY <3>5 DEF AllRedeemed
      <4>2. Range(stored) \cup Range(events) = Range(stored') \cup Range(events')
        BY <1>5, <3>3
      <4>3. Redeemed(stored, Range(es) \cup Range(events'), disk)
        BY <1>4, <1>5, <4>1
      <4>4. Redeemed(stored \o es, Range(events'), disk)
        BY <1>2, <1>3, <1>7, <4>3, RedeemedConcat
      <4> QED  BY <1>1, <2>1, <3>1, <4>1, <4>2, <4>4 DEF AllRedeemed
    <3> QED  BY <3>2, <3>4, <3>5 DEF NewsKept
  <2>2. CASE ~freeze
    <3>1. changes' = changes \o es /\ stored' = <<>> /\ stored = <<>> /\ Due'
      <4>1. stored = <<>>
        BY <2>2 DEF HeardInv, FolderShape
      <4>2. consumers' = consumers \cup {"folder"}
        BY <1>1, <2>2 DEF Folder
      <4> QED  BY <1>1, <2>2, <4>1, <4>2 DEF Due
    <3>2. ~Stale
      BY <1>1, <3>1 DEF Stale, Full
    <3>3. Range(changes') = Range(changes) \cup {e}
      BY <1>2, <1>3, <1>4, <3>1, RangeOfConcat
    <3>4. OnTheWay \subseteq OnTheWay'
      BY <1>5, <3>1, <3>3 DEF OnTheWay
    <3>5. ASSUME AllRedeemed PROVE AllRedeemed'
      <4>1. Redeemed(changes, Range(stored) \cup Range(events), disk)
        BY <3>5 DEF AllRedeemed
      <4>2. Range(stored) = {}
        BY <3>1 DEF Range
      <4>3. Redeemed(changes, Range(es) \cup Range(events'), disk)
        BY <1>4, <1>5, <4>1, <4>2
      <4>4. Redeemed(changes \o es, Range(events'), disk)
        BY <1>2, <1>3, <1>7, <4>3, RedeemedConcat
      <4>5. Redeemed(stored', Range(events'), disk)
        BY <3>1, RedeemedLater
      <4>6. Range(stored') \cup Range(events') = Range(events')
        BY <3>1, <4>2
      <4> QED  BY <1>1, <3>1, <4>4, <4>5, <4>6 DEF AllRedeemed
    <3> QED  BY <3>2, <3>4, <3>5 DEF NewsKept
  <2> QED  BY <2>1, <2>2
<1>9. ViewsKept
  <2>1. shown \subseteq View
    BY <1>2 DEF FolderTypeOK
  <2> QED  BY <1>1, <2>1, RowsSeen
<1>10. Unread' <=> Unread
  BY <1>1 DEF Unread
<1> QED  BY <1>1, <1>8, <1>9, <1>10, HeardKept DEF HeardInv
-----------------------------------------------------------------------------
(* What was read, step by step.                                            *)

\* What is there to read gets newer.
LEMMA NewerDisk ==
  ASSUME FolderTypeOK, Versions, NEW f \in File, NEW kind, Happens(f, kind),
         UNCHANGED <<listing, queries>>, \A q \in Range(queries) : q \in Query /\ q.object[1] \in File
  PROVE  Versions'
<1>1. /\ ops \in Nat /\ ops' = ops + 1 /\ disk \in [File -> Version] /\ listing.found \in [File -> Version]
  <2>1. MaxOps \in Nat
    BY ChangesAssumption
  <2>2. listing \in Listing
    BY DEF FolderTypeOK
  <2> QED  BY <2>1, <2>2 DEF FolderTypeOK, Happens, Listing
<1>2. /\ disk'[f] \in {0, ops + 1} /\ \A g \in File \ {f} : disk'[g] = disk[g]
  BY <1>1 DEF Happens
<1>3. \A g \in File : disk[g] \in Nat /\ listing.found[g] \in Nat
  BY <1>1, ChangesAssumption DEF Version
<1> DEFINE Older(n, g) == n <= ops' /\ (disk'[g] # 0 => n <= disk'[g])
<1>4. ASSUME NEW n \in Nat, NEW g \in File, NotNewer(n, g) PROVE Older(n, g)
  <2>1. n <= ops /\ (disk[g] # 0 => n <= disk[g])
    BY <1>4 DEF NotNewer
  <2> QED  BY <1>1, <1>2, <1>4, <2>1
<1>5. \A g \in File : disk'[g] <= ops'
  BY <1>1, <1>2, <1>3 DEF Versions
<1>6. \A g \in File : Older(listing'.found[g], g)
  BY <1>3, <1>4 DEF Versions
<1>7. ASSUME NEW q \in Range(queries') PROVE Older(q.got, q.object[1])
  <2>1. q.got \in Nat /\ q.object[1] \in File /\ q \in Range(queries)
    BY <1>7, ChangesAssumption DEF Query, Version
  <2> QED  BY <1>4, <2>1 DEF Versions
<1> QED  BY <1>5, <1>6, <1>7 DEF Versions, NotNewer

\* Nothing new is read.
LEMMA NoNewer ==
  ASSUME FolderTypeOK, Versions, UNCHANGED <<disk, ops>>,
         listing' = listing \/ listing'.found = NoObjects,
         \A q \in Range(queries') : q.object[1] \in File /\ (q \in Range(queries) \/ q.got = 0)
  PROVE  Versions'
<1>1. ops \in Nat /\ \A f \in File : disk[f] \in Nat
  BY ChangesAssumption DEF FolderTypeOK, Version
<1> DEFINE Older(n, g) == n <= ops' /\ (disk'[g] # 0 => n <= disk'[g])
<1>2. /\ \A f \in File : Older(0, f)
      /\ \A n, f : NotNewer(n, f) => Older(n, f)
  BY <1>1 DEF NotNewer
<1>3. \A f \in File : disk'[f] <= ops' /\ Older(listing'.found[f], f)
  <2>1. CASE listing' = listing
    BY <1>2, <2>1 DEF Versions
  <2>2. CASE listing'.found = NoObjects
    BY <1>2, <2>2 DEF NoObjects, Versions
  <2> QED  BY <2>1, <2>2
<1>4. ASSUME NEW q \in Range(queries') PROVE Older(q.got, q.object[1])
  <2>1. q.object[1] \in File
    BY <1>4
  <2> QED  BY <1>2, <1>4, <2>1 DEF Versions
<1> QED  BY <1>3, <1>4 DEF Versions, NotNewer

LEMMA QueriesStayTyped ==
  ASSUME FilesOK'
  PROVE  \A q \in Range(queries') : q \in Query /\ q.object[1] \in File
<1>1. queries' \in Seq(Query)
  BY DEF FilesOK, Sound, FilesTyped, Files
<1>2. \A q \in Range(queries') : q \in Query
  BY <1>1 DEF Range
<1>3. \A q \in Query : q.object \in Object
  BY DEF Query
<1> QED  BY <1>2, <1>3, NumberType

LEMMA VersionsStay ==
  ASSUME FolderIInv, FolderIInv', Versions, FolderNext
  PROVE  Versions'
<1> USE DEF diskVars, monitorVars, freezeVars, queueVars, fileVars, viewVars, idleVars
<1>1. FolderTypeOK /\ queries \in Seq(Query) /\ listing.found \in [File -> Version]
      /\ \A q \in Range(queries) : q \in Query /\ q.object[1] \in File
  <2>1. FolderTypeOK /\ FilesOK
    BY DEF FolderIInv
  <2> QED  BY <2>1, QueriesTyped DEF FolderTypeOK, Listing
<1>2. \A q \in Range(queries') : q.object[1] \in File
  BY QueriesStayTyped DEF FolderIInv
<1>3. Nothing.found = NoObjects /\ \A pc : [Nothing EXCEPT !.pc = pc].found = NoObjects
  BY DEF Nothing
<1>4. ASSUME UNCHANGED <<disk, ops, queries>>, listing' = listing \/ listing'.found = NoObjects
      PROVE  Versions'
  BY <1>1, <1>2, <1>4, NoNewer
<1>5. ASSUME NEW f \in File, NEW kind \in EventKinds, Elsewhere(f, kind) PROVE Versions'
  BY <1>1, <1>5, NewerDisk DEF Elsewhere
<1>6. ASSUME NEW f \in File, NEW kind \in EventKinds, JobDoes(f, kind) PROVE Versions'
  BY <1>1, <1>6, NewerDisk DEF JobDoes
<1>7. ASSUME NEW f \in File, Created(f) PROVE Versions'
  BY <1>1, <1>7, NewerDisk DEF Created
<1>8. CASE ListingReads
  <2>1. UNCHANGED <<disk, ops, queries>> /\ listing'.found = disk
    BY <1>8 DEF ListingReads
  <2>2. \A f \in File : disk[f] \in Nat
    BY <1>1, ChangesAssumption DEF FolderTypeOK, Version
  <2> QED  BY <2>1, <2>2 DEF Versions, NotNewer
<1>9. ASSUME NEW i \in 1 .. Len(queries), QueryRead(i) PROVE Versions'
  <2> DEFINE q == queries[i]
             r == [q EXCEPT !.read = TRUE, !.got = disk[q.object[1]]]
  <2>1. queries' = [queries EXCEPT ![i] = r] /\ UNCHANGED <<disk, ops, listing>>
    BY <1>9 DEF QueryRead
  <2>2. q \in Query /\ q.object[1] \in File /\ disk[q.object[1]] \in Version
    <3>1. q \in Query
      BY <1>1
    <3>2. q.object \in Object
      BY <3>1 DEF Query
    <3> QED  BY <1>1, <3>1, <3>2, NumberType DEF FolderTypeOK
  <2>3. r \in Query /\ r.object = q.object /\ r.got = disk[q.object[1]]
    BY <2>2 DEF Query
  <2> HIDE DEF r, q
  <2>4. Range(queries') \subseteq Range(queries) \cup {r}
    BY <1>1, <2>1, <2>3, RangeOfUpdate
  <2>5. r.got <= ops' /\ (disk'[r.object[1]] # 0 => r.got <= disk'[r.object[1]])
    <3>1. disk[q.object[1]] \in Nat
      BY <2>2, ChangesAssumption DEF Version
    <3> QED  BY <2>1, <2>2, <2>3, <3>1 DEF Versions
  <2> QED  BY <2>1, <2>4, <2>5 DEF Versions, NotNewer
<1>10. CASE NextChange
  <2> DEFINE s == Files(queries)
             c == Head(changes)
             t == Notify(s, c)
  <2>1. /\ changes # <<>> /\ Fits(s) /\ Become(t) /\ UNCHANGED <<disk, ops, listing>>
    BY <1>10 DEF NextChange
  <2>2. c \in FileChange /\ FilesTyped(s) /\ GoneAsked(s) /\ s.queries = queries
    BY <1>1, <2>1, FilesFields DEF FolderIInv, FilesOK, Sound, FolderTypeOK
  <2> HIDE DEF s, c, t
  <2>3. \A q \in Range(queries') : q \in Range(queries) \/ q.got = 0
    <3>1. queries' = t.queries
      BY <2>1, BecomeFields
    <3>2. CASE shown = {}
      BY <2>2, <3>1, <3>2 DEF t, Notify
    <3>3. CASE shown # {} /\ c.kind = "removed"
      BY <2>1, <2>2, <3>1, <3>3, NotifyRemoves DEF t
    <3>4. CASE shown # {} /\ c.kind # "removed"
      <4> DEFINE q == [object |-> <<c.file, Known(t, c.file)>>, kind |-> c.kind,
                       read |-> FALSE, got |-> 0]
      <4>1. Range(t.queries) = Range(s.queries) \cup {q} /\ q.got = 0
        BY <2>1, <2>2, <3>4, NotifyAsks DEF t
      <4> HIDE DEF q
      <4> QED  BY <2>2, <3>1, <4>1
    <3> QED  BY <3>2, <3>3, <3>4
  <2> QED  BY <1>1, <1>2, <2>1, <2>3, NoNewer
<1>11. ASSUME NEW i \in 1 .. Len(queries), QueryReturns(i) PROVE Versions'
  <2>1. queries' = RemoveAt(queries, i)
    <3>1. PICK t : Become(t) /\ t.queries = RemoveAt(queries, i)
      BY <1>11, AnswerFields DEF FolderIInv
    <3> QED  BY <3>1, BecomeFields
  <2>2. Range(queries') \subseteq Range(queries)
    BY <1>1, <2>1, RangeOfRemoveAt
  <2>3. UNCHANGED <<disk, ops, listing>>
    BY <1>11 DEF QueryReturns
  <2> QED  BY <1>1, <1>2, <2>2, <2>3, NoNewer
<1>12. CASE ListingBatch
  <2>1. UNCHANGED <<disk, ops>> /\ listing' = [Nothing EXCEPT !.pc = "last"]
    BY <1>12 DEF ListingBatch
  <2>2. queries' = queries
    <3> DEFINE s == Files(queries)
               found == {f \in File : listing.found[f] # 0}
               Of(f) == IF cache[f] # 0 THEN cache[f] ELSE New(s, f)[2]
               files == [s EXCEPT
                 !.hash = [f \in File |-> IF f \in found THEN Of(f) ELSE @[f]],
                 !.info = [o \in Object |-> IF o[1] \in found /\ o[2] = Of(o[1])
                                              THEN listing.found[o[1]] ELSE @[o]]]
               t == Shown(files, listening, {<<f, Of(f)>> : f \in found})
    <3>1. Become(t)
      BY <1>12 DEF ListingBatch
    <3>2. s.queries = queries
      BY FilesFields
    <3> HIDE DEF s, found, Of
    <3>3. files.queries = queries
      BY <3>2
    <3> HIDE DEF files
    <3>4. t.queries = files.queries
      BY DEF Shown
    <3> HIDE DEF t
    <3> QED  BY <3>1, <3>3, <3>4, BecomeFields
  <2> QED  BY <1>3, <1>4, <2>1, <2>2
<1>13. CASE Reload
  <2>1. UNCHANGED <<disk, ops, listing>>
    BY <1>13 DEF Reload
  <2>2. queries' = queries
    <3> DEFINE t == [Files(queries) EXCEPT !.hash = NoObjects,
                       !.rows = [v \in View |-> IF v \in reload THEN {} ELSE @[v]]]
    <3>1. Become(t)
      BY <1>13 DEF Reload
    <3>2. t.queries = queries
      BY FilesFields
    <3> HIDE DEF t
    <3> QED  BY <3>1, <3>2, BecomeFields
  <2> QED  BY <1>4, <2>1, <2>2
<1>14. CASE CreateJobDone
  <2>1. UNCHANGED <<disk, ops, listing>>
    BY <1>14 DEF CreateJobDone
  <2>2. queries' = queries
    <3> DEFINE s == Files(queries)
               t(f) == IF Known(s, f) = 0 THEN [s EXCEPT !.cache[f] = New(s, f)[2]] ELSE s
    <3>1. UNCHANGED queries \/ \E f \in File : Become(t(f))
      BY <1>14 DEF CreateJobDone
    <3>2. \A f : t(f).queries = queries
      BY FilesFields
    <3> HIDE DEF t
    <3> QED  BY <3>1, <3>2, BecomeFields
  <2> QED  BY <1>4, <2>1, <2>2
<1>15. ASSUME NEW v \in View, LoadIdle(v) PROVE Versions'
  BY <1>3, <1>4, <1>15 DEF LoadIdle
<1>16. CASE HideHidden
  BY <1>3, <1>4, <1>16 DEF HideHidden
<1>17. CASE ListingEnds
  BY <1>3, <1>4, <1>17 DEF ListingEnds
<1>18. ASSUME NEW v \in View, NewTab(v) \/ Rename(v) \/ RenameEnds(v) PROVE Versions'
  BY <1>4, <1>18 DEF NewTab, Rename, RenameEnds
<1>19. ASSUME NEW c, Consume(c) PROVE Versions'
  BY <1>4, <1>19 DEF Consume
<1>20. CASE Watch \/ DirectoryChanged \/ Consumed \/ AfterDelay \/ NewFile
  BY <1>4, <1>20 DEF Watch, DirectoryChanged, Consumed, AfterDelay, NewFile
<1> QED
  BY <1>5, <1>6, <1>7, <1>8, <1>9, <1>10, <1>11, <1>12, <1>13, <1>14, <1>15, <1>16, <1>17,
     <1>18, <1>19, <1>20 DEF FolderNext, Thread, FolderLoop, User

LEMMA EventsRedeemedStay ==
  ASSUME FolderTypeOK, FolderShape, EventsRedeemed, FolderNext
  PROVE  EventsRedeemed'
<1> USE DEF diskVars, monitorVars, freezeVars, queueVars, fileVars, viewVars, idleVars
<1>1. ASSUME NEW f \in File, NEW kind \in EventKinds, Happens(f, kind), monitor' = monitor
      PROVE  EventsRedeemed'
  <2> DEFINE e == News(kind, f)
             n == IF kind = "removed" THEN 0 ELSE ops + 1
  <2>1. /\ disk' = [disk EXCEPT ![f] = n] /\ (disk[f] = 0 <=> kind = "added")
        /\ events' = IF monitor THEN Append(events, e) ELSE events
    BY <1>1 DEF Happens, News
  <2>2. /\ e \in FileChange /\ disk \in [File -> Nat] /\ n \in Nat /\ events \in Seq(FileChange)
        /\ (n = 0 <=> kind = "removed") /\ e.kind = kind /\ e.file = f
    BY ChangesAssumption DEF FolderTypeOK, FileChange, News, Version
  <2>3. n = 0 \/ disk[f] # 0 \/ News("added", f) \in {e}
    BY <2>1
  <2>4. disk'[f] = n
    BY <2>1, <2>2
  <2> HIDE DEF e, n
  <2>5. CASE ~monitor
    <3>1. events' = <<>>
      BY <2>1, <2>5 DEF FolderShape
    <3> QED  BY <3>1, RedeemedLater DEF EventsRedeemed
  <2>6. CASE monitor
    <3>1. Redeemed(events, {e}, disk)
      BY RedeemedLater DEF EventsRedeemed
    <3>2. Redeemed(events, {e}, disk')
      BY <2>1, <2>2, <2>3, <3>1, RedeemedDisk
    <3>3. <<e>> \in Seq(FileChange) /\ Range(<<e>>) \cup {} = {e}
      BY <2>2 DEF Range
    <3>4. Redeemed(<<e>>, {}, disk')
      BY <2>2, <2>4 DEF Redeemed
    <3>5. Redeemed(events \o <<e>>, {}, disk')
      BY <2>2, <3>2, <3>3, <3>4, RedeemedConcat
    <3>6. events' = events \o <<e>>
      BY <2>1, <2>2, <2>6
    <3> QED  BY <3>5, <3>6 DEF EventsRedeemed
  <2> QED  BY <2>5, <2>6
<1>2. ASSUME UNCHANGED <<disk, events>> PROVE EventsRedeemed'
  BY <1>2 DEF EventsRedeemed
<1>3. ASSUME NEW f \in File, NEW kind \in EventKinds, Elsewhere(f, kind) \/ JobDoes(f, kind)
      PROVE  EventsRedeemed'
  BY <1>1, <1>3 DEF Elsewhere, JobDoes
<1>4. ASSUME NEW f \in File, Created(f) PROVE EventsRedeemed'
  BY <1>1, <1>4 DEF Created, EventKinds
<1>5. CASE DirectoryChanged
  <2>1. events # <<>> /\ events' = Tail(events) /\ disk' = disk
    BY <1>5 DEF DirectoryChanged
  <2> QED  BY <2>1, RedeemedTail DEF EventsRedeemed, FolderTypeOK
<1>6. CASE Reload
  BY <1>6, RedeemedLater DEF Reload, EventsRedeemed
<1>7. CASE \/ ListingReads \/ ListingBatch \/ ListingEnds \/ NextChange \/ Watch \/ Consumed
           \/ CreateJobDone \/ AfterDelay \/ HideHidden \/ NewFile
  BY <1>2, <1>7 DEF ListingReads, ListingBatch, ListingEnds, NextChange, Watch, Consumed,
                    CreateJobDone, AfterDelay, HideHidden, NewFile
<1>8. ASSUME NEW v \in View, NewTab(v) \/ Rename(v) \/ RenameEnds(v) \/ LoadIdle(v)
      PROVE  EventsRedeemed'
  BY <1>2, <1>8 DEF NewTab, Rename, RenameEnds, LoadIdle
<1>9. ASSUME NEW c, Consume(c) \/ QueryRead(c) \/ QueryReturns(c) PROVE EventsRedeemed'
  BY <1>2, <1>9 DEF Consume, QueryRead, QueryReturns
<1> QED
  BY <1>3, <1>4, <1>5, <1>6, <1>7, <1>8, <1>9 DEF FolderNext, Thread, FolderLoop, User

LEMMA MishapsStay == FolderNext => mishaps \subseteq mishaps'
<1> USE DEF diskVars, monitorVars, freezeVars, queueVars, fileVars, viewVars, idleVars, Mishap
<1>1. /\ Freeze => mishaps \subseteq mishaps'
      /\ DoneLoading => mishaps \subseteq mishaps'
      /\ \A f, k : Happens(f, k) => mishaps \subseteq mishaps'
  BY DEF Freeze, DoneLoading, Happens
<1>2. ASSUME NEW f, NEW k, Elsewhere(f, k) \/ JobDoes(f, k) \/ Created(f)
      PROVE  mishaps \subseteq mishaps'
  BY <1>1, <1>2 DEF Elsewhere, JobDoes, Created
<1>3. ASSUME NEW i, QueryRead(i) \/ QueryReturns(i) \/ Consume(i) PROVE mishaps \subseteq mishaps'
  BY <1>3 DEF QueryRead, QueryReturns, Consume
<1>4. ASSUME NEW v, NewTab(v) \/ Rename(v) \/ RenameEnds(v) PROVE mishaps \subseteq mishaps'
  BY <1>1, <1>4 DEF NewTab, Rename, RenameEnds
<1>5. ASSUME NEW v, LoadIdle(v) PROVE mishaps \subseteq mishaps'
  BY <1>1, <1>5 DEF LoadIdle
<1>6. CASE \/ ListingReads \/ ListingBatch \/ ListingEnds \/ Reload \/ NextChange \/ Watch
           \/ DirectoryChanged \/ Consumed \/ CreateJobDone
  BY <1>1, <1>6 DEF ListingReads, ListingBatch, ListingEnds, Reload, NextChange, Watch,
                    DirectoryChanged, Consumed, CreateJobDone
<1>7. CASE AfterDelay \/ HideHidden \/ NewFile
  BY <1>1, <1>7 DEF AfterDelay, HideHidden, NewFile
<1> QED
  BY <1>2, <1>3, <1>4, <1>5, <1>6, <1>7 DEF FolderNext, Thread, FolderLoop, User

\* The maps, the cache and the queries keep what has been looked at.
LEMMA FreedKept ==
  ASSUME FilesTyped(Files(queries)), OneRow(Files(queries)), Freed(Files(queries)),
         UNCHANGED <<hash, cache, info>>,
         \A q \in Range(queries) : \E r \in Range(queries') : r.object = q.object
  PROVE  Freed(Files(queries)')
<1> DEFINE s == Files(queries)
           t == Files(queries)'
<1>1. /\ s.hash = hash /\ s.cache = cache /\ s.info = info /\ s.rows = rows
      /\ s.queries = queries
      /\ t.hash = hash /\ t.cache = cache /\ t.info = info /\ t.queries = queries'
  BY DEF Files
<1>2. FilesTyped(s) /\ OneRow(s) /\ Freed(s)
  OBVIOUS
<1> HIDE DEF s, t
<1>3. ASSUME NEW o \in Object, info[o] # 0 PROVE o \in InUse(t)
  <2>1. o \in InUse(s)
    BY <1>1, <1>2, <1>3 DEF Freed
  <2>2. \/ hash[o[1]] = o[2] \/ cache[o[1]] = o[2]
        \/ \E v \in View : o \in rows[v]
        \/ \E q \in Range(queries) : o = q.object
    BY <1>1, <2>1 DEF InUse
  <2>3. (\E v \in View : o \in rows[v]) => hash[o[1]] = o[2]
    BY <1>1, <1>2 DEF OneRow
  <2>4. (\E q \in Range(queries) : o = q.object) => \E r \in Range(queries') : o = r.object
    OBVIOUS
  <2> QED  BY <1>1, <1>3, <2>2, <2>3, <2>4 DEF InUse
<1>4. Freed(t)
  BY <1>1, <1>3 DEF Freed
<1> QED  BY <1>4 DEF t

LEMMA AttachedStays ==
  ASSUME FolderIInv, FolderShape, FolderShape', NoMishap => Attached, FolderNext, NoMishap'
  PROVE  Attached'
<1> USE DEF diskVars, monitorVars, freezeVars, queueVars, fileVars, viewVars, idleVars
<1>1. NoMishap /\ Attached
  BY MishapsStay DEF NoMishap
<1> DEFINE s == Files(queries)
<1>2. /\ FilesTyped(s) /\ OneRow(s) /\ GoneAsked(s) /\ Freed(s)
      /\ s.hash = hash /\ s.queries = queries
      /\ queries \in Seq(Query) /\ listening \subseteq shown /\ reload \subseteq shown
  <2>1. FilesOK /\ FolderTypeOK
    BY DEF FolderIInv
  <2> QED  BY <1>1, <2>1, FilesFields
           DEF FilesOK, Sound, Clean, NoMishap, Attached, FilesTyped, FolderTypeOK
<1>3. ASSUME UNCHANGED <<hash, cache, info, queries>> PROVE Freed(s')
  BY <1>2, <1>3, FreedKept
<1>4. ASSUME UNCHANGED <<state, listening, shown, hash, cache, info, queries>>,
             monitor' = monitor \/ monitor'
      PROVE  Attached'
  BY <1>1, <1>3, <1>4 DEF Attached
<1>5. ASSUME NEW f, NEW k, Elsewhere(f, k) \/ JobDoes(f, k) \/ Created(f) PROVE Attached'
  BY <1>4, <1>5 DEF Elsewhere, JobDoes, Created
<1>6. CASE Watch \/ DirectoryChanged \/ Consumed \/ ListingReads \/ NewFile \/ AfterDelay
  BY <1>4, <1>6 DEF Watch, DirectoryChanged, Consumed, ListingReads, NewFile, AfterDelay
<1>7. ASSUME NEW v, Consume(v) \/ Rename(v) \/ RenameEnds(v) PROVE Attached'
  BY <1>4, <1>7 DEF Consume, Rename, RenameEnds
<1>8. ASSUME NEW i \in 1 .. Len(queries), QueryRead(i) PROVE Attached'
  <2> DEFINE q == queries[i]
             r == [q EXCEPT !.read = TRUE, !.got = disk[q.object[1]]]
  <2>1. /\ queries' = [queries EXCEPT ![i] = r]
        /\ UNCHANGED <<state, listening, shown, hash, cache, info, monitor>>
    BY <1>8 DEF QueryRead
  <2>2. DOMAIN queries' = DOMAIN queries
    BY <2>1
  <2>3. q \in Query
    BY <1>2
  <2>4. r.object = q.object
    BY <2>3 DEF Query
  <2> HIDE DEF r
  <2>5. \A j \in DOMAIN queries : queries'[j].object = queries[j].object
    BY <1>2, <2>1, <2>4
  <2>6. \A p \in Range(queries) : \E u \in Range(queries') : u.object = p.object
    BY <2>2, <2>5 DEF Range
  <2> QED  BY <1>1, <1>2, <2>1, <2>6, FreedKept DEF Attached
<1>9. CASE NextChange
  <2>1. /\ Become(Notify(s, Head(changes))) /\ ("early" \in mishaps' \/ monitor \/ shown = {})
        /\ UNCHANGED <<state, listening, shown, monitor>>
    BY <1>9 DEF NextChange
  <2>2. monitor \/ shown = {}
    BY <2>1 DEF NoMishap
  <2>3. shown = {} => hash' = hash
    BY <1>2, <2>1, BecomeFields DEF Notify
  <2>4. Freed(s')
    BY <2>1, BecomeFreed
  <2> QED  BY <1>1, <2>1, <2>2, <2>3, <2>4 DEF Attached
<1>10. ASSUME NEW i \in 1 .. Len(queries), QueryReturns(i) PROVE Attached'
  <2>1. PICK t : Become(t) /\ t.hash = hash
    BY <1>10, AnswerFields DEF FolderIInv
  <2>2. hash' = hash /\ Freed(s') /\ UNCHANGED <<state, listening, shown, monitor>>
    BY <1>10, <2>1, BecomeFields, BecomeFreed DEF QueryReturns
  <2> QED  BY <1>1, <2>2 DEF Attached
<1>11. ASSUME NEW v \in View, LoadIdle(v) PROVE Attached'
  <2>1. UNCHANGED <<hash, cache, info, queries, shown, monitor>>
    BY <1>11 DEF LoadIdle
  <2>2. state' # "LOADED" => state # "LOADED" /\ listening' = listening
    BY <1>11 DEF LoadIdle
  <2> QED  BY <1>1, <1>3, <2>1, <2>2 DEF Attached
<1>12. CASE ListingBatch
  <2>1. (\E t : Become(t)) /\ monitor /\ UNCHANGED <<state, listening, shown, monitor>>
    BY <1>12 DEF ListingBatch, Busy, Loading, FolderShape
  <2>2. Freed(s')
    BY <2>1, BecomeFreed
  <2> QED  BY <1>1, <2>1, <2>2 DEF Attached
<1>13. CASE ListingEnds
  <2>1. state' = "LOADED" /\ UNCHANGED <<hash, cache, info, queries, monitor>>
    BY <1>13 DEF ListingEnds
  <2> QED  BY <1>1, <1>3, <2>1 DEF Attached
<1>14. CASE Reload
  <2> DEFINE t == [s EXCEPT !.hash = NoObjects,
                            !.rows = [v \in View |-> IF v \in reload THEN {} ELSE @[v]]]
  <2>1. Become(t) /\ t.hash = NoObjects
    BY <1>14 DEF Reload, Files
  <2> HIDE DEF t
  <2>2. hash' = NoObjects /\ Freed(s')
    BY <2>1, BecomeFields, BecomeFreed
  <2>3. shown' = shown /\ listening' = listening \cup reload /\ shown = reload
    BY <1>14 DEF Reload, Mishap, NoMishap
  <2> QED  BY <1>2, <2>2, <2>3 DEF Attached
<1>15. CASE CreateJobDone
  <2> DEFINE t(f) == IF Known(s, f) = 0 THEN [s EXCEPT !.cache[f] = New(s, f)[2]] ELSE s
  <2>1. /\ UNCHANGED <<hash, cache, info, queries>> \/ \E f \in File : Become(t(f))
        /\ UNCHANGED <<state, listening, shown, monitor>>
    BY <1>15 DEF CreateJobDone
  <2>2. \A f : t(f).hash = hash
    BY FilesFields
  <2> HIDE DEF t
  <2>3. hash' = hash /\ Freed(s')
    BY <1>3, <2>1, <2>2, BecomeFields, BecomeFreed
  <2> QED  BY <1>1, <2>1, <2>3 DEF Attached
<1>16. ASSUME NEW v \in View, NewTab(v) PROVE Attached'
  <2>1. /\ shown' = shown \cup {v} /\ listening' = listening \cup {v}
        /\ UNCHANGED <<hash, cache, info, queries, monitor, state>>
    BY <1>16 DEF NewTab
  <2> QED  BY <1>1, <1>3, <2>1 DEF Attached
<1>17. CASE HideHidden
  <2>1. UNCHANGED <<hash, cache, info, queries, shown, monitor>>
    BY <1>17 DEF HideHidden
  <2>2. state' # "LOADED" => listening' = listening \cup shown
    BY <1>17 DEF HideHidden
  <2> QED  BY <1>1, <1>2, <1>3, <2>1, <2>2 DEF Attached
<1> QED
  BY <1>5, <1>6, <1>7, <1>8, <1>9, <1>10, <1>11, <1>12, <1>13, <1>14, <1>15, <1>16, <1>17
     DEF FolderNext, Thread, FolderLoop, User

\* Steps that tell nothing and show nothing.
LEMMA QuietHeard ==
  ASSUME FolderIInv, HeardInv, NoMishap, ~Stale, NewsKept, Unread' <=> Unread,
         UNCHANGED <<disk, hash, cache, info, queries, rows, listing>>,
         shown' \subseteq View, listening \subseteq listening', shown' \subseteq shown \cup listening'
  PROVE  Heard'
<1>1. \A v \in View : rows'[v] \subseteq rows[v] \cup Hashed
  OBVIOUS
<1>2. \A v \in shown' : v \in listening' \/ (v \in shown /\ v \notin listening /\ rows[v] \subseteq rows'[v])
  OBVIOUS
<1>3. ViewsKept
  BY <1>1, <1>2, RowsSeen
<1> QED  BY <1>3, HeardKept DEF HeardInv

LEMMA HeardStays ==
  ASSUME FolderIInv, FolderIInv', HeardInv, FolderShape', NoMishap' => Attached', FolderNext
  PROVE  Heard'
<1> USE DEF diskVars, monitorVars, freezeVars, queueVars, fileVars, viewVars, idleVars
<1>1. SUFFICES ASSUME NoMishap', ~Stale' PROVE Heard'
  BY DEF Heard
<1>2. NoMishap
  BY <1>1, MishapsStay DEF NoMishap
<1>3. /\ FolderTypeOK /\ FolderShape /\ shown \subseteq View /\ shown' \subseteq View
      /\ listening \subseteq shown
  BY DEF FolderIInv, FolderTypeOK, HeardInv
<1>4. /\ Nothing.pc = "none" /\ [Nothing EXCEPT !.pc = "reading"].pc = "reading"
  BY DEF Nothing
<1>5. ASSUME state' = "NOT_LOADED" PROVE Heard'
  BY <1>1, <1>5, UnreadHeard DEF FolderIInv
<1>6. ASSUME UNCHANGED <<disk, hash, cache, info, queries, rows, listing, shown, listening>>,
             ~Stale, NewsKept, Unread' <=> Unread
      PROVE  Heard'
  BY <1>2, <1>3, <1>6, QuietHeard
<1>7. ASSUME NEW f \in File, NEW kind \in EventKinds, Elsewhere(f, kind) PROVE Heard'
  BY <1>1, <1>7, HappensHeard DEF Elsewhere, Due
<1>8. ASSUME NEW f \in File, NEW kind \in EventKinds, JobDoes(f, kind) PROVE Heard'
  BY <1>1, <1>8, HappensHeard DEF JobDoes, Due, News
<1>9. ASSUME NEW f \in File, Created(f) PROVE Heard'
  <2>1. "added" \in EventKinds
    BY DEF EventKinds
  <2> QED  BY <1>1, <1>9, <2>1, HappensHeard DEF Created, Due, News
<1>10. CASE ListingReads
  BY <1>1, <1>10, ListingReadsHeard
<1>11. ASSUME NEW i \in 1 .. Len(queries), QueryRead(i) \/ QueryReturns(i) PROVE Heard'
  BY <1>1, <1>11, QueryReadHeard, QueryReturnsHeard
<1>12. CASE NextChange
  BY <1>1, <1>12, NextChangeHeard DEF FolderIInv
<1>13. CASE ListingBatch
  BY <1>1, <1>13, ListingBatchHeard
<1>14. CASE CreateJobDone
  BY <1>1, <1>14, CreateJobDoneHeard
<1>15. CASE DirectoryChanged
  BY <1>1, <1>15, DirectoryChangedHeard
<1>16. CASE Watch \/ NewFile
  <2>1. UNCHANGED <<disk, hash, cache, info, queries, rows, listing, shown, listening, state,
                    stored, changes, consumers, notifying, events, reload>>
    BY <1>16 DEF Watch, NewFile
  <2> QED  BY <1>1, <1>6, <2>1, NewsSame DEF Stale, Full, Unread, Due
<1>17. ASSUME NEW c, Consume(c) PROVE Heard'
  <2>1. /\ UNCHANGED <<disk, hash, cache, info, queries, rows, listing, shown, listening, state,
                       stored, changes, events, reload>>
        /\ notifying'
    BY <1>17 DEF Consume
  <2> QED  BY <1>1, <1>6, <2>1, NewsSame DEF Stale, Full, Unread, Due
<1>18. CASE Consumed
  <2>1. /\ UNCHANGED <<disk, hash, cache, info, queries, rows, listing, shown, listening, state,
                       stored, changes, events, reload>>
        /\ changes = <<>>
    BY <1>18 DEF Consumed
  <2> QED  BY <1>1, <1>6, <2>1, NewsSame DEF Stale, Full, Unread, Due
<1>19. CASE AfterDelay
  <2>1. /\ UNCHANGED <<disk, hash, cache, info, queries, rows, listing, shown, listening, state,
                       changes, consumers, notifying, events, reload>>
        /\ Freeze \/ UNCHANGED stored
    BY <1>19 DEF AfterDelay
  <2>2. CASE Freeze
    BY <1>1, <1>3, <1>6, <2>1, <2>2, FreezeNews DEF Unread
  <2>3. CASE UNCHANGED stored
    BY <1>1, <1>6, <2>1, <2>3, NewsSame DEF Stale, Full, Unread, Due
  <2> QED  BY <2>1, <2>2, <2>3
<1>20. ASSUME NEW v \in View, Rename(v) PROVE Heard'
  <2>1. /\ UNCHANGED <<disk, hash, cache, info, queries, rows, listing, shown, listening, state,
                       changes, consumers, notifying, events, reload>>
        /\ Freeze
    BY <1>20 DEF Rename
  <2> QED  BY <1>1, <1>3, <1>6, <2>1, FreezeNews DEF Unread
<1>21. ASSUME NEW v \in View, NewTab(v) PROVE Heard'
  <2>1. /\ UNCHANGED <<disk, hash, cache, info, queries, rows, listing, state,
                       changes, consumers, notifying, events, reload>>
        /\ Freeze /\ shown' = shown \cup {v} /\ listening' = listening \cup {v}
    BY <1>21 DEF NewTab
  <2>2. NewsKept /\ ~Stale
    BY <1>1, <1>3, <2>1, FreezeNews
  <2> QED  BY <1>2, <1>3, <2>1, <2>2, QuietHeard DEF Unread
<1>22. ASSUME NEW v \in View, RenameEnds(v) PROVE Heard'
  <2>1. /\ UNCHANGED <<disk, hash, cache, info, queries, rows, listing, shown, listening, state,
                       events>>
        /\ Unfreeze
    BY <1>22 DEF RenameEnds
  <2>2. CASE state = "NOT_LOADED"
    BY <1>5, <2>1, <2>2
  <2>3. CASE state # "NOT_LOADED"
    BY <1>1, <1>3, <1>6, <2>1, <2>3, UnfreezeNews DEF Unread
  <2> QED  BY <2>2, <2>3
<1>23. ASSUME NEW v \in View, LoadIdle(v) PROVE Heard'
  <2>1. UNCHANGED <<disk, hash, cache, info, queries, shown, events>>
    BY <1>23 DEF LoadIdle
  <2>2. CASE state = "NOT_LOADED"
    <3>1. /\ UNCHANGED <<stored, changes, consumers, notifying, listening, rows, reload>>
          /\ listing' = [Nothing EXCEPT !.pc = "reading"]
      BY <1>23, <2>2 DEF LoadIdle
    <3>2. listing.pc # "batch" /\ listing'.pc # "batch" /\ Unread /\ Unread'
      BY <1>3, <1>4, <2>2, <3>1 DEF FolderShape, Unread
    <3>3. ~Stale /\ NewsKept
      BY <1>1, <2>1, <3>1, NewsSame DEF Stale, Full, Due
    <3>4. ViewsKept
      <4>1. \A u \in View : rows'[u] \subseteq rows[u] \cup Hashed
        BY <3>1
      <4>2. \A u \in shown' : u \in listening'
                \/ (u \in shown /\ u \notin listening /\ rows[u] \subseteq rows'[u])
        BY <2>1, <3>1
      <4> QED  BY <1>3, <2>1, <3>2, <4>1, <4>2, RowsSeen
    <3> QED  BY <1>2, <2>1, <3>2, <3>3, <3>4, HeardKept DEF HeardInv
  <2>3. CASE state = "LOADING"
    <3>1. UNCHANGED <<state, listing, stored, changes, consumers, notifying, listening, rows,
                      reload>>
      BY <1>23, <2>3 DEF LoadIdle
    <3> QED  BY <1>1, <1>6, <2>1, <3>1, NewsSame DEF Stale, Full, Unread, Due
  <2>4. CASE state = "LOADED"
    <3>1. /\ UNCHANGED <<state, listing>> /\ DoneLoading
          /\ rows' = [u \in View |-> rows[u] \cup (IF u \in listening THEN Hashed ELSE {})]
      BY <1>23, <2>4 DEF LoadIdle
    <3>2. ~Stale /\ NewsKept
      BY <1>1, <1>3, <2>1, <2>4, <3>1, DoneLoadingNews
    <3>3. ViewsKept
      <4>1. \A u \in View : rows'[u] \subseteq rows[u] \cup Hashed
        BY <3>1
      <4>2. \A u \in shown' : Hashed \subseteq rows'[u]
                \/ (u \in shown /\ u \notin listening /\ rows[u] \subseteq rows'[u])
        BY <1>3, <2>1, <3>1
      <4> QED  BY <1>3, <2>1, <3>1, <4>1, <4>2, RowsSeen
    <3>4. Unread' <=> Unread
      BY <3>1 DEF Unread
    <3> QED  BY <1>2, <2>1, <3>2, <3>3, <3>4, HeardKept DEF HeardInv
  <2> QED  BY <1>3, <2>2, <2>3, <2>4 DEF FolderShape
<1>24. CASE ListingEnds
  <2>1. /\ UNCHANGED <<disk, hash, cache, info, queries, rows, shown, events>> /\ DoneLoading
        /\ listing.pc = "last" /\ listing' = Nothing /\ state' = "LOADED"
    BY <1>24 DEF ListingEnds
  <2>2. \A v \in listening : Hashed \subseteq rows'[v]
    BY <1>1, <2>1 DEF DoneLoading, Mishap, NoMishap
  <2>3. state = "LOADING" /\ listing'.pc = "none"
    BY <1>3, <1>4, <2>1 DEF FolderShape
  <2>4. ~Stale /\ NewsKept
    BY <1>1, <1>3, <2>1, <2>3, DoneLoadingNews
  <2>5. ViewsKept
    <3>1. \A v \in View : rows'[v] \subseteq rows[v] \cup Hashed
      BY <2>1
    <3>2. \A v \in shown' : Hashed \subseteq rows'[v]
              \/ (v \in shown /\ v \notin listening /\ rows[v] \subseteq rows'[v])
      BY <2>1, <2>2
    <3> QED  BY <1>3, <2>1, <2>3, <3>1, <3>2, RowsSeen
  <2>6. ~Unread /\ ~Unread'
    BY <2>1, <2>3 DEF Unread
  <2> QED  BY <1>2, <2>1, <2>4, <2>5, <2>6, HeardKept DEF HeardInv
<1>25. CASE Reload
  BY <1>5, <1>25 DEF Reload
<1>26. CASE HideHidden
  <2>1. UNCHANGED <<disk, hash, cache, info, queries, shown, events>>
    BY <1>26 DEF HideHidden
  <2>2. CASE state = "LOADED"
    <3>1. /\ UNCHANGED <<state, listing>> /\ listening' = {}
          /\ rows' = [v \in View |-> IF v \in shown THEN Hashed ELSE {}]
          /\ Unfreeze \/ UNCHANGED <<stored, changes, consumers, notifying, reload>>
      BY <1>26, <2>2 DEF HideHidden
    <3>2. ~Stale /\ NewsKept
      <4>1. CASE Unfreeze
        BY <1>1, <1>3, <2>1, <2>2, <4>1, UnfreezeNews
      <4>2. CASE UNCHANGED <<stored, changes, consumers, notifying, reload>>
        BY <1>1, <2>1, <4>2, NewsSame DEF Stale, Full, Due
      <4> QED  BY <3>1, <4>1, <4>2
    <3>3. ViewsKept
      <4>1. \A v \in View : rows'[v] \subseteq rows[v] \cup Hashed
        BY <3>1
      <4>2. \A v \in shown' : Hashed \subseteq rows'[v]
        BY <1>3, <2>1, <3>1
      <4> QED  BY <1>3, <2>1, <3>1, <4>1, <4>2, RowsSeen
    <3>4. Unread' <=> Unread
      BY <3>1 DEF Unread
    <3> QED  BY <1>2, <2>1, <3>2, <3>3, <3>4, HeardKept DEF HeardInv
  <2>3. CASE state # "LOADED"
    <3>1. /\ rows' = [v \in View |-> {}] /\ listening' = listening \cup shown
          /\ state' = "LOADING"
          /\ listing' = IF state = "LOADING" THEN listing ELSE [Nothing EXCEPT !.pc = "reading"]
          /\ UNCHANGED <<stored, changes, consumers, notifying, reload>>
      BY <1>26, <2>3 DEF HideHidden
    <3>2. ~Stale /\ NewsKept
      BY <1>1, <2>1, <3>1, NewsSame DEF Stale, Full, Due
    <3>3. /\ Unread' <=> Unread
          /\ listing' = listing \/ (listing.pc # "batch" /\ listing'.pc # "batch")
      <4>1. CASE state = "LOADING"
        BY <3>1, <4>1 DEF Unread
      <4>2. CASE state # "LOADING"
        <5>1. state = "NOT_LOADED" /\ listing.pc = "none" /\ listing'.pc = "reading"
          BY <1>3, <1>4, <2>3, <3>1, <4>2 DEF FolderShape
        <5> QED  BY <5>1 DEF Unread
      <4> QED  BY <4>1, <4>2
    <3>4. ViewsKept
      <4>1. \A v \in View : rows'[v] \subseteq rows[v] \cup Hashed
        BY <3>1
      <4>2. \A v \in shown' : v \in listening'
        BY <2>1, <3>1
      <4> QED  BY <1>3, <2>1, <3>3, <4>1, <4>2, RowsSeen
    <3> QED  BY <1>2, <2>1, <3>2, <3>3, <3>4, HeardKept DEF HeardInv
  <2> QED  BY <2>2, <2>3
<1> QED
  BY <1>7, <1>8, <1>9, <1>10, <1>11, <1>12, <1>13, <1>14, <1>15, <1>16, <1>17, <1>18, <1>19,
     <1>20, <1>21, <1>22, <1>23, <1>24, <1>25, <1>26 DEF FolderNext, Thread, FolderLoop, User
\* When all is quiet, nothing is on its way and what is seen is the disk.
LEMMA QuietSees ==
  ASSUME FolderIInv, HeardInv
  PROVE  SettledIsAccurate
<1>1. SUFFICES ASSUME Settled, NoMishap PROVE Accurate
  BY DEF SettledIsAccurate, NoMishap
<1> DEFINE s == Files(queries)
<1>2. /\ s.hash = hash /\ s.cache = cache /\ s.info = info /\ s.rows = rows
      /\ s.queries = queries
  BY FilesFields
<1>3. FilesTyped(s) /\ OneRow(s) /\ FolderTypeOK /\ FolderShape
  BY <1>1, HeardFacts DEF FolderIInv, HeardInv
<1> HIDE DEF s
<1>4. /\ state = "LOADED" /\ events = <<>> /\ ~Due /\ queries = <<>> /\ stored = <<>>
      /\ listing.pc = "none" /\ reload = {}
  BY <1>1, <1>3 DEF Settled, FolderShape, Due
<1>5. listening = {} /\ shown \subseteq View
  <2>1. \A v \in shown : loads[v] = 0
    BY <1>1 DEF Settled
  <2>2. listening \subseteq shown /\ \A v \in listening : loads[v] > 0
    BY <1>3, <1>4 DEF FolderShape, FolderTypeOK
  <2>3. \A v \in listening : FALSE
    BY <2>1, <2>2
  <2> QED  BY <1>3, <2>3 DEF FolderTypeOK
<1>6. Range(<<>>) = {}
  BY DEF Range
<1>7. OnTheWay = {}
  BY <1>4, <1>6 DEF OnTheWay
<1>8. ~Stale /\ ~Unread
  BY <1>4, ChangesAssumption DEF Stale, Full, Unread
<1>9. \A f \in File : GoneHeard(f) /\ ThereHeard(f)
  BY <1>1, <1>8 DEF HeardInv, Heard
<1>10. ASSUME NEW f \in File, disk[f] = 0 PROVE Dead(s, f)
  BY <1>7, <1>8, <1>9, <1>10 DEF GoneHeard, SeenGone, s
<1>11. ASSUME NEW f \in File, disk[f] # 0
       PROVE  /\ Present(s, f, shown, {}) /\ Current(s, f, disk[f])
  <2>1. SeenThere(f) /\ SeenNow(f)
    BY <1>7, <1>9, <1>11 DEF ThereHeard
  <2>2. ~Awaiting(s, f) /\ ~Asked(s, f, disk[f])
    BY <1>2, <1>4, <1>6 DEF Awaiting, Asked
  <2> QED  BY <1>4, <1>5, <2>1, <2>2 DEF SeenThere, SeenNow, s
<1>12. ASSUME NEW v \in shown
       PROVE  /\ {o[1] : o \in rows[v]} = {f \in File : disk[f] # 0}
              /\ \A o \in rows[v] : info[o] = disk[o[1]]
  <2>1. v \in View
    BY <1>5
  <2>2. ASSUME NEW o \in rows[v]
        PROVE  o[1] \in File /\ disk[o[1]] # 0 /\ info[o] = disk[o[1]]
    <3>1. o \in Object /\ hash[o[1]] = o[2]
      BY <1>2, <1>3, <2>1, <2>2 DEF FilesTyped, OneRow
    <3>2. o[1] \in File /\ o = <<o[1], o[2]>>
      BY <3>1, NumberType
    <3>3. disk[o[1]] # 0
      BY <1>2, <1>10, <2>1, <2>2, <3>2 DEF Dead
    <3>4. Current(s, o[1], disk[o[1]])
      BY <1>11, <3>2, <3>3
    <3> QED  BY <1>2, <3>1, <3>2, <3>3, <3>4 DEF Current
  <2>3. ASSUME NEW f \in File, disk[f] # 0 PROVE \E o \in rows[v] : o[1] = f
    <3>1. <<f, hash[f]>> \in rows[v]
      BY <1>2, <1>11, <2>3 DEF Present
    <3> QED  BY <3>1
  <2> QED  BY <2>2, <2>3
<1> QED  BY <1>12 DEF Accurate

LEMMA HeardStarts == FolderInit => HeardInv
<1> SUFFICES ASSUME FolderInit PROVE HeardInv
  OBVIOUS
<1>1. FolderShape
  BY DEF FolderInit, FolderShape, Nothing
<1>2. Versions
  <2>1. Range(queries) = {}
    BY DEF FolderInit, Range
  <2> QED  BY <2>1 DEF FolderInit, Versions, NotNewer, Nothing, NoObjects
<1>3. EventsRedeemed
  BY RedeemedLater DEF FolderInit, EventsRedeemed
<1>4. Attached
  <2>1. \A o \in Object : info[o] = 0
    BY DEF FolderInit
  <2>2. Freed(Files(queries))
    BY <2>1, FilesFields DEF Freed
  <2> QED  BY <2>2 DEF FolderInit, Attached
<1>5. Heard
  <2>1. FilesOK /\ state = "NOT_LOADED" /\ hash = NoObjects /\ cache = NoObjects /\ listing.pc = "none"
    BY FolderStarts DEF FolderIInv, FolderInit, Nothing
  <2>2. OneRow(Files(queries)) /\ FilesTyped(Files(queries))
    BY <2>1 DEF FilesOK, Sound, Clean, FolderInit
  <2>3. ASSUME NEW f \in File PROVE GoneHeard(f)
    <3>1. Files(queries).hash[f] = 0 /\ Files(queries).cache[f] = 0
      BY <2>1, FilesFields DEF NoObjects
    <3> QED  BY <2>1, <2>2, <3>1, UnknownIsDead DEF GoneHeard, SeenGone
  <2> QED  BY <2>1, <2>3 DEF Heard, Unread
<1> QED  BY <1>1, <1>2, <1>3, <1>4, <1>5 DEF HeardInv

LEMMA HeardInvStays ==
  ASSUME FolderIInv, FolderIInv', HeardInv, FolderNext
  PROVE  HeardInv'
<1>1. FolderTypeOK /\ FolderShape /\ Versions /\ EventsRedeemed /\ (NoMishap => Attached)
  BY DEF FolderIInv, HeardInv
<1>2. FolderShape'
  BY <1>1, ShapeKept
<1>3. Versions' /\ EventsRedeemed'
  BY <1>1, VersionsStay, EventsRedeemedStay
<1>4. NoMishap' => Attached'
  BY <1>1, <1>2, AttachedStays
<1>5. Heard'
  BY <1>2, <1>4, HeardStays
<1> QED  BY <1>2, <1>3, <1>4, <1>5 DEF HeardInv

LEMMA HeardInvSame ==
  ASSUME HeardInv, UNCHANGED folderVars
  PROVE  HeardInv'
<1>1. UNCHANGED <<disk, ops, state, hash, cache, info, gone, listing, monitor, events, freeze,
                  stored, changes, consumers, notifying, queries, shown, listening, rows,
                  loads, reload, mishaps>>
  BY DEF folderVars, diskVars, fileVars, monitorVars, freezeVars, queueVars, viewVars, idleVars
<1>2. FolderShape' /\ Versions' /\ EventsRedeemed'
  BY <1>1 DEF HeardInv, FolderShape, Versions, NotNewer, EventsRedeemed
<1>3. Files(queries)' = Files(queries) /\ OnTheWay' = OnTheWay
  BY <1>1 DEF Files, OnTheWay, Due
<1>4. (NoMishap' <=> NoMishap) /\ (Stale' <=> Stale) /\ (Unread' <=> Unread)
      /\ (AllRedeemed' <=> AllRedeemed)
  BY <1>1 DEF NoMishap, Stale, Full, Unread, AllRedeemed
<1>5. NoMishap' => Attached'
  BY <1>1, <1>3, <1>4 DEF HeardInv, Attached
<1>6. \A f \in File : (GoneHeard(f) => GoneHeard(f)') /\ (ThereHeard(f) => ThereHeard(f)')
  <2> SUFFICES ASSUME NEW f \in File
               PROVE  (GoneHeard(f) => GoneHeard(f)') /\ (ThereHeard(f) => ThereHeard(f)')
    OBVIOUS
  <2>1. (SeenGone(f)' <=> SeenGone(f)) /\ (SeenThere(f)' <=> SeenThere(f))
        /\ (SeenNow(f)' <=> SeenNow(f))
    BY <1>1, <1>3 DEF SeenGone, SeenThere, SeenNow
  <2> QED  BY <1>1, <1>3, <1>4, <2>1 DEF GoneHeard, ThereHeard, News
<1>7. Heard'
  BY <1>4, <1>6 DEF HeardInv, Heard
<1> QED  BY <1>2, <1>5, <1>7 DEF HeardInv

\* When nothing is on its way to the views any more they tell the truth about the
\* folder, in whatever order its listing, the answers to its queries, the events of
\* the monitor and the reports of the jobs came, unless one of Mishaps has happened.
THEOREM QuietIsAccurate == FolderSpec => []SettledIsAccurate
<1>1. FolderInit => HeardInv
  BY HeardStarts
<1>2. FolderIInv /\ FolderIInv' /\ HeardInv /\ [FolderNext]_folderVars => HeardInv'
  BY HeardInvStays, HeardInvSame
<1>3. FolderIInv /\ HeardInv => SettledIsAccurate
  BY QuietSees
<1> QED  BY <1>1, <1>2, <1>3, FolderInvariance, PTL DEF FolderSpec
=============================================================================
