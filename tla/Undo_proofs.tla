------------------------------ MODULE Undo_proofs ------------------------------
(***************************************************************************)
(* Undo: what the jobs that make links and new files record, for any       *)
(* number of jobs, folders, names and limits on them, and what the manager *)
(* does with the actions it is given, for every set of operations, every   *)
(* number of levels and every later change of it.                          *)
(***************************************************************************)
EXTENDS MakeJobs, UndoManager, SequenceTheorems, WellFoundedInduction, TLAPS

-------------------------------------------------------------------------------
(* The jobs.  Undoing one takes back what it made, and nothing is          *)
(* forgotten; and no name is made up or respelled twice.                   *)
(*                                                                         *)
(* The names are left open at first: it is enough that a job makes a file  *)
(* only under a name that is free, tries its files one after the other,    *)
(* and reports under the name it has just tried.                           *)

Stages == {"start", "verify", "make", "write", "ask", "done", "ended"}

\* What cur holds of a job; a name is anything.
IsAtHand(c) ==
  c \in [i : {c.i}, name : {c.name}, count : {c.count}, handled : {c.handled}]

TypeOK ==
  /\ case \in Cases
  /\ pc \in [Jobs -> Stages]
  /\ cancelled \in [Jobs -> BOOLEAN]
  /\ meddled \in Nat
  /\ DOMAIN record = Jobs
  /\ \A n \in DOMAIN dir : dir[n] \in (Jobs \cup {"other"}) \X Nat
  /\ DOMAIN cur = Jobs
  /\ \A j \in Jobs : IsAtHand(cur[j]) /\ cur[j].i \in DOMAIN Wanted(j)

\* A job has made nothing for the files it has not tried; and for the one it tries,
\* nothing but the file it writes.
NotYet(j) ==
  /\ pc[j] \in {"start", "verify"} => cur[j].i = 1
  /\ \A n \in Owned(j) :
       \/ dir[n][2] < cur[j].i
       \/ dir[n][2] = cur[j].i /\ pc[j] \notin {"start", "verify", "make"}
          /\ (pc[j] = "write" => n = cur[j].name)

Writing(j) ==
  pc[j] = "write" =>
    meddled > 0 \/ (cur[j].name \in DOMAIN dir /\ dir[cur[j].name] = This(j))

\* The first half of UndoTakesBack, and the second.
MadeIsKept(j) ==
  \A n \in Owned(j) :
    dir[n] \notin unwritten =>
      n \in announced /\ (case.work[j].undoing \/ <<dir[n][2], n>> \in record[j])
KeptIsMade(j) ==
  \A r \in record[j] : (r[2] \in DOMAIN dir /\ dir[r[2]] = <<j, r[1]>>) \/ meddled > 0

Accounted(j, i) ==
  <<j, i>> \in told \cup silent \/ (\E n \in Owned(j) : dir[n] = <<j, i>>) \/ meddled > 0

\* The job is through with its file.
Tried(j, i) == i < cur[j].i \/ (i = cur[j].i /\ pc[j] \in {"ask", "done", "ended"})

TriedAccounted(j) ==
  ~ cancelled[j] =>
    /\ \A i \in DOMAIN Wanted(j) : Tried(j, i) => Accounted(j, i)
    /\ pc[j] \in {"done", "ended"} => cur[j].i = Len(Wanted(j))

JobInv(j) ==
  NotYet(j) /\ Writing(j) /\ MadeIsKept(j) /\ KeptIsMade(j) /\ TriedAccounted(j)

IInv == TypeOK /\ \A j \in Jobs : JobInv(j)

LEMMA WantedTyped ==
  ASSUME TypeOK, NEW j \in Jobs
  PROVE  /\ Len(Wanted(j)) \in Nat \ {0} /\ DOMAIN Wanted(j) = 1 .. Len(Wanted(j))
         /\ Creates(j) => Len(Wanted(j)) = 1
<1>1. case.work[j].wanted \in Seq(Seq(STRING \X Nat)) \ {<<>>}
  BY MakeAssumption DEF TypeOK
<1>2. Creates(j) => Len(Wanted(j)) = 1
  BY MakeAssumption DEF TypeOK, Creates, Kind, Wanted
<1> QED  BY <1>1, <1>2 DEF Wanted

-------------------------------------------------------------------------------
(* Steps, seen from the jobs that do not take them.                        *)

\* What was made stays where it is, and who makes something new is j.
MadeStays(j) ==
  /\ \A n \in DOMAIN dir : n \in DOMAIN dir' /\ dir'[n] = dir[n]
  /\ \A n \in DOMAIN dir' \ DOMAIN dir : dir'[n] \in {j} \X Nat

StepOf(j) ==
  /\ case' = case /\ meddled' = meddled
  /\ \A k \in Jobs \ {j} : /\ pc'[k] = pc[k] /\ cur'[k] = cur[k]
                           /\ record'[k] = record[k] /\ cancelled'[k] = cancelled[k]
  /\ announced \subseteq announced' /\ told \subseteq told' /\ silent \subseteq silent'
  /\ MadeStays(j)
  /\ \A n \in Jobs \X Nat : n[1] # j /\ n \in unwritten => n \in unwritten'

LEMMA AccountedStays ==
  ASSUME NEW j, NEW k, NEW i, MadeStays(j), Accounted(k, i), meddled' = meddled,
         told \subseteq told', silent \subseteq silent'
  PROVE  Accounted(k, i)'
  BY DEF Accounted, MadeStays, Owned

LEMMA OtherJob ==
  ASSUME TypeOK, NEW j \in Jobs, NEW k \in Jobs \ {j}, JobInv(k), StepOf(j)
  PROVE  JobInv(k)'
<1>1. /\ case' = case /\ meddled' = meddled
      /\ pc'[k] = pc[k] /\ cur'[k] = cur[k]
      /\ record'[k] = record[k] /\ cancelled'[k] = cancelled[k]
      /\ announced \subseteq announced' /\ told \subseteq told' /\ silent \subseteq silent'
      /\ MadeStays(j)
  BY DEF StepOf
<1>2. \A n \in Owned(k)' : n \in Owned(k) /\ dir'[n] = dir[n]
  BY <1>1 DEF Owned, MadeStays
<1>3. NotYet(k)'
  BY <1>1, <1>2 DEF JobInv, NotYet
<1>4. Writing(k)'
  BY <1>1 DEF JobInv, Writing, This, MadeStays
<1>5. MadeIsKept(k)'
  <2>1. \A n \in Owned(k) : dir[n] \in unwritten => dir[n] \in unwritten'
    BY DEF Owned, StepOf, TypeOK
  <2> QED  BY <1>1, <1>2, <2>1 DEF JobInv, MadeIsKept
<1>6. KeptIsMade(k)'
  BY <1>1 DEF JobInv, KeptIsMade, MadeStays
<1>7. TriedAccounted(k)'
  <2>1. Wanted(k)' = Wanted(k) /\ \A i : Tried(k, i)' = Tried(k, i)
    BY <1>1 DEF Wanted, Tried
  <2>2. \A i : Accounted(k, i) => Accounted(k, i)'
    BY <1>1, AccountedStays
  <2> QED  BY <1>1, <2>1, <2>2 DEF JobInv, TriedAccounted
<1> QED  BY <1>3, <1>4, <1>5, <1>6, <1>7 DEF JobInv

-------------------------------------------------------------------------------
(* What a job does to itself.                                              *)

\* cur[j] is another record of its kind, for a file the job has to make.
LEMMA CurTyped ==
  ASSUME TypeOK, NEW j \in Jobs, NEW c, IsAtHand(c), c.i \in DOMAIN Wanted(j),
         case' = case, cur'[j] = c, \A k \in Jobs \ {j} : cur'[k] = cur[k]
  PROVE  \A k \in Jobs : IsAtHand(cur[k])' /\ cur'[k].i \in DOMAIN Wanted(k)'
  BY DEF TypeOK, IsAtHand, Wanted

LEMMA MoveOnIs ==
  ASSUME TypeOK, NEW j \in Jobs, MoveOn(j), case' = case
  PROVE  /\ pc' \in [Jobs -> Stages] /\ \A k \in Jobs \ {j} : pc'[k] = pc[k]
         /\ DOMAIN cur' = Jobs /\ \A k \in Jobs \ {j} : cur'[k] = cur[k]
         /\ \A k \in Jobs : IsAtHand(cur[k])' /\ cur'[k].i \in DOMAIN Wanted(k)'
         /\ \/ pc'[j] = "make" /\ cur'[j].i = cur[j].i + 1
            \/ /\ pc'[j] = "done" /\ cur'[j].i = cur[j].i
               /\ cancelled'[j] \/ cur[j].i = Len(Wanted(j))
<1>1. cur[j].i \in 1 .. Len(Wanted(j)) /\ Len(Wanted(j)) \in Nat
  BY WantedTyped DEF TypeOK
<1>2. CASE cur[j].i < Len(Wanted(j)) /\ ~ cancelled'[j]
  <2> DEFINE c == Begin(j, cur[j].i + 1)
  <2>1. IsAtHand(c) /\ c.i = cur[j].i + 1
    BY DEF Begin, IsAtHand
  <2>2. pc' = [pc EXCEPT ![j] = "make"] /\ cur' = [cur EXCEPT ![j] = c]
    BY <1>2 DEF MoveOn
  <2>3. c.i \in DOMAIN Wanted(j)
    BY <1>1, <1>2, <2>1, WantedTyped
  <2> HIDE DEF c
  <2>4. DOMAIN cur' = Jobs /\ cur'[j] = c /\ \A k \in Jobs \ {j} : cur'[k] = cur[k]
    BY <2>2 DEF TypeOK
  <2>5. \A k \in Jobs : IsAtHand(cur[k])' /\ cur'[k].i \in DOMAIN Wanted(k)'
    BY <2>1, <2>3, <2>4, CurTyped
  <2> QED  BY <2>1, <2>2, <2>4, <2>5 DEF TypeOK, Stages
<1>3. CASE ~ (cur[j].i < Len(Wanted(j)) /\ ~ cancelled'[j])
  <2>1. pc' = [pc EXCEPT ![j] = "done"] /\ cur' = cur
    BY <1>3 DEF MoveOn
  <2>2. \A k \in Jobs : IsAtHand(cur[k])' /\ cur'[k].i \in DOMAIN Wanted(k)'
    BY <2>1 DEF TypeOK, IsAtHand, Wanted
  <2> QED  BY <1>1, <1>3, <2>1, <2>2 DEF TypeOK, Stages
<1> QED  BY <1>2, <1>3

\* A job moves on when the file at hand is accounted for.
LEMMA MoveOnKeeps ==
  ASSUME TypeOK, NEW j \in Jobs, MoveOn(j), case' = case,
         \A n \in Owned(j)' : dir'[n][2] \in Nat /\ dir'[n][2] <= cur[j].i,
         ~ cancelled'[j] => \A i \in 1 .. cur[j].i : Accounted(j, i)'
  PROVE  NotYet(j)' /\ Writing(j)' /\ TriedAccounted(j)'
<1>1. /\ \/ pc'[j] = "make" /\ cur'[j].i = cur[j].i + 1
         \/ /\ pc'[j] = "done" /\ cur'[j].i = cur[j].i
            /\ cancelled'[j] \/ cur[j].i = Len(Wanted(j))
  BY MoveOnIs
<1>2. cur[j].i \in 1 .. Len(Wanted(j)) /\ Len(Wanted(j)) \in Nat /\ Wanted(j)' = Wanted(j)
      /\ DOMAIN Wanted(j) = 1 .. Len(Wanted(j))
  BY WantedTyped DEF TypeOK, Wanted
<1>3. NotYet(j)'
  BY <1>1, <1>2 DEF NotYet
<1>4. Writing(j)'
  BY <1>1 DEF Writing
<1>5. TriedAccounted(j)'
  BY <1>1, <1>2 DEF TriedAccounted, Tried
<1> QED  BY <1>3, <1>4, <1>5

\* Making nothing, a job keeps what it has.
LEMMA NothingMade ==
  ASSUME NEW j, JobInv(j), case' = case, meddled' = meddled, dir' = dir,
         unwritten' = unwritten, record' = record, announced' = announced
  PROVE  MadeIsKept(j)' /\ KeptIsMade(j)'
  BY DEF JobInv, MadeIsKept, KeptIsMade, Owned

LEMMA ReportIs ==
  ASSUME TypeOK, NEW j \in Jobs, Report(j)
  PROVE  /\ DOMAIN record' = Jobs /\ \A k \in Jobs \ {j} : record'[k] = record[k]
         /\ announced' = announced \cup {cur[j].name}
         /\ record[j] \subseteq record'[j]
         /\ record'[j] \subseteq record[j] \cup {<<cur[j].i, cur[j].name>>}
         /\ case.work[j].undoing \/ <<cur[j].i, cur[j].name>> \in record'[j]
  BY DEF Report, TypeOK

-------------------------------------------------------------------------------
LEMMA InitIInv == Init => IInv
<1> SUFFICES ASSUME Init PROVE IInv  OBVIOUS
<1>1. \A j \in Jobs : 1 \in DOMAIN Wanted(j)
  <2> SUFFICES ASSUME NEW j \in Jobs PROVE 1 \in DOMAIN Wanted(j)  OBVIOUS
  <2>1. case.work[j].wanted \in Seq(Seq(STRING \X Nat)) \ {<<>>}
    BY MakeAssumption DEF Init
  <2> QED  BY <2>1 DEF Wanted
<1>2. \A j \in Jobs : IsAtHand(cur[j]) /\ cur[j].i = 1
  BY DEF Init, IsAtHand
<1>3. \A n \in DOMAIN dir : dir[n] = Other
  BY DEF Init
<1>4. \A j \in Jobs : Owned(j) = {}
  BY <1>3, MakeAssumption DEF Owned, Other
<1>5. TypeOK
  <2>1. \A n \in DOMAIN dir : dir[n] \in (Jobs \cup {"other"}) \X Nat
    BY <1>3 DEF Other
  <2>2. pc \in [Jobs -> Stages] /\ cancelled \in [Jobs -> BOOLEAN] /\ DOMAIN cur = Jobs
    BY DEF Init, Stages
  <2> QED  BY <1>1, <1>2, <2>1, <2>2 DEF Init, TypeOK
<1>6. ASSUME NEW j \in Jobs PROVE JobInv(j)
  <2>1. pc[j] = "start" /\ record[j] = {}
    BY DEF Init
  <2>2. NotYet(j) /\ Writing(j) /\ MadeIsKept(j) /\ KeptIsMade(j)
    BY <1>2, <1>4, <2>1 DEF NotYet, Writing, MadeIsKept, KeptIsMade
  <2>3. \A i \in DOMAIN Wanted(j) : ~ Tried(j, i)
    BY <1>2, <1>5, <2>1, WantedTyped DEF Tried
  <2> QED  BY <2>1, <2>2, <2>3 DEF JobInv, TriedAccounted
<1> QED  BY <1>5, <1>6 DEF IInv

\* What follows for the other jobs.
LEMMA JobSteps ==
  ASSUME IInv, NEW j \in Jobs, StepOf(j), TypeOK', JobInv(j)'
  PROVE  IInv'
  BY OtherJob DEF IInv

\* A job that makes nothing.
LEMMA Talks ==
  ASSUME IInv, NEW j \in Jobs, case' = case, meddled' = meddled, dir' = dir,
         unwritten' = unwritten, record' = record, announced' = announced,
         told \subseteq told', silent \subseteq silent',
         pc' \in [Jobs -> Stages], cancelled' \in [Jobs -> BOOLEAN], DOMAIN cur' = Jobs,
         \A k \in Jobs : IsAtHand(cur[k])' /\ cur'[k].i \in DOMAIN Wanted(k)',
         \A k \in Jobs \ {j} : /\ pc'[k] = pc[k] /\ cur'[k] = cur[k]
                               /\ cancelled'[k] = cancelled[k],
         NotYet(j)' /\ Writing(j)' /\ TriedAccounted(j)'
  PROVE  IInv'
<1>1. TypeOK'
  BY DEF IInv, TypeOK
<1>2. StepOf(j)
  BY DEF StepOf, MadeStays
<1>3. JobInv(j)'
  BY NothingMade DEF IInv, JobInv
<1> QED  BY <1>1, <1>2, <1>3, JobSteps

\* One that makes nothing and moves on.
LEMMA TalksAndMovesOn ==
  ASSUME IInv, NEW j \in Jobs, case' = case, meddled' = meddled, dir' = dir,
         unwritten' = unwritten, record' = record, announced' = announced,
         told \subseteq told', silent \subseteq silent',
         cancelled' \in [Jobs -> BOOLEAN],
         \A k \in Jobs \ {j} : cancelled'[k] = cancelled[k],
         pc[j] \in {"make", "write", "ask"}, MoveOn(j), cancelled[j] => cancelled'[j],
         ~ cancelled'[j] => \A i : i = cur[j].i => Accounted(j, i)'
  PROVE  IInv'
<1>1. TypeOK /\ JobInv(j) /\ MadeStays(j)
  BY DEF IInv, MadeStays
<1>2. cur[j].i \in 1 .. Len(Wanted(j)) /\ Len(Wanted(j)) \in Nat
      /\ DOMAIN Wanted(j) = 1 .. Len(Wanted(j))
  BY <1>1, WantedTyped DEF TypeOK
<1>3. \A n \in Owned(j)' : dir'[n][2] \in Nat /\ dir'[n][2] <= cur[j].i
  BY <1>1, <1>2 DEF JobInv, NotYet, Owned, TypeOK
<1>4. ~ cancelled'[j] => \A i \in 1 .. cur[j].i : Accounted(j, i)'
  <2>1. \A i : Accounted(j, i) => Accounted(j, i)'
    BY <1>1, AccountedStays
  <2>2. ~ cancelled[j] => \A i \in 1 .. cur[j].i : i < cur[j].i => Accounted(j, i)
    BY <1>1, <1>2 DEF JobInv, TriedAccounted, Tried
  <2> QED  BY <1>2, <2>1, <2>2
<1>5. NotYet(j)' /\ Writing(j)' /\ TriedAccounted(j)'
  BY <1>1, <1>3, <1>4, MoveOnKeeps
<1> QED  BY <1>1, <1>5, MoveOnIs, Talks

\* One that made the file at hand, and says so.
LEMMA MadeAndMovesOn ==
  ASSUME IInv, NEW j \in Jobs, case' = case, meddled' = meddled, cancelled' = cancelled,
         told' = told, silent' = silent, MadeStays(j), Report(j), MoveOn(j),
         pc[j] \in {"make", "write"},
         unwritten' \subseteq unwritten,
         \A u \in unwritten \ unwritten' : u = This(j),
         meddled > 0 \/ (cur[j].name \in DOMAIN dir' /\ dir'[cur[j].name] = This(j)),
         \A n \in DOMAIN dir' \ DOMAIN dir : n = cur[j].name /\ dir'[n] = This(j),
         \A n \in Owned(j) : dir[n] = This(j) => n = cur[j].name
  PROVE  IInv'
<1>1. TypeOK /\ JobInv(j)
  BY DEF IInv
<1>2. cur[j].i \in 1 .. Len(Wanted(j)) /\ Len(Wanted(j)) \in Nat
      /\ DOMAIN Wanted(j) = 1 .. Len(Wanted(j))
  BY <1>1, WantedTyped DEF TypeOK
<1>3. /\ DOMAIN record' = Jobs /\ \A k \in Jobs \ {j} : record'[k] = record[k]
      /\ announced' = announced \cup {cur[j].name}
      /\ record[j] \subseteq record'[j]
      /\ record'[j] \subseteq record[j] \cup {<<cur[j].i, cur[j].name>>}
      /\ case.work[j].undoing \/ <<cur[j].i, cur[j].name>> \in record'[j]
  BY <1>1, ReportIs
<1>4. /\ \A n \in DOMAIN dir' : dir'[n] \in (Jobs \cup {"other"}) \X Nat
      /\ \A n \in Owned(j)' : \/ n \in Owned(j) /\ dir'[n] = dir[n]
                              \/ n = cur[j].name /\ dir'[n] = <<j, cur[j].i>>
  BY <1>1, <1>2 DEF TypeOK, MadeStays, Owned, This
<1>5. TypeOK'
  BY <1>1, <1>3, <1>4, MoveOnIs DEF TypeOK
<1>6. StepOf(j)
  <2>1. \A n \in Jobs \X Nat : n[1] # j /\ n \in unwritten => n \in unwritten'
    BY DEF This
  <2> QED  BY <1>1, <1>3, <2>1, MoveOnIs DEF StepOf
<1>7. \A n \in Owned(j)' : dir'[n][2] \in Nat /\ dir'[n][2] <= cur[j].i
  BY <1>1, <1>2, <1>4 DEF JobInv, NotYet, Owned, TypeOK
<1>8. ~ cancelled'[j] => \A i \in 1 .. cur[j].i : Accounted(j, i)'
  <2>1. \A i : Accounted(j, i) => Accounted(j, i)'
    BY AccountedStays
  <2>2. ~ cancelled[j] => \A i \in 1 .. cur[j].i : i < cur[j].i => Accounted(j, i)
    BY <1>1, <1>2 DEF JobInv, TriedAccounted, Tried
  <2>3. \A i : i = cur[j].i => Accounted(j, i)'
    BY DEF Accounted, Owned, This
  <2> QED  BY <1>2, <2>1, <2>2, <2>3
<1>9. MadeIsKept(j)'
  <2>1. ASSUME NEW n \in Owned(j)', dir'[n] \notin unwritten'
        PROVE  n \in announced' /\ (case.work[j].undoing \/ <<dir'[n][2], n>> \in record'[j])
    <3>1. CASE n = cur[j].name /\ dir'[n] = <<j, cur[j].i>>
      BY <1>3, <3>1
    <3>2. CASE n \in Owned(j) /\ dir'[n] = dir[n] /\ dir[n] # This(j)
      BY <1>1, <1>3, <2>1, <3>2 DEF JobInv, MadeIsKept
    <3>3. CASE n \in Owned(j) /\ dir'[n] = dir[n] /\ dir[n] = This(j)
      BY <3>1, <3>3 DEF This
    <3> QED  BY <1>4, <3>1, <3>2, <3>3
  <2> QED  BY <2>1 DEF MadeIsKept
<1>10. KeptIsMade(j)'
  BY <1>1, <1>3 DEF JobInv, KeptIsMade, MadeStays, This
<1>11. NotYet(j)' /\ Writing(j)' /\ TriedAccounted(j)'
  BY <1>1, <1>7, <1>8, MoveOnKeeps
<1> QED  BY <1>5, <1>6, <1>9, <1>10, <1>11, JobSteps DEF JobInv

-------------------------------------------------------------------------------
(* The operations.                                                         *)

LEMMA JobKnown ==
  ASSUME IInv, NEW j \in Jobs
  PROVE  /\ TypeOK /\ JobInv(j) /\ IsAtHand(cur[j])
         /\ cur[j].i \in 1 .. Len(Wanted(j)) /\ Len(Wanted(j)) \in Nat
         /\ DOMAIN Wanted(j) = 1 .. Len(Wanted(j))
  BY WantedTyped DEF IInv, TypeOK

LEMMA CurStays ==
  ASSUME TypeOK, case' = case, cur' = cur
  PROVE  \A k \in Jobs : IsAtHand(cur[k])' /\ cur'[k].i \in DOMAIN Wanted(k)'
  BY DEF TypeOK, IsAtHand, Wanted

LEMMA StartKeeps == ASSUME IInv, NEW j \in Jobs, Start(j) PROVE IInv'
<1>1. /\ case' = case /\ meddled' = meddled /\ dir' = dir /\ unwritten' = unwritten
      /\ record' = record /\ announced' = announced /\ told' = told /\ silent' = silent
      /\ cancelled' = cancelled /\ pc[j] = "start"
  BY DEF Start
<1>2. /\ TypeOK /\ JobInv(j) /\ cur[j].i = 1 /\ Wanted(j)' = Wanted(j)
      /\ 1 \in DOMAIN Wanted(j) /\ DOMAIN Wanted(j) = 1 .. Len(Wanted(j))
      /\ Len(Wanted(j)) \in Nat
  BY <1>1, JobKnown DEF JobInv, NotYet, Wanted
<1>3. \A n \in Owned(j)' : n \in Owned(j) /\ dir'[n] = dir[n] /\ dir[n][2] < 1
  BY <1>1, <1>2 DEF JobInv, NotYet, Owned
<1>4. CASE pc' = [pc EXCEPT ![j] = "make"] /\ cur' = [cur EXCEPT ![j] = Begin(j, 1)]
  <2> DEFINE c == Begin(j, 1)
  <2>1. IsAtHand(c) /\ c.i = 1
    BY DEF Begin, IsAtHand
  <2>2. cur' = [cur EXCEPT ![j] = c]
    BY <1>4
  <2> HIDE DEF c
  <2>a. DOMAIN cur' = Jobs /\ cur'[j] = c /\ \A k \in Jobs \ {j} : cur'[k] = cur[k]
    BY <1>2, <2>2 DEF TypeOK
  <2>3. /\ DOMAIN cur' = Jobs /\ cur'[j] = c
        /\ \A k \in Jobs \ {j} : cur'[k] = cur[k]
        /\ \A k \in Jobs : IsAtHand(cur[k])' /\ cur'[k].i \in DOMAIN Wanted(k)'
    BY <1>1, <1>2, <2>1, <2>a, CurTyped
  <2>4. pc' \in [Jobs -> Stages] /\ pc'[j] = "make" /\ \A k \in Jobs \ {j} : pc'[k] = pc[k]
    BY <1>2, <1>4 DEF TypeOK, Stages
  <2>5. NotYet(j)' /\ Writing(j)'
    BY <1>3, <2>1, <2>3, <2>4 DEF NotYet, Writing
  <2>6. TriedAccounted(j)'
    BY <1>2, <2>1, <2>3, <2>4 DEF TriedAccounted, Tried
  <2> QED  BY <1>1, <1>2, <2>3, <2>4, <2>5, <2>6, Talks DEF TypeOK
<1>5. ASSUME NEW stage \in {"done", "verify"}, stage = "done" => cancelled[j],
             pc' = [pc EXCEPT ![j] = stage], cur' = cur
      PROVE  IInv'
  <2>1. pc' \in [Jobs -> Stages] /\ pc'[j] = stage /\ \A k \in Jobs \ {j} : pc'[k] = pc[k]
    BY <1>2, <1>5 DEF TypeOK, Stages
  <2>2. NotYet(j)' /\ Writing(j)'
    BY <1>2, <1>3, <1>5, <2>1 DEF NotYet, Writing
  <2>3. TriedAccounted(j)'
    BY <1>1, <1>2, <1>5, <2>1 DEF TriedAccounted, Tried
  <2> QED  BY <1>1, <1>2, <1>5, <2>1, <2>2, <2>3, Talks, CurStays DEF TypeOK
<1> QED  BY <1>4, <1>5 DEF Start

\* Where the thread only changes its place, or is cancelled.
LEMMA PlaceKeeps ==
  ASSUME IInv, NEW j \in Jobs, case' = case, meddled' = meddled, dir' = dir,
         unwritten' = unwritten, record' = record, announced' = announced,
         told' = told, silent' = silent, cur' = cur,
         pc' \in [Jobs -> Stages], cancelled' \in [Jobs -> BOOLEAN],
         \A k \in Jobs \ {j} : pc'[k] = pc[k] /\ cancelled'[k] = cancelled[k],
         \/ pc'[j] = pc[j]
         \/ pc[j] = "verify" /\ pc'[j] = "done"
         \/ pc[j] = "done" /\ pc'[j] = "ended",
         cancelled'[j] \/ (cancelled'[j] = cancelled[j] /\ pc[j] = "done")
  PROVE  IInv'
<1>1. TypeOK /\ JobInv(j) /\ Wanted(j)' = Wanted(j) /\ Owned(j)' = Owned(j)
  BY JobKnown DEF Wanted, Owned
<1>2. NotYet(j)' /\ Writing(j)'
  BY <1>1 DEF JobInv, NotYet, Writing, This
<1>3. TriedAccounted(j)'
  <2>1. CASE cancelled'[j]
    BY <2>1 DEF TriedAccounted
  <2>2. CASE cancelled'[j] = cancelled[j] /\ pc[j] = "done"
    <3>1. \A i : Accounted(j, i)' = Accounted(j, i)
      BY <1>1 DEF Accounted
    <3>2. \A i : Tried(j, i)' => Tried(j, i)
      BY <2>2 DEF Tried
    <3> QED  BY <1>1, <2>2, <3>1, <3>2 DEF JobInv, TriedAccounted
  <2> QED  BY <2>1, <2>2
<1> QED  BY <1>1, <1>2, <1>3, Talks, CurStays DEF TypeOK

LEMMA AnswerVerifyKeeps == ASSUME IInv, NEW j \in Jobs, AnswerVerify(j) PROVE IInv'
<1>1. /\ cancelled' \in [Jobs -> BOOLEAN] /\ cancelled'[j]
      /\ pc' \in [Jobs -> Stages] /\ pc'[j] = "done" /\ pc[j] = "verify"
      /\ \A k \in Jobs \ {j} : pc'[k] = pc[k] /\ cancelled'[k] = cancelled[k]
  BY DEF AnswerVerify, IInv, TypeOK, Stages
<1> QED  BY <1>1, PlaceKeeps DEF AnswerVerify

LEMMA DoneKeeps == ASSUME IInv, NEW j \in Jobs, Done(j) PROVE IInv'
<1>1. /\ cancelled' \in [Jobs -> BOOLEAN] /\ cancelled' = cancelled
      /\ pc' \in [Jobs -> Stages] /\ pc'[j] = "ended" /\ pc[j] = "done"
      /\ \A k \in Jobs \ {j} : pc'[k] = pc[k]
  BY DEF Done, IInv, TypeOK, Stages
<1> QED  BY <1>1, PlaceKeeps DEF Done

LEMMA CancelKeeps == ASSUME IInv, NEW j \in Jobs, Cancel(j) PROVE IInv'
<1>1. /\ cancelled' \in [Jobs -> BOOLEAN] /\ cancelled'[j] /\ pc' = pc
      /\ pc' \in [Jobs -> Stages]
      /\ \A k \in Jobs \ {j} : cancelled'[k] = cancelled[k]
  BY DEF Cancel, IInv, TypeOK, Stages
<1> QED  BY <1>1, PlaceKeeps DEF Cancel

LEMMA MadeKeeps == ASSUME IInv, NEW j \in Jobs, Made(j) PROVE IInv'
<1>1. /\ case' = case /\ meddled' = meddled /\ cancelled' = cancelled
      /\ told' = told /\ silent' = silent /\ pc[j] = "make"
      /\ dir' = [n \in DOMAIN dir \cup {cur[j].name} |->
                   IF n = cur[j].name THEN This(j) ELSE dir[n]]
  BY DEF Made
<1>2. cur[j].name \notin DOMAIN dir
  BY DEF Made, Results
<1>3. /\ TypeOK /\ JobInv(j) /\ cur[j].i \in 1 .. Len(Wanted(j)) /\ Len(Wanted(j)) \in Nat
      /\ DOMAIN Wanted(j) = 1 .. Len(Wanted(j))
  BY JobKnown
<1>4. /\ MadeStays(j)
      /\ cur[j].name \in DOMAIN dir' /\ dir'[cur[j].name] = This(j)
      /\ \A n \in DOMAIN dir' \ DOMAIN dir : n = cur[j].name /\ dir'[n] = This(j)
  <2>1. \A n \in DOMAIN dir : n \in DOMAIN dir' /\ dir'[n] = dir[n]
    BY <1>1, <1>2
  <2>2. /\ cur[j].name \in DOMAIN dir' /\ dir'[cur[j].name] = This(j)
        /\ \A n \in DOMAIN dir' \ DOMAIN dir : n = cur[j].name /\ dir'[n] = This(j)
    BY <1>1
  <2> QED  BY <1>3, <2>1, <2>2 DEF MadeStays, This
<1>5. CASE Kind(j) # "file"
  <2>1. Report(j) /\ MoveOn(j) /\ unwritten' = unwritten
    BY <1>5 DEF Made
  <2>2. \A n \in Owned(j) : dir[n] # This(j)
    BY <1>1, <1>3 DEF JobInv, NotYet, This, Owned
  <2> QED  BY <1>1, <1>4, <2>1, <2>2, MadeAndMovesOn
<1>6. CASE Kind(j) = "file"
  <2>1. /\ pc' = [pc EXCEPT ![j] = "write"] /\ unwritten' = unwritten \cup {This(j)}
        /\ cur' = cur /\ record' = record /\ announced' = announced
    BY <1>6 DEF Made
  <2>2. pc' \in [Jobs -> Stages] /\ pc'[j] = "write" /\ \A k \in Jobs \ {j} : pc'[k] = pc[k]
    BY <1>3, <2>1 DEF TypeOK, Stages
  <2>3. \A n \in DOMAIN dir' : dir'[n] \in (Jobs \cup {"other"}) \X Nat
    BY <1>3, <1>4 DEF TypeOK, MadeStays, This
  <2>4. TypeOK'
    BY <1>1, <1>3, <2>1, <2>2, <2>3, CurStays DEF TypeOK
  <2>5. StepOf(j)
    BY <1>1, <1>4, <2>1, <2>2 DEF StepOf
  <2>6. \A n \in Owned(j)' : \/ n \in Owned(j) /\ dir'[n] = dir[n]
                             \/ n = cur[j].name /\ dir'[n] = This(j)
    BY <1>4 DEF Owned, MadeStays
  <2>7. NotYet(j)' /\ Writing(j)'
    BY <1>1, <1>3, <1>4, <2>1, <2>2, <2>6 DEF JobInv, NotYet, Writing, This
  <2>8. MadeIsKept(j)'
    <3>1. ASSUME NEW n \in Owned(j)', dir'[n] \notin unwritten'
          PROVE  n \in Owned(j) /\ dir'[n] = dir[n] /\ dir[n] \notin unwritten
      BY <2>1, <2>6, <3>1
    <3>2. MadeIsKept(j)
      BY <1>3 DEF JobInv
    <3> QED  BY <1>1, <2>1, <3>1, <3>2 DEF MadeIsKept
  <2>9. KeptIsMade(j)'
    BY <1>1, <1>3, <1>4, <2>1 DEF JobInv, KeptIsMade, MadeStays
  <2>10. TriedAccounted(j)'
    <3>1. \A i : Accounted(j, i) => Accounted(j, i)'
      BY <1>1, <1>4, AccountedStays
    <3>2. Wanted(j)' = Wanted(j) /\ \A i : Tried(j, i)' => Tried(j, i)
      BY <1>1, <2>1, <2>2 DEF Tried, Wanted
    <3> QED  BY <1>1, <1>3, <2>2, <3>1, <3>2 DEF JobInv, TriedAccounted
  <2> QED  BY <2>4, <2>5, <2>7, <2>8, <2>9, <2>10, JobSteps DEF JobInv
<1> QED  BY <1>5, <1>6

LEMMA WrittenKeeps == ASSUME IInv, NEW j \in Jobs, Written(j) PROVE IInv'
<1>1. /\ case' = case /\ meddled' = meddled /\ cancelled' = cancelled
      /\ told' = told /\ silent' = silent /\ dir' = dir /\ pc[j] = "write"
      /\ unwritten' = unwritten \ {This(j)} /\ Report(j) /\ MoveOn(j)
  BY DEF Written
<1>2. JobInv(j)
  BY DEF IInv
<1>3. \A n \in Owned(j) : dir[n] = This(j) => n = cur[j].name
  BY <1>1, <1>2, JobKnown DEF JobInv, NotYet, This
<1>4. MadeStays(j)
  BY <1>1 DEF MadeStays
<1>5. meddled > 0 \/ (cur[j].name \in DOMAIN dir' /\ dir'[cur[j].name] = This(j))
  BY <1>1, <1>2 DEF JobInv, Writing
<1> QED  BY <1>1, <1>3, <1>4, <1>5, MadeAndMovesOn

LEMMA QuietKeeps == ASSUME IInv, NEW j \in Jobs, Quiet(j) PROVE IInv'
<1>1. pc[j] \in {"make", "write"} /\ cancelled[j]
  BY DEF Quiet, Stopped, Results
<1> QED  BY <1>1, TalksAndMovesOn DEF Quiet, IInv, TypeOK

LEMMA TroubleKeeps == ASSUME IInv, NEW j \in Jobs, Trouble(j) PROVE IInv'
<1>1. /\ case' = case /\ meddled' = meddled /\ dir' = dir /\ unwritten' = unwritten
      /\ record' = record /\ announced' = announced /\ silent' = silent
      /\ cancelled' = cancelled /\ told' = told \cup {This(j)}
  BY DEF Trouble
<1>2. pc[j] \in {"make", "write"}
  BY DEF Trouble, Fails, MayRespell
<1>3. \A i : i = cur[j].i => Accounted(j, i)'
  BY <1>1 DEF Accounted, This
<1>4. CASE skipAll[j]
  <2>1. MoveOn(j)
    BY <1>4 DEF Trouble
  <2> QED  BY <1>1, <1>2, <1>3, <2>1, TalksAndMovesOn DEF IInv, TypeOK
<1>5. CASE ~ skipAll[j]
  <2>1. pc' = [pc EXCEPT ![j] = "ask"] /\ cur' = cur
    BY <1>5 DEF Trouble
  <2>2. /\ TypeOK /\ JobInv(j) /\ cur[j].i \in 1 .. Len(Wanted(j))
        /\ Len(Wanted(j)) \in Nat /\ DOMAIN Wanted(j) = 1 .. Len(Wanted(j))
    BY JobKnown
  <2>3. pc' \in [Jobs -> Stages] /\ pc'[j] = "ask" /\ \A k \in Jobs \ {j} : pc'[k] = pc[k]
    BY <2>1, <2>2 DEF TypeOK, Stages
  <2>4. Owned(j)' = Owned(j) /\ Wanted(j)' = Wanted(j)
    BY <1>1 DEF Owned, Wanted
  <2>5. NotYet(j)' /\ Writing(j)'
    BY <1>1, <1>2, <2>1, <2>2, <2>3, <2>4 DEF JobInv, NotYet, Writing
  <2>6. TriedAccounted(j)'
    <3>1. \A i : Accounted(j, i) => Accounted(j, i)'
      BY <1>1, AccountedStays DEF MadeStays
    <3>2. \A i : Tried(j, i)' => Tried(j, i) \/ i = cur[j].i
      BY <2>1, <2>3 DEF Tried
    <3> QED  BY <1>1, <1>3, <2>2, <2>3, <2>4, <3>1, <3>2 DEF JobInv, TriedAccounted
  <2> QED  BY <1>1, <2>1, <2>2, <2>3, <2>5, <2>6, Talks, CurStays DEF TypeOK
<1> QED  BY <1>4, <1>5

LEMMA AnswerKeeps == ASSUME IInv, NEW j \in Jobs, Answer(j) PROVE IInv'
<1>1. /\ cancelled' \in [Jobs -> BOOLEAN] /\ (cancelled[j] => cancelled'[j])
      /\ \A k \in Jobs \ {j} : cancelled'[k] = cancelled[k]
  BY DEF Answer, IInv, TypeOK
<1>2. /\ case' = case /\ meddled' = meddled /\ dir' = dir /\ unwritten' = unwritten
      /\ record' = record /\ announced' = announced /\ told' = told /\ silent' = silent
      /\ pc[j] = "ask" /\ MoveOn(j)
  BY DEF Answer
<1>3. ~ cancelled[j] => \A i : i = cur[j].i => Accounted(j, i)
  BY <1>2, JobKnown DEF JobInv, TriedAccounted, Tried
<1>4. \A i : Accounted(j, i) => Accounted(j, i)'
  BY <1>2, AccountedStays DEF MadeStays
<1> QED  BY <1>1, <1>2, <1>3, <1>4, TalksAndMovesOn

\* Another name for the same file.
LEMMA RenameKeeps ==
  ASSUME IInv, NEW j \in Jobs, NEW c, IsAtHand(c), c.i = cur[j].i,
         DOMAIN cur' = Jobs, cur'[j] = c, \A k \in Jobs \ {j} : cur'[k] = cur[k],
         pc' = pc, pc[j] = "make", case' = case, meddled' = meddled, dir' = dir,
         unwritten' = unwritten, record' = record, announced' = announced,
         told' = told, silent' = silent, cancelled' = cancelled
  PROVE  IInv'
<1>1. TypeOK /\ JobInv(j) /\ cur[j].i \in DOMAIN Wanted(j)
  BY DEF IInv, TypeOK
<1>2. /\ DOMAIN cur' = Jobs /\ cur'[j] = c
      /\ \A k \in Jobs \ {j} : cur'[k] = cur[k]
      /\ \A k \in Jobs : IsAtHand(cur[k])' /\ cur'[k].i \in DOMAIN Wanted(k)'
  BY <1>1, CurTyped
<1>3. Owned(j)' = Owned(j) /\ Wanted(j)' = Wanted(j)
  BY DEF Owned, Wanted
<1>4. NotYet(j)' /\ Writing(j)'
  BY <1>1, <1>2, <1>3 DEF JobInv, NotYet, Writing
<1>5. TriedAccounted(j)'
  <2>1. \A i : Accounted(j, i)' = Accounted(j, i) /\ Tried(j, i)' = Tried(j, i)
    BY <1>2, <1>3 DEF Accounted, Tried
  <2> QED  BY <1>1, <1>2, <1>3, <2>1 DEF JobInv, TriedAccounted
<1> QED  BY <1>1, <1>2, <1>4, <1>5, Talks DEF TypeOK

LEMMA Respelled ==
  ASSUME IInv, NEW j \in Jobs, NEW name, NEW c,
         c = [cur[j] EXCEPT !.name = name, !.handled = TRUE],
         cur' = [cur EXCEPT ![j].name = name, ![j].handled = TRUE]
  PROVE  /\ IsAtHand(c) /\ c.i = cur[j].i
         /\ DOMAIN cur' = Jobs /\ cur'[j] = c /\ \A k \in Jobs \ {j} : cur'[k] = cur[k]
<1>1. DOMAIN cur = Jobs /\ IsAtHand(cur[j])
  BY DEF IInv, TypeOK
<1>2. DOMAIN cur' = Jobs /\ cur'[j] = c /\ \A k \in Jobs \ {j} : cur'[k] = cur[k]
  BY <1>1
<1>3. IsAtHand(c) /\ c.i = cur[j].i
  BY <1>1 DEF IsAtHand
<1> QED  BY <1>2, <1>3

LEMMA RespellLinkKeeps == ASSUME IInv, NEW j \in Jobs, RespellLink(j) PROVE IInv'
<1>1. PICK name : cur' = [cur EXCEPT ![j].name = name, ![j].handled = TRUE]
  BY DEF RespellLink
<1> DEFINE c == [cur[j] EXCEPT !.name = name, !.handled = TRUE]
<1>2. /\ IsAtHand(c) /\ c.i = cur[j].i
      /\ DOMAIN cur' = Jobs /\ cur'[j] = c /\ \A k \in Jobs \ {j} : cur'[k] = cur[k]
  BY <1>1, Respelled
<1>3. pc[j] = "make"
  BY DEF RespellLink, MayRespell
<1> HIDE DEF c
<1> QED  BY <1>2, <1>3, RenameKeeps DEF RespellLink

LEMMA RespellNewKeeps == ASSUME IInv, NEW j \in Jobs, RespellNew(j) PROVE IInv'
<1>1. /\ case' = case /\ meddled' = meddled /\ dir' = dir /\ unwritten' = unwritten
      /\ record' = record /\ announced' = announced /\ told' = told
      /\ cancelled' = cancelled /\ pc[j] = "make" /\ Creates(j)
  BY DEF RespellNew, MayRespell
<1>2. \/ /\ \E name : cur' = [cur EXCEPT ![j].name = name, ![j].handled = TRUE]
         /\ pc' = pc /\ silent' = silent
      \/ /\ pc' = [pc EXCEPT ![j] = "done"] /\ cur' = cur
         /\ silent' = silent \cup {This(j)}
  BY DEF RespellNew
<1>3. ASSUME NEW name, cur' = [cur EXCEPT ![j].name = name, ![j].handled = TRUE],
             pc' = pc, silent' = silent
      PROVE  IInv'
  <2> DEFINE c == [cur[j] EXCEPT !.name = name, !.handled = TRUE]
  <2>1. /\ IsAtHand(c) /\ c.i = cur[j].i
        /\ DOMAIN cur' = Jobs /\ cur'[j] = c /\ \A k \in Jobs \ {j} : cur'[k] = cur[k]
    BY <1>3, Respelled
  <2> HIDE DEF c
  <2> QED  BY <1>1, <1>3, <2>1, RenameKeeps
<1>4. CASE pc' = [pc EXCEPT ![j] = "done"] /\ cur' = cur /\ silent' = silent \cup {This(j)}
  <2>a. Len(Wanted(j)) = 1
    BY <1>1, WantedTyped DEF IInv
  <2>1. /\ TypeOK /\ JobInv(j) /\ cur[j].i = Len(Wanted(j)) /\ cur[j].i = 1
        /\ DOMAIN Wanted(j) = {1}
    <3>1. TypeOK /\ JobInv(j) /\ cur[j].i \in 1 .. 1 /\ DOMAIN Wanted(j) = 1 .. 1
      BY <2>a, JobKnown
    <3> QED  BY <2>a, <3>1
  <2>2. pc' \in [Jobs -> Stages] /\ pc'[j] = "done" /\ \A k \in Jobs \ {j} : pc'[k] = pc[k]
    BY <1>4, <2>1 DEF TypeOK, Stages
  <2>3. Owned(j)' = Owned(j) /\ Wanted(j)' = Wanted(j)
    BY <1>1 DEF Owned, Wanted
  <2>4. NotYet(j)' /\ Writing(j)'
    BY <1>1, <1>4, <2>1, <2>2, <2>3 DEF JobInv, NotYet, Writing
  <2>5. Accounted(j, 1)'
    BY <1>4, <2>1 DEF Accounted, This
  <2>6. TriedAccounted(j)'
    BY <1>4, <2>1, <2>3, <2>5 DEF TriedAccounted
  <2> QED  BY <1>1, <1>4, <2>1, <2>2, <2>4, <2>6, Talks, CurStays DEF TypeOK
<1> QED  BY <1>2, <1>3, <1>4

LEMMA ExistsKeeps == ASSUME IInv, NEW j \in Jobs, Exists(j) PROVE IInv'
<1>1. PICK n, name : cur' = [cur EXCEPT ![j] = [cur[j] EXCEPT !.count = n, !.name = name]]
  BY DEF Exists, Recount
<1> DEFINE c == [cur[j] EXCEPT !.count = n, !.name = name]
<1>2. DOMAIN cur = Jobs /\ IsAtHand(cur[j])
  BY DEF IInv, TypeOK
<1>3. DOMAIN cur' = Jobs /\ cur'[j] = c /\ \A k \in Jobs \ {j} : cur'[k] = cur[k]
  BY <1>1, <1>2
<1>4. IsAtHand(c) /\ c.i = cur[j].i
  BY <1>2 DEF IsAtHand
<1> HIDE DEF c
<1> QED  BY <1>3, <1>4, RenameKeeps DEF Exists

\* What another program does is nobody's work, and it is on record.
LEMMA MeddleKeeps == ASSUME IInv, Meddle PROVE IInv'
<1>1. /\ case' = case /\ cur' = cur /\ pc' = pc /\ cancelled' = cancelled
      /\ record' = record /\ announced' = announced /\ unwritten' = unwritten
      /\ told' = told /\ silent' = silent
      /\ meddled' \in Nat /\ meddled' > 0
  BY DEF Meddle, IInv, TypeOK
<1>2. \A n \in DOMAIN dir' : (n \in DOMAIN dir /\ dir'[n] = dir[n]) \/ dir'[n] = Other
  BY DEF Meddle
<1>3. TypeOK'
  <2>1. \A n \in DOMAIN dir' : dir'[n] \in (Jobs \cup {"other"}) \X Nat
    BY <1>2 DEF IInv, TypeOK, Other
  <2> QED  BY <1>1, <2>1, CurStays DEF IInv, TypeOK
<1>4. ASSUME NEW j \in Jobs PROVE JobInv(j)'
  <2>1. \A n \in Owned(j)' : n \in Owned(j) /\ dir'[n] = dir[n]
    BY <1>2, MakeAssumption DEF Owned, Other
  <2>2. JobInv(j)
    BY DEF IInv
  <2>3. NotYet(j)' /\ MadeIsKept(j)'
    BY <1>1, <2>1, <2>2 DEF JobInv, NotYet, MadeIsKept
  <2>4. Writing(j)' /\ KeptIsMade(j)'
    BY <1>1 DEF Writing, KeptIsMade
  <2>5. TriedAccounted(j)'
    <3>1. /\ Wanted(j)' = Wanted(j)
          /\ \A i : Accounted(j, i)' /\ Tried(j, i)' = Tried(j, i)
      BY <1>1 DEF Accounted, Tried, Wanted
    <3> QED  BY <1>1, <2>2, <3>1 DEF JobInv, TriedAccounted
  <2> QED  BY <2>3, <2>4, <2>5 DEF JobInv
<1> QED  BY <1>3, <1>4 DEF IInv

LEMMA NextIInv == IInv /\ [Next]_vars => IInv'
<1> SUFFICES ASSUME IInv, [Next]_vars PROVE IInv'
  OBVIOUS
<1>1. CASE UNCHANGED vars
  BY <1>1 DEF vars, IInv, TypeOK, JobInv, NotYet, Writing, MadeIsKept, KeptIsMade,
              TriedAccounted, Tried, Accounted, Owned, Wanted, This, IsAtHand
<1>2. CASE Next
  BY <1>2, StartKeeps, MadeKeeps, WrittenKeeps, QuietKeeps, TroubleKeeps, RespellLinkKeeps,
     RespellNewKeeps, ExistsKeeps, AnswerVerifyKeeps, AnswerKeeps, DoneKeeps, CancelKeeps,
     MeddleKeeps DEF Next, Thread, MainLoop
<1> QED  BY <1>1, <1>2

-------------------------------------------------------------------------------
(* The names that are made up.                                             *)

\* What names are made of.  (That these characters are strings is no rule of the provers.)
Token == (STRING \X Nat) \cup {Char("_"), Dot, Space, Open, Copy, Link}
                          \cup {Number(n) : n \in Nat}

\* A set of places in a name has a first one.
LEMMA FirstExists ==
  ASSUME NEW places \in SUBSET Nat, places # {}
  PROVE  FirstOf(places) \in places /\ \A k \in places : FirstOf(places) <= k
<1>1. PICK i \in places : \A k \in places : ~ (<<k, i>> \in OpToRel(<, Nat))
  BY NatLessThanWellFounded, WFMin
<1>2. \A k \in places : i <= k
  <2> SUFFICES ASSUME NEW k \in places PROVE ~ (k < i)
    OBVIOUS
  <2>1. <<k, i>> \notin OpToRel(<, Nat)
    BY <1>1
  <2> QED  BY <2>1 DEF OpToRel
<1> QED  BY <1>2 DEF FirstOf

\* And where it is bounded, a last one.
LEMMA LastExists ==
  ASSUME NEW n \in Nat, NEW places \in SUBSET (1 .. n), places # {}
  PROVE  \E i \in places : \A k \in places : k <= i
<1> DEFINE mirrored == {n - i : i \in places}
<1>1. mirrored \in SUBSET Nat /\ mirrored # {}
  <2>1. \A i \in places : n - i \in Nat
    OBVIOUS
  <2>2. PICK i \in places : TRUE
    OBVIOUS
  <2>3. n - i \in mirrored
    OBVIOUS
  <2> QED  BY <2>1, <2>3
<1>2. FirstOf(mirrored) \in mirrored /\ \A k \in mirrored : FirstOf(mirrored) <= k
  BY <1>1, FirstExists
<1>3. PICK i \in places : FirstOf(mirrored) = n - i
  BY <1>2
<1>4. \A k \in places : n - i <= n - k
  <2>1. \A k \in places : n - k \in mirrored
    OBVIOUS
  <2> QED  BY <1>2, <1>3, <2>1
<1> HIDE DEF mirrored
<1>5. \A k \in places : k <= i
  BY <1>4
<1> QED  BY <1>5

-------------------------------------------------------------------------------
LEMMA ShortenIs ==
  ASSUME NEW base \in Seq(Token), NEW by \in Int, by > 0
  PROVE  Shorten(base, by) \in Seq(Token)
  BY SubSeqProperties DEF Shorten

\* What is left of a name that is too long by some tokens.
Cut(base, over, max) ==
  IF max > 0 /\ over > 0 /\ Shorten(base, over) # <<>> THEN Shorten(base, over) ELSE base

\* What is put before or after a name does not matter for where the name is cut, but
\* for its length.
LEMMA CutTyped ==
  ASSUME NEW base \in Seq(Token), NEW over \in Int, NEW max
  PROVE  Cut(base, over, max) \in Seq(Token)
  BY ShortenIs DEF Cut

LEMMA FittedTail ==
  ASSUME NEW base \in Seq(Token), NEW after \in Seq(Token), NEW max \in Int
  PROVE  Fitted(<<>>, base, after, max)
           = Cut(base, Len(base) + Len(after) - max, max) \o after
<1> DEFINE over == Len(base) + Len(after) - max
<1>1. over = Len(<<>> \o base \o after) - max
  OBVIOUS
<1>2. Fitted(<<>>, base, after, max) = <<>> \o Cut(base, over, max) \o after
  <2> HIDE DEF over
  <2> QED  BY <1>1, Zenon DEF Fitted, Cut
<1>3. <<>> \o Cut(base, over, max) = Cut(base, over, max)
  <2>1. Cut(base, over, max) \in Seq(Token)
    BY CutTyped
  <2> QED  BY <2>1
<1> HIDE DEF over
<1>4. Fitted(<<>>, base, after, max) = Cut(base, over, max) \o after
  BY <1>2, <1>3, Zenon
<1> QED  BY <1>4, Zenon DEF over

LEMMA FittedFront ==
  ASSUME NEW before \in Seq(Token), NEW base \in Seq(Token), NEW max \in Int
  PROVE  Fitted(before, base, <<>>, max)
           = before \o Cut(base, Len(before) + Len(base) - max, max)
<1> DEFINE over == Len(before) + Len(base) - max
           whole == before \o Cut(base, over, max)
<1>1. over = Len(before \o base \o <<>>) - max
  OBVIOUS
<1>2. Fitted(before, base, <<>>, max) = whole \o <<>>
  <2> HIDE DEF over
  <2> QED  BY <1>1, Zenon DEF Fitted, Cut
<1>3. whole \o <<>> = whole
  <2>1. Cut(base, over, max) \in Seq(Token)
    BY CutTyped
  <2> HIDE DEF over
  <2>2. whole \in Seq(Token)
    BY <2>1
  <2> HIDE DEF whole
  <2> QED  BY <2>2
<1> HIDE DEF over
<1>4. Fitted(before, base, <<>>, max) = before \o Cut(base, over, max)
  BY <1>2, <1>3, Zenon
<1> QED  BY <1>4, Zenon DEF over

\* What becomes of a token that a FAT file system does not take.
Plain(t) == IF t \in Forbidden THEN Char("_") ELSE t

LEMMA PlainIs ==
  ASSUME NEW t \in Token
  PROVE  /\ Plain(t) \in Token /\ Plain(t) \notin Forbidden
         /\ t # Space => Plain(t) # Space
         /\ t \notin Forbidden => Plain(t) = t
<1>1. <<"_", 0>> # <<" ", 0>>
  OBVIOUS
<1>2. Char("_") \notin Forbidden
  BY DEF Char, Forbidden
<1> QED  BY <1>1, <1>2 DEF Plain, Char, Token, Space

\* Of a name that is made valid only spaces at the end go.
LEMMA ValidIs ==
  ASSUME NEW name \in Seq(Token)
  PROVE  LET v == ValidForFs(name, TRUE)
         IN  /\ v \in Seq(Token) /\ Len(v) <= Len(name)
             /\ \A i \in 1 .. Len(v) : v[i] = Plain(name[i])
             /\ \A i \in 1 .. Len(name) : name[i] # Space => i <= Len(v)
<1> DEFINE replaced == [i \in DOMAIN name |-> Plain(name[i])]
           words == {i \in DOMAIN name : replaced[i] # Space}
           end == CHOOSE i \in words : \A k \in words : k <= i
           v == ValidForFs(name, TRUE)
<1>1. DOMAIN name = 1 .. Len(name) /\ Len(name) \in Nat
  OBVIOUS
<1>2. \A i \in DOMAIN name : name[i] \in Token
  BY <1>1
<1>3. replaced \in Seq(Token) /\ Len(replaced) = Len(name) /\ DOMAIN replaced = DOMAIN name
  <2>1. replaced \in [1 .. Len(name) -> Token]
    BY <1>1, <1>2, PlainIs
  <2> HIDE DEF replaced
  <2> QED  BY <1>1, <2>1
<1>4. \A i \in DOMAIN name : replaced[i] = Plain(name[i])
  OBVIOUS
<1>5. \A i \in DOMAIN name : name[i] # Space => i \in words
  BY <1>2, PlainIs
<1>6. v = IF words = {} THEN replaced ELSE SubSeq(replaced, 1, end)
  BY Zenon DEF ValidForFs, Plain
<1>7. words # {} => end \in words /\ \A k \in words : k <= end
  <2>1. words \in SUBSET (1 .. Len(name))
    BY <1>1
  <2> HIDE DEF words
  <2> QED  BY <1>1, <2>1, LastExists
<1>8. words \subseteq DOMAIN name
  OBVIOUS
<1> HIDE DEF replaced, words, end, v
<1>a. SUFFICES /\ v \in Seq(Token) /\ Len(v) <= Len(name)
               /\ \A i \in 1 .. Len(v) : v[i] = Plain(name[i])
               /\ \A i \in 1 .. Len(name) : name[i] # Space => i <= Len(v)
  BY Zenon DEF v
<1>9. CASE words = {}
  BY <1>1, <1>3, <1>4, <1>5, <1>6, <1>9
<1>10. CASE words # {}
  <2>1. end \in 1 .. Len(name) /\ \A k \in words : k <= end
    BY <1>1, <1>7, <1>8, <1>10
  <2>2. v = SubSeq(replaced, 1, end)
    BY <1>6, <1>10
  <2>3. \A i \in 1 .. end : replaced[i] \in Token
    BY <1>1, <1>3, <2>1
  <2>4. v \in Seq(Token) /\ Len(v) = end /\ \A i \in 1 .. end : v[i] = replaced[i]
    BY <1>1, <2>1, <2>2, <2>3, SubSeqProperties
  <2> QED  BY <1>1, <1>4, <1>5, <2>1, <2>4
<1> QED  BY <1>9, <1>10

LEMMA ValidHasNone ==
  ASSUME NEW name \in Seq(Token)
  PROVE  LET v == ValidForFs(name, TRUE) IN \A i \in DOMAIN v : v[i] \notin Forbidden
<1> DEFINE v == ValidForFs(name, TRUE)
<1>1. /\ v \in Seq(Token) /\ Len(v) <= Len(name)
      /\ \A i \in 1 .. Len(v) : v[i] = Plain(name[i])
  BY ValidIs, Zenon
<1> HIDE DEF v
<1>3. \A i \in DOMAIN v : v[i] \notin Forbidden
  <2>1. \A i \in 1 .. Len(v) : name[i] \in Token
    BY <1>1
  <2>2. DOMAIN v = 1 .. Len(v)
    BY <1>1
  <2> QED  BY <1>1, <2>1, <2>2, PlainIs
<1> QED  BY <1>3 DEF v

\* Names in which one place holds another number are still two names.
LEMMA NumbersDiffer ==
  ASSUME NEW s \in Seq(Token), NEW t \in Seq(Token), NEW fat \in BOOLEAN,
         NEW m \in Nat, NEW n \in Nat, m # n,
         NEW k \in 1 .. Len(s), k <= Len(t), s[k] = Number(m), t[k] = Number(n)
  PROVE  ValidForFs(s, fat) # ValidForFs(t, fat)
<1>1. Number(m) # Number(n)
  BY DEF Number
<1>2. \A i \in Nat : Number(i) # Space /\ Plain(Number(i)) = Number(i)
  BY DEF Plain, Number, Space, Forbidden, Char
<1>3. CASE ~ fat
  BY <1>1, <1>3 DEF ValidForFs
<1>4. CASE fat
  <2> DEFINE v == ValidForFs(s, TRUE)
             w == ValidForFs(t, TRUE)
  <2>a. /\ v \in Seq(Token)
        /\ \A i \in 1 .. Len(v) : v[i] = Plain(s[i])
        /\ \A i \in 1 .. Len(s) : s[i] # Space => i <= Len(v)
    BY ValidIs, Zenon
  <2>b. /\ w \in Seq(Token)
        /\ \A i \in 1 .. Len(w) : w[i] = Plain(t[i])
        /\ \A i \in 1 .. Len(t) : t[i] # Space => i <= Len(w)
    BY ValidIs, Zenon
  <2> HIDE DEF v, w
  <2>1. v[k] = Number(m)
    <3>1. k <= Len(v) /\ k \in 1 .. Len(v)
      BY <1>2, <2>a
    <3> QED  BY <1>2, <2>a, <3>1
  <2>2. w[k] = Number(n)
    <3>1. k \in 1 .. Len(t)
      OBVIOUS
    <3>2. k <= Len(w) /\ k \in 1 .. Len(w)
      BY <1>2, <2>b, <3>1
    <3> QED  BY <1>2, <2>b, <3>2
  <2> HIDE DEF v, w
  <2>3. v # w
    BY <1>1, <2>1, <2>2
  <2> QED  BY <1>4, <2>3 DEF v, w
<1> QED  BY <1>3, <1>4

LEMMA FirstBound ==
  ASSUME NEW n \in Int, NEW places \in SUBSET (1 .. n)
  PROVE  FirstOf(places) \in 0 .. n \/ FirstOf(places) = 0
<1>1. CASE places = {}
  BY <1>1 DEF FirstOf
<1>2. CASE places # {}
  <2>1. places \in SUBSET Nat
    OBVIOUS
  <2>2. FirstOf(places) \in places
    BY <1>2, <2>1, FirstExists
  <2>3. FirstOf(places) \in 1 .. n
    BY <2>2
  <2> QED  BY <2>3
<1> QED  BY <1>1, <1>2

LEMMA ParseIs ==
  ASSUME NEW name \in Seq(Token)
  PROVE  /\ Parse(name).base \in Seq(Token) /\ Parse(name).suffix \in Seq(Token)
         /\ Parse(name).count \in Nat
<1> DEFINE len == Len(name)
           dot == FirstOf({i \in 2..len : name[i] = Dot})
           suffixAt == IF dot = len THEN 0 ELSE dot
           tagged(n) == FirstOf({i \in 1..(len - 2) :
                                   SubSeq(name, i, i + 2) = <<Open, Number(n), Copy>>})
           other == IF \A i \in DOMAIN name : name[i] # Copy THEN 0
                    ELSE FirstOf({i \in DOMAIN name : name[i] = Open})
           tag == IF tagged(1) # 0 THEN tagged(1)
                  ELSE IF tagged(2) # 0 THEN tagged(2) ELSE other
           kept == suffixAt # 0 /\ (tag = 0 \/ tag < suffixAt)
           end == IF tag # 0 THEN tag - 1 ELSE IF kept THEN suffixAt - 1 ELSE len
<1>1. len \in Nat /\ DOMAIN name = 1 .. len /\ \A i \in 1 .. len : name[i] \in Token
  OBVIOUS
<1>2. dot \in 0 .. len
  <2> DEFINE places == {i \in 2..len : name[i] = Dot}
  <2>1. places \in SUBSET (1 .. len)
    BY <1>1
  <2> HIDE DEF places, len
  <2>2. FirstOf(places) \in 0 .. len
    BY <1>1, <2>1, FirstBound
  <2> QED  BY <2>2 DEF places
<1>3. \A n : tagged(n) \in 0 .. len
  <2> SUFFICES ASSUME NEW n PROVE tagged(n) \in 0 .. len
    OBVIOUS
  <2> DEFINE places == {i \in 1..(len - 2) :
                          SubSeq(name, i, i + 2) = <<Open, Number(n), Copy>>}
  <2>1. places \in SUBSET (1 .. len)
    BY <1>1
  <2> HIDE DEF places, len
  <2>2. FirstOf(places) \in 0 .. len
    BY <1>1, <2>1, FirstBound
  <2> QED  BY <2>2 DEF places
<1>4. other \in 0 .. len
  <2> DEFINE places == {i \in DOMAIN name : name[i] = Open}
  <2>1. places \in SUBSET (1 .. len)
    BY <1>1
  <2> HIDE DEF places, len
  <2>2. FirstOf(places) \in 0 .. len
    BY <1>1, <2>1, FirstBound
  <2> QED  BY <1>1, <2>2 DEF places
<1> HIDE DEF dot, tagged, other
<1>5. tag \in 0 .. len /\ suffixAt \in 0 .. len
  <2> HIDE DEF len
  <2>1. 0 \in 0 .. len /\ tagged(1) \in 0 .. len /\ tagged(2) \in 0 .. len
    BY <1>1, <1>3
  <2> QED  BY <1>2, <1>4, <2>1
<1> HIDE DEF tag, suffixAt
<1>6. end \in 0 .. len
  BY <1>1, <1>5
<1>7. Parse(name).base = SubSeq(name, 1, end)
  BY Zenon DEF Parse, dot, tagged, other, tag, suffixAt
<1>8. Parse(name).suffix = IF kept THEN SubSeq(name, suffixAt, len) ELSE <<>>
  BY Zenon DEF Parse, dot, tagged, other, tag, suffixAt
<1>9. Parse(name).count \in Nat
  <2> DEFINE written == IF tag # 0 /\ tag < len /\ name[tag + 1][1] = "number"
                        THEN name[tag + 1][2] ELSE 0
  <2>1. Parse(name).count = IF written \in 1 .. MaxTag THEN written ELSE 0
    BY Zenon DEF Parse, dot, tagged, other, tag, suffixAt
  <2> HIDE DEF written
  <2> QED  BY <2>1
<1>10. SubSeq(name, 1, end) \in Seq(Token)
  <2> HIDE DEF end, len
  <2> QED  BY <1>1, <1>6, SubSeqProperties
<1>11. kept => SubSeq(name, suffixAt, len) \in Seq(Token)
  <2> HIDE DEF len
  <2> QED  BY <1>1, <1>5, SubSeqProperties
<1> HIDE DEF end, len, kept
<1> QED  BY <1>7, <1>8, <1>9, <1>10, <1>11

-------------------------------------------------------------------------------
(* Where the number is in the names that are made up.                      *)

TagAt(base, suffix, max) == Len(Cut(base, Len(base) + (3 + Len(suffix)) - max, max)) + 2

LEMMA TagIs ==
  ASSUME NEW base \in Seq(Token), NEW suffix \in Seq(Token), NEW max \in Int,
         NEW k \in Nat \ {0}
  PROVE  LET name == NextName(base, suffix, k, max)
             at == TagAt(base, suffix, max)
         IN  name \in Seq(Token) /\ at \in 1 .. Len(name) /\ name[at] = Number(k)
<1> DEFINE tag == <<Open, Number(k), Copy>>
           t == tag \o suffix
           over == Len(base) + (3 + Len(suffix)) - max
           cut == Cut(base, over, max)
<1>1. Open \in Token /\ Number(k) \in Token /\ Copy \in Token
  BY DEF Token
<1>2. tag \in Seq(Token) /\ Len(tag) = 3 /\ tag[2] = Number(k)
  BY <1>1
<1>3. NextName(base, suffix, k, max) = Fitted(<<>>, base, t, max)
  <2>1. ~ (k < 1)
    OBVIOUS
  <2> QED  BY <2>1 DEF NextName
<1> HIDE DEF tag
<1>4. t \in Seq(Token) /\ Len(t) = 3 + Len(suffix) /\ t[2] = Number(k)
  <2>1. \A i \in 1 .. Len(tag) + Len(suffix) :
          t[i] = IF i <= Len(tag) THEN tag[i] ELSE suffix[i - Len(tag)]
    BY <1>2, ConcatProperties
  <2>2. t \in Seq(Token) /\ Len(t) = Len(tag) + Len(suffix)
    BY <1>2, ConcatProperties
  <2> QED  BY <1>2, <2>1, <2>2
<1> HIDE DEF t
<1>5. Fitted(<<>>, base, t, max) = cut \o t
  BY <1>4, FittedTail
<1>6. over \in Int /\ TagAt(base, suffix, max) = Len(cut) + 2
  BY DEF TagAt
<1> HIDE DEF over
<1>7. cut \in Seq(Token)
  BY <1>6, CutTyped
<1> HIDE DEF cut
<1>8. /\ cut \o t \in Seq(Token) /\ Len(cut) + 2 \in 1 .. Len(cut \o t)
      /\ (cut \o t)[Len(cut) + 2] = Number(k)
  BY <1>4, <1>7
<1> QED  BY <1>3, <1>5, <1>6, <1>8

LEMMA CopyIs ==
  ASSUME NEW name \in Seq(Token), NEW max \in Int, NEW k \in Nat
  PROVE  /\ DuplicateName(name, k, max) \in Seq(Token)
         /\ k > 0 =>
              LET copy == DuplicateName(name, k, max)
                  at == TagAt(Parse(name).base, Parse(name).suffix, max)
              IN  at \in 1 .. Len(copy) /\ copy[at] = Number(Parse(name).count + k)
<1> DEFINE base == Parse(name).base
           suffix == Parse(name).suffix
           count == Parse(name).count
           copy == DuplicateName(name, k, max)
           at == TagAt(base, suffix, max)
           shown == IF count + k < 1 THEN 1 ELSE count + k
<1>1. base \in Seq(Token) /\ suffix \in Seq(Token) /\ count \in Nat
  BY ParseIs
<1>2. copy = NextName(base, suffix, count + k, max)
  BY DEF DuplicateName
<1> HIDE DEF base, suffix, count, copy
<1>3. copy = NextName(base, suffix, shown, max)
  <2>1. shown \in Nat \ {0}
    BY <1>1
  <2>2. ~ (shown < 1)
    BY <2>1
  <2> QED  BY <1>2, <2>2, Zenon DEF NextName
<1>4. shown \in Nat \ {0} /\ (k > 0 => shown = count + k)
  BY <1>1
<1> HIDE DEF shown, at
<1>5. copy \in Seq(Token) /\ at \in 1 .. Len(copy) /\ copy[at] = Number(shown)
  BY <1>1, <1>3, <1>4, TagIs DEF at
<1> QED  BY <1>4, <1>5, Zenon DEF copy, at, base, suffix, count

LEMMA LinkIs ==
  ASSUME NEW name \in Seq(Token), NEW max \in Int, NEW k \in Nat
  PROVE  /\ LinkName(name, k, max) \in Seq(Token)
         /\ k > 0 => /\ 1 \in 1 .. Len(LinkName(name, k, max))
                     /\ LinkName(name, k, max)[1] = Number(k)
<1> DEFINE tag == IF k = 0 THEN <<>> ELSE <<Number(k), Link>>
           over == Len(tag) + Len(name) - max
           cut == Cut(name, over, max)
           link == tag \o cut
<1>1. Number(k) \in Token /\ Link \in Token
  BY DEF Token
<1>2. tag \in Seq(Token) /\ (k > 0 => Len(tag) = 2 /\ tag[1] = Number(k))
  BY <1>1
<1>3. LinkName(name, k, max) = Fitted(tag, name, <<>>, max)
  BY DEF LinkName
<1> HIDE DEF tag
<1>4. Fitted(tag, name, <<>>, max) = link
  BY <1>2, FittedFront
<1>5. over \in Int
  BY <1>2
<1> HIDE DEF over
<1>6. cut \in Seq(Token)
  BY <1>5, CutTyped
<1> HIDE DEF cut
<1>7. \A i \in 1 .. Len(tag) + Len(cut) :
        link[i] = IF i <= Len(tag) THEN tag[i] ELSE cut[i - Len(tag)]
  BY <1>2, <1>6, ConcatProperties
<1>8. link \in Seq(Token) /\ Len(link) = Len(tag) + Len(cut)
  BY <1>2, <1>6, ConcatProperties
<1> HIDE DEF link
<1>9. ASSUME k > 0 PROVE 1 \in 1 .. Len(link) /\ link[1] = Number(k)
  <2>1. Len(tag) = 2 /\ tag[1] = Number(k) /\ Len(cut) \in Nat
    BY <1>2, <1>6, <1>9
  <2> QED  BY <1>7, <1>8, <2>1
<1> QED  BY <1>3, <1>4, <1>8, <1>9

LEMMA FolderIs ==
  ASSUME NEW name \in Seq(Token), NEW max \in Int, NEW k \in Nat
  PROVE  LET folder == NumberedName(name, k, max)
         IN  /\ folder \in Seq(Token)
             /\ max <= 0 \/ Len(name) + 2 <= max =>
                  Len(name) + 2 \in 1 .. Len(folder) /\ folder[Len(name) + 2] = Number(k)
<1> DEFINE tail == <<Space, Number(k)>>
           numbered == name \o tail
           over == Len(numbered) - max
           folder == NumberedName(name, k, max)
<1>1. Number(k) \in Token /\ Space \in Token
  BY DEF Token
<1>2. tail \in Seq(Token) /\ Len(tail) = 2 /\ tail[2] = Number(k)
  BY <1>1
<1>3. folder = IF max > 0 /\ Len(numbered) > max /\ Shorten(numbered, over) # <<>>
               THEN Shorten(numbered, over) ELSE numbered
  BY Zenon DEF NumberedName
<1> HIDE DEF tail, folder
<1>4. \A i \in 1 .. Len(name) + Len(tail) :
        numbered[i] = IF i <= Len(name) THEN name[i] ELSE tail[i - Len(name)]
  BY <1>2, ConcatProperties
<1>5. numbered \in Seq(Token) /\ Len(numbered) = Len(name) + Len(tail)
  BY <1>2, ConcatProperties
<1> HIDE DEF numbered
<1>6. numbered[Len(name) + 2] = Number(k) /\ Len(name) + 2 \in 1 .. Len(numbered)
  BY <1>2, <1>4, <1>5
<1>7. Len(numbered) > max => Shorten(numbered, over) \in Seq(Token)
  BY <1>5, ShortenIs
<1>8. max <= 0 \/ Len(name) + 2 <= max => folder = numbered
  BY <1>2, <1>3, <1>5
<1> QED  BY <1>3, <1>5, <1>6, <1>7, <1>8, Zenon DEF folder

-------------------------------------------------------------------------------
\* The name made up for a file of a job before it is made valid.
MadeUp(j, i, count) ==
  LET name == Wanted(j)[i]
  IN IF Kind(j) = "link" THEN LinkName(name, count, MaxName)
     ELSE IF Kind(j) = "folder" THEN NumberedName(name, count, MaxName)
     ELSE DuplicateName(name, count, MaxName)

\* The number of a new folder is not cut off.
NumberFits(j, i) ==
  Kind(j) = "folder" => MaxName <= 0 \/ Len(Wanted(j)[i]) + 2 <= MaxName

LEMMA NameForIs ==
  ASSUME case \in Cases, NEW j \in Jobs, NEW i \in DOMAIN Wanted(j), NEW count \in Nat
  PROVE  /\ MadeUp(j, i, count) \in Seq(Token) /\ Wanted(j)[i] \in Seq(Token)
         /\ \A fat : NameFor(j, i, count, fat) = ValidForFs(MadeUp(j, i, count), fat)
<1>1. Wanted(j)[i] \in Seq(Token) /\ MaxName \in Int
  <2>1. /\ case.work[j].wanted \in Seq(Seq(STRING \X Nat)) \ {<<>>}
        /\ case.max \in Int
    BY MakeAssumption
  <2>2. Wanted(j)[i] \in Seq(STRING \X Nat)
    BY <2>1 DEF Wanted
  <2>3. \A t \in STRING \X Nat : t \in Token
    BY DEF Token
  <2> HIDE DEF Token
  <2> QED  BY <2>1, <2>2, <2>3 DEF MaxName
<1>2. MadeUp(j, i, count) \in Seq(Token)
  BY <1>1, LinkIs, FolderIs, CopyIs DEF MadeUp
<1> QED  BY <1>1, <1>2, Zenon DEF NameFor, MadeUp

\* Two counts give two names, to each file of each job.
NamesDiffer ==
  \A j \in Jobs, fat \in BOOLEAN : \A i \in DOMAIN Wanted(j) : NumberFits(j, i) =>
    \A m, n \in Nat \ {0} : m # n => NameFor(j, i, m, fat) # NameFor(j, i, n, fat)

LEMMA AttemptsDiffer == ASSUME case \in Cases PROVE NamesDiffer
<1> SUFFICES ASSUME NEW j \in Jobs, NEW fat \in BOOLEAN, NEW i \in DOMAIN Wanted(j),
                    NumberFits(j, i), NEW m \in Nat \ {0}, NEW n \in Nat \ {0}, m # n
             PROVE  NameFor(j, i, m, fat) # NameFor(j, i, n, fat)
  BY DEF NamesDiffer
<1> DEFINE s == MadeUp(j, i, m)
           t == MadeUp(j, i, n)
           name == Wanted(j)[i]
<1>1. /\ s \in Seq(Token) /\ t \in Seq(Token) /\ name \in Seq(Token)
      /\ NameFor(j, i, m, fat) = ValidForFs(s, fat)
      /\ NameFor(j, i, n, fat) = ValidForFs(t, fat)
  BY NameForIs
<1>2. MaxName \in Int /\ m > 0 /\ n > 0 /\ m \in Nat /\ n \in Nat
  BY MakeAssumption DEF MaxName
<1>3. ASSUME NEW k, NEW a \in Nat, NEW b \in Nat, a # b,
             k \in 1 .. Len(s), k \in 1 .. Len(t), s[k] = Number(a), t[k] = Number(b)
      PROVE  ValidForFs(s, fat) # ValidForFs(t, fat)
  <2> HIDE DEF s, t
  <2>1. k <= Len(t)
    BY <1>1, <1>3
  <2> QED  BY <1>1, <1>3, <2>1, NumbersDiffer
<1> HIDE DEF name
<1>4. CASE Kind(j) = "link"
  <2>1. s = LinkName(name, m, MaxName) /\ t = LinkName(name, n, MaxName)
    BY <1>4 DEF MadeUp, name
  <2> HIDE DEF s, t
  <2>2. /\ 1 \in 1 .. Len(s) /\ s[1] = Number(m)
        /\ 1 \in 1 .. Len(t) /\ t[1] = Number(n)
    BY <1>1, <1>2, <2>1, LinkIs
  <2> QED  BY <1>1, <1>2, <1>3, <2>2
<1>5. CASE Kind(j) = "folder"
  <2>1. s = NumberedName(name, m, MaxName) /\ t = NumberedName(name, n, MaxName)
    BY <1>5 DEF MadeUp, name
  <2>2. MaxName <= 0 \/ Len(name) + 2 <= MaxName
    BY <1>5 DEF NumberFits, name
  <2> HIDE DEF s, t
  <2> DEFINE at == Len(name) + 2
  <2>3. /\ at \in 1 .. Len(s) /\ s[at] = Number(m)
        /\ at \in 1 .. Len(t) /\ t[at] = Number(n)
    BY <1>1, <1>2, <2>1, <2>2, FolderIs
  <2> HIDE DEF at
  <2> QED  BY <1>1, <1>2, <1>3, <2>3
<1>6. CASE Kind(j) \notin {"link", "folder"}
  <2>1. s = DuplicateName(name, m, MaxName) /\ t = DuplicateName(name, n, MaxName)
    BY <1>6 DEF MadeUp, name
  <2> HIDE DEF s, t
  <2> DEFINE at == TagAt(Parse(name).base, Parse(name).suffix, MaxName)
             count == Parse(name).count
  <2>2. count \in Nat
    BY <1>1, ParseIs
  <2>3. at \in 1 .. Len(s) /\ s[at] = Number(count + m)
    BY <1>1, <1>2, <2>1, CopyIs
  <2>4. at \in 1 .. Len(t) /\ t[at] = Number(count + n)
    BY <1>1, <1>2, <2>1, CopyIs
  <2> HIDE DEF at, count
  <2>5. count + m \in Nat /\ count + n \in Nat /\ count + m # count + n
    BY <1>2, <2>2
  <2> QED  BY <1>1, <1>3, <2>3, <2>4, <2>5
<1> QED  BY <1>4, <1>5, <1>6

-------------------------------------------------------------------------------
(* A name is respelled at most once.                                       *)

Clean(name) == \A i \in DOMAIN name : name[i] \notin Forbidden

\* A file whose name was respelled has one that every file system takes.
Spelled(j) ==
  /\ cur[j].count \in Nat
  /\ cur[j].handled => fsKnown[j]
  /\ cur[j].handled /\ IsFat => Clean(cur[j].name)

SpelledInv == fsKnown \in [Jobs -> BOOLEAN] /\ \A j \in Jobs : Spelled(j)

LEMMA NameForClean ==
  ASSUME case \in Cases, NEW j \in Jobs, NEW i \in DOMAIN Wanted(j), NEW count \in Nat
  PROVE  Clean(NameFor(j, i, count, TRUE))
<1> DEFINE name == MadeUp(j, i, count)
<1>1. name \in Seq(Token) /\ NameFor(j, i, count, TRUE) = ValidForFs(name, TRUE)
  BY NameForIs
<1> HIDE DEF name
<1>2. Clean(ValidForFs(name, TRUE))
  BY <1>1, ValidHasNone, Zenon DEF Clean
<1> QED  BY <1>1, <1>2

LEMMA BeginSpelled ==
  ASSUME TypeOK, SpelledInv, NEW j \in Jobs, NEW i \in DOMAIN Wanted(j)
  PROVE  LET c == Begin(j, i)
         IN  /\ c.count \in Nat /\ (c.handled => fsKnown[j])
             /\ c.handled /\ IsFat => Clean(c.name)
<1>1. case \in Cases
  BY DEF TypeOK
<1>2. CASE Creates(j)
  BY <1>2 DEF Begin
<1>3. CASE ~ Creates(j)
  <2> DEFINE count == IF case.work[j].here THEN 1 ELSE 0
             c == Begin(j, i)
  <2>1. c.count = count /\ c.handled = fsKnown[j] /\ c.name = NameFor(j, i, count, Fat(j))
    BY <1>3 DEF Begin
  <2>2. count \in Nat
    OBVIOUS
  <2> HIDE DEF c, count
  <2>3. fsKnown[j] /\ IsFat => Fat(j) = TRUE
    BY DEF Fat, IsFat
  <2>4. fsKnown[j] /\ IsFat => Clean(c.name)
    BY <1>1, <2>1, <2>2, <2>3, NameForClean
  <2> QED  BY <2>1, <2>2, <2>4 DEF c
<1> QED  BY <1>2, <1>3

\* A step that does not look at the names, or moves on.
LEMMA SpelledStays ==
  ASSUME IInv, SpelledInv, case' = case, fsKnown' \in [Jobs -> BOOLEAN],
         \A k \in Jobs : fsKnown[k] => fsKnown'[k],
         \A k \in Jobs : \/ cur'[k] = cur[k]
                        \/ \E i \in DOMAIN Wanted(k) : cur'[k] = Begin(k, i)
  PROVE  SpelledInv'
<1> SUFFICES ASSUME NEW k \in Jobs PROVE Spelled(k)'
  BY DEF SpelledInv
<1>1. IsFat' = IsFat
  BY DEF IsFat
<1>2. CASE cur'[k] = cur[k]
  BY <1>1, <1>2 DEF SpelledInv, Spelled
<1>3. ASSUME NEW i \in DOMAIN Wanted(k), cur'[k] = Begin(k, i) PROVE Spelled(k)'
  <2> DEFINE c == Begin(k, i)
  <2>1. /\ c.count \in Nat /\ (c.handled => fsKnown[k])
        /\ c.handled /\ IsFat => Clean(c.name)
    BY BeginSpelled DEF IInv
  <2>2. cur'[k] = c
    BY <1>3
  <2> HIDE DEF c
  <2> QED  BY <1>1, <2>1, <2>2 DEF Spelled
<1> QED  BY <1>2, <1>3

LEMMA MoveOnBegins ==
  ASSUME IInv, NEW j \in Jobs, MoveOn(j)
  PROVE  \A k \in Jobs : \/ cur'[k] = cur[k]
                        \/ \E i \in DOMAIN Wanted(k) : cur'[k] = Begin(k, i)
<1>1. CASE cur[j].i < Len(Wanted(j)) /\ ~ cancelled'[j]
  <2>1. cur' = [cur EXCEPT ![j] = Begin(j, cur[j].i + 1)]
    BY <1>1 DEF MoveOn
  <2>2. cur[j].i + 1 \in DOMAIN Wanted(j) /\ DOMAIN cur = Jobs
    BY <1>1, JobKnown DEF TypeOK
  <2> QED  BY <2>1, <2>2
<1>2. CASE ~ (cur[j].i < Len(Wanted(j)) /\ ~ cancelled'[j])
  BY <1>2 DEF MoveOn
<1> QED  BY <1>1, <1>2

\* A job gives its file another name.
LEMMA RenameSpelled ==
  ASSUME IInv, SpelledInv, case' = case, fsKnown' \in [Jobs -> BOOLEAN],
         \A k \in Jobs : fsKnown[k] => fsKnown'[k],
         NEW j \in Jobs, NEW c, cur' = [cur EXCEPT ![j] = c],
         c.count \in Nat, c.handled => fsKnown'[j], c.handled /\ IsFat => Clean(c.name)
  PROVE  SpelledInv'
<1>1. DOMAIN cur = Jobs
  BY DEF IInv, TypeOK
<1>2. cur'[j] = c /\ \A k \in Jobs \ {j} : cur'[k] = cur[k]
  BY <1>1
<1>3. IsFat' = IsFat
  BY DEF IsFat
<1>4. Spelled(j)'
  BY <1>2, <1>3 DEF Spelled
<1>5. \A k \in Jobs \ {j} : Spelled(k)'
  BY <1>2, <1>3 DEF SpelledInv, Spelled
<1> QED  BY <1>4, <1>5 DEF SpelledInv

LEMMA StartSpelled ==
  ASSUME IInv, SpelledInv, NEW j \in Jobs, Start(j) PROVE SpelledInv'
<1>1. case' = case /\ fsKnown' = fsKnown /\ 1 \in DOMAIN Wanted(j) /\ DOMAIN cur = Jobs
  BY JobKnown DEF Start, TypeOK
<1>2. CASE cur' = cur
  BY <1>1, <1>2, SpelledStays DEF SpelledInv
<1>3. CASE cur' = [cur EXCEPT ![j] = Begin(j, 1)]
  BY <1>1, <1>3, SpelledStays DEF SpelledInv
<1> QED  BY <1>2, <1>3 DEF Start

\* The name is made up anew, for a file system that is known.
LEMMA RespellLinkSpelled ==
  ASSUME IInv, SpelledInv, NEW j \in Jobs, RespellLink(j) PROVE SpelledInv'
<1> DEFINE name == NameFor(j, cur[j].i, cur[j].count, IsFat)
           c == [cur[j] EXCEPT !.name = name, !.handled = TRUE]
<1>1. /\ case' = case /\ fsKnown' = [fsKnown EXCEPT ![j] = TRUE]
      /\ cur' = [cur EXCEPT ![j].name = name, ![j].handled = TRUE]
  BY DEF RespellLink
<1>2. /\ IsAtHand(cur[j]) /\ DOMAIN cur = Jobs /\ cur[j].i \in DOMAIN Wanted(j)
      /\ case \in Cases /\ cur[j].count \in Nat
  BY JobKnown DEF TypeOK, SpelledInv, Spelled
<1>3. IsFat => Clean(name)
  BY <1>2, NameForClean DEF IsFat
<1> HIDE DEF name
<1>4. cur' = [cur EXCEPT ![j] = c]
  BY <1>1, <1>2
<1>5. c.count = cur[j].count /\ c.name = name /\ c.handled
  BY <1>2 DEF IsAtHand
<1>6. /\ fsKnown' \in [Jobs -> BOOLEAN] /\ fsKnown'[j]
      /\ \A k \in Jobs : fsKnown[k] => fsKnown'[k]
  BY <1>1 DEF SpelledInv
<1> HIDE DEF c
<1> QED  BY <1>1, <1>2, <1>3, <1>4, <1>5, <1>6, RenameSpelled

LEMMA RespellNewSpelled ==
  ASSUME IInv, SpelledInv, NEW j \in Jobs, RespellNew(j) PROVE SpelledInv'
<1> DEFINE asked == IF cur[j].count = 1 THEN Wanted(j)[1]
                    ELSE NameFor(j, 1, cur[j].count, FALSE)
           name == ValidForFs(asked, IsFat)
           c == [cur[j] EXCEPT !.name = name, !.handled = TRUE]
<1>1. /\ case' = case /\ fsKnown' = [fsKnown EXCEPT ![j] = TRUE]
      /\ \/ cur' = cur
         \/ cur' = [cur EXCEPT ![j].name = name, ![j].handled = TRUE]
  BY DEF RespellNew
<1>2. /\ IsAtHand(cur[j]) /\ DOMAIN cur = Jobs /\ 1 \in DOMAIN Wanted(j)
      /\ case \in Cases /\ cur[j].count \in Nat
  BY JobKnown DEF TypeOK, SpelledInv, Spelled
<1>3. asked \in Seq(Token)
  <2> DEFINE made == MadeUp(j, 1, cur[j].count)
  <2>1. /\ Wanted(j)[1] \in Seq(Token) /\ made \in Seq(Token)
        /\ NameFor(j, 1, cur[j].count, FALSE) = ValidForFs(made, FALSE)
    BY <1>2, NameForIs
  <2> HIDE DEF made
  <2>2. ValidForFs(made, FALSE) = made
    BY DEF ValidForFs
  <2> QED  BY <2>1, <2>2
<1> HIDE DEF asked
<1>4. IsFat => Clean(name)
  <2>1. Clean(ValidForFs(asked, TRUE))
    BY <1>3, ValidHasNone, Zenon DEF Clean
  <2> QED  BY <2>1 DEF IsFat
<1> HIDE DEF name
<1>5. /\ fsKnown' \in [Jobs -> BOOLEAN] /\ fsKnown'[j]
      /\ \A k \in Jobs : fsKnown[k] => fsKnown'[k]
  BY <1>1 DEF SpelledInv
<1>6. CASE cur' = cur
  BY <1>1, <1>5, <1>6, SpelledStays
<1>7. CASE cur' = [cur EXCEPT ![j].name = name, ![j].handled = TRUE]
  <2>1. cur' = [cur EXCEPT ![j] = c]
    BY <1>2, <1>7
  <2>2. c.count = cur[j].count /\ c.name = name /\ c.handled
    BY <1>2 DEF IsAtHand
  <2> HIDE DEF c
  <2> QED  BY <1>1, <1>2, <1>4, <1>5, <2>1, <2>2, RenameSpelled
<1> QED  BY <1>1, <1>6, <1>7

LEMMA ExistsSpelled ==
  ASSUME IInv, SpelledInv, NEW j \in Jobs, Exists(j) PROVE SpelledInv'
<1> DEFINE next == Capped(cur[j].count + 1)
           count == IF Kind(j) = "folder" THEN next ELSE cur[j].count
           name == NameFor(j, cur[j].i, count, Fat(j))
           c == [cur[j] EXCEPT !.count = next, !.name = name]
<1>1. case' = case /\ fsKnown' = fsKnown /\ cur' = [cur EXCEPT ![j] = c]
  BY DEF Exists, Recount
<1>2. /\ IsAtHand(cur[j]) /\ DOMAIN cur = Jobs /\ cur[j].i \in DOMAIN Wanted(j)
      /\ case \in Cases /\ cur[j].count \in Nat /\ (cur[j].handled => fsKnown[j])
  BY JobKnown DEF TypeOK, SpelledInv, Spelled
<1>3. next \in Nat /\ count \in Nat
  BY <1>2, MakeAssumption DEF Capped
<1> HIDE DEF next, count
<1>4. fsKnown[j] /\ IsFat => Clean(name)
  BY <1>2, <1>3, NameForClean DEF Fat, IsFat
<1> HIDE DEF name
<1>5. c.count = next /\ c.name = name /\ c.handled = cur[j].handled
  BY <1>2 DEF IsAtHand
<1> HIDE DEF c
<1> QED  BY <1>1, <1>2, <1>3, <1>4, <1>5, RenameSpelled DEF SpelledInv

LEMMA InitSpelled == Init => SpelledInv
  BY DEF Init, SpelledInv, Spelled

LEMMA NextSpelled == IInv /\ SpelledInv /\ [Next]_vars => SpelledInv'
<1> SUFFICES ASSUME IInv, SpelledInv, [Next]_vars PROVE SpelledInv'
  OBVIOUS
<1>1. ASSUME NEW j \in Jobs,
             Made(j) \/ Written(j) \/ Quiet(j) \/ Answer(j) PROVE SpelledInv'
  <2>1. case' = case /\ fsKnown' = fsKnown
    BY <1>1 DEF Made, Written, Quiet, Answer
  <2>2. MoveOn(j) \/ cur' = cur
    BY <1>1 DEF Made, Written, Quiet, Answer
  <2> QED  BY <2>1, <2>2, MoveOnBegins, SpelledStays DEF SpelledInv
<1>2. ASSUME NEW j \in Jobs, Trouble(j) PROVE SpelledInv'
  <2>1. case' = case /\ fsKnown' = [fsKnown EXCEPT ![j] = @ \/ MayRespell(j)]
    BY <1>2 DEF Trouble
  <2>2. MoveOn(j) \/ cur' = cur
    BY <1>2 DEF Trouble
  <2>3. MayRespell(j) \in BOOLEAN
    BY DEF MayRespell
  <2>4. /\ fsKnown' \in [Jobs -> BOOLEAN]
        /\ \A k \in Jobs : fsKnown[k] => fsKnown'[k]
    BY <2>1, <2>3 DEF SpelledInv
  <2> QED  BY <2>1, <2>2, <2>4, MoveOnBegins, SpelledStays
<1>3. ASSUME UNCHANGED <<case, cur, fsKnown>> PROVE SpelledInv'
  BY <1>3, SpelledStays DEF SpelledInv
<1>4. CASE UNCHANGED vars
  BY <1>3, <1>4 DEF vars
<1>5. ASSUME NEW j \in Jobs, AnswerVerify(j) \/ Done(j) \/ Cancel(j) PROVE SpelledInv'
  BY <1>3, <1>5 DEF AnswerVerify, Done, Cancel
<1>6. CASE Meddle
  BY <1>3, <1>6 DEF Meddle
<1>7. CASE Next
  BY <1>1, <1>2, <1>5, <1>6, <1>7, StartSpelled, RespellLinkSpelled, RespellNewSpelled,
     ExistsSpelled DEF Next, Thread, MainLoop
<1> QED  BY <1>4, <1>7

-------------------------------------------------------------------------------
\* Undoing a job takes back what it made and nothing else: link_job and create_job
\* record and announce each file under the name they made it with, whatever other
\* jobs and programs make in the folder meanwhile.
THEOREM RecordsAreTrue == Spec => []UndoTakesBack
<1>1. IInv => UndoTakesBack
  BY DEF IInv, JobInv, MadeIsKept, KeptIsMade, UndoTakesBack
<1> QED  BY <1>1, InitIInv, NextIInv, PTL DEF Spec

\* When a job has ended uncancelled, each of its files was made, or the user was
\* told that it was not: link_job and create_job lose none on the way, whatever
\* the file system and the user answer; but for the name that cannot be respelled.
THEOREM NoneForgotten == Spec => []AllAccounted
<1>1. IInv => AllAccounted
  <2> SUFFICES ASSUME IInv, NEW j \in Jobs, pc[j] = "ended", ~ cancelled[j],
                      NEW i \in DOMAIN Wanted(j)
               PROVE  Accounted(j, i)
    BY DEF AllAccounted, Accounted
  <2>1. TriedAccounted(j) /\ i \in 1 .. Len(Wanted(j)) /\ Len(Wanted(j)) \in Nat
    BY JobKnown DEF JobInv
  <2>2. cur[j].i = Len(Wanted(j))
    BY <2>1 DEF TriedAccounted
  <2> QED  BY <2>1, <2>2 DEF TriedAccounted, Tried
<1> QED  BY <1>1, InitIInv, NextIInv, PTL DEF Spec

\* No name is made up twice: as the count of link_job or create_job goes up, the names
\* differ, however short names have to be and whatever a FAT file system does to them;
\* but for a new folder whose number is cut off.
THEOREM NoNameTwice == Spec => []NamesDiffer
<1>1. IInv => NamesDiffer
  BY AttemptsDiffer DEF IInv, TypeOK
<1> QED  BY <1>1, InitIInv, NextIInv, PTL DEF Spec

\* A FAT file system does not call a name invalid that was respelled for it, nor one
\* that link_job or create_job made up after that: that handled_invalid_filename lets
\* them respell only once is enough.
RespelledIsTaken ==
  \A j \in Jobs : pc[j] = "make" /\ cur[j].handled /\ IsFat => "invalid" \notin Results(j)

THEOREM RespelledOnce == Spec => []RespelledIsTaken
<1>1. SpelledInv => RespelledIsTaken
  BY DEF SpelledInv, Spelled, Clean, RespelledIsTaken, Results
<1> QED  BY <1>1, InitIInv, NextIInv, InitSpelled, NextSpelled, PTL DEF Spec

-------------------------------------------------------------------------------
(* The manager: its queue, the index in it, the locks, the flag that keeps *)
(* an undo from being recorded, and the menu.                              *)

\* What the properties need to be inductive: an action whose undo or redo job
\* runs is locked, only actions that were pushed are undone, run or wait to be
\* released, and none on the queue waits to be released.
InFlightLocked == \A a \in inFlight : locked[a]
OnlyPushed ==
  \A a \in Op : phase[a] \notin {"live", "released"}
                  => a \notin inFlight /\ a \notin undone /\ ~freeLater[a]
NoneOnQueueFreed ==
  ~fault => \A i \in DOMAIN stack : ~freeLater[stack[i]]

UndoInv ==
  /\ UndoneBeforeIndex
  /\ RedoInFlightAlive
  /\ MenuInSync
  /\ FlagOnlyInFlight
  /\ InFlightLocked
  /\ OnlyPushed
  /\ NoneOnQueueFreed

-----------------------------------------------------------------------------
\* stack_fix_size keeps the newest n actions where they are.
LEMMA TrimmedLemma ==
  ASSUME NEW S, NEW st \in Seq(S), NEW n \in Nat
  PROVE  /\ Trimmed(st, n) \in Seq(S)
         /\ Len(Trimmed(st, n)) \in Nat
         /\ Len(Trimmed(st, n)) <= n
         /\ Len(Trimmed(st, n)) <= Len(st)
         /\ Len(st) <= n => Len(Trimmed(st, n)) = Len(st)
         /\ Len(st) > n => Len(Trimmed(st, n)) = n
         /\ \A i \in 1 .. Len(Trimmed(st, n)) : Trimmed(st, n)[i] = st[i]
<1> DEFINE k == IF Len(st) > n THEN n ELSE Len(st)
<1>1. /\ Len(st) \in Nat
      /\ \A i \in 1 .. Len(st) : st[i] \in S
  BY LenProperties, ElementOfSeq
<1>2. k \in Nat /\ k <= n /\ k <= Len(st)
  BY <1>1
<1>3. \A i \in 1 .. k : st[i] \in S
  BY <1>1, <1>2
<1>4. /\ SubSeq(st, 1, k) \in Seq(S)
      /\ Len(SubSeq(st, 1, k)) = IF 1 <= k THEN k - 1 + 1 ELSE 0
      /\ \A i \in 1 .. k - 1 + 1 : SubSeq(st, 1, k)[i] = st[1 + i - 1]
  <2> HIDE DEF k
  <2> QED BY <1>2, <1>3, SubSeqProperties
<1>5. Len(SubSeq(st, 1, k)) = k
  <2> HIDE DEF k
  <2> QED BY <1>2, <1>4
<1>6. \A i \in 1 .. k : SubSeq(st, 1, k)[i] = st[i]
  <2> HIDE DEF k
  <2> QED BY <1>2, <1>4
<1>7. Trimmed(st, n) = SubSeq(st, 1, k)
  BY DEF Trimmed
<1> QED BY <1>1, <1>2, <1>4, <1>5, <1>6, <1>7

\* clear_redo_actions keeps the actions after the index, in order.
LEMMA RedoClearedLemma ==
  ASSUME stack \in Seq(Op), index \in Nat, index <= Len(stack)
  PROVE  /\ RedoCleared \in Seq(Op)
         /\ Len(RedoCleared) = Len(stack) - index
         /\ \A i \in 1 .. Len(RedoCleared) :
              /\ index + i \in 1 .. Len(stack)
              /\ RedoCleared[i] = stack[index + i]
<1>1. Len(stack) \in Nat /\ \A i \in 1 .. Len(stack) : stack[i] \in Op
  BY LenProperties, ElementOfSeq
<1>2. index + 1 \in Int /\ \A i \in index + 1 .. Len(stack) : stack[i] \in Op
  BY <1>1
<1>3. /\ SubSeq(stack, index + 1, Len(stack)) \in Seq(Op)
      /\ Len(SubSeq(stack, index + 1, Len(stack))) =
           IF index + 1 <= Len(stack) THEN Len(stack) - (index + 1) + 1 ELSE 0
      /\ \A i \in 1 .. Len(stack) - (index + 1) + 1 :
           SubSeq(stack, index + 1, Len(stack))[i] = stack[index + 1 + i - 1]
  BY <1>1, <1>2, SubSeqProperties
<1> QED BY <1>1, <1>3 DEF RedoCleared

\* A pushed action is the head of what clear_redo_actions left.
LEMMA PushedLemma ==
  ASSUME NEW S, NEW st \in Seq(S), NEW o \in S
  PROVE  /\ <<o>> \o st \in Seq(S)
         /\ Len(<<o>> \o st) = Len(st) + 1
         /\ (<<o>> \o st)[1] = o
         /\ \A i \in 1 .. Len(st) : (<<o>> \o st)[i + 1] = st[i]
<1>1. <<o>> \in Seq(S) /\ Len(<<o>>) = 1 /\ <<o>>[1] = o /\ Len(st) \in Nat
  BY LenProperties
<1>2. /\ <<o>> \o st \in Seq(S)
      /\ Len(<<o>> \o st) = Len(<<o>>) + Len(st)
      /\ \A i \in 1 .. Len(<<o>>) + Len(st) :
           (<<o>> \o st)[i] = IF i <= Len(<<o>>) THEN <<o>>[i]
                                                 ELSE st[i - Len(<<o>>)]
  BY <1>1, ConcatProperties
<1> QED BY <1>1, <1>2

\* What g_queue_remove leaves is a queue of the remaining actions, each once if
\* each was there once.
LEMMA KeptLemma ==
  ASSUME NEW st \in Seq(Op), NEW R, NEW s \in Kept(st, R)
  PROVE  /\ s \in Seq(Op)
         /\ Len(s) <= Len(st)
         /\ \A i \in DOMAIN s : \E p \in DOMAIN st : s[i] = st[p]
         /\ (\A p, q \in DOMAIN st : st[p] = st[q] => p = q)
              => \A i, j \in DOMAIN s : s[i] = s[j] => i = j
<1>1. PICK n \in 0 .. Len(st) : s \in [1 .. n -> Range(st)]
  BY DEF Kept
<1>2. Len(st) \in Nat /\ DOMAIN st = 1 .. Len(st)
      /\ \A i \in 1 .. Len(st) : st[i] \in Op
  BY LenProperties, ElementOfSeq
<1>3. Range(st) \subseteq Op
  BY <1>2 DEF Range
<1>4. s \in [1 .. n -> Op] /\ n \in Nat /\ DOMAIN s = 1 .. n
  BY <1>1, <1>2, <1>3
<1>5. s \in Seq(Op) /\ Len(s) = n
  BY <1>4
<1>6. \A i \in DOMAIN s : \E p \in DOMAIN st : s[i] = st[p]
  BY <1>1, <1>4 DEF Range
<1>7. \A i, j \in DOMAIN s : i < j =>
        \E p, q \in DOMAIN st : p < q /\ st[p] = s[i] /\ st[q] = s[j]
  BY DEF Kept
<1>8. ASSUME \A p, q \in DOMAIN st : st[p] = st[q] => p = q,
             NEW i \in DOMAIN s, NEW j \in DOMAIN s, s[i] = s[j]
      PROVE  i = j
  <2>1. ASSUME NEW x \in DOMAIN s, NEW y \in DOMAIN s, x < y
        PROVE  s[x] # s[y]
    <3>1. PICK p \in DOMAIN st, q \in DOMAIN st :
            p < q /\ st[p] = s[x] /\ st[q] = s[y]
      BY <1>7, <2>1
    <3> QED BY <1>2, <1>8, <3>1
  <2>2. i \in Nat /\ j \in Nat
    BY <1>4
  <2> QED BY <1>8, <2>1, <2>2
<1> QED BY <1>1, <1>2, <1>5, <1>6, <1>8

-----------------------------------------------------------------------------
\* What add_action leaves on the queue: the new action at the head, and behind
\* it the newest of the done ones.
LEMMA AddedLemma ==
  ASSUME NEW o \in Op, stack \in Seq(Op), index \in Nat, index <= Len(stack),
         levels \in Nat \ {0}, stack' = Trimmed(<<o>> \o RedoCleared, levels)
  PROVE  /\ <<o>> \o RedoCleared \in Seq(Op)
         /\ stack' \in Seq(Op)
         /\ Len(stack') \in Nat
         /\ Len(stack') <= levels
         /\ Len(stack') <= Len(<<o>> \o RedoCleared)
         /\ \A i \in 1 .. Len(stack') : stack'[i] = (<<o>> \o RedoCleared)[i]
         /\ Len(<<o>> \o RedoCleared) > levels => Len(stack') = levels
         /\ Len(<<o>> \o RedoCleared) = Len(stack) - index + 1
         /\ (<<o>> \o RedoCleared)[1] = o
         /\ \A i \in 2 .. Len(stack) - index + 1 :
              /\ index + i - 1 \in 1 .. Len(stack)
              /\ (<<o>> \o RedoCleared)[i] = stack[index + i - 1]
<1> DEFINE pushed == <<o>> \o RedoCleared
<1>1. /\ RedoCleared \in Seq(Op)
      /\ Len(RedoCleared) = Len(stack) - index
      /\ \A i \in 1 .. Len(RedoCleared) :
           /\ index + i \in 1 .. Len(stack)
           /\ RedoCleared[i] = stack[index + i]
  BY RedoClearedLemma
<1>2. /\ pushed \in Seq(Op)
      /\ Len(pushed) = Len(RedoCleared) + 1
      /\ pushed[1] = o
      /\ \A i \in 1 .. Len(RedoCleared) : pushed[i + 1] = RedoCleared[i]
  <2>1. RedoCleared \in Seq(Op)
    BY <1>1
  <2> HIDE <1>1
  <2> QED BY <2>1, PushedLemma
<1>3. Len(stack) \in Nat
  BY LenProperties
<1> HIDE DEF pushed
<1>4. /\ stack' \in Seq(Op)
      /\ Len(stack') \in Nat
      /\ Len(stack') <= levels
      /\ Len(stack') <= Len(pushed)
      /\ Len(pushed) > levels => Len(stack') = levels
      /\ \A i \in 1 .. Len(stack') : stack'[i] = pushed[i]
  BY <1>2, TrimmedLemma DEF pushed
<1>5. ASSUME NEW i \in 2 .. Len(stack) - index + 1
      PROVE  /\ index + i - 1 \in 1 .. Len(stack)
             /\ pushed[i] = stack[index + i - 1]
  <2>1. i - 1 \in 1 .. Len(RedoCleared) /\ i \in Nat
    BY <1>1, <1>3
  <2>2. pushed[(i - 1) + 1] = RedoCleared[i - 1]
    BY <1>2, <2>1
  <2>3. /\ index + (i - 1) \in 1 .. Len(stack)
        /\ RedoCleared[i - 1] = stack[index + (i - 1)]
    BY <1>1, <2>1
  <2> QED BY <2>1, <2>2, <2>3
<1> QED BY <1>1, <1>2, <1>3, <1>4, <1>5 DEF pushed

\* Emptying the trash takes actions off the queue of done actions and leaves
\* the others in order.
LEMMA EmptiedLemma ==
  ASSUME TrashHasEmptied
  PROVE  stack' = RedoCleared \/ \E R : stack' \in Kept(RedoCleared, R)
<1>1. CASE stack' = RedoCleared
  BY <1>1
<1>2. CASE stack' # RedoCleared
  <2> DEFINE trash == {a \in Range(RedoCleared) : kind[a] = "movetotrash"}
             restored(u) == {a \in Range(RedoCleared) :
                               kind[a] \in TransferKinds /\ u \in uris[a]}
  <2>1. PICK u \in FirstTrashed(RedoCleared) :
          stack' \in Kept(RedoCleared, trash \cup restored(u))
    BY <1>2 DEF TrashHasEmptied
  <2> HIDE DEF trash, restored
  <2> QED BY <2>1
<1> QED BY <1>1, <1>2

\* A menu update says of undo and of redo whether they are enabled.
LEMMA MenuType ==
  ASSUME NEW st, NEW ix, NEW lk
  PROVE  Menu(st, ix, lk) \in [undo : BOOLEAN, redo : BOOLEAN]
<1>1. CanUndo(st, ix, lk) \in BOOLEAN /\ CanRedo(st, ix, lk) \in BOOLEAN
  BY DEF CanUndo, CanRedo
<1> QED BY <1>1 DEF Menu

\* Every variable of the undo manager keeps its type (the queue holds actions,
\* the index never goes below zero, the levels never reach zero).
LEMMA TypeStep ==
  ASSUME UndoTypeOK, UndoneBeforeIndex, [UndoNext]_undoVars
  PROVE  UndoTypeOK'
<1> USE UndoAssumption
<1>1. Len(stack) \in Nat /\ DOMAIN stack = 1 .. Len(stack)
      /\ \A i \in 1 .. Len(stack) : stack[i] \in Op
  BY LenProperties, ElementOfSeq DEF UndoTypeOK
<1>2. ASSUME ~fault, NEW o \in Op, StartOp(o)
      PROVE  UndoTypeOK'
  BY <1>2 DEF StartOp, UndoTypeOK, Phases
<1>3. ASSUME ~fault, NEW o \in Op, FinishWithoutAction(o)
      PROVE  UndoTypeOK'
  BY <1>3 DEF FinishWithoutAction, UndoTypeOK, Phases
<1>4. ASSUME ~fault, NEW o \in Op, AddAction(o)
      PROVE  UndoTypeOK'
  <2>1. stack' \in Seq(Op)
    BY <1>4, AddedLemma DEF AddAction, UndoTypeOK, UndoneBeforeIndex
  <2>2. uris' \in [Op -> SUBSET Uri]
    BY <1>4 DEF AddAction, UndoTypeOK
  <2>3. phase' \in [Op -> Phases]
    BY <1>4 DEF AddAction, UndoTypeOK, Released, Phases
  <2>4. freeLater' \in [Op -> BOOLEAN]
    BY <1>4 DEF AddAction, UndoTypeOK, Marked
  <2>5. menu' \in [undo : BOOLEAN, redo : BOOLEAN]
    BY <1>4, MenuType DEF AddAction, MenuUpdate
  <2> QED BY <1>4, <2>1, <2>2, <2>3, <2>4, <2>5 DEF AddAction, UndoTypeOK
<1>5. ASSUME ~fault, Undo
      PROVE  UndoTypeOK'
  <2>1. stack[index + 1] \in Op
    BY <1>1, <1>5 DEF Undo, CanUndo, UndoTypeOK
  <2>2. menu' \in [undo : BOOLEAN, redo : BOOLEAN]
    BY <1>5, MenuType DEF Undo, MenuUpdate
  <2>3. locked' \in [Op -> BOOLEAN] /\ flag' \in BOOLEAN /\ inFlight' \subseteq Op
    BY <1>5, <2>1 DEF Undo, Dispatch, UndoRunsJob, UndoTypeOK
  <2> QED BY <1>5, <2>1, <2>2, <2>3 DEF Undo, UndoTypeOK
<1>6. ASSUME ~fault, Redo
      PROVE  UndoTypeOK'
  <2>1. stack[index] \in Op /\ index - 1 \in Nat
    BY <1>1, <1>6 DEF Redo, CanRedo, UndoTypeOK
  <2>2. menu' \in [undo : BOOLEAN, redo : BOOLEAN]
    BY <1>6, MenuType DEF Redo, MenuUpdate
  <2>3. locked' \in [Op -> BOOLEAN] /\ flag' \in BOOLEAN /\ inFlight' \subseteq Op
    BY <1>6, <2>1 DEF Redo, Dispatch, RedoRunsJob, UndoTypeOK
  <2> QED BY <1>6, <2>1, <2>2, <2>3 DEF Redo, UndoTypeOK
<1>7. ASSUME ~fault, NEW a \in Op, TransferDone(a)
      PROVE  UndoTypeOK'
  <2>1. phase' \in [Op -> Phases] /\ inFlight' \subseteq Op
    BY <1>7 DEF TransferDone, UndoTypeOK, Phases
  <2>2. /\ stack' = stack /\ index' = index
        /\ locked' \in [Op -> BOOLEAN] /\ flag' \in BOOLEAN
        /\ fault' \in BOOLEAN
    BY <1>7 DEF TransferDone, UndoTypeOK
  <2>3. menu' \in [undo : BOOLEAN, redo : BOOLEAN]
    BY <1>7, MenuType DEF TransferDone, MenuUpdate, UndoTypeOK
  <2> QED BY <1>7, <2>1, <2>2, <2>3 DEF TransferDone, UndoTypeOK
<1>8. ASSUME ~fault, TrashHasEmptied
      PROVE  UndoTypeOK'
  <2>1. RedoCleared \in Seq(Op)
    BY <1>8, RedoClearedLemma DEF UndoTypeOK, UndoneBeforeIndex
  <2>2. stack' \in Seq(Op)
    BY <1>8, <2>1, EmptiedLemma, KeptLemma
  <2>3. phase' \in [Op -> Phases]
    BY <1>8 DEF TrashHasEmptied, UndoTypeOK, Released, Phases
  <2>4. menu' \in [undo : BOOLEAN, redo : BOOLEAN]
    BY <1>8, MenuType DEF TrashHasEmptied, MenuUpdate
  <2> QED BY <1>8, <2>2, <2>3, <2>4 DEF TrashHasEmptied, UndoTypeOK
<1>9. ASSUME ~fault, NEW n \in LevelChoices, SetUndoLevels(n)
      PROVE  UndoTypeOK'
  <2>1. n \in Nat \ {0}
    BY <1>9 DEF SetUndoLevels, NewLevel
  <2>2. stack' \in Seq(Op)
    BY <1>9, <2>1, TrimmedLemma DEF SetUndoLevels, UndoTypeOK
  <2>3. index' \in Nat
    BY <1>9, <2>1 DEF SetUndoLevels, UndoTypeOK
  <2>4. phase' \in [Op -> Phases] /\ freeLater' \in [Op -> BOOLEAN]
    BY <1>9 DEF SetUndoLevels, UndoTypeOK, Released, Marked, Phases
  <2>5. menu' \in [undo : BOOLEAN, redo : BOOLEAN]
    <3>1. menu' = menu \/ menu' = Menu(stack', index', locked')
      BY <1>9 DEF SetUndoLevels, MenuUpdate
    <3> QED BY <3>1, MenuType DEF UndoTypeOK
  <2>6. fault' \in BOOLEAN
    BY <1>9 DEF SetUndoLevels, UndoTypeOK
  <2> QED BY <1>9, <2>1, <2>2, <2>3, <2>4, <2>5, <2>6 DEF SetUndoLevels, UndoTypeOK
<1>10. ASSUME UNCHANGED undoVars
       PROVE  UndoTypeOK'
  BY <1>10 DEF undoVars, UndoTypeOK
<1> QED
  BY <1>2, <1>3, <1>4, <1>5, <1>6, <1>7, <1>8, <1>9, <1>10 DEF UndoNext

-----------------------------------------------------------------------------
\* What the invariant says of the queue, position by position.
LEMMA QueueLemma ==
  ASSUME UndoTypeOK, UndoInv, ~fault
  PROVE  /\ Len(stack) \in Nat
         /\ DOMAIN stack = 1 .. Len(stack)
         /\ index \in Nat
         /\ index <= Len(stack)
         /\ Len(stack) <= levels
         /\ levels \in Nat \ {0}
         /\ \A i \in 1 .. Len(stack) : /\ stack[i] \in Op
                                       /\ phase[stack[i]] = "live"
                                       /\ ~freeLater[stack[i]]
                                       /\ stack[i] \in undone <=> i <= index
         /\ \A i, j \in 1 .. Len(stack) : stack[i] = stack[j] => i = j
BY LenProperties, ElementOfSeq DEF UndoTypeOK, UndoInv, UndoneBeforeIndex, NoneOnQueueFreed

\* add_action preserves the invariant: the actions it releases are the undone
\* ones, which leave the head, and unlocked ones, which leave the tail.
LEMMA AddActionStep ==
  ASSUME UndoTypeOK, UndoInv, ~fault, NEW o \in Op, AddAction(o)
  PROVE  UndoInv'
<1> DEFINE pushed == <<o>> \o RedoCleared
           len == Len(stack) - index + 1
<1>1. /\ Len(stack) \in Nat
      /\ DOMAIN stack = 1 .. Len(stack)
      /\ index \in Nat
      /\ index <= Len(stack)
      /\ Len(stack) <= levels
      /\ levels \in Nat \ {0}
      /\ \A i \in 1 .. Len(stack) : /\ stack[i] \in Op
                                    /\ phase[stack[i]] = "live"
                                    /\ ~freeLater[stack[i]]
                                    /\ stack[i] \in undone <=> i <= index
      /\ \A i, j \in 1 .. Len(stack) : stack[i] = stack[j] => i = j
  BY QueueLemma
<1>2. /\ pushed \in Seq(Op)
      /\ stack' \in Seq(Op)
      /\ Len(stack') \in Nat
      /\ Len(stack') <= levels
      /\ Len(stack') <= Len(pushed)
      /\ \A i \in 1 .. Len(stack') : stack'[i] = pushed[i]
      /\ Len(pushed) > levels => Len(stack') = levels
      /\ Len(pushed) = len
      /\ pushed[1] = o
      /\ \A i \in 2 .. len : /\ index + i - 1 \in 1 .. Len(stack)
                             /\ pushed[i] = stack[index + i - 1]
  BY <1>1, AddedLemma DEF AddAction, UndoTypeOK
<1>3. DOMAIN stack' = 1 .. Len(stack') /\ DOMAIN pushed = 1 .. len
  BY <1>2, LenProperties
<1> HIDE DEF pushed
<1>4. /\ phase[o] = "recording" /\ o \notin inFlight /\ o \notin undone
      /\ ~freeLater[o]
      /\ \A i \in 1 .. Len(stack) : stack[i] # o
  BY <1>1 DEF AddAction, UndoInv, OnlyPushed
<1>5. \A i, j \in 1 .. len : pushed[i] = pushed[j] => i = j
  <2>1. ASSUME NEW i \in 2 .. len, NEW j \in 2 .. len, pushed[i] = pushed[j]
        PROVE  i = j
    <3>1. /\ index + i - 1 \in 1 .. Len(stack)
          /\ index + j - 1 \in 1 .. Len(stack)
          /\ stack[index + i - 1] = stack[index + j - 1]
      BY <1>2, <2>1
    <3>2. index + i - 1 = index + j - 1
      BY <1>1, <3>1
    <3> QED BY <1>1, <3>2
  <2>2. \A i \in 2 .. len : pushed[i] # o
    BY <1>2, <1>4
  <2> QED BY <1>1, <1>2, <2>1, <2>2, SMTT(30)
<1>6. \A i \in 1 .. len : pushed[i] \notin undone
  <2>1. \A i \in 2 .. len : stack[index + i - 1] \notin undone
    <3> TAKE i \in 2 .. len
    <3>1. index + i - 1 \in 1 .. Len(stack) /\ ~(index + i - 1 <= index)
      BY <1>1, <1>2
    <3> QED BY <1>1, <3>1
  <2> QED BY <1>1, <1>2, <1>4, <2>1
<1>7. \A i \in 1 .. len : pushed[i] \notin Cleared
  <2>1. ASSUME NEW i \in 2 .. len, NEW j \in 1 .. Len(stack), j <= index
        PROVE  stack[index + i - 1] # stack[j]
    <3>1. index + i - 1 \in 1 .. Len(stack) /\ index + i - 1 # j
      BY <1>1, <1>2, <2>1
    <3> QED BY <1>1, <3>1
  <2>2. \A i \in 2 .. len : pushed[i] \notin Cleared
    <3>1. \A a \in Cleared : \E j \in 1 .. Len(stack) : j <= index /\ a = stack[j]
      BY <1>1 DEF Cleared
    <3>2. \A i \in 2 .. len : pushed[i] = stack[index + i - 1]
      BY <1>2
    <3> QED BY <2>1, <3>1, <3>2
  <2>3. o \notin Cleared
    BY <1>1, <1>4 DEF Cleared
  <2> QED BY <1>1, <1>2, <2>2, <2>3
<1>8. /\ \A a \in Evicted(pushed, levels) :
           \E i \in 1 .. len : i > levels /\ a = pushed[i]
      /\ \A i \in 1 .. Len(stack') : pushed[i] \notin Evicted(pushed, levels)
  <2>1. \A a : a \in Evicted(pushed, levels) <=>
                 \E i \in 1 .. len : i > levels /\ a = pushed[i]
    BY <1>3 DEF Evicted
  <2>2. \A i \in 1 .. Len(stack') : i \in 1 .. len /\ ~(i > levels)
    BY <1>1, <1>2
  <2>3. ASSUME NEW i \in 1 .. Len(stack'), pushed[i] \in Evicted(pushed, levels)
        PROVE  FALSE
    <3>1. PICK j \in 1 .. len : j > levels /\ pushed[i] = pushed[j]
      BY <2>1, <2>3
    <3>2. i = j
      BY <1>5, <2>2, <3>1
    <3> QED BY <2>2, <3>1, <3>2
  <2> QED BY <2>1, <2>3
<1>9. /\ phase' = [Released(Cleared \cup EvictedUnlocked(pushed, levels))
                     EXCEPT ![o] = "live"]
      /\ freeLater' = Marked(EvictedLocked(pushed, levels))
      /\ index' = 0
      /\ UNCHANGED <<levels, flag, locked, inFlight, undone, fault>>
      /\ MenuUpdate
  BY DEF AddAction, pushed
<1>10. \A i \in 1 .. Len(stack') :
         phase'[stack'[i]] = "live" /\ ~freeLater'[stack'[i]]
  <2> TAKE i \in 1 .. Len(stack')
  <2>1. stack'[i] = pushed[i] /\ pushed[i] \in Op /\ i \in 1 .. len
    BY <1>2, ElementOfSeq
  <2>2. CASE i = 1
    BY <1>2, <1>4, <1>8, <1>9, <2>1, <2>2
    DEF Marked, EvictedLocked, Released, UndoTypeOK
  <2>3. CASE i # 1
    <3>1. /\ index + i - 1 \in 1 .. Len(stack)
          /\ pushed[i] = stack[index + i - 1]
      BY <1>2, <2>1, <2>3
    <3>2. phase[pushed[i]] = "live" /\ ~freeLater[pushed[i]]
      BY <1>1, <3>1 DEF UndoInv, UndoneBeforeIndex, NoneOnQueueFreed
    <3>3. pushed[i] \notin Cleared \cup EvictedUnlocked(pushed, levels)
      BY <1>7, <1>8, <2>1 DEF EvictedUnlocked
    <3> QED BY <1>8, <1>9, <2>1, <3>2, <3>3
            DEF Marked, EvictedLocked, Released, UndoTypeOK
  <2> QED BY <2>2, <2>3
<1>11. UndoneBeforeIndex'
  <2>1. \A i, j \in DOMAIN stack' : stack'[i] = stack'[j] => i = j
    <3> TAKE i, j \in DOMAIN stack'
    <3>1. i \in 1 .. Len(stack') /\ j \in 1 .. Len(stack')
      BY <1>3
    <3>2. i \in 1 .. len /\ j \in 1 .. len
      BY <1>1, <1>2, <3>1
    <3> QED BY <1>2, <1>5, <3>1, <3>2
  <2>2. \A i \in DOMAIN stack' : /\ phase'[stack'[i]] = "live"
                                 /\ stack'[i] \in undone' <=> i <= index'
    <3> TAKE i \in DOMAIN stack'
    <3>1. i \in 1 .. Len(stack')
      BY <1>3
    <3>2. i \in 1 .. len /\ stack'[i] = pushed[i]
      BY <1>1, <1>2, <3>1
    <3>3. phase'[stack'[i]] = "live"
      BY <1>10, <3>1
    <3>4. stack'[i] \notin undone'
      BY <1>6, <1>9, <3>2
    <3>5. ~(i <= index')
      BY <1>9, <3>2
    <3> QED BY <3>3, <3>4, <3>5
  <2>3. index' <= Len(stack') /\ Len(stack') <= levels'
    BY <1>2, <1>9
  <2> QED BY <2>1, <2>2, <2>3 DEF UndoneBeforeIndex
<1>12. RedoInFlightAlive'
  <2>1. ASSUME NEW a \in inFlight \ undone
        PROVE  phase'[a] = "live"
    <3>1. a \in Op /\ phase[a] = "live" /\ locked[a]
      BY <2>1 DEF UndoInv, RedoInFlightAlive, InFlightLocked, UndoTypeOK
    <3>2. a \notin Cleared
      BY <1>1, <2>1 DEF UndoInv, UndoneBeforeIndex, Cleared
    <3> QED BY <1>9, <3>1, <3>2 DEF EvictedUnlocked, Released, UndoTypeOK
  <2> QED BY <1>9, <2>1 DEF RedoInFlightAlive
<1>13. FlagOnlyInFlight' /\ InFlightLocked' /\ MenuInSync'
  BY <1>9 DEF UndoInv, FlagOnlyInFlight, InFlightLocked, MenuInSync, MenuUpdate
<1>14. OnlyPushed'
  <2>1. \A a \in Evicted(pushed, levels) : a = o \/ phase[a] = "live"
    BY <1>1, <1>2, <1>8 DEF UndoInv, UndoneBeforeIndex
  <2>2. ASSUME NEW a \in Op, phase'[a] \notin {"live", "released"}
        PROVE  a \notin inFlight /\ a \notin undone /\ ~freeLater'[a]
    <3>1. phase'[a] = phase[a] /\ a # o
      BY <1>9, <2>2 DEF Released, UndoTypeOK
    <3>2. a \notin inFlight /\ a \notin undone /\ ~freeLater[a]
      BY <2>2, <3>1 DEF UndoInv, OnlyPushed
    <3> QED BY <1>9, <2>1, <2>2, <3>1, <3>2 DEF Marked, EvictedLocked
  <2> QED BY <1>9, <2>2 DEF OnlyPushed
<1>15. NoneOnQueueFreed'
  BY <1>3, <1>10 DEF NoneOnQueueFreed
<1> QED BY <1>11, <1>12, <1>13, <1>14, <1>15 DEF UndoInv

\* Undo moves the action at the index to the undone ones and, when its undo is
\* a job, keeps it locked.
LEMMA UndoStep ==
  ASSUME UndoTypeOK, UndoInv, ~fault, Undo
  PROVE  UndoInv'
<1> DEFINE a == stack[index + 1]
<1>1. /\ Len(stack) \in Nat
      /\ DOMAIN stack = 1 .. Len(stack)
      /\ index \in Nat
      /\ index <= Len(stack)
      /\ Len(stack) <= levels
      /\ levels \in Nat \ {0}
      /\ \A i \in 1 .. Len(stack) : /\ stack[i] \in Op
                                    /\ phase[stack[i]] = "live"
                                    /\ ~freeLater[stack[i]]
                                    /\ stack[i] \in undone <=> i <= index
      /\ \A i, j \in 1 .. Len(stack) : stack[i] = stack[j] => i = j
  BY QueueLemma
<1>2. index + 1 \in 1 .. Len(stack) /\ a \in Op /\ ~locked[a]
  BY <1>1 DEF Undo, CanUndo
<1>3. /\ index' = index + 1
      /\ undone' = undone \cup {a}
      /\ UNCHANGED <<stack, levels, kind, uris, phase, freeLater, fault>>
      /\ Dispatch(a, UndoRunsJob(kind[a]))
      /\ MenuUpdate
  BY DEF Undo
<1> HIDE DEF a
<1>4. UndoneBeforeIndex'
  <2>1. \A i \in 1 .. Len(stack) : stack[i] = a <=> i = index + 1
    BY <1>1, <1>2 DEF a
  <2>2. \A i \in 1 .. Len(stack) : stack[i] \in undone' <=> i <= index'
    BY <1>1, <1>2, <1>3, <2>1
  <2> QED BY <1>1, <1>2, <1>3, <2>2 DEF UndoneBeforeIndex
<1>5. RedoInFlightAlive'
  BY <1>3 DEF Dispatch, UndoInv, RedoInFlightAlive
<1>6. FlagOnlyInFlight'
  BY <1>3 DEF Dispatch, FlagOnlyInFlight
<1>7. InFlightLocked'
  BY <1>2, <1>3 DEF Dispatch, UndoInv, InFlightLocked, UndoTypeOK
<1>8. MenuInSync'
  BY <1>3 DEF MenuInSync, MenuUpdate
<1>9. OnlyPushed'
  BY <1>1, <1>2, <1>3 DEF Dispatch, UndoInv, OnlyPushed, a
<1>10. NoneOnQueueFreed'
  BY <1>3 DEF UndoInv, NoneOnQueueFreed
<1> QED BY <1>4, <1>5, <1>6, <1>7, <1>8, <1>9, <1>10 DEF UndoInv

\* Redo takes the action before the index out of the undone ones; it was not
\* locked, so no other job of it runs.
LEMMA RedoStep ==
  ASSUME UndoTypeOK, UndoInv, ~fault, Redo
  PROVE  UndoInv'
<1> DEFINE a == stack[index]
<1>1. /\ Len(stack) \in Nat
      /\ DOMAIN stack = 1 .. Len(stack)
      /\ index \in Nat
      /\ index <= Len(stack)
      /\ Len(stack) <= levels
      /\ levels \in Nat \ {0}
      /\ \A i \in 1 .. Len(stack) : /\ stack[i] \in Op
                                    /\ phase[stack[i]] = "live"
                                    /\ ~freeLater[stack[i]]
                                    /\ stack[i] \in undone <=> i <= index
      /\ \A i, j \in 1 .. Len(stack) : stack[i] = stack[j] => i = j
  BY QueueLemma
<1>2. index \in 1 .. Len(stack) /\ a \in Op /\ ~locked[a]
  BY <1>1 DEF Redo, CanRedo
<1>3. /\ index' = index - 1
      /\ undone' = undone \ {a}
      /\ UNCHANGED <<stack, levels, kind, uris, phase, freeLater, fault>>
      /\ Dispatch(a, RedoRunsJob(kind[a]))
      /\ MenuUpdate
  BY DEF Redo
<1> HIDE DEF a
<1>4. UndoneBeforeIndex'
  <2>1. \A i \in 1 .. Len(stack) : stack[i] = a <=> i = index
    BY <1>1, <1>2 DEF a
  <2>2. \A i \in 1 .. Len(stack) : stack[i] \in undone' <=> i <= index'
    BY <1>1, <1>2, <1>3, <2>1
  <2> QED BY <1>1, <1>2, <1>3, <2>2 DEF UndoneBeforeIndex
<1>5. RedoInFlightAlive'
  BY <1>1, <1>2, <1>3 DEF Dispatch, UndoInv, RedoInFlightAlive, a
<1>6. FlagOnlyInFlight'
  BY <1>3 DEF Dispatch, FlagOnlyInFlight
<1>7. InFlightLocked'
  BY <1>2, <1>3 DEF Dispatch, UndoInv, InFlightLocked, UndoTypeOK
<1>8. MenuInSync'
  BY <1>3 DEF MenuInSync, MenuUpdate
<1>9. OnlyPushed'
  BY <1>1, <1>2, <1>3 DEF Dispatch, UndoInv, OnlyPushed, a
<1>10. NoneOnQueueFreed'
  BY <1>3 DEF UndoInv, NoneOnQueueFreed
<1> QED BY <1>4, <1>5, <1>6, <1>7, <1>8, <1>9, <1>10 DEF UndoInv

\* The callback unlocks its own action only, and releases it only when the
\* queue had given it up.
LEMMA TransferDoneStep ==
  ASSUME UndoTypeOK, UndoInv, ~fault, NEW a \in Op, TransferDone(a)
  PROVE  UndoInv'
<1>1. /\ Len(stack) \in Nat
      /\ DOMAIN stack = 1 .. Len(stack)
      /\ \A i \in 1 .. Len(stack) : /\ stack[i] \in Op
                                    /\ phase[stack[i]] = "live"
                                    /\ ~freeLater[stack[i]]
  BY QueueLemma
<1>2. /\ a \in inFlight
      /\ inFlight' = inFlight \ {a}
      /\ UNCHANGED <<stack, index, levels, kind, uris, freeLater, undone>>
      /\ phase' = phase \/ (freeLater[a] /\ phase' = [phase EXCEPT ![a] = "released"])
      /\ locked' = locked \/ locked' = [locked EXCEPT ![a] = FALSE]
      /\ \/ flag' = FALSE /\ fault' = fault /\ MenuUpdate
         \/ fault' = TRUE
  BY DEF TransferDone
<1>3. UndoneBeforeIndex'
  BY <1>1, <1>2 DEF UndoInv, UndoneBeforeIndex, UndoTypeOK
<1>4. RedoInFlightAlive'
  BY <1>2 DEF UndoInv, RedoInFlightAlive, UndoTypeOK
<1>5. FlagOnlyInFlight' /\ MenuInSync'
  BY <1>2 DEF FlagOnlyInFlight, MenuInSync, MenuUpdate
<1>6. InFlightLocked'
  BY <1>2 DEF UndoInv, InFlightLocked, UndoTypeOK
<1>7. OnlyPushed'
  BY <1>2 DEF UndoInv, OnlyPushed, UndoTypeOK
<1>8. NoneOnQueueFreed'
  BY <1>2 DEF UndoInv, NoneOnQueueFreed
<1> QED BY <1>3, <1>4, <1>5, <1>6, <1>7, <1>8 DEF UndoInv

\* Emptying the trash releases the undone actions only; the actions it takes
\* off the queue are not released.
LEMMA TrashHasEmptiedStep ==
  ASSUME UndoTypeOK, UndoInv, ~fault, TrashHasEmptied
  PROVE  UndoInv'
<1>1. /\ Len(stack) \in Nat
      /\ DOMAIN stack = 1 .. Len(stack)
      /\ index \in Nat
      /\ index <= Len(stack)
      /\ Len(stack) <= levels
      /\ levels \in Nat \ {0}
      /\ \A i \in 1 .. Len(stack) : /\ stack[i] \in Op
                                    /\ phase[stack[i]] = "live"
                                    /\ ~freeLater[stack[i]]
                                    /\ stack[i] \in undone <=> i <= index
      /\ \A i, j \in 1 .. Len(stack) : stack[i] = stack[j] => i = j
  BY QueueLemma
<1>2. /\ RedoCleared \in Seq(Op)
      /\ Len(RedoCleared) = Len(stack) - index
      /\ \A i \in 1 .. Len(RedoCleared) :
           /\ index + i \in 1 .. Len(stack)
           /\ RedoCleared[i] = stack[index + i]
  BY <1>1, RedoClearedLemma DEF UndoTypeOK
<1>3. DOMAIN RedoCleared = 1 .. Len(RedoCleared) /\ Len(RedoCleared) \in Nat
  BY <1>2, LenProperties
<1>4. \A i, j \in DOMAIN RedoCleared : RedoCleared[i] = RedoCleared[j] => i = j
  <2> TAKE i, j \in DOMAIN RedoCleared
  <2> HAVE RedoCleared[i] = RedoCleared[j]
  <2>1. index + i = index + j
    BY <1>1, <1>2, <1>3
  <2> QED BY <1>1, <1>3, <2>1
<1>5. \A a \in Cleared : a \in undone
  BY <1>1 DEF Cleared
<1>6. /\ index' = 0
      /\ phase' = Released(Cleared)
      /\ UNCHANGED <<locked, levels, flag, kind, uris, freeLater, inFlight,
                     undone, fault>>
      /\ MenuUpdate
  BY DEF TrashHasEmptied
<1>7. /\ stack' \in Seq(Op)
      /\ Len(stack') <= Len(RedoCleared)
      /\ \A i \in DOMAIN stack' :
           \E p \in DOMAIN RedoCleared : stack'[i] = RedoCleared[p]
      /\ \A i, j \in DOMAIN stack' : stack'[i] = stack'[j] => i = j
  <2>1. CASE stack' = RedoCleared
    BY <1>2, <1>3, <1>4, <2>1
  <2>2. CASE \E R : stack' \in Kept(RedoCleared, R)
    <3>1. PICK R : stack' \in Kept(RedoCleared, R)
      BY <2>2
    <3> QED BY <1>2, <1>4, <3>1, KeptLemma
  <2> QED BY <2>1, <2>2, EmptiedLemma
<1>8. \A i \in DOMAIN stack' : /\ stack'[i] \in Op
                               /\ phase'[stack'[i]] = "live"
                               /\ ~freeLater[stack'[i]]
                               /\ stack'[i] \notin undone
  <2> TAKE i \in DOMAIN stack'
  <2>1. PICK p \in 1 .. Len(RedoCleared) : stack'[i] = RedoCleared[p]
    BY <1>3, <1>7
  <2>2. index + p \in 1 .. Len(stack) /\ ~(index + p <= index)
    BY <1>1, <1>2, <1>3
  <2>3. /\ stack'[i] \in Op
        /\ phase[stack'[i]] = "live"
        /\ ~freeLater[stack'[i]]
        /\ stack'[i] \notin undone
    BY <1>1, <1>2, <2>1, <2>2
  <2> QED BY <1>5, <1>6, <2>3 DEF Released
<1>9. UndoneBeforeIndex'
  <2>1. Len(stack') \in Nat /\ DOMAIN stack' = 1 .. Len(stack')
    BY <1>7, LenProperties
  <2>2. index' <= Len(stack') /\ Len(stack') <= levels'
    BY <1>1, <1>2, <1>3, <1>6, <1>7, <2>1
  <2>3. \A i \in DOMAIN stack' : ~(i <= index')
    BY <1>6, <2>1
  <2> QED BY <1>6, <1>7, <1>8, <2>2, <2>3 DEF UndoneBeforeIndex
<1>10. RedoInFlightAlive'
  BY <1>5, <1>6 DEF UndoInv, RedoInFlightAlive, Released, UndoTypeOK
<1>11. FlagOnlyInFlight' /\ InFlightLocked' /\ MenuInSync'
  BY <1>6 DEF UndoInv, FlagOnlyInFlight, InFlightLocked, MenuInSync, MenuUpdate
<1>12. OnlyPushed'
  BY <1>6 DEF UndoInv, OnlyPushed, Released
<1>13. NoneOnQueueFreed'
  BY <1>6, <1>8 DEF NoneOnQueueFreed
<1> QED BY <1>9, <1>10, <1>11, <1>12, <1>13 DEF UndoInv

\* Fewer levels cut the queue at the tail; where that leaves the index off the
\* queue the menu update faults.
LEMMA SetUndoLevelsStep ==
  ASSUME UndoTypeOK, UndoInv, ~fault, NEW n \in LevelChoices, SetUndoLevels(n)
  PROVE  UndoInv'
<1>1. /\ Len(stack) \in Nat
      /\ DOMAIN stack = 1 .. Len(stack)
      /\ index \in Nat
      /\ index <= Len(stack)
      /\ Len(stack) <= levels
      /\ levels \in Nat \ {0}
      /\ \A i \in 1 .. Len(stack) : /\ stack[i] \in Op
                                    /\ phase[stack[i]] = "live"
                                    /\ ~freeLater[stack[i]]
                                    /\ stack[i] \in undone <=> i <= index
      /\ \A i, j \in 1 .. Len(stack) : stack[i] = stack[j] => i = j
  BY QueueLemma
<1>2. n \in Nat \ {0}
  BY UndoAssumption DEF SetUndoLevels, NewLevel
<1>3. /\ stack' \in Seq(Op)
      /\ Len(stack') \in Nat
      /\ Len(stack') <= n
      /\ Len(stack') <= Len(stack)
      /\ Len(stack) <= n => Len(stack') = Len(stack)
      /\ Len(stack) > n => Len(stack') = n
      /\ \A i \in 1 .. Len(stack') : stack'[i] = stack[i]
  BY <1>2, TrimmedLemma DEF SetUndoLevels, UndoTypeOK
<1>4. DOMAIN stack' = 1 .. Len(stack')
  BY <1>3, LenProperties
<1>5. /\ levels' = n
      /\ index' = IF Len(stack) > n /\ index > n + 1 THEN n + 1 ELSE index
      /\ phase' = Released(EvictedUnlocked(stack, n))
      /\ freeLater' = Marked(EvictedLocked(stack, n))
      /\ UNCHANGED <<locked, flag, kind, uris, inFlight, undone>>
      /\ ~fault' => (stack' = <<>> \/ index' <= Len(stack')) /\ MenuUpdate
  <2>1. ~fault' => (stack' = <<>> \/ ~(index' > Len(stack'))) /\ MenuUpdate
    BY DEF SetUndoLevels
  <2>2. index' \in Nat
    BY <1>1, <1>2 DEF SetUndoLevels
  <2> QED BY <1>3, <2>1, <2>2 DEF SetUndoLevels
<1>6. \A a \in Evicted(stack, n) : phase[a] = "live"
  BY <1>1 DEF Evicted
<1>7. \A i \in 1 .. Len(stack') : stack'[i] \notin Evicted(stack, n)
  <2> TAKE i \in 1 .. Len(stack')
  <2>1. i \in 1 .. Len(stack) /\ ~(i > n)
    BY <1>1, <1>2, <1>3
  <2>2. \A j \in 1 .. Len(stack) : j > n => stack[j] # stack[i]
    BY <1>1, <2>1
  <2> QED BY <1>1, <1>3, <2>2 DEF Evicted
<1>8. \A i \in 1 .. Len(stack') : /\ i \in 1 .. Len(stack)
                                  /\ stack'[i] = stack[i]
                                  /\ phase'[stack'[i]] = "live"
                                  /\ ~freeLater'[stack'[i]]
  <2> TAKE i \in 1 .. Len(stack')
  <2>1. i \in 1 .. Len(stack) /\ stack'[i] = stack[i]
    BY <1>1, <1>3
  <2>2. /\ stack'[i] \in Op /\ phase[stack'[i]] = "live"
        /\ ~freeLater[stack'[i]] /\ stack'[i] \notin Evicted(stack, n)
    BY <1>1, <1>7, <2>1
  <2> QED BY <1>5, <2>1, <2>2
          DEF Released, Marked, EvictedUnlocked, EvictedLocked
<1>9. ASSUME ~fault'
      PROVE  index' = index /\ index' <= Len(stack')
  <2>1. CASE stack' = <<>>
    <3>1. Len(stack') = 0
      BY <2>1
    <3> QED BY <1>1, <1>2, <1>3, <1>5, <3>1
  <2>2. CASE index' <= Len(stack')
    BY <1>1, <1>2, <1>3, <1>5, <2>2
  <2> QED BY <1>5, <1>9, <2>1, <2>2
<1>10. UndoneBeforeIndex'
  <2> SUFFICES ASSUME ~fault'
               PROVE  /\ index' <= Len(stack')
                      /\ Len(stack') <= levels'
                      /\ \A i, j \in DOMAIN stack' : stack'[i] = stack'[j] => i = j
                      /\ \A i \in DOMAIN stack' :
                           /\ phase'[stack'[i]] = "live"
                           /\ stack'[i] \in undone' <=> i <= index'
    BY DEF UndoneBeforeIndex
  <2>1. index' = index /\ index' <= Len(stack')
    BY <1>9
  <2>2. \A i, j \in DOMAIN stack' : stack'[i] = stack'[j] => i = j
    BY <1>1, <1>4, <1>8
  <2>3. \A i \in DOMAIN stack' : /\ phase'[stack'[i]] = "live"
                                 /\ stack'[i] \in undone' <=> i <= index'
    BY <1>1, <1>4, <1>5, <1>8, <2>1
  <2> QED BY <1>3, <1>5, <2>1, <2>2, <2>3
<1>11. RedoInFlightAlive'
  BY <1>5 DEF UndoInv, RedoInFlightAlive, InFlightLocked, Released,
              EvictedUnlocked, UndoTypeOK
<1>12. FlagOnlyInFlight' /\ InFlightLocked' /\ MenuInSync'
  BY <1>5 DEF UndoInv, FlagOnlyInFlight, InFlightLocked, MenuInSync, MenuUpdate
<1>13. OnlyPushed'
  <2>1. ASSUME NEW a \in Op, phase'[a] \notin {"live", "released"}
        PROVE  a \notin inFlight /\ a \notin undone /\ ~freeLater'[a]
    <3>1. phase'[a] = phase[a]
      BY <1>5, <2>1 DEF Released
    <3> QED BY <1>5, <1>6, <2>1, <3>1 DEF UndoInv, OnlyPushed, Marked, EvictedLocked
  <2> QED BY <1>5, <2>1 DEF OnlyPushed
<1>14. NoneOnQueueFreed'
  BY <1>4, <1>8 DEF NoneOnQueueFreed
<1> QED BY <1>10, <1>11, <1>12, <1>13, <1>14 DEF UndoInv

-----------------------------------------------------------------------------
\* The invariant holds at the start: nothing is on the queue.
LEMMA InitInv == UndoInit => UndoTypeOK /\ UndoInv
<1> SUFFICES ASSUME UndoInit
             PROVE  UndoTypeOK /\ UndoInv
  OBVIOUS
<1> USE UndoAssumption
<1>1. Len(stack) = 0 /\ DOMAIN stack = 1 .. 0
  BY DEF UndoInit
<1>2. UndoTypeOK
  <2>1. kind \in [Op -> AllKinds]
    BY DEF UndoInit
  <2>2. stack \in Seq(Op) /\ levels \in Nat \ {0} /\ index \in Nat
    BY DEF UndoInit
  <2>3. menu \in [undo : BOOLEAN, redo : BOOLEAN]
    BY DEF UndoInit
  <2> QED BY <2>1, <2>2, <2>3 DEF UndoInit, UndoTypeOK, Phases
<1>3. UndoneBeforeIndex
  BY <1>1 DEF UndoInit, UndoneBeforeIndex
<1>4. MenuInSync
  <2>1. CanUndo(stack, index, locked) = FALSE
    BY <1>1 DEF UndoInit, CanUndo
  <2>2. CanRedo(stack, index, locked) = FALSE
    BY <1>1 DEF UndoInit, CanRedo
  <2> QED BY <2>1, <2>2 DEF UndoInit, MenuInSync, Menu
<1>5. /\ RedoInFlightAlive /\ FlagOnlyInFlight /\ InFlightLocked
      /\ OnlyPushed /\ NoneOnQueueFreed
  BY <1>1 DEF UndoInit, RedoInFlightAlive, FlagOnlyInFlight, InFlightLocked,
              OnlyPushed, NoneOnQueueFreed
<1> QED BY <1>2, <1>3, <1>4, <1>5 DEF UndoInv

\* Every step of the undo manager preserves the invariant.
LEMMA InvStep == UndoTypeOK /\ UndoInv /\ [UndoNext]_undoVars => UndoInv'
<1> SUFFICES ASSUME UndoTypeOK, UndoInv, [UndoNext]_undoVars
             PROVE  UndoInv'
  OBVIOUS
<1>1. ASSUME ~fault, NEW o \in Op, StartOp(o) \/ FinishWithoutAction(o)
      PROVE  UndoInv'
  <2>1. /\ phase[o] \in {"idle", "recording", "unrecorded"}
        /\ \E p \in {"unrecorded", "recording", "over"} :
             phase' = [phase EXCEPT ![o] = p]
        /\ UNCHANGED <<stack, index, levels, flag, kind, uris, locked,
                       freeLater, inFlight, undone, menu, fault>>
    BY <1>1 DEF StartOp, FinishWithoutAction
  <2>2. /\ DOMAIN stack = 1 .. Len(stack)
        /\ \A i \in 1 .. Len(stack) : stack[i] # o
    BY <1>1, <2>1, QueueLemma
  <2>3. UndoneBeforeIndex'
    BY <2>1, <2>2 DEF UndoInv, UndoneBeforeIndex, UndoTypeOK
  <2>4. RedoInFlightAlive'
    BY <2>1 DEF UndoInv, RedoInFlightAlive, UndoTypeOK
  <2>5. MenuInSync' /\ FlagOnlyInFlight' /\ InFlightLocked' /\ NoneOnQueueFreed'
    BY <2>1 DEF UndoInv, MenuInSync, FlagOnlyInFlight, InFlightLocked,
                NoneOnQueueFreed
  <2>6. OnlyPushed'
    BY <2>1 DEF UndoInv, OnlyPushed, UndoTypeOK
  <2> QED BY <2>3, <2>4, <2>5, <2>6 DEF UndoInv
<1>2. ASSUME UNCHANGED undoVars
      PROVE  UndoInv'
  BY <1>2 DEF undoVars, UndoInv, UndoneBeforeIndex, RedoInFlightAlive, MenuInSync,
              FlagOnlyInFlight, InFlightLocked, OnlyPushed, NoneOnQueueFreed
<1> QED
  BY <1>1, <1>2, AddActionStep, UndoStep, RedoStep, TransferDoneStep,
     TrashHasEmptiedStep, SetUndoLevelsStep DEF UndoNext

LEMMA Invariant == UndoSpec => [](UndoTypeOK /\ UndoInv)
<1>1. UndoTypeOK /\ UndoInv /\ [UndoNext]_undoVars => (UndoTypeOK /\ UndoInv)'
  BY TypeStep, InvStep DEF UndoInv
<1> QED BY <1>1, InitInv, PTL DEF UndoSpec

-----------------------------------------------------------------------------
\* The variables keep their types: neither the index nor the levels wrap.
THEOREM TypeCorrect == UndoSpec => []UndoTypeOK
BY Invariant, PTL

\* The index of the queue separates exactly the undone actions from the done
\* ones, and the queue holds each action once, alive, and at most `levels`.
THEOREM IndexCorrect == UndoSpec => []UndoneBeforeIndex
<1>1. UndoInv => UndoneBeforeIndex
  BY DEF UndoInv
<1> QED BY <1>1, Invariant, PTL

\* No operation that finishes, no emptying of the trash and no change of the
\* levels releases an action while its redo job runs.
THEOREM RedoAlive == UndoSpec => []RedoInFlightAlive
<1>1. UndoInv => RedoInFlightAlive
  BY DEF UndoInv
<1> QED BY <1>1, Invariant, PTL

\* The windows' undo and redo are enabled exactly when the queue allows them.
THEOREM MenuCorrect == UndoSpec => []MenuInSync
<1>1. UndoInv => MenuInSync
  BY DEF UndoInv
<1> QED BY <1>1, Invariant, PTL

\* Recording is suspended only while the job of an undo or redo runs.
THEOREM FlagCorrect == UndoSpec => []FlagOnlyInFlight
<1>1. UndoInv => FlagOnlyInFlight
  BY DEF UndoInv
<1> QED BY <1>1, Invariant, PTL
===============================================================================
