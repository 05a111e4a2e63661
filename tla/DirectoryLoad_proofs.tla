------------------------- MODULE DirectoryLoad_proofs -------------------------
(***************************************************************************)
(* Proofs about DirectoryLoad, for any tabs, files and bounds.             *)
(***************************************************************************)
EXTENDS DirectoryLoad, Integers, TLAPS
USE LoadAssumption DEF Call, Row

\* All that the proofs know of a step: what it does to a folder and to its calls.
LEMMA CancelKeeps ==
  ASSUME listing \in [Call -> Listing]
  PROVE  /\ CancelListings \in [Call -> Listing]
         /\ \A i \in Call : /\ CancelListings[i].pc = listing[i].pc
                            /\ CancelListings[i].left = listing[i].left
  BY DEF CancelListings, Listing, Active

LEMMA ShownTyped ==
  ASSUME NEW R \in [View -> SUBSET Row], NEW listeners, NEW new \in SUBSET Row
  PROVE  Shown(R, listeners, new) \in [View -> SUBSET Row]
  BY DEF Shown

LEMMA ObjectsTyped ==
  ASSUME hash \in [File -> 0 .. MaxListings], NEW fs \in SUBSET File
  PROVE  Objects(fs) \in SUBSET Row
  BY DEF Objects

LEMMA BecomeTyped ==
  ASSUME NEW st \in States, NEW h \in [File -> 0 .. MaxListings],
         NEW c \in BOOLEAN, NEW fl \in SUBSET View, Become(st, h, c, fl)
  PROVE  /\ state' \in States /\ hash' \in [File -> 0 .. MaxListings]
         /\ cancelled' \in BOOLEAN /\ fileLoaded' \in SUBSET View
  BY DEF Become, NoObject, States

LEMMA ListDirectoryTyped ==
  ASSUME listing \in [Call -> Listing], NEW p \in BOOLEAN, ListDirectory(p)
  PROVE  state' = "LOADING" /\ listing' \in [Call -> Listing]
<1>1. PICK i \in Call :
        listing' = [listing EXCEPT ![i] = [Idle("enumerate") EXCEPT !.private = p]]
  BY DEF ListDirectory
<1>2. [Idle("enumerate") EXCEPT !.private = p] \in Listing
  BY DEF Idle, Listing
<1> QED  BY <1>1, <1>2 DEF ListDirectory

LEMMA LoadTyped ==
  ASSUME TypeOK, NEW R \in [View -> SUBSET Row], NEW fl \in SUBSET View,
         Load(R, fl)
  PROVE  /\ state' \in States /\ cancelled' \in BOOLEAN
         /\ hash' \in [File -> 0 .. MaxListings] /\ listing' \in [Call -> Listing]
         /\ fileLoaded' \in SUBSET View /\ frozen' \in SUBSET View
         /\ rows' \in [View -> SUBSET Row]
<1> USE DEF TypeOK
<1>1. CASE Starts /\ ListDirectory(FALSE) /\ rows' = R /\ fileLoaded' = fl
           /\ UNCHANGED <<hash, frozen>>
  BY <1>1, ListDirectoryTyped DEF Load, States
<1>2. CASE state = "LOADING" /\ rows' = R /\ fileLoaded' = fl
           /\ UNCHANGED <<state, hash, listing, frozen>>
  BY <1>2 DEF Load
<1>3. CASE /\ rows' = Shown(R, fl, Objects({f \in File : Visible(f)}))
           /\ DoneLoading(fl) /\ UNCHANGED <<state, hash, listing>>
  <2>1. Objects({f \in File : Visible(f)}) \in SUBSET Row
    BY ObjectsTyped
  <2> QED  BY <1>3, <2>1, ShownTyped DEF Load, DoneLoading
<1> QED  BY <1>1, <1>2, <1>3 DEF Load

LEMMA LoadHiddensTyped ==
  ASSUME TypeOK, NEW fl \in SUBSET View, LoadHiddens(fl)
  PROVE  /\ state' \in States /\ cancelled' \in BOOLEAN
         /\ hash' \in [File -> 0 .. MaxListings] /\ listing' \in [Call -> Listing]
         /\ fileLoaded' \in SUBSET View /\ frozen' \in SUBSET View
         /\ rows' \in [View -> SUBSET Row]
<1> USE DEF TypeOK
<1>0. DoneLoading(fl)
  BY DEF LoadHiddens
<1>1. fileLoaded' \in SUBSET View /\ frozen' \in SUBSET View
  BY <1>0 DEF DoneLoading
<1>2. CASE rows' = Shown(rows, fl, Objects(Hidden)) /\ UNCHANGED dirVars
  <2>1. Objects(Hidden) \in SUBSET Row
    BY ObjectsTyped
  <2> QED  BY <1>1, <1>2, <2>1, ShownTyped DEF dirVars
<1>3. CASE cancelled' = FALSE /\ ListDirectory(FALSE) /\ UNCHANGED <<hash, rows>>
  BY <1>1, <1>3, ListDirectoryTyped DEF States
<1>4. CASE cancelled' = FALSE /\ UNCHANGED <<state, hash, listing, rows>>
  BY <1>1, <1>4
<1> QED  BY <1>2, <1>3, <1>4 DEF LoadHiddens

LEMMA EndsTyped ==
  ASSUME listing \in [Call -> Listing], NEW i \in Call, Ends(i)
  PROVE  listing' \in [Call -> Listing]
<1>1. Idle("ended") \in Listing
  BY DEF Idle, Listing
<1> QED  BY <1>1 DEF Ends

LEMMA ContinuesTyped ==
  ASSUME listing \in [Call -> Listing], NEW i \in Call, NEW left \in SUBSET File,
         cancelled \in BOOLEAN, Continues(i, left)
  PROVE  listing' \in [Call -> Listing]
<1>1. CASE state = "LOADING"
  <2>1. [listing[i] EXCEPT !.pc = "next", !.left = left, !.hit = cancelled] \in Listing
    BY DEF Listing
  <2> QED  BY <1>1, <2>1 DEF Continues
<1>2. CASE state # "LOADING"
  BY <1>2, EndsTyped DEF Continues
<1> QED  BY <1>1, <1>2

LEMMA FinishesTyped ==
  ASSUME TypeOK, NEW i \in Call, NEW st \in States, NEW done, Finishes(i, st, done)
  PROVE  /\ state' \in States /\ cancelled' \in BOOLEAN
         /\ hash' \in [File -> 0 .. MaxListings] /\ listing' \in [Call -> Listing]
         /\ fileLoaded' \in SUBSET View /\ frozen' \in SUBSET View
<1>1. listing' \in [Call -> Listing]
  BY EndsTyped DEF Finishes, TypeOK
<1> DEFINE fl == IF done /\ ~listing[i].private THEN fileLoaded \ shown ELSE fileLoaded
<1>2. fl \in SUBSET View /\ Become(st, hash, cancelled, fl)
  BY DEF Finishes, TypeOK
<1> HIDE DEF fl
<1>3. /\ state' \in States /\ hash' \in [File -> 0 .. MaxListings]
      /\ cancelled' \in BOOLEAN /\ fileLoaded' \in SUBSET View
  BY <1>2, BecomeTyped DEF TypeOK
<1>4. frozen' \in SUBSET View
  BY DEF Finishes, TypeOK
<1> QED  BY <1>1, <1>3, <1>4

-----------------------------------------------------------------------------
\* The type invariant: every value that load, list_directory and the handlers of
\* the tabs leave in a variable is one that variable can hold.
THEOREM TypeCorrect == Spec => []TypeOK
<1>1. Init => TypeOK
  <2>1. Idle("none") \in Listing
    BY DEF Idle, Listing
  <2> SUFFICES ASSUME Init PROVE TypeOK
    OBVIOUS
  <2>2. listing \in [Call -> Listing] /\ state \in States
    BY <2>1 DEF Init, States
  <2>3. hash \in [File -> 0 .. MaxListings] /\ loads \in [View -> 0 .. MaxLoads]
    BY DEF Init, NoObject
  <2>4. rows \in [View -> SUBSET Row]
    BY DEF Init
  <2> QED  BY <2>2, <2>3, <2>4 DEF Init, TypeOK
<1>2. TypeOK /\ [Next]_vars => TypeOK'
  <2> SUFFICES ASSUME TypeOK, [Next]_vars PROVE TypeOK'
    OBVIOUS
  <2>1. ASSUME NEW i \in Call, Enumerated(i) PROVE TypeOK'
    <3>1. listing' \in [Call -> Listing]
      BY <2>1, ContinuesTyped DEF Enumerated, TypeOK
    <3>2. /\ state' \in States /\ hash' \in [File -> 0 .. MaxListings]
          /\ cancelled' \in BOOLEAN /\ fileLoaded' \in SUBSET View
      BY <2>1, BecomeTyped DEF Enumerated, TypeOK
    <3> QED  BY <2>1, <3>1, <3>2 DEF Enumerated, TypeOK
  <2>2. ASSUME NEW i \in Call, NextFiles(i) PROVE TypeOK'
    <3>1. PICK fs \in SUBSET listing[i].left :
            /\ Continues(i, listing[i].left \ fs)
            /\ Become(state, [f \in File |-> IF f \in fs THEN i ELSE hash[f]],
                      cancelled, fileLoaded)
            /\ rows' = Shown(rows, IF listing[i].private THEN {} ELSE fileLoaded,
                             {<<f, i>> : f \in {g \in fs : Visible(g)}})
      BY <2>2 DEF NextFiles
    <3>2. listing[i].left \in SUBSET File /\ fs \in SUBSET File
      BY DEF TypeOK, Listing
    <3>3. listing' \in [Call -> Listing]
      BY <3>1, <3>2, ContinuesTyped DEF TypeOK
    <3> DEFINE h == [f \in File |-> IF f \in fs THEN i ELSE hash[f]]
    <3>4. h \in [File -> 0 .. MaxListings]
      BY DEF TypeOK
    <3>5. Become(state, h, cancelled, fileLoaded)
      BY <3>1
    <3> HIDE DEF h
    <3>6. /\ state' \in States /\ hash' \in [File -> 0 .. MaxListings]
          /\ cancelled' \in BOOLEAN /\ fileLoaded' \in SUBSET View
      BY <3>4, <3>5, BecomeTyped DEF TypeOK
    <3>7. {<<f, i>> : f \in {g \in fs : Visible(g)}} \in SUBSET Row
      BY <3>2
    <3>8. rows' \in [View -> SUBSET Row]
      BY <3>1, <3>7, ShownTyped DEF TypeOK
    <3> QED  BY <2>2, <3>3, <3>6, <3>8 DEF NextFiles, TypeOK
  <2>3. ASSUME NEW i \in Call, Listed(i) PROVE TypeOK'
    <3>1. PICK st \in States : \E done \in BOOLEAN : Finishes(i, st, done)
      BY <2>3 DEF Listed, TypeOK, States
    <3> QED  BY <2>3, <3>1, FinishesTyped DEF Listed, TypeOK
  <2>4. ASSUME NEW i \in Call, ListError(i) PROVE TypeOK'
    <3>1. Finishes(i, "NOT_LOADED", ~cancelled) /\ "NOT_LOADED" \in States
      BY <2>4 DEF ListError, States
    <3> QED  BY <2>4, <3>1, FinishesTyped DEF ListError, TypeOK, Mishaps
  <2>5. ASSUME NEW v \in View, LoadIdle(v) PROVE TypeOK'
    <3>0. /\ loads' \in [View -> 0 .. MaxLoads] /\ closed' \in SUBSET View
          /\ UNCHANGED <<showHidden, due, shown, mishaps>>
      BY <2>5 DEF LoadIdle, TypeOK
    <3>1. CASE v \in shown \cup closed
      <4>1. Load(rows, fileLoaded)
        BY <2>5, <3>1 DEF LoadIdle
      <4> QED  BY <3>0, <4>1, LoadTyped DEF TypeOK
    <3>2. CASE v \notin shown \cup closed
      BY <2>5, <3>0, <3>2 DEF LoadIdle, TypeOK, dirVars
    <3> QED  BY <3>1, <3>2
  <2>6. ASSUME NEW v \in View, HiddenChanged(v) PROVE TypeOK'
    <3> DEFINE fl == fileLoaded \cup {v}  R == [rows EXCEPT ![v] = {}]
    <3>0. fl \in SUBSET View /\ R \in [View -> SUBSET Row]
      BY DEF TypeOK
    <3>1. LoadHiddens(fl) \/ Load(R, fl)
      BY <2>6 DEF HiddenChanged
    <3> HIDE DEF fl, R
    <3>2. /\ state' \in States /\ cancelled' \in BOOLEAN
          /\ hash' \in [File -> 0 .. MaxListings] /\ listing' \in [Call -> Listing]
          /\ fileLoaded' \in SUBSET View /\ frozen' \in SUBSET View
          /\ rows' \in [View -> SUBSET Row]
      BY <3>0, <3>1, LoadHiddensTyped, LoadTyped
    <3> QED  BY <2>6, <3>2 DEF HiddenChanged, TypeOK
  <2>7. ASSUME NEW v \in View, NewTab(v) PROVE TypeOK'
    BY <2>7 DEF NewTab, Connect, Schedule, TypeOK, dirVars, Impatience, Mishaps
  <2>8. ASSUME NEW v \in View, Navigate(v) PROVE TypeOK'
    BY <2>8, CancelKeeps
       DEF Navigate, Cancel, Connect, Schedule, TypeOK, Impatience, Mishaps
  <2>9. ASSUME NEW v \in View, Leave(v) \/ CloseTab(v) PROVE TypeOK'
    <3>1. PICK fl \in SUBSET View : Become(state, hash, TRUE, fl)
      BY <2>9 DEF Leave, CloseTab, TypeOK
    <3>2. /\ state' \in States /\ hash' \in [File -> 0 .. MaxListings]
          /\ cancelled' \in BOOLEAN /\ fileLoaded' \in SUBSET View
      BY <3>1, BecomeTyped DEF TypeOK
    <3>3. /\ listing' \in [Call -> Listing] /\ showHidden' \in BOOLEAN
          /\ due' \in SUBSET View /\ shown' \in SUBSET View
          /\ frozen' \in SUBSET View /\ loads' \in [View -> 0 .. MaxLoads]
      BY <2>9, CancelKeeps DEF Leave, CloseTab, TypeOK
    <3>4. closed' \in SUBSET View /\ mishaps' \subseteq Mishaps
      BY <2>9 DEF Leave, CloseTab, TypeOK, Impatience, Mishaps
    <3>5. rows' \in [View -> SUBSET Row]
      BY <2>9 DEF Leave, CloseTab, TypeOK
    <3> QED  BY <3>2, <3>3, <3>4, <3>5 DEF TypeOK
  <2>10. ASSUME NEW v \in View, Reload(v) PROVE TypeOK'
    BY <2>10, CancelKeeps
       DEF Reload, Cancel, Connect, Schedule, TypeOK, NoObject, States, Impatience, Mishaps
  <2>11. CASE ToggleHidden
    BY <2>11 DEF ToggleHidden, TypeOK, dirVars, viewVars, Mishaps
  <2>12. CASE Complete
    <3>1. state' \in States /\ listing' \in [Call -> Listing]
      BY <2>12, ListDirectoryTyped DEF Complete, TypeOK, States
    <3> QED  BY <2>12, <3>1 DEF Complete, TypeOK, viewVars, Mishaps
  <2>13. CASE UNCHANGED vars
    BY <2>13 DEF vars, dirVars, viewVars, TypeOK
  <2> QED
    BY <2>1, <2>2, <2>3, <2>4, <2>5, <2>6, <2>7, <2>8, <2>9, <2>10, <2>11, <2>12,
       <2>13 DEF Next, Thread, User
<1> QED  BY <1>1, <1>2, PTL DEF Spec

-----------------------------------------------------------------------------
(* What a step does to the folder and to the calls *)

LEMMA BecomeIs ==
  ASSUME NEW st, NEW h, NEW c, NEW fl, Become(st, h, c, fl)
  PROVE  \/ state' = st /\ hash' = h
         \/ /\ \A j \in Call : ~Active(j)'
            /\ state' = "NOT_LOADED" /\ hash' = NoObject
  BY DEF Become, Unused, Active

LEMMA ListDirectoryIs ==
  ASSUME listing \in [Call -> Listing], NEW p \in BOOLEAN, ListDirectory(p)
  PROVE  /\ state' = "LOADING"
         /\ \E i \in Call :
              /\ listing'[i].pc = "enumerate"
              /\ \A j \in Call \ {i} : listing'[j] = listing[j]
<1>1. PICK i \in Call :
        listing' = [listing EXCEPT ![i] = [Idle("enumerate") EXCEPT !.private = p]]
  BY DEF ListDirectory
<1>2. [Idle("enumerate") EXCEPT !.private = p].pc = "enumerate"
  BY DEF Idle
<1> QED  BY <1>1, <1>2 DEF ListDirectory

LEMMA EndsIs ==
  ASSUME listing \in [Call -> Listing], NEW i \in Call, Ends(i)
  PROVE  /\ listing'[i].pc = "ended"
         /\ \A j \in Call \ {i} : listing'[j] = listing[j]
<1>1. Idle("ended").pc = "ended"
  BY DEF Idle
<1> QED  BY <1>1 DEF Ends

LEMMA ContinuesIs ==
  ASSUME listing \in [Call -> Listing], NEW i \in Call, NEW left, Continues(i, left)
  PROVE  /\ \A j \in Call \ {i} : listing'[j] = listing[j]
         /\ state = "LOADING" => listing'[i].pc = "next" /\ listing'[i].left = left
         /\ state # "LOADING" => listing'[i].pc = "ended"
<1>1. CASE state = "LOADING"
  <2> DEFINE l == [listing[i] EXCEPT !.pc = "next", !.left = left, !.hit = cancelled]
  <2>1. l.pc = "next" /\ l.left = left
    BY DEF Listing
  <2>2. listing' = [listing EXCEPT ![i] = l]
    BY <1>1 DEF Continues
  <2> HIDE DEF l
  <2> QED  BY <1>1, <2>1, <2>2
<1>2. CASE state # "LOADING"
  BY <1>2, EndsIs DEF Continues
<1> QED  BY <1>1, <1>2

\* The calls are where they were, and what they have to read is the same.
SameCalls ==
  \A j \in Call : listing'[j].pc = listing[j].pc /\ listing'[j].left = listing[j].left

\* Every step is one of these, seen from the folder.
Kept == SameCalls /\ state' = state /\ hash' = hash
Dropped == (\A j \in Call : ~Active(j)') /\ state' = "NOT_LOADED" /\ hash' = NoObject
Cleared ==
  /\ SameCalls /\ state' = "NOT_LOADED" /\ hash' = NoObject
  /\ "superseded" \notin mishaps' => ~AnyActive
Started ==
  /\ state = "NOT_LOADED" /\ state' = "LOADING" /\ hash' = hash
  /\ \E i \in Call : /\ listing'[i].pc = "enumerate"
                     /\ \A j \in Call \ {i} : listing'[j] = listing[j]
Opened(i) ==
  /\ state = "LOADING" /\ state' = state /\ hash' = hash
  /\ listing'[i].pc = "next" /\ listing'[i].left = File
Read(i) ==
  /\ state = "LOADING" /\ state' = state
  /\ listing[i].pc = "next" /\ listing'[i].pc = "next"
  /\ \E fs \in SUBSET File :
       /\ listing'[i].left = listing[i].left \ fs
       /\ hash' = [f \in File |-> IF f \in fs THEN i ELSE hash[f]]
Over(i) ==
  /\ listing'[i].pc = "ended"
  /\ \/ state # "LOADING" /\ state' = state
     \/ /\ state = "LOADING" /\ state' = "LOADED" /\ hash' = hash
        /\ listing[i].pc = "next" /\ listing[i].left = {}
     \/ state' = "NOT_LOADED" /\ hash' = hash
Turn(i) ==
  /\ Active(i)
  /\ \A j \in Call \ {i} : listing'[j] = listing[j]
  /\ Opened(i) \/ Read(i) \/ Over(i)

FolderStep == Kept \/ Dropped \/ Cleared \/ Started \/ \E i \in Call : Turn(i)

LEMMA LoadSteps ==
  ASSUME TypeOK, NEW R, NEW fl, Load(R, fl)
  PROVE  Kept \/ Started
  BY ListDirectoryIs DEF Load, Starts, Kept, SameCalls, Started, TypeOK

LEMMA LoadHiddensSteps ==
  ASSUME TypeOK, NEW fl, LoadHiddens(fl)
  PROVE  Kept \/ Started
  BY ListDirectoryIs DEF LoadHiddens, Kept, SameCalls, Started, TypeOK, dirVars

LEMMA FolderSteps ==
  ASSUME TypeOK, [Next]_vars
  PROVE  FolderStep
<1>1. ASSUME NEW i \in Call, Enumerated(i) PROVE FolderStep
  <2>1. Continues(i, File) /\ Active(i)
    BY <1>1 DEF Enumerated, Active
  <2>2. (state' = state /\ hash' = hash) \/ Dropped
    BY <1>1, BecomeIs DEF Enumerated, Dropped
  <2>3. CASE state' = state /\ hash' = hash
    BY <2>1, <2>3, ContinuesIs DEF TypeOK, FolderStep, Turn, Opened, Over
  <2> QED  BY <2>2, <2>3 DEF FolderStep
<1>2. ASSUME NEW i \in Call, NextFiles(i) PROVE FolderStep
  <2>1. PICK fs \in SUBSET listing[i].left :
          /\ Continues(i, listing[i].left \ fs)
          /\ Become(state, [f \in File |-> IF f \in fs THEN i ELSE hash[f]],
                    cancelled, fileLoaded)
    BY <1>2 DEF NextFiles
  <2>2. fs \in SUBSET File /\ Active(i) /\ listing[i].pc = "next"
    BY <1>2 DEF NextFiles, Active, TypeOK, Listing
  <2>3. \/ state' = state /\ hash' = [f \in File |-> IF f \in fs THEN i ELSE hash[f]]
        \/ Dropped
    BY <2>1, BecomeIs DEF Dropped
  <2>4. CASE state' = state /\ hash' = [f \in File |-> IF f \in fs THEN i ELSE hash[f]]
    <3>1. CASE state = "LOADING"
      <4>1. Read(i) /\ \A j \in Call \ {i} : listing'[j] = listing[j]
        BY <2>1, <2>2, <2>4, <3>1, ContinuesIs DEF TypeOK, Read
      <4> QED  BY <2>2, <4>1 DEF FolderStep, Turn
    <3>2. CASE state # "LOADING"
      <4>1. Over(i) /\ \A j \in Call \ {i} : listing'[j] = listing[j]
        BY <2>1, <2>4, <3>2, ContinuesIs DEF TypeOK, Over
      <4> QED  BY <2>2, <4>1 DEF FolderStep, Turn
    <3> QED  BY <3>1, <3>2
  <2> QED  BY <2>3, <2>4 DEF FolderStep
<1>3. ASSUME NEW i \in Call, Listed(i) PROVE FolderStep
  <2>1. PICK st, fl : /\ Ends(i) /\ Become(st, hash, cancelled, fl)
                      /\ IF state = "LOADING" THEN st = "LOADED" ELSE st = state
    BY <1>3 DEF Listed, Finishes
  <2>2. (state' = st /\ hash' = hash) \/ Dropped
    BY <2>1, BecomeIs DEF Dropped
  <2>3. CASE state' = st /\ hash' = hash
    <3>1. Over(i) /\ \A j \in Call \ {i} : listing'[j] = listing[j]
      BY <1>3, <2>1, <2>3, EndsIs DEF Listed, Over, TypeOK
    <3> QED  BY <1>3, <3>1 DEF Listed, Active, FolderStep, Turn
  <2> QED  BY <2>2, <2>3 DEF FolderStep
<1>4. ASSUME NEW i \in Call, ListError(i) PROVE FolderStep
  <2>1. PICK fl : Ends(i) /\ Become("NOT_LOADED", hash, cancelled, fl)
    BY <1>4 DEF ListError, Finishes
  <2>2. (state' = "NOT_LOADED" /\ hash' = hash) \/ Dropped
    BY <2>1, BecomeIs DEF Dropped
  <2>3. CASE state' = "NOT_LOADED" /\ hash' = hash
    <3>1. Over(i) /\ \A j \in Call \ {i} : listing'[j] = listing[j]
      BY <2>1, <2>3, EndsIs DEF Over, TypeOK
    <3> QED  BY <1>4, <3>1 DEF ListError, FolderStep, Turn
  <2> QED  BY <2>2, <2>3 DEF FolderStep
<1>5. ASSUME NEW v \in View, LoadIdle(v) PROVE FolderStep
  BY <1>5, LoadSteps DEF LoadIdle, FolderStep, Kept, SameCalls, dirVars
<1>6. ASSUME NEW v \in View, HiddenChanged(v) PROVE FolderStep
  BY <1>6, LoadSteps, LoadHiddensSteps DEF HiddenChanged, FolderStep
<1>7. ASSUME NEW v \in View, NewTab(v) PROVE FolderStep
  BY <1>7 DEF NewTab, FolderStep, Kept, SameCalls, dirVars
<1>8. ASSUME NEW v \in View, Navigate(v) PROVE FolderStep
  BY <1>8, CancelKeeps DEF Navigate, Cancel, FolderStep, Kept, SameCalls, TypeOK
<1>9. ASSUME NEW v \in View, Leave(v) \/ CloseTab(v) PROVE FolderStep
  <2>1. PICK fl : Become(state, hash, TRUE, fl)
    BY <1>9 DEF Leave, CloseTab
  <2>2. (state' = state /\ hash' = hash) \/ Dropped
    BY <2>1, BecomeIs DEF Dropped
  <2>3. SameCalls
    BY <1>9, CancelKeeps DEF Leave, CloseTab, SameCalls, TypeOK
  <2> QED  BY <2>2, <2>3 DEF FolderStep, Kept
<1>10. ASSUME NEW v \in View, Reload(v) PROVE FolderStep
  BY <1>10, CancelKeeps
     DEF Reload, Cancel, FolderStep, Cleared, SameCalls, TypeOK
<1>11. CASE ToggleHidden
  BY <1>11 DEF ToggleHidden, FolderStep, Kept, SameCalls, dirVars
<1>12. CASE Complete
  BY <1>12, ListDirectoryIs
     DEF Complete, FolderStep, Kept, Started, SameCalls, TypeOK
<1>13. CASE UNCHANGED vars
  BY <1>13 DEF vars, dirVars, FolderStep, Kept, SameCalls
<1> QED
  BY <1>1, <1>2, <1>3, <1>4, <1>5, <1>6, <1>7, <1>8, <1>9, <1>10, <1>11, <1>12,
     <1>13 DEF Next, Thread, User

-----------------------------------------------------------------------------
\* A folder that is loading has a call at work, whatever the users do and
\* whatever fails: load never returns at once for ever.
THEOREM LoadingIsListed == Spec => []LoadingHasListing
<1>1. Init => LoadingHasListing
  BY DEF Init, LoadingHasListing
<1>2. TypeOK /\ LoadingHasListing /\ [Next]_vars => LoadingHasListing'
  <2> SUFFICES ASSUME TypeOK, LoadingHasListing, FolderStep, state' = "LOADING"
               PROVE  \E i \in Call : Active(i)'
    BY FolderSteps DEF LoadingHasListing
  <2>1. CASE Kept
    BY <2>1 DEF Kept, SameCalls, LoadingHasListing, Active
  <2>2. CASE Started
    BY <2>2 DEF Started, Active
  <2>3. CASE \E i \in Call : Turn(i)
    BY <2>3 DEF Turn, Opened, Read, Over, Active
  <2> QED  BY <2>1, <2>2, <2>3 DEF FolderStep, Dropped, Cleared
<1> QED  BY <1>1, <1>2, TypeCorrect, PTL DEF Spec

\* Until a call is superseded, at most one is at work, and only while the folder
\* is loading; and what it has not still to read is in the hash.
Exclusive ==
  \A i \in Call :
    Active(i) => state = "LOADING" /\ \A j \in Call : Active(j) => i = j
ReadSoFar ==
  \A i \in Call : listing[i].pc = "next" => \A f \in File \ listing[i].left : hash[f] # 0
Whole == Exclusive /\ ReadSoFar /\ LoadedComplete
WholeOrSuperseded == "superseded" \in mishaps \/ Whole

LEMMA MishapsStay ==
  ASSUME [Next]_vars
  PROVE  mishaps \subseteq mishaps'
  BY DEF Next, Thread, User, vars, Enumerated, NextFiles, Listed, ListError,
         LoadIdle, HiddenChanged, NewTab, Navigate, Leave, CloseTab, Reload,
         ToggleHidden, Complete

\* A loaded folder is complete unless it was reloaded while it was read: what
\* load hands out from the hash is every file of the folder, however often it
\* is left and loaded again, reloaded, cancelled or dropped from the cache.
THEOREM LoadedIsComplete == Spec => []LoadedComplete
<1>1. Init => WholeOrSuperseded
  <2>1. Idle("none").pc = "none"
    BY DEF Idle
  <2> QED  BY <2>1 DEF Init, WholeOrSuperseded, Whole, Exclusive, ReadSoFar, LoadedComplete,
                  Active
<1>2. TypeOK /\ WholeOrSuperseded /\ [Next]_vars => WholeOrSuperseded'
  <2> SUFFICES ASSUME TypeOK, Whole, FolderStep,
                      "superseded" \notin mishaps, "superseded" \notin mishaps'
               PROVE  Whole'
    BY FolderSteps, MishapsStay DEF WholeOrSuperseded
  <2> USE DEF Whole
  <2>1. CASE Kept
    BY <2>1 DEF Kept, SameCalls, Exclusive, ReadSoFar, LoadedComplete, Active
  <2>2. CASE Dropped
    BY <2>2 DEF Dropped, Exclusive, ReadSoFar, LoadedComplete, Active
  <2>3. CASE Started
    <3>1. \A i \in Call : ~Active(i)
      BY <2>3 DEF Started, Exclusive
    <3> QED
      BY <2>3, <3>1 DEF Started, Exclusive, ReadSoFar, LoadedComplete, Active
  <2>4. ASSUME NEW i \in Call, Turn(i) PROVE Whole'
    <3>1. state = "LOADING" /\ \A j \in Call \ {i} : ~Active(j) /\ listing'[j] = listing[j]
      BY <2>4 DEF Turn, Exclusive
    <3>2. CASE Opened(i)
      BY <3>1, <3>2 DEF Opened, Exclusive, ReadSoFar, LoadedComplete, Active
    <3>3. CASE Read(i)
      <4>1. PICK fs \in SUBSET File :
              /\ listing'[i].left = listing[i].left \ fs
              /\ hash' = [f \in File |-> IF f \in fs THEN i ELSE hash[f]]
        BY <3>3 DEF Read
      <4>2. \A f \in File \ listing'[i].left : hash'[f] # 0
        BY <3>3, <4>1 DEF Read, ReadSoFar
      <4> QED
        BY <3>1, <3>3, <4>2 DEF Read, Exclusive, ReadSoFar, LoadedComplete, Active
    <3>4. CASE Over(i)
      <4>1. Exclusive' /\ ReadSoFar'
        BY <3>1, <3>4 DEF Over, Exclusive, ReadSoFar, Active
      <4>2. LoadedComplete'
        BY <3>1, <3>4 DEF Over, ReadSoFar, LoadedComplete
      <4> QED  BY <4>1, <4>2
    <3> QED  BY <2>4, <3>2, <3>3, <3>4 DEF Turn
  <2>5. CASE Cleared
    <3>1. \A i \in Call : ~Active(i) /\ listing'[i].pc = listing[i].pc
      BY <2>5 DEF Cleared, AnyActive, SameCalls
    <3> QED
      BY <2>5, <3>1 DEF Cleared, Exclusive, ReadSoFar, LoadedComplete, Active
  <2> QED  BY <2>1, <2>2, <2>3, <2>4, <2>5 DEF FolderStep
<1>3. WholeOrSuperseded => LoadedComplete
  BY DEF WholeOrSuperseded, Whole, LoadedComplete
<1> QED  BY <1>1, <1>2, <1>3, TypeCorrect, PTL DEF Spec

-----------------------------------------------------------------------------
LEMMA DoneLast ==
  ASSUME NEW i, NEW st, NEW done, st # "LOADING", Finishes(i, st, done)
  PROVE  state' # "LOADING"
<1>1. PICK fl : Become(st, hash, cancelled, fl)
  BY DEF Finishes
<1> QED  BY <1>1 DEF Become

\* Apart from load_hiddens, done_loading reaches a tab that waits only when the
\* folder is not loading any more.
THEOREM DoneNotPremature == Spec => NoPrematureDone
<1> DEFINE Thaws(v) == v \in frozen /\ v \notin frozen' /\ v \in shown'
<1>3. ASSUME Next, NEW u \in View, Thaws(u), due' = due PROVE state' # "LOADING"
  <2>1. ASSUME NEW i \in Call, Enumerated(i) \/ NextFiles(i) PROVE FALSE
    BY <1>3, <2>1 DEF Enumerated, NextFiles
  <2>2. ASSUME NEW i \in Call, Listed(i) PROVE state' # "LOADING"
    <3>1. CASE state = "LOADING"
      BY <2>2, <3>1, DoneLast DEF Listed
    <3>2. CASE state # "LOADING"
      BY <2>2, <3>2, DoneLast DEF Listed
    <3> QED  BY <3>1, <3>2
  <2>3. ASSUME NEW i \in Call, ListError(i) PROVE state' # "LOADING"
    BY <2>3, DoneLast DEF ListError
  <2>4. ASSUME NEW v \in View, LoadIdle(v) PROVE state' # "LOADING"
    BY <1>3, <2>4 DEF LoadIdle, Load
  <2>5. ASSUME NEW v \in View, HiddenChanged(v) PROVE FALSE
    BY <1>3, <2>5 DEF HiddenChanged
  <2>6. ASSUME NEW v \in View, NewTab(v) \/ Navigate(v) \/ Reload(v) PROVE FALSE
    BY <1>3, <2>6 DEF NewTab, Navigate, Reload
  <2>7. ASSUME NEW v \in View, Leave(v) \/ CloseTab(v) PROVE FALSE
    BY <1>3, <2>7 DEF Leave, CloseTab
  <2>8. ToggleHidden \/ Complete => FALSE
    BY <1>3 DEF ToggleHidden, Complete, viewVars
  <2> QED
    BY <1>3, <2>1, <2>2, <2>3, <2>4, <2>5, <2>6, <2>7, <2>8 DEF Next, Thread, User
<1>4. TypeOK /\ [Next]_vars =>
        [(\E v \in frozen : v \notin frozen' /\ v \in shown')
           => state' # "LOADING" \/ due' # due]_vars
  <2> SUFFICES ASSUME TypeOK, Next, due' = due,
                      NEW u \in frozen, u \notin frozen', u \in shown'
               PROVE  state' # "LOADING"
    OBVIOUS
  <2>1. u \in View
    BY DEF TypeOK
  <2> QED  BY <2>1, <1>3
<1> QED  BY <1>4, TypeCorrect, PTL DEF Spec, NoPrematureDone

-----------------------------------------------------------------------------
(* No tab waits for ever: while it is frozen, an idle source of its own is to  *)
(* load the folder, or a call of list_directory that is not cancelled reads it *)
(* for the tabs; one for the completion of the location bar is made only while *)
(* no tab waits.                                                               *)
ReadForTabs == \E i \in Call : Active(i) /\ ~listing[i].private
Waited(u) == loads[u] > 0 \/ ReadForTabs

NobodyElse == frozen = {} /\ due = {} /\ \A v \in View : loads[v] = 0

Undisturbed ==
  \A i \in Call : Active(i) =>
    /\ state = "LOADING" /\ ~cancelled
    /\ \A j \in Call : Active(j) => i = j
    /\ listing[i].private => NobodyElse

Served == frozen \subseteq shown /\ Undisturbed /\ \A u \in frozen : Waited(u)

ServedOrImpatient == "impatient" \in mishaps \/ Served

LEMMA QuietServed ==
  ASSUME TypeOK, Served, Quiet
  PROVE  NobodyElse
<1>1. ~AnyActive /\ due = {} /\ \A v \in View : loads[v] = 0
  BY DEF Quiet
<1>2. frozen \subseteq View
  BY DEF TypeOK
<1> QED  BY <1>1, <1>2 DEF Served, Waited, ReadForTabs, AnyActive, NobodyElse

LEMMA ListDirectoryStarts ==
  ASSUME listing \in [Call -> Listing], NEW p \in BOOLEAN, ListDirectory(p)
  PROVE  /\ state' = "LOADING"
         /\ \E i \in Call :
              /\ listing'[i].pc = "enumerate" /\ listing'[i].private = p
              /\ \A j \in Call \ {i} : listing'[j] = listing[j]
<1>1. PICK i \in Call :
        listing' = [listing EXCEPT ![i] = [Idle("enumerate") EXCEPT !.private = p]]
  BY DEF ListDirectory
<1> DEFINE l == [Idle("enumerate") EXCEPT !.private = p]
<1>2. l.pc = "enumerate" /\ l.private = p
  BY DEF Idle
<1>3. listing' = [listing EXCEPT ![i] = l]
  BY <1>1
<1> HIDE DEF l
<1>4. listing'[i] = l /\ \A j \in Call \ {i} : listing'[j] = listing[j]
  BY <1>3
<1> QED  BY <1>2, <1>4 DEF ListDirectory

\* A call for the tabs is made where none was at work.
LEMMA TabsReadServes ==
  ASSUME TypeOK, Served, ListDirectory(FALSE), ~AnyActive,
         cancelled' = FALSE, frozen' \subseteq frozen, shown' = shown
  PROVE  Served'
<1>1. PICK i \in Call :
        /\ listing'[i].pc = "enumerate" /\ listing'[i].private = FALSE
        /\ \A j \in Call \ {i} : listing'[j] = listing[j]
  BY ListDirectoryStarts DEF TypeOK
<1>2. state' = "LOADING"
  BY ListDirectoryStarts DEF TypeOK
<1>3. Active(i)' /\ \A j \in Call \ {i} : ~Active(j)'
  BY <1>1 DEF Active, AnyActive
<1>4. ReadForTabs'
  BY <1>1, <1>3 DEF ReadForTabs
<1>5. Undisturbed'
  BY <1>1, <1>2, <1>3 DEF Undisturbed
<1> QED  BY <1>4, <1>5 DEF Served, Waited

\* A call for the tabs goes on.
LEMMA StillReadServes ==
  ASSUME TypeOK, LoadingHasListing, Served, state = "LOADING",
         \A i \in Call : Active(i) => ~listing[i].private,
         cancelled' = FALSE, state' = state, listing' = listing,
         frozen' \subseteq frozen, shown' = shown
  PROVE  Served'
<1>1. ReadForTabs'
  BY DEF LoadingHasListing, ReadForTabs, Active
<1>2. Undisturbed'
  BY DEF Served, Undisturbed, Active
<1> QED  BY <1>1, <1>2 DEF Served, Waited

\* No call is at work and nobody waits.
LEMMA NobodyServed ==
  ASSUME frozen' = {}, \A i \in Call : ~Active(i)'
  PROVE  Served'
  BY DEF Served, Undisturbed

LEMMA LoadServes ==
  ASSUME TypeOK, LoadingHasListing, Served, NEW R, NEW fl, Load(R, fl),
         \A i \in Call : Active(i) => ~listing[i].private, shown' = shown
  PROVE  Served'
<1>1. CASE state = "NOT_LOADED"
  BY <1>1, TabsReadServes DEF Load, Starts, Served, Undisturbed, AnyActive
<1>2. CASE state = "LOADING"
  BY <1>2, StillReadServes DEF Load, Starts
<1>3. CASE state = "LOADED"
  <2>1. DoneLoading(fl) /\ listing' = listing
    BY <1>3 DEF Load, Starts
  <2>2. frozen' = {}
    BY <2>1 DEF DoneLoading, Served
  <2>3. \A i \in Call : ~Active(i)'
    BY <1>3, <2>1 DEF Served, Undisturbed, Active
  <2> QED  BY <2>2, <2>3, NobodyServed
<1> QED  BY <1>1, <1>2, <1>3 DEF TypeOK, States

LEMMA LoadHiddensServes ==
  ASSUME TypeOK, LoadingHasListing, Served, NEW fl, LoadHiddens(fl),
         \A i \in Call : Active(i) => ~listing[i].private, shown' = shown
  PROVE  Served'
<1>1. frozen' = {}
  BY DEF LoadHiddens, DoneLoading, Served
<1>2. CASE state = "NOT_LOADED"
  BY <1>1, <1>2, TabsReadServes DEF LoadHiddens, Served, Undisturbed, AnyActive
<1>3. CASE state = "LOADING"
  BY <1>1, <1>3, StillReadServes DEF LoadHiddens
<1>4. CASE state = "LOADED"
  <2>1. listing' = listing
    BY <1>4 DEF LoadHiddens, dirVars
  <2>2. \A i \in Call : ~Active(i)'
    BY <1>4, <2>1 DEF Served, Undisturbed, Active
  <2> QED  BY <1>1, <2>2, NobodyServed
<1> QED  BY <1>2, <1>3, <1>4 DEF TypeOK, States

\* A call that ends tells the tabs, if it was for them.
LEMMA FinishesServes ==
  ASSUME TypeOK, Served, NEW i \in Call, Active(i), NEW st, NEW done, done = TRUE,
         Finishes(i, st, done)
  PROVE  Served'
<1>1. frozen' = {}
  <2>1. CASE listing[i].private
    BY <2>1 DEF Finishes, Served, Undisturbed, NobodyElse
  <2>2. CASE ~listing[i].private
    BY <2>2 DEF Finishes, Served
  <2> QED  BY <2>1, <2>2
<1>2. /\ listing'[i].pc = "ended"
      /\ \A j \in Call \ {i} : listing'[j] = listing[j] /\ ~Active(j)
  BY EndsIs DEF Finishes, TypeOK, Served, Undisturbed
<1>3. \A j \in Call : ~Active(j)'
  BY <1>2 DEF Active
<1> QED  BY <1>1, <1>3, NobodyServed

\* A call goes on with reading.
LEMMA GoesOn ==
  ASSUME TypeOK, NEW i \in Call, NEW left, Continues(i, left), state = "LOADING",
         NEW h, NEW fl, Become(state, h, cancelled, fl)
  PROVE  /\ listing'[i].pc = "next" /\ listing'[i].left = left
         /\ listing'[i].private = listing[i].private
         /\ \A j \in Call \ {i} : listing'[j] = listing[j]
         /\ state' = state /\ hash' = h /\ cancelled' = cancelled /\ fileLoaded' = fl
<1> DEFINE l == [listing[i] EXCEPT !.pc = "next", !.left = left, !.hit = cancelled]
<1>1. l.pc = "next" /\ l.left = left /\ l.private = listing[i].private
  BY DEF Listing, TypeOK
<1>2. listing' = [listing EXCEPT ![i] = l]
  BY DEF Continues
<1> HIDE DEF l
<1>3. /\ listing'[i] = l
      /\ \A j \in Call \ {i} : listing'[j] = listing[j]
  BY <1>2 DEF TypeOK
<1>4. ~Unused(shown', listing')
  BY <1>1, <1>3 DEF Unused
<1>5. PICK dropped \in {Unused(shown', listing'), FALSE} :
        /\ state' = IF dropped THEN "NOT_LOADED" ELSE state
        /\ hash' = IF dropped THEN NoObject ELSE h
        /\ cancelled' = (cancelled /\ ~dropped)
        /\ fileLoaded' = IF dropped THEN {} ELSE fl
  BY DEF Become
<1>6. ~dropped
  BY <1>4, <1>5, Zenon
<1>7. cancelled' = cancelled
  BY <1>5, <1>6, Zenon DEF TypeOK
<1> QED  BY <1>1, <1>3, <1>5, <1>6, <1>7

LEMMA ContinuesServes ==
  ASSUME TypeOK, Served, NEW i \in Call, Active(i), NEW left, Continues(i, left),
         NEW h, NEW fl, Become(state, h, cancelled, fl),
         frozen' = frozen, shown' = shown, loads' = loads, due' = due
  PROVE  Served'
<1>1. state = "LOADING" /\ ~cancelled
      /\ (listing[i].private => NobodyElse) /\ \A j \in Call \ {i} : ~Active(j)
  BY DEF Served, Undisturbed
<1>2. /\ listing'[i].pc = "next" /\ listing'[i].private = listing[i].private
      /\ \A j \in Call \ {i} : listing'[j] = listing[j]
      /\ state' = state /\ ~cancelled'
  BY <1>1, GoesOn
<1>3. Active(i)' /\ \A j \in Call \ {i} : ~Active(j)'
  BY <1>1, <1>2 DEF Active
<1>4. Undisturbed'
  BY <1>1, <1>2, <1>3 DEF Undisturbed, NobodyElse
<1>5. ReadForTabs => ReadForTabs'
  BY <1>1, <1>2, <1>3 DEF ReadForTabs
<1> QED  BY <1>4, <1>5 DEF Served, Waited

LEMMA NextServed == TypeOK /\ LoadingHasListing /\ ServedOrImpatient /\ [Next]_vars
                      => ServedOrImpatient'
<1> SUFFICES ASSUME TypeOK, LoadingHasListing, Served, [Next]_vars,
                    "impatient" \notin mishaps'
             PROVE  Served'
  BY MishapsStay DEF ServedOrImpatient

\* What a user does while nothing is read: the tabs that wait have their sources.
<1>1. ASSUME mishaps' = mishaps \cup Impatience \/ \E m : mishaps' = (mishaps \cup Impatience) \cup m
      PROVE  /\ \A i \in Call : ~Active(i)
             /\ \A u \in frozen : loads[u] > 0
  <2>1. ~AnyActive
    BY <1>1 DEF Impatience
  <2> QED  BY <2>1 DEF AnyActive, Served, Waited, ReadForTabs
<1>2. ASSUME NEW i \in Call, Enumerated(i) PROVE Served'
  BY <1>2, ContinuesServes DEF Enumerated, Active
<1>3. ASSUME NEW i \in Call, NextFiles(i) PROVE Served'
  <2>1. PICK fs : /\ Continues(i, listing[i].left \ fs)
                  /\ Become(state, [f \in File |-> IF f \in fs THEN i ELSE hash[f]],
                            cancelled, fileLoaded)
    BY <1>3 DEF NextFiles
  <2> QED  BY <1>3, <2>1, ContinuesServes DEF NextFiles, Active
<1>4. ASSUME NEW i \in Call, Listed(i) PROVE Served'
  <2>1. Active(i)
    BY <1>4 DEF Listed, Active
  <2>2. Finishes(i, "LOADED", TRUE)
    BY <1>4, <2>1 DEF Listed, Served, Undisturbed
  <2> QED  BY <2>1, <2>2, FinishesServes
<1>5. ASSUME NEW i \in Call, ListError(i) PROVE Served'
  <2>1. Active(i) /\ Finishes(i, "NOT_LOADED", ~cancelled)
    BY <1>5 DEF ListError
  <2>2. (~cancelled) = TRUE
    BY <2>1 DEF Served, Undisturbed
  <2> QED  BY <2>1, <2>2, FinishesServes
<1>6. ASSUME NEW v \in View, LoadIdle(v) PROVE Served'
  <2>1. \A i \in Call : Active(i) => ~listing[i].private
    BY <1>6 DEF LoadIdle, Served, Undisturbed, NobodyElse
  <2>2. CASE v \in shown \cup closed
    BY <1>6, <2>1, <2>2, LoadServes DEF LoadIdle
  <2>3. CASE v \notin shown \cup closed
    <3>1. /\ state' = state /\ cancelled' = cancelled /\ listing' = listing
          /\ frozen' = frozen /\ shown' = shown
          /\ \A u \in View \ {v} : loads'[u] = loads[u]
      BY <1>6, <2>3 DEF LoadIdle, dirVars, TypeOK
    <3>2. \A u \in frozen : u \in View \ {v}
      BY <2>3 DEF Served, TypeOK
    <3>3. Undisturbed'
      BY <2>1, <3>1 DEF Served, Undisturbed, Active
    <3>4. \A u \in frozen : Waited(u)'
      BY <3>1, <3>2 DEF Served, Waited, ReadForTabs, Active
    <3> QED  BY <3>1, <3>3, <3>4 DEF Served
  <2> QED  BY <2>2, <2>3
<1>7. ASSUME NEW v \in View, HiddenChanged(v) PROVE Served'
  <2>1. \A i \in Call : Active(i) => ~listing[i].private
    BY <1>7 DEF HiddenChanged, Served, Undisturbed, NobodyElse
  <2> QED  BY <1>7, <2>1, LoadServes, LoadHiddensServes DEF HiddenChanged
<1>8. ASSUME NEW v \in View, NewTab(v) \/ Navigate(v) \/ Reload(v) PROVE Served'
  <2>1. /\ \A i \in Call : ~Active(i)
        /\ \A u \in frozen : loads[u] > 0
    BY <1>1, <1>8 DEF NewTab, Navigate, Reload
  <2>2. \A i \in Call : ~Active(i)'
    BY <1>8, <2>1, CancelKeeps DEF NewTab, Navigate, Reload, Cancel, dirVars, Active, TypeOK
  <2>3. /\ shown' = shown \cup {v} /\ frozen' = frozen \cup {v}
        /\ \A u \in View \ {v} : loads'[u] = loads[u]
        /\ loads'[v] > 0
    BY <1>8 DEF NewTab, Navigate, Reload, Connect, Schedule, TypeOK
  <2>4. \A u \in frozen' : loads'[u] > 0
    BY <2>1, <2>3 DEF TypeOK
  <2> QED  BY <2>2, <2>3, <2>4 DEF Served, Undisturbed, Waited
<1>9. ASSUME NEW v \in View, Leave(v) \/ CloseTab(v) PROVE Served'
  <2>1. /\ \A i \in Call : ~Active(i)
        /\ \A u \in frozen : loads[u] > 0
    BY <1>1, <1>9 DEF Leave, CloseTab
  <2>2. \A i \in Call : ~Active(i)'
    BY <1>9, <2>1, CancelKeeps DEF Leave, CloseTab, Active, TypeOK
  <2>3. shown' = shown \ {v} /\ frozen' = frozen \ {v} /\ loads' = loads
    BY <1>9 DEF Leave, CloseTab
  <2> QED  BY <2>1, <2>2, <2>3 DEF Served, Undisturbed, Waited
<1>10. CASE ToggleHidden
  <2>1. NobodyElse /\ \A i \in Call : ~Active(i)
    BY <1>10, QuietServed DEF ToggleHidden, Quiet, AnyActive
  <2> QED
    BY <1>10, <2>1, NobodyServed DEF ToggleHidden, NobodyElse, dirVars, viewVars, Active
<1>11. CASE Complete
  <2>1. NobodyElse /\ \A i \in Call : ~Active(i)
    BY <1>11, QuietServed DEF Complete, Quiet, AnyActive
  <2>2. NobodyElse' /\ cancelled' = FALSE
    BY <1>11, <2>1 DEF Complete, NobodyElse, viewVars
  <2>3. CASE state = "NOT_LOADED"
    <3>1. PICK i \in Call : \A j \in Call \ {i} : listing'[j] = listing[j]
      BY <1>11, <2>3, ListDirectoryStarts DEF Complete, TypeOK
    <3>2. state' = "LOADING" /\ \A j \in Call \ {i} : ~Active(j)'
      BY <1>11, <2>1, <2>3, <3>1, ListDirectoryStarts DEF Complete, TypeOK, Active
    <3>3. Undisturbed'
      BY <2>2, <3>2 DEF Undisturbed
    <3> QED  BY <2>2, <3>3 DEF Served, NobodyElse
  <2>4. CASE state # "NOT_LOADED"
    BY <1>11, <2>1, <2>2, <2>4, NobodyServed DEF Complete, NobodyElse, Active
  <2> QED  BY <2>3, <2>4
<1>12. CASE UNCHANGED vars
  BY <1>12 DEF vars, dirVars, viewVars, Served, Undisturbed, Waited, ReadForTabs,
               NobodyElse, Active
<1> QED
  BY <1>2, <1>3, <1>4, <1>5, <1>6, <1>7, <1>8, <1>9, <1>10, <1>11, <1>12
     DEF Next, Thread, User

\* When nothing is under way no tab is left frozen, unless somebody did something
\* to the folder while it was being read: every load a tab schedules, and every
\* list_directory, whether it reads the folder or fails, reaches done_loading.
THEOREM NobodyWaitsForEver == Spec => []NobodyWaits
<1>1. Init => ServedOrImpatient
  <2>1. Idle("none").pc = "none"
    BY DEF Idle
  <2> QED  BY <2>1 DEF Init, ServedOrImpatient, Served, Undisturbed, Active
<1>2. TypeOK /\ ServedOrImpatient => NobodyWaits
  BY QuietServed DEF ServedOrImpatient, NobodyWaits, NobodyElse
<1> QED  BY <1>1, <1>2, NextServed, TypeCorrect, LoadingIsListed, PTL DEF Spec
-----------------------------------------------------------------------------
(* While the users wait for the folder and nobody reloads it under another tab *)
(* (mishaps = {}), the rows of a tab follow the hash.  What a tab ought to     *)
(* show it shows already, but for a file_loaded it has still to hear: then a   *)
(* source of its own is to load the folder.                                    *)

\* The files a tab takes for visible: it has not heard yet if it is due.
Known(v) == {f \in File : f \notin Hidden \/ showHidden # (v \in due)}

\* A call reads the folder alone, into an empty hash, and nothing twice.
InTurn ==
  \A i \in Call : Active(i) =>
    /\ state = "LOADING"
    /\ \A j \in Call : Active(j) => i = j
    /\ listing[i].pc = "enumerate" => hash = NoObject
    /\ listing[i].pc = "next" => \A f \in listing[i].left : hash[f] = 0
    /\ listing[i].private => shown = {}

Emptied == state = "NOT_LOADED" => hash = NoObject

\* The preference is passed on to tabs that have all they waited for.
ToldAtRest ==
  /\ due \subseteq shown
  /\ due # {} => state = "LOADED" /\ shown \cap fileLoaded = {}

Follows(v) ==
  /\ rows[v] \subseteq Objects(Known(v))
  /\ state # "LOADED" => v \in fileLoaded
  /\ state # "LOADED" \/ v \notin fileLoaded => rows[v] = Objects(Known(v))
  /\ v \in fileLoaded /\ state # "LOADING" => loads[v] > 0

Followed == InTurn /\ Emptied /\ ToldAtRest /\ \A v \in shown : Follows(v)
FollowedOrMishap == mishaps = {} => Followed

LEMMA NothingHashed ==
  ASSUME NEW fs \in SUBSET File, hash = NoObject
  PROVE  Objects(fs) = {}
  BY DEF NoObject, Objects

\* What concerns a tab has not changed, or it has only more sources.
LEMMA StillFollows ==
  ASSUME TypeOK, NEW v \in View, Follows(v), hash' = hash, state' = state,
         showHidden' = showHidden, due' = due, rows'[v] = rows[v],
         v \in fileLoaded' <=> v \in fileLoaded, loads'[v] \in Nat, loads'[v] >= loads[v]
  PROVE  Follows(v)'
<1>1. Objects(Known(v))' = Objects(Known(v))
  BY DEF Objects, Known
<1> QED  BY <1>1 DEF Follows, TypeOK

\* A tab that shows nothing yet will load the folder.
LEMMA AwaitsLoad ==
  ASSUME NEW v, rows'[v] = {}, v \in fileLoaded', loads'[v] > 0,
         state' = "LOADED" \/ hash' = NoObject
  PROVE  Follows(v)'
<1>1. hash' = NoObject => Objects(Known(v))' = {}
  BY DEF NoObject, Objects, Known
<1> QED  BY <1>1 DEF Follows

\* done_loading has been emitted, and all the files were handed out.
LEMMA HasAll ==
  ASSUME NEW v, state' = "LOADED", v \notin fileLoaded', rows'[v] = Objects(Known(v))'
  PROVE  Follows(v)'
  BY DEF Follows

LEMMA RestInTurn ==
  ASSUME \A i \in Call : ~Active(i)'
  PROVE  InTurn'
  BY DEF InTurn

\* A call is made where none was at work, and the hash is empty.
LEMMA StartsInTurn ==
  ASSUME TypeOK, InTurn, Emptied, state = "NOT_LOADED", NEW p \in BOOLEAN,
         ListDirectory(p), hash' = hash, p => shown' = {}
  PROVE  InTurn' /\ Emptied' /\ state' = "LOADING"
<1>1. PICK i \in Call :
        /\ listing'[i].pc = "enumerate" /\ listing'[i].private = p
        /\ \A j \in Call \ {i} : listing'[j] = listing[j]
  BY ListDirectoryStarts DEF TypeOK
<1>2. state' = "LOADING"
  BY ListDirectoryStarts DEF TypeOK
<1>3. \A j \in Call : ~Active(j)
  BY DEF InTurn
<1>4. \A j \in Call \ {i} : ~Active(j)'
  BY <1>1, <1>3 DEF Active
<1>5. hash' = NoObject
  BY DEF Emptied
<1> QED  BY <1>1, <1>2, <1>4, <1>5 DEF InTurn, Emptied

\* load, for the idle source of a tab: what it hands out is what the tabs that
\* listen have not got.
LEMMA LoadFollowed ==
  ASSUME TypeOK, Followed, Load(rows, fileLoaded), due = {},
         UNCHANGED <<showHidden, due, shown>>
  PROVE  Followed'
<1> USE DEF Followed
<1>1. CASE state = "NOT_LOADED"
  <2>1. /\ ListDirectory(FALSE) /\ rows' = rows /\ fileLoaded' = fileLoaded
        /\ hash' = hash
    BY <1>1 DEF Load, Starts
  <2>2. InTurn' /\ Emptied' /\ state' = "LOADING"
    BY <1>1, <2>1, StartsInTurn
  <2>3. \A u : Objects(Known(u))' = Objects(Known(u))
    BY <2>1 DEF Objects, Known
  <2>4. \A u \in shown : Follows(u)'
    BY <1>1, <2>1, <2>2, <2>3 DEF Follows
  <2> QED  BY <2>2, <2>4 DEF ToldAtRest
<1>2. CASE state = "LOADING"
  <2>1. UNCHANGED <<rows, fileLoaded, state, hash, listing>>
    BY <1>2 DEF Load, Starts
  <2>2. InTurn' /\ Emptied' /\ ToldAtRest'
    BY <2>1 DEF InTurn, Emptied, ToldAtRest, Active, NoObject
  <2>3. \A u : Objects(Known(u))' = Objects(Known(u))
    BY <2>1 DEF Objects, Known
  <2>4. \A u \in shown : Follows(u)'
    BY <1>2, <2>1, <2>3 DEF Follows
  <2> QED  BY <2>2, <2>4
<1>3. CASE state = "LOADED"
  <2> DEFINE seen == {f \in File : Visible(f)}
  <2>1. /\ rows' = Shown(rows, fileLoaded, Objects(seen))
        /\ fileLoaded' = fileLoaded \ shown
        /\ UNCHANGED <<state, hash, listing>>
    BY <1>3 DEF Load, Starts, DoneLoading
  <2>2. \A u : Objects(Known(u)) = Objects(seen) /\ Objects(Known(u))' = Objects(seen)
    BY <2>1 DEF Objects, Known, Visible, TypeOK
  <2>3. InTurn' /\ Emptied' /\ ToldAtRest'
    BY <1>3, <2>1 DEF InTurn, Emptied, ToldAtRest, Active
  <2>4. ASSUME NEW u \in shown PROVE Follows(u)'
    <3>1. /\ rows[u] \subseteq Objects(seen)
          /\ u \notin fileLoaded => rows[u] = Objects(seen)
      BY <2>2 DEF Follows
    <3>2. rows'[u] = Objects(seen)
      BY <2>1, <3>1 DEF Shown, TypeOK
    <3> QED  BY <1>3, <2>1, <2>2, <3>2, HasAll
  <2> QED  BY <2>3, <2>4
<1> QED  BY <1>1, <1>2, <1>3 DEF TypeOK, States

\* The rest of a listing: what is read goes into the hash and to the tabs at once.
LEMMA ReadFollowed ==
  ASSUME TypeOK, Followed, NEW i \in Call, NextFiles(i)
  PROVE  Followed'
<1> USE DEF Followed
<1>1. PICK fs \in SUBSET listing[i].left :
        /\ Continues(i, listing[i].left \ fs)
        /\ Become(state, [f \in File |-> IF f \in fs THEN i ELSE hash[f]],
                  cancelled, fileLoaded)
        /\ rows' = Shown(rows, IF listing[i].private THEN {} ELSE fileLoaded,
                         {<<f, i>> : f \in {g \in fs : Visible(g)}})
  BY DEF NextFiles
<1> DEFINE h == [f \in File |-> IF f \in fs THEN i ELSE hash[f]]
<1>2. Active(i) /\ listing[i].pc = "next" /\ fs \in SUBSET File
  BY DEF NextFiles, Active, TypeOK, Listing
<1>3. /\ state = "LOADING" /\ \A j \in Call \ {i} : ~Active(j)
      /\ \A f \in listing[i].left : hash[f] = 0
      /\ listing[i].private => shown = {}
  BY <1>2 DEF InTurn
<1>4. Become(state, h, cancelled, fileLoaded)
  BY <1>1
<1> HIDE DEF h
<1>5. /\ listing'[i].pc = "next" /\ listing'[i].left = listing[i].left \ fs
      /\ listing'[i].private = listing[i].private
      /\ \A j \in Call \ {i} : listing'[j] = listing[j]
      /\ state' = state /\ hash' = h /\ fileLoaded' = fileLoaded
  BY <1>1, <1>3, <1>4, GoesOn
<1>6. UNCHANGED <<showHidden, due, shown, loads>>
  BY DEF NextFiles
<1>7. InTurn'
  <2>1. \A j \in Call \ {i} : ~Active(j)'
    BY <1>3, <1>5 DEF Active
  <2>2. \A f \in listing'[i].left : hash'[f] = 0
    BY <1>3, <1>5 DEF h, TypeOK, Listing
  <2> QED  BY <1>3, <1>5, <1>6, <2>1, <2>2 DEF InTurn
<1>8. Emptied' /\ ToldAtRest'
  BY <1>3, <1>5, <1>6 DEF Emptied, ToldAtRest
<1>9. ASSUME NEW u \in shown PROVE Follows(u)'
  <2> DEFINE new == {<<f, i>> : f \in {g \in fs : Visible(g)}}
  <2>1. u \in fileLoaded /\ rows[u] = Objects(Known(u)) /\ due = {}
    BY <1>3 DEF Follows, ToldAtRest
  <2>2. u \in View /\ rows' = Shown(rows, fileLoaded, new)
    BY <1>1, <1>3 DEF TypeOK
  <2>3. rows'[u] = rows[u] \cup new
    BY <2>1, <2>2 DEF Shown
  <2>4. Known(u)' = Known(u) /\ Known(u) = {f \in File : Visible(f)}
    BY <1>6, <2>1 DEF Known, Visible, TypeOK
  <2>5. Objects(Known(u))' = Objects(Known(u)) \cup new
    <3>1. ASSUME NEW f \in File
          PROVE  /\ f \in fs => hash[f] = 0 /\ hash'[f] = i
                 /\ f \notin fs => hash'[f] = hash[f]
      BY <1>3, <1>5 DEF h
    <3>2. i # 0
      OBVIOUS
    <3> QED  BY <1>2, <2>4, <3>1, <3>2 DEF Objects
  <2> QED  BY <1>3, <1>5, <2>1, <2>3, <2>5 DEF Follows
<1> QED  BY <1>6, <1>7, <1>8, <1>9

\* The folder has been read: the tabs have all, and stop listening.
LEMMA ListedFollowed ==
  ASSUME TypeOK, Followed, NEW i \in Call, Listed(i)
  PROVE  Followed'
<1> USE DEF Followed
<1>1. Active(i) /\ UNCHANGED <<showHidden, due, shown, loads, rows>>
  BY DEF Listed, Active
<1>2. /\ state = "LOADING" /\ \A j \in Call \ {i} : ~Active(j)
      /\ listing[i].private => shown = {}
  BY <1>1 DEF InTurn
<1> DEFINE fl == IF ~listing[i].private THEN fileLoaded \ shown ELSE fileLoaded
<1>3. Ends(i) /\ Become("LOADED", hash, cancelled, fl)
  BY <1>2 DEF Listed, Finishes
<1>4. fl \cap shown = {}
  BY <1>2
<1> HIDE DEF fl
<1>5. \A j \in Call : ~Active(j)'
  BY <1>2, <1>3, EndsIs DEF Active, TypeOK
<1>6. InTurn'
  BY <1>5, RestInTurn
<1>7. PICK dropped \in {Unused(shown', listing'), FALSE} :
        /\ state' = IF dropped THEN "NOT_LOADED" ELSE "LOADED"
        /\ hash' = IF dropped THEN NoObject ELSE hash
        /\ fileLoaded' = IF dropped THEN {} ELSE fl
  BY <1>3 DEF Become
<1>8. dropped => shown = {}
  BY <1>1, <1>7 DEF Unused
<1>9. Emptied' /\ ToldAtRest'
  BY <1>1, <1>2, <1>7 DEF Emptied, ToldAtRest
<1>10. ASSUME NEW u \in shown PROVE Follows(u)'
  <2>1. state' = "LOADED" /\ hash' = hash /\ u \notin fileLoaded'
    BY <1>4, <1>7, <1>8
  <2>2. Objects(Known(u))' = Objects(Known(u))
    BY <1>1, <2>1 DEF Objects, Known
  <2> QED  BY <1>1, <1>2, <2>1, <2>2 DEF Follows
<1> QED  BY <1>1, <1>6, <1>9, <1>10

\* A tab hears of the preference: it adds the hidden files to what it shows, or
\* starts anew; no other tab that shows the folder listens.
LEMMA HiddenFollowed ==
  ASSUME TypeOK, Followed, NEW v \in View, HiddenChanged(v)
  PROVE  Followed'
<1> USE DEF Followed
<1> DEFINE fl == fileLoaded \cup {v}  R == [rows EXCEPT ![v] = {}]
           seen == {f \in File : Visible(f)}
<1>1. /\ v \in shown /\ due' = due \ {v} /\ state = "LOADED" /\ shown \cap fileLoaded = {}
      /\ UNCHANGED <<showHidden, shown, loads>>
  BY DEF HiddenChanged, ToldAtRest
<1>2. /\ UNCHANGED <<state, hash, listing>> /\ fileLoaded' = fl \ shown
      /\ rows' = IF showHidden THEN Shown(rows, fl, Objects(Hidden))
                               ELSE Shown(R, fl, Objects(seen))
  BY <1>1 DEF HiddenChanged, Load, LoadHiddens, Starts, DoneLoading, dirVars
<1>3. InTurn' /\ Emptied' /\ ToldAtRest'
  BY <1>1, <1>2 DEF InTurn, Emptied, ToldAtRest, Active
<1>4. ASSUME NEW u \in shown, u # v PROVE Follows(u)'
  <2>1. rows'[u] = rows[u] /\ u \in View
    BY <1>1, <1>2, <1>4 DEF Shown, TypeOK
  <2>2. Objects(Known(u))' = Objects(Known(u))
    BY <1>1, <1>2, <1>4 DEF Objects, Known
  <2> QED  BY <1>1, <1>2, <2>1, <2>2, HasAll DEF Follows
<1>5. Follows(v)'
  <2>1. Objects(Known(v))' = Objects(seen)
    BY <1>1, <1>2 DEF Objects, Known, Visible, TypeOK
  <2>2. CASE showHidden
    <3>1. rows[v] = Objects(File \ Hidden)
      <4>1. Known(v) = File \ Hidden
        BY <2>2 DEF Known, HiddenChanged
      <4> QED  BY <1>1, <4>1 DEF Follows
    <3>2. Objects(File \ Hidden) \cup Objects(Hidden) = Objects(seen)
      BY <2>2 DEF Objects, Visible
    <3>3. rows'[v] = rows[v] \cup Objects(Hidden)
      BY <1>2, <2>2 DEF Shown, TypeOK
    <3> QED  BY <1>1, <1>2, <2>1, <3>1, <3>2, <3>3, HasAll
  <2>3. CASE ~showHidden
    <3>1. rows'[v] = Objects(seen)
      BY <1>2, <2>3 DEF Shown, TypeOK
    <3> QED  BY <1>1, <1>2, <2>1, <3>1, HasAll
  <2> QED  BY <2>2, <2>3
<1> QED  BY <1>1, <1>3, <1>4, <1>5

\* A tab comes to the folder, or reloads it while no other tab shows it.
LEMMA ComesFollowed ==
  ASSUME TypeOK, LoadingHasListing, Followed, mishaps' = {},
         NEW v \in View, NewTab(v) \/ Navigate(v) \/ Reload(v)
  PROVE  Followed'
<1> USE DEF Followed
<1>1. ~AnyActive
  BY DEF NewTab, Navigate, Reload, Impatience
<1>2. \A i \in Call : ~Active(i)'
  BY <1>1, CancelKeeps
     DEF NewTab, Navigate, Reload, Cancel, dirVars, AnyActive, Active, TypeOK
<1>3. InTurn'
  BY <1>2, RestInTurn
<1>4. /\ due = {} /\ UNCHANGED <<showHidden, due>>
      /\ shown' = shown \cup {v} /\ fileLoaded' = fileLoaded \cup {v}
      /\ rows' = [rows EXCEPT ![v] = {}]
      /\ \A u \in View \ {v} : loads'[u] = loads[u]
      /\ loads'[v] > 0
  BY DEF NewTab, Navigate, Reload, May, Connect, Schedule, TypeOK
<1>5. CASE UNCHANGED <<state, hash>> /\ state # "LOADING"
  <2>1. Emptied' /\ ToldAtRest'
    BY <1>4, <1>5 DEF Emptied, ToldAtRest
  <2>2. Follows(v)'
    BY <1>4, <1>5, AwaitsLoad DEF Emptied, TypeOK, States
  <2>3. ASSUME NEW u \in shown, u # v PROVE Follows(u)'
    <3>1. u \in View /\ rows'[u] = rows[u] /\ loads'[u] = loads[u] /\ loads[u] \in Nat
      BY <1>4, <2>3 DEF TypeOK
    <3>2. u \in fileLoaded' <=> u \in fileLoaded
      BY <1>4, <2>3
    <3> QED  BY <1>4, <1>5, <3>1, <3>2, StillFollows
  <2> QED  BY <1>3, <1>4, <2>1, <2>2, <2>3
<1>6. CASE Reload(v)
  <2>1. shown = {v} /\ hash' = NoObject
    BY <1>6 DEF Reload
  <2>2. Follows(v)'
    BY <1>4, <2>1, AwaitsLoad DEF TypeOK
  <2>3. Emptied' /\ ToldAtRest' /\ shown' = {v}
    BY <1>4, <2>1 DEF Emptied, ToldAtRest
  <2> QED  BY <1>3, <2>2, <2>3
<1>7. CASE NewTab(v) \/ Navigate(v)
  BY <1>1, <1>5, <1>7 DEF NewTab, Navigate, dirVars, LoadingHasListing, AnyActive
<1> QED  BY <1>6, <1>7

\* A tab goes while nothing is read; the folder may be dropped after the last one.
LEMMA LeavesFollowed ==
  ASSUME TypeOK, LoadingHasListing, Followed, mishaps' = {},
         NEW v \in View, Leave(v) \/ CloseTab(v)
  PROVE  Followed'
<1> USE DEF Followed
<1>1. ~AnyActive /\ state # "LOADING"
  BY DEF Leave, CloseTab, Impatience, LoadingHasListing, AnyActive
<1>2. \A i \in Call : ~Active(i)'
  BY <1>1, CancelKeeps DEF Leave, CloseTab, AnyActive, Active, TypeOK
<1>3. InTurn'
  BY <1>2, RestInTurn
<1>4. /\ due = {} /\ shown' = shown \ {v} /\ rows' = [rows EXCEPT ![v] = {}]
      /\ UNCHANGED <<showHidden, due, loads>>
  BY DEF Leave, CloseTab, May
<1>5. PICK fl \in {fileLoaded \ {v}, fileLoaded} : Become(state, hash, TRUE, fl)
  BY DEF Leave, CloseTab
<1>6. PICK dropped \in {Unused(shown', listing'), FALSE} :
        /\ state' = IF dropped THEN "NOT_LOADED" ELSE state
        /\ hash' = IF dropped THEN NoObject ELSE hash
        /\ fileLoaded' = IF dropped THEN {} ELSE fl
  BY <1>5 DEF Become
<1>7. Emptied' /\ ToldAtRest'
  BY <1>1, <1>4, <1>6 DEF Emptied, ToldAtRest
<1>8. ASSUME NEW u \in shown, u # v PROVE Follows(u)'
  <2>1. ~dropped
    BY <1>4, <1>6, <1>8 DEF Unused
  <2>2. state' = state /\ hash' = hash /\ (u \in fileLoaded' <=> u \in fileLoaded)
    BY <1>5, <1>6, <1>8, <2>1
  <2>3. u \in View /\ rows'[u] = rows[u] /\ loads'[u] = loads[u] /\ loads[u] \in Nat
    BY <1>4, <1>8 DEF TypeOK
  <2> QED  BY <1>4, <1>8, <2>2, <2>3, StillFollows
<1> QED  BY <1>3, <1>4, <1>7, <1>8

LEMMA NextFollowed ==
  TypeOK /\ LoadingHasListing /\ FollowedOrMishap /\ [Next]_vars => FollowedOrMishap'
<1> SUFFICES ASSUME TypeOK, LoadingHasListing, Followed, [Next]_vars, mishaps' = {}
             PROVE  Followed'
  BY MishapsStay DEF FollowedOrMishap
<1> USE DEF Followed
\* A tab of which nothing changes, when nothing of the folder does.
<1>1. ASSUME UNCHANGED <<state, hash, showHidden, due, shown, fileLoaded, rows>>,
             NEW u \in shown, loads'[u] = loads[u]
      PROVE  Follows(u)'
  BY <1>1, StillFollows DEF TypeOK
<1>2. ASSUME NEW i \in Call, Enumerated(i) PROVE Followed'
  <2>1. Active(i) /\ Continues(i, File) /\ Become(state, hash, cancelled, fileLoaded)
    BY <1>2 DEF Enumerated, Active
  <2>2. /\ state = "LOADING" /\ \A j \in Call \ {i} : ~Active(j)
        /\ hash = NoObject /\ (listing[i].private => shown = {})
    BY <1>2, <2>1 DEF Enumerated, InTurn
  <2>3. /\ listing'[i].pc = "next" /\ listing'[i].left = File
        /\ listing'[i].private = listing[i].private
        /\ \A j \in Call \ {i} : listing'[j] = listing[j]
        /\ state' = state /\ hash' = hash /\ fileLoaded' = fileLoaded
        /\ UNCHANGED <<showHidden, due, shown, loads, rows>>
    BY <1>2, <2>1, <2>2, GoesOn DEF Enumerated
  <2>4. InTurn'
    BY <2>2, <2>3 DEF InTurn, Active, NoObject
  <2>5. Emptied' /\ ToldAtRest'
    BY <2>2, <2>3 DEF Emptied, ToldAtRest
  <2> QED  BY <1>1, <2>3, <2>4, <2>5
<1>3. ASSUME NEW i \in Call, ListError(i) PROVE FALSE
  BY <1>3 DEF ListError
<1>4. ASSUME NEW v \in View, LoadIdle(v) PROVE Followed'
  <2>1. due = {} /\ UNCHANGED <<showHidden, due, shown>>
    BY <1>4 DEF LoadIdle
  <2>2. CASE v \in shown \cup closed
    BY <1>4, <2>1, <2>2, LoadFollowed DEF LoadIdle
  <2>3. CASE v \notin shown \cup closed
    <3>1. /\ UNCHANGED <<state, hash, listing, fileLoaded, rows>>
          /\ \A u \in shown : loads'[u] = loads[u]
      BY <1>4, <2>3 DEF LoadIdle, dirVars, TypeOK
    <3>2. InTurn' /\ Emptied' /\ ToldAtRest'
      BY <2>1, <3>1 DEF InTurn, Emptied, ToldAtRest, Active, NoObject
    <3> QED  BY <1>1, <2>1, <3>1, <3>2
  <2> QED  BY <2>2, <2>3
<1>5. CASE ToggleHidden
  <2>1. /\ ~AnyActive /\ due = {} /\ \A v \in View : loads[v] = 0
        /\ showHidden' = ~showHidden /\ due' = shown
        /\ UNCHANGED <<state, hash, listing, shown, fileLoaded, rows, loads>>
    BY <1>5 DEF ToggleHidden, Quiet, dirVars, viewVars
  <2>2. state # "LOADING" /\ \A u \in shown : u \notin fileLoaded
    BY <2>1 DEF LoadingHasListing, AnyActive, Follows, TypeOK
  <2>3. shown # {} => state = "LOADED"
    BY <2>2 DEF Follows, TypeOK, States
  <2>4. InTurn' /\ Emptied' /\ ToldAtRest'
    BY <2>1, <2>2, <2>3 DEF InTurn, Emptied, ToldAtRest, Active, AnyActive, NoObject
  <2>5. ASSUME NEW u \in shown PROVE Follows(u)'
    <3>1. Known(u)' = Known(u)
      BY <2>1 DEF Known, TypeOK
    <3>2. Objects(Known(u))' = Objects(Known(u))
      BY <2>1, <3>1 DEF Objects
    <3> QED  BY <2>1, <2>2, <3>2 DEF Follows
  <2> QED  BY <2>1, <2>4, <2>5
<1>6. CASE Complete
  <2>1. /\ ~AnyActive /\ \A v \in View : loads[v] = 0
        /\ UNCHANGED <<hash, showHidden, due, shown, fileLoaded, rows, loads>>
    BY <1>6 DEF Complete, Quiet, viewVars
  <2>2. CASE state = "NOT_LOADED"
    <3>1. shown = {}
      BY <2>1, <2>2 DEF Follows, TypeOK
    <3>2. InTurn' /\ Emptied' /\ state' = "LOADING"
      BY <1>6, <2>1, <2>2, <3>1, StartsInTurn DEF Complete
    <3> QED  BY <2>1, <2>2, <3>1, <3>2 DEF ToldAtRest
  <2>3. CASE state # "NOT_LOADED"
    <3>1. UNCHANGED <<state, listing>>
      BY <1>6, <2>3 DEF Complete
    <3>2. InTurn' /\ Emptied' /\ ToldAtRest'
      BY <2>1, <3>1 DEF InTurn, Emptied, ToldAtRest, Active, NoObject
    <3> QED  BY <1>1, <2>1, <3>1, <3>2
  <2> QED  BY <2>2, <2>3
<1>7. CASE UNCHANGED vars
  <2>1. InTurn' /\ Emptied' /\ ToldAtRest'
    BY <1>7 DEF vars, dirVars, viewVars, InTurn, Emptied, ToldAtRest, Active, NoObject
  <2> QED  BY <1>1, <1>7, <2>1 DEF vars, dirVars, viewVars
<1> QED
  BY <1>2, <1>3, <1>4, <1>5, <1>6, <1>7, ReadFollowed, ListedFollowed, HiddenFollowed,
     ComesFollowed, LeavesFollowed DEF Next, Thread, User

LEMMA AlwaysFollowed == Spec => []FollowedOrMishap
<1>1. Init => FollowedOrMishap
  <2>1. Idle("none").pc = "none"
    BY DEF Idle
  <2> QED  BY <2>1 DEF Init, FollowedOrMishap, Followed, InTurn, Emptied, ToldAtRest, Active
<1> QED  BY <1>1, NextFollowed, TypeCorrect, LoadingIsListed, PTL DEF Spec

\* The rows of the tabs that show the folder are those of the files it keeps alive,
\* through every reload, cancellation, change of the preference and dropping from
\* the cache, as long as nobody breaks in on a listing, reloads the folder under
\* another tab, or has it read again after a failure.
THEOREM RowsAreAlive == Spec => []RowsAlive
<1>1. TypeOK /\ FollowedOrMishap => RowsAlive
  <2> SUFFICES ASSUME TypeOK, Followed, NEW v \in shown, NEW r \in rows[v]
               PROVE  hash[r[1]] = r[2]
    BY DEF FollowedOrMishap, RowsAlive
  <2> QED  BY DEF Followed, Follows, Objects
<1> QED  BY <1>1, AlwaysFollowed, TypeCorrect, PTL

\* When nothing is under way every tab that shows the loaded folder shows each
\* file that is to be seen once, and nothing else, under the same conditions.
THEOREM RowsAreComplete == Spec => []RowsComplete
<1>1. TypeOK /\ LoadedComplete /\ FollowedOrMishap => RowsComplete
  <2> SUFFICES ASSUME TypeOK, LoadedComplete, Followed, Quiet, state = "LOADED",
                      mishaps = {}, NEW v \in shown
               PROVE  /\ {r[1] : r \in rows[v]} = {f \in File : Visible(f)}
                      /\ \A r, s \in rows[v] : r[1] = s[1] => r = s
    BY DEF FollowedOrMishap, RowsComplete
  <2> DEFINE seen == {f \in File : Visible(f)}
  <2>1. rows[v] = Objects(Known(v)) /\ Known(v) = seen
    BY DEF Followed, Follows, Quiet, Known, Visible, TypeOK
  <2>2. \A f \in seen : hash[f] # 0
    BY DEF LoadedComplete
  <2>3. rows[v] = {<<f, hash[f]>> : f \in seen}
    BY <2>1, <2>2 DEF Objects
  <2> HIDE DEF seen
  <2>4. {r[1] : r \in rows[v]} = seen
    <3>1. \A f \in seen : <<f, hash[f]>> \in rows[v] /\ <<f, hash[f]>>[1] = f
      BY <2>3
    <3>2. \A r \in rows[v] : r[1] \in seen
      BY <2>3
    <3> QED  BY <3>1, <3>2
  <2>5. \A r, s \in rows[v] : r[1] = s[1] => r = s
    BY <2>3
  <2> QED  BY <2>4, <2>5 DEF seen
<1> QED  BY <1>1, AlwaysFollowed, LoadedIsComplete, TypeCorrect, PTL
=============================================================================
