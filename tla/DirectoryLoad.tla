----------------------------- MODULE DirectoryLoad -----------------------------
(***************************************************************************)
(* How the views load a local folder: GOF.Directory.Async (load,           *)
(* list_directory, load_hiddens, cancel and clear_directory_info of        *)
(* libcore/gof-directory-async.vala), shared by all the tabs that show the *)
(* folder, and the handlers with which each tab follows it                 *)
(* (src/View/AbstractDirectoryView.vala, Slot.vala, ViewContainer.vala).   *)
(*                                                                         *)
(* Everything runs in the main loop, but list_directory is suspended while *)
(* a thread reads the folder, and a second one may be started meanwhile.   *)
(* Each call of it makes new GOF.File objects: a row <<f, i>> is the one   *)
(* that call i made for file f.  The contents of the folder do not change  *)
(* here; see DirectoryChanges.                                             *)
(***************************************************************************)
EXTENDS Naturals, FiniteSets, FiniteSetsExt

CONSTANTS
  View,        \* the tabs
  File,        \* the files in the folder
  Hidden,      \* those that are hidden
  Ops,         \* what the users do, a subset of Operations
  Faults,      \* reading the folder may fail
  MaxListings, \* bound: how often list_directory is called
  MaxLoads     \* bound: idle sources of load_slot_directory per tab

Operations == {"tab", "navigate", "leave", "close", "reload", "hidden",
               "complete"}

ASSUME LoadAssumption ==
  /\ Hidden \subseteq File
  /\ Ops \subseteq Operations
  /\ Faults \in BOOLEAN
  /\ MaxListings \in Nat /\ MaxLoads \in Nat

Call == 1 .. MaxListings
Row == File \X Call

VARIABLES
  state,       \* of the folder
  cancelled,   \* its cancellable
  hash,        \* file_hash: the call that made the object, 0 for no object
  listing,     \* the calls of list_directory
  showHidden,  \* the preference
  due,         \* tabs that have still to hear that it changed
  shown,       \* the tabs that show the folder; their handlers are connected
  fileLoaded,  \* the tabs whose file_loaded handler is connected
  frozen,      \* the tabs whose tree waits for done_loading
  loads,       \* idle sources of load_slot_directory
  rows,        \* the rows of each tab
  closed,      \* tabs that were closed before their idle sources ran
  mishaps      \* history: what has happened of Mishaps

dirVars == <<state, cancelled, hash, listing>>
viewVars == <<shown, fileLoaded, frozen, rows>>
vars == <<dirVars, showHidden, due, viewVars, loads, closed, mishaps>>

States == {"NOT_LOADED", "LOADING", "LOADED"}
\* A call: not made yet; suspended in enumerate_children_async or in
\* next_files_async; over.  What it has still to read, whether the operation it
\* waits for was cancelled at some time, and whether it serves a callback and
\* not the tabs.
Listing == [pc : {"none", "enumerate", "next", "ended"},
            left : SUBSET File, hit : BOOLEAN, private : BOOLEAN]

\* The users did something to the folder while it was being read; it was reloaded
\* then, or while another tab showed it; reading it failed.
Mishaps == {"impatient", "superseded", "shared", "failed"}

TypeOK ==
  /\ state \in States
  /\ cancelled \in BOOLEAN
  /\ hash \in [File -> 0 .. MaxListings]
  /\ listing \in [Call -> Listing]
  /\ showHidden \in BOOLEAN
  /\ {due, shown, fileLoaded, frozen, closed} \subseteq SUBSET View
  /\ loads \in [View -> 0 .. MaxLoads]
  /\ rows \in [View -> SUBSET Row]
  /\ mishaps \subseteq Mishaps

Visible(f) == f \notin Hidden \/ showHidden
Active(i) == listing[i].pc \in {"enumerate", "next"}
AnyActive == \E i \in Call : Active(i)
Quiet == ~AnyActive /\ due = {} /\ \A v \in View : loads[v] = 0
May(op) == op \in Ops /\ due = {}
Impatience == IF AnyActive THEN {"impatient"} ELSE {}

\* The bound: there is a call left for n more loads and for all that wait.
Room(n) ==
  MapThenSumSet(LAMBDA v : loads[v], View) + n
    <= Cardinality({i \in Call : listing[i].pc = "none"})

NoObject == [f \in File |-> 0]
Idle(p) == [pc |-> p, left |-> {}, hit |-> FALSE, private |-> FALSE]

Init ==
  /\ state = "NOT_LOADED" /\ cancelled = FALSE
  /\ hash = NoObject
  /\ listing = [i \in Call |-> Idle("none")]
  /\ showHidden = FALSE /\ due = {}
  /\ shown = {} /\ fileLoaded = {} /\ frozen = {}
  /\ loads = [v \in View |-> 0]
  /\ rows = [v \in View |-> {}]
  /\ closed = {}
  /\ mishaps = {}

-----------------------------------------------------------------------------
(* GOF.Directory.Async *)

\* file_loaded is emitted: the rows of the tabs that listen.
Shown(R, listeners, new) ==
  [u \in View |-> IF u \in listeners THEN R[u] \cup new ELSE R[u]]

\* The object of every file in the hash.
Objects(fs) == {<<f, hash[f]>> : f \in {g \in fs : hash[g] # 0}}

\* done_loading is emitted: on_directory_done_loading of the tabs.
DoneLoading(listeners) ==
  /\ fileLoaded' = listeners \ shown
  /\ frozen' = frozen \ shown

\* cancel: what list_directory waits for is told.
CancelListings ==
  [i \in Call |-> [listing[i] EXCEPT !.hit = @ \/ Active(i)]]
Cancel == cancelled' = TRUE /\ listing' = CancelListings

\* When no tab, nor an idle source of one that was closed, nor a call refers to the
\* folder any more, toggle_ref_notify takes it out of the cache and a new one is
\* made for the next tab; unless something else has it still (the location bar,
\* an expanded row, a properties window).
Unused(viewers, calls) ==
  viewers = {} /\ closed' = {} /\ \A i \in Call : calls[i].pc \in {"none", "ended"}
Become(st, h, c, listeners) ==
  \E dropped \in {Unused(shown', listing'), FALSE} :
    /\ state' = IF dropped THEN "NOT_LOADED" ELSE st
    /\ hash' = IF dropped THEN NoObject ELSE h
    /\ cancelled' = (c /\ ~dropped)
    /\ fileLoaded' = IF dropped THEN {} ELSE listeners

\* list_directory, up to where it first waits.
ListDirectory(private) ==
  /\ \E i \in Call :
       /\ listing[i].pc = "none" /\ \A j \in 1 .. (i - 1) : listing[j].pc # "none"
       /\ listing' = [listing EXCEPT
            ![i] = [Idle("enumerate") EXCEPT !.private = private]]
  /\ state' = "LOADING"

\* load, called when the rows are R and `listeners` listen for file_loaded.
\* Mutant: a folder that is loading is listed once more.
StartsAgain == state # "LOADED"
Starts == state = "NOT_LOADED"
Load(R, listeners) ==
  /\ cancelled' = FALSE
  /\ \/ /\ Starts
        /\ ListDirectory(FALSE)
        /\ rows' = R /\ fileLoaded' = listeners
        /\ UNCHANGED <<hash, frozen>>
     \/ /\ state = "LOADING" /\ ~Starts
        /\ rows' = R /\ fileLoaded' = listeners
        /\ UNCHANGED <<state, hash, listing, frozen>>
     \/ /\ state = "LOADED"
        /\ rows' = Shown(R, listeners, Objects({f \in File : Visible(f)}))
        /\ DoneLoading(listeners)
        /\ UNCHANGED <<state, hash, listing>>

\* load_hiddens ends with done_loading whatever it started.
LoadHiddens(listeners) ==
  \/ /\ state = "LOADED"
     /\ rows' = Shown(rows, listeners, Objects(Hidden))
     /\ DoneLoading(listeners)
     /\ UNCHANGED dirVars
  \/ /\ state = "NOT_LOADED"
     /\ cancelled' = FALSE
     /\ ListDirectory(FALSE)
     /\ DoneLoading(listeners)
     /\ UNCHANGED <<hash, rows>>
  \/ /\ state = "LOADING"
     /\ cancelled' = FALSE
     /\ DoneLoading(listeners)
     /\ UNCHANGED <<state, hash, listing, rows>>

\* The loop of list_directory: goes on, or ends for a state it did not leave.
Ends(i) == listing' = [listing EXCEPT ![i] = Idle("ended")]
Continues(i, left) ==
  IF state = "LOADING"
    THEN listing' = [listing EXCEPT ![i] =
           [@ EXCEPT !.pc = "next", !.left = left, !.hit = cancelled]]
    ELSE Ends(i)

\* A call ends with done_loading, or without.
Finishes(i, st, done) ==
  /\ Ends(i)
  /\ Become(st, hash, cancelled,
            IF done /\ ~listing[i].private THEN fileLoaded \ shown ELSE fileLoaded)
  /\ frozen' = IF done /\ ~listing[i].private THEN frozen \ shown ELSE frozen

\* What a call waits for succeeds only if the cancellable is not set at last,
\* and may fail if it was set for a time.
Succeeds(i) == due = {} /\ ~cancelled
Fails(i) == due = {} /\ (Faults \/ cancelled \/ listing[i].hit)

Enumerated(i) ==
  /\ listing[i].pc = "enumerate" /\ Succeeds(i)
  /\ UNCHANGED <<showHidden, due, shown, frozen, loads, closed, rows, mishaps>>
  /\ Continues(i, File)
  /\ Become(state, hash, cancelled, fileLoaded)

NextFiles(i) ==
  /\ listing[i].pc = "next" /\ Succeeds(i)
  /\ UNCHANGED <<showHidden, due, shown, frozen, loads, closed, mishaps>>
  /\ \E fs \in SUBSET listing[i].left \ {{}} :
       /\ Continues(i, listing[i].left \ fs)
       /\ Become(state, [f \in File |-> IF f \in fs THEN i ELSE hash[f]],
                 cancelled, fileLoaded)
       /\ rows' = Shown(rows, IF listing[i].private THEN {} ELSE fileLoaded,
                        {<<f, i>> : f \in {g \in fs : Visible(g)}})

\* The end of the folder.
Listed(i) ==
  /\ listing[i].pc = "next" /\ listing[i].left = {} /\ Succeeds(i)
  /\ UNCHANGED <<showHidden, due, shown, loads, closed, rows, mishaps>>
  /\ IF state = "LOADING" THEN Finishes(i, "LOADED", TRUE)
                          ELSE Finishes(i, state, FALSE)

\* The catch clause.
\* Mutants: what was read counts as the folder; it says nothing to the tabs.
ListErrorLoaded(i) ==
  /\ Active(i) /\ Fails(i)
  /\ UNCHANGED <<showHidden, due, shown, loads, closed, rows>>
  /\ mishaps' = mishaps \cup {"failed"}
  /\ Finishes(i, "LOADED", ~cancelled)
ListErrorQuietly(i) ==
  /\ Active(i) /\ Fails(i)
  /\ UNCHANGED <<showHidden, due, shown, loads, closed, rows>>
  /\ mishaps' = mishaps \cup {"failed"}
  /\ Finishes(i, "NOT_LOADED", FALSE)
ListError(i) ==
  /\ Active(i) /\ Fails(i)
  /\ UNCHANGED <<showHidden, due, shown, loads, closed, rows>>
  /\ mishaps' = mishaps \cup {"failed"}
  /\ Finishes(i, "NOT_LOADED", ~cancelled)

\* load with a callback, for the completion of the location bar, whose folder
\* from_gfile gets from the cache of the tabs.
Complete ==
  /\ May("complete") /\ Room(1)
  /\ mishaps' = mishaps \cup (IF Quiet THEN {} ELSE {"impatient"})
  /\ cancelled' = FALSE
  /\ IF state = "NOT_LOADED" THEN ListDirectory(TRUE) ELSE UNCHANGED <<state, listing>>
  /\ UNCHANGED <<hash, showHidden, due, viewVars, loads, closed>>

-----------------------------------------------------------------------------
(* The tabs *)

\* connect_directory_handlers.
\* Mutant: all but file_loaded.
ConnectQuietly(v, fl) == shown' = shown \cup {v} /\ fileLoaded' = fl
Connect(v, fl) == shown' = shown \cup {v} /\ fileLoaded' = fl \cup {v}

\* load_slot_directory, n times.
Schedule(v, n) ==
  /\ loads[v] + n <= MaxLoads /\ Room(n)
  /\ loads' = [loads EXCEPT ![v] = @ + n]
  /\ UNCHANGED closed

\* A new tab, with a new view.
NewTab(v) ==
  /\ May("tab") /\ v \notin shown /\ loads[v] = 0
  /\ Connect(v, fileLoaded)
  /\ frozen' = frozen \cup {v}
  /\ rows' = [rows EXCEPT ![v] = {}]
  /\ Schedule(v, 1)
  /\ mishaps' = mishaps \cup Impatience
  /\ UNCHANGED <<dirVars, showHidden, due>>

\* The tab goes to the folder from another one: change_directory cancels the
\* folder it comes from and, as the slot has changed already, the one it goes to.
Navigate(v) ==
  /\ May("navigate") /\ v \notin shown \cup closed
  /\ Cancel
  /\ Connect(v, fileLoaded)
  /\ frozen' = frozen \cup {v}
  /\ rows' = [rows EXCEPT ![v] = {}]
  /\ Schedule(v, 1)
  /\ mishaps' = mishaps \cup Impatience
  /\ UNCHANGED <<state, hash, showHidden, due>>

\* The tab goes on to another folder: file_loaded is disconnected only if this
\* one is loading.  The idle source will load the other folder.
Leave(v) ==
  /\ May("leave") /\ v \in shown
  /\ UNCHANGED <<showHidden, due, loads, closed>>
  /\ listing' = CancelListings
  /\ shown' = shown \ {v}
  /\ Become(state, hash, TRUE,
            IF state = "LOADING" THEN fileLoaded \ {v} ELSE fileLoaded)
  /\ frozen' = frozen \ {v}
  /\ rows' = [rows EXCEPT ![v] = {}]
  /\ mishaps' = mishaps \cup Impatience

\* The tab is closed and its view goes away; its idle sources stay.
CloseTab(v) ==
  /\ May("close") /\ v \in shown
  /\ closed' = IF loads[v] > 0 THEN closed \cup {v} ELSE closed
  /\ listing' = CancelListings
  /\ shown' = shown \ {v}
  /\ Become(state, hash, TRUE, fileLoaded \ {v})
  /\ frozen' = frozen \ {v}
  /\ rows' = [rows EXCEPT ![v] = {}]
  /\ mishaps' = mishaps \cup Impatience
  /\ UNCHANGED <<showHidden, due, loads>>

\* ViewContainer.reload and Slot.reload: clear_directory_info, and
\* change_directory from the folder to itself.
Reload(v) ==
  /\ May("reload") /\ v \in shown
  /\ state' = "NOT_LOADED"
  /\ hash' = NoObject
  /\ Cancel
  /\ Connect(v, fileLoaded)
  /\ frozen' = frozen \cup {v}
  /\ rows' = [rows EXCEPT ![v] = {}]
  /\ Schedule(v, 2)
  /\ mishaps' = mishaps \cup Impatience
       \cup (IF AnyActive THEN {"superseded"} ELSE {})
       \cup (IF shown # {v} THEN {"shared"} ELSE {})
  /\ UNCHANGED <<showHidden, due>>

\* An idle source of load_slot_directory runs; that of a closed tab, too.
LoadIdle(v) ==
  /\ due = {} /\ loads[v] > 0
  /\ loads' = [loads EXCEPT ![v] = @ - 1]
  /\ closed' = IF loads[v] = 1 THEN closed \ {v} ELSE closed
  /\ IF v \in shown \cup closed THEN Load(rows, fileLoaded)
                    ELSE UNCHANGED <<dirVars, fileLoaded, frozen, rows>>
  /\ UNCHANGED <<showHidden, due, shown, mishaps>>

\* The preference changes; every view hears of it, one after the other.
ToggleHidden ==
  /\ May("hidden") /\ Room(1)
  /\ mishaps' = mishaps \cup (IF Quiet THEN {} ELSE {"impatient"})
  /\ showHidden' = ~showHidden
  /\ due' = shown
  /\ UNCHANGED <<dirVars, viewVars, loads, closed>>

\* on_show_hidden_files_changed, directory_hidden_changed.
HiddenChanged(v) ==
  /\ v \in due
  /\ due' = due \ {v}
  /\ IF showHidden THEN LoadHiddens(fileLoaded \cup {v})
                   ELSE Load([rows EXCEPT ![v] = {}], fileLoaded \cup {v})
  /\ UNCHANGED <<showHidden, shown, loads, closed, mishaps>>

-----------------------------------------------------------------------------
Thread(i) == Enumerated(i) \/ NextFiles(i) \/ Listed(i) \/ ListError(i)

User ==
  \/ ToggleHidden \/ Complete
  \/ \E v \in View : NewTab(v) \/ Navigate(v) \/ Leave(v) \/ CloseTab(v) \/ Reload(v)

Next ==
  \/ \E i \in Call : Thread(i)
  \/ \E v \in View : LoadIdle(v) \/ HiddenChanged(v)
  \/ User

Spec == Init /\ [][Next]_vars

-----------------------------------------------------------------------------
(* Properties *)

\* A folder that says it is loading has a list_directory at work which will end
\* that state; otherwise load would return at once, for ever.
LoadingHasListing == state = "LOADING" => \E i \in Call : Active(i)

\* What load hands out from the hash of a loaded folder is all of the folder:
\* no list_directory ends in LOADED but the one that read everything into it,
\* unless the folder was reloaded while one was at work.
LoadedComplete ==
  state = "LOADED" /\ "superseded" \notin mishaps => \A f \in File : hash[f] # 0

\* The rows of a tab that shows the folder are those of the GOF.Files that the
\* folder keeps alive: the model of the tree holds no reference of its own.  Not
\* so once another tab reloaded it, it was read again after a failure, or somebody
\* did not wait while it was read.
RowsAlive ==
  mishaps = {} =>
    \A v \in shown : \A r \in rows[v] : hash[r[1]] = r[2]

\* When nothing is under way, a tab that shows a loaded folder shows each file
\* of it that is to be seen once, and nothing else, with the same exceptions.
RowsComplete ==
  Quiet /\ state = "LOADED" /\ mishaps = {} =>
    \A v \in shown :
      /\ {r[1] : r \in rows[v]} = {f \in File : Visible(f)}
      /\ \A r, s \in rows[v] : r[1] = s[1] => r = s

\* No done_loading reaches the tabs while the folder is loading, but from
\* load_hiddens.
NoPrematureDone ==
  [][(\E v \in frozen : v \notin frozen' /\ v \in shown')
       => state' # "LOADING" \/ due' # due]_vars

\* When nothing is under way, no tab waits for done_loading, whatever failed and
\* however often the folder was shared, left and reloaded; but for a folder that was
\* cancelled while it was being read.
NobodyWaits == Quiet /\ "impatient" \notin mishaps => frozen = {}

=============================================================================
