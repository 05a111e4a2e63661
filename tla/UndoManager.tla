----------------------------- MODULE UndoManager -----------------------------
(***************************************************************************)
(* The undo stack of libcore/marlin-undostack-manager.c, and the part of   *)
(* every file operation that talks to it: the job asks is_undo_redo when   *)
(* it is created, carries an undo record while it runs, and hands the      *)
(* record over in finalize_common when it is done.                         *)
(*                                                                         *)
(* The queue holds one action per recorded operation, the newest at its    *)
(* head; `index` separates the undone actions (before it) from the others. *)
(* An undo or a redo that needs a job of its own locks its action until    *)
(* the job calls undo_redo_done_transfer_callback.  Everything runs in the *)
(* main loop, so each handler is one step; what interleaves are handlers.  *)
(***************************************************************************)
EXTENDS Naturals, Sequences, FiniteSets, Functions

CONSTANTS
  Op,            \* the file operations the user may start
  Kinds,         \* the kinds of operations (MarlinUndoActionType) of a run
  Uri,           \* the places that operations trash from or write to
  InitLevels,    \* "undo-levels" at construction (10 in the program)
  LevelChoices,  \* values later written to the "undo-levels" property
  ConfirmDelete  \* the "confirm-delete" property (FALSE in the program)

\* Kinds whose undo removes what was made, a job only if deletion is confirmed.
CreatedKinds == {"copy", "duplicate", "createlink", "createemptyfile", "createfolder"}
\* Kinds whose undo always runs a job.
MovedKinds == {"move", "restorefromtrash"}
\* Kinds that fall into the default branch of undo and redo.
DefaultKinds == {"createfilefromtemplate"}
AllKinds == CreatedKinds \cup MovedKinds \cup DefaultKinds \cup {"movetotrash"}
\* Kinds whose actions keep a destination list and a destination directory.
TransferKinds == {"copy", "duplicate", "createlink", "move", "restorefromtrash"}

ASSUME UndoAssumption ==
  /\ Kinds \subseteq AllKinds
  /\ InitLevels \in Nat \ {0}
  /\ LevelChoices \subseteq Nat
  /\ ConfirmDelete \in BOOLEAN

VARIABLES
  stack,      \* priv->stack, head first
  index,      \* priv->index
  levels,     \* priv->undo_levels
  flag,       \* priv->undo_redo_flag
  kind,       \* action->type of the operation's record
  uris,       \* the trashed keys, or the destinations, of the record
  phase,      \* where the record of an operation is, see Phases
  locked,     \* action->locked
  freeLater,  \* action->freed
  inFlight,   \* actions whose undo or redo job has not called back yet
  undone,     \* history: actions last undone rather than done or redone
  menu,       \* what the last request-menu-update enabled in the windows
  fault       \* the process read a NULL or a released action

undoVars == <<stack, index, levels, flag, kind, uris, phase, locked, freeLater,
              inFlight, undone, menu, fault>>

\* Not started; running with or without a record; over without an action;
\* the action exists; its memory was released.
Phases == {"idle", "recording", "unrecorded", "over", "live", "released"}

UndoTypeOK ==
  /\ stack \in Seq(Op)
  /\ index \in Nat
  /\ levels \in Nat \ {0}
  /\ flag \in BOOLEAN
  /\ kind \in [Op -> AllKinds]
  /\ uris \in [Op -> SUBSET Uri]
  /\ phase \in [Op -> Phases]
  /\ locked \in [Op -> BOOLEAN]
  /\ freeLater \in [Op -> BOOLEAN]
  /\ inFlight \subseteq Op
  /\ undone \subseteq Op
  /\ menu \in [undo : BOOLEAN, redo : BOOLEAN]
  /\ fault \in BOOLEAN

-----------------------------------------------------------------------------
\* get_next_undo_action and get_next_redo_action found an unlocked action.
CanUndo(st, ix, lk) == ix < Len(st) /\ ~lk[st[ix + 1]]
CanRedo(st, ix, lk) == st # <<>> /\ ix > 0 /\ ix <= Len(st) /\ ~lk[st[ix]]

\* do_menu_update at the end of a handler: a window's undo action is enabled
\* when the next action has a label, and every kind has one.
Menu(st, ix, lk) == [undo |-> CanUndo(st, ix, lk), redo |-> CanRedo(st, ix, lk)]
\* Mutant: the update is sent before the queue changes.
MenuUpdateEarly == menu' = Menu(stack, index, locked)
MenuUpdate == menu' = Menu(stack', index', locked')

\* clear_redo_actions: the undone actions leave the head of the queue and are
\* released at once, whether they are locked or not.
\* Mutant: the undone actions stay.
RedoKept == stack
RedoCleared == SubSeq(stack, index + 1, Len(stack))
Cleared == {stack[i] : i \in {i \in DOMAIN stack : i <= index}}

\* stack_fix_size: the oldest actions beyond n leave the tail of the queue.
Trimmed(st, n) == SubSeq(st, 1, IF Len(st) > n THEN n ELSE Len(st))
Evicted(st, n) == {st[i] : i \in {i \in DOMAIN st : i > n}}
\* stack_clear_n_oldest: a locked action is only marked.
EvictedUnlocked(st, n) == {a \in Evicted(st, n) : ~locked[a]}
EvictedLocked(st, n) == {a \in Evicted(st, n) : locked[a]}

Released(S) == [a \in Op |-> IF a \in S THEN "released" ELSE phase[a]]
Marked(S) == [a \in Op |-> a \in S \/ freeLater[a]]

-----------------------------------------------------------------------------
UndoInit ==
  /\ stack = <<>>
  /\ index = 0
  /\ levels = InitLevels
  /\ flag = FALSE
  /\ kind \in [Op -> Kinds]
  /\ uris = [o \in Op |-> {}]
  /\ phase = [o \in Op |-> "idle"]
  /\ locked = [o \in Op |-> FALSE]
  /\ freeLater = [o \in Op |-> FALSE]
  /\ inFlight = {}
  /\ undone = {}
  /\ menu = [undo |-> FALSE, redo |-> FALSE]
  /\ fault = FALSE

\* A job is created: it gets an undo record unless an undo or redo is on.
StartOp(o) ==
  /\ phase[o] = "idle"
  /\ phase' = [phase EXCEPT ![o] = IF flag THEN "unrecorded" ELSE "recording"]
  /\ UNCHANGED <<stack, index, levels, flag, kind, uris, locked, freeLater,
                 inFlight, undone, menu, fault>>

\* finalize_common with no record, or with one that no file made valid.
FinishWithoutAction(o) ==
  /\ phase[o] \in {"recording", "unrecorded"}
  /\ phase' = [phase EXCEPT ![o] = "over"]
  /\ UNCHANGED <<stack, index, levels, flag, kind, uris, locked, freeLater,
                 inFlight, undone, menu, fault>>

\* finalize_common with a valid record: add_action, stack_push_action.
AddAction(o) ==
  LET pushed == <<o>> \o RedoCleared IN
  /\ phase[o] = "recording"
  /\ \E us \in (SUBSET Uri) \ {{}} : uris' = [uris EXCEPT ![o] = us]
  /\ stack' = Trimmed(pushed, levels)
  /\ index' = 0
  /\ phase' = [Released(Cleared \cup EvictedUnlocked(pushed, levels))
                 EXCEPT ![o] = "live"]
  /\ freeLater' = Marked(EvictedLocked(pushed, levels))
  /\ UNCHANGED locked
  /\ MenuUpdate
  /\ UNCHANGED <<levels, flag, kind, inFlight, undone, fault>>

-----------------------------------------------------------------------------
\* How the undo, and the redo, of a kind goes on after the queue was scrolled.
UndoRunsJob(k) == k \in MovedKinds \/ (k \in CreatedKinds /\ ConfirmDelete)
RedoRunsJob(k) == k \notin DefaultKinds

\* Mutant: no branch of the switch lowers the flag again.
DispatchKeepsFlag(a, runsJob) ==
  /\ locked' = [locked EXCEPT ![a] = runsJob \/ kind[a] \in DefaultKinds]
  /\ flag' = TRUE
  /\ inFlight' = IF runsJob THEN inFlight \cup {a} ELSE inFlight

\* The kinds that start a job stay locked and set the flag; the default branch
\* keeps the lock and clears the flag; the others call back before returning.
Dispatch(a, runsJob) ==
  /\ locked' = [locked EXCEPT ![a] = runsJob \/ kind[a] \in DefaultKinds]
  /\ flag' = runsJob
  /\ inFlight' = IF runsJob THEN inFlight \cup {a} ELSE inFlight

Undo ==
  LET a == stack[index + 1] IN
  /\ menu.undo
  /\ CanUndo(stack, index, locked)
  /\ index' = index + 1
  /\ Dispatch(a, UndoRunsJob(kind[a]))
  /\ undone' = undone \cup {a}
  /\ UNCHANGED stack
  /\ MenuUpdate
  /\ UNCHANGED <<levels, kind, uris, phase, freeLater, fault>>

Redo ==
  LET a == stack[index] IN
  /\ menu.redo
  /\ CanRedo(stack, index, locked)
  /\ index' = index - 1
  /\ Dispatch(a, RedoRunsJob(kind[a]))
  /\ undone' = undone \ {a}
  /\ UNCHANGED stack
  /\ MenuUpdate
  /\ UNCHANGED <<levels, kind, uris, phase, freeLater, fault>>

\* undo_redo_done_transfer_callback, called by the job of the undo or redo.
\* The action is read first, and again (action->manager) after it may have
\* been released: a released action still reads as it was, or faults.
TransferDone(a) ==
  LET free == freeLater[a] /\ phase[a] = "live" IN
  /\ a \in inFlight
  /\ inFlight' = inFlight \ {a}
  /\ phase' = IF free THEN [phase EXCEPT ![a] = "released"] ELSE phase
  /\ \/ /\ locked' = IF free THEN locked ELSE [locked EXCEPT ![a] = FALSE]
        /\ flag' = FALSE
        /\ UNCHANGED <<stack, index>>
        /\ MenuUpdate
        /\ UNCHANGED fault
     \/ /\ phase'[a] = "released"
        /\ fault' = TRUE
        /\ UNCHANGED <<stack, index, locked, flag, menu>>
  /\ UNCHANGED <<levels, kind, uris, freeLater, undone>>

-----------------------------------------------------------------------------
\* get_all_trashed_items lists the trashed uris of the newest trash action
\* first, and is_destination_uri_action_partof_trashed compares that first one
\* alone: its inner loop has consumed the destinations after it.
TrashPositions(st) == {i \in DOMAIN st : kind[st[i]] = "movetotrash"}
FirstTrashed(st) ==
  LET newest == CHOOSE i \in TrashPositions(st) :
                  \A j \in TrashPositions(st) : i <= j
  IN IF TrashPositions(st) = {} THEN {} ELSE uris[st[newest]]

\* The sequences that g_queue_remove can make of st, in the same order.
Kept(st, R) ==
  {s \in UNION {[1..n -> Range(st)] : n \in 0..Len(st)} :
     /\ Range(s) = Range(st) \ R
     /\ \A i, j \in DOMAIN s : i < j =>
          \E p, q \in DOMAIN st : p < q /\ st[p] = s[i] /\ st[q] = s[j]}

\* empty_trash_job_done: marlin_undo_manager_trash_has_emptied.  The actions it
\* takes out of the queue are not released.
TrashHasEmptied ==
  LET st == RedoCleared
      restored(u) == {a \in Range(st) : kind[a] \in TransferKinds /\ u \in uris[a]}
      trash == {a \in Range(st) : kind[a] = "movetotrash"}
  IN
  /\ stack # <<>>
  /\ \/ /\ FirstTrashed(st) = {}
        /\ stack' = st
     \/ \E u \in FirstTrashed(st) : stack' \in Kept(st, trash \cup restored(u))
  /\ index' = 0
  /\ phase' = Released(Cleared)
  /\ UNCHANGED locked
  /\ MenuUpdate
  /\ UNCHANGED <<levels, flag, kind, uris, freeLater, inFlight, undone, fault>>

\* Only a new, positive number of levels is taken.
NewLevel(n) == n > 0 /\ n # levels

\* marlin_undo_manager_set_property: the menu update reads the action next to
\* the index, which is NULL once the index is off the queue.
SetUndoLevels(n) ==
  /\ NewLevel(n)
  /\ levels' = n
  /\ index' = IF Len(stack) > n /\ index > n + 1 THEN n + 1 ELSE index
  /\ stack' = Trimmed(stack, n)
  /\ phase' = Released(EvictedUnlocked(stack, n))
  /\ freeLater' = Marked(EvictedLocked(stack, n))
  /\ UNCHANGED locked
  /\ IF stack' # <<>> /\ index' > Len(stack')
       THEN fault' = TRUE /\ UNCHANGED menu
       ELSE MenuUpdate /\ UNCHANGED fault
  /\ UNCHANGED <<flag, kind, uris, inFlight, undone>>

-----------------------------------------------------------------------------
UndoNext ==
  /\ ~fault
  /\ \/ \E o \in Op : StartOp(o) \/ FinishWithoutAction(o) \/ AddAction(o)
     \/ Undo
     \/ Redo
     \/ \E a \in Op : TransferDone(a)
     \/ TrashHasEmptied
     \/ \E n \in LevelChoices : SetUndoLevels(n)

UndoSpec == UndoInit /\ [][UndoNext]_undoVars

\* Jobs end: the I/O of an undo or redo job returns, fails or is cancelled.
UndoFairSpec == UndoSpec /\ \A a \in Op : WF_undoVars(~fault /\ TransferDone(a))

-----------------------------------------------------------------------------
(* Properties *)

\* The index splits the queue: before it exactly the undone actions, after it
\* exactly those that are done, each action once, at most `levels` of them, and
\* none whose memory was released (scroll_left and scroll_right hand the action
\* at the index to the file operations without looking at what it is).
UndoneBeforeIndex ==
  ~fault =>
  /\ index <= Len(stack)
  /\ Len(stack) <= levels
  /\ \A i, j \in DOMAIN stack : stack[i] = stack[j] => i = j
  /\ \A i \in DOMAIN stack : /\ phase[stack[i]] = "live"
                             /\ stack[i] \in undone <=> i <= index

\* While the job of a redo runs, whatever operations finish or trash is emptied
\* meanwhile, its action is not released under the callback: the queue only
\* drops it from the tail, where the lock defers the release (lines 1121-1129).
RedoInFlightAlive == \A a \in inFlight \ undone : phase[a] = "live"

\* The windows enable undo and redo exactly when the queue can: no handler that
\* moves the index, pushes or unlocks forgets its do_menu_update.
MenuInSync == ~fault => menu = Menu(stack, index, locked)

\* The flag that keeps operations from being recorded is only up while the job
\* of an undo or redo runs.
FlagOnlyInFlight == ~fault /\ flag => inFlight # {}

\* The flag goes down again: recording resumes after every undo and redo.
RecordingResumes == flag ~> (~flag \/ fault)

=============================================================================
