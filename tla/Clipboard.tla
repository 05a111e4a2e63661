------------------------------ MODULE Clipboard ------------------------------
(***************************************************************************)
(* Cutting, copying and pasting files: src/marlin-clipboard-manager.c and  *)
(* the actions of src/View/AbstractDirectoryView.vala that use it.         *)
(*                                                                         *)
(* What is on the clipboard belongs to a program, ours or another, and is  *)
(* asked for when it is needed: the display server tells of a new owner,   *)
(* the manager asks it what it has, and a paste asks it for the files. Gtk *)
(* answers at once while the clipboard is ours; another program's answer   *)
(* comes when it comes.                                                    *)
(***************************************************************************)
EXTENDS Naturals, FiniteSets

CONSTANTS
  Offers,       \* what another program may offer: files to "copy", or "cut", or "text"
  Views,        \* the views files are pasted into
  MaxTransfers, \* bound: files cut or copied here
  MaxForeign,   \* bound: other programs that put something on the clipboard
  MaxPastes     \* bound: pastes asked for

ASSUME ClipboardAssumption ==
  /\ Offers \subseteq {"copy", "cut", "text"}
  /\ {MaxTransfers, MaxForeign, MaxPastes} \subseteq Nat

VARIABLES
  owner,     \* whose the clipboard is, and what another program offers
  files,     \* manager->files is not NULL
  cutted,    \* manager->files_cutted
  canPaste,  \* manager->can_paste
  clearing,  \* the news that we have lost the clipboard are under way
  notices,   \* "owner-change" events under way
  requests,  \* what was asked for and not received
  pasting,   \* the views' pasting_files, FALSE once they are closed
  jobs,      \* the views whose paste has a copy or move job that is not done
  open,      \* the views that are not closed
  alive,     \* the program runs
  counts,    \* history: the transfers, foreign owners and pastes so far
  mishaps    \* history: what happened that the code does not handle

vars == <<owner, files, cutted, canPaste, clearing, notices, requests, pasting,
          jobs, open, alive, counts, mishaps>>
manager == <<files, cutted>>
views == <<pasting, jobs, open, alive>>

\* "overtaken": an answer on what can be pasted came too late to be true.
\* "empty": a paste found nothing.  "freed": a job called back a view that was closed.
Mishaps == {"overtaken", "empty", "freed"}

Nothing == "nothing"
Nobody == [who |-> "nobody", offer |-> Nothing]
Us == [who |-> "us", offer |-> Nothing]
Them(mode) == [who |-> "them", offer |-> mode]
NoView == "none"
HasFiles(data) == data \in {"copy", "cut"}

\* marlin_clipboard_manager_get_callback, while the clipboard is ours.
Ours == IF cutted THEN "cut" ELSE "copy"
OnClipboard == IF owner = Us THEN Ours ELSE owner.offer

Init ==
  /\ owner \in {Nobody} \cup {Them(mode) : mode \in Offers}
  /\ files = FALSE /\ cutted = FALSE
  /\ canPaste = FALSE
  /\ clearing = FALSE /\ notices = 0
  /\ requests = {}
  /\ pasting = [v \in Views |-> FALSE]
  /\ jobs = {} /\ open = Views /\ alive = TRUE
  /\ counts = [transfers |-> 0, foreign |-> 0, pastes |-> 0]
  /\ mishaps = {}

\* After a cut the clipboard is cleared, when it is ours.
ClearsClipboard(cut) ==
  IF cut /\ owner = Us
  THEN owner' = Nobody /\ files' = FALSE /\ notices' = notices + 1
  ELSE UNCHANGED <<owner, files, notices>>

\* Mutant: what could be pasted once still can.
CanPasteOnce(data) == canPaste' = (canPaste \/ HasFiles(data))
\* marlin_clipboard_manager_targets_received.
CanPaste(data) == canPaste' = HasFiles(data)

\* marlin_clipboard_manager_contents_received: a copy or move job that will call
\* the view back if it was there, or a dialog that says that there is nothing to paste.
PasteContents(v, data) ==
  IF HasFiles(data)
  THEN /\ jobs' = jobs \cup {v}
       /\ ClearsClipboard(data = "cut")
       /\ UNCHANGED mishaps
  ELSE /\ mishaps' = mishaps \cup {"empty"}
       /\ UNCHANGED <<jobs, owner, files, notices>>

\* gtk_clipboard_request_contents, when another program has the clipboard or none.
Asks(kind, v) ==
  LET used == {r.n : r \in requests}
      n == CHOOSE k \in 1..(Cardinality(used) + 1) : k \notin used
  IN requests' = requests \cup {[n |-> n, kind |-> kind, view |-> v, of |-> owner,
                                 answered |-> FALSE, data |-> Nothing]}

\* marlin_clipboard_manager_transfer_files: the files of the last transfer are let
\* go, and the clipboard is taken.
Transfer(cut) ==
  /\ counts.transfers < MaxTransfers
  /\ counts' = [counts EXCEPT !.transfers = @ + 1]
  /\ files' = TRUE /\ cutted' = cut
  /\ owner' = Us /\ clearing' = FALSE
  /\ notices' = notices + 1
  /\ UNCHANGED <<canPaste, requests, views, mishaps>>

\* Another program takes the clipboard.
TakenOver(mode) ==
  /\ counts.foreign < MaxForeign
  /\ counts' = [counts EXCEPT !.foreign = @ + 1]
  /\ owner' = Them(mode)
  /\ clearing' = (clearing \/ owner = Us)
  /\ notices' = notices + 1
  /\ UNCHANGED <<manager, canPaste, requests, views, mishaps>>

\* marlin_clipboard_manager_clear_callback.
ClearCallback == clearing /\ clearing' = FALSE /\ files' = FALSE

Cleared ==
  /\ ClearCallback
  /\ UNCHANGED <<owner, cutted, canPaste, notices, requests, views, counts,
                 mishaps>>

\* marlin_clipboard_manager_owner_changed.
OwnerChanged ==
  /\ notices > 0
  /\ notices' = notices - 1
  /\ IF owner = Us THEN CanPaste(Ours) /\ UNCHANGED requests
     ELSE Asks("targets", NoView) /\ UNCHANGED canPaste
  /\ UNCHANGED <<owner, manager, clearing, views, counts, mishaps>>

\* on_common_action_paste_into, marlin_clipboard_manager_paste_files.
Paste(v) ==
  /\ counts.pastes < MaxPastes
  /\ v \in open /\ canPaste /\ ~ pasting[v]
  /\ counts' = [counts EXCEPT !.pastes = @ + 1]
  /\ pasting' = [pasting EXCEPT ![v] = TRUE]
  /\ IF owner = Us THEN PasteContents(v, Ours) /\ UNCHANGED requests
     ELSE Asks("paste", v) /\ UNCHANGED <<owner, files, notices, jobs, mishaps>>
  /\ UNCHANGED <<cutted, canPaste, clearing, open, alive>>

\* The program a request was sent to answers it, or does not within the time Gtk waits.
Answer(r) ==
  /\ ~ r.answered
  /\ \E data \in {r.of.offer, Nothing} :
       requests' = (requests \ {r}) \cup {[r EXCEPT !.answered = TRUE, !.data = data]}
  /\ UNCHANGED <<owner, manager, canPaste, clearing, notices, views, counts,
                 mishaps>>

TargetsReceived(r) ==
  /\ r.answered /\ r.kind = "targets"
  /\ CanPaste(r.data)
  /\ requests' = requests \ {r}
  /\ mishaps' = IF r.of = owner /\ HasFiles(r.data) = HasFiles(OnClipboard)
                THEN mishaps ELSE mishaps \cup {"overtaken"}
  /\ UNCHANGED <<owner, manager, clearing, notices, views, counts>>

ContentsReceived(r) ==
  /\ r.answered /\ r.kind = "paste"
  /\ requests' = requests \ {r}
  /\ PasteContents(IF r.view \in open THEN r.view ELSE NoView, r.data)
  /\ UNCHANGED <<cutted, canPaste, clearing, pasting, open, alive, counts>>

\* Mutant: the view is not told.
NotAgain(v) == UNCHANGED pasting

\* after_pasting_files and its idle function.
MayPasteAgain(v) == pasting' = IF v \notin open THEN pasting ELSE [pasting EXCEPT ![v] = FALSE]

\* A job is done and calls its view back, which may be freed memory by now: then the
\* program may end.
JobDone(v) ==
  /\ jobs' = jobs \ {v}
  /\ MayPasteAgain(v)
  /\ IF v \in Views \ open
     THEN alive' \in BOOLEAN /\ mishaps' = mishaps \cup {"freed"}
     ELSE UNCHANGED <<alive, mishaps>>
  /\ UNCHANGED <<owner, manager, canPaste, clearing, notices, requests, open,
                 counts>>

CloseView(v) ==
  /\ v \in open
  /\ open' = open \ {v}
  /\ pasting' = [pasting EXCEPT ![v] = FALSE]
  /\ UNCHANGED <<owner, manager, canPaste, clearing, notices, requests, jobs, alive,
                 counts, mishaps>>

MainLoop ==
  /\ alive
  /\ \/ Cleared \/ OwnerChanged
     \/ \E r \in requests : Answer(r) \/ TargetsReceived(r) \/ ContentsReceived(r)
     \/ \E v \in jobs : JobDone(v)

User ==
  /\ alive
  /\ \/ \E cut \in BOOLEAN : Transfer(cut)
     \/ \E mode \in Offers : TakenOver(mode)
     \/ \E v \in Views : Paste(v) \/ CloseView(v)

Next == MainLoop \/ User

\* Events and answers are received, at the latest when Gtk stops waiting, and
\* jobs come to their end.
Spec == Init /\ [][Next]_vars
FairSpec == Spec /\ WF_vars(MainLoop)
-----------------------------------------------------------------------------
Quiet == notices = 0 /\ requests = {} /\ ~ clearing

\* When no event, request or answer is under way, the manager knows what can be
\* pasted, and it has files, which the views draw as cut or count as copied,
\* just when the clipboard is ours; but for an answer that was overtaken.
QuietTrue ==
  Quiet /\ counts.transfers + counts.foreign > 0 =>
    /\ files = (owner = Us)
    /\ "overtaken" \in mishaps \/ canPaste = HasFiles(OnClipboard)

\* A view that has pasted can paste again, once the job is done; but for the
\* paste that found nothing on the clipboard, after which its view never can.
PasteEnds ==
  \A v \in Views : pasting[v] ~> (~ pasting[v] \/ "empty" \in mishaps \/ ~ alive)
=============================================================================
