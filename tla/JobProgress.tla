----------------------------- MODULE JobProgress -----------------------------
(***************************************************************************)
(* The progress of the jobs and what the user sees of it:                  *)
(* libcore/marlin-progress-info.c, its manager, src/ProgressUIHandler.vala *)
(* and src/ProgressInfoWidget.vala, and the job that empties the trash,    *)
(* which alone may end in its own thread.                                  *)
(*                                                                         *)
(* A job's thread sets the state of its MarlinProgressInfo under a lock    *)
(* and attaches a source to the main loop: an idle source when the news    *)
(* cannot wait, else a timeout.  The source takes what has been flagged    *)
(* under the lock and emits it without; meanwhile the thread goes on.      *)
(***************************************************************************)
EXTENDS Naturals, FiniteSets

CONSTANTS
  Jobs,       \* the jobs
  TrashJobs,  \* those that empty the trash
  MaxReports, \* bound: the changes of status each job reports
  MaxAsks     \* bound: the dialogs each job shows

ASSUME ProgressAssumption ==
  TrashJobs \subseteq Jobs /\ {MaxReports, MaxAsks} \subseteq Nat

VARIABLES
  thread,     \* where each job's thread is
  asks,       \* how often each job has shown a dialog
  info,       \* the MarlinProgressInfo of each job
  source,     \* its idle_source: "none", "later" or "now"
  main,       \* the source the main loop is dispatching
  infos,      \* the manager's progress_infos
  held,       \* the jobs the application is held for
  timers,     \* the jobs whose two seconds have not passed
  ui,         \* UIHandler: the number of active infos, the window, the indicator
  widgets,    \* the status each InfoWidget shows
  windows,    \* some window of the file manager is open
  running,    \* the program runs
  unlisted    \* the jobs that are counted but have no InfoWidget

progressVars == <<thread, asks, info, source, main, infos, held, timers, ui, widgets,
                  windows, running, unlisted>>
uiVars == <<infos, held, timers, ui, widgets, unlisted>>
program == <<windows, running>>

NoSource == [job |-> "none", kind |-> "none", stage |-> "idle", flags |-> {}]

ProgressInit ==
  /\ thread = [j \in Jobs |-> "none"]
  /\ asks = [j \in Jobs |-> 0]
  /\ info = [j \in Jobs |-> [status |-> 0, started |-> FALSE, finished |-> FALSE,
                             paused |-> FALSE, flags |-> {}]]
  /\ source = [j \in Jobs |-> "none"]
  /\ main = NoSource
  /\ infos = {} /\ held = {} /\ timers = {}
  /\ ui = [active |-> 0, window |-> "none", indicator |-> 0]
  /\ widgets = [j \in {} |-> 0]
  /\ windows = TRUE /\ running = TRUE
  /\ unlisted = {}

\* Mutant: what can wait does not look at what is queued.
QueuedNow(kind, now) == IF now THEN "now" ELSE kind

\* queue_idle: news that cannot wait replaces a timeout, and does not wait for
\* one that is being dispatched.
Queued(kind, now) == IF now THEN "now" ELSE IF kind = "none" THEN "later" ELSE kind

\* A change of the info, flagged and queued, under the lock.
Flag(j, flag, changed) ==
  /\ info' = [info EXCEPT ![j] = [changed EXCEPT !.flags = @ \cup {flag}]]
  /\ source' = [source EXCEPT ![j] = Queued(@, flag # "changed")]

\* init_common: the main loop makes a job and its info, of which the manager and
\* the UIHandler learn at once.
Create(j) ==
  /\ thread[j] = "none" /\ windows /\ main.stage = "idle"
  /\ thread' = [thread EXCEPT ![j] = "new"]
  /\ infos' = infos \cup {j}
  /\ UNCHANGED <<asks, info, source, main, held, timers, ui, widgets, unlisted, program>>

\* The thread begins, a job that empties the trash with confirm_empty_trash.
Start(j) ==
  /\ thread[j] = "new"
  /\ Flag(j, "started", [info[j] EXCEPT !.started = TRUE])
  /\ \/ thread' = [thread EXCEPT ![j] = "work"]
     \/ j \in TrashJobs
        /\ thread' = [thread EXCEPT ![j] = "confirm"]
  /\ UNCHANGED <<asks, main, uiVars, program>>

\* take_status, take_details, set_progress.
Report(j) ==
  /\ thread[j] = "work" /\ info[j].status < MaxReports
  /\ Flag(j, "changed", [info[j] EXCEPT !.status = @ + 1])
  /\ UNCHANGED <<thread, asks, main, uiVars, program>>

\* run_simple_dialog_va pauses the info while the dialog is there.
Ask(j) ==
  /\ \/ thread[j] = "work" /\ j \notin TrashJobs
        /\ asks[j] < MaxAsks
        /\ thread' = [thread EXCEPT ![j] = "ask"]
     \/ thread[j] = "confirm"
        /\ thread' = [thread EXCEPT ![j] = "question"]
  /\ asks' = [asks EXCEPT ![j] = @ + 1]
  /\ info' = [info EXCEPT ![j].paused = TRUE]
  /\ UNCHANGED <<source, main, uiVars, program>>

\* When the user does not want to empty the trash, the thread itself ends the job.
AnswerDialog(j) ==
  /\ thread[j] \in {"ask", "question"}
  /\ info' = [info EXCEPT ![j].paused = FALSE]
  /\ \/ thread' = [thread EXCEPT ![j] = "work"]
     \/ /\ thread[j] = "question"
        /\ thread' = [thread EXCEPT ![j] = "refused"]
  /\ UNCHANGED <<asks, source, main, uiVars, program>>

\* The thread is through with its files, and sends the job's done function to the
\* main loop.
Through(j) ==
  /\ thread[j] = "work"
  /\ thread' = [thread EXCEPT ![j] = "done"]
  /\ UNCHANGED <<asks, info, source, main, uiVars, program>>

\* finalize_common.
Finalize(j) ==
  /\ thread' = [thread EXCEPT ![j] = "over"]
  /\ Flag(j, "finished", [info[j] EXCEPT !.finished = TRUE])
  /\ UNCHANGED <<asks, main, uiVars, program>>

FinishInMain(j) == thread[j] = "done" /\ main.stage = "idle" /\ Finalize(j)
FinishInThread(j) == thread[j] = "refused" /\ Finalize(j)

-----------------------------------------------------------------------------
\* The main loop begins to dispatch a source.
Dispatch(j) ==
  /\ main.stage = "idle" /\ source[j] # "none"
  /\ main' = [job |-> j, kind |-> source[j], stage |-> "begun", flags |-> {}]
  /\ UNCHANGED <<thread, asks, info, source, uiVars, program>>

\* idle_callback takes the flags, unless the source has been destroyed.
TakeFlags ==
  /\ main.stage = "begun"
  /\ LET j == main.job
     IN IF source[j] # main.kind
        THEN main' = NoSource /\ UNCHANGED <<info, source>>
        ELSE /\ main' = [main EXCEPT !.stage = "emit", !.flags = info[j].flags]
             /\ info' = [info EXCEPT ![j].flags = {}]
             /\ source' = [source EXCEPT ![j] = "none"]
  /\ UNCHANGED <<thread, asks, uiVars, program>>

\* update_notification_or_status.
Indicated(u) == [u EXCEPT !.indicator = u.active]

\* UIHandler.progress_info_finished_cb.
OneLess(u) ==
  LET left == [u EXCEPT !.active = @ - 1]
  IN IF left.active > 0
     THEN IF left.window = "shown" THEN left ELSE Indicated(left)
     ELSE IF left.window = "shown" THEN [left EXCEPT !.window = "hidden"]
     ELSE [left EXCEPT !.indicator = 0]

\* Mutant: the application is held at the first change.
HeardLate(j, flags) ==
  /\ held' = (held \cup (IF "changed" \in flags THEN {j} ELSE {}))
             \ (IF "finished" \in flags THEN {j} ELSE {})
  /\ timers' = timers \cup (IF "started" \in flags THEN {j} ELSE {})
  /\ infos' = infos \ (IF "finished" \in flags THEN {j} ELSE {})

\* The handlers of "started" and "finished"; a started job is looked at in two
\* seconds.
Heard(j, flags) ==
  /\ held' = (held \cup (IF "started" \in flags THEN {j} ELSE {}))
             \ (IF "finished" \in flags THEN {j} ELSE {})
  /\ timers' = timers \cup (IF "started" \in flags THEN {j} ELSE {})
  /\ infos' = infos \ (IF "finished" \in flags THEN {j} ELSE {})

\* Emits what was flagged, "started" first and "finished" last.
Emit ==
  /\ main.stage = "emit"
  /\ LET j == main.job
         tracked == j \in DOMAIN widgets \cup unlisted
     IN /\ Heard(j, main.flags)
        /\ IF "finished" \in main.flags
           THEN /\ widgets' = [k \in DOMAIN widgets \ {j} |-> widgets[k]]
                /\ unlisted' = unlisted \ {j}
                /\ ui' = IF tracked THEN OneLess(ui) ELSE ui
           ELSE /\ widgets' = [k \in DOMAIN widgets |->
                                 IF k = j /\ "changed" \in main.flags THEN info[j].status
                                 ELSE widgets[k]]
                /\ UNCHANGED <<ui, unlisted>>
  /\ main' = NoSource
  /\ UNCHANGED <<thread, asks, info, source, program>>

\* handle_new_progress_info: the first job presents the window; a later one is
\* added where the window is shown.
Track(j) ==
  LET more == [ui EXCEPT !.active = @ + 1]
  IN IF ui.active = 0 \/ ui.window = "shown"
     THEN /\ widgets' = [k \in DOMAIN widgets \cup {j} |->
                           IF k = j THEN info[j].status ELSE widgets[k]]
          /\ ui' = [more EXCEPT !.window = "shown"]
          /\ UNCHANGED unlisted
     ELSE /\ ui' = Indicated(more)
          /\ unlisted' = unlisted \cup {j}
          /\ UNCHANGED widgets

\* Mutant: it is not looked at whether the job is over.
TimerAnyway(j) ==
  /\ main.stage = "idle" /\ j \in timers /\ ~ info[j].paused
  /\ timers' = timers \ {j}
  /\ Track(j)
  /\ UNCHANGED <<thread, asks, info, source, main, infos, held, program>>

\* Two seconds after the job has started, and again while it is paused.
Timer(j) ==
  /\ main.stage = "idle" /\ j \in timers /\ ~ info[j].paused
  /\ timers' = timers \ {j}
  /\ IF info[j].finished THEN UNCHANGED <<ui, widgets, unlisted>> ELSE Track(j)
  /\ UNCHANGED <<thread, asks, info, source, main, infos, held, program>>

\* The user closes the window with the progress, or presents it again by the
\* notification or the status icon, which goes away.
Hide ==
  /\ main.stage = "idle" /\ ui.window = "shown"
  /\ ui' = Indicated([ui EXCEPT !.window = "hidden"])
  /\ UNCHANGED <<thread, asks, info, source, main, infos, held, timers, widgets,
                 unlisted, program>>

Present ==
  /\ main.stage = "idle" /\ ui.indicator > 0
  /\ ui' = [ui EXCEPT !.window = "shown", !.indicator = 0]
  /\ UNCHANGED <<thread, asks, info, source, main, infos, held, timers, widgets,
                 unlisted, program>>

\* The last window of the file manager is closed; without a window or a hold the
\* main loop ends, when no dialog keeps it.
Close ==
  /\ main.stage = "idle" /\ windows
  /\ windows' = FALSE
  /\ UNCHANGED <<thread, asks, info, source, main, uiVars, running>>

Exit ==
  /\ main.stage = "idle" /\ ~ windows /\ held = {}
  /\ \A j \in Jobs : thread[j] \notin {"ask", "question"}
  /\ running' = FALSE
  /\ UNCHANGED <<thread, asks, info, source, main, uiVars, windows>>

Thread(j) ==
  running /\ (Start(j) \/ Report(j) \/ Ask(j) \/ Through(j) \/ FinishInThread(j))
MainContext ==
  /\ running
  /\ \/ \E j \in Jobs : FinishInMain(j) \/ Dispatch(j) \/ Timer(j)
     \/ TakeFlags \/ Emit
UserActs ==
  running /\ ((\E j \in Jobs : Create(j)) \/ Hide \/ Present \/ Close \/ Exit)

ProgressNext ==
  \/ \E j \in Jobs : Thread(j) \/ (running /\ AnswerDialog(j))
  \/ MainContext \/ UserActs

\* The threads are run, the main loop does not stand still while it has something
\* to do, and the user answers a dialog some time.
Fairness ==
  /\ WF_progressVars(MainContext)
  /\ \A j \in Jobs : WF_progressVars(Thread(j)) /\ WF_progressVars(running /\ AnswerDialog(j))

ProgressSpec == ProgressInit /\ [][ProgressNext]_progressVars
ProgressFairSpec == ProgressSpec /\ Fairness
-----------------------------------------------------------------------------
\* The jobs whose "finished" UIHandler has connected to.
Tracked == DOMAIN widgets \cup unlisted

\* The UIHandler counts the jobs it was told of and has not seen finish.  While
\* there are some, the user sees either the window or the notification with
\* their number; when there are none, neither.
IndicatorTrue ==
  /\ ui.active = Cardinality(Tracked)
  /\ IF ui.active = 0 THEN ui.window # "shown" /\ ui.indicator = 0
     ELSE (ui.window = "shown" /\ ui.indicator = 0)
          \/ (ui.window = "hidden" /\ ui.indicator = ui.active)

\* An InfoWidget shows the status the thread set last, unless a source that will
\* say so is attached or being emitted, in whatever order the thread changes the
\* status, the source is replaced and the widget made.
WidgetsCurrent ==
  \A j \in DOMAIN widgets :
    \/ widgets[j] = info[j].status
    \/ "changed" \in info[j].flags /\ source[j] # "none"
    \/ main.job = j /\ main.stage = "emit" /\ "changed" \in main.flags

\* What the user is shown of the jobs is true.
ShownTrue == IndicatorTrue /\ WidgetsCurrent

\* Closing the last window does not end the program under a job at work, but for
\* one whose "started" the main loop has not emitted yet.
NotKilled ==
  ~ running => \A j \in Jobs :
    thread[j] \in {"none", "new", "over"} \/ "started" \in info[j].flags

\* Of a job that is over, the manager, the UIHandler and the application are rid
\* at last, whichever thread has ended it.
JobsSettle ==
  \A j \in Jobs :
    (thread[j] = "over") ~> (j \notin held \cup Tracked \cup infos \/ ~ running)
=============================================================================
