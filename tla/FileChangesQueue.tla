--------------------------- MODULE FileChangesQueue ---------------------------
(***************************************************************************)
(* libcore/marlin-file-changes-queue.c: the queue through which the jobs,  *)
(* which run in threads of their own, and the directory monitors, which    *)
(* run in the main loop, tell the views what happened to the files.        *)
(*                                                                         *)
(* Changes are put in under a mutex and taken out one by one, under the    *)
(* same mutex, by consume_changes, which runs in the main loop: from the   *)
(* done callback of a job, or from an idle source of a monitored folder.   *)
(* Between two changes it takes the jobs may put in more.  The queue is    *)
(* there from the start: its creation, without a lock, is left out.        *)
(***************************************************************************)
EXTENDS Naturals, Sequences

CONSTANTS
  Change,      \* the changes
  Kind,        \* the kind of each, [Change -> Kinds]
  Job,         \* the job threads
  Dir,         \* the monitored folders
  ConsumeAll,  \* the arguments given to consume_changes, a set of Booleans
  MaxChunk,    \* CONSUME_CHANGES_MAX_CHUNK
  MaxArrived   \* bound: how many changes are reported at all

Kinds == {"removed", "moved", "added", "changed"}

ASSUME FileChangesAssumption ==
  /\ Kind \in [Change -> Kinds]
  /\ ConsumeAll \subseteq BOOLEAN
  /\ MaxChunk \in Nat
  /\ MaxArrived \in Nat

VARIABLES
  queue,      \* the changes waiting, the oldest first
  lists,      \* additions, changes, deletions, moves in consume_changes
  chunk,      \* chunk_count, which matters up to MaxChunk only
  all,        \* the argument of consume_changes
  consuming,  \* consume_changes is running
  job,        \* "working", "ended" (callback due), "over" (callback called)
  idle,       \* the folders with an idle source
  arrived,    \* history: all changes, in the order in which they were put in
  sent,       \* history: the changes the views heard of, in that order
  last        \* history: where in `arrived` is the last change of each job

vars == <<queue, lists, chunk, all, consuming, job, idle, arrived, sent, last>>

Empty == [k \in Kinds |-> <<>>]

TypeOK ==
  /\ queue \in Seq(Change)
  /\ lists \in [Kinds -> Seq(Change)]
  /\ chunk \in 0 .. MaxChunk
  /\ all \in BOOLEAN
  /\ consuming \in BOOLEAN
  /\ job \in [Job -> {"working", "ended", "over"}]
  /\ idle \subseteq Dir
  /\ arrived \in Seq(Change)
  /\ sent \in Seq(Change)
  /\ last \in [Job -> Nat]

Init ==
  /\ queue = <<>> /\ lists = Empty
  /\ chunk = 0 /\ all = TRUE /\ consuming = FALSE
  /\ job = [t \in Job |-> "working"]
  /\ idle = {}
  /\ arrived = <<>> /\ sent = <<>>
  /\ last = [t \in Job |-> 0]

\* add_common.
Add(c) == queue' = Append(queue, c) /\ arrived' = Append(arrived, c)

\* A job did something to a file.
JobReports(t, c) ==
  /\ job[t] = "working" /\ Len(arrived) < MaxArrived
  /\ Add(c)
  /\ last' = [last EXCEPT ![t] = Len(arrived) + 1]
  /\ UNCHANGED <<lists, chunk, all, consuming, job, idle, sent>>

\* The job ends, done or cancelled, and schedules its callback.
JobEnds(t) ==
  /\ job[t] = "working"
  /\ job' = [job EXCEPT ![t] = "ended"]
  /\ UNCHANGED <<queue, lists, chunk, all, consuming, idle, arrived, sent, last>>

\* real_directory_changed.
MonitorReports(d, c) ==
  /\ ~consuming /\ Len(arrived) < MaxArrived
  /\ Add(c)
  /\ idle' = idle \cup {d}
  /\ UNCHANGED <<lists, chunk, all, consuming, job, sent, last>>

\* clear_directory_info, when the folder is loaded anew.
ClearDirectory(d) ==
  /\ ~consuming /\ d \in idle
  /\ idle' = idle \ {d}
  /\ UNCHANGED <<queue, lists, chunk, all, consuming, job, arrived, sent, last>>

-----------------------------------------------------------------------------
\* consume_changes is called; the main loop does nothing else until it returns.
Begin ==
  /\ ~consuming
  /\ consuming' = TRUE
  /\ all' \in ConsumeAll
  /\ chunk' = 0
  /\ lists' = Empty

IdleConsume(d) ==
  /\ d \in idle
  /\ Begin
  /\ idle' = idle \ {d}
  /\ UNCHANGED <<queue, job, arrived, sent, last>>

\* The done callback of a job.
JobDone(t) ==
  /\ job[t] = "ended"
  /\ Begin
  /\ job' = [job EXCEPT ![t] = "over"]
  /\ UNCHANGED <<queue, idle, arrived, sent, last>>

\* The order in which the lists are sent off.
InTurn(l) == l["removed"] \o l["moved"] \o l["added"] \o l["changed"]
Pending == InTurn(lists)

\* A change of another kind comes, or the chunk is full.
\* Mutant: only when the chunk is full.
ChunkFull == ~all /\ chunk >= MaxChunk
FlushNeededChunk(c) == ChunkFull
FlushNeeded(c) ==
  ChunkFull \/ \E k \in Kinds : lists[k] # <<>> /\ Kind[c] # k

\* One turn of the loop of consume_changes.
Take ==
  LET c == Head(queue) IN
  /\ consuming /\ queue # <<>>
  /\ queue' = Tail(queue)
  /\ IF FlushNeeded(c)
       THEN /\ sent' = sent \o Pending
            /\ lists' = [Empty EXCEPT ![Kind[c]] = <<c>>]
       ELSE /\ lists' = [lists EXCEPT ![Kind[c]] = Append(@, c)]
            /\ UNCHANGED sent
  /\ chunk' = IF chunk < MaxChunk THEN chunk + 1 ELSE chunk
  /\ UNCHANGED <<all, consuming, job, idle, arrived, last>>

\* The queue is empty: consume_changes sends off what it has and returns.
\* Mutant: it returns without the last lists.
ReturnUnsent ==
  /\ consuming /\ queue = <<>>
  /\ lists' = Empty
  /\ consuming' = FALSE
  /\ UNCHANGED <<queue, chunk, all, job, idle, arrived, sent, last>>
Return ==
  /\ consuming /\ queue = <<>>
  /\ sent' = sent \o Pending
  /\ lists' = Empty
  /\ consuming' = FALSE
  /\ UNCHANGED <<queue, chunk, all, job, idle, arrived, last>>

-----------------------------------------------------------------------------
MainLoop ==
  \/ (\E d \in Dir : IdleConsume(d)) \/ (\E t \in Job : JobDone(t))
  \/ Take \/ Return

Next ==
  \/ \E t \in Job, c \in Change : JobReports(t, c)
  \/ \E t \in Job : JobEnds(t)
  \/ \E d \in Dir, c \in Change : MonitorReports(d, c)
  \/ \E d \in Dir : ClearDirectory(d)
  \/ MainLoop

Spec == Init /\ [][Next]_vars

-----------------------------------------------------------------------------
(* Properties *)

\* "At one time we may only have one of the lists contain changes."
OneList ==
  \A j, k \in Kinds : lists[j] # <<>> /\ lists[k] # <<>> => j = k

\* No change is lost, doubled or overtaken on its way to the views, whoever
\* puts in what while consume_changes works.
InOrder == arrived = sent \o Pending \o queue

\* When the callback of a job has returned from consume_changes, the views have
\* heard of everything the job did.
JobHeard ==
  ~consuming => \A t \in Job : job[t] = "over" => last[t] <= Len(sent)

\* The promise to the views.
Delivery == INSTANCE OrderedDelivery WITH heard <- sent
DeliverySpec == Delivery!Spec

=============================================================================
