------------------------------ MODULE Thumbnails ------------------------------
(***************************************************************************)
(* Thumbnails: the requests of MarlinThumbnailer, the states and icons of  *)
(* the files it sets, the cache of icons it reads from, and the view that  *)
(* asks.                                                                   *)
(*                                                                         *)
(* The service that makes thumbnails is another program, used by others    *)
(* too.  It is reached over D-Bus: what it sends arrives in the order it   *)
(* was sent, and its signals reach every program.  A signal names one file.*)
(***************************************************************************)
EXTENDS Integers, Sequences, FiniteSets, Folds, TLC

CONSTANTS
    File,         \* the files of the folder on view
    Kind,         \* Kind[f]: the URI scheme and the content type of f
    Remote,       \* the URI schemes of shares
    Supported,    \* the pairs the service answers when asked what it supports
    Sizes,        \* the sizes of icons
    Growing,      \* the files that are written to
    MaxRequests,  \* bound: the view asks until this many requests were made
    MaxChanges,   \* bound: the versions of a file
    Handles,      \* handles the service gave out to other programs before
    MaxZooms      \* bound: changes of the zoom level

ASSUME SizesAssumption ==
    /\ Sizes \subseteq Nat \ {0}
    /\ \E s \in Sizes : \A t \in Sizes : s <= t
ASSUME HandlesAssumption == Handles \in Nat
ASSUME KindAssumption == Kind \in [File -> STRING \X STRING]

\* GOFFileThumbState.
Unknown == 0
None == 1
Ready == 2
Loading == 3

\* The icons that are no thumbnail: the one of the type of the file, and the one
\* of a thumbnail that is being made.
Plain == 0
Wait == -1

VARIABLES
    disk,       \* disk[f]: the version of the contents of f
    thumb,      \* thumb[f]: the version its thumbnail on disk shows, or 0
    changed,    \* the files whose change the view was not yet told of
    flags,      \* flags[f]: the thumbnail state of the GOFFile
    path,       \* path[f]: the GOFFile knows where its thumbnail is
    pix,        \* pix[f]: what it shows, a version, Plain or Wait
    pixSize,    \* pix_size, 0 before the file is first drawn
    cached,     \* loadable_icon_cache: cached[f][s], a version or 0
    size,       \* the icon size of the view
    zooms,      \* changes of it so far
    walk,       \* the files load_thumbnails_func has yet to visit
    timer,      \* timeout_thumbsq is set
    lists,      \* supported_schemes and supported_types, zipped; <<>> is NULL
    last,       \* last_request
    own,        \* thumbnail_request of the view, or 0
    calls,      \* the keys of request_call_mapping
    reqHandle,  \* request_handle_mapping
    handleReq,  \* handle_request_mapping
    idles,      \* the idle functions, in the order they were added
    sent,       \* calls of Queue on their way to the service
    tasks,      \* what the service works on
    handle,     \* the last handle it gave out
    bus,        \* what it sent
    dropped,    \* history: handles this program forgot before they finished
    mishap      \* history: mishap[f], why f may stay as it is

contents == <<disk, thumb, changed>>
icons == <<pix, pixSize, cached>>
zoom == <<size, zooms, walk, timer>>
maps == <<reqHandle, handleReq>>
service == <<sent, tasks, handle, bus>>
thumbVars == <<disk, thumb, changed, flags, path, pix, pixSize, cached, size, zooms,
               walk, timer, lists, last, own, calls, reqHandle, handleReq, idles,
               sent, tasks, handle, bus, dropped, mishap>>

ThumbInit ==
    /\ disk = [f \in File |-> 1]
    /\ thumb \in [File -> {0, 1}]
    /\ path = [f \in File |-> thumb[f] # 0]
    /\ flags = [f \in File |-> IF path[f] THEN None ELSE Unknown]
    /\ pix = [f \in File |-> Plain] /\ pixSize = [f \in File |-> 0]
    /\ cached = [f \in File |-> [s \in Sizes |-> 0]]
    /\ size = CHOOSE s \in Sizes : \A t \in Sizes : s <= t
    /\ handle = Handles
    /\ zooms = 0 /\ last = 0 /\ own = 0
    /\ changed = {} /\ walk = {} /\ calls = {} /\ tasks = {} /\ dropped = {}
    /\ timer = FALSE
    /\ lists = <<>> /\ reqHandle = <<>> /\ handleReq = <<>>
    /\ idles = <<>> /\ sent = <<>> /\ bus = <<>>
    /\ mishap = [f \in File |-> "none"]

Without(fn, key) == [k \in DOMAIN fn \ {key} |-> fn[k]]

------------------------------------------------------------------------------
(* Icons.                                                                  *)

\* marlin_icon_info_lookup_from_path: the cached icon, or the file's.
Found(f, s) == IF cached[f][s] # 0 THEN cached[f][s] ELSE thumb[f]

\* The icon of f is made anew, for a state and a knowledge of the path.
UpdateIcon(f, s, state, known) ==
    LET thumbnail == state = Ready /\ known IN
    /\ pix' = [pix EXCEPT ![f] = IF thumbnail /\ Found(f, s) # 0 THEN Found(f, s)
                                 ELSE IF state = Loading THEN Wait ELSE Plain]
    /\ pixSize' = [pixSize EXCEPT ![f] = s]
    /\ cached' = IF thumbnail THEN [cached EXCEPT ![f][s] = Found(f, s)] ELSE cached

\* The view draws the row of f: an icon of the wrong size is replaced.
Draw(f) ==
    /\ pixSize[f] # size
    /\ UpdateIcon(f, size, flags[f], path[f])
    /\ UNCHANGED <<contents, flags, path, zoom, lists, last, own, calls, maps, idles,
                   service, dropped, mishap>>

\* An icon no file shows is dropped after a while.
Reap(f, s) ==
    /\ cached[f][s] # 0
    /\ ~ (pix[f] = cached[f][s] /\ pixSize[f] = s)
    /\ cached' = [cached EXCEPT ![f][s] = 0]
    /\ UNCHANGED <<contents, flags, path, pix, pixSize, zoom, lists, last, own, calls,
                   maps, idles, service, dropped, mishap>>

------------------------------------------------------------------------------
(* Requests.                                                               *)

\* marlin_thumbnailer_file_is_supported, and not on a share.
IsSupported(f, offers) ==
    /\ Kind[f][1] \notin Remote
    /\ \E n \in DOMAIN offers : offers[n] = Kind[f]

\* marlin_thumbnailer_queue_async.
QueueAsync(fs) ==
    /\ last' = last + 1
    /\ calls' = calls \cup {last'}
    /\ sent' = Append(sent, [req |-> last', files |-> fs])

\* marlin_thumbnailer_queue_files, for files in the states `before`: the first
\* file asks the service what it supports, which may fail.
QueueFiles(fs, before, request) ==
    \E offers \in IF fs = {} \/ lists # <<>> THEN {lists} ELSE {<<>>, Supported} :
      LET asked == {f \in fs : IsSupported(f, offers)} IN
      /\ lists' = offers
      /\ flags' = [f \in File |-> IF f \in asked THEN Loading ELSE before[f]]
      /\ IF asked = {}
         THEN /\ own' = IF request THEN 0 ELSE own
              /\ UNCHANGED <<last, calls, sent>>
         ELSE QueueAsync(asked) /\ own' = IF request THEN last' ELSE own

\* marlin_thumbnailer_dequeue: the service is not told.
Dequeue(request) ==
    IF request \in DOMAIN reqHandle
    THEN /\ handleReq' = Without(handleReq, reqHandle[request])
         /\ reqHandle' = Without(reqHandle, request)
         /\ dropped' = dropped \cup {reqHandle[request]}
    ELSE UNCHANGED <<maps, dropped>>

\* schedule_thumbnail_timeout, some time after the view was scrolled, with
\* cancel_thumbnailing: what the folder was doing is cancelled as well.
Unasked(f) == flags[f] < Ready

Scroll(visible) ==
    /\ last < MaxRequests \/ visible = {}
    /\ Dequeue(own)
    /\ QueueFiles({f \in visible : Unasked(f)}, flags, TRUE)
    /\ timer' = FALSE
    /\ UNCHANGED <<contents, path, icons, size, zooms, walk, idles, tasks, handle, bus, mishap>>

\* A file is written; the monitor will tell.
Modify(f) ==
    /\ f \in Growing /\ disk[f] < MaxChanges
    /\ disk' = [disk EXCEPT ![f] = @ + 1]
    /\ changed' = changed \cup {f}
    /\ UNCHANGED <<thumb, flags, path, icons, zoom, lists, last, own, calls, maps,
                   idles, service, dropped, mishap>>

\* Mutant: the icons stay in the cache.
KeepCache(f, known) == UNCHANGED cached

\* remove_marlin_icon_info_cache, for every zoom level.
RemoveCache(f, known) ==
    cached' = IF known THEN [cached EXCEPT ![f] = [s \in Sizes |-> 0]] ELSE cached

\* changed_and_refresh and on_directory_file_changed.
Notify(f) ==
    LET known == path[f] \/ thumb[f] # 0 IN
    /\ f \in changed
    /\ changed' = changed \ {f}
    /\ path' = [path EXCEPT ![f] = known]
    /\ RemoveCache(f, known)
    /\ QueueFiles({f}, [flags EXCEPT ![f] = IF known THEN None ELSE @], FALSE)
    /\ mishap' = [mishap EXCEPT ![f] = "none"]
    /\ UNCHANGED <<disk, thumb, pix, pixSize, zoom, maps, idles, tasks, handle, bus,
                   dropped>>

------------------------------------------------------------------------------
(* The service.                                                            *)

Accept ==
    /\ sent # <<>>
    /\ sent' = Tail(sent)
    /\ \/ /\ handle' = handle + 1
          /\ tasks' = tasks \cup {[handle |-> handle', req |-> Head(sent).req,
                                 left |-> Head(sent).files]}
          /\ bus' = Append(bus, [type |-> "reply", req |-> Head(sent).req,
                                 handle |-> handle', files |-> Head(sent).files])
       \/ /\ bus' = Append(bus, [type |-> "refusal", req |-> Head(sent).req,
                                 handle |-> 0, files |-> Head(sent).files])
          /\ UNCHANGED <<handle, tasks>>
    /\ UNCHANGED <<contents, flags, path, icons, zoom, lists, last, own, calls, maps,
                   idles, dropped, mishap>>

Signal(type, j, fs) ==
    bus' = Append(bus, [type |-> type, req |-> j.req, handle |-> j.handle, files |-> fs])

\* What another program asked for was made.
Foreign(f) ==
    /\ idles = <<>> /\ bus = <<>> /\ Handles > 0
    /\ thumb' = [thumb EXCEPT ![f] = disk[f]]
    /\ Signal("ready", [req |-> 0, handle |-> 0], {f})
    /\ UNCHANGED <<disk, changed, flags, path, icons, zoom, lists, last, own, calls,
                   maps, idles, sent, tasks, handle, dropped, mishap>>

Work(j, f) ==
    /\ f \in j.left
    /\ tasks' = (tasks \ {j}) \cup {[j EXCEPT !.left = @ \ {f}]}
    /\ \/ thumb' = [thumb EXCEPT ![f] = disk[f]] /\ Signal("ready", j, {f})
       \/ thumb' = thumb /\ Signal("error", j, {f})
    /\ UNCHANGED <<disk, changed, flags, path, icons, zoom, lists, last, own, calls,
                   maps, idles, sent, handle, dropped, mishap>>

Finish(j) ==
    /\ j.left = {}
    /\ tasks' = tasks \ {j}
    /\ Signal("finished", j, {})
    /\ UNCHANGED <<contents, flags, path, icons, zoom, lists, last, own, calls, maps,
                   idles, sent, handle, dropped, mishap>>

------------------------------------------------------------------------------
(* The main loop: what arrives, then, when there is time, the idles.       *)

Blame(fs, reason) ==
    mishap' = [f \in File |-> IF f \in fs THEN reason ELSE mishap[f]]

\* Mutant: the request is not found by its handle.
ReplyOneWay(m) ==
    /\ calls' = calls \ {m.req}
    /\ IF m.type = "reply"
       THEN reqHandle' = (m.req :> m.handle) @@ reqHandle /\ UNCHANGED <<handleReq, mishap>>
       ELSE Blame(m.files, "refused") /\ UNCHANGED maps
    /\ UNCHANGED <<idles, dropped>>

\* marlin_thumbnailer_queue_async_reply.
Reply(m) ==
    /\ calls' = calls \ {m.req}
    /\ IF m.type = "reply"
       THEN /\ reqHandle' = (m.req :> m.handle) @@ reqHandle
            /\ handleReq' = (m.handle :> m.req) @@ handleReq
            /\ UNCHANGED mishap
       ELSE Blame(m.files, "refused") /\ UNCHANGED maps
    /\ UNCHANGED <<idles, dropped>>

\* marlin_thumbnailer_thumbnailer_ready: whoever asked.
ReadySignal(m) ==
    /\ idles' = Append(idles, [type |-> "ready", files |-> m.files])
    /\ UNCHANGED <<calls, maps, dropped, mishap>>

\* marlin_thumbnailer_thumbnailer_error: only what is known to be asked for.
ErrorSignal(m) ==
    /\ IF m.handle \in DOMAIN handleReq
       THEN idles' = Append(idles, [type |-> "error", files |-> m.files]) /\ UNCHANGED mishap
       ELSE /\ IF m.handle \in dropped THEN Blame(m.files, "ignored") ELSE UNCHANGED mishap
            /\ UNCHANGED idles
    /\ UNCHANGED <<calls, maps, dropped>>

\* marlin_thumbnailer_thumbnailer_finished: both tables are told to forget the
\* request, though the keys of one are handles.
FinishedSignal(m) ==
    /\ IF m.handle \in DOMAIN handleReq
       THEN LET request == handleReq[m.handle] IN
            /\ handleReq' = Without(handleReq, request)
            /\ reqHandle' = Without(reqHandle, request)
            /\ dropped' = IF request \in DOMAIN handleReq /\ request # m.handle
                          THEN dropped \cup {request} ELSE dropped
       ELSE UNCHANGED <<maps, dropped>>
    /\ UNCHANGED <<calls, idles, mishap>>

Receive ==
    /\ bus # <<>>
    /\ bus' = Tail(bus)
    /\ LET m == Head(bus) IN
       \/ m.type \in {"reply", "refusal"} /\ Reply(m)
       \/ m.type = "ready" /\ ReadySignal(m)
       \/ m.type = "error" /\ ErrorSignal(m)
       \/ m.type = "finished" /\ FinishedSignal(m)
    /\ UNCHANGED <<contents, flags, path, icons, zoom, lists, last, own, sent, tasks, handle>>

\* marlin_thumbnailer_ready_idle and gof_file_set_thumb_state: a file that was
\* never drawn does not learn the path.
ReadyIdle(f) ==
    /\ flags' = [flags EXCEPT ![f] = Ready]
    /\ IF pixSize[f] = 0
       THEN UNCHANGED <<path, icons>>
       ELSE path' = [path EXCEPT ![f] = TRUE] /\ UpdateIcon(f, pixSize[f], Ready, TRUE)
    /\ IF ~ path'[f] THEN Blame({f}, "undrawn")
       ELSE IF thumb[f] # disk[f] /\ f \notin changed THEN Blame({f}, "overtaken")
       ELSE UNCHANGED mishap

\* marlin_thumbnailer_error_idle: a thumbnail that was made stays, and the icon
\* is not made anew.
ErrorIdle(f) ==
    /\ flags' = [flags EXCEPT ![f] = IF @ = Ready THEN Ready ELSE None]
    /\ IF flags'[f] = None /\ pix[f] = Wait THEN Blame({f}, "failed") ELSE UNCHANGED mishap
    /\ UNCHANGED <<path, icons>>

Idle ==
    /\ idles # <<>>
    /\ idles' = Tail(idles)
    /\ \E f \in Head(idles).files :
         IF Head(idles).type = "ready" THEN ReadyIdle(f) ELSE ErrorIdle(f)
    /\ UNCHANGED <<contents, zoom, lists, last, own, calls, maps, service, dropped>>

------------------------------------------------------------------------------
(* Zooming.                                                                *)

\* on_zoom_level_changed and queue_load_thumbnails: a thread at work goes on
\* with the new size.
Zoom(s) ==
    /\ s # size /\ zooms < MaxZooms
    /\ size' = s
    /\ zooms' = zooms + 1
    /\ timer' = (timer \/ walk = {})
    /\ UNCHANGED <<contents, flags, path, icons, walk, lists, last, own, calls,
                   maps, idles, service, dropped, mishap>>

\* queue_thumbs_timeout_cb: the thread does nothing when the view was scrolled since
\* the folder was last loaded, for its cancellable is still cancelled.
StartWalk ==
    /\ timer /\ walk = {}
    /\ timer' = FALSE
    /\ walk' \in {File, {}}
    /\ UNCHANGED <<contents, flags, path, icons, size, zooms, lists, last, own, calls, maps,
                   idles, service, dropped, mishap>>

\* load_thumbnails_func, one file: whatever its state was, it is ready.
Walk(f) ==
    /\ f \in walk
    /\ walk' = walk \ {f}
    /\ IF flags[f] = Unknown
       THEN UNCHANGED <<flags, path, icons, mishap>>
       ELSE /\ flags' = [flags EXCEPT ![f] = Ready]
            /\ path' = [path EXCEPT ![f] = TRUE]
            /\ UpdateIcon(f, size, Ready, TRUE)
            /\ IF flags[f] # Ready THEN Blame({f}, "zoomed") ELSE UNCHANGED mishap
    /\ UNCHANGED <<contents, size, zooms, timer, lists, last, own, calls, maps,
                   idles, service, dropped>>

\* The thread finds that it was cancelled.
StopWalk ==
    /\ walk # {}
    /\ walk' = {}
    /\ UNCHANGED <<contents, flags, path, icons, size, zooms, timer, lists, last,
                   own, calls, maps, idles, service, dropped, mishap>>

------------------------------------------------------------------------------
Service == Accept \/ \E j \in tasks : Finish(j) \/ \E f \in j.left : Work(j, f)

ThumbNext ==
    \/ \E visible \in SUBSET File : Scroll(visible)
    \/ \E f \in File :
         Draw(f) \/ Modify(f) \/ Notify(f) \/ Foreign(f) \/ Walk(f)
    \/ \E f \in File, s \in Sizes : Reap(f, s)
    \/ \E s \in Sizes : Zoom(s)
    \/ StartWalk \/ StopWalk
    \/ Service \/ Receive \/ Idle

\* The service answers, and the main loop gets to what arrived and to its idles.
ThumbSpec ==
    /\ ThumbInit /\ [][ThumbNext]_thumbVars
    /\ WF_thumbVars(Service) /\ WF_thumbVars(Receive) /\ WF_thumbVars(Idle)
------------------------------------------------------------------------------
(* Properties.                                                             *)

Settled ==
    /\ sent = <<>> /\ tasks = {} /\ bus = <<>> /\ idles = <<>>
    /\ changed = {} /\ walk = {}

\* Once nothing is under way, a file whose thumbnail is ready and that was drawn
\* shows its contents as they are, and none shows the icon of a thumbnail that
\* is being made: unless one of the mishaps happened to it.  They are an answer
\* to an older request that is taken in after the file was changed, so that the
\* old thumbnail is back in the cache when the new one arrives ("overtaken"); a
\* thumbnail that was ready before the file was first drawn ("undrawn"); a
\* change of zoom that took a file without one for ready ("zoomed"); and an
\* error, after which the icon is not made anew ("failed").
ShownIsCurrent ==
    Settled => \A f \in File :
        pixSize[f] = size /\ mishap[f] = "none" =>
            /\ flags[f] = Ready => pix[f] = disk[f]
            /\ flags[f] # Loading => pix[f] # Wait

\* A file whose thumbnail is being made does not stay so: it is made, or it
\* failed; unless the service refused, or its error was ignored because this
\* program had forgotten the handle.
Settles ==
    \A f \in File :
        flags[f] = Loading ~> flags[f] # Loading \/ mishap[f] \in {"refused", "ignored"}
=============================================================================
