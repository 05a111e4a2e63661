----------------------------- MODULE View_proofs -----------------------------
(***************************************************************************)
(* What a view is told by the services behind it is true: what can be      *)
(* pasted, by the clipboard manager, what the files look like, by the      *)
(* thumbnailer, and which jobs there are, by their progress infos; for any *)
(* offers, transfers, files, sizes, requests, jobs, reports and dialogs.   *)
(***************************************************************************)
EXTENDS Clipboard, Thumbnails, JobProgress, FiniteSetTheorems, SequenceTheorems, TLAPS

-------------------------------------------------------------------------------
(* The clipboard.  Between two quiet states the manager may know less than *)
(* it should, but something is then on its way that tells it: the news     *)
(* that the clipboard was lost, the event of the new owner, or a question  *)
(* to that very owner.                                                     *)

Counts == [transfers : Nat, foreign : Nat, pastes : Nat]

TypeOK ==
  /\ files \in BOOLEAN /\ canPaste \in BOOLEAN /\ clearing \in BOOLEAN
  /\ notices \in Nat
  /\ counts \in Counts

\* While the news of the loss are under way, the clipboard is not ours; else the
\* manager has files just when it is.
FilesKnown == IF clearing THEN owner # Us ELSE files <=> owner = Us

\* The owner has been asked, and was still the owner when the question was sent.
OwnerAsked == \E r \in requests : r.kind = "targets" /\ r.of = owner

Changed == counts.transfers + counts.foreign > 0

PasteKnown ==
  Changed => \/ "overtaken" \in mishaps
             \/ notices > 0
             \/ OwnerAsked
             \/ canPaste = HasFiles(OnClipboard)

IInv == TypeOK /\ FilesKnown /\ PasteKnown

LEMMA InitIInv == Init => IInv
<1> SUFFICES ASSUME Init PROVE IInv  OBVIOUS
<1>1. TypeOK
  <2>1. counts \in Counts /\ notices \in Nat
    BY DEF Init, Counts
  <2>2. files \in BOOLEAN /\ canPaste \in BOOLEAN /\ clearing \in BOOLEAN
    BY DEF Init
  <2> QED  BY <2>1, <2>2 DEF TypeOK
<1>2. FilesKnown
  <2>1. owner # Us
    BY DEF Init, Us, Nobody, Them
  <2> QED  BY <2>1 DEF Init, FilesKnown
<1>3. ~ Changed
  BY DEF Init, Changed
<1> QED  BY <1>1, <1>2, <1>3 DEF IInv, PasteKnown

-------------------------------------------------------------------------------
(* The parts a step is made of.                                            *)

\* What is pasted is let go when it was cut here, and the event says so.
LEMMA PasteContentsKeeps ==
  ASSUME IInv, NEW v, NEW data, PasteContents(v, data), clearing' = clearing
  PROVE  /\ files' \in BOOLEAN /\ notices' \in Nat /\ FilesKnown'
         /\ mishaps \subseteq mishaps'
         /\ notices' > 0 \/ (owner' = owner /\ notices' = notices)
<1> USE DEF IInv, TypeOK
<1>1. CASE HasFiles(data) /\ data = "cut" /\ owner = Us
  <2>1. /\ owner' = Nobody /\ files' = FALSE /\ notices' = notices + 1
        /\ mishaps' = mishaps
    BY <1>1 DEF PasteContents, ClearsClipboard
  <2>2. Nobody # Us
    BY DEF Nobody, Us
  <2>3. owner' # Us /\ ~ files'
    BY <2>1, <2>2
  <2>4. FilesKnown'
    BY <2>3 DEF FilesKnown
  <2>5. notices' \in Nat /\ notices' > 0
    BY <2>1
  <2> QED  BY <2>1, <2>4, <2>5
<1>2. CASE ~ (HasFiles(data) /\ data = "cut" /\ owner = Us)
  <2>1. owner' = owner /\ files' = files /\ notices' = notices
    BY <1>2 DEF PasteContents, ClearsClipboard
  <2>2. mishaps \subseteq mishaps'
    BY DEF PasteContents
  <2> QED  BY <2>1, <2>2 DEF FilesKnown
<1> QED  BY <1>1, <1>2

\* A question is one more, to the owner.
LEMMA AsksOwner ==
  ASSUME NEW kind, NEW v, Asks(kind, v)
  PROVE  /\ requests \subseteq requests'
         /\ \E r \in requests' : r.kind = kind /\ r.of = owner
<1>1. PICK n : requests' = requests \cup {[n |-> n, kind |-> kind, view |-> v,
                                          of |-> owner, answered |-> FALSE,
                                          data |-> Nothing]}
  BY DEF Asks
<1> DEFINE r == [n |-> n, kind |-> kind, view |-> v, of |-> owner, answered |-> FALSE,
                 data |-> Nothing]
<1>2. r.kind = kind /\ r.of = owner /\ r \in requests'
  BY <1>1
<1> QED  BY <1>1, <1>2

\* What can be pasted stays known while the owner and what it was asked do.
LEMMA PasteKnownKeeps ==
  ASSUME PasteKnown, owner' = owner, cutted' = cutted, notices' = notices,
         canPaste' = canPaste, mishaps \subseteq mishaps',
         counts'.transfers = counts.transfers, counts'.foreign = counts.foreign,
         OwnerAsked => OwnerAsked'
  PROVE  PasteKnown'
<1>1. OnClipboard' = OnClipboard
  BY DEF OnClipboard, Ours
<1> QED  BY <1>1 DEF PasteKnown, Changed, HasFiles

LEMMA NextIInv == IInv /\ [Next]_vars => IInv'
<1> SUFFICES ASSUME IInv, [Next]_vars PROVE IInv'
  OBVIOUS
<1> USE DEF IInv
<1>1. CASE UNCHANGED vars
  BY <1>1 DEF vars, manager, views, TypeOK, FilesKnown, PasteKnown, Changed, OwnerAsked,
              OnClipboard, Ours
<1>2. ASSUME NEW cut \in BOOLEAN, Transfer(cut) PROVE IInv'
  <2>a. counts' \in Counts /\ notices' \in Nat
    BY <1>2 DEF Transfer, TypeOK, Counts
  <2>b. files' = TRUE /\ clearing' = FALSE /\ canPaste' = canPaste
    BY <1>2 DEF Transfer
  <2>1. TypeOK'
    BY <2>a, <2>b DEF TypeOK
  <2>2. FilesKnown'
    BY <1>2 DEF Transfer, FilesKnown
  <2>3. notices' > 0
    BY <1>2 DEF Transfer, TypeOK
  <2> QED  BY <2>1, <2>2, <2>3 DEF PasteKnown
<1>3. ASSUME NEW mode \in Offers, TakenOver(mode) PROVE IInv'
  <2>1. TypeOK'
    BY <1>3 DEF TakenOver, TypeOK, Counts, manager
  <2>2. owner' # Us
    BY <1>3 DEF TakenOver, Us, Them
  <2>3. files' = files /\ clearing' = (clearing \/ owner = Us)
    BY <1>3 DEF TakenOver, manager
  <2>4. FilesKnown'
    BY <2>2, <2>3 DEF FilesKnown, TypeOK
  <2>5. notices' > 0
    BY <1>3 DEF TakenOver, TypeOK
  <2> QED  BY <2>1, <2>4, <2>5 DEF PasteKnown
<1>4. CASE Cleared
  <2>1. TypeOK' /\ FilesKnown'
    BY <1>4 DEF Cleared, ClearCallback, TypeOK, FilesKnown
  <2>2. PasteKnown'
    BY <1>4, PasteKnownKeeps DEF Cleared, OwnerAsked
  <2> QED  BY <2>1, <2>2
<1>5. CASE OwnerChanged
  <2>1. /\ owner' = owner /\ files' = files /\ cutted' = cutted /\ clearing' = clearing
        /\ notices' \in Nat /\ counts' = counts /\ mishaps' = mishaps
    BY <1>5 DEF OwnerChanged, manager, TypeOK
  <2>2. CASE owner = Us
    <3>1. canPaste' = HasFiles(Ours) /\ HasFiles(OnClipboard)' = HasFiles(Ours)
      BY <1>5, <2>1, <2>2 DEF OwnerChanged, CanPaste, OnClipboard, Ours, HasFiles
    <3> QED  BY <2>1, <3>1 DEF TypeOK, FilesKnown, PasteKnown, HasFiles
  <2>3. CASE owner # Us
    <3>1. canPaste' = canPaste /\ OwnerAsked'
      BY <1>5, <2>1, <2>3, AsksOwner DEF OwnerChanged, OwnerAsked
    <3> QED  BY <2>1, <3>1 DEF TypeOK, FilesKnown, PasteKnown
  <2> QED  BY <2>2, <2>3
<1>6. ASSUME NEW v \in Views, Paste(v) PROVE IInv'
  <2>1. /\ clearing' = clearing /\ cutted' = cutted /\ canPaste' = canPaste
        /\ counts' \in Counts
        /\ counts'.transfers = counts.transfers /\ counts'.foreign = counts.foreign
    BY <1>6 DEF Paste, TypeOK, Counts
  <2>2. CASE owner = Us
    <3>1. PasteContents(v, Ours) /\ requests' = requests
      BY <1>6, <2>2 DEF Paste
    <3>2. /\ files' \in BOOLEAN /\ notices' \in Nat /\ FilesKnown'
          /\ mishaps \subseteq mishaps'
          /\ notices' > 0 \/ (owner' = owner /\ notices' = notices)
      BY <2>1, <3>1, PasteContentsKeeps
    <3>3. PasteKnown'
      <4>1. CASE notices' > 0
        BY <4>1 DEF PasteKnown
      <4>2. CASE owner' = owner /\ notices' = notices
        BY <2>1, <3>1, <3>2, <4>2, PasteKnownKeeps DEF OwnerAsked
      <4> QED  BY <3>2, <4>1, <4>2
    <3> QED  BY <2>1, <3>2, <3>3 DEF TypeOK
  <2>3. CASE owner # Us
    <3>1. /\ Asks("paste", v)
          /\ owner' = owner /\ files' = files /\ notices' = notices /\ mishaps' = mishaps
      BY <1>6, <2>3 DEF Paste
    <3>2. OwnerAsked => OwnerAsked'
      BY <3>1, AsksOwner DEF OwnerAsked
    <3>3. PasteKnown'
      BY <2>1, <3>1, <3>2, PasteKnownKeeps
    <3> QED  BY <2>1, <3>1, <3>3 DEF TypeOK, FilesKnown
  <2> QED  BY <2>2, <2>3
<1>7. ASSUME NEW r \in requests, Answer(r) PROVE IInv'
  <2>1. /\ owner' = owner /\ files' = files /\ cutted' = cutted /\ canPaste' = canPaste
        /\ clearing' = clearing /\ notices' = notices /\ counts' = counts
        /\ mishaps' = mishaps
    BY <1>7 DEF Answer, manager
  <2>2. PICK data : requests' = (requests \ {r})
                                \cup {[r EXCEPT !.answered = TRUE, !.data = data]}
    BY <1>7 DEF Answer
  <2> DEFINE a == [r EXCEPT !.answered = TRUE, !.data = data]
  <2>3. OwnerAsked => OwnerAsked'
    <3>1. SUFFICES ASSUME NEW q \in requests, q.kind = "targets", q.of = owner
                   PROVE  OwnerAsked'
      BY DEF OwnerAsked
    <3>2. CASE q # r
      BY <2>1, <2>2, <3>1, <3>2 DEF OwnerAsked
    <3>3. CASE q = r
      <4>1. a.kind = "targets" /\ a.of = owner
        BY <3>1, <3>3
      <4> QED  BY <2>1, <2>2, <4>1 DEF OwnerAsked
    <3> QED  BY <3>2, <3>3
  <2>4. PasteKnown'
    BY <2>1, <2>3, PasteKnownKeeps
  <2> QED  BY <2>1, <2>4 DEF TypeOK, FilesKnown
<1>8. ASSUME NEW r \in requests, TargetsReceived(r) PROVE IInv'
  <2>1. /\ owner' = owner /\ files' = files /\ cutted' = cutted
        /\ clearing' = clearing /\ notices' = notices /\ counts' = counts
        /\ canPaste' = HasFiles(r.data)
    BY <1>8 DEF TargetsReceived, CanPaste, manager
  <2>2. \/ HasFiles(r.data) = HasFiles(OnClipboard) \/ "overtaken" \in mishaps'
    BY <1>8 DEF TargetsReceived
  <2>3. OnClipboard' = OnClipboard
    BY <2>1 DEF OnClipboard, Ours
  <2>4. PasteKnown'
    BY <2>1, <2>2, <2>3 DEF PasteKnown, HasFiles
  <2> QED  BY <2>1, <2>4 DEF TypeOK, FilesKnown, HasFiles
<1>9. ASSUME NEW r \in requests, ContentsReceived(r) PROVE IInv'
  <2>1. /\ clearing' = clearing /\ cutted' = cutted /\ canPaste' = canPaste
        /\ counts' = counts
        /\ requests' = requests \ {r} /\ r.kind = "paste"
    BY <1>9 DEF ContentsReceived
  <2>2. \E v : PasteContents(v, r.data)
    BY <1>9 DEF ContentsReceived
  <2>3. /\ files' \in BOOLEAN /\ notices' \in Nat /\ FilesKnown'
        /\ mishaps \subseteq mishaps'
        /\ notices' > 0 \/ (owner' = owner /\ notices' = notices)
    BY <2>1, <2>2, PasteContentsKeeps
  <2>4. CASE notices' > 0
    BY <2>1, <2>3, <2>4 DEF PasteKnown, TypeOK
  <2>5. CASE owner' = owner /\ notices' = notices
    <3>1. OwnerAsked => OwnerAsked'
      BY <2>1, <2>5 DEF OwnerAsked
    <3> QED  BY <2>1, <2>3, <2>5, <3>1, PasteKnownKeeps DEF TypeOK
  <2> QED  BY <2>3, <2>4, <2>5
<1>10. ASSUME NEW v, JobDone(v) \/ CloseView(v) PROVE IInv'
  <2>1. /\ owner' = owner /\ files' = files /\ cutted' = cutted /\ canPaste' = canPaste
        /\ clearing' = clearing /\ notices' = notices /\ requests' = requests
        /\ counts' = counts /\ mishaps \subseteq mishaps'
    BY <1>10 DEF JobDone, CloseView, manager
  <2>2. PasteKnown'
    BY <2>1, PasteKnownKeeps DEF OwnerAsked
  <2> QED  BY <2>1, <2>2 DEF TypeOK, FilesKnown
<1> QED
  BY <1>1, <1>2, <1>3, <1>4, <1>5, <1>6, <1>7, <1>8, <1>9, <1>10 DEF Next, MainLoop, User

-------------------------------------------------------------------------------
\* When no event, request or answer is under way, the manager of the clipboard
\* knows what can be pasted and has files just when the clipboard is ours, in
\* whatever order owner_changed, targets_received, contents_received and
\* clear_callback were called; but for an answer that was overtaken.
THEOREM ClipboardQuietTrue == Spec => []QuietTrue
<1>1. IInv => QuietTrue
  BY DEF IInv, TypeOK, FilesKnown, PasteKnown, OwnerAsked, Changed, QuietTrue, Quiet
<1> QED  BY <1>1, InitIInv, NextIInv, PTL DEF Spec

-------------------------------------------------------------------------------
(* The thumbnails.  What a file shows is right as soon as its thumbnail is *)
(* ready, the view was told of every change, and no mishap befell it; no   *)
(* answer has to be waited for.  The tables of requests and handles decide *)
(* only which errors are heard, and the invariant says nothing of them.    *)

Reasons == {"refused", "ignored", "overtaken", "undrawn", "zoomed", "failed"}
Messages == {"reply", "refusal", "ready", "error", "finished"}
Message == [type : Messages, req : Int, handle : Int, files : SUBSET File]
IdleCall == [type : {"ready", "error"}, files : SUBSET File]
Task == [handle : Int, req : Int, left : SUBSET File]

ThumbTypeOK ==
  /\ disk \in [File -> Nat \ {0}] /\ thumb \in [File -> Nat]
  /\ flags \in [File -> {Unknown, None, Ready, Loading}] /\ path \in [File -> BOOLEAN]
  /\ pix \in [File -> Int] /\ pixSize \in [File -> Sizes \cup {0}]
  /\ cached \in [File -> [Sizes -> Nat]]
  /\ size \in Sizes /\ walk \subseteq File
  /\ last \in Nat /\ handle \in Nat
  /\ sent \in Seq([req : Int, files : SUBSET File])
  /\ tasks \subseteq Task
  /\ bus \in Seq(Message)
  /\ idles \in Seq(IdleCall)
  /\ mishap \in [File -> Reasons \cup {"none"}]

\* A signal that a thumbnail is there is never sent before it is.
WithThumb == {f \in File : thumb[f] # 0}
Announce(q, fs) == \A i \in 1 .. Len(q) : q[i].type = "ready" => q[i].files \subseteq fs
Announced == Announce(bus, WithThumb) /\ Announce(idles, WithThumb)

\* What is ready, or is in the cache, can be found again when the file changes.
Findable(f) ==
  /\ flags[f] = Ready => path[f] \/ thumb[f] # 0
  /\ \A s \in Sizes : cached[f][s] # 0 => thumb[f] # 0

\* Who asks for a thumbnail, and shows that it waits, knows that the service
\* makes it: a change of the file has it asked for again.
Awaited(f) ==
  /\ flags[f] = Loading => IsSupported(f, lists)
  /\ pix[f] = Wait => /\ pixSize[f] # 0 /\ IsSupported(f, lists)
                      /\ mishap[f] = "none" => flags[f] = Loading

\* The heart: neither the file nor the cache holds an older picture.
UpToDate(f) ==
  f \notin changed /\ mishap[f] = "none" =>
    /\ \A s \in Sizes : cached[f][s] \in {0, disk[f]}
    /\ flags[f] = Ready => /\ path[f] /\ thumb[f] = disk[f]
                           /\ pixSize[f] # 0 => pix[f] = disk[f]

ThumbIInv ==
  /\ ThumbTypeOK /\ Announced
  /\ \A f \in File : Findable(f) /\ Awaited(f) /\ UpToDate(f)

-------------------------------------------------------------------------------
(* Signals and idle functions.                                             *)

LEMMA AnnounceMore ==
  ASSUME NEW S, NEW q \in Seq(S), NEW m \in S, NEW a, NEW b, Announce(q, a),
         a \subseteq b, m.type = "ready" => m.files \subseteq b
  PROVE  Append(q, m) \in Seq(S) /\ Announce(Append(q, m), b)
<1>1. /\ Append(q, m) \in Seq(S) /\ Len(Append(q, m)) = Len(q) + 1
      /\ Append(q, m)[Len(q) + 1] = m
      /\ \A i \in 1 .. Len(q) : Append(q, m)[i] = q[i]
  OBVIOUS
<1> DEFINE r == Append(q, m)
<1> HIDE DEF r
<1>2. SUFFICES ASSUME NEW i \in 1 .. Len(r), r[i].type = "ready"
               PROVE  r[i].files \subseteq b
  BY <1>1 DEF Announce, r
<1>3. CASE i \in 1 .. Len(q)
  <2>1. r[i] = q[i]
    BY <1>1, <1>3 DEF r
  <2> QED  BY <1>2, <1>3, <2>1 DEF Announce
<1>4. CASE i = Len(q) + 1
  <2>1. r[i] = m
    BY <1>1, <1>4 DEF r
  <2> QED  BY <1>2, <2>1
<1>5. Len(q) \in Nat /\ Len(r) = Len(q) + 1
  BY <1>1 DEF r
<1> QED  BY <1>3, <1>4, <1>5

LEMMA AnnounceLess ==
  ASSUME NEW S, NEW q \in Seq(S), q # <<>>, NEW a, Announce(q, a)
  PROVE  /\ Head(q) \in S /\ Tail(q) \in Seq(S) /\ Announce(Tail(q), a)
         /\ Head(q).type = "ready" => Head(q).files \subseteq a
<1>1. /\ Head(q) \in S /\ Tail(q) \in Seq(S) /\ Len(Tail(q)) = Len(q) - 1
      /\ \A i \in 1 .. Len(Tail(q)) : Tail(q)[i] = q[i + 1]
  BY HeadTailProperties
<1>2. Head(q) = q[1] /\ Len(q) \in Nat /\ Len(q) >= 1
  BY EmptySeq
<1>3. ASSUME NEW i \in 1 .. Len(Tail(q)), Tail(q)[i].type = "ready"
      PROVE  Tail(q)[i].files \subseteq a
  <2>1. i + 1 \in 1 .. Len(q) /\ Tail(q)[i] = q[i + 1]
    BY <1>1, <1>2
  <2> QED  BY <1>3, <2>1 DEF Announce
<1>4. 1 \in 1 .. Len(q)
  BY <1>2
<1> QED  BY <1>1, <1>2, <1>3, <1>4 DEF Announce

LEMMA AnnounceSame ==
  ASSUME NEW q, NEW a, NEW b, Announce(q, a), a \subseteq b
  PROVE  Announce(q, b)
  BY DEF Announce

-------------------------------------------------------------------------------
(* Icons and requests.                                                     *)

\* An icon that was made anew is what was found, or says that it waits.
LEMMA IconMade ==
  ASSUME ThumbTypeOK, NEW f \in File, NEW s \in Sizes, NEW state, NEW known \in BOOLEAN,
         UpdateIcon(f, s, state, known)
  PROVE  /\ pix' \in [File -> Int] /\ pixSize' \in [File -> Sizes \cup {0}]
         /\ cached' \in [File -> [Sizes -> Nat]]
         /\ \A g \in File \ {f} : pix'[g] = pix[g] /\ pixSize'[g] = pixSize[g]
                                  /\ cached'[g] = cached[g]
         /\ pixSize'[f] = s
         /\ pix'[f] = Wait => state = Loading
         /\ Found(f, s) # 0 /\ state = Ready /\ known => pix'[f] = Found(f, s)
         /\ \A t \in Sizes : cached'[f][t] = cached[f][t]
                             \/ (state = Ready /\ known /\ cached'[f][t] = Found(f, s))
<1>1. Found(f, s) \in Nat
  BY DEF Found, ThumbTypeOK
<1> DEFINE thumbnail == state = Ready /\ known
           icon == IF thumbnail /\ Found(f, s) # 0 THEN Found(f, s)
                   ELSE IF state = Loading THEN Wait ELSE Plain
<1>2. icon \in Int /\ (icon = Wait => state = Loading)
      /\ (Found(f, s) # 0 /\ thumbnail => icon = Found(f, s))
  BY <1>1 DEF Wait, Plain
<1>3. /\ pix' = [pix EXCEPT ![f] = icon] /\ pixSize' = [pixSize EXCEPT ![f] = s]
      /\ cached' = IF thumbnail THEN [cached EXCEPT ![f][s] = Found(f, s)] ELSE cached
  BY DEF UpdateIcon
<1> HIDE DEF icon
<1>4. /\ pix' \in [File -> Int] /\ pix'[f] = icon
      /\ \A g \in File \ {f} : pix'[g] = pix[g]
  BY <1>2, <1>3 DEF ThumbTypeOK
<1>5. /\ pixSize' \in [File -> Sizes \cup {0}] /\ pixSize'[f] = s
      /\ \A g \in File \ {f} : pixSize'[g] = pixSize[g]
  BY <1>3 DEF ThumbTypeOK
<1>6. /\ cached' \in [File -> [Sizes -> Nat]]
      /\ \A g \in File \ {f} : cached'[g] = cached[g]
      /\ \A t \in Sizes : \/ cached'[f][t] = cached[f][t]
                          \/ thumbnail /\ cached'[f][t] = Found(f, s)
  BY <1>1, <1>3 DEF ThumbTypeOK
<1> QED  BY <1>2, <1>4, <1>5, <1>6

\* What the service supports is asked once.
LEMMA FilesQueued ==
  ASSUME ThumbTypeOK, NEW fs \in SUBSET File,
         NEW before \in [File -> {Unknown, None, Ready, Loading}], NEW request \in BOOLEAN,
         QueueFiles(fs, before, request)
  PROVE  /\ flags' \in [File -> {Unknown, None, Ready, Loading}]
         /\ last' \in Nat /\ sent' \in Seq([req : Int, files : SUBSET File])
         /\ \A f \in File : IsSupported(f, lists) => IsSupported(f, lists')
         /\ \A f \in File : IF f \in fs /\ IsSupported(f, lists')
                              THEN flags'[f] = Loading ELSE flags'[f] = before[f]
<1>1. PICK offers \in IF fs = {} \/ lists # <<>> THEN {lists} ELSE {<<>>, Supported} :
        LET asked == {f \in fs : IsSupported(f, offers)} IN
        /\ lists' = offers
        /\ flags' = [f \in File |-> IF f \in asked THEN Loading ELSE before[f]]
        /\ IF asked = {} THEN UNCHANGED <<last, calls, sent>> ELSE QueueAsync(asked)
  BY DEF QueueFiles
<1> DEFINE asked == {f \in fs : IsSupported(f, offers)}
<1>2. last' \in Nat /\ sent' \in Seq([req : Int, files : SUBSET File])
  <2>1. CASE asked = {}
    BY <1>1, <2>1 DEF ThumbTypeOK
  <2>2. CASE asked # {}
    <3>1. last' = last + 1 /\ sent' = Append(sent, [req |-> last', files |-> asked])
      BY <1>1, <2>2 DEF QueueAsync
    <3>2. last' \in Nat /\ [req |-> last', files |-> asked] \in [req : Int, files : SUBSET File]
      BY <3>1 DEF ThumbTypeOK
    <3> QED  BY <3>1, <3>2, AppendProperties DEF ThumbTypeOK
  <2> QED  BY <2>1, <2>2
<1>3. \A f \in File : IsSupported(f, lists) => IsSupported(f, lists')
  <2>1. \A f : ~ IsSupported(f, <<>>)
    BY DEF IsSupported
  <2>2. lists' = lists \/ lists = <<>>
    BY <1>1
  <2> QED  BY <2>1, <2>2
<1> QED  BY <1>1, <1>2, <1>3

\* A file of which nothing changes but that its thumbnail is made, or that it
\* meets a mishap or a change, stays right.
Kept(f) ==
  /\ flags'[f] = flags[f] /\ path'[f] = path[f] /\ pix'[f] = pix[f]
  /\ pixSize'[f] = pixSize[f] /\ \A s \in Sizes : cached'[f][s] \in {0, cached[f][s]}
  /\ thumb'[f] \in {thumb[f], disk[f]}
  /\ disk'[f] = disk[f] \/ f \in changed'
  /\ f \in changed => f \in changed'
  /\ mishap'[f] = "none" => mishap[f] = "none"
  /\ IsSupported(f, lists) => IsSupported(f, lists')

FileRight(f) == Findable(f) /\ Awaited(f) /\ UpToDate(f)

LEMMA FileKept ==
  ASSUME ThumbTypeOK, NEW f \in File, FileRight(f), Kept(f)
  PROVE  FileRight(f)'
<1>1. disk[f] # 0
  BY DEF ThumbTypeOK
<1>2. thumb[f] # 0 => thumb'[f] # 0
  BY <1>1 DEF Kept
<1>3. Findable(f)'
  BY <1>2 DEF Kept, FileRight, Findable
<1>4. Awaited(f)'
  BY DEF Kept, FileRight, Awaited
<1>5. ASSUME f \notin changed', mishap'[f] = "none"
      PROVE  /\ \A s \in Sizes : cached'[f][s] \in {0, disk'[f]}
             /\ flags'[f] = Ready => /\ path'[f] /\ thumb'[f] = disk'[f]
                                     /\ pixSize'[f] # 0 => pix'[f] = disk'[f]
  <2>1. f \notin changed /\ mishap[f] = "none" /\ disk'[f] = disk[f]
    BY <1>5 DEF Kept
  <2> QED  BY <2>1 DEF Kept, FileRight, UpToDate
<1> QED  BY <1>3, <1>4, <1>5 DEF FileRight, UpToDate

LEMMA MishapsGrow ==
  ASSUME ThumbTypeOK, NEW fs, NEW reason \in Reasons, Blame(fs, reason)
  PROVE  /\ mishap' \in [File -> Reasons \cup {"none"}]
         /\ \A f \in File : mishap'[f] = "none" => mishap[f] = "none" /\ f \notin fs
  BY DEF Blame, ThumbTypeOK, Reasons

\* The icon of a file that is ready, or shows what its state says, is made anew.
LEMMA IconRight ==
  ASSUME ThumbTypeOK, NEW f \in File, FileRight(f), NEW s \in Sizes,
         flags'[f] = flags[f], path'[f] = path[f], UpdateIcon(f, s, flags[f], path[f]),
         disk' = disk, thumb' = thumb, changed' = changed, mishap' = mishap, lists' = lists
  PROVE  FileRight(f)'
<1>0. path[f] \in BOOLEAN /\ s # 0 /\ disk[f] \in Nat \ {0} /\ thumb[f] \in Nat
  BY SizesAssumption DEF ThumbTypeOK
<1>1. /\ pixSize'[f] = s
      /\ pix'[f] = Wait => flags[f] = Loading
      /\ Found(f, s) # 0 /\ flags[f] = Ready /\ path[f] => pix'[f] = Found(f, s)
      /\ \A t \in Sizes : cached'[f][t] = cached[f][t]
                          \/ (flags[f] = Ready /\ path[f] /\ cached'[f][t] = Found(f, s))
  BY <1>0, IconMade
<1>2. Found(f, s) # 0 => thumb[f] # 0
  BY DEF Found, FileRight, Findable
<1>3. Findable(f)'
  BY <1>1, <1>2 DEF FileRight, Findable
<1>4. Awaited(f)'
  BY <1>0, <1>1 DEF FileRight, Awaited
<1>5. UpToDate(f)'
  <2>1. SUFFICES ASSUME f \notin changed, mishap[f] = "none"
                 PROVE  /\ \A t \in Sizes : cached'[f][t] \in {0, disk[f]}
                        /\ flags[f] = Ready => /\ path[f] /\ thumb[f] = disk[f]
                                               /\ pix'[f] = disk[f]
    BY DEF UpToDate
  <2>2. /\ \A t \in Sizes : cached[f][t] \in {0, disk[f]}
        /\ flags[f] = Ready => path[f] /\ thumb[f] = disk[f]
    BY <2>1 DEF FileRight, UpToDate
  <2>3. flags[f] = Ready => Found(f, s) = disk[f]
    BY <2>2 DEF Found
  <2> QED  BY <1>0, <1>1, <2>2, <2>3
<1> QED  BY <1>3, <1>4, <1>5 DEF FileRight

-------------------------------------------------------------------------------
(* The steps.                                                              *)

LEMMA DrawKeeps ==
  ASSUME ThumbIInv, NEW f \in File, Draw(f)
  PROVE  ThumbIInv'
<1>1. /\ UpdateIcon(f, size, flags[f], path[f])
      /\ UNCHANGED <<contents, flags, path, zoom, lists, last, own, calls, maps, idles,
                     service, dropped, mishap>>
  BY DEF Draw
<1>2. ThumbTypeOK /\ size \in Sizes /\ path[f] \in BOOLEAN
  BY DEF ThumbIInv, ThumbTypeOK
<1>3. /\ pix' \in [File -> Int] /\ pixSize' \in [File -> Sizes \cup {0}]
      /\ cached' \in [File -> [Sizes -> Nat]]
      /\ \A g \in File \ {f} : pix'[g] = pix[g] /\ pixSize'[g] = pixSize[g]
                               /\ cached'[g] = cached[g]
  BY <1>1, <1>2, IconMade
<1>4. ThumbTypeOK'
  BY <1>1, <1>2, <1>3 DEF ThumbTypeOK, contents, zoom, maps, service
<1>5. Announced'
  BY <1>1 DEF ThumbIInv, Announced, WithThumb, contents, service
<1>6. ASSUME NEW g \in File PROVE FileRight(g)'
  <2>1. FileRight(g)
    BY DEF ThumbIInv, FileRight
  <2>2. CASE g = f
    BY <1>1, <1>2, <2>1, <2>2, IconRight DEF contents
  <2>3. CASE g # f
    BY <1>1, <1>2, <1>3, <2>1, <2>3, FileKept DEF Kept, contents
  <2> QED  BY <2>2, <2>3
<1> QED  BY <1>4, <1>5, <1>6 DEF ThumbIInv, FileRight

LEMMA ReapKeeps ==
  ASSUME ThumbIInv, NEW f \in File, NEW s \in Sizes, Reap(f, s)
  PROVE  ThumbIInv'
<1>1. /\ cached' = [cached EXCEPT ![f][s] = 0]
      /\ UNCHANGED <<contents, flags, path, pix, pixSize, zoom, lists, last, own, calls,
                     maps, idles, service, dropped, mishap>>
  BY DEF Reap
<1>2. /\ cached' \in [File -> [Sizes -> Nat]]
      /\ \A g \in File, t \in Sizes : cached'[g][t] \in {0, cached[g][t]}
  BY <1>1 DEF ThumbIInv, ThumbTypeOK
<1>3. ThumbTypeOK'
  BY <1>1, <1>2 DEF ThumbIInv, ThumbTypeOK, contents, zoom, maps, service
<1>4. Announced'
  BY <1>1 DEF ThumbIInv, Announced, WithThumb, contents, service
<1>5. ASSUME NEW g \in File PROVE FileRight(g)'
  <2>1. FileRight(g) /\ ThumbTypeOK
    BY DEF ThumbIInv, FileRight
  <2>2. Kept(g)
    BY <1>1, <1>2 DEF Kept, contents
  <2> QED  BY <2>1, <2>2, FileKept
<1> QED  BY <1>3, <1>4, <1>5 DEF ThumbIInv, FileRight

\* The tables of requests do not matter.
LEMMA ScrollKeeps ==
  ASSUME ThumbIInv, NEW visible \in SUBSET File, Scroll(visible)
  PROVE  ThumbIInv'
<1> DEFINE fs == {f \in visible : Unasked(f)}
<1>1. /\ QueueFiles(fs, flags, TRUE)
      /\ UNCHANGED <<contents, path, icons, size, zooms, walk, idles, tasks, handle, bus, mishap>>
  BY DEF Scroll
<1>2. ThumbTypeOK /\ fs \in SUBSET File
      /\ flags \in [File -> {Unknown, None, Ready, Loading}]
  BY DEF ThumbIInv, ThumbTypeOK
<1> HIDE DEF fs
<1>3. /\ flags' \in [File -> {Unknown, None, Ready, Loading}]
      /\ last' \in Nat /\ sent' \in Seq([req : Int, files : SUBSET File])
      /\ \A f \in File : IsSupported(f, lists) => IsSupported(f, lists')
      /\ \A f \in File : IF f \in fs /\ IsSupported(f, lists')
                           THEN flags'[f] = Loading ELSE flags'[f] = flags[f]
  BY <1>1, <1>2, FilesQueued
<1>4. ThumbTypeOK'
  BY <1>1, <1>3 DEF ThumbIInv, ThumbTypeOK, contents, icons
<1>5. Announced'
  BY <1>1 DEF ThumbIInv, Announced, WithThumb, contents
<1>6. ASSUME NEW f \in File PROVE FileRight(f)'
  <2>1. FileRight(f)
    BY DEF ThumbIInv, FileRight
  <2>2. CASE flags'[f] = flags[f]
    BY <1>1, <1>2, <1>3, <2>1, <2>2, FileKept DEF Kept, contents, icons
  <2>3. CASE flags'[f] # flags[f]
    <3>1. flags'[f] = Loading /\ IsSupported(f, lists')
      BY <1>3, <2>3
    <3>2. Loading # Ready
      BY DEF Loading, Ready
    <3>3. Findable(f)' /\ Awaited(f)'
      BY <1>1, <1>3, <2>1, <3>1, <3>2 DEF FileRight, Findable, Awaited, contents, icons
    <3>4. UpToDate(f)'
      BY <1>1, <2>1, <3>1, <3>2 DEF FileRight, UpToDate, contents, icons
    <3> QED  BY <3>3, <3>4 DEF FileRight
  <2> QED  BY <2>2, <2>3
<1> QED  BY <1>4, <1>5, <1>6 DEF ThumbIInv, FileRight

LEMMA ModifyKeeps ==
  ASSUME ThumbIInv, NEW f \in File, Modify(f)
  PROVE  ThumbIInv'
<1>1. /\ disk' = [disk EXCEPT ![f] = @ + 1] /\ changed' = changed \cup {f}
      /\ UNCHANGED <<thumb, flags, path, icons, zoom, lists, last, own, calls, maps,
                     idles, service, dropped, mishap>>
  BY DEF Modify
<1>2. /\ disk' \in [File -> Nat \ {0}]
      /\ \A g \in File \ {f} : disk'[g] = disk[g]
  BY <1>1 DEF ThumbIInv, ThumbTypeOK
<1>3. ThumbTypeOK'
  BY <1>1, <1>2 DEF ThumbIInv, ThumbTypeOK, icons, zoom, maps, service
<1>4. Announced'
  BY <1>1 DEF ThumbIInv, Announced, WithThumb, service
<1>5. ASSUME NEW g \in File PROVE FileRight(g)'
  <2>1. FileRight(g) /\ ThumbTypeOK
    BY DEF ThumbIInv, FileRight
  <2>2. Kept(g)
    BY <1>1, <1>2 DEF Kept, icons
  <2> QED  BY <2>1, <2>2, FileKept
<1> QED  BY <1>3, <1>4, <1>5 DEF ThumbIInv, FileRight

\* The view learns of a change: what was known of the file is forgotten, the
\* cache is emptied, and it is asked for again if it was before.
LEMMA NotifyKeeps ==
  ASSUME ThumbIInv, NEW f \in File, Notify(f)
  PROVE  ThumbIInv'
<1> DEFINE known == path[f] \/ thumb[f] # 0
           before == [flags EXCEPT ![f] = IF known THEN None ELSE @]
<1>1. /\ changed' = changed \ {f} /\ path' = [path EXCEPT ![f] = known]
      /\ RemoveCache(f, known) /\ QueueFiles({f}, before, FALSE)
      /\ mishap' = [mishap EXCEPT ![f] = "none"]
      /\ UNCHANGED <<disk, thumb, pix, pixSize, zoom, maps, idles, tasks, handle, bus, dropped>>
  BY DEF Notify
<1>2. ThumbTypeOK /\ known \in BOOLEAN
  BY DEF ThumbIInv, ThumbTypeOK
<1>3. before \in [File -> {Unknown, None, Ready, Loading}]
      /\ before[f] = (IF known THEN None ELSE flags[f])
      /\ \A g \in File \ {f} : before[g] = flags[g]
  BY <1>2 DEF ThumbTypeOK
<1>4. cached' = IF known THEN [cached EXCEPT ![f] = [s \in Sizes |-> 0]] ELSE cached
  BY <1>1 DEF RemoveCache
<1>k. known <=> path[f] \/ thumb[f] # 0
  OBVIOUS
<1> HIDE DEF known, before
<1>5. /\ flags' \in [File -> {Unknown, None, Ready, Loading}]
      /\ last' \in Nat /\ sent' \in Seq([req : Int, files : SUBSET File])
      /\ \A g \in File : IsSupported(g, lists) => IsSupported(g, lists')
      /\ \A g \in File : IF g \in {f} /\ IsSupported(g, lists')
                           THEN flags'[g] = Loading ELSE flags'[g] = before[g]
  BY <1>1, <1>2, <1>3, FilesQueued, ZenonT(40)
<1>6. /\ cached' \in [File -> [Sizes -> Nat]]
      /\ \A g \in File, s \in Sizes : cached'[g][s] \in {0, cached[g][s]}
      /\ known => \A s \in Sizes : cached'[f][s] = 0
  BY <1>2, <1>4 DEF ThumbTypeOK
<1>7. /\ path' \in [File -> BOOLEAN] /\ mishap' \in [File -> Reasons \cup {"none"}]
      /\ path'[f] = known
      /\ \A g \in File \ {f} : path'[g] = path[g] /\ mishap'[g] = mishap[g]
  <2>1. /\ path' \in [File -> BOOLEAN] /\ path'[f] = known
        /\ \A g \in File \ {f} : path'[g] = path[g]
    BY <1>1, <1>2, Zenon DEF ThumbTypeOK
  <2>2. /\ mishap' \in [File -> Reasons \cup {"none"}]
        /\ \A g \in File \ {f} : mishap'[g] = mishap[g]
    BY <1>1, <1>2 DEF ThumbTypeOK
  <2> QED  BY <2>1, <2>2
<1>8. ThumbTypeOK'
  BY <1>1, <1>2, <1>5, <1>6, <1>7 DEF ThumbTypeOK, zoom
<1>9. Announced'
  BY <1>1 DEF ThumbIInv, Announced, WithThumb
<1>10. FileRight(f)'
  <2>1. FileRight(f)
    BY DEF ThumbIInv, FileRight
  <2>2. None # Ready /\ None # Loading /\ Loading # Ready
    BY DEF None, Ready, Loading
  <2>3. \A s \in Sizes : cached'[f][s] = 0
    BY <1>6, <2>1, <1>k DEF FileRight, Findable
  <2>4. flags'[f] # Ready
    BY <1>3, <1>5, <2>1, <2>2, <1>k DEF FileRight, Findable
  <2>5. Findable(f)' /\ UpToDate(f)'
    BY <2>3, <2>4 DEF Findable, UpToDate
  <2>6. IsSupported(f, lists) => flags'[f] = Loading /\ IsSupported(f, lists')
    BY <1>5
  <2>7. flags'[f] = Loading => IsSupported(f, lists')
    BY <1>3, <1>5, <2>1, <2>2 DEF FileRight, Awaited
  <2>8. Awaited(f)'
    BY <1>1, <2>1, <2>6, <2>7 DEF FileRight, Awaited
  <2> QED  BY <2>5, <2>8 DEF FileRight
<1>11. ASSUME NEW g \in File \ {f} PROVE FileRight(g)'
  <2>1. FileRight(g)
    BY DEF ThumbIInv, FileRight
  <2>2. flags'[g] = flags[g]
    BY <1>3, <1>5
  <2>3. Kept(g)
    BY <1>1, <1>5, <1>6, <1>7, <2>2 DEF Kept
  <2> QED  BY <1>2, <2>1, <2>3, FileKept
<1> QED  BY <1>8, <1>9, <1>10, <1>11 DEF ThumbIInv, FileRight

\* A thumbnail is made, here or for another program.
LEMMA ThumbMade ==
  ASSUME ThumbTypeOK, NEW f \in File, thumb' = [thumb EXCEPT ![f] = disk[f]]
  PROVE  /\ thumb' \in [File -> Nat]
         /\ \A g \in File : thumb'[g] \in {thumb[g], disk[g]}
         /\ WithThumb \subseteq WithThumb' /\ {f} \subseteq WithThumb'
<1>1. thumb' \in [File -> Nat] /\ \A g \in File : thumb'[g] \in {thumb[g], disk[g]}
  BY DEF ThumbTypeOK
<1>2. thumb'[f] = disk[f] /\ \A g \in File : disk[g] # 0
  BY DEF ThumbTypeOK
<1> QED  BY <1>1, <1>2 DEF WithThumb

\* The service does nothing to the files but that.
LEMMA ServiceKeeps ==
  ASSUME ThumbIInv, thumb' \in [File -> Nat],
         \A f \in File : thumb'[f] \in {thumb[f], disk[f]},
         WithThumb \subseteq WithThumb',
         handle' \in Nat, sent' \in Seq([req : Int, files : SUBSET File]),
         tasks' \subseteq Task, bus' \in Seq(Message), Announce(bus', WithThumb'),
         UNCHANGED <<disk, changed, flags, path, icons, zoom, lists, last, idles, mishap>>
  PROVE  ThumbIInv'
<1>1. ThumbTypeOK'
  BY DEF ThumbIInv, ThumbTypeOK, icons, zoom
<1>2. Announced'
  BY AnnounceSame DEF ThumbIInv, Announced
<1>3. ASSUME NEW f \in File PROVE FileRight(f)'
  <2>1. FileRight(f) /\ ThumbTypeOK
    BY DEF ThumbIInv, FileRight
  <2>2. \A s \in Sizes : cached'[f][s] = cached[f][s]
    BY DEF icons
  <2>3. Kept(f)
    BY <2>2 DEF Kept, icons
  <2> QED  BY <2>1, <2>3, FileKept
<1> QED  BY <1>1, <1>2, <1>3 DEF ThumbIInv, FileRight

LEMMA AcceptKeeps ==
  ASSUME ThumbIInv, Accept
  PROVE  ThumbIInv'
<1>1. /\ sent \in Seq([req : Int, files : SUBSET File]) /\ sent # <<>>
      /\ sent' = Tail(sent) /\ handle \in Nat /\ bus \in Seq(Message) /\ tasks \subseteq Task
      /\ UNCHANGED <<disk, thumb, changed, flags, path, icons, zoom, lists, last, idles, mishap>>
  BY DEF Accept, ThumbIInv, ThumbTypeOK, contents
<1>2. /\ Head(sent) \in [req : Int, files : SUBSET File]
      /\ sent' \in Seq([req : Int, files : SUBSET File])
  BY <1>1, HeadTailProperties
<1> DEFINE q == Head(sent)
<1>3. q.req \in Int /\ q.files \in SUBSET File
  BY <1>2
<1>4. \/ /\ handle' = handle + 1
         /\ tasks' = tasks \cup {[handle |-> handle', req |-> q.req, left |-> q.files]}
         /\ bus' = Append(bus, [type |-> "reply", req |-> q.req,
                                handle |-> handle', files |-> q.files])
      \/ /\ bus' = Append(bus, [type |-> "refusal", req |-> q.req,
                                handle |-> 0, files |-> q.files])
         /\ UNCHANGED <<handle, tasks>>
  BY DEF Accept
<1> HIDE DEF q
<1>5. Announce(bus, WithThumb) /\ WithThumb' = WithThumb
  BY <1>1 DEF ThumbIInv, Announced, WithThumb
<1>6. handle' \in Nat /\ tasks' \subseteq Task
  BY <1>1, <1>3, <1>4 DEF Task
<1>7. bus' \in Seq(Message) /\ Announce(bus', WithThumb')
  <2>1. PICK m \in Message : bus' = Append(bus, m) /\ m.type # "ready"
    <3>1. [type |-> "reply", req |-> q.req, handle |-> handle', files |-> q.files] \in Message
      BY <1>3, <1>6 DEF Message, Messages
    <3>2. [type |-> "refusal", req |-> q.req, handle |-> 0, files |-> q.files] \in Message
      BY <1>3 DEF Message, Messages
    <3> QED  BY <1>4, <3>1, <3>2
  <2> QED  BY <1>1, <1>5, <2>1, AnnounceMore
<1>8. thumb' \in [File -> Nat] /\ \A f \in File : thumb'[f] \in {thumb[f], disk[f]}
  BY <1>1 DEF ThumbIInv, ThumbTypeOK
<1> QED  BY <1>1, <1>2, <1>5, <1>6, <1>7, <1>8, ServiceKeeps

\* What is announced is there.
LEMMA SignalTrue ==
  ASSUME ThumbIInv, NEW type \in Messages, NEW j, j.req \in Int, j.handle \in Int,
         NEW fs \in SUBSET File, Signal(type, j, fs),
         WithThumb \subseteq WithThumb', type = "ready" => fs \subseteq WithThumb'
  PROVE  bus' \in Seq(Message) /\ Announce(bus', WithThumb')
<1> DEFINE m == [type |-> type, req |-> j.req, handle |-> j.handle, files |-> fs]
<1>1. m \in Message /\ m.type = type /\ m.files = fs
  BY DEF Message
<1>2. bus' = Append(bus, m)
  BY DEF Signal
<1> HIDE DEF m
<1>3. bus \in Seq(Message) /\ Announce(bus, WithThumb)
  BY DEF ThumbIInv, ThumbTypeOK, Announced
<1> QED  BY <1>1, <1>2, <1>3, AnnounceMore

LEMMA ForeignKeeps ==
  ASSUME ThumbIInv, NEW f \in File, Foreign(f)
  PROVE  ThumbIInv'
<1> DEFINE j == [req |-> 0, handle |-> 0]
<1>1. /\ thumb' = [thumb EXCEPT ![f] = disk[f]] /\ Signal("ready", j, {f})
      /\ UNCHANGED <<disk, changed, flags, path, icons, zoom, lists, last, idles, sent,
                     tasks, handle, mishap>>
  BY DEF Foreign
<1>2. j.req \in Int /\ j.handle \in Int
  OBVIOUS
<1> HIDE DEF j
<1>3. ThumbTypeOK
  BY DEF ThumbIInv
<1>4. /\ thumb' \in [File -> Nat] /\ \A g \in File : thumb'[g] \in {thumb[g], disk[g]}
      /\ WithThumb \subseteq WithThumb' /\ {f} \subseteq WithThumb'
  BY <1>1, <1>3, ThumbMade
<1>5. bus' \in Seq(Message) /\ Announce(bus', WithThumb')
  BY <1>1, <1>2, <1>4, SignalTrue DEF Messages
<1>6. handle' \in Nat /\ sent' \in Seq([req : Int, files : SUBSET File]) /\ tasks' \subseteq Task
  BY <1>1, <1>3 DEF ThumbTypeOK
<1> QED  BY <1>1, <1>4, <1>5, <1>6, ServiceKeeps

LEMMA WorkKeeps ==
  ASSUME ThumbIInv, NEW j \in tasks, NEW f \in j.left, Work(j, f)
  PROVE  ThumbIInv'
<1>1. /\ tasks' = (tasks \ {j}) \cup {[j EXCEPT !.left = @ \ {f}]}
      /\ \/ thumb' = [thumb EXCEPT ![f] = disk[f]] /\ Signal("ready", j, {f})
         \/ thumb' = thumb /\ Signal("error", j, {f})
      /\ UNCHANGED <<disk, changed, flags, path, icons, zoom, lists, last, idles, sent,
                     handle, mishap>>
  BY DEF Work
<1>2. ThumbTypeOK
  BY DEF ThumbIInv
<1>3. j \in Task
  BY <1>2 DEF ThumbTypeOK
<1>4. f \in File /\ j.req \in Int /\ j.handle \in Int /\ [j EXCEPT !.left = @ \ {f}] \in Task
  BY <1>3 DEF Task
<1>5. /\ thumb' \in [File -> Nat] /\ \A g \in File : thumb'[g] \in {thumb[g], disk[g]}
      /\ WithThumb \subseteq WithThumb'
      /\ bus' \in Seq(Message) /\ Announce(bus', WithThumb')
  <2>1. CASE thumb' = [thumb EXCEPT ![f] = disk[f]] /\ Signal("ready", j, {f})
    <3>1. /\ thumb' \in [File -> Nat] /\ \A g \in File : thumb'[g] \in {thumb[g], disk[g]}
          /\ WithThumb \subseteq WithThumb' /\ {f} \subseteq WithThumb'
      BY <1>2, <1>4, <2>1, ThumbMade
    <3>2. "ready" \in Messages /\ {f} \in SUBSET File
      BY <1>4 DEF Messages
    <3> QED  BY <1>4, <2>1, <3>1, <3>2, SignalTrue
  <2>2. CASE thumb' = thumb /\ Signal("error", j, {f})
    <3>1. thumb' \in [File -> Nat] /\ WithThumb' = WithThumb
      BY <1>2, <2>2 DEF ThumbTypeOK, WithThumb
    <3> QED  BY <1>4, <2>2, <3>1, SignalTrue DEF Messages
  <2> QED  BY <1>1, <2>1, <2>2
<1>6. handle' \in Nat /\ sent' \in Seq([req : Int, files : SUBSET File]) /\ tasks' \subseteq Task
  BY <1>1, <1>2, <1>4 DEF ThumbTypeOK
<1> QED  BY <1>1, <1>5, <1>6, ServiceKeeps

LEMMA FinishKeeps ==
  ASSUME ThumbIInv, NEW j \in tasks, Finish(j)
  PROVE  ThumbIInv'
<1>1. /\ tasks' = tasks \ {j} /\ Signal("finished", j, {})
      /\ UNCHANGED <<disk, thumb, changed, flags, path, icons, zoom, lists, last, idles, sent,
                     handle, mishap>>
  BY DEF Finish, contents
<1>2. ThumbTypeOK
  BY DEF ThumbIInv
<1>3. j.req \in Int /\ j.handle \in Int
  BY <1>2 DEF ThumbTypeOK, Task
<1>4. thumb' \in [File -> Nat] /\ WithThumb' = WithThumb
  BY <1>1, <1>2 DEF ThumbTypeOK, WithThumb
<1>5. bus' \in Seq(Message) /\ Announce(bus', WithThumb')
  BY <1>1, <1>3, <1>4, SignalTrue DEF Messages
<1>6. handle' \in Nat /\ sent' \in Seq([req : Int, files : SUBSET File]) /\ tasks' \subseteq Task
  BY <1>1, <1>2 DEF ThumbTypeOK
<1> QED  BY <1>1, <1>4, <1>5, <1>6, ServiceKeeps

\* What arrives becomes an idle function, or a mishap.
LEMMA ReceiveKeeps ==
  ASSUME ThumbIInv, Receive
  PROVE  ThumbIInv'
<1> DEFINE m == Head(bus)
<1>1. /\ bus # <<>> /\ bus' = Tail(bus)
      /\ \/ m.type \in {"reply", "refusal"} /\ Reply(m)
         \/ m.type = "ready" /\ ReadySignal(m)
         \/ m.type = "error" /\ ErrorSignal(m)
         \/ m.type = "finished" /\ FinishedSignal(m)
      /\ UNCHANGED <<contents, flags, path, icons, zoom, lists, last, own, sent, tasks, handle>>
  BY DEF Receive
<1>2. ThumbTypeOK /\ Announced
  BY DEF ThumbIInv
<1>3. /\ m \in Message /\ bus' \in Seq(Message) /\ Announce(bus', WithThumb)
      /\ m.type = "ready" => m.files \subseteq WithThumb
  BY <1>1, <1>2, AnnounceLess DEF ThumbTypeOK, Announced
<1> HIDE DEF m
<1>4. m.files \in SUBSET File
  BY <1>3 DEF Message
<1>5. idles \in Seq(IdleCall) /\ Announce(idles, WithThumb)
  BY <1>2 DEF ThumbTypeOK, Announced
<1>6. /\ \/ mishap' = mishap
         \/ Blame(m.files, "refused")
         \/ Blame(m.files, "ignored")
      /\ \/ idles' = idles
         \/ m.type = "ready" /\ idles' = Append(idles, [type |-> "ready", files |-> m.files])
         \/ idles' = Append(idles, [type |-> "error", files |-> m.files])
  BY <1>1 DEF Reply, ReadySignal, ErrorSignal, FinishedSignal
<1>7. /\ mishap' \in [File -> Reasons \cup {"none"}]
      /\ \A f \in File : mishap'[f] = "none" => mishap[f] = "none"
  BY <1>2, <1>6, MishapsGrow DEF ThumbTypeOK, Reasons
<1>8. idles' \in Seq(IdleCall) /\ Announce(idles', WithThumb)
  <2>1. CASE idles' = idles
    BY <1>5, <2>1
  <2>2. CASE m.type = "ready" /\ idles' = Append(idles, [type |-> "ready", files |-> m.files])
    <3>1. [type |-> "ready", files |-> m.files] \in IdleCall
      BY <1>4 DEF IdleCall
    <3> QED  BY <1>3, <1>5, <2>2, <3>1, AnnounceMore
  <2>3. CASE idles' = Append(idles, [type |-> "error", files |-> m.files])
    <3>1. [type |-> "error", files |-> m.files] \in IdleCall
      BY <1>4 DEF IdleCall
    <3> QED  BY <1>5, <2>3, <3>1, AnnounceMore
  <2> QED  BY <1>6, <2>1, <2>2, <2>3
<1>9. ThumbTypeOK'
  BY <1>1, <1>2, <1>3, <1>7, <1>8 DEF ThumbTypeOK, contents, icons, zoom
<1>10. WithThumb' = WithThumb
  BY <1>1 DEF WithThumb, contents
<1>11. Announced'
  BY <1>3, <1>8, <1>10 DEF Announced
<1>12. ASSUME NEW f \in File PROVE FileRight(f)'
  <2>1. FileRight(f)
    BY DEF ThumbIInv, FileRight
  <2>2. Kept(f)
    BY <1>1, <1>7 DEF Kept, contents, icons
  <2> QED  BY <1>2, <2>1, <2>2, FileKept
<1> QED  BY <1>9, <1>11, <1>12 DEF ThumbIInv, FileRight

\* An icon is made for a thumbnail that is ready.
LEMMA ReadyRight ==
  ASSUME ThumbTypeOK, NEW f \in File, FileRight(f), NEW s \in Sizes,
         flags'[f] = Ready, path'[f] = TRUE, UpdateIcon(f, s, Ready, TRUE),
         disk' = disk, thumb' = thumb, changed' = changed, lists' = lists,
         mishap'[f] = "none" => /\ mishap[f] = "none"
                                /\ thumb[f] = disk[f] \/ f \in changed
  PROVE  FileRight(f)'
<1>0. /\ s # 0 /\ disk[f] \in Nat \ {0} /\ thumb[f] \in Nat /\ Ready # Loading
  BY SizesAssumption DEF ThumbTypeOK, Ready, Loading
<1>1. /\ pixSize'[f] = s
      /\ pix'[f] # Wait
      /\ Found(f, s) # 0 => pix'[f] = Found(f, s)
      /\ \A t \in Sizes : cached'[f][t] = cached[f][t] \/ cached'[f][t] = Found(f, s)
  BY <1>0, IconMade, ZenonT(40)
<1>2. Found(f, s) # 0 => thumb[f] # 0
  BY DEF Found, FileRight, Findable
<1>3. Findable(f)'
  BY <1>1, <1>2 DEF FileRight, Findable
<1>4. Awaited(f)'
  BY <1>0, <1>1 DEF Awaited
<1>5. UpToDate(f)'
  <2>1. SUFFICES ASSUME f \notin changed, mishap'[f] = "none"
                 PROVE  /\ \A t \in Sizes : cached'[f][t] \in {0, disk[f]}
                        /\ thumb[f] = disk[f] /\ pix'[f] = disk[f]
    BY DEF UpToDate
  <2>2. thumb[f] = disk[f] /\ \A t \in Sizes : cached[f][t] \in {0, disk[f]}
    BY <2>1 DEF FileRight, UpToDate
  <2>3. Found(f, s) = disk[f]
    BY <2>2 DEF Found
  <2> QED  BY <1>0, <1>1, <2>2, <2>3
<1> QED  BY <1>3, <1>4, <1>5 DEF FileRight

\* A thumbnail is there.
LEMMA ReadyIdleKeeps ==
  ASSUME ThumbTypeOK, \A g \in File : FileRight(g), NEW f \in WithThumb, ReadyIdle(f),
         UNCHANGED <<contents, lists>>
  PROVE  /\ flags' \in [File -> {Unknown, None, Ready, Loading}] /\ path' \in [File -> BOOLEAN]
         /\ pix' \in [File -> Int] /\ pixSize' \in [File -> Sizes \cup {0}]
         /\ cached' \in [File -> [Sizes -> Nat]]
         /\ mishap' \in [File -> Reasons \cup {"none"}]
         /\ \A g \in File : FileRight(g)'
<1>0. f \in File /\ thumb[f] # 0 /\ "undrawn" \in Reasons /\ "overtaken" \in Reasons
  BY DEF WithThumb, Reasons
<1>1. /\ flags' = [flags EXCEPT ![f] = Ready]
      /\ \/ pixSize[f] = 0 /\ UNCHANGED <<path, icons>>
         \/ /\ pixSize[f] # 0
            /\ path' = [path EXCEPT ![f] = TRUE] /\ UpdateIcon(f, pixSize[f], Ready, TRUE)
  BY DEF ReadyIdle
<1>2. \/ ~ path'[f] /\ Blame({f}, "undrawn")
      \/ path'[f] /\ thumb[f] # disk[f] /\ f \notin changed /\ Blame({f}, "overtaken")
      \/ path'[f] /\ (thumb[f] = disk[f] \/ f \in changed) /\ mishap' = mishap
  BY DEF ReadyIdle
<1>3. /\ flags' \in [File -> {Unknown, None, Ready, Loading}] /\ flags'[f] = Ready
      /\ \A g \in File \ {f} : flags'[g] = flags[g]
  BY <1>0, <1>1 DEF ThumbTypeOK
<1>4. /\ mishap' \in [File -> Reasons \cup {"none"}]
      /\ \A g \in File : mishap'[g] = "none" => mishap[g] = "none"
      /\ mishap'[f] = "none" => path'[f] /\ (thumb[f] = disk[f] \/ f \in changed)
  <2>1. ASSUME NEW reason \in Reasons, Blame({f}, reason)
        PROVE  /\ mishap' \in [File -> Reasons \cup {"none"}]
               /\ \A g \in File : mishap'[g] = "none" => mishap[g] = "none" /\ g \notin {f}
    BY <2>1, MishapsGrow
  <2>2. CASE mishap' = mishap /\ path'[f] /\ (thumb[f] = disk[f] \/ f \in changed)
    BY <2>2 DEF ThumbTypeOK
  <2> QED  BY <1>0, <1>2, <2>1, <2>2
<1>5. CASE pixSize[f] = 0 /\ UNCHANGED <<path, icons>>
  <2>1. /\ path' = path /\ pix' = pix /\ pixSize' = pixSize /\ cached' = cached
    BY <1>5 DEF icons
  <2>2. ASSUME NEW g \in File \ {f} PROVE FileRight(g)'
    <3>1. Kept(g)
      BY <1>3, <1>4, <2>1 DEF Kept, contents
    <3> QED  BY <3>1, FileKept
  <2>3. FileRight(f)'
    <3>1. FileRight(f)
      BY <1>0
    <3>2. Findable(f)'
      BY <1>0, <2>1, <3>1 DEF FileRight, Findable, contents
    <3>3. Ready # Loading
      BY DEF Ready, Loading
    <3>4. Awaited(f)'
      BY <1>3, <1>5, <2>1, <3>1, <3>3 DEF FileRight, Awaited
    <3>5. UpToDate(f)'
      <4>1. SUFFICES ASSUME f \notin changed, mishap'[f] = "none"
                     PROVE  /\ \A t \in Sizes : cached[f][t] \in {0, disk[f]}
                            /\ path'[f] /\ thumb[f] = disk[f]
        BY <1>5, <2>1 DEF UpToDate, contents
      <4>2. mishap[f] = "none" /\ path'[f] /\ thumb[f] = disk[f]
        BY <1>0, <1>4, <4>1
      <4> QED  BY <3>1, <4>1, <4>2 DEF FileRight, UpToDate
    <3> QED  BY <3>2, <3>4, <3>5 DEF FileRight
  <2> QED  BY <1>3, <1>4, <2>1, <2>2, <2>3 DEF ThumbTypeOK
<1>6. CASE /\ pixSize[f] # 0
           /\ path' = [path EXCEPT ![f] = TRUE] /\ UpdateIcon(f, pixSize[f], Ready, TRUE)
  <2>1. pixSize[f] \in Sizes
    BY <1>0, <1>6 DEF ThumbTypeOK
  <2>2. /\ pix' \in [File -> Int] /\ pixSize' \in [File -> Sizes \cup {0}]
        /\ cached' \in [File -> [Sizes -> Nat]]
        /\ \A g \in File \ {f} : pix'[g] = pix[g] /\ pixSize'[g] = pixSize[g]
                                 /\ cached'[g] = cached[g]
    BY <1>0, <1>6, <2>1, IconMade
  <2>3. /\ path' \in [File -> BOOLEAN] /\ path'[f] = TRUE
        /\ \A g \in File \ {f} : path'[g] = path[g]
    BY <1>0, <1>6 DEF ThumbTypeOK
  <2>4. ASSUME NEW g \in File \ {f} PROVE FileRight(g)'
    <3>1. Kept(g)
      BY <1>3, <1>4, <2>2, <2>3 DEF Kept, contents
    <3> QED  BY <3>1, FileKept
  <2>5. FileRight(f)'
    BY <1>0, <1>3, <1>4, <1>6, <2>1, <2>3, ReadyRight DEF contents
  <2> QED  BY <1>3, <1>4, <2>2, <2>3, <2>4, <2>5
<1> QED  BY <1>1, <1>5, <1>6

\* A thumbnail could not be made; the icon stays as it is.
LEMMA ErrorIdleKeeps ==
  ASSUME ThumbTypeOK, \A g \in File : FileRight(g), NEW f \in File, ErrorIdle(f),
         UNCHANGED <<contents, lists>>
  PROVE  /\ flags' \in [File -> {Unknown, None, Ready, Loading}]
         /\ mishap' \in [File -> Reasons \cup {"none"}]
         /\ \A g \in File : FileRight(g)'
<1>1. /\ flags' = [flags EXCEPT ![f] = IF @ = Ready THEN Ready ELSE None]
      /\ \/ flags'[f] = None /\ pix[f] = Wait /\ Blame({f}, "failed")
         \/ (flags'[f] # None \/ pix[f] # Wait) /\ mishap' = mishap
      /\ UNCHANGED <<path, icons>>
  BY DEF ErrorIdle
<1>2. /\ flags' \in [File -> {Unknown, None, Ready, Loading}]
      /\ flags'[f] = (IF flags[f] = Ready THEN Ready ELSE None)
      /\ \A g \in File \ {f} : flags'[g] = flags[g]
  BY <1>1 DEF ThumbTypeOK
<1>3. /\ mishap' \in [File -> Reasons \cup {"none"}]
      /\ \A g \in File : mishap'[g] = "none" => mishap[g] = "none"
      /\ mishap'[f] = "none" => flags'[f] # None \/ pix[f] # Wait
  <2>1. CASE Blame({f}, "failed")
    <3>1. "failed" \in Reasons
      BY DEF Reasons
    <3> QED  BY <2>1, <3>1, MishapsGrow
  <2>2. CASE mishap' = mishap /\ (flags'[f] # None \/ pix[f] # Wait)
    BY <2>2 DEF ThumbTypeOK
  <2> QED  BY <1>1, <2>1, <2>2
<1>4. path' = path /\ pix' = pix /\ pixSize' = pixSize /\ cached' = cached
  BY <1>1 DEF icons
<1>5. ASSUME NEW g \in File, flags'[g] = flags[g] PROVE FileRight(g)'
  <2>1. Kept(g)
    BY <1>3, <1>4, <1>5 DEF Kept, contents
  <2> QED  BY <2>1, FileKept
<1>6. CASE flags'[f] # flags[f]
  <2>1. FileRight(f) /\ flags'[f] = None /\ None # Ready /\ None # Loading
    BY <1>2, <1>6 DEF None, Ready, Loading
  <2>2. Findable(f)'
    BY <1>4, <2>1 DEF FileRight, Findable, contents
  <2>3. Awaited(f)'
    BY <1>3, <1>4, <2>1 DEF FileRight, Awaited
  <2>4. UpToDate(f)'
    BY <1>3, <1>4, <2>1 DEF FileRight, UpToDate, contents
  <2> QED  BY <1>2, <1>3, <1>5, <2>2, <2>3, <2>4 DEF FileRight
<1> QED  BY <1>2, <1>3, <1>5, <1>6

LEMMA IdleKeeps ==
  ASSUME ThumbIInv, Idle
  PROVE  ThumbIInv'
<1> DEFINE c == Head(idles)
<1>1. /\ idles # <<>> /\ idles' = Tail(idles)
      /\ UNCHANGED <<contents, zoom, lists, last, own, calls, maps, service, dropped>>
  BY DEF Idle
<1>2. PICK f \in c.files : IF c.type = "ready" THEN ReadyIdle(f) ELSE ErrorIdle(f)
  BY DEF Idle
<1>3. ThumbTypeOK /\ Announced /\ \A g \in File : FileRight(g)
  BY DEF ThumbIInv, FileRight
<1>4. /\ c \in IdleCall /\ idles' \in Seq(IdleCall) /\ Announce(idles', WithThumb)
      /\ c.type = "ready" => c.files \subseteq WithThumb
  BY <1>1, <1>3, AnnounceLess DEF ThumbTypeOK, Announced
<1> HIDE DEF c
<1>5. f \in File
  BY <1>2, <1>4 DEF IdleCall
<1>6. /\ flags' \in [File -> {Unknown, None, Ready, Loading}] /\ path' \in [File -> BOOLEAN]
      /\ pix' \in [File -> Int] /\ pixSize' \in [File -> Sizes \cup {0}]
      /\ cached' \in [File -> [Sizes -> Nat]]
      /\ mishap' \in [File -> Reasons \cup {"none"}]
      /\ \A g \in File : FileRight(g)'
  <2>1. CASE c.type = "ready"
    <3>1. f \in WithThumb /\ ReadyIdle(f)
      BY <1>2, <1>4, <2>1
    <3> QED  BY <1>1, <1>3, <3>1, ReadyIdleKeeps
  <2>2. CASE c.type # "ready"
    <3>1. ErrorIdle(f)
      BY <1>2, <2>2
    <3>2. path' = path /\ pix' = pix /\ pixSize' = pixSize /\ cached' = cached
      BY <3>1 DEF ErrorIdle, icons
    <3> QED  BY <1>1, <1>3, <1>5, <3>1, <3>2, ErrorIdleKeeps DEF ThumbTypeOK
  <2> QED  BY <2>1, <2>2
<1>7. ThumbTypeOK'
  BY <1>1, <1>3, <1>4, <1>6 DEF ThumbTypeOK, contents, zoom, service
<1>8. Announced'
  <2>1. WithThumb' = WithThumb
    BY <1>1 DEF WithThumb, contents
  <2> QED  BY <1>1, <1>3, <1>4, <2>1 DEF Announced, service
<1> QED  BY <1>6, <1>7, <1>8 DEF ThumbIInv, FileRight

\* The thread of a change of zoom takes a file for ready.
LEMMA WalkKeeps ==
  ASSUME ThumbIInv, NEW f \in File, Walk(f)
  PROVE  ThumbIInv'
<1>1. /\ walk' = walk \ {f}
      /\ \/ UNCHANGED <<flags, path, icons, mishap>>
         \/ /\ flags' = [flags EXCEPT ![f] = Ready] /\ path' = [path EXCEPT ![f] = TRUE]
            /\ UpdateIcon(f, size, Ready, TRUE)
            /\ \/ flags[f] # Ready /\ Blame({f}, "zoomed")
               \/ flags[f] = Ready /\ mishap' = mishap
      /\ UNCHANGED <<contents, size, zooms, timer, lists, last, own, calls, maps,
                     idles, service, dropped>>
  BY DEF Walk
<1>2. ThumbTypeOK /\ size \in Sizes /\ \A g \in File : FileRight(g)
  BY DEF ThumbIInv, ThumbTypeOK, FileRight
<1>3. Announced'
  BY <1>1 DEF ThumbIInv, Announced, WithThumb, contents, service
<1>4. CASE UNCHANGED <<flags, path, icons, mishap>>
  <2>1. ThumbTypeOK'
    BY <1>1, <1>2, <1>4 DEF ThumbTypeOK, contents, icons, service
  <2>2. ASSUME NEW g \in File PROVE FileRight(g)'
    <3>1. Kept(g)
      BY <1>1, <1>4 DEF Kept, contents, icons
    <3> QED  BY <1>2, <3>1, FileKept
  <2> QED  BY <1>3, <2>1, <2>2 DEF ThumbIInv, FileRight
<1>5. CASE /\ flags' = [flags EXCEPT ![f] = Ready] /\ path' = [path EXCEPT ![f] = TRUE]
           /\ UpdateIcon(f, size, Ready, TRUE)
           /\ \/ flags[f] # Ready /\ Blame({f}, "zoomed")
              \/ flags[f] = Ready /\ mishap' = mishap
  <2>1. /\ pix' \in [File -> Int] /\ pixSize' \in [File -> Sizes \cup {0}]
        /\ cached' \in [File -> [Sizes -> Nat]]
        /\ \A g \in File \ {f} : pix'[g] = pix[g] /\ pixSize'[g] = pixSize[g]
                                 /\ cached'[g] = cached[g]
    BY <1>2, <1>5, IconMade
  <2>2. /\ flags' \in [File -> {Unknown, None, Ready, Loading}] /\ flags'[f] = Ready
        /\ path' \in [File -> BOOLEAN] /\ path'[f] = TRUE
        /\ \A g \in File \ {f} : flags'[g] = flags[g] /\ path'[g] = path[g]
    BY <1>2, <1>5 DEF ThumbTypeOK
  <2>3. /\ mishap' \in [File -> Reasons \cup {"none"}]
        /\ \A g \in File : mishap'[g] = "none" => mishap[g] = "none"
        /\ mishap'[f] = "none" => flags[f] = Ready
    <3>1. CASE Blame({f}, "zoomed")
      <4>1. "zoomed" \in Reasons
        BY DEF Reasons
      <4> QED  BY <1>2, <3>1, <4>1, MishapsGrow
    <3>2. CASE flags[f] = Ready /\ mishap' = mishap
      BY <1>2, <3>2 DEF ThumbTypeOK
    <3> QED  BY <1>5, <3>1, <3>2
  <2>4. ThumbTypeOK'
    BY <1>1, <1>2, <2>1, <2>2, <2>3 DEF ThumbTypeOK, contents, service
  <2>5. ASSUME NEW g \in File \ {f} PROVE FileRight(g)'
    <3>1. Kept(g)
      BY <1>1, <2>1, <2>2, <2>3 DEF Kept, contents
    <3> QED  BY <1>2, <3>1, FileKept
  <2>6. FileRight(f)'
    <3>1. mishap'[f] = "none" => mishap[f] = "none" /\ (thumb[f] = disk[f] \/ f \in changed)
      BY <1>2, <2>3 DEF FileRight, UpToDate
    <3> QED  BY <1>1, <1>2, <1>5, <2>2, <3>1, ReadyRight DEF contents
  <2> QED  BY <1>3, <2>4, <2>5, <2>6 DEF ThumbIInv, FileRight
<1> QED  BY <1>1, <1>4, <1>5

\* The size and the thread may be what they like.
LEMMA ZoomKeeps ==
  ASSUME ThumbIInv, size' \in Sizes, walk' \subseteq File,
         UNCHANGED <<contents, flags, path, icons, lists, last, idles, service, mishap>>
  PROVE  ThumbIInv'
<1>1. ThumbTypeOK'
  BY DEF ThumbIInv, ThumbTypeOK, contents, icons, service
<1>2. Announced'
  BY DEF ThumbIInv, Announced, WithThumb, contents, service
<1>3. ASSUME NEW f \in File PROVE FileRight(f)'
  <2>1. FileRight(f) /\ ThumbTypeOK
    BY DEF ThumbIInv, FileRight
  <2>2. Kept(f)
    BY DEF Kept, contents, icons
  <2> QED  BY <2>1, <2>2, FileKept
<1> QED  BY <1>1, <1>2, <1>3 DEF ThumbIInv, FileRight

LEMMA ThumbInitIInv == ThumbInit => ThumbIInv
<1> SUFFICES ASSUME ThumbInit PROVE ThumbIInv  OBVIOUS
<1>1. size \in Sizes /\ handle \in Nat
  BY SizesAssumption, HandlesAssumption DEF ThumbInit
<1>2. /\ sent \in Seq([req : Int, files : SUBSET File]) /\ bus \in Seq(Message)
      /\ idles \in Seq(IdleCall)
  BY DEF ThumbInit
<1>3. ThumbTypeOK
  BY <1>1, <1>2 DEF ThumbInit, ThumbTypeOK, Unknown, None, Ready, Loading, Plain, Reasons
<1>4. Announced
  BY DEF ThumbInit, Announced, Announce
<1>5. ASSUME NEW f \in File PROVE Findable(f) /\ Awaited(f) /\ UpToDate(f)
  <2>1. /\ flags[f] # Ready /\ flags[f] # Loading /\ pix[f] # Wait
    BY DEF ThumbInit, Unknown, None, Ready, Loading, Plain, Wait
  <2>2. \A s \in Sizes : cached[f][s] = 0
    BY DEF ThumbInit
  <2> QED  BY <2>1, <2>2 DEF Findable, Awaited, UpToDate
<1> QED  BY <1>3, <1>4, <1>5 DEF ThumbIInv

LEMMA ThumbNextIInv == ThumbIInv /\ [ThumbNext]_thumbVars => ThumbIInv'
<1> SUFFICES ASSUME ThumbIInv, [ThumbNext]_thumbVars PROVE ThumbIInv'
  OBVIOUS
<1>0. size \in Sizes /\ walk \subseteq File /\ \A j \in tasks : j.left \subseteq File
  BY DEF ThumbIInv, ThumbTypeOK, Task
<1>1. CASE UNCHANGED thumbVars
  BY <1>0, <1>1, ZoomKeeps DEF thumbVars, contents, icons, service
<1>2. CASE \E visible \in SUBSET File : Scroll(visible)
  BY <1>2, ScrollKeeps
<1>3. CASE \E f \in File : Draw(f) \/ Modify(f) \/ Notify(f) \/ Foreign(f) \/ Walk(f)
  BY <1>3, DrawKeeps, ModifyKeeps, NotifyKeeps, ForeignKeeps, WalkKeeps
<1>4. CASE \E f \in File, s \in Sizes : Reap(f, s)
  BY <1>4, ReapKeeps
<1>5. CASE \E s \in Sizes : Zoom(s)
  BY <1>0, <1>5, ZoomKeeps DEF Zoom
<1>6. CASE StartWalk \/ StopWalk
  BY <1>0, <1>6, ZoomKeeps DEF StartWalk, StopWalk
<1>7. CASE Service
  BY <1>7, AcceptKeeps, FinishKeeps, WorkKeeps DEF Service
<1>8. CASE Receive \/ Idle
  BY <1>8, ReceiveKeeps, IdleKeeps
<1> QED
  BY <1>1, <1>2, <1>3, <1>4, <1>5, <1>6, <1>7, <1>8 DEF ThumbNext

-------------------------------------------------------------------------------
\* Once nothing is under way, a file whose thumbnail is ready and that was drawn
\* shows its contents as they are, and none shows that it waits for a thumbnail
\* nobody makes, in whatever order the view scrolls, draws and zooms, files and
\* caches change, and the thumbnailer's replies, signals and idle functions come;
\* but for the mishaps.
THEOREM IconsTrue == ThumbSpec => []ShownIsCurrent
<1>1. ASSUME ThumbIInv PROVE ShownIsCurrent
  <2>1. SUFFICES ASSUME Settled, NEW f \in File, pixSize[f] = size, mishap[f] = "none"
                 PROVE  /\ flags[f] = Ready => pix[f] = disk[f]
                        /\ flags[f] # Loading => pix[f] # Wait
    BY DEF ShownIsCurrent
  <2>2. f \notin changed /\ size # 0 /\ Awaited(f) /\ UpToDate(f)
    BY <1>1, <2>1, SizesAssumption DEF ThumbIInv, ThumbTypeOK, Settled
  <2> QED  BY <2>1, <2>2 DEF Awaited, UpToDate
<1> QED  BY <1>1, ThumbInitIInv, ThumbNextIInv, PTL DEF ThumbSpec

-------------------------------------------------------------------------------
(* The progress of jobs: no job at work is killed by closing the last      *)
(* window, and what the user is shown of the jobs is true.                 *)
(*                                                                         *)
(* Someone always knows of a job at work: its info, in which "started" is  *)
(* flagged, then the main loop, which is to emit it, then the application, *)
(* which is held.  The hold is given up at "finished" alone, which is      *)
(* flagged when the job is over, and nothing begins anew.                  *)
(*                                                                         *)
(* A job starts once, so the UIHandler counts it once: one whose "started" *)
(* is flagged, to be emitted or followed by two seconds is not counted.    *)

Flags == {"started", "changed", "finished"}
Stages == {"none", "new", "confirm", "question", "refused", "ask", "work", "done", "over"}
Kinds == {"none", "later", "now"}
Info == [status : Nat, started : BOOLEAN, finished : BOOLEAN, paused : BOOLEAN,
         flags : SUBSET Flags]
Dispatched == [job : Jobs, kind : Kinds, stage : {"begun", "emit"}, flags : SUBSET Flags]

ProgressTypeOK ==
  /\ thread \in [Jobs -> Stages]
  /\ info \in [Jobs -> Info]
  /\ source \in [Jobs -> Kinds]
  /\ main \in Dispatched \cup {NoSource}
  /\ held \subseteq Jobs

AtWork(j) == thread[j] \notin {"none", "new", "over"}

\* What the main loop is to emit of a job.
Taken(j) == IF main.stage = "emit" /\ main.job = j THEN main.flags ELSE {}

Known(j) == "started" \in info[j].flags \/ "started" \in Taken(j) \/ j \in held

FinishedIsOver(j) ==
  "finished" \in info[j].flags \cup Taken(j) => thread[j] = "over"

KnownAtWork(j) == AtWork(j) => Known(j)

ProgressInv ==
  /\ ProgressTypeOK
  /\ running => \A j \in Jobs : KnownAtWork(j)
  /\ \A j \in Jobs : FinishedIsOver(j)
  /\ NotKilled

LEMMA InitProgressInv == ProgressInit => ProgressInv
<1> SUFFICES ASSUME ProgressInit PROVE ProgressInv  OBVIOUS
<1>1. thread \in [Jobs -> Stages]
  BY DEF ProgressInit, Stages
<1>2. info \in [Jobs -> Info]
  BY DEF ProgressInit, Info, Flags
<1>3. source \in [Jobs -> Kinds] /\ main \in Dispatched \cup {NoSource} /\ held \subseteq Jobs
  BY DEF ProgressInit, Kinds
<1>4. \A j \in Jobs : KnownAtWork(j) /\ FinishedIsOver(j)
  BY DEF ProgressInit, KnownAtWork, AtWork, FinishedIsOver, Taken, NoSource
<1>5. NotKilled
  BY DEF ProgressInit, NotKilled
<1> QED  BY <1>1, <1>2, <1>3, <1>4, <1>5 DEF ProgressInv, ProgressTypeOK

-------------------------------------------------------------------------------
(* What one step changes of one job.                                       *)

\* A job of which nothing changes is known as before.
LEMMA SameJob ==
  ASSUME NEW j \in Jobs, KnownAtWork(j), FinishedIsOver(j),
         thread'[j] = thread[j], info'[j].flags = info[j].flags,
         main' = main, held' = held
  PROVE  KnownAtWork(j)' /\ FinishedIsOver(j)'
  BY DEF KnownAtWork, AtWork, Known, Taken, FinishedIsOver

\* News of a job are flagged beside those that are, and the other jobs' stay.
LEMMA FlagKeeps ==
  ASSUME ProgressTypeOK, NEW j \in Jobs, NEW flag \in Flags, NEW altered \in Info,
         altered.flags = info[j].flags, Flag(j, flag, altered)
  PROVE  /\ info' \in [Jobs -> Info]
         /\ source' \in [Jobs -> Kinds]
         /\ info'[j].flags = info[j].flags \cup {flag}
         /\ \A k \in Jobs \ {j} : info'[k] = info[k]
<1> DEFINE c == [altered EXCEPT !.flags = @ \cup {flag}]
<1>1. c \in Info /\ c.flags = info[j].flags \cup {flag}
  BY DEF Info
<1>2. info' = [info EXCEPT ![j] = c]
  BY DEF Flag
<1>3. source' \in [Jobs -> Kinds]
  BY DEF Flag, Queued, ProgressTypeOK, Kinds
<1> HIDE DEF c
<1> QED  BY <1>1, <1>2, <1>3 DEF ProgressTypeOK

-------------------------------------------------------------------------------
LEMMA NextProgressInv == ProgressInv /\ [ProgressNext]_progressVars => ProgressInv'
<1> SUFFICES ASSUME ProgressInv, [ProgressNext]_progressVars PROVE ProgressInv'
  OBVIOUS
<1> USE DEF ProgressInv
<1>1. CASE UNCHANGED progressVars
  BY <1>1 DEF progressVars, ProgressTypeOK, KnownAtWork, AtWork, Known, Taken, FinishedIsOver, NotKilled
<1>2. CASE ProgressNext
  <2>1. running
    BY <1>2 DEF ProgressNext, Thread, MainContext, UserActs
  \* What a step that does not end the program has to keep.
  <2>2. ASSUME running' = running, ProgressTypeOK',
               \A k \in Jobs : KnownAtWork(k)' /\ FinishedIsOver(k)'
        PROVE  ProgressInv'
    BY <2>1, <2>2 DEF NotKilled
  <2>3. ASSUME NEW j \in Jobs, Create(j) PROVE ProgressInv'
    <3>1. ProgressTypeOK'
      BY <2>3 DEF Create, ProgressTypeOK, Stages
    <3>2. \A k \in Jobs : KnownAtWork(k)' /\ FinishedIsOver(k)'
      BY <2>1, <2>3 DEF Create, ProgressTypeOK, KnownAtWork, AtWork, Known, Taken, FinishedIsOver, NoSource
    <3> QED  BY <2>2, <2>3, <3>1, <3>2 DEF Create, program
  <2>4. ASSUME NEW j \in Jobs, Start(j) PROVE ProgressInv'
    <3> DEFINE c == [info[j] EXCEPT !.started = TRUE]
    <3>1. c \in Info /\ c.flags = info[j].flags
      BY DEF ProgressTypeOK, Info
    <3>2. Flag(j, "started", c)
      BY <2>4 DEF Start
    <3> HIDE DEF c
    <3>3. /\ info' \in [Jobs -> Info] /\ source' \in [Jobs -> Kinds]
          /\ info'[j].flags = info[j].flags \cup {"started"}
          /\ \A k \in Jobs \ {j} : info'[k] = info[k]
      BY <3>1, <3>2, FlagKeeps DEF Flags
    <3>4. /\ thread' \in [Jobs -> Stages] /\ \A k \in Jobs \ {j} : thread'[k] = thread[k]
          /\ main' = main /\ held' = held /\ running' = running
      BY <2>4 DEF Start, ProgressTypeOK, Stages, uiVars, program
    <3>5. ProgressTypeOK'
      BY <3>3, <3>4 DEF ProgressTypeOK
    <3>6. KnownAtWork(j)' /\ FinishedIsOver(j)'
      BY <2>4, <3>3, <3>4 DEF Start, KnownAtWork, Known, FinishedIsOver, Taken
    <3>7. \A k \in Jobs \ {j} : KnownAtWork(k)' /\ FinishedIsOver(k)'
      BY <2>1, <3>3, <3>4, SameJob
    <3> QED  BY <2>2, <3>4, <3>5, <3>6, <3>7
  <2>5. ASSUME NEW j \in Jobs, Report(j) PROVE ProgressInv'
    <3> DEFINE c == [info[j] EXCEPT !.status = @ + 1]
    <3>1. c \in Info /\ c.flags = info[j].flags
      BY DEF ProgressTypeOK, Info
    <3>2. Flag(j, "changed", c)
      BY <2>5 DEF Report
    <3> HIDE DEF c
    <3>3. /\ info' \in [Jobs -> Info] /\ source' \in [Jobs -> Kinds]
          /\ info'[j].flags = info[j].flags \cup {"changed"}
          /\ \A k \in Jobs \ {j} : info'[k] = info[k]
      BY <3>1, <3>2, FlagKeeps DEF Flags
    <3>4. thread' = thread /\ main' = main /\ held' = held /\ running' = running
      BY <2>5 DEF Report, uiVars, program
    <3>5. ProgressTypeOK'
      BY <3>3, <3>4 DEF ProgressTypeOK
    <3>6. KnownAtWork(j)' /\ FinishedIsOver(j)'
      BY <2>1, <3>3, <3>4 DEF KnownAtWork, AtWork, Known, FinishedIsOver, Taken
    <3>7. \A k \in Jobs \ {j} : KnownAtWork(k)' /\ FinishedIsOver(k)'
      BY <2>1, <3>3, <3>4, SameJob
    <3> QED  BY <2>2, <3>4, <3>5, <3>6, <3>7
  <2>6. ASSUME NEW j \in Jobs, Ask(j) PROVE ProgressInv'
    <3> DEFINE c == [info[j] EXCEPT !.paused = TRUE]
    <3>a. c \in Info /\ c.flags = info[j].flags
      BY DEF ProgressTypeOK, Info
    <3>b. info' = [info EXCEPT ![j] = c]
      BY <2>6 DEF Ask
    <3> HIDE DEF c
    <3>1. /\ info' \in [Jobs -> Info]
          /\ \A k \in Jobs : info'[k].flags = info[k].flags
      BY <3>a, <3>b DEF ProgressTypeOK
    <3>2. /\ thread' \in [Jobs -> Stages] /\ \A k \in Jobs \ {j} : thread'[k] = thread[k]
          /\ AtWork(j) /\ thread[j] # "over"
          /\ source' = source /\ main' = main /\ held' = held /\ running' = running
      BY <2>6 DEF Ask, AtWork, ProgressTypeOK, Stages, uiVars, program
    <3>3. ProgressTypeOK'
      BY <3>1, <3>2 DEF ProgressTypeOK
    <3>4. KnownAtWork(j)' /\ FinishedIsOver(j)'
      BY <2>1, <3>1, <3>2 DEF KnownAtWork, AtWork, Known, Taken, FinishedIsOver
    <3>5. \A k \in Jobs \ {j} : KnownAtWork(k)' /\ FinishedIsOver(k)'
      BY <2>1, <3>1, <3>2, SameJob
    <3> QED  BY <2>2, <3>2, <3>3, <3>4, <3>5
  <2>7. ASSUME NEW j \in Jobs, AnswerDialog(j) PROVE ProgressInv'
    <3> DEFINE c == [info[j] EXCEPT !.paused = FALSE]
    <3>a. c \in Info /\ c.flags = info[j].flags
      BY DEF ProgressTypeOK, Info
    <3>b. info' = [info EXCEPT ![j] = c]
      BY <2>7 DEF AnswerDialog
    <3> HIDE DEF c
    <3>1. /\ info' \in [Jobs -> Info]
          /\ \A k \in Jobs : info'[k].flags = info[k].flags
      BY <3>a, <3>b DEF ProgressTypeOK
    <3>2. /\ thread' \in [Jobs -> Stages] /\ \A k \in Jobs \ {j} : thread'[k] = thread[k]
          /\ AtWork(j) /\ thread[j] # "over"
          /\ source' = source /\ main' = main /\ held' = held /\ running' = running
      BY <2>7 DEF AnswerDialog, AtWork, ProgressTypeOK, Stages, uiVars, program
    <3>3. ProgressTypeOK'
      BY <3>1, <3>2 DEF ProgressTypeOK
    <3>4. KnownAtWork(j)' /\ FinishedIsOver(j)'
      BY <2>1, <3>1, <3>2 DEF KnownAtWork, AtWork, Known, Taken, FinishedIsOver
    <3>5. \A k \in Jobs \ {j} : KnownAtWork(k)' /\ FinishedIsOver(k)'
      BY <2>1, <3>1, <3>2, SameJob
    <3> QED  BY <2>2, <3>2, <3>3, <3>4, <3>5
  <2>9. ASSUME NEW j \in Jobs, Through(j) PROVE ProgressInv'
    <3>1. ProgressTypeOK'
      BY <2>9 DEF Through, ProgressTypeOK, Stages, uiVars
    <3>2. \A k \in Jobs : KnownAtWork(k)' /\ FinishedIsOver(k)'
      BY <2>1, <2>9 DEF Through, ProgressTypeOK, KnownAtWork, AtWork, Known, Taken, FinishedIsOver, uiVars
    <3> QED  BY <2>2, <2>9, <3>1, <3>2 DEF Through, program
  <2>10. ASSUME NEW j \in Jobs, Finalize(j) PROVE ProgressInv'
    <3> DEFINE c == [info[j] EXCEPT !.finished = TRUE]
    <3>1. c \in Info /\ c.flags = info[j].flags
      BY DEF ProgressTypeOK, Info
    <3>2. Flag(j, "finished", c)
      BY <2>10 DEF Finalize
    <3> HIDE DEF c
    <3>3. /\ info' \in [Jobs -> Info] /\ source' \in [Jobs -> Kinds]
          /\ \A k \in Jobs \ {j} : info'[k] = info[k]
      BY <3>1, <3>2, FlagKeeps DEF Flags
    <3>4. /\ thread' \in [Jobs -> Stages] /\ thread'[j] = "over"
          /\ \A k \in Jobs \ {j} : thread'[k] = thread[k]
          /\ main' = main /\ held' = held /\ running' = running
      BY <2>10 DEF Finalize, ProgressTypeOK, Stages, uiVars, program
    <3>5. ProgressTypeOK'
      BY <3>3, <3>4 DEF ProgressTypeOK
    <3>6. KnownAtWork(j)' /\ FinishedIsOver(j)'
      BY <3>4 DEF KnownAtWork, AtWork, FinishedIsOver
    <3>7. \A k \in Jobs \ {j} : KnownAtWork(k)' /\ FinishedIsOver(k)'
      BY <2>1, <3>3, <3>4, SameJob
    <3> QED  BY <2>2, <3>4, <3>5, <3>6, <3>7
  <2>11. ASSUME NEW j \in Jobs, Dispatch(j) PROVE ProgressInv'
    <3>1. main' \in Dispatched /\ main'.stage = "begun"
      BY <2>11 DEF Dispatch, ProgressTypeOK, Dispatched
    <3>2. /\ thread' = thread /\ info' = info /\ source' = source
          /\ held' = held /\ running' = running
      BY <2>11 DEF Dispatch, uiVars, program
    <3>3. main.stage = "idle"
      BY <2>11 DEF Dispatch
    <3>4. \A k \in Jobs : KnownAtWork(k)' /\ FinishedIsOver(k)'
      BY <2>1, <3>1, <3>2, <3>3 DEF KnownAtWork, AtWork, Known, Taken, FinishedIsOver
    <3> QED  BY <2>2, <3>1, <3>2, <3>4 DEF ProgressTypeOK
  <2>12. CASE TakeFlags
    <3>1. PICK j \in Jobs : j = main.job /\ main \in Dispatched /\ main.stage = "begun"
      BY <2>12 DEF TakeFlags, ProgressTypeOK, Dispatched, NoSource
    <3>2. /\ thread' = thread /\ held' = held /\ running' = running
      BY <2>12 DEF TakeFlags, uiVars, program
    <3>3. CASE source[j] # main.kind
      <4>1. main' = NoSource /\ info' = info /\ source' = source
        BY <2>12, <3>1, <3>3 DEF TakeFlags
      <4>2. \A k \in Jobs : KnownAtWork(k)' /\ FinishedIsOver(k)'
        BY <2>1, <3>1, <3>2, <4>1 DEF KnownAtWork, AtWork, Known, Taken, FinishedIsOver, NoSource
      <4> QED  BY <2>2, <3>2, <4>1, <4>2 DEF ProgressTypeOK
    <3>4. CASE source[j] = main.kind
      <4>1. /\ main' = [main EXCEPT !.stage = "emit", !.flags = info[j].flags]
            /\ info' = [info EXCEPT ![j].flags = {}]
            /\ source' = [source EXCEPT ![j] = "none"]
        BY <2>12, <3>1, <3>4 DEF TakeFlags
      <4>2. /\ main' \in Dispatched /\ main'.stage = "emit" /\ main'.job = j
            /\ main'.flags = info[j].flags
        BY <3>1, <4>1 DEF ProgressTypeOK, Dispatched, Info
      <4>3. info' \in [Jobs -> Info] /\ info'[j].flags = {}
            /\ \A k \in Jobs \ {j} : info'[k] = info[k]
        BY <3>1, <4>1 DEF ProgressTypeOK, Info
      <4>4. ProgressTypeOK'
        BY <3>1, <3>2, <4>1, <4>2, <4>3 DEF ProgressTypeOK, Kinds
      <4>5. KnownAtWork(j)' /\ FinishedIsOver(j)'
        BY <2>1, <3>1, <3>2, <4>2, <4>3 DEF KnownAtWork, AtWork, Known, Taken, FinishedIsOver
      <4>6. \A k \in Jobs \ {j} : KnownAtWork(k)' /\ FinishedIsOver(k)'
        BY <2>1, <3>1, <3>2, <4>2, <4>3 DEF KnownAtWork, AtWork, Known, Taken, FinishedIsOver
      <4> QED  BY <2>2, <3>2, <4>4, <4>5, <4>6
    <3> QED  BY <3>3, <3>4
  <2>13. CASE Emit
    <3>1. PICK j \in Jobs : j = main.job /\ main \in Dispatched /\ main.stage = "emit"
      BY <2>13 DEF Emit, ProgressTypeOK, Dispatched, NoSource
    <3>2. /\ thread' = thread /\ info' = info /\ source' = source /\ main' = NoSource
          /\ running' = running
      BY <2>13 DEF Emit, program
    <3>3. held' = (held \cup (IF "started" \in main.flags THEN {j} ELSE {}))
                  \ (IF "finished" \in main.flags THEN {j} ELSE {})
      BY <2>13, <3>1 DEF Emit, Heard
    <3>4. KnownAtWork(j)' /\ FinishedIsOver(j)'
      BY <2>1, <3>1, <3>2, <3>3 DEF KnownAtWork, AtWork, Known, Taken, FinishedIsOver, NoSource
    <3>5. \A k \in Jobs \ {j} : KnownAtWork(k)' /\ FinishedIsOver(k)'
      BY <2>1, <3>1, <3>2, <3>3 DEF KnownAtWork, AtWork, Known, Taken, FinishedIsOver, NoSource
    <3>6. ProgressTypeOK'
      BY <3>1, <3>2, <3>3 DEF ProgressTypeOK
    <3> QED  BY <2>2, <3>2, <3>4, <3>5, <3>6
  <2>14. ASSUME \/ \E j \in Jobs : Timer(j)
                \/ Hide \/ Present \/ Close
         PROVE  ProgressInv'
    <3>1. /\ thread' = thread /\ info' = info /\ source' = source /\ main' = main
          /\ held' = held /\ running' = running
      BY <2>14 DEF Timer, Hide, Present, Close, uiVars, program
    <3> QED  BY <2>1, <2>2, <3>1, SameJob DEF ProgressTypeOK
  <2>15. CASE Exit
    <3>1. /\ thread' = thread /\ info' = info /\ source' = source /\ main' = main
          /\ held' = held /\ running' = FALSE
      BY <2>15 DEF Exit, uiVars
    <3>2. held = {} /\ main.stage = "idle"
      BY <2>15 DEF Exit
    <3>3. NotKilled'
      BY <2>1, <3>1, <3>2 DEF NotKilled, KnownAtWork, AtWork, Known, Taken
    <3> QED  BY <2>1, <3>1, <3>3, SameJob DEF ProgressTypeOK
  <2> QED
    BY <1>2, <2>3, <2>4, <2>5, <2>6, <2>7, <2>9, <2>10, <2>11, <2>12, <2>13, <2>14, <2>15
       DEF ProgressNext, Thread, MainContext, UserActs, FinishInMain, FinishInThread
<1> QED  BY <1>1, <1>2

-------------------------------------------------------------------------------
\* Closing the last window does not end the program under a job at work, but for
\* one whose "started" the main loop has not emitted yet: app.hold and
\* app.release of ProgressUIHandler are matched by every way a job may end.
THEOREM JobsNotKilled == ProgressSpec => []NotKilled
<1>1. ProgressInv => NotKilled
  BY DEF ProgressInv
<1> QED  BY <1>1, InitProgressInv, NextProgressInv, PTL DEF ProgressSpec
-------------------------------------------------------------------------------
(* What the user is shown.                                                 *)

Ui == [active : Nat, window : {"none", "shown", "hidden"}, indicator : Nat]

ShowType ==
  /\ ui \in Ui
  /\ IsFiniteSet(Tracked) /\ Tracked \subseteq Jobs
  /\ timers \subseteq Jobs

\* A job starts once, so it is told of, looked at and counted one after the other.
CountedOnce(j) ==
  /\ \/ "started" \in info[j].flags \cup Taken(j)
     \/ j \in timers \cup Tracked
     => thread[j] \notin {"none", "new"}
  /\ "started" \in info[j].flags => j \notin timers \cup Tracked /\ "started" \notin Taken(j)
  /\ "started" \in Taken(j) \/ j \in timers => j \notin Tracked

\* What is flagged will be emitted.
Sent(j) == info[j].flags # {} => source[j] # "none"

Current(j) ==
  j \in DOMAIN widgets =>
    \/ widgets[j] = info[j].status
    \/ "changed" \in info[j].flags /\ source[j] # "none"
    \/ "changed" \in Taken(j)

ShownJob(j) == CountedOnce(j) /\ Sent(j) /\ Current(j)

ShowInv == ShowType /\ IndicatorTrue /\ \A j \in Jobs : ShownJob(j)

LEMMA InitShow == ProgressInit => ShowInv
<1> SUFFICES ASSUME ProgressInit PROVE ShowInv  OBVIOUS
<1>1. Tracked = {}
  BY DEF ProgressInit, Tracked
<1>2. ShowType /\ IndicatorTrue
  BY <1>1, FS_EmptySet DEF ProgressInit, ShowType, IndicatorTrue, Ui
<1>3. \A j \in Jobs : ShownJob(j)
  BY <1>1 DEF ProgressInit, ShownJob, CountedOnce, Sent, Current, Taken, NoSource, Tracked
<1> QED  BY <1>2, <1>3 DEF ShowInv

\* A step of a thread is seen from the other jobs and by the UIHandler as nothing.
LEMMA ThreadShown ==
  ASSUME ShowInv, NEW j \in Jobs, UNCHANGED uiVars, main' = main, ShownJob(j)',
         \A k \in Jobs \ {j} :
           thread'[k] = thread[k] /\ info'[k] = info[k] /\ source'[k] = source[k]
  PROVE  ShowInv'
<1>1. ShowType' /\ IndicatorTrue'
  BY DEF ShowInv, ShowType, IndicatorTrue, Tracked, uiVars
<1>2. ASSUME NEW k \in Jobs \ {j} PROVE ShownJob(k)'
  BY <1>2 DEF ShowInv, ShownJob, CountedOnce, Sent, Current, Taken, Tracked, uiVars
<1> QED  BY <1>1, <1>2 DEF ShowInv

\* Flagging does not make what is shown of the job untrue.
LEMMA FlagShown ==
  ASSUME ProgressTypeOK, ShowInv, NEW j \in Jobs, NEW flag \in Flags, NEW altered \in Info,
         altered.flags = info[j].flags, Flag(j, flag, altered),
         flag = "changed" \/ altered.status = info[j].status,
         flag = "started" => thread[j] = "new",
         UNCHANGED uiVars, main' = main,
         thread'[j] \notin {"none", "new"},
         \A k \in Jobs \ {j} : thread'[k] = thread[k]
  PROVE  ShowInv'
<1> DEFINE c == [altered EXCEPT !.flags = @ \cup {flag}]
<1>1. c \in Info /\ c.flags = info[j].flags \cup {flag} /\ c.status = altered.status
  BY DEF Info
<1>2. info' = [info EXCEPT ![j] = c]
  BY DEF Flag
<1>3. source'[j] # "none" /\ \A k \in Jobs \ {j} : source'[k] = source[k]
  BY DEF Flag, Queued, ProgressTypeOK, Kinds
<1> HIDE DEF c
<1>4. info'[j] = c /\ \A k \in Jobs \ {j} : info'[k] = info[k]
  BY <1>2 DEF ProgressTypeOK
<1>5. CountedOnce(j)'
  BY <1>1, <1>4 DEF ShowInv, ShownJob, CountedOnce, Taken, Tracked, uiVars
<1>6. Sent(j)' /\ Current(j)'
  BY <1>1, <1>3, <1>4 DEF ShowInv, ShownJob, Sent, Current, Taken, uiVars
<1> QED  BY <1>3, <1>4, <1>5, <1>6, ThreadShown DEF ShownJob

\* The UIHandler counts one more job, or one less.
LEMMA TrackCounts ==
  ASSUME ShowType, IndicatorTrue, NEW j \in Jobs, j \notin Tracked, Track(j)
  PROVE  /\ ui' \in Ui /\ IsFiniteSet(Tracked') /\ Tracked' = Tracked \cup {j}
         /\ IndicatorTrue'
         /\ \A k \in DOMAIN widgets' :
              IF k = j THEN widgets'[k] = info[j].status
              ELSE k \in DOMAIN widgets /\ widgets'[k] = widgets[k]
<1>1. Tracked' = Tracked \cup {j}
  BY DEF Track, Tracked
<1>2. IsFiniteSet(Tracked') /\ Cardinality(Tracked') = Cardinality(Tracked) + 1
  BY <1>1, FS_AddElement DEF ShowType
<1>3. ui' \in Ui /\ ui'.active = ui.active + 1
  <2> DEFINE more == [ui EXCEPT !.active = @ + 1]
  <2>1. more \in Ui /\ more.active = ui.active + 1
    BY DEF ShowType, Ui
  <2>2. ui' = [more EXCEPT !.window = "shown"] \/ ui' = [more EXCEPT !.indicator = more.active]
    BY DEF Track, Indicated
  <2> HIDE DEF more
  <2> QED  BY <2>1, <2>2 DEF Ui
<1>4. \/ ui'.window = "shown" /\ ui'.indicator = 0
      \/ ui'.window = "hidden" /\ ui'.indicator = ui'.active
  BY <1>3 DEF Track, Indicated, ShowType, IndicatorTrue, Ui
<1>5. IndicatorTrue'
  BY <1>2, <1>3, <1>4 DEF IndicatorTrue, ShowType, Ui
<1>6. \A k \in DOMAIN widgets' :
        IF k = j THEN widgets'[k] = info[j].status
        ELSE k \in DOMAIN widgets /\ widgets'[k] = widgets[k]
  BY DEF Track, Tracked
<1> QED  BY <1>1, <1>2, <1>3, <1>5, <1>6

LEMMA FinishCounts ==
  ASSUME ShowType, IndicatorTrue, NEW j \in Jobs, Tracked' = Tracked \ {j},
         ui' = IF j \in Tracked THEN OneLess(ui) ELSE ui
  PROVE  ui' \in Ui /\ IsFiniteSet(Tracked') /\ IndicatorTrue'
<1>1. /\ IsFiniteSet(Tracked') /\ Cardinality(Tracked) \in Nat
      /\ Cardinality(Tracked') \in Nat
      /\ Cardinality(Tracked') = IF j \in Tracked THEN Cardinality(Tracked) - 1
                                                 ELSE Cardinality(Tracked)
  BY FS_RemoveElement, FS_CardinalityType DEF ShowType
<1>2. CASE j \in Tracked
  <2>1. ui.active \in Nat /\ ui.active - 1 \in Nat /\ ui.active # 0
    BY <1>1, <1>2 DEF IndicatorTrue
  <2>2. ui' \in Ui /\ ui'.active = ui.active - 1
    BY <1>2, <2>1 DEF OneLess, Indicated, ShowType, Ui
  <2>3. IF ui'.active = 0 THEN ui'.window # "shown" /\ ui'.indicator = 0
        ELSE (ui'.window = "shown" /\ ui'.indicator = 0)
             \/ (ui'.window = "hidden" /\ ui'.indicator = ui'.active)
    BY <1>2, <2>1, <2>2 DEF OneLess, Indicated, ShowType, Ui, IndicatorTrue
  <2> QED  BY <1>1, <1>2, <2>2, <2>3 DEF IndicatorTrue
<1>3. CASE j \notin Tracked
  BY <1>1, <1>3 DEF IndicatorTrue, ShowType
<1> QED  BY <1>2, <1>3

LEMMA NextShow == ProgressTypeOK /\ ShowInv /\ [ProgressNext]_progressVars => ShowInv'
<1> SUFFICES ASSUME ProgressTypeOK, ShowInv, [ProgressNext]_progressVars PROVE ShowInv'
  OBVIOUS
<1>1. CASE UNCHANGED progressVars
  BY <1>1 DEF progressVars, uiVars, ShowInv, ShowType, IndicatorTrue, Tracked, ShownJob, CountedOnce,
              Sent, Current, Taken
<1>2. ASSUME NEW j \in Jobs, Create(j) PROVE ShowInv'
  <2>1. ShowType' /\ IndicatorTrue'
    BY <1>2 DEF Create, ShowInv, ShowType, IndicatorTrue, Tracked
  <2>2. thread[j] = "none" /\ thread' = [thread EXCEPT ![j] = "new"]
    BY <1>2 DEF Create
  <2>3. \A k \in Jobs : CountedOnce(k)'
    BY <1>2, <2>2 DEF Create, ShowInv, ShownJob, CountedOnce, Taken, Tracked, ProgressTypeOK
  <2>4. \A k \in Jobs : Sent(k)' /\ Current(k)'
    BY <1>2 DEF Create, ShowInv, ShownJob, Sent, Current, Taken
  <2> QED  BY <2>1, <2>3, <2>4 DEF ShowInv, ShownJob
<1>3. ASSUME NEW j \in Jobs, Start(j) PROVE ShowInv'
  <2> DEFINE c == [info[j] EXCEPT !.started = TRUE]
  <2>1. c \in Info /\ c.flags = info[j].flags /\ c.status = info[j].status
    BY DEF ProgressTypeOK, Info
  <2>2. Flag(j, "started", c)
    BY <1>3 DEF Start
  <2> HIDE DEF c
  <2>3. /\ thread'[j] \notin {"none", "new"} /\ thread[j] = "new"
        /\ \A k \in Jobs \ {j} : thread'[k] = thread[k]
        /\ UNCHANGED uiVars /\ main' = main
    BY <1>3 DEF Start, ProgressTypeOK
  <2> QED  BY <2>1, <2>2, <2>3, FlagShown DEF Flags
<1>4. ASSUME NEW j \in Jobs, Report(j) PROVE ShowInv'
  <2> DEFINE c == [info[j] EXCEPT !.status = @ + 1]
  <2>1. c \in Info /\ c.flags = info[j].flags
    BY DEF ProgressTypeOK, Info
  <2>2. Flag(j, "changed", c)
    BY <1>4 DEF Report
  <2> HIDE DEF c
  <2>3. /\ thread'[j] \notin {"none", "new"}
        /\ \A k \in Jobs \ {j} : thread'[k] = thread[k]
        /\ UNCHANGED uiVars /\ main' = main
    BY <1>4 DEF Report
  <2> QED  BY <2>1, <2>2, <2>3, FlagShown DEF Flags
<1>5. ASSUME NEW j \in Jobs, Ask(j) \/ AnswerDialog(j) PROVE ShowInv'
  <2>1. PICK p \in BOOLEAN : info' = [info EXCEPT ![j].paused = p]
    BY <1>5 DEF Ask, AnswerDialog
  <2>2. /\ info'[j].flags = info[j].flags /\ info'[j].status = info[j].status
        /\ \A k \in Jobs \ {j} : info'[k] = info[k]
    BY <2>1 DEF ProgressTypeOK, Info
  <2>3. /\ thread'[j] \notin {"none", "new"}
        /\ \A k \in Jobs \ {j} : thread'[k] = thread[k]
        /\ UNCHANGED uiVars /\ main' = main /\ source' = source
    BY <1>5 DEF Ask, AnswerDialog, ProgressTypeOK
  <2>4. ShownJob(j)'
    BY <2>2, <2>3 DEF ShowInv, ShownJob, CountedOnce, Sent, Current, Taken, Tracked, uiVars
  <2> QED  BY <2>2, <2>3, <2>4, ThreadShown
<1>6. ASSUME NEW j \in Jobs, Through(j) PROVE ShowInv'
  <2>1. /\ thread'[j] \notin {"none", "new"}
        /\ \A k \in Jobs \ {j} : thread'[k] = thread[k]
        /\ UNCHANGED uiVars /\ main' = main /\ source' = source /\ info' = info
    BY <1>6 DEF Through, ProgressTypeOK
  <2>2. ShownJob(j)'
    BY <2>1 DEF ShowInv, ShownJob, CountedOnce, Sent, Current, Taken, Tracked, uiVars
  <2> QED  BY <2>1, <2>2, ThreadShown
<1>7. ASSUME NEW j \in Jobs, Finalize(j) PROVE ShowInv'
  <2> DEFINE c == [info[j] EXCEPT !.finished = TRUE]
  <2>1. c \in Info /\ c.flags = info[j].flags /\ c.status = info[j].status
    BY DEF ProgressTypeOK, Info
  <2>2. Flag(j, "finished", c)
    BY <1>7 DEF Finalize
  <2> HIDE DEF c
  <2>3. /\ thread'[j] \notin {"none", "new"}
        /\ \A k \in Jobs \ {j} : thread'[k] = thread[k]
        /\ UNCHANGED uiVars /\ main' = main
    BY <1>7 DEF Finalize, ProgressTypeOK
  <2> QED  BY <2>1, <2>2, <2>3, FlagShown DEF Flags
<1>8. ASSUME NEW j \in Jobs, Dispatch(j) PROVE ShowInv'
  <2>1. /\ main.stage = "idle" /\ main'.stage = "begun"
        /\ UNCHANGED <<thread, info, source, uiVars>>
    BY <1>8 DEF Dispatch
  <2> QED
    BY <2>1 DEF ShowInv, ShowType, IndicatorTrue, Tracked, ShownJob, CountedOnce, Sent,
                Current, Taken, uiVars
<1>9. CASE TakeFlags
  <2>1. PICK j \in Jobs : j = main.job /\ main \in Dispatched /\ main.stage = "begun"
    BY <1>9 DEF TakeFlags, ProgressTypeOK, Dispatched, NoSource
  <2>2. thread' = thread /\ UNCHANGED uiVars
    BY <1>9 DEF TakeFlags
  <2>3. ShowType' /\ IndicatorTrue'
    BY <2>2 DEF ShowInv, ShowType, IndicatorTrue, Tracked, uiVars
  <2>4. CASE source[j] # main.kind
    <3>1. main' = NoSource /\ info' = info /\ source' = source
      BY <1>9, <2>1, <2>4 DEF TakeFlags
    <3> QED
      BY <2>1, <2>2, <2>3, <3>1 DEF ShowInv, Tracked, ShownJob, CountedOnce, Sent, Current, Taken,
                               uiVars, NoSource
  <2>5. CASE source[j] = main.kind
    <3>1. /\ main' = [main EXCEPT !.stage = "emit", !.flags = info[j].flags]
          /\ info' = [info EXCEPT ![j].flags = {}]
          /\ source' = [source EXCEPT ![j] = "none"]
      BY <1>9, <2>1, <2>5 DEF TakeFlags
    <3>2. main'.stage = "emit" /\ main'.job = j /\ main'.flags = info[j].flags
      BY <2>1, <3>1 DEF Dispatched
    <3>3. /\ info'[j].flags = {} /\ info'[j].status = info[j].status
          /\ \A k \in Jobs \ {j} : info'[k] = info[k] /\ source'[k] = source[k]
      BY <3>1 DEF ProgressTypeOK, Info
    <3>4. ShownJob(j)'
      BY <2>1, <2>2, <3>2, <3>3 DEF ShowInv, ShownJob, CountedOnce, Sent, Current, Taken, Tracked,
                               uiVars
    <3>5. \A k \in Jobs \ {j} : ShownJob(k)'
      BY <2>1, <2>2, <3>2, <3>3 DEF ShowInv, ShownJob, CountedOnce, Sent, Current, Taken, Tracked,
                               uiVars
    <3> QED  BY <2>3, <3>4, <3>5 DEF ShowInv
  <2> QED  BY <2>4, <2>5
<1>10. CASE Emit
  <2>1. PICK j \in Jobs : j = main.job /\ main \in Dispatched /\ main.stage = "emit"
    BY <1>10 DEF Emit, ProgressTypeOK, Dispatched, NoSource
  <2>2. /\ thread' = thread /\ info' = info /\ source' = source /\ main' = NoSource
        /\ timers' = timers \cup (IF "started" \in main.flags THEN {j} ELSE {})
    BY <1>10, <2>1 DEF Emit, Heard
  <2>3. Taken(j) = main.flags /\ \A k \in Jobs \ {j} : Taken(k) = {}
    BY <2>1 DEF Taken
  <2>4. \A k \in Jobs : Taken(k)' = {}
    BY <2>2 DEF Taken, NoSource
  <2>5. CASE "finished" \in main.flags
    <3>1. /\ widgets' = [k \in DOMAIN widgets \ {j} |-> widgets[k]]
          /\ unlisted' = unlisted \ {j}
          /\ ui' = IF j \in Tracked THEN OneLess(ui) ELSE ui
      BY <1>10, <2>1, <2>5 DEF Emit, Tracked
    <3>2. Tracked' = Tracked \ {j}
      BY <3>1 DEF Tracked
    <3>3. ShowType' /\ IndicatorTrue'
      BY <2>2, <3>1, <3>2, FinishCounts DEF ShowInv, ShowType
    <3>4. \A k \in Jobs : CountedOnce(k)' /\ Sent(k)'
      BY <2>2, <2>3, <2>4, <3>2 DEF ShowInv, ShownJob, CountedOnce, Sent
    <3>5. \A k \in Jobs : Current(k)'
      BY <2>2, <2>3, <2>4, <3>1 DEF ShowInv, ShownJob, Current
    <3> QED  BY <3>3, <3>4, <3>5 DEF ShowInv, ShownJob
  <2>6. CASE "finished" \notin main.flags
    <3>1. /\ widgets' = [k \in DOMAIN widgets |->
                           IF k = j /\ "changed" \in main.flags THEN info[j].status
                           ELSE widgets[k]]
          /\ unlisted' = unlisted /\ ui' = ui
      BY <1>10, <2>1, <2>6 DEF Emit
    <3>2. Tracked' = Tracked
      BY <3>1 DEF Tracked
    <3>3. ShowType' /\ IndicatorTrue'
      BY <2>2, <3>1, <3>2 DEF ShowInv, ShowType, IndicatorTrue
    <3>4. \A k \in Jobs : CountedOnce(k)' /\ Sent(k)'
      BY <2>2, <2>3, <2>4, <3>2 DEF ShowInv, ShownJob, CountedOnce, Sent
    <3>5. \A k \in Jobs : Current(k)'
      BY <2>2, <2>3, <2>4, <3>1 DEF ShowInv, ShownJob, Current
    <3> QED  BY <3>3, <3>4, <3>5 DEF ShowInv, ShownJob
  <2> QED  BY <2>5, <2>6
<1>11. ASSUME NEW j \in Jobs, Timer(j) PROVE ShowInv'
  <2>1. /\ main.stage = "idle" /\ j \in timers /\ timers' = timers \ {j}
        /\ UNCHANGED <<thread, info, source, main>>
    BY <1>11 DEF Timer
  <2>2. \A k \in Jobs : Taken(k) = {} /\ Taken(k)' = {}
    BY <2>1 DEF Taken
  <2>3. j \notin Tracked
    BY <2>1 DEF ShowInv, ShownJob, CountedOnce
  <2>4. CASE info[j].finished
    <3>1. UNCHANGED <<ui, widgets, unlisted>>
      BY <1>11, <2>4 DEF Timer
    <3> QED
      BY <2>1, <2>2, <3>1 DEF ShowInv, ShowType, IndicatorTrue, Tracked, ShownJob, CountedOnce,
                              Sent, Current
  <2>5. CASE ~ info[j].finished
    <3>1. Track(j)
      BY <1>11, <2>5 DEF Timer
    <3>2. /\ ui' \in Ui /\ IsFiniteSet(Tracked') /\ Tracked' = Tracked \cup {j}
          /\ IndicatorTrue'
          /\ \A k \in DOMAIN widgets' :
               IF k = j THEN widgets'[k] = info[j].status
               ELSE k \in DOMAIN widgets /\ widgets'[k] = widgets[k]
      BY <2>3, <3>1, TrackCounts DEF ShowInv
    <3>3. ShowType'
      BY <2>1, <3>2 DEF ShowInv, ShowType
    <3>4. \A k \in Jobs : CountedOnce(k)' /\ Sent(k)'
      BY <2>1, <2>2, <3>2 DEF ShowInv, ShownJob, CountedOnce, Sent
    <3>5. \A k \in Jobs : Current(k)'
      BY <2>1, <2>2, <3>2 DEF ShowInv, ShownJob, Current
    <3> QED  BY <3>2, <3>3, <3>4, <3>5 DEF ShowInv, ShownJob
  <2> QED  BY <2>4, <2>5
<1>12. CASE Hide \/ Present
  <2>1. UNCHANGED <<thread, info, source, main, timers, widgets, unlisted>>
    BY <1>12 DEF Hide, Present
  <2>2. ui \in Ui /\ IndicatorTrue /\ Tracked' = Tracked
    BY <2>1 DEF ShowInv, ShowType, Tracked
  <2>3. ui' \in Ui /\ IndicatorTrue'
    <3>1. CASE Hide
      <4> DEFINE hidden == [ui EXCEPT !.window = "hidden"]
      <4>1. hidden \in Ui /\ hidden.active = ui.active /\ hidden.window = "hidden"
        BY <2>2 DEF Ui
      <4>2. ui' = [hidden EXCEPT !.indicator = hidden.active] /\ ui.window = "shown"
        BY <3>1 DEF Hide, Indicated
      <4> HIDE DEF hidden
      <4>3. /\ ui' \in Ui /\ ui'.active = ui.active
            /\ ui'.window = "hidden" /\ ui'.indicator = ui'.active
        BY <4>1, <4>2 DEF Ui
      <4> QED  BY <2>2, <4>2, <4>3 DEF IndicatorTrue, Ui
    <3>2. CASE Present
      <4>1. ui' = [ui EXCEPT !.window = "shown", !.indicator = 0] /\ ui.indicator > 0
        BY <3>2 DEF Present
      <4>2. /\ ui' \in Ui /\ ui'.active = ui.active
            /\ ui'.window = "shown" /\ ui'.indicator = 0
        BY <2>2, <4>1 DEF Ui
      <4> QED  BY <2>2, <4>1, <4>2 DEF IndicatorTrue, Ui
    <3> QED  BY <1>12, <3>1, <3>2
  <2> QED
    BY <2>1, <2>2, <2>3 DEF ShowInv, ShowType, Tracked, ShownJob, CountedOnce, Sent, Current, Taken
<1>13. CASE Close \/ Exit
  <2>1. UNCHANGED <<thread, info, source, main, uiVars>>
    BY <1>13 DEF Close, Exit
  <2> QED
    BY <2>1 DEF ShowInv, ShowType, IndicatorTrue, Tracked, ShownJob, CountedOnce, Sent, Current,
                Taken, uiVars
<1> QED
  BY <1>1, <1>2, <1>3, <1>4, <1>5, <1>6, <1>7, <1>8, <1>9, <1>10, <1>11, <1>12, <1>13
     DEF ProgressNext, Thread, MainContext, UserActs, FinishInMain, FinishInThread

-------------------------------------------------------------------------------
\* What the user is shown of the jobs is true: ProgressUIHandler counts each job it
\* was told of once, the window or the notification says so, and an InfoWidget shows
\* the status the thread set last, or a source is there that will say it.
THEOREM ProgressShown == ProgressSpec => []ShownTrue
<1>1. ProgressTypeOK /\ ShowInv => ShownTrue
  BY DEF ShowInv, ShowType, ShownJob, Current, Taken, Tracked, ShownTrue, WidgetsCurrent
<1>2. ProgressInv => ProgressTypeOK
  BY DEF ProgressInv
<1> QED  BY <1>1, <1>2, InitProgressInv, NextProgressInv, InitShow, NextShow, PTL DEF ProgressSpec

===============================================================================
