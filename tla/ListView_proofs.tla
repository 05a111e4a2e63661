--------------------------- MODULE ListView_proofs ----------------------------
(***************************************************************************)
(* The list view shows what the folders hold: what the widget was told is  *)
(* what the model has, the maps agree with the rows, rows are in order and *)
(* stay open; for any files, folders in folders, sizes and orders.         *)
(*                                                                         *)
(* Four inductive invariants, each resting on the ones before it:          *)
(*   Always        of every state: the rows form a tree, the widget has    *)
(*                 the model's lists, and the stack of calls nests as the  *)
(*                 signals of fm-list-model.c do;                          *)
(*   GoodNow       while no row was hidden or orphaned: a folder has one   *)
(*                 row, a row lies below its folder, the maps find it;     *)
(*   FollowedTrue  while no such mishap, and every open row is followed:   *)
(*                 what was read, is listed, leaves and is shown add up;   *)
(*   OrderedTrue   while there was no mishap at all: every followed list   *)
(*                 is in order, or is still to be sorted.                  *)
(* A mishap is a fact of the code that ListView records as it happens.     *)
(***************************************************************************)
EXTENDS ListView, ListModel_proofs

-------------------------------------------------------------------------------
(* The parts of the inductive invariants.                                  *)

\* Nothing is called while files are listed or sorted; a folder is cleared and
\* its dummy row removed only while the folder itself is removed.
CallsTrue(m, c) ==
  \A i \in DOMAIN c :
     /\ c[i].do \in {"list", "sort"} => i = 1
     /\ c[i].do \in {"list", "sort", "again"} =>
           \A j \in DOMAIN c : i < j => c[j].do = "again"
     /\ c[i].do = "sort" => \A row \in c[i].rows : row \in DOMAIN m.lists /\ Len(m.lists[row]) > 1
     /\ c[i].do = "clear" => c[i].row = Top \/ (i + 1 \in DOMAIN c /\ c[i + 1] = Removing(c[i].row))
     /\ c[i].do = "remove" => 
           /\ c[i].row # Top
           /\ Last(c[i].row) = Dummy =>
                 \E j \in DOMAIN c : i < j /\ c[j] = Removing(Front(c[i].row))
     /\ c[i].do = "unload" => c[i].row # Top /\ Last(c[i].row) \notin DOMAIN m.dirs

\* Only a row that is being removed has lost its last child.
EmptyIsLeaving(m, c) ==
  \A row \in DOMAIN m.lists \ {Top} :
     m.lists[row] = <<>> => \E i \in DOMAIN c : c[i] = Removing(row)

\* A folder holds what lies in it.
HasTrue ==
  /\ \A d \in Dirs : \A f \in has[d] : Home[f] = d
  /\ \A d \in Dirs : read[d] \subseteq has[d] /\ (d \notin loading => read[d] = {})
  /\ loading \cap failed = {}

HeldTrue == Root \in connected /\ \A d \in connected \ {Root} : held[d] > 0

Always ==
  /\ TypeOK /\ ModelTrue(model) /\ CallsTrue(model, calls) /\ EmptyIsLeaving(model, calls)
  /\ HasTrue /\ HeldTrue

\* As long as a folder has one row at most.
FolderOf(row) == IF row = Top THEN Root ELSE Last(row)

AtHome(m) == \A row \in DOMAIN m.lists : \A f \in ToSet(m.lists[row]) \ {Dummy} : Home[f] = FolderOf(row)

Unique(m) == \A r, s \in DOMAIN m.lists \ {Top} : Last(r) = Last(s) => r = s

RowCall(call) == call.do \in {"remove", "clear", "unload"}

\* What the calls at work are about is there, what an inner one is about
\* lies below, and nothing below is followed any more.
CallsNested(m, c, followed) ==
  \A i \in DOMAIN c :
     /\ c[i].do = "remove" => IsRow(m, c[i].row)
     /\ c[i].do = "clear" => c[i].row \in DOMAIN m.lists
     /\ c[i].do = "unload" => c[i].row \in m.sub /\ i = Len(c)
     /\ RowCall(c[i]) =>
           /\ \A s \in Below(c[i].row, m.sub) : Last(s) \notin followed
           /\ \A j \in DOMAIN c : i < j /\ RowCall(c[j]) =>
                 /\ IsPrefix(c[j].row, c[i].row)
                 /\ c[i].do = "remove" => c[i].row # c[j].row
     /\ c[i].do = "list" => /\ c[i].dir = Root \/ c[i].dir \in DOMAIN m.dirs
                            /\ c[i].dir \in followed
                            /\ \A f \in c[i].files : Home[f] = c[i].dir
     /\ c[i].do = "again" => c[i].dirs \subseteq {Root}

\* A row that the model cannot find by its folder is being unloaded.
Found(m, c) ==
  \A row \in m.sub : Last(row) \in DOMAIN m.dirs \/ \E i \in DOMAIN c : c[i] = Unloading(row)

-------------------------------------------------------------------------------
(* The stack of calls.                                                     *)

LEMMA Pushed ==
  ASSUME NEW S, NEW c \in Seq(S), NEW x \in S
  PROVE  /\ <<x>> \o c \in Seq(S) /\ Len(<<x>> \o c) = Len(c) + 1 /\ <<x>> \o c # <<>>
         /\ DOMAIN (<<x>> \o c) = 1 .. Len(c) + 1 /\ DOMAIN c = 1 .. Len(c) /\ Len(c) \in Nat
         /\ (<<x>> \o c)[1] = x /\ Head(<<x>> \o c) = x
         /\ \A i \in 1 .. Len(c) : (<<x>> \o c)[i + 1] = c[i]
         /\ \A i \in 2 .. Len(c) + 1 : (<<x>> \o c)[i] = c[i - 1] /\ i - 1 \in DOMAIN c
<1>1. <<x>> \in Seq(S) /\ Len(<<x>>) = 1 /\ <<x>>[1] = x
  OBVIOUS
<1>2. /\ <<x>> \o c \in Seq(S) /\ Len(<<x>> \o c) = Len(c) + 1 /\ Len(c) \in Nat
      /\ \A i \in 1 .. Len(c) + 1 : (<<x>> \o c)[i] = IF i <= 1 THEN <<x>>[i] ELSE c[i - 1]
  BY <1>1, ConcatProperties, LenProperties
<1>3. DOMAIN (<<x>> \o c) = 1 .. Len(c) + 1 /\ DOMAIN c = 1 .. Len(c)
  BY <1>2, LenProperties
<1>4. (<<x>> \o c)[1] = x
  BY <1>1, <1>2
<1>5. <<x>> \o c # <<>> /\ Head(<<x>> \o c) = x
  BY <1>2, <1>4, EmptySeq
<1> QED  BY <1>2, <1>3, <1>4, <1>5

LEMMA Popped ==
  ASSUME NEW S, NEW c \in Seq(S), c # <<>>
  PROVE  /\ Tail(c) \in Seq(S) /\ Len(Tail(c)) = Len(c) - 1 /\ Len(c) \in Nat \ {0}
         /\ DOMAIN Tail(c) = 1 .. Len(c) - 1 /\ DOMAIN c = 1 .. Len(c)
         /\ Head(c) = c[1] /\ Head(c) \in S
         /\ \A i \in 1 .. Len(c) - 1 : Tail(c)[i] = c[i + 1] /\ i + 1 \in DOMAIN c
         /\ c = <<Head(c)>> \o Tail(c)
<1>1. /\ Tail(c) \in Seq(S) /\ Len(Tail(c)) = Len(c) - 1 /\ Len(c) \in Nat \ {0}
      /\ Head(c) = c[1] /\ Head(c) \in S
      /\ \A i \in 1 .. Len(c) - 1 : Tail(c)[i] = c[i + 1]
  BY HeadTailProperties, EmptySeq, LenProperties
<1>2. DOMAIN Tail(c) = 1 .. Len(c) - 1 /\ DOMAIN c = 1 .. Len(c)
  BY <1>1, LenProperties
<1>3. c = <<Head(c)>> \o Tail(c)
  <2> DEFINE d == <<Head(c)>> \o Tail(c)
  <2>1. /\ d \in Seq(S) /\ Len(d) = Len(Tail(c)) + 1 /\ d[1] = Head(c)
        /\ \A i \in 2 .. Len(Tail(c)) + 1 : d[i] = Tail(c)[i - 1]
    BY <1>1, Pushed
  <2> HIDE DEF d
  <2>2. ASSUME NEW i \in 1 .. Len(c) PROVE c[i] = d[i]
    <3>1. CASE i = 1
      BY <1>1, <2>1, <3>1
    <3>2. CASE i # 1
      <4>1. i \in 2 .. Len(Tail(c)) + 1 /\ i - 1 \in 1 .. Len(c) - 1 /\ (i - 1) + 1 = i
        BY <1>1, <3>2
      <4> QED  BY <1>1, <2>1, <4>1
    <3> QED  BY <3>1, <3>2
  <2>3. Len(c) = Len(d)
    BY <1>1, <2>1
  <2>4. c = d
    BY <2>1, <2>2, <2>3, SeqEqual
  <2> QED  BY <2>4 DEF d
<1> QED  BY <1>1, <1>2, <1>3

LEMMA CallIs ==
  ASSUME NEW call \in Calls
  PROVE  /\ call.do \in {"remove", "clear", "unload", "list", "again", "sort"}
         /\ RowCall(call) => call.row \in Seq(Entries)
         /\ call.do = "remove" => call = Removing(call.row)
         /\ call.do = "clear" => call = Clearing(call.row)
         /\ call.do = "unload" => call = Unloading(call.row)
         /\ call.do = "list" => /\ call.dir \in Dirs /\ call.files \subseteq Files
                                /\ call.last \in BOOLEAN
                                /\ call = Listing(call.dir, call.files, call.last)
         /\ call.do = "again" => call.dirs \subseteq Dirs /\ call = ListingAgain(call.dirs)
         /\ call.do = "sort" => call.rows \subseteq Seq(Folders) /\ call = Sorting(call.rows)
BY DEF Calls, RowCall, Removing, Clearing, Unloading, Listing, ListingAgain, Sorting

LEMMA RowCallsMade ==
  ASSUME NEW row
  PROVE  /\ Removing(row).do = "remove" /\ Removing(row).row = row /\ RowCall(Removing(row))
         /\ Clearing(row).do = "clear" /\ Clearing(row).row = row /\ RowCall(Clearing(row))
         /\ Unloading(row).do = "unload" /\ Unloading(row).row = row /\ RowCall(Unloading(row))
         /\ row \in Seq(Entries) =>
               Removing(row) \in Calls /\ Clearing(row) \in Calls /\ Unloading(row) \in Calls
         /\ \A r : Removing(r) = Removing(row) => r = row
BY DEF Calls, RowCall, Removing, Clearing, Unloading

LEMMA ListCallsMade ==
  ASSUME NEW d, NEW s
  PROVE  /\ \A b : /\ Listing(d, s, b).do = "list" /\ Listing(d, s, b).dir = d
                  /\ Listing(d, s, b).files = s /\ ~ RowCall(Listing(d, s, b))
         /\ Listing(d, s, TRUE).do = "list" /\ Listing(d, s, TRUE).dir = d
         /\ Listing(d, s, TRUE).files = s /\ ~ RowCall(Listing(d, s, TRUE))
         /\ Listing(d, s, FALSE).do = "list" /\ Listing(d, s, FALSE).dir = d
         /\ Listing(d, s, FALSE).files = s /\ ~ RowCall(Listing(d, s, FALSE))
         /\ d \in Dirs /\ s \in SUBSET Files =>
               Listing(d, s, TRUE) \in Calls /\ Listing(d, s, FALSE) \in Calls
         /\ ListingAgain(s).do = "again" /\ ListingAgain(s).dirs = s
         /\ Sorting(s).do = "sort" /\ Sorting(s).rows = s
         /\ ~ RowCall(ListingAgain(s)) /\ ~ RowCall(Sorting(s))
         /\ d \in Dirs /\ s \in SUBSET Files => \A b \in BOOLEAN : Listing(d, s, b) \in Calls
         /\ s \in SUBSET Dirs => ListingAgain(s) \in Calls
         /\ s \in SUBSET Seq(Folders) => Sorting(s) \in Calls
BY DEF Calls, RowCall, Listing, ListingAgain, Sorting

\* Some call is at work.
Calling(c, call) == \E i \in DOMAIN c : c[i] = call

LEMMA CallingPushed ==
  ASSUME NEW c \in Seq(Calls), NEW x \in Calls, NEW call
  PROVE  Calling(<<x>> \o c, call) <=> x = call \/ Calling(c, call)
<1> DEFINE d == <<x>> \o c
<1>1. /\ DOMAIN d = 1 .. Len(c) + 1 /\ DOMAIN c = 1 .. Len(c) /\ Len(c) \in Nat
      /\ d[1] = x
      /\ \A i \in 1 .. Len(c) : d[i + 1] = c[i]
      /\ \A i \in 2 .. Len(c) + 1 : d[i] = c[i - 1] /\ i - 1 \in DOMAIN c
  BY Pushed
<1> HIDE DEF d
<1>2. ASSUME NEW i \in DOMAIN d, d[i] = call PROVE x = call \/ Calling(c, call)
  <2>1. i = 1 \/ i \in 2 .. Len(c) + 1
    BY <1>1
  <2> QED  BY <1>1, <1>2, <2>1 DEF Calling
<1>3. ASSUME NEW i \in DOMAIN c, c[i] = call PROVE Calling(d, call)
  <2>1. i + 1 \in DOMAIN d
    BY <1>1
  <2> QED  BY <1>1, <1>3, <2>1 DEF Calling
<1>4. x = call => Calling(d, call)
  <2>1. 1 \in DOMAIN d
    BY <1>1
  <2> QED  BY <1>1, <2>1 DEF Calling
<1>5. Calling(d, call) <=> x = call \/ Calling(c, call)
  BY <1>2, <1>3, <1>4 DEF Calling
<1> QED  BY <1>5 DEF d

LEMMA CallingPopped ==
  ASSUME NEW c \in Seq(Calls), c # <<>>, NEW call
  PROVE  Calling(c, call) <=> Head(c) = call \/ Calling(Tail(c), call)
<1>1. Tail(c) \in Seq(Calls) /\ Head(c) \in Calls /\ c = <<Head(c)>> \o Tail(c)
  BY Popped
<1> DEFINE h == Head(c)
           t == Tail(c)
<1>2. t \in Seq(Calls) /\ h \in Calls /\ c = <<h>> \o t
  BY <1>1
<1> HIDE DEF h, t
<1>3. Calling(<<h>> \o t, call) <=> h = call \/ Calling(t, call)
  BY <1>2, CallingPushed
<1>4. Calling(c, call) <=> h = call \/ Calling(t, call)
  BY <1>2, <1>3
<1> QED  BY <1>4 DEF h, t

\* What CallsTrue says of one call, the calls that it works for being given.
CallTrue(m, call, outer) ==
  /\ call.do \in {"list", "sort", "again"} => \A j \in DOMAIN outer : outer[j].do = "again"
  /\ call.do = "sort" => \A row \in call.rows : row \in DOMAIN m.lists /\ Len(m.lists[row]) > 1
  /\ call.do = "clear" => call.row = Top \/ (outer # <<>> /\ Head(outer) = Removing(call.row))
  /\ call.do = "remove" => /\ call.row # Top
                           /\ Last(call.row) = Dummy => Calling(outer, Removing(Front(call.row)))
  /\ call.do = "unload" => call.row # Top /\ Last(call.row) \notin DOMAIN m.dirs

NoneListing(c) == \A j \in DOMAIN c : c[j].do \notin {"list", "sort"}

LEMMA CallsTruePushed ==
  ASSUME NEW m, NEW c \in Seq(Calls), NEW x \in Calls,
         CallsTrue(m, c), NoneListing(c), CallTrue(m, x, c)
  PROVE  CallsTrue(m, <<x>> \o c)
<1> DEFINE d == <<x>> \o c
<1>1. /\ DOMAIN d = 1 .. Len(c) + 1 /\ DOMAIN c = 1 .. Len(c) /\ Len(c) \in Nat
      /\ d[1] = x
      /\ \A i \in 1 .. Len(c) : d[i + 1] = c[i]
      /\ \A i \in 2 .. Len(c) + 1 : d[i] = c[i - 1] /\ i - 1 \in DOMAIN c
  BY Pushed
<1> HIDE DEF d
<1>2. ASSUME NEW i \in DOMAIN d
      PROVE  /\ d[i].do \in {"list", "sort"} => i = 1
             /\ d[i].do \in {"list", "sort", "again"} => \A j \in DOMAIN d : i < j => d[j].do = "again"
             /\ d[i].do = "sort" => \A row \in d[i].rows : row \in DOMAIN m.lists /\ Len(m.lists[row]) > 1
             /\ d[i].do = "clear" => d[i].row = Top \/ (i + 1 \in DOMAIN d /\ d[i + 1] = Removing(d[i].row))
             /\ d[i].do = "remove" => 
                   /\ d[i].row # Top
                   /\ Last(d[i].row) = Dummy =>
                         \E j \in DOMAIN d : i < j /\ d[j] = Removing(Front(d[i].row))
             /\ d[i].do = "unload" => d[i].row # Top /\ Last(d[i].row) \notin DOMAIN m.dirs
  <2>1. CASE i = 1
    <3>1. d[i] = x
      BY <1>1, <2>1
    <3>2. \A j \in DOMAIN d : i < j => j \in 2 .. Len(c) + 1
      BY <1>1, <2>1
    <3>3. ASSUME x.do \in {"list", "sort", "again"}, NEW j \in DOMAIN d, i < j
          PROVE  d[j].do = "again"
      <4>1. d[j] = c[j - 1] /\ j - 1 \in DOMAIN c
        BY <1>1, <3>2, <3>3
      <4>2. \A n \in DOMAIN c : c[n].do = "again"
        BY <3>3 DEF CallTrue
      <4> QED  BY <4>1, <4>2
    <3>4. x.do = "clear" => x.row = Top \/ (i + 1 \in DOMAIN d /\ d[i + 1] = Removing(x.row))
      <4>1. c # <<>> => 1 \in 1 .. Len(c) /\ Head(c) = c[1]
        BY Popped
      <4> QED  BY <1>1, <2>1, <4>1 DEF CallTrue
    <3>5. ASSUME Calling(c, Removing(Front(x.row)))
          PROVE  \E j \in DOMAIN d : i < j /\ d[j] = Removing(Front(x.row))
      <4>1. PICK k \in DOMAIN c : c[k] = Removing(Front(x.row))
        BY <3>5 DEF Calling
      <4>2. k + 1 \in DOMAIN d /\ i < k + 1 /\ d[k + 1] = c[k]
        BY <1>1, <2>1
      <4> QED  BY <4>1, <4>2
    <3> QED  BY <2>1, <3>1, <3>3, <3>4, <3>5 DEF CallTrue
  <2>2. CASE i # 1
    <3>1. i \in 2 .. Len(c) + 1 /\ i \in Nat
      BY <1>1, <2>2
    <3> DEFINE k == i - 1
    <3>2. d[i] = c[k] /\ k \in DOMAIN c /\ k \in Nat /\ k + 1 = i
      BY <1>1, <3>1
    <3> HIDE DEF k
    <3>3. /\ c[k].do \in {"list", "sort"} => k = 1
          /\ c[k].do \in {"list", "sort", "again"} => \A j \in DOMAIN c : k < j => c[j].do = "again"
          /\ c[k].do = "sort" => \A row \in c[k].rows : row \in DOMAIN m.lists /\ Len(m.lists[row]) > 1
          /\ c[k].do = "clear" => c[k].row = Top \/ (k + 1 \in DOMAIN c /\ c[k + 1] = Removing(c[k].row))
          /\ c[k].do = "remove" => 
                /\ c[k].row # Top
                /\ Last(c[k].row) = Dummy =>
                      \E j \in DOMAIN c : k < j /\ c[j] = Removing(Front(c[k].row))
          /\ c[k].do = "unload" => c[k].row # Top /\ Last(c[k].row) \notin DOMAIN m.dirs
      BY <3>2 DEF CallsTrue
    <3>4. c[k].do \notin {"list", "sort"}
      BY <3>2 DEF NoneListing
    <3>5. ASSUME c[k].do = "again", NEW j \in DOMAIN d, i < j PROVE d[j].do = "again"
      <4>1. j \in 2 .. Len(c) + 1 /\ j - 1 \in DOMAIN c /\ k < j - 1
        BY <1>1, <3>1, <3>2, <3>5
      <4> QED  BY <1>1, <3>3, <3>5, <4>1
    <3>6. c[k].do = "clear" => c[k].row = Top \/ (i + 1 \in DOMAIN d /\ d[i + 1] = Removing(c[k].row))
      <4>1. k + 1 \in DOMAIN c => i + 1 \in DOMAIN d /\ d[i + 1] = c[k + 1]
        BY <1>1, <3>1, <3>2
      <4> QED  BY <3>3, <4>1
    <3>7. ASSUME NEW j \in DOMAIN c, k < j PROVE i < j + 1 /\ j + 1 \in DOMAIN d /\ d[j + 1] = c[j]
      BY <1>1, <3>1, <3>2, <3>7
    <3> HIDE DEF CallsTrue
    <3> QED  BY <2>2, <3>2, <3>3, <3>4, <3>5, <3>6, <3>7
  <2> QED  BY <2>1, <2>2
<1>3. CallsTrue(m, d)
  BY <1>2 DEF CallsTrue
<1> QED  BY <1>3 DEF d

LEMMA CallsTruePopped ==
  ASSUME NEW m, NEW c \in Seq(Calls), c # <<>>, CallsTrue(m, c)
  PROVE  CallsTrue(m, Tail(c)) /\ NoneListing(Tail(c)) /\ CallTrue(m, Head(c), Tail(c))
<1> DEFINE d == Tail(c)
<1>1. /\ Len(d) = Len(c) - 1 /\ Len(c) \in Nat \ {0} /\ d \in Seq(Calls)
      /\ DOMAIN d = 1 .. Len(c) - 1 /\ DOMAIN c = 1 .. Len(c)
      /\ Head(c) = c[1] /\ 1 \in DOMAIN c
      /\ \A i \in 1 .. Len(c) - 1 : d[i] = c[i + 1] /\ i + 1 \in DOMAIN c
  BY Popped
<1> HIDE DEF d
<1>2. ASSUME NEW i \in DOMAIN d
      PROVE  /\ d[i].do \notin {"list", "sort"}
             /\ d[i].do = "again" => \A j \in DOMAIN d : i < j => d[j].do = "again"
             /\ d[i].do = "clear" => d[i].row = Top \/ (i + 1 \in DOMAIN d /\ d[i + 1] = Removing(d[i].row))
             /\ d[i].do = "remove" => 
                   /\ d[i].row # Top
                   /\ Last(d[i].row) = Dummy =>
                         \E j \in DOMAIN d : i < j /\ d[j] = Removing(Front(d[i].row))
             /\ d[i].do = "unload" => d[i].row # Top /\ Last(d[i].row) \notin DOMAIN m.dirs
  <2> DEFINE k == i + 1
  <2>1. i \in Nat /\ i > 0 /\ k \in DOMAIN c /\ d[i] = c[k] /\ k # 1 /\ k \in Nat
    BY <1>1
  <2>2. /\ c[k].do \in {"list", "sort"} => k = 1
        /\ c[k].do \in {"list", "sort", "again"} => \A j \in DOMAIN c : k < j => c[j].do = "again"
        /\ c[k].do = "clear" => c[k].row = Top \/ (k + 1 \in DOMAIN c /\ c[k + 1] = Removing(c[k].row))
        /\ c[k].do = "remove" => 
              /\ c[k].row # Top
              /\ Last(c[k].row) = Dummy =>
                    \E j \in DOMAIN c : k < j /\ c[j] = Removing(Front(c[k].row))
        /\ c[k].do = "unload" => c[k].row # Top /\ Last(c[k].row) \notin DOMAIN m.dirs
    BY <2>1 DEF CallsTrue
  <2>3. ASSUME NEW j \in DOMAIN d, i < j PROVE k < j + 1 /\ j + 1 \in DOMAIN c /\ d[j] = c[j + 1]
    BY <1>1, <2>1, <2>3
  <2>4. k + 1 \in DOMAIN c => i + 1 \in DOMAIN d /\ d[i + 1] = c[k + 1]
    BY <1>1, <2>1
  <2>5. ASSUME NEW j \in DOMAIN c, k < j PROVE j - 1 \in DOMAIN d /\ i < j - 1 /\ d[j - 1] = c[j]
    <3>1. j - 1 \in 1 .. Len(c) - 1 /\ (j - 1) + 1 = j /\ i < j - 1
      BY <1>1, <2>1, <2>5
    <3> QED  BY <1>1, <3>1
  <2> HIDE DEF k
  <2> QED  BY <2>1, <2>2, <2>3, <2>4, <2>5
<1>3. CallsTrue(m, d) /\ NoneListing(d)
  BY <1>2 DEF CallsTrue, NoneListing
<1>4. CallTrue(m, c[1], d)
  <2>1. /\ c[1].do \in {"list", "sort", "again"} => \A j \in DOMAIN c : 1 < j => c[j].do = "again"
        /\ c[1].do = "sort" => \A row \in c[1].rows : row \in DOMAIN m.lists /\ Len(m.lists[row]) > 1
        /\ c[1].do = "clear" => c[1].row = Top \/ (1 + 1 \in DOMAIN c /\ c[1 + 1] = Removing(c[1].row))
        /\ c[1].do = "remove" => 
              /\ c[1].row # Top
              /\ Last(c[1].row) = Dummy =>
                    \E j \in DOMAIN c : 1 < j /\ c[j] = Removing(Front(c[1].row))
        /\ c[1].do = "unload" => c[1].row # Top /\ Last(c[1].row) \notin DOMAIN m.dirs
    BY <1>1 DEF CallsTrue
  <2>2. \A j \in DOMAIN d : j + 1 \in DOMAIN c /\ 1 < j + 1 /\ d[j] = c[j + 1]
    BY <1>1
  <2>3. 1 + 1 \in DOMAIN c => d # <<>> /\ Head(d) = c[1 + 1]
    <3>1. 1 + 1 \in DOMAIN c => Len(d) # 0
      BY <1>1
    <3>2. 1 + 1 \in DOMAIN c => d[1] = c[1 + 1]
      BY <1>1
    <3>3. d # <<>> => Head(d) = d[1]
      BY <1>1, Popped
    <3>4. Len(<<>>) = 0
      OBVIOUS
    <3> QED  BY <3>1, <3>2, <3>3, <3>4
  <2>4. ASSUME NEW j \in DOMAIN c, 1 < j PROVE j - 1 \in DOMAIN d /\ d[j - 1] = c[j]
    <3>1. j - 1 \in 1 .. Len(c) - 1 /\ (j - 1) + 1 = j
      BY <1>1, <2>4
    <3> QED  BY <1>1, <3>1
  <2>5. c[1].do \in {"list", "sort", "again"} => \A j \in DOMAIN d : d[j].do = "again"
    BY <2>1, <2>2
  <2>6. c[1].do = "clear" => c[1].row = Top \/ (d # <<>> /\ Head(d) = Removing(c[1].row))
    BY <2>1, <2>3
  <2>7. (\E j \in DOMAIN c : 1 < j /\ c[j] = Removing(Front(c[1].row))) => Calling(d, Removing(Front(c[1].row)))
    BY <2>4 DEF Calling
  <2> QED  BY <2>1, <2>5, <2>6, <2>7 DEF CallTrue
<1> QED  BY <1>1, <1>3, <1>4 DEF d

\* The model may change under the calls.
LEMMA CallsStayTrue ==
  ASSUME NEW m, NEW n, NEW c \in Seq(Calls), CallsTrue(m, c),
         DOMAIN n.dirs \subseteq DOMAIN m.dirs,
         NoneListing(c) \/ \A row \in DOMAIN m.lists : row \in DOMAIN n.lists /\ Len(n.lists[row]) = Len(m.lists[row])
  PROVE  CallsTrue(n, c)
BY DEF CallsTrue, NoneListing

LEMMA EmptyAre ==
  ASSUME NEW m, NEW c
  PROVE  EmptyIsLeaving(m, c) <=>
           \A row \in DOMAIN m.lists \ {Top} : m.lists[row] = <<>> => Calling(c, Removing(row))
BY DEF EmptyIsLeaving, Calling

LEMMA NoCalls ==
  /\ <<>> \in Seq(Calls) /\ NoneListing(<<>>)
  /\ \A m : CallsTrue(m, <<>>)
  /\ \A call : ~ Calling(<<>>, call)
BY DEF NoneListing, CallsTrue, Calling

LEMMA OneCall ==
  ASSUME NEW x \in Calls
  PROVE  /\ <<x>> \in Seq(Calls) /\ <<x>> # <<>>
         /\ \A m : CallTrue(m, x, <<>>) => CallsTrue(m, <<x>>)
         /\ \A call : Calling(<<x>>, call) <=> x = call
<1>1. <<x>> \o <<>> = <<x>>
  OBVIOUS
<1>2. <<x>> \in Seq(Calls) /\ <<x>> # <<>>
  OBVIOUS
<1>3. ASSUME NEW m, CallTrue(m, x, <<>>) PROVE CallsTrue(m, <<x>>)
  <2>1. CallsTrue(m, <<x>> \o <<>>)
    BY <1>3, NoCalls, CallsTruePushed
  <2> QED  BY <1>1, <2>1
<1>4. ASSUME NEW call PROVE Calling(<<x>>, call) <=> x = call
  <2>1. Calling(<<x>> \o <<>>, call) <=> x = call
    BY NoCalls, CallingPushed
  <2> QED  BY <1>1, <2>1
<1> QED  BY <1>2, <1>3, <1>4

\* Every folder of the tree has a row.
NoneEmpty(m) == \A row \in DOMAIN m.lists \ {Top} : m.lists[row] # <<>>

LEMMA NoneEmptyIs ==
  ASSUME NEW m
  PROVE  /\ EmptyIsLeaving(m, <<>>) <=> NoneEmpty(m)
         /\ NoneEmpty(m) => \A c : EmptyIsLeaving(m, c)
BY NoCalls, EmptyAre DEF NoneEmpty, EmptyIsLeaving

LEMMA ModelTypes ==
  ASSUME NEW m, ModelTrue(m)
  PROVE  \A row \in DOMAIN m.lists :
            row \in Seq(Folders) /\ row \in Seq(Entries) /\ m.lists[row] \in Seq(Entries)
BY RowOfTree DEF ModelTrue, Tree

LEMMA DirsAre ==
  /\ Root \in Dirs /\ Folders \subseteq Dirs /\ Root \notin Folders /\ Dirs = Folders \cup {Root}
  /\ \A f \in Files : Home[f] \in Dirs
  /\ Dummy \in Entries /\ Files \subseteq Entries /\ Folders \subseteq Files
  /\ Dummy \notin Files /\ Dummy \notin Folders
BY RootAssumption, FoldersAssumption, DummyAssumption DEF Dirs, Entries

\* The types of all but the model and the calls.
OthersOK ==
  /\ has \in [Dirs -> SUBSET Files]
  /\ loading \subseteq Dirs
  /\ read \in [Dirs -> SUBSET Files]
  /\ failed \subseteq Dirs
  /\ missed \subseteq Dirs
  /\ connected \subseteq Dirs
  /\ held \in [Folders -> Nat]
  /\ timers \in [Folders -> 0..MaxTimers]
  /\ after \in 0..MaxAfter
  /\ mishaps \subseteq {"hidden", "orphaned", "reexpanded", "single"}

LEMMA TypesAre ==
  /\ TypeOK => calls \in Seq(Calls) /\ OthersOK
  /\ ModelTrue(model) /\ calls \in Seq(Calls) /\ OthersOK => TypeOK
BY ModelTypes DEF TypeOK, OthersOK

LEMMA AlwaysIs ==
  Always <=> /\ ModelTrue(model) /\ calls \in Seq(Calls) /\ OthersOK
             /\ CallsTrue(model, calls) /\ EmptyIsLeaving(model, calls)
             /\ HasTrue /\ HeldTrue
BY TypesAre DEF Always

LEMMA AlwaysNext ==
  ASSUME ModelTrue(model'), calls' \in Seq(Calls), OthersOK', CallsTrue(model', calls'),
         EmptyIsLeaving(model', calls'), HasTrue', HeldTrue'
  PROVE  Always'
<1>1. TypeOK'
  <2>1. \A row \in DOMAIN model'.lists : row \in Seq(Folders) /\ model'.lists[row] \in Seq(Entries)
    BY ModelTypes
  <2> QED  BY <2>1 DEF TypeOK, OthersOK
<1> QED  BY <1>1 DEF Always

LEMMA InitAlways == Init => Always
<1> SUFFICES ASSUME Init PROVE Always
  OBVIOUS
<1>1. ModelTrue(model)
  <2>1. [f \in Files |-> 0] \in [Files -> Int]
    OBVIOUS
  <2> QED  BY <2>1, EmptyModelTrue DEF Init
<1>2. DOMAIN model.lists = {Top}
  BY DEF Init, EmptyModel
<1>3. calls \in Seq(Calls) /\ CallsTrue(model, calls)
  BY NoCalls DEF Init
<1>4. EmptyIsLeaving(model, calls)
  BY <1>2 DEF EmptyIsLeaving
<1>5. OthersOK
  BY DirsAre, BoundsAssumption DEF Init, OthersOK
<1>6. HasTrue /\ HeldTrue
  BY DirsAre DEF HasTrue, HeldTrue, Init
<1> QED  BY <1>1, <1>3, <1>4, <1>5, <1>6, AlwaysIs

-------------------------------------------------------------------------------
(* What happens between the calls keeps Always.                            *)

Idle == Always /\ calls = <<>> /\ after' \in 0 .. MaxAfter

LEMMA IdleIs ==
  ASSUME Always, calls = <<>>
  PROVE  ModelTrue(model) /\ NoneEmpty(model) /\ OthersOK /\ HasTrue /\ HeldTrue
BY AlwaysIs, NoneEmptyIs

LEMMA BatchKeeps ==
  ASSUME Idle, NEW d \in Dirs, NEW some, Batch(d, some)
  PROVE  Always'
<1>1. ModelTrue(model) /\ NoneEmpty(model) /\ OthersOK /\ HasTrue /\ HeldTrue
  BY IdleIs DEF Idle
<1>2. some \in SUBSET Files
  <2>1. has[d] \subseteq Files /\ some \subseteq has[d] \ read[d]
    BY <1>1 DEF Batch, OthersOK
  <2> QED  BY <2>1
<1>3. Listing(d, some, FALSE) \in Calls /\ Listing(d, some, FALSE).do = "list"
  BY <1>2 DEF Listing, Calls
<1> DEFINE x == Listing(d, some, FALSE)
<1>4. x \in Calls /\ x.do = "list" /\ calls' \in {<<x>>, <<>>}
  BY <1>3 DEF Batch
<1> HIDE DEF x
<1>5. calls' \in Seq(Calls) /\ CallsTrue(model, calls')
  <2>1. CallTrue(model, x, <<>>)
    BY <1>4 DEF CallTrue
  <2>2. <<x>> \in Seq(Calls) /\ CallsTrue(model, <<x>>)
    BY <1>4, <2>1, OneCall
  <2>3. CASE calls' = <<x>>
    BY <2>2, <2>3
  <2>4. CASE calls' = <<>>
    BY <2>4, NoCalls
  <2> QED  BY <1>4, <2>3, <2>4
<1>6. OthersOK' /\ HasTrue' /\ HeldTrue' /\ model' = model
  BY <1>1, <1>2 DEF Batch, OthersOK, HasTrue, HeldTrue, Idle
<1> QED  BY <1>1, <1>5, <1>6, NoneEmptyIs, AlwaysNext

LEMMA AddedNoneEmpty ==
  ASSUME NEW m, ModelTrue(m), NEW n, ModelTrue(n), NEW parent \in DOMAIN m.lists, NEW f \in Files,
         Added(m, n, parent, f), NoneEmpty(m)
  PROVE  NoneEmpty(n)
<1>1. /\ DOMAIN n.lists = IF f \in Folders THEN DOMAIN m.lists \cup {Append(parent, f)} ELSE DOMAIN m.lists
      /\ f \in Folders => n.lists[Append(parent, f)] = <<Dummy>>
      /\ \A r \in DOMAIN m.lists \ {parent} : n.lists[r] = m.lists[r]
      /\ f \in ToSet(n.lists[parent])
  BY DEF Added
<1>2. ToSet(<<>>) = {} /\ <<Dummy>> # <<>>
  BY DEF ToSet
<1>3. n.lists[parent] # <<>>
  BY <1>1, <1>2
<1> QED  BY <1>1, <1>2, <1>3 DEF NoneEmpty

\* A file is added, if it is not there.
LEMMA AddFileIs ==
  ASSUME NEW m, ModelTrue(m), NEW f \in Files, NEW dir, NEW n, n = AddFile(m, f, dir)
  PROVE  /\ ModelTrue(n)
         /\ ParentOf(m, dir) \in DOMAIN m.lists /\ ParentOf(m, dir) \in DOMAIN m.rev
         /\ IF f \in m.rev[ParentOf(m, dir)] THEN n = m ELSE Added(m, n, ParentOf(m, dir), f)
         /\ NoneEmpty(m) => NoneEmpty(n)
         /\ n.dirs = m.dirs
<1>1. ParentOf(m, dir) \in DOMAIN m.lists /\ ParentOf(m, dir) \in DOMAIN m.rev
  BY ParentIs
<1>2. CASE f \in m.rev[ParentOf(m, dir)]
  <2>1. n = m
    BY <1>2 DEF AddFile
  <2> QED  BY <1>1, <1>2, <2>1
<1>3. CASE f \notin m.rev[ParentOf(m, dir)]
  <2>1. Added(m, n, ParentOf(m, dir), f) /\ ModelTrue(n)
    BY <1>3, FileIsAdded
  <2>2. n.dirs = m.dirs
    BY <2>1 DEF Added
  <2> QED  BY <1>1, <1>3, <2>1, <2>2, AddedNoneEmpty
<1> QED  BY <1>2, <1>3

LEMMA FileAddedKeeps ==
  ASSUME Idle, NEW f \in Files, FileAdded(f)
  PROVE  Always'
<1>1. ModelTrue(model) /\ NoneEmpty(model) /\ OthersOK /\ HasTrue /\ HeldTrue /\ calls = <<>>
  BY IdleIs DEF Idle
<1>2. ModelTrue(model') /\ NoneEmpty(model')
  <2>1. ModelTrue(AddFile(model, f, Home[f])) /\ NoneEmpty(AddFile(model, f, Home[f]))
    BY <1>1, AddFileIs
  <2> QED  BY <1>1, <2>1 DEF FileAdded
<1>3. calls' = <<>>
  BY <1>1 DEF FileAdded
<1>4. has' = [has EXCEPT ![Home[f]] = has[Home[f]] \cup {f}] /\ Home[f] \in Dirs
  BY DirsAre DEF FileAdded
<1>5. has' \in [Dirs -> SUBSET Files] /\ read' \in [Dirs -> SUBSET Files] /\ HasTrue'
  BY <1>1, <1>4 DEF FileAdded, Told, OthersOK, HasTrue
<1>6. OthersOK' /\ HeldTrue'
  BY <1>1, <1>5 DEF FileAdded, OthersOK, HeldTrue, Idle
<1> QED  BY <1>2, <1>3, <1>5, <1>6, NoCalls, NoneEmptyIs, AlwaysNext

LEMMA FileDeletedKeeps ==
  ASSUME Idle, NEW f \in Files, FileDeleted(f)
  PROVE  Always'
<1>1. ModelTrue(model) /\ NoneEmpty(model) /\ OthersOK /\ HasTrue /\ HeldTrue /\ calls = <<>>
  BY IdleIs DEF Idle
<1> DEFINE parent == ParentOf(model, Home[f])
           row == Append(parent, f)
<1>2. /\ LookupFile(model, f, Home[f]) \in {NoRow, row}
      /\ row # Top /\ Last(row) = f /\ row \in Seq(Entries)
  BY <1>1, LookupIs
<1> HIDE DEF row
<1>3. calls' \in {<<>>, <<Removing(row)>>}
  BY <1>2 DEF FileDeleted
<1>4. /\ Removing(row) \in Calls /\ Removing(row).do = "remove" /\ Removing(row).row = row
  BY <1>2, RowCallsMade
<1>5. CallTrue(model, Removing(row), <<>>)
  BY <1>2, <1>4, DirsAre DEF CallTrue
<1>6. calls' \in Seq(Calls) /\ CallsTrue(model, calls')
  <2>1. <<Removing(row)>> \in Seq(Calls) /\ CallsTrue(model, <<Removing(row)>>)
    BY <1>4, <1>5, OneCall
  <2>2. <<>> \in Seq(Calls) /\ CallsTrue(model, <<>>)
    BY NoCalls
  <2>3. CASE calls' = <<>>
    BY <2>2, <2>3
  <2>4. CASE calls' = <<Removing(row)>>
    BY <2>1, <2>4
  <2> QED  BY <1>3, <2>3, <2>4
<1>7. has' = [has EXCEPT ![Home[f]] = has[Home[f]] \ {f}] /\ Home[f] \in Dirs
  BY DirsAre DEF FileDeleted
<1>8. has' \in [Dirs -> SUBSET Files] /\ read' \in [Dirs -> SUBSET Files] /\ HasTrue'
  BY <1>1, <1>7 DEF FileDeleted, Told, OthersOK, HasTrue
<1>9. mishaps' \subseteq {"hidden", "orphaned", "reexpanded", "single"}
  <2>1. \A r : Orphaned(r) \subseteq {"orphaned"}
    BY DEF Orphaned
  <2> QED  BY <1>1, <2>1 DEF FileDeleted, OthersOK
<1>10. OthersOK' /\ HeldTrue' /\ model' = model
  BY <1>1, <1>8, <1>9 DEF FileDeleted, OthersOK, HeldTrue, Idle
<1> QED  BY <1>1, <1>6, <1>8, <1>10, NoneEmptyIs, AlwaysNext

LEMMA RearrangedNoneEmpty ==
  ASSUME NEW m, ModelTrue(m), NEW n, ModelTrue(n), NEW parent \in DOMAIN m.lists,
         Rearranged(m, n, parent)
  PROVE  /\ NoneEmpty(m) => NoneEmpty(n)
         /\ \A row \in DOMAIN m.lists : row \in DOMAIN n.lists /\ Len(n.lists[row]) = Len(m.lists[row])
<1>1. /\ DOMAIN n.lists = DOMAIN m.lists
      /\ Len(n.lists[parent]) = Len(m.lists[parent])
      /\ \A r \in DOMAIN m.lists \ {parent} : n.lists[r] = m.lists[r]
  BY DEF Rearranged
<1>2. \A row \in DOMAIN m.lists : m.lists[row] \in Seq(Entries) /\ n.lists[row] \in Seq(Entries)
  BY <1>1, ModelTypes
<1>3. n.lists[parent] = <<>> => m.lists[parent] = <<>>
  <2>1. Len(<<>>) = 0
    OBVIOUS
  <2> QED  BY <1>1, <1>2, <2>1, EmptySeq
<1> QED  BY <1>1, <1>3 DEF NoneEmpty

LEMMA FileResized ==
  ASSUME ModelTrue(model), NEW f \in Files, NEW s \in Sizes
  PROVE  LET m == [model EXCEPT !.size[f] = s]
         IN  /\ ModelTrue(m) /\ m.lists = model.lists /\ m.open = model.open
             /\ m.sub = model.sub /\ m.rev = model.rev /\ m.dirs = model.dirs
             /\ m.column = model.column /\ m.reversed = model.reversed
             /\ m.size = [model.size EXCEPT ![f] = s]
<1> DEFINE m == [model EXCEPT !.size[f] = s]
<1>1. s \in Int /\ Fields(model) /\ model.size \in [Files -> Int]
  BY BoundsAssumption DEF ModelTrue
<1>2. /\ Fields(m) /\ m.lists = model.lists /\ m.shown = model.shown
      /\ m.sub = model.sub /\ m.rev = model.rev /\ m.dirs = model.dirs
      /\ m.open = model.open /\ m.column = model.column /\ m.reversed = model.reversed
      /\ m.size = [model.size EXCEPT ![f] = s]
  BY <1>1 DEF Fields
<1>3. m.size \in [Files -> Int]
  BY <1>1, <1>2
<1> HIDE DEF m
<1>4. ModelTrue(m)
  BY <1>2, <1>3, SizeChanged DEF SameRows
<1> QED  BY <1>2, <1>4 DEF m

LEMMA FileGrowsKeeps ==
  ASSUME Idle, NEW f \in Files, FileGrows(f)
  PROVE  Always'
<1>1. ModelTrue(model) /\ NoneEmpty(model) /\ OthersOK /\ HasTrue /\ HeldTrue /\ calls = <<>>
  BY IdleIs DEF Idle
<1>2. PICK s \in Sizes :
        model' = LET m == [model EXCEPT !.size[f] = s]
                 IN  IF Home[f] \in connected THEN FileChanged(m, f, Home[f]) ELSE m
  BY DEF FileGrows
<1> DEFINE m == [model EXCEPT !.size[f] = s]
<1>3. ModelTrue(m) /\ m.lists = model.lists
  BY <1>1, FileResized
<1> HIDE DEF m
<1>4. NoneEmpty(m)
  BY <1>1, <1>3 DEF NoneEmpty
<1>5. ModelTrue(model') /\ NoneEmpty(model')
  <2>1. model' = IF Home[f] \in connected THEN FileChanged(m, f, Home[f]) ELSE m
    BY <1>2 DEF m
  <2>2. LET n == FileChanged(m, f, Home[f])
        IN  ModelTrue(n) /\ Rearranged(m, n, ParentOf(m, Home[f]))
    BY <1>3, FileIsMoved
  <2>3. ParentOf(m, Home[f]) \in DOMAIN m.lists
    BY <1>3, ParentIs
  <2> QED  BY <1>3, <1>4, <2>1, <2>2, <2>3, RearrangedNoneEmpty
<1>6. OthersOK' /\ HasTrue' /\ HeldTrue' /\ calls' = <<>>
  BY <1>1 DEF FileGrows, reading, OthersOK, HasTrue, HeldTrue, Idle
<1> QED  BY <1>5, <1>6, NoCalls, NoneEmptyIs, AlwaysNext

LEMMA ExpandIs ==
  ASSUME ModelTrue(model), NEW row \in DOMAIN model.lists, Expand(row)
  PROVE  /\ ModelTrue(model') /\ model'.lists = model.lists
         /\ model'.open = model.open \cup {row}
         /\ model'.size = model.size /\ model'.column = model.column /\ model'.reversed = model.reversed
         /\ IF row \in model.sub THEN model'.sub = model.sub /\ model'.dirs = model.dirs
            ELSE model'.sub = model.sub \cup {row} /\ model'.dirs = With(model.dirs, Last(row), row)
         /\ CanLoadSubdirectory(model, row) <=> row \notin model.sub
         /\ row # Top /\ Last(row) \in Folders
<1> DEFINE m == [model EXCEPT !.open = model.open \cup {row}]
<1>1. row # Top /\ (Len(row) > 1 => Front(row) \in model.open)
  BY DEF Expand
<1>2. Tree(model.lists)
  BY DEF ModelTrue
<1>3. /\ Last(row) \in Folders /\ Len(row) \in Nat \ {0} /\ Len(Front(row)) = Len(row) - 1
      /\ Front(row) \in DOMAIN model.lists
  BY <1>1, <1>2, ParentOfRow
<1>4. Front(row) = Top \/ Front(row) \in model.open
  <2>1. CASE Len(row) > 1
    BY <1>1, <2>1
  <2>2. CASE ~ (Len(row) > 1)
    <3>1. Len(Front(row)) = 0
      BY <1>3, <2>2
    <3>2. Front(row) \in Seq(Folders)
      BY <1>2, <1>3, RowOfTree
    <3> QED  BY <3>1, <3>2, EmptySeq DEF Top
  <2> QED  BY <2>1, <2>2
<1>5. /\ ModelTrue(m) /\ m.lists = model.lists /\ m.sub = model.sub /\ m.rev = model.rev /\ m.dirs = model.dirs
      /\ m.open = model.open \cup {row} /\ m.size = model.size /\ m.column = model.column
      /\ m.reversed = model.reversed
  <2>1. model.open \cup {row} \in SUBSET (DOMAIN model.lists \ {Top})
    BY <1>1 DEF ModelTrue
  <2>2. \A r \in model.open \cup {row} : Front(r) = Top \/ Front(r) \in model.open \cup {row}
    BY <1>4 DEF ModelTrue
  <2>3. m = [model EXCEPT !.open = model.open \cup {row}]
    OBVIOUS
  <2> DEFINE open == model.open \cup {row}
  <2> HIDE DEF m, open
  <2>4. /\ open \in SUBSET (DOMAIN model.lists \ {Top}) /\ m = [model EXCEPT !.open = open]
        /\ \A r \in open : Front(r) = Top \/ Front(r) \in open
    BY <2>1, <2>2, <2>3 DEF open
  <2>5. /\ ModelTrue(m) /\ m.lists = model.lists /\ m.sub = model.sub /\ m.rev = model.rev /\ m.dirs = model.dirs
        /\ m.open = open /\ m.size = model.size /\ m.column = model.column
        /\ m.reversed = model.reversed
    BY <2>4, OpenChanged
  <2> QED  BY <2>5 DEF open
<1>6. CanLoadSubdirectory(model, row) <=> row \notin model.sub
  BY <1>3, DirsAre DEF CanLoadSubdirectory
<1>7. model' = IF row \in model.sub THEN m ELSE LoadSubdirectory(m, row)
  BY <1>6 DEF Expand
<1> HIDE DEF m
<1>8. CASE row \in model.sub
  BY <1>1, <1>3, <1>5, <1>6, <1>7, <1>8
<1>9. CASE row \notin model.sub
  <2>1. /\ ModelTrue(model') /\ model'.lists = m.lists /\ model'.sub = m.sub \cup {row}
        /\ model'.dirs = With(m.dirs, Last(row), row) /\ model'.open = m.open
        /\ model'.size = m.size /\ model'.column = m.column /\ model'.reversed = m.reversed
    BY <1>1, <1>5, <1>7, <1>9, SubdirectoryLoaded
  <2> QED  BY <1>1, <1>3, <1>5, <1>6, <1>9, <2>1
<1> QED  BY <1>8, <1>9

\* What the loads leave true of the readings, and what is listed at once.
ReadingOK == /\ loading \subseteq Dirs /\ read \in [Dirs -> SUBSET Files]
             /\ failed \subseteq Dirs /\ missed \subseteq Dirs

LEMMA LoadsKeep ==
  ASSUME OthersOK, HasTrue, has' = has, NEW d \in Dirs, NEW rest,
         Load(d, rest) \/ (d \notin loading /\ LoadShared(d) /\ rest = <<>>)
  PROVE  /\ ReadingOK' /\ HasTrue'
         /\ calls' = rest \/ calls' = <<Listing(d, has[d], TRUE)>> \o rest
<1>1. /\ loading' = loading \/ loading' = loading \cup {d}
      /\ missed' \in {missed, missed \cup {d}, missed \ {d}}
      /\ \/ read' = read /\ loading' = loading /\ failed' \in {failed, failed \ {d}}
         \/ /\ \E some \in SUBSET has[d] : read' = [read EXCEPT ![d] = some]
            /\ loading' = loading \cup {d} /\ failed' = failed \ {d}
  <2>1. CASE StartReading(d)
    <3>1. {} \in SUBSET has[d]
      OBVIOUS
    <3> QED  BY <2>1, <3>1 DEF StartReading
  <2>2. CASE Load(d, rest) /\ ~ StartReading(d)
    BY <2>2 DEF Load
  <2>3. CASE LoadShared(d) /\ ~ StartReading(d)
    BY <2>3 DEF LoadShared
  <2> QED  BY <2>1, <2>2, <2>3
<1>2. ReadingOK' /\ HasTrue'
  <2>1. CASE read' = read /\ loading' = loading /\ failed' \in {failed, failed \ {d}}
    BY <1>1, <2>1 DEF OthersOK, ReadingOK, HasTrue
  <2>2. ASSUME NEW some \in SUBSET has[d], read' = [read EXCEPT ![d] = some],
               loading' = loading \cup {d}, failed' = failed \ {d}
        PROVE  ReadingOK' /\ HasTrue'
    <3>1. has[d] \in SUBSET Files /\ some \in SUBSET Files
      BY DEF OthersOK
    <3>2. ReadingOK'
      BY <1>1, <2>2, <3>1 DEF OthersOK, ReadingOK
    <3> QED  BY <2>2, <3>1, <3>2 DEF OthersOK, HasTrue
  <2> QED  BY <1>1, <2>1, <2>2
<1>3. calls' = rest \/ calls' = <<Listing(d, has[d], TRUE)>> \o rest
  <2>1. CASE Load(d, rest)
    BY <2>1 DEF Load
  <2>2. CASE LoadShared(d) /\ rest = <<>>
    <3>1. \A x : <<x>> \o <<>> = <<x>>
      OBVIOUS
    <3>2. calls' = <<>> \/ calls' = <<Listing(d, has[d], TRUE)>>
      BY <2>2 DEF LoadShared
    <3> QED  BY <2>2, <3>1, <3>2
  <2> QED  BY <2>1, <2>2
<1> QED  BY <1>2, <1>3

LEMMA ExpandKeeps ==
  ASSUME Idle, NEW row \in DOMAIN model.lists, Expand(row)
  PROVE  Always'
<1>1. ModelTrue(model) /\ NoneEmpty(model) /\ OthersOK /\ HasTrue /\ HeldTrue /\ calls = <<>>
  BY IdleIs DEF Idle
<1>2. /\ ModelTrue(model') /\ model'.lists = model.lists /\ Last(row) \in Folders
      /\ CanLoadSubdirectory(model, row) <=> row \notin model.sub
  BY <1>1, ExpandIs
<1> DEFINE d == Last(row)
<1>3. d \in Folders /\ d \in Dirs /\ d # Root
  BY <1>2, DirsAre
<1> HIDE DEF d
<1>4. NoneEmpty(model')
  BY <1>1, <1>2 DEF NoneEmpty
<1> DEFINE x == Listing(d, has[d], TRUE)
<1>5. x \in Calls /\ x.do = "list"
  <2>1. has[d] \in SUBSET Files
    BY <1>1, <1>3 DEF OthersOK
  <2> QED  BY <1>3, <2>1 DEF Listing, Calls
<1>6. /\ has' = has
      /\ \/ Load(d, <<>>) \/ (d \notin loading /\ LoadShared(d))
         \/ calls' = calls /\ UNCHANGED reading
  BY DEF Expand, d
<1>7. /\ ReadingOK' /\ HasTrue' /\ calls' \in {<<>>, <<x>>}
  <2>1. CASE Load(d, <<>>) \/ (d \notin loading /\ LoadShared(d))
    <3>1. \A y : <<y>> \o <<>> = <<y>>
      OBVIOUS
    <3>2. ReadingOK' /\ HasTrue' /\ (calls' = <<>> \/ calls' = <<x>> \o <<>>)
      BY <1>1, <1>3, <1>6, <2>1, LoadsKeep
    <3> QED  BY <3>1, <3>2
  <2>2. CASE calls' = calls /\ UNCHANGED reading
    BY <1>1, <1>6, <2>2 DEF reading, OthersOK, ReadingOK, HasTrue
  <2> QED  BY <1>6, <2>1, <2>2
<1> HIDE DEF x
<1>8. calls' \in Seq(Calls) /\ CallsTrue(model', calls')
  <2>1. CallTrue(model', x, <<>>)
    BY <1>5 DEF CallTrue
  <2>2. CallsTrue(model', <<>>) /\ <<>> \in Seq(Calls)
    BY NoCalls
  <2>3. CallsTrue(model', <<x>>) /\ <<x>> \in Seq(Calls)
    BY <1>5, <2>1, OneCall
  <2>4. CASE calls' = <<>>
    BY <2>2, <2>4
  <2>5. CASE calls' = <<x>>
    BY <2>3, <2>5
  <2> QED  BY <1>7, <2>4, <2>5
<1>9. /\ \/ connected' = connected /\ held' = held
         \/ connected' = connected \cup {d} /\ held' = [held EXCEPT ![d] = held[d] + 1]
      /\ timers' = timers
      /\ mishaps' \in {mishaps, mishaps \cup {"reexpanded"}}
  BY DEF Expand, d
<1>10. held' \in [Folders -> Nat]
  BY <1>1, <1>3, <1>9 DEF OthersOK
<1>11. HeldTrue'
  <2>1. \A e \in connected \ {Root} : e \in Folders
    BY <1>1, DirsAre DEF OthersOK
  <2> QED  BY <1>1, <1>3, <1>9, <2>1 DEF OthersOK, HeldTrue
<1>12. OthersOK'
  BY <1>1, <1>3, <1>6, <1>7, <1>9, <1>10 DEF OthersOK, ReadingOK, Idle
<1> QED  BY <1>2, <1>4, <1>7, <1>8, <1>11, <1>12, NoneEmptyIs, AlwaysNext

LEMMA CollapseIs ==
  ASSUME ModelTrue(model), NEW row \in DOMAIN model.lists, Collapse(row)
  PROVE  /\ ModelTrue(model') /\ model'.lists = model.lists
         /\ model'.open = model.open \ Below(row, model.open)
         /\ model'.size = model.size /\ model'.column = model.column /\ model'.reversed = model.reversed
         /\ model'.sub = model.sub /\ model'.dirs = model.dirs
         /\ row # Top /\ Last(row) \in Folders /\ row \in model.open
<1> DEFINE open == model.open \ Below(row, model.open)
<1>1. row \in model.open /\ row # Top /\ Tree(model.lists) /\ model.open \subseteq DOMAIN model.lists \ {Top}
  BY DEF Collapse, ModelTrue
<1>2. model' = [model EXCEPT !.open = open]
  BY <1>1 DEF Collapse, ModelTrue, Fields
<1>3. ASSUME NEW r \in open PROVE Front(r) = Top \/ Front(r) \in open
  <2>1. r \in model.open /\ r \in DOMAIN model.lists /\ r # Top /\ ~ IsPrefix(row, r)
    BY <1>1 DEF Below
  <2>2. Front(r) = Top \/ Front(r) \in model.open
    BY <2>1 DEF ModelTrue
  <2>3. /\ Front(r) \in DOMAIN model.lists /\ r \in Seq(Folders) /\ Front(r) \in Seq(Folders) /\ row \in Seq(Folders)
        /\ Len(r) \in Nat \ {0} /\ Len(Front(r)) = Len(r) - 1
    BY <1>1, <2>1, ParentOfRow, RowOfTree
  <2>4. IsPrefix(row, Front(r)) => IsPrefix(row, r)
    <3>1. \A i \in 1 .. Len(r) - 1 : Front(r)[i] = r[i]
      BY <2>1, <2>3, FrontLast DEF Top
    <3>2. Len(row) \in Nat
      BY <2>3, LenProperties
    <3> DEFINE p == Front(r)
    <3>3. IsPrefix(row, p) <=> Len(row) <= Len(p) /\ \A i \in 1 .. Len(row) : row[i] = p[i]
      BY <2>3, PrefixIs
    <3>4. IsPrefix(row, r) <=> Len(row) <= Len(r) /\ \A i \in 1 .. Len(row) : row[i] = r[i]
      BY <2>3, PrefixIs
    <3> HIDE DEF p
    <3>5. Len(p) = Len(r) - 1 /\ \A i \in 1 .. Len(r) - 1 : p[i] = r[i]
      BY <2>3, <3>1 DEF p
    <3>6. ASSUME IsPrefix(row, p) PROVE IsPrefix(row, r)
      BY <2>3, <3>2, <3>3, <3>4, <3>5, <3>6
    <3> QED  BY <3>6 DEF p
  <2> QED  BY <2>1, <2>2, <2>4 DEF Below
<1>4. open \in SUBSET (DOMAIN model.lists \ {Top})
  BY <1>1
<1>5. Last(row) \in Folders
  BY <1>1, ParentOfRow
<1> HIDE DEF open
<1>6. /\ ModelTrue(model') /\ model'.lists = model.lists /\ model'.sub = model.sub /\ model'.dirs = model.dirs
      /\ model'.open = open /\ model'.size = model.size /\ model'.column = model.column
      /\ model'.reversed = model.reversed
  BY <1>2, <1>3, <1>4, OpenChanged
<1> QED  BY <1>1, <1>5, <1>6 DEF open

LEMMA CollapseKeeps ==
  ASSUME Idle, NEW row \in DOMAIN model.lists, Collapse(row)
  PROVE  Always'
<1>1. ModelTrue(model) /\ NoneEmpty(model) /\ OthersOK /\ HasTrue /\ HeldTrue /\ calls = <<>>
  BY IdleIs DEF Idle
<1>2. ModelTrue(model') /\ model'.lists = model.lists /\ Last(row) \in Folders
  BY <1>1, CollapseIs
<1> DEFINE d == Last(row)
<1>3. d \in Folders /\ d # Root
  BY <1>2, DirsAre
<1> HIDE DEF d
<1>4. NoneEmpty(model')
  BY <1>1, <1>2 DEF NoneEmpty
<1>5. /\ timers[d] < MaxTimers /\ timers' = [timers EXCEPT ![d] = timers[d] + 1]
      /\ connected' = connected \ {d}
      /\ held' = [held EXCEPT ![d] = IF held[d] > 0 THEN held[d] - 1 ELSE 0]
      /\ loading' = loading \ {d} /\ read' = [read EXCEPT ![d] = {}]
      /\ failed' = failed \ {d} /\ missed' = missed \ {d}
      /\ UNCHANGED <<calls, has, mishaps>>
  BY DEF Collapse, Release, d
<1>6. held' \in [Folders -> Nat] /\ timers' \in [Folders -> 0 .. MaxTimers]
  <2>1. held[d] \in Nat /\ timers[d] \in 0 .. MaxTimers
    BY <1>1, <1>3 DEF OthersOK
  <2>2. timers[d] + 1 \in 0 .. MaxTimers
    BY <1>5, <2>1, BoundsAssumption
  <2>3. (IF held[d] > 0 THEN held[d] - 1 ELSE 0) \in Nat
    BY <2>1
  <2> QED  BY <1>1, <1>3, <1>5, <2>2, <2>3 DEF OthersOK
<1>7. HeldTrue'
  <2>1. \A e \in connected \ {Root} : e \in Folders
    BY <1>1, DirsAre DEF OthersOK
  <2> QED  BY <1>1, <1>3, <1>5, <2>1 DEF OthersOK, HeldTrue
<1>8. HasTrue'
  BY <1>1, <1>5 DEF OthersOK, HasTrue
<1>9. OthersOK' /\ calls' = <<>>
  BY <1>1, <1>5, <1>6 DEF OthersOK, Idle
<1> QED  BY <1>2, <1>4, <1>7, <1>8, <1>9, NoCalls, NoneEmptyIs, AlwaysNext

LEMMA UnloadTimerIs ==
  ASSUME ModelTrue(model), NEW d \in Folders, UnloadTimer(d)
  PROVE  \/ UNCHANGED <<model, calls, loading, read, failed, mishaps>>
         \/ \E row \in model.sub :
               /\ row \notin model.open
               /\ row \in FirstItersForFile(model, d)
               /\ ModelTrue(model') /\ model'.lists = model.lists /\ model'.sub = model.sub
               /\ model'.dirs = Without(model.dirs, {Last(row)}) /\ model'.open = model.open
               /\ model'.size = model.size /\ model'.column = model.column
               /\ model'.reversed = model.reversed
               /\ calls' = <<Unloading(row)>>
               /\ loading' = loading \ {d}
               /\ read' = [read EXCEPT ![d] = {}]
               /\ failed' = failed \cup ({d} \cap loading)
               /\ mishaps' = mishaps \cup Orphaned(row)
<1>1. CASE UNCHANGED <<model, calls, loading, read, failed, mishaps>>
  BY <1>1
<1>2. CASE ~ UNCHANGED <<model, calls, loading, read, failed, mishaps>>
  <2>1. PICK row \in FirstItersForFile(model, d) :
           /\ row \notin model.open /\ row \in model.sub
           /\ model' = UnloadSubdirectory(model, row)
           /\ calls' = <<Unloading(row)>>
           /\ loading' = loading \ {d}
           /\ read' = [read EXCEPT ![d] = {}]
           /\ failed' = failed \cup ({d} \cap loading)
           /\ mishaps' = mishaps \cup Orphaned(row)
    BY <1>2 DEF UnloadTimer
  <2>2. /\ ModelTrue(model') /\ model'.lists = model.lists /\ model'.sub = model.sub
        /\ model'.dirs = Without(model.dirs, {Last(row)}) /\ model'.open = model.open
        /\ model'.size = model.size /\ model'.column = model.column
        /\ model'.reversed = model.reversed
    BY <2>1, SubdirectoryLeft
  <2> QED  BY <2>1, <2>2
<1> QED  BY <1>1, <1>2

LEMMA UnloadTimerKeeps ==
  ASSUME Idle, NEW d \in Folders, UnloadTimer(d)
  PROVE  Always'
<1>1. ModelTrue(model) /\ NoneEmpty(model) /\ OthersOK /\ HasTrue /\ HeldTrue /\ calls = <<>>
  BY IdleIs DEF Idle
<1>2. timers[d] > 0 /\ timers' = [timers EXCEPT ![d] = timers[d] - 1] /\ UNCHANGED <<has, missed, connected, held>>
  BY DEF UnloadTimer
<1>3. timers' \in [Folders -> 0 .. MaxTimers]
  <2>1. timers[d] \in 0 .. MaxTimers
    BY <1>1 DEF OthersOK
  <2>2. timers[d] - 1 \in 0 .. MaxTimers
    BY <1>2, <2>1, BoundsAssumption
  <2> QED  BY <1>1, <1>2, <2>2 DEF OthersOK
<1>4. HeldTrue'
  BY <1>1, <1>2 DEF HeldTrue
<1>5. CASE UNCHANGED <<model, calls, loading, read, failed, mishaps>>
  <2>1. OthersOK' /\ HasTrue'
    BY <1>1, <1>2, <1>3, <1>5 DEF OthersOK, HasTrue, Idle
  <2>2. ModelTrue(model') /\ NoneEmpty(model') /\ calls' = <<>>
    BY <1>1, <1>5
  <2> QED  BY <1>4, <2>1, <2>2, NoCalls, NoneEmptyIs, AlwaysNext
<1>6. ASSUME NEW row \in model.sub,
             ModelTrue(model'), model'.lists = model.lists,
             model'.dirs = Without(model.dirs, {Last(row)}), calls' = <<Unloading(row)>>,
             loading' = loading \ {d}, read' = [read EXCEPT ![d] = {}],
             failed' = failed \cup ({d} \cap loading), mishaps' = mishaps \cup Orphaned(row)
      PROVE  Always'
  <2>1. row \in DOMAIN model.lists /\ row # Top /\ row \in Seq(Entries)
    BY <1>1, ModelTypes DEF ModelTrue
  <2>2. Unloading(row) \in Calls /\ Unloading(row).do = "unload" /\ Unloading(row).row = row
    BY <2>1, RowCallsMade
  <2>3. Last(row) \notin DOMAIN model'.dirs
    BY <1>6 DEF Without
  <2>4. CallTrue(model', Unloading(row), <<>>)
    BY <2>1, <2>2, <2>3 DEF CallTrue
  <2>5. <<Unloading(row)>> \in Seq(Calls) /\ CallsTrue(model', <<Unloading(row)>>)
    BY <2>2, <2>4, OneCall
  <2>6. Orphaned(row) \subseteq {"orphaned"}
    BY DEF Orphaned
  <2>7. OthersOK'
    BY <1>1, <1>2, <1>3, <1>6, <2>6, DirsAre DEF OthersOK, Idle
  <2>8. NoneEmpty(model')
    BY <1>1, <1>6 DEF NoneEmpty
  <2>9. HasTrue'
    BY <1>1, <1>2, <1>6, DirsAre DEF OthersOK, HasTrue
  <2> QED  BY <1>4, <1>6, <2>5, <2>7, <2>8, <2>9, NoneEmptyIs, AlwaysNext
<1> QED  BY <1>1, <1>5, <1>6, UnloadTimerIs

LEMMA ListsToSortIs ==
  ASSUME NEW m, ModelTrue(m)
  PROVE  /\ ListsToSort(m) \in SUBSET Seq(Folders)
         /\ \A row \in ListsToSort(m) : row \in DOMAIN m.lists /\ Len(m.lists[row]) > 1
         /\ Sorting(ListsToSort(m)) \in Calls
<1>1. ASSUME NEW row \in ListsToSort(m) PROVE row \in DOMAIN m.lists /\ Len(m.lists[row]) > 1
  <2>1. row \in DOMAIN m.lists /\ \A n \in 0 .. Len(row) : Len(m.lists[SubSeq(row, 1, n)]) > 1
    BY DEF ListsToSort
  <2>2. row \in Seq(Folders) /\ Len(row) \in Nat
    BY <2>1, RowOfTree DEF ModelTrue
  <2>3. Len(m.lists[SubSeq(row, 1, Len(row))]) > 1
    BY <2>1, <2>2
  <2>4. SubSeq(row, 1, Len(row)) = row
    BY <2>2, SubSeqFull
  <2> QED  BY <2>1, <2>3, <2>4
<1>2. ListsToSort(m) \in SUBSET Seq(Folders)
  BY <1>1, ModelTypes
<1> QED  BY <1>1, <1>2, ListCallsMade

LEMMA ReadingEndsKeeps ==
  ASSUME Idle, NEW d \in Dirs, DoneLoading(d) \/ ReadingFails(d)
  PROVE  Always'
<1>1. ModelTrue(model) /\ NoneEmpty(model) /\ OthersOK /\ HasTrue /\ HeldTrue
  BY IdleIs DEF Idle
<1> DEFINE x == Sorting(ListsToSort(model))
<1>2. /\ x \in Calls /\ x.do = "sort" /\ x.rows = ListsToSort(model)
      /\ \A row \in ListsToSort(model) : row \in DOMAIN model.lists /\ Len(model.lists[row]) > 1
  BY <1>1, ListsToSortIs, ListCallsMade
<1>3. CallTrue(model, x, <<>>)
  BY <1>2 DEF CallTrue
<1>4. calls' = <<x>> \/ calls' = <<>>
  BY DEF DoneLoading, ReadingFails, ReadingEnds
<1> HIDE DEF x
<1>5. calls' \in Seq(Calls) /\ CallsTrue(model, calls')
  <2>1. <<x>> \in Seq(Calls) /\ CallsTrue(model, <<x>>)
    BY <1>2, <1>3, OneCall
  <2>2. CASE calls' = <<x>>
    BY <2>1, <2>2
  <2>3. CASE calls' = <<>>
    BY <2>3, NoCalls
  <2> QED  BY <1>4, <2>2, <2>3
<1>6. /\ loading' = loading \ {d} /\ read' = [read EXCEPT ![d] = {}]
      /\ failed' \in {failed, failed \cup {d}} /\ missed' \in {missed, missed \cup {d}}
      /\ UNCHANGED <<model, has, connected, held, timers, mishaps>>
  BY DEF DoneLoading, ReadingFails, ReadingEnds
<1>7. OthersOK'
  BY <1>1, <1>6 DEF OthersOK, Idle
<1>8. HasTrue' /\ HeldTrue'
  BY <1>1, <1>6 DEF OthersOK, HasTrue, HeldTrue
<1> QED  BY <1>1, <1>5, <1>6, <1>7, <1>8, NoneEmptyIs, AlwaysNext

LEMMA SortIs ==
  ASSUME ModelTrue(model), NEW o \in Orders, Sort(o[1], o[2])
  PROVE  /\ ModelTrue(model') /\ model'.lists = model.lists /\ model'.sub = model.sub
         /\ model'.rev = model.rev /\ model'.dirs = model.dirs
         /\ model'.open = model.open /\ model'.size = model.size
         /\ calls' = <<Sorting(ListsToSort(model))>>
<1>1. o[2] \in BOOLEAN
  BY OrdersAssumption
<1>2. model' = SetSortColumn(model, o[1], o[2]) /\ calls' = <<Sorting(ListsToSort(model))>>
  BY DEF Sort
<1> QED  BY <1>1, <1>2, ColumnChanged

LEMMA SortKeeps ==
  ASSUME Idle, NEW o \in Orders, Sort(o[1], o[2])
  PROVE  Always'
<1>1. ModelTrue(model) /\ NoneEmpty(model) /\ OthersOK /\ HasTrue /\ HeldTrue /\ calls = <<>>
  BY IdleIs DEF Idle
<1>2. /\ ModelTrue(model') /\ model'.lists = model.lists
      /\ calls' = <<Sorting(ListsToSort(model))>>
  BY <1>1, SortIs
<1> DEFINE s == ListsToSort(model)
<1>3. Sorting(s) \in Calls /\ \A row \in s : row \in DOMAIN model.lists /\ Len(model.lists[row]) > 1
  BY <1>1, ListsToSortIs
<1> HIDE DEF s
<1>4. Sorting(s).do = "sort" /\ Sorting(s).rows = s
  BY ListCallsMade
<1>5. CallTrue(model', Sorting(s), <<>>)
  BY <1>2, <1>3, <1>4 DEF CallTrue
<1>6. <<Sorting(s)>> \in Seq(Calls) /\ CallsTrue(model', <<Sorting(s)>>)
  BY <1>3, <1>5, OneCall
<1>7. calls' \in Seq(Calls) /\ CallsTrue(model', calls')
  BY <1>2, <1>6 DEF s
<1>8. NoneEmpty(model')
  BY <1>1, <1>2 DEF NoneEmpty
<1>9. mishaps' \subseteq {"hidden", "orphaned", "reexpanded", "single"}
  BY <1>1 DEF Sort, OthersOK
<1>10. OthersOK' /\ HasTrue' /\ HeldTrue'
  BY <1>1, <1>9 DEF Sort, reading, OthersOK, HasTrue, HeldTrue, Idle
<1> QED  BY <1>2, <1>7, <1>8, <1>10, NoneEmptyIs, AlwaysNext

LEMMA Pushes ==
  ASSUME NEW x, NEW y, NEW z
  PROVE  <<y>> \o <<z>> = <<y, z>> /\ <<x>> \o (<<y>> \o <<z>>) = <<x, y, z>>
<1> DEFINE S == {x, y, z}
           c == <<y>> \o <<z>>
           d == <<x>> \o <<y, z>>
<1>1. /\ <<z>> \in Seq(S) /\ <<y, z>> \in Seq(S) /\ <<x, y, z>> \in Seq(S)
      /\ Len(<<z>>) = 1 /\ Len(<<y, z>>) = 2 /\ Len(<<x, y, z>>) = 3
  OBVIOUS
<1>2. /\ c \in Seq(S) /\ Len(c) = 2 /\ c[1] = y /\ c[2] = z
  <2>1. /\ c \in Seq(S) /\ Len(c) = Len(<<z>>) + 1 /\ c[1] = y
        /\ \A i \in 1 .. Len(<<z>>) : c[i + 1] = <<z>>[i]
    BY <1>1, Pushed
  <2> HIDE DEF c
  <2>2. c[1 + 1] = <<z>>[1]
    BY <1>1, <2>1
  <2> QED  BY <1>1, <2>1, <2>2
<1>3. c = <<y, z>>
  <2>1. \A i \in 1 .. Len(c) : c[i] = <<y, z>>[i]
    <3> HIDE DEF c
    <3>1. \A i \in 1 .. 2 : i = 1 \/ i = 2
      OBVIOUS
    <3> QED  BY <1>2, <3>1
  <2> HIDE DEF c
  <2> QED  BY <1>1, <1>2, <2>1, SeqEqual
<1>4. /\ d \in Seq(S) /\ Len(d) = 3 /\ d[1] = x /\ d[2] = y /\ d[3] = z
  <2>1. /\ d \in Seq(S) /\ Len(d) = Len(<<y, z>>) + 1 /\ d[1] = x
        /\ \A i \in 1 .. Len(<<y, z>>) : d[i + 1] = <<y, z>>[i]
    BY <1>1, Pushed
  <2> HIDE DEF d
  <2>2. d[1 + 1] = <<y, z>>[1] /\ d[2 + 1] = <<y, z>>[2]
    BY <1>1, <2>1
  <2> QED  BY <1>1, <2>1, <2>2
<1>5. d = <<x, y, z>>
  <2>1. \A i \in 1 .. Len(d) : d[i] = <<x, y, z>>[i]
    <3> HIDE DEF d
    <3>1. \A i \in 1 .. 3 : i = 1 \/ i = 2 \/ i = 3
      OBVIOUS
    <3> QED  BY <1>4, <3>1
  <2> HIDE DEF d
  <2> QED  BY <1>1, <1>4, <2>1, SeqEqual
<1> QED  BY <1>3, <1>5

LEMMA HideHiddenIs ==
  ASSUME HideHidden
  PROVE  \E b \in SUBSET Folders :
            /\ b = {d \in Folders : held[d] > 0}
            /\ calls' = <<Clearing(Top)>> \o (<<ListingAgain({Root})>> \o <<ListingAgain(b)>>)
<1> DEFINE b == {d \in Folders : held[d] > 0}
<1>1. calls' = <<Clearing(Top), ListingAgain({Root}), ListingAgain(b)>>
  BY DEF HideHidden
<1>2. b \in SUBSET Folders
  OBVIOUS
<1> HIDE DEF b
<1>3. \A x, y, z : <<x, y, z>> = <<x>> \o (<<y>> \o <<z>>)
  BY Pushes
<1>4. calls' = <<Clearing(Top)>> \o (<<ListingAgain({Root})>> \o <<ListingAgain(b)>>)
  BY <1>1, <1>3
<1> QED  BY <1>2, <1>4 DEF b

LEMMA HideHiddenKeeps ==
  ASSUME Idle, HideHidden
  PROVE  Always'
<1>1. ModelTrue(model) /\ NoneEmpty(model) /\ OthersOK /\ HasTrue /\ HeldTrue /\ calls = <<>>
  BY IdleIs DEF Idle
<1> DEFINE a == {Root}
<1>2. PICK b \in SUBSET Folders :
         calls' = <<Clearing(Top)>> \o (<<ListingAgain(a)>> \o <<ListingAgain(b)>>)
  BY HideHiddenIs
<1>3. /\ ListingAgain(a) \in Calls /\ ListingAgain(b) \in Calls
      /\ ListingAgain(a).do = "again" /\ ListingAgain(b).do = "again"
  <2>1. a \in SUBSET Dirs /\ b \in SUBSET Dirs
    BY DirsAre
  <2> QED  BY <2>1, ListCallsMade
<1>4. Clearing(Top) \in Calls /\ Clearing(Top).do = "clear" /\ Clearing(Top).row = Top
  <2>1. Top \in Seq(Entries)
    BY DEF Top
  <2> QED  BY <2>1, RowCallsMade
<1> DEFINE x == ListingAgain(a)
           y == ListingAgain(b)
           z == Clearing(Top)
<1>5. /\ x \in Calls /\ y \in Calls /\ z \in Calls /\ x.do = "again" /\ y.do = "again" /\ z.do = "clear"
      /\ z.row = Top /\ calls' = <<z>> \o (<<x>> \o <<y>>)
  BY <1>2, <1>3, <1>4
<1> HIDE DEF x, y, z
<1>6. <<y>> \in Seq(Calls) /\ CallsTrue(model, <<y>>) /\ NoneListing(<<y>>) /\ CallTrue(model, x, <<y>>)
  <2>1. CallTrue(model, y, <<>>)
    BY <1>5 DEF CallTrue
  <2>2. DOMAIN <<y>> = {1} /\ <<y>>[1] = y
    OBVIOUS
  <2> QED  BY <1>5, <2>1, <2>2, OneCall DEF NoneListing, CallTrue
<1> DEFINE c == <<x>> \o <<y>>
<1>7. c \in Seq(Calls) /\ CallsTrue(model, c)
  BY <1>5, <1>6, Pushed, CallsTruePushed
<1>8. NoneListing(c)
  <2>1. DOMAIN c = 1 .. 2 /\ c[1] = x /\ c[2] = y
    OBVIOUS
  <2> HIDE DEF c
  <2>2. ASSUME NEW j \in DOMAIN c PROVE c[j] = x \/ c[j] = y
    BY <2>1
  <2> QED  BY <1>5, <2>2 DEF NoneListing
<1>9. CallTrue(model, z, c)
  BY <1>5 DEF CallTrue
<1> HIDE DEF c
<1>10. <<z>> \o c \in Seq(Calls) /\ CallsTrue(model, <<z>> \o c)
  BY <1>5, <1>7, <1>8, <1>9, Pushed, CallsTruePushed
<1>11. calls' \in Seq(Calls) /\ CallsTrue(model, calls') /\ model' = model
  BY <1>5, <1>10 DEF c, HideHidden
<1>12. OthersOK' /\ HasTrue' /\ HeldTrue'
  BY <1>1 DEF HideHidden, reading, OthersOK, HasTrue, HeldTrue, Idle
<1> QED  BY <1>1, <1>11, <1>12, NoneEmptyIs, AlwaysNext

LEMMA ReloadIs ==
  ASSUME Reload
  PROVE  calls' = <<Clearing(Top)>> \o <<ListingAgain({Root})>>
BY Pushes DEF Reload

LEMMA ReloadKeeps ==
  ASSUME Idle, Reload
  PROVE  Always'
<1>1. ModelTrue(model) /\ NoneEmpty(model) /\ OthersOK /\ HasTrue /\ HeldTrue /\ calls = <<>>
  BY IdleIs DEF Idle
<1> DEFINE z == Clearing(Top)
           y == ListingAgain({Root})
<1>2. z \in Calls /\ z.do = "clear" /\ z.row = Top
  <2>1. Top \in Seq(Entries)
    BY DEF Top
  <2> QED  BY <2>1, RowCallsMade
<1>3. y \in Calls /\ y.do = "again"
  <2>1. {Root} \in SUBSET Dirs
    BY DirsAre
  <2> QED  BY <2>1, ListCallsMade
<1>4. calls' = <<z>> \o <<y>> /\ model' = model
  BY ReloadIs DEF Reload
<1> HIDE DEF y, z
<1>5. <<y>> \in Seq(Calls) /\ CallsTrue(model, <<y>>) /\ NoneListing(<<y>>)
  <2>1. CallTrue(model, y, <<>>)
    BY <1>3 DEF CallTrue
  <2>2. DOMAIN <<y>> = {1} /\ <<y>>[1] = y
    OBVIOUS
  <2> QED  BY <1>3, <2>1, <2>2, OneCall DEF NoneListing
<1>6. CallTrue(model, z, <<y>>)
  BY <1>2 DEF CallTrue
<1>7. calls' \in Seq(Calls) /\ CallsTrue(model, calls')
  BY <1>2, <1>4, <1>5, <1>6, Pushed, CallsTruePushed
<1>8. loading' \subseteq loading /\ failed' \subseteq failed \cup {Root} /\ loading' \cap failed' = {}
  BY <1>1 DEF Reload, HasTrue
<1>9. HasTrue'
  BY <1>1, <1>8 DEF Reload, HasTrue
<1>10. OthersOK' /\ HeldTrue'
  BY <1>1, <1>8, DirsAre DEF Reload, OthersOK, HeldTrue, Idle
<1> QED  BY <1>1, <1>4, <1>7, <1>9, <1>10, NoneEmptyIs, AlwaysNext

LEMMA HappensKeeps == Always /\ Happens => Always'
<1> SUFFICES ASSUME Always, Happens PROVE Always'
  OBVIOUS
<1>1. Idle
  <2>1. after \in 0 .. MaxAfter
    BY AlwaysIs DEF OthersOK
  <2>2. after' = 0 \/ (after < MaxAfter /\ after' = after + 1)
    BY DEF Happens
  <2>3. after' \in 0 .. MaxAfter
    BY <2>1, <2>2, BoundsAssumption
  <2> QED  BY <2>3 DEF Idle, Happens
<1>2. \/ \E d \in Dirs : (\E some : Batch(d, some)) \/ DoneLoading(d) \/ ReadingFails(d)
      \/ \E f \in Files : FileAdded(f) \/ FileDeleted(f) \/ FileGrows(f)
      \/ \E row \in DOMAIN model.lists : Expand(row) \/ Collapse(row)
      \/ \E d \in Folders : UnloadTimer(d)
      \/ \E o \in Orders : Sort(o[1], o[2])
      \/ HideHidden
      \/ Reload
  BY DEF Happens
<1> QED  BY <1>1, <1>2, BatchKeeps, ReadingEndsKeeps, FileAddedKeeps, FileDeletedKeeps, FileGrowsKeeps, ExpandKeeps,
            CollapseKeeps, UnloadTimerKeeps, SortKeeps, HideHiddenKeeps, ReloadKeeps

-------------------------------------------------------------------------------
(* The steps of the calls keep Always.                                     *)

Others == <<has, connected, held, timers, mishaps, after>>

Busy == /\ Always /\ calls # <<>> /\ UNCHANGED Others
        /\ UNCHANGED reading \/ ListNext

LEMMA BusyIs ==
  ASSUME Busy
  PROVE  /\ ModelTrue(model) /\ calls \in Seq(Calls) /\ CallsTrue(model, calls)
         /\ Call \in Calls /\ Tail(calls) \in Seq(Calls) /\ calls = <<Call>> \o Tail(calls)
         /\ CallsTrue(model, Tail(calls)) /\ NoneListing(Tail(calls)) /\ CallTrue(model, Call, Tail(calls))
         /\ \A call : Calling(calls, call) <=> Call = call \/ Calling(Tail(calls), call)
         /\ \A row \in DOMAIN model.lists \ {Top} :
               model.lists[row] = <<>> => Calling(calls, Removing(row))
         /\ OthersOK' /\ HasTrue' /\ HeldTrue'
<1>1. ModelTrue(model) /\ calls \in Seq(Calls) /\ CallsTrue(model, calls) /\ calls # <<>>
      /\ EmptyIsLeaving(model, calls)
  BY AlwaysIs DEF Busy
<1>2. Call \in Calls /\ Tail(calls) \in Seq(Calls) /\ calls = <<Call>> \o Tail(calls)
  BY <1>1, Popped DEF Call
<1>3. CallsTrue(model, Tail(calls)) /\ NoneListing(Tail(calls)) /\ CallTrue(model, Call, Tail(calls))
  BY <1>1, CallsTruePopped DEF Call
<1>4. \A call : Calling(calls, call) <=> Call = call \/ Calling(Tail(calls), call)
  BY <1>1, CallingPopped DEF Call
<1>5. \A row \in DOMAIN model.lists \ {Top} : model.lists[row] = <<>> => Calling(calls, Removing(row))
  BY <1>1, EmptyAre
<1>6. OthersOK /\ HasTrue /\ HeldTrue
  BY AlwaysIs DEF Busy
<1>7. OthersOK' /\ HasTrue' /\ HeldTrue'
  <2>1. CASE UNCHANGED reading
    BY <1>6, <2>1 DEF Busy, Others, reading, OthersOK, HasTrue, HeldTrue
  <2>2. ASSUME NEW d \in Call.dirs, NEW rest, Call.do = "again", Load(d, rest)
        PROVE  OthersOK' /\ HasTrue' /\ HeldTrue'
    <3>1. d \in Dirs
      BY <1>2, <2>2, CallIs
    <3>2. ReadingOK' /\ HasTrue'
      BY <1>6, <2>2, <3>1, LoadsKeep DEF Busy, Others
    <3> QED  BY <1>6, <3>2 DEF Busy, Others, ReadingOK, OthersOK, HeldTrue
  <2> QED  BY <2>1, <2>2 DEF Busy, ListNext
<1> QED  BY <1>1, <1>2, <1>3, <1>4, <1>5, <1>7

LEMMA NoneListingPushed ==
  ASSUME NEW c \in Seq(Calls), NoneListing(c), NEW x \in Calls, x.do \notin {"list", "sort"}
  PROVE  NoneListing(<<x>> \o c)
<1> DEFINE d == <<x>> \o c
<1>1. /\ DOMAIN d = 1 .. Len(c) + 1 /\ Len(c) \in Nat /\ d[1] = x
      /\ \A i \in 2 .. Len(c) + 1 : d[i] = c[i - 1] /\ i - 1 \in DOMAIN c
  BY Pushed
<1> HIDE DEF d
<1>2. \A i \in DOMAIN d : i = 1 \/ i \in 2 .. Len(c) + 1
  BY <1>1
<1>3. NoneListing(d)
  BY <1>1, <1>2 DEF NoneListing
<1> QED  BY <1>3 DEF d

LEMMA BusyListing ==
  ASSUME Busy, Call.do \notin {"list", "sort"}
  PROVE  NoneListing(calls)
<1>1. /\ Call \in Calls /\ Tail(calls) \in Seq(Calls) /\ calls = <<Call>> \o Tail(calls)
      /\ NoneListing(Tail(calls))
  BY BusyIs
<1>2. NoneListing(<<Call>> \o Tail(calls))
  BY <1>1, NoneListingPushed
<1> QED  BY <1>1, <1>2

\* A call that is made, while no list changes.
LEMMA CallMade ==
  ASSUME NEW m, NEW c \in Seq(Calls), CallsTrue(m, c), NoneListing(c), EmptyIsLeaving(m, c),
         NEW x \in Calls, CallTrue(m, x, c)
  PROVE  /\ <<x>> \o c \in Seq(Calls) /\ CallsTrue(m, <<x>> \o c) /\ EmptyIsLeaving(m, <<x>> \o c)
<1>1. <<x>> \o c \in Seq(Calls) /\ CallsTrue(m, <<x>> \o c)
  BY Pushed, CallsTruePushed
<1>2. \A call : Calling(c, call) => Calling(<<x>> \o c, call)
  BY CallingPushed
<1>3. EmptyIsLeaving(m, <<x>> \o c)
  BY <1>2, EmptyAre
<1> QED  BY <1>1, <1>3

\* A call other than fm_list_model_remove returns, while no list changes.
LEMMA CallReturned ==
  ASSUME NEW m, NEW c \in Seq(Calls), c # <<>>, CallsTrue(m, c), EmptyIsLeaving(m, c),
         Head(c).do # "remove"
  PROVE  /\ Tail(c) \in Seq(Calls) /\ CallsTrue(m, Tail(c)) /\ EmptyIsLeaving(m, Tail(c))
         /\ NoneListing(Tail(c))
<1>1. Tail(c) \in Seq(Calls) /\ CallsTrue(m, Tail(c)) /\ NoneListing(Tail(c))
  BY Popped, CallsTruePopped
<1>2. \A row : Calling(c, Removing(row)) => Calling(Tail(c), Removing(row))
  BY CallingPopped, RowCallsMade
<1>3. EmptyIsLeaving(m, Tail(c))
  BY <1>2, EmptyAre
<1> QED  BY <1>1, <1>3

LEMMA HeadOfList ==
  ASSUME NEW m, ModelTrue(m), NEW row \in DOMAIN m.lists, m.lists[row] # <<>>
  PROVE  /\ Head(m.lists[row]) \in ToSet(m.lists[row]) /\ Head(m.lists[row]) \in Entries
         /\ Head(m.lists[row]) # Dummy => Head(m.lists[row]) \in Files
         /\ Append(row, Head(m.lists[row])) \in Seq(Entries) /\ Append(row, Head(m.lists[row])) # Top
         /\ Front(Append(row, Head(m.lists[row]))) = row
         /\ Last(Append(row, Head(m.lists[row]))) = Head(m.lists[row])
<1>1. m.lists[row] \in Seq(Entries) /\ row \in Seq(Entries)
  BY ModelTypes
<1>2. /\ Len(m.lists[row]) \in Nat \ {0} /\ Head(m.lists[row]) = m.lists[row][1]
      /\ DOMAIN m.lists[row] = 1 .. Len(m.lists[row]) /\ Head(m.lists[row]) \in Entries
  BY <1>1, Popped
<1>3. Head(m.lists[row]) \in ToSet(m.lists[row])
  BY <1>2 DEF ToSet
<1>4. Head(m.lists[row]) # Dummy => Head(m.lists[row]) \in Files
  BY <1>2 DEF Entries
<1> DEFINE f == Head(m.lists[row])
<1> HIDE DEF f
<1>5. f \in Entries
  BY <1>2 DEF f
<1>6. Append(row, f) \in Seq(Entries) /\ Append(row, f) # Top /\ Front(Append(row, f)) = row
      /\ Last(Append(row, f)) = f
  BY <1>1, <1>5, AppendFront DEF Top
<1> QED  BY <1>2, <1>3, <1>4, <1>6 DEF f

\* The child that fm_list_model_remove removes has been found by its folder.
LEMMA ChildToRemoveIs ==
  ASSUME NEW m, ModelTrue(m), NEW row \in DOMAIN m.lists, m.lists[row] # <<>>,
         Head(m.lists[row]) # Dummy, ChildToRemove(m, row) # NoRow
  PROVE  LET f == Head(m.lists[row])
             parent == ParentOf(m, IF row \in m.sub THEN Last(row) ELSE Dummy)
         IN  /\ ChildToRemove(m, row) = Append(parent, f) /\ f \in Files
             /\ f \in m.rev[parent] /\ f \in ToSet(m.lists[parent])
             /\ ChildToRemove(m, row) \in Seq(Entries) /\ ChildToRemove(m, row) # Top
             /\ Last(ChildToRemove(m, row)) = f
<1> DEFINE f == Head(m.lists[row])
           dir == IF row \in m.sub THEN Last(row) ELSE Dummy
           parent == ParentOf(m, dir)
<1>1. f \in Files
  BY HeadOfList
<1>2. ChildToRemove(m, row) = LookupFile(m, f, dir)
  BY DEF ChildToRemove
<1> HIDE DEF f, dir
<1>3. /\ LookupFile(m, f, dir) = IF f \in m.rev[parent] THEN Append(parent, f) ELSE NoRow
      /\ Append(parent, f) # Top /\ Last(Append(parent, f)) = f
      /\ Append(parent, f) \in Seq(Entries)
      /\ f \in m.rev[parent] <=> f \in ToSet(m.lists[parent])
  BY <1>1, LookupIs
<1> HIDE DEF parent
<1>4. f \in m.rev[parent] /\ ChildToRemove(m, row) = Append(parent, f)
  BY <1>2, <1>3 DEF parent
<1>5. /\ f \in ToSet(m.lists[parent]) /\ ChildToRemove(m, row) \in Seq(Entries)
      /\ ChildToRemove(m, row) # Top /\ Last(ChildToRemove(m, row)) = f
  BY <1>3, <1>4 DEF parent
<1> QED  BY <1>1, <1>4, <1>5 DEF f, dir, parent

LEMMA RemoveChildKeeps ==
  ASSUME Busy, RemoveChild
  PROVE  Always'
<1> DEFINE row == Call.row
<1>1. /\ ModelTrue(model) /\ calls \in Seq(Calls) /\ CallsTrue(model, calls) /\ calls # <<>>
      /\ OthersOK' /\ HasTrue' /\ HeldTrue' /\ Call \in Calls
      /\ \A call : Calling(calls, call) <=> Call = call \/ Calling(Tail(calls), call)
      /\ \A r \in DOMAIN model.lists \ {Top} :
            model.lists[r] = <<>> => Calling(calls, Removing(r))
  BY BusyIs DEF Busy
<1>2. /\ Call.do = "remove" /\ row \in DOMAIN model.lists /\ model.lists[row] # <<>>
      /\ Call = Removing(row)
  BY <1>1, CallIs DEF RemoveChild, HasChild
<1> HIDE DEF row
<1>3. NoneListing(calls)
  BY <1>2, BusyListing
<1>4. EmptyIsLeaving(model, calls)
  BY <1>1, EmptyAre
<1>5. CASE Head(model.lists[row]) = Dummy
  <2>1. model' = RemoveDummy(model, row) /\ calls' = calls
    BY <1>5 DEF RemoveChild, row
  <2>2. Emptied(model, model', row) /\ ModelTrue(model')
    BY <1>1, <1>2, <1>5, <2>1, DummyIsRemoved
  <2>3. CallsTrue(model', calls)
    <3>1. DOMAIN model'.dirs \subseteq DOMAIN model.dirs
      BY <2>2 DEF Emptied
    <3> QED  BY <1>1, <1>3, <3>1, CallsStayTrue
  <2>4. \A r \in DOMAIN model'.lists \ {Top} : model'.lists[r] = <<>> => Calling(calls, Removing(r))
    BY <1>1, <1>2, <2>2 DEF Emptied
  <2>5. EmptyIsLeaving(model', calls)
    BY <2>4, EmptyAre
  <2> QED  BY <1>1, <2>1, <2>2, <2>3, <2>5, AlwaysNext
<1>6. CASE Head(model.lists[row]) # Dummy
  <2> DEFINE child == ChildToRemove(model, row)
  <2>1. child # NoRow /\ calls' = <<Removing(child)>> \o calls /\ model' = model
    BY <1>6 DEF RemoveChild, MakeCalls, row
  <2>2. child \in Seq(Entries) /\ child # Top /\ Last(child) \in Files
    BY <1>1, <1>2, <1>6, <2>1, ChildToRemoveIs
  <2> HIDE DEF child
  <2>3. /\ Removing(child) \in Calls /\ Removing(child).do = "remove" /\ Removing(child).row = child
    BY <2>2, RowCallsMade
  <2>4. CallTrue(model, Removing(child), calls)
    BY <2>2, <2>3, DirsAre DEF CallTrue
  <2>5. /\ calls' \in Seq(Calls) /\ CallsTrue(model, calls') /\ EmptyIsLeaving(model, calls')
    BY <1>1, <1>3, <1>4, <2>1, <2>3, <2>4, CallMade
  <2> QED  BY <1>1, <2>1, <2>5, AlwaysNext
<1> QED  BY <1>5, <1>6

LEMMA RemoveItselfIs ==
  ASSUME Busy, RemoveItself
  PROVE  LET parent == Front(Call.row)
             f == Last(Call.row)
         IN  /\ Removed(model, model', parent, f) /\ ModelTrue(model')
             /\ parent \in DOMAIN model.lists /\ f \in ToSet(model.lists[parent])
             /\ Append(parent, f) = Call.row /\ Call = Removing(Call.row) /\ calls' = Tail(calls)
             /\ Call.row \in DOMAIN model.lists => model.lists[Call.row] = <<>>
             /\ model'.lists[parent] = <<>> => parent = Top \/ Calling(Tail(calls), Removing(parent))
<1> DEFINE row == Call.row
           parent == Front(row)
           f == Last(row)
<1>1. /\ ModelTrue(model) /\ Call \in Calls /\ CallTrue(model, Call, Tail(calls))
  BY BusyIs
<1>2. /\ Call.do = "remove" /\ IsRow(model, row) /\ ~ HasChild(row)
      /\ Call = Removing(row) /\ row \in Seq(Entries)
      /\ model' = RemoveRow(model, row) /\ calls' = Tail(calls)
  BY <1>1, CallIs DEF RemoveItself, RowCall, Return
<1>3. parent \in DOMAIN model.lists /\ f \in ToSet(model.lists[parent]) /\ row = Append(parent, f)
  BY <1>1, <1>2, RowIsOnTree DEF IsRow, ModelTrue
<1>4. row \in DOMAIN model.lists => model.lists[row] = <<>>
  BY <1>2 DEF HasChild
<1>5. f = Dummy => Calling(Tail(calls), Removing(parent))
  BY <1>1, <1>2 DEF CallTrue
<1> HIDE DEF row, parent, f
<1>6. Removed(model, model', parent, f) /\ ModelTrue(model')
  BY <1>1, <1>2, <1>3, <1>4, RowIsRemoved
<1>7. model'.lists[parent] = <<>> => parent = Top \/ Calling(Tail(calls), Removing(parent))
  BY <1>5, <1>6 DEF Removed
<1> QED  BY <1>2, <1>3, <1>4, <1>6, <1>7 DEF row, parent, f

LEMMA RemoveItselfKeeps ==
  ASSUME Busy, RemoveItself
  PROVE  Always'
<1> DEFINE row == Call.row
           parent == Front(row)
           f == Last(row)
           rest == Tail(calls)
<1>1. /\ rest \in Seq(Calls) /\ CallsTrue(model, rest) /\ NoneListing(rest)
      /\ OthersOK' /\ HasTrue' /\ HeldTrue'
      /\ \A call : Calling(calls, call) <=> Call = call \/ Calling(rest, call)
      /\ \A r \in DOMAIN model.lists \ {Top} :
            model.lists[r] = <<>> => Calling(calls, Removing(r))
  BY BusyIs
<1>2. /\ Removed(model, model', parent, f) /\ ModelTrue(model')
      /\ parent \in DOMAIN model.lists /\ Append(parent, f) = row
      /\ Call = Removing(row) /\ calls' = rest
      /\ model'.lists[parent] = <<>> => parent = Top \/ Calling(rest, Removing(parent))
  BY RemoveItselfIs
<1> HIDE DEF row, parent, f, rest
<1>3. /\ DOMAIN model'.lists = DOMAIN model.lists \ {row} /\ DOMAIN model'.dirs \subseteq DOMAIN model.dirs
      /\ \A r \in DOMAIN model.lists \ {parent, row} : model'.lists[r] = model.lists[r]
  BY <1>2 DEF Removed, Without
<1>4. CallsTrue(model', rest)
  BY <1>1, <1>3, CallsStayTrue
<1>5. \A r \in DOMAIN model'.lists \ {Top} : model'.lists[r] = <<>> => Calling(rest, Removing(r))
  <2> SUFFICES ASSUME NEW r \in DOMAIN model'.lists \ {Top}, model'.lists[r] = <<>>
               PROVE  Calling(rest, Removing(r))
    OBVIOUS
  <2>1. CASE r = parent
    BY <1>2, <2>1
  <2>2. CASE r # parent
    <3>1. r # row /\ r \in DOMAIN model.lists \ {Top} /\ model.lists[r] = <<>>
      BY <1>3, <2>2
    <3>2. Removing(r) # Removing(row)
      BY <3>1, RowCallsMade
    <3> QED  BY <1>1, <1>2, <3>1, <3>2
  <2> QED  BY <2>1, <2>2
<1>6. EmptyIsLeaving(model', rest)
  BY <1>5, EmptyAre
<1> QED  BY <1>1, <1>2, <1>4, <1>6, AlwaysNext

LEMMA ClearDirectoryKeeps ==
  ASSUME Busy, ClearDirectory
  PROVE  Always'
<1> DEFINE row == Call.row
           first == Append(row, Head(model.lists[row]))
<1>1. /\ ModelTrue(model) /\ calls \in Seq(Calls) /\ CallsTrue(model, calls) /\ calls # <<>>
      /\ OthersOK' /\ HasTrue' /\ HeldTrue' /\ Call \in Calls /\ CallTrue(model, Call, Tail(calls))
      /\ Tail(calls) \in Seq(Calls)
      /\ \A call : Calling(calls, call) <=> Call = call \/ Calling(Tail(calls), call)
      /\ \A r \in DOMAIN model.lists \ {Top} :
            model.lists[r] = <<>> => Calling(calls, Removing(r))
  BY BusyIs DEF Busy
<1>2. /\ Call.do = "clear" /\ row \in DOMAIN model.lists /\ model' = model
  BY DEF ClearDirectory
<1>3. EmptyIsLeaving(model, calls)
  BY <1>1, EmptyAre
<1>4. CASE ~ HasChild(row)
  <2>1. calls' = Tail(calls)
    BY <1>4 DEF ClearDirectory, Return
  <2>2. Head(calls).do # "remove"
    BY <1>2 DEF Call
  <2>3. calls' \in Seq(Calls) /\ CallsTrue(model, calls') /\ EmptyIsLeaving(model, calls')
    BY <1>1, <1>3, <2>1, <2>2, CallReturned
  <2> QED  BY <1>1, <1>2, <2>3, AlwaysNext
<1>5. CASE HasChild(row)
  <2>1. /\ Head(model.lists[row]) \in ToSet(model.lists[row])
        /\ first \in Seq(Entries) /\ first # Top /\ Last(first) = Head(model.lists[row])
        /\ Front(first) = row
    BY <1>1, <1>2, <1>5, HeadOfList DEF HasChild
  <2>2. calls' = ((IF first \in DOMAIN model.lists THEN <<Clearing(first)>> ELSE <<>>)
                    \o <<Removing(first)>>) \o calls
    BY <1>5 DEF ClearDirectory, MakeCalls
  <2>3. Last(first) = Dummy => Calling(calls, Removing(Front(first)))
    <3>1. SUFFICES ASSUME Last(first) = Dummy PROVE Calling(calls, Removing(row))
      BY <2>1
    <3>2. row # Top
      BY <1>1, <1>2, <2>1, <3>1 DEF ModelTrue
    <3>3. Tail(calls) # <<>> /\ Head(Tail(calls)) = Removing(row)
      BY <1>1, <1>2, <3>2 DEF CallTrue
    <3>4. Calling(Tail(calls), Removing(row))
      BY <1>1, <3>3, CallingPopped
    <3> QED  BY <1>1, <3>4
  <2> HIDE DEF first
  <2>4. NoneListing(calls)
    BY <1>2, BusyListing
  <2>5. /\ Removing(first) \in Calls /\ Removing(first).do = "remove" /\ Removing(first).row = first
        /\ Clearing(first) \in Calls /\ Clearing(first).do = "clear" /\ Clearing(first).row = first
    BY <2>1, RowCallsMade
  <2>6. CallTrue(model, Removing(first), calls)
    BY <2>1, <2>3, <2>5 DEF CallTrue
  <2> DEFINE c == <<Removing(first)>> \o calls
  <2>7. c \in Seq(Calls) /\ CallsTrue(model, c) /\ EmptyIsLeaving(model, c)
    BY <1>1, <1>3, <2>4, <2>5, <2>6, CallMade
  <2>8. NoneListing(c) /\ c # <<>> /\ Head(c) = Removing(first)
    BY <1>1, <2>4, <2>5, NoneListingPushed, Pushed
  <2>9. CallTrue(model, Clearing(first), c)
    <3> HIDE DEF c
    <3> QED  BY <2>5, <2>8 DEF CallTrue
  <2>10. <<Clearing(first)>> \o c \in Seq(Calls) /\ CallsTrue(model, <<Clearing(first)>> \o c)
         /\ EmptyIsLeaving(model, <<Clearing(first)>> \o c)
    <3> HIDE DEF c
    <3> QED  BY <2>5, <2>7, <2>8, <2>9, CallMade
  <2>11. calls' = IF first \in DOMAIN model.lists THEN <<Clearing(first)>> \o c ELSE c
    <3>1. <<Removing(first)>> \in Seq(Calls) /\ <<Clearing(first)>> \in Seq(Calls) /\ calls \in Seq(Calls)
      BY <1>1, <2>5
    <3>2. (<<Clearing(first)>> \o <<Removing(first)>>) \o calls = <<Clearing(first)>> \o c
      BY <3>1, ConcatAssociative
    <3>3. <<>> \o <<Removing(first)>> = <<Removing(first)>>
      BY <3>1, ConcatEmptySeq
    <3> QED  BY <2>2, <3>2, <3>3
  <2> HIDE DEF c
  <2> QED  BY <1>1, <1>2, <2>7, <2>10, <2>11, AlwaysNext
<1> QED  BY <1>4, <1>5

LEMMA UnloadChildKeeps ==
  ASSUME Busy, UnloadChild
  PROVE  Always'
<1> DEFINE row == Call.row
           first == Append(row, Head(model.lists[row]))
<1>1. /\ ModelTrue(model) /\ calls \in Seq(Calls) /\ CallsTrue(model, calls) /\ calls # <<>>
      /\ OthersOK' /\ HasTrue' /\ HeldTrue' /\ Call \in Calls /\ CallTrue(model, Call, Tail(calls))
      /\ \A r \in DOMAIN model.lists \ {Top} :
            model.lists[r] = <<>> => Calling(calls, Removing(r))
  BY BusyIs DEF Busy
<1>2. /\ Call.do = "unload" /\ row \in model.sub /\ row \in DOMAIN model.lists
      /\ Last(row) \notin DOMAIN model.dirs
  BY <1>1 DEF UnloadChild, CallTrue, ModelTrue
<1>3. EmptyIsLeaving(model, calls)
  BY <1>1, EmptyAre
<1>4. CASE HasChild(row) /\ Head(model.lists[row]) # Dummy
  <2>1. /\ Head(model.lists[row]) \in Files
        /\ first \in Seq(Entries) /\ first # Top /\ Last(first) = Head(model.lists[row])
    BY <1>1, <1>2, <1>4, HeadOfList DEF HasChild
  <2>2. calls' = <<Removing(first)>> \o calls /\ model' = model
    BY <1>4 DEF UnloadChild, MakeCalls
  <2> HIDE DEF first
  <2>3. NoneListing(calls)
    BY <1>2, BusyListing
  <2>4. Removing(first) \in Calls /\ Removing(first).do = "remove" /\ Removing(first).row = first
    BY <2>1, RowCallsMade
  <2>5. CallTrue(model, Removing(first), calls)
    BY <2>1, <2>4, DirsAre DEF CallTrue
  <2>6. calls' \in Seq(Calls) /\ CallsTrue(model, calls') /\ EmptyIsLeaving(model, calls')
    BY <1>1, <1>3, <2>2, <2>3, <2>4, <2>5, CallMade
  <2> QED  BY <1>1, <2>2, <2>6, AlwaysNext
<1>5. CASE ~ (HasChild(row) /\ Head(model.lists[row]) # Dummy)
  <2>1. model.rev[row] = {} /\ model' = Unloaded(model, row) /\ calls' = Tail(calls)
    BY <1>5 DEF UnloadChild, Return
  <2>2. ModelTrue(model') /\ model'.lists = model.lists /\ model'.dirs = model.dirs
    BY <1>1, <1>2, <2>1, SubdirectoryUnloaded
  <2>3. Head(calls).do # "remove"
    BY <1>2 DEF Call
  <2>4. calls' \in Seq(Calls) /\ CallsTrue(model, calls') /\ EmptyIsLeaving(model, calls') /\ NoneListing(calls')
    BY <1>1, <1>3, <2>1, <2>3, CallReturned
  <2>5. CallsTrue(model', calls') /\ EmptyIsLeaving(model', calls')
    BY <2>2, <2>4, CallsStayTrue DEF EmptyIsLeaving
  <2> QED  BY <1>1, <2>2, <2>4, <2>5, AlwaysNext
<1> QED  BY <1>4, <1>5

\* While files are listed or sorted, only folders to be listed wait.
LEMMA ListingIs ==
  ASSUME Busy, Call.do \in {"list", "sort", "again"}
  PROVE  /\ \A j \in DOMAIN Tail(calls) : Tail(calls)[j].do = "again"
         /\ \A row : ~ Calling(calls, Removing(row))
         /\ NoneEmpty(model)
<1>1. /\ CallTrue(model, Call, Tail(calls))
      /\ \A call : Calling(calls, call) <=> Call = call \/ Calling(Tail(calls), call)
      /\ \A r \in DOMAIN model.lists \ {Top} :
            model.lists[r] = <<>> => Calling(calls, Removing(r))
  BY BusyIs
<1>2. \A j \in DOMAIN Tail(calls) : Tail(calls)[j].do = "again"
  BY <1>1 DEF CallTrue
<1>3. ASSUME NEW row PROVE ~ Calling(calls, Removing(row))
  <2>1. Removing(row).do = "remove"
    BY RowCallsMade
  <2>2. ~ Calling(Tail(calls), Removing(row))
    BY <1>2, <2>1 DEF Calling
  <2> QED  BY <1>1, <2>1, <2>2
<1> QED  BY <1>1, <1>2, <1>3 DEF NoneEmpty

LEMMA ListFileIs ==
  ASSUME Busy, ListFile
  PROVE  \E f \in Call.files :
            /\ model' = AddFile(model, f, Call.dir) /\ f \in Files
            /\ calls' = <<Listing(Call.dir, Call.files \ {f}, Call.last)>> \o Tail(calls)
            /\ Call.dir \in Dirs /\ Call.files \subseteq Files /\ Call.last \in BOOLEAN
            /\ Call = Listing(Call.dir, Call.files, Call.last)
<1>1. Call \in Calls
  BY BusyIs
<1>2. PICK f \in Call.files :
          /\ model' = AddFile(model, f, Call.dir)
          /\ calls' = <<[Call EXCEPT !.files = Call.files \ {f}]>> \o Tail(calls)
  BY DEF ListFile
<1>3. Call.do = "list"
  BY DEF ListFile
<1>4. /\ Call.dir \in Dirs /\ Call.files \subseteq Files /\ Call.last \in BOOLEAN
      /\ Call = Listing(Call.dir, Call.files, Call.last)
  BY <1>1, <1>3, CallIs
<1>5. [Call EXCEPT !.files = Call.files \ {f}] = Listing(Call.dir, Call.files \ {f}, Call.last)
  BY <1>4 DEF Listing
<1> QED  BY <1>2, <1>4, <1>5

LEMMA ListFileKeeps ==
  ASSUME Busy, ListFile
  PROVE  Always'
<1> DEFINE rest == Tail(calls)
<1>1. /\ ModelTrue(model) /\ OthersOK' /\ HasTrue' /\ HeldTrue'
      /\ rest \in Seq(Calls) /\ CallsTrue(model, rest) /\ NoneListing(rest)
  BY BusyIs
<1>2. \A j \in DOMAIN rest : rest[j].do = "again"
  BY ListingIs DEF ListFile
<1>3. NoneEmpty(model)
  BY ListingIs DEF ListFile
<1> HIDE DEF rest
<1>4. PICK f \in Call.files :
          /\ model' = AddFile(model, f, Call.dir) /\ f \in Files
          /\ calls' = <<Listing(Call.dir, Call.files \ {f}, Call.last)>> \o rest
          /\ Call.dir \in Dirs /\ Call.files \subseteq Files /\ Call.last \in BOOLEAN
  BY ListFileIs DEF rest
<1>5. ModelTrue(model') /\ NoneEmpty(model') /\ model'.dirs = model.dirs
  BY <1>1, <1>3, <1>4, AddFileIs
<1> DEFINE x == Listing(Call.dir, Call.files \ {f}, Call.last)
<1>6. x \in Calls /\ x.do = "list"
  BY <1>4 DEF Listing, Calls
<1> HIDE DEF x
<1>7. CallTrue(model', x, rest)
  BY <1>2, <1>6 DEF CallTrue
<1>8. CallsTrue(model', rest)
  BY <1>1, <1>5, CallsStayTrue
<1>9. calls' \in Seq(Calls) /\ CallsTrue(model', calls')
  <2>1. <<x>> \o rest \in Seq(Calls) /\ CallsTrue(model', <<x>> \o rest)
    BY <1>1, <1>6, <1>7, <1>8, Pushed, CallsTruePushed
  <2> QED  BY <1>4, <2>1 DEF x
<1> QED  BY <1>1, <1>5, <1>9, NoneEmptyIs, AlwaysNext

LEMMA ListDoneKeeps ==
  ASSUME Busy, ListDone
  PROVE  Always'
<1> DEFINE rest == Tail(calls)
<1>1. /\ ModelTrue(model) /\ OthersOK' /\ HasTrue' /\ HeldTrue'
      /\ rest \in Seq(Calls) /\ CallsTrue(model, rest) /\ NoneListing(rest)
  BY BusyIs
<1>2. \A j \in DOMAIN rest : rest[j].do = "again"
  BY ListingIs DEF ListDone
<1>3. NoneEmpty(model)
  BY ListingIs DEF ListDone
<1> DEFINE s == ListsToSort(model)
<1> HIDE DEF rest, s
<1>4. /\ calls' = <<Sorting(s)>> \o rest \/ calls' = rest
      /\ model' = model
  BY DEF ListDone, rest, s
<1>5. Sorting(s) \in Calls /\ Sorting(s).do = "sort" /\ Sorting(s).rows = s
      /\ \A row \in s : row \in DOMAIN model.lists /\ Len(model.lists[row]) > 1
  BY <1>1, ListsToSortIs, ListCallsMade DEF s
<1>6. CallTrue(model, Sorting(s), rest)
  BY <1>2, <1>5 DEF CallTrue
<1>7. <<Sorting(s)>> \o rest \in Seq(Calls) /\ CallsTrue(model, <<Sorting(s)>> \o rest)
  BY <1>1, <1>5, <1>6, Pushed, CallsTruePushed
<1>8. calls' \in Seq(Calls) /\ CallsTrue(model, calls')
  BY <1>1, <1>4, <1>7
<1> QED  BY <1>1, <1>3, <1>4, <1>8, NoneEmptyIs, AlwaysNext

LEMMA ListNextKeeps ==
  ASSUME Busy, ListNext
  PROVE  Always'
<1> DEFINE rest == Tail(calls)
<1>1. /\ ModelTrue(model) /\ OthersOK' /\ HasTrue' /\ HeldTrue' /\ Call \in Calls
      /\ rest \in Seq(Calls) /\ CallsTrue(model, rest) /\ NoneListing(rest)
      /\ has \in [Dirs -> SUBSET Files]
  BY BusyIs, AlwaysIs DEF Busy, OthersOK
<1>2. \A j \in DOMAIN rest : rest[j].do = "again"
  BY ListingIs DEF ListNext
<1>3. NoneEmpty(model)
  BY ListingIs DEF ListNext
<1> HIDE DEF rest
<1>4. model' = model
  BY DEF ListNext
<1>5. CASE Call.dirs = {}
  <2>1. calls' = rest
    BY <1>5 DEF ListNext, Return, rest
  <2> QED  BY <1>1, <1>3, <1>4, <2>1, NoneEmptyIs, AlwaysNext
<1>6. CASE Call.dirs # {}
  <2>1. PICK d \in Call.dirs : Load(d, <<ListingAgain(Call.dirs \ {d})>> \o rest)
    BY <1>6 DEF ListNext, rest
  <2> DEFINE x == Listing(d, has[d], TRUE)
             y == ListingAgain(Call.dirs \ {d})
  <2>2. Call.dirs \subseteq Dirs
    BY <1>1, CallIs DEF ListNext
  <2>3. x \in Calls /\ y \in Calls /\ x.do = "list" /\ y.do = "again"
    <3>1. d \in Dirs /\ has[d] \in SUBSET Files
      BY <1>1, <2>2
    <3>2. x \in Calls /\ x.do = "list"
      BY <3>1 DEF Listing, Calls
    <3> DEFINE s == Call.dirs \ {d}
    <3>3. s \in SUBSET Dirs
      BY <2>2
    <3> HIDE DEF s
    <3>4. ListingAgain(s) \in Calls /\ ListingAgain(s).do = "again"
      BY <3>3, ListCallsMade
    <3> QED  BY <3>2, <3>4 DEF s
  <2> HIDE DEF x, y
  <2>4. calls' = <<y>> \o rest \/ calls' = <<x>> \o (<<y>> \o rest)
    BY <2>1 DEF Load, x, y
  <2> DEFINE c == <<y>> \o rest
  <2>5. c \in Seq(Calls) /\ CallsTrue(model, c)
    <3>1. CallTrue(model, y, rest)
      BY <1>2, <2>3 DEF CallTrue
    <3> QED  BY <1>1, <2>3, <3>1, Pushed, CallsTruePushed
  <2>6. NoneListing(c)
    BY <1>1, <2>3, NoneListingPushed
  <2>7. \A j \in DOMAIN c : c[j].do = "again"
    <3>1. /\ DOMAIN c = 1 .. Len(rest) + 1 /\ Len(rest) \in Nat /\ c[1] = y
          /\ \A i \in 2 .. Len(rest) + 1 : c[i] = rest[i - 1] /\ i - 1 \in DOMAIN rest
      BY <1>1, <2>3, Pushed
    <3> HIDE DEF c
    <3>2. \A i \in DOMAIN c : i = 1 \/ i \in 2 .. Len(rest) + 1
      BY <3>1
    <3> QED  BY <1>2, <2>3, <3>1, <3>2
  <2> HIDE DEF c
  <2>8. CallTrue(model, x, c)
    BY <2>3, <2>7 DEF CallTrue
  <2>9. <<x>> \o c \in Seq(Calls) /\ CallsTrue(model, <<x>> \o c)
    BY <2>3, <2>5, <2>6, <2>8, Pushed, CallsTruePushed
  <2>10. calls' \in Seq(Calls) /\ CallsTrue(model, calls')
    BY <2>4, <2>5, <2>9 DEF c
  <2> QED  BY <1>1, <1>3, <1>4, <2>10, NoneEmptyIs, AlwaysNext
<1> QED  BY <1>5, <1>6

LEMMA SortNextIs ==
  ASSUME Busy, SortNext
  PROVE  \/ Call.rows = {} /\ calls' = Tail(calls) /\ model' = model
         \/ \E row \in Call.rows :
               /\ row \in DOMAIN model.lists /\ ModelTrue(model') /\ Rearranged(model, model', row)
               /\ InOrder(model, model'.lists[row])
               /\ Call.rows \subseteq Seq(Folders)
               /\ \A r \in Call.rows : r \in DOMAIN model.lists /\ Len(model.lists[r]) > 1
               /\ calls' = <<Sorting(Call.rows \ {row})>> \o Tail(calls)
<1>1. /\ ModelTrue(model) /\ Call \in Calls /\ CallTrue(model, Call, Tail(calls))
  BY BusyIs
<1>2. CASE Call.rows = {}
  BY <1>2 DEF SortNext, Return
<1>3. CASE Call.rows # {}
  <2>1. PICK row \in Call.rows :
               /\ model' = SortFileEntries(model, row)
               /\ calls' = <<Sorting(Call.rows \ {row})>> \o Tail(calls)
    BY <1>3 DEF SortNext
  <2>2. Call.do = "sort"
    BY DEF SortNext
  <2>3. \A r \in Call.rows : r \in DOMAIN model.lists /\ Len(model.lists[r]) > 1
    BY <1>1, <2>2 DEF CallTrue
  <2>4. Call.rows \subseteq Seq(Folders)
    BY <1>1, <2>2, CallIs
  <2>5. LET n == SortFileEntries(model, row)
        IN  ModelTrue(n) /\ Rearranged(model, n, row) /\ InOrder(model, n.lists[row])
    BY <1>1, <2>3, ListIsSorted
  <2> QED  BY <2>1, <2>3, <2>4, <2>5
<1> QED  BY <1>2, <1>3

LEMMA SortNextKeeps ==
  ASSUME Busy, SortNext
  PROVE  Always'
<1> DEFINE rest == Tail(calls)
<1>1. /\ ModelTrue(model) /\ OthersOK' /\ HasTrue' /\ HeldTrue'
      /\ rest \in Seq(Calls) /\ CallsTrue(model, rest) /\ NoneListing(rest)
  BY BusyIs
<1>2. \A j \in DOMAIN rest : rest[j].do = "again"
  BY ListingIs DEF SortNext
<1>3. NoneEmpty(model)
  BY ListingIs DEF SortNext
<1> HIDE DEF rest
<1>4. CASE Call.rows = {} /\ calls' = Tail(calls) /\ model' = model
  <2>1. calls' = rest
    BY <1>4 DEF rest
  <2> QED  BY <1>1, <1>3, <1>4, <2>1, NoneEmptyIs, AlwaysNext
<1>5. ASSUME NEW row \in Call.rows,
             row \in DOMAIN model.lists, ModelTrue(model'), Rearranged(model, model', row),
             Call.rows \subseteq Seq(Folders),
             \A r \in Call.rows : r \in DOMAIN model.lists /\ Len(model.lists[r]) > 1,
             calls' = <<Sorting(Call.rows \ {row})>> \o Tail(calls)
      PROVE  Always'
  <2> DEFINE s == Call.rows \ {row}
  <2>1. /\ NoneEmpty(model')
        /\ \A r \in DOMAIN model.lists : r \in DOMAIN model'.lists /\ Len(model'.lists[r]) = Len(model.lists[r])
    BY <1>1, <1>3, <1>5, RearrangedNoneEmpty
  <2>2. s \in SUBSET Seq(Folders) /\ \A r \in s : r \in DOMAIN model'.lists /\ Len(model'.lists[r]) > 1
    BY <1>5, <2>1
  <2> HIDE DEF s
  <2>3. Sorting(s) \in Calls /\ Sorting(s).do = "sort" /\ Sorting(s).rows = s
    BY <2>2, ListCallsMade
  <2>4. CallTrue(model', Sorting(s), rest)
    BY <1>2, <2>2, <2>3 DEF CallTrue
  <2>5. CallsTrue(model', rest)
    <3>1. model'.dirs = model.dirs
      BY <1>5 DEF Rearranged, SameBut
    <3> QED  BY <1>1, <3>1, CallsStayTrue
  <2>6. <<Sorting(s)>> \o rest \in Seq(Calls) /\ CallsTrue(model', <<Sorting(s)>> \o rest)
    BY <1>1, <2>3, <2>4, <2>5, Pushed, CallsTruePushed
  <2>7. calls' = <<Sorting(s)>> \o rest
    BY <1>5 DEF s, rest
  <2> QED  BY <1>1, <1>5, <2>1, <2>6, <2>7, NoneEmptyIs, AlwaysNext
<1> QED  BY <1>4, <1>5, SortNextIs

LEMMA WorkingKeeps == Always /\ Working => Always'
<1> SUFFICES ASSUME Always, Working PROVE Always'
  OBVIOUS
<1>1. Busy
  BY DEF Working, Busy, Others
<1> QED  BY <1>1, RemoveChildKeeps, RemoveItselfKeeps, ClearDirectoryKeeps, UnloadChildKeeps,
            ListFileKeeps, ListDoneKeeps, ListNextKeeps, SortNextKeeps DEF Working

LEMMA StutteringAlways == Always /\ UNCHANGED vars => Always'
<1> SUFFICES ASSUME Always, UNCHANGED vars PROVE Always'
  OBVIOUS
<1>1. /\ ModelTrue(model) /\ calls \in Seq(Calls) /\ OthersOK
      /\ CallsTrue(model, calls) /\ EmptyIsLeaving(model, calls)
      /\ HasTrue /\ HeldTrue
  BY AlwaysIs
<1>2. model' = model /\ calls' = calls
  BY DEF vars
<1>3. OthersOK' /\ HasTrue' /\ HeldTrue'
  BY <1>1 DEF vars, reading, OthersOK, HasTrue, HeldTrue
<1> QED  BY <1>1, <1>2, <1>3, AlwaysNext

LEMMA AlwaysAlways == Spec => []Always
<1>1. Always /\ [Next]_vars => Always'
  BY HappensKeeps, WorkingKeeps, StutteringAlways DEF Next
<1> QED  BY <1>1, InitAlways, PTL DEF Spec

\* The model's maps, the widget and the calls at work have their types, at every
\* signal in the midst of a handler of fm-list-model.c as well.
THEOREM ViewTypes == Spec => []TypeOK
<1>1. Always => TypeOK
  BY DEF Always
<1> QED  BY <1>1, AlwaysAlways, PTL

\* The widget knows every list as it is, after each signal.
THEOREM ShownAsItIs == Spec => []ShownIsModel
<1>1. Always => ShownIsModel
  BY AlwaysIs DEF ModelTrue, ShownIsModel
<1> QED  BY <1>1, AlwaysAlways, PTL

-------------------------------------------------------------------------------
(* What the user opened.                                                   *)

StaysOpen(row) ==
  \/ row \in model'.open
  \/ row \notin DOMAIN model'.lists
  \/ \E above \in model.open : IsPrefix(above, row) /\ Collapse(above)
  \/ \E i \in DOMAIN calls : calls[i] = Removing(row)

LEMMA HappensKeepsOpen ==
  ASSUME Always, Happens, NEW row \in model.open
  PROVE  StaysOpen(row)
<1>1. ModelTrue(model)
  BY AlwaysIs
<1>2. ASSUME model.open \subseteq model'.open PROVE StaysOpen(row)
  BY <1>2 DEF StaysOpen
<1>3. ASSUME NEW d \in Dirs, (\E some : Batch(d, some)) \/ DoneLoading(d) \/ ReadingFails(d)
      PROVE  StaysOpen(row)
  BY <1>2, <1>3 DEF Batch, DoneLoading, ReadingFails, ReadingEnds
<1>4. ASSUME NEW f \in Files, FileAdded(f) PROVE StaysOpen(row)
  <2> DEFINE n == AddFile(model, f, Home[f])
  <2>1. n.open = model.open
    <3>1. \/ n = model
          \/ Added(model, n, ParentOf(model, Home[f]), f)
      <4>1. IF f \in model.rev[ParentOf(model, Home[f])] THEN n = model
            ELSE Added(model, n, ParentOf(model, Home[f]), f)
        BY <1>1, AddFileIs
      <4> QED  BY <4>1
    <3> HIDE DEF n
    <3> QED  BY <3>1 DEF Added
  <2>2. model' = n \/ model' = model
    BY <1>4 DEF FileAdded
  <2> HIDE DEF n
  <2> QED  BY <1>2, <2>1, <2>2
<1>5. ASSUME NEW f \in Files, FileDeleted(f) PROVE StaysOpen(row)
  BY <1>2, <1>5 DEF FileDeleted
<1>6. ASSUME NEW f \in Files, FileGrows(f) PROVE StaysOpen(row)
  <2>1. PICK s \in Sizes :
        model' = LET m == [model EXCEPT !.size[f] = s]
                 IN  IF Home[f] \in connected THEN FileChanged(m, f, Home[f]) ELSE m
    BY <1>6 DEF FileGrows
  <2> DEFINE m == [model EXCEPT !.size[f] = s]
  <2>2. ModelTrue(m) /\ m.open = model.open
    BY <1>1, FileResized
  <2> HIDE DEF m
  <2>3. model' = IF Home[f] \in connected THEN FileChanged(m, f, Home[f]) ELSE m
    BY <2>1 DEF m
  <2>4. LET n == FileChanged(m, f, Home[f])
        IN  Rearranged(m, n, ParentOf(m, Home[f]))
    BY <2>2, FileIsMoved
  <2> QED  BY <1>2, <2>2, <2>3, <2>4 DEF Rearranged, SameBut
<1>7. ASSUME NEW r \in DOMAIN model.lists, Expand(r) PROVE StaysOpen(row)
  BY <1>1, <1>2, <1>7, ExpandIs
<1>8. ASSUME NEW r \in DOMAIN model.lists, Collapse(r) PROVE StaysOpen(row)
  <2>1. model'.open = model.open \ Below(r, model.open) /\ r \in model.open
    BY <1>1, <1>8, CollapseIs
  <2> QED  BY <1>8, <2>1 DEF StaysOpen, Below
<1>9. ASSUME NEW d \in Folders, UnloadTimer(d) PROVE StaysOpen(row)
  BY <1>1, <1>2, <1>9, UnloadTimerIs
<1>10. ASSUME NEW o \in Orders, Sort(o[1], o[2]) PROVE StaysOpen(row)
  BY <1>1, <1>2, <1>10, SortIs
<1>11. CASE HideHidden
  BY <1>2, <1>11 DEF HideHidden
<1>12. CASE Reload
  BY <1>2, <1>12 DEF Reload
<1> QED  BY <1>3, <1>4, <1>5, <1>6, <1>7, <1>8, <1>9, <1>10, <1>11, <1>12 DEF Happens

LEMMA WorkingKeepsOpen ==
  ASSUME Always, Working, NEW row \in model.open
  PROVE  StaysOpen(row)
<1>1. Busy
  BY DEF Working, Busy, Others
<1>2. /\ ModelTrue(model) /\ Call \in Calls
      /\ \A call : Calling(calls, call) <=> Call = call \/ Calling(Tail(calls), call)
  BY <1>1, BusyIs
<1>3. ASSUME model.open \subseteq model'.open PROVE StaysOpen(row)
  BY <1>3 DEF StaysOpen
<1>4. ASSUME Calling(calls, Removing(row)) PROVE StaysOpen(row)
  BY <1>4 DEF StaysOpen, Calling
<1>5. CASE RemoveChild
  <2> DEFINE r == Call.row
  <2>1. /\ Call.do = "remove" /\ r \in DOMAIN model.lists /\ model.lists[r] # <<>>
        /\ Call = Removing(r)
    BY <1>2, <1>5, CallIs DEF RemoveChild, HasChild
  <2>2. \/ Head(model.lists[r]) = Dummy /\ model' = RemoveDummy(model, r)
        \/ model' = model
    BY <1>5 DEF RemoveChild
  <2> HIDE DEF r
  <2>3. CASE Head(model.lists[r]) = Dummy /\ model' = RemoveDummy(model, r)
    <3>1. model'.open = model.open \ {r}
      BY <1>2, <2>1, <2>3, DummyIsRemoved DEF Emptied
    <3> QED  BY <1>2, <1>4, <2>1, <3>1 DEF StaysOpen
  <2> QED  BY <1>3, <2>2, <2>3
<1>6. CASE RemoveItself
  <2> DEFINE r == Call.row
             parent == Front(r)
  <2>1. /\ Removed(model, model', parent, Last(r)) /\ Append(parent, Last(r)) = r
        /\ model'.lists[parent] = <<>> => parent = Top \/ Calling(Tail(calls), Removing(parent))
    BY <1>1, <1>6, RemoveItselfIs
  <2> HIDE DEF r, parent
  <2>2. /\ DOMAIN model'.lists = DOMAIN model.lists \ {r}
        /\ model'.open = model.open \ ({r} \cup (IF model'.lists[parent] = <<>> THEN {parent} ELSE {}))
    BY <2>1 DEF Removed
  <2>3. row # Top
    BY <1>2 DEF ModelTrue
  <2> QED  BY <1>2, <1>4, <2>1, <2>2, <2>3 DEF StaysOpen
<1>7. CASE ClearDirectory
  BY <1>3, <1>7 DEF ClearDirectory
<1>8. CASE UnloadChild
  <2>1. model' = model \/ model' = Unloaded(model, Call.row)
    BY <1>8 DEF UnloadChild
  <2>2. Unloaded(model, Call.row).open = model.open
    BY <1>2 DEF Unloaded, ModelTrue, Fields
  <2> QED  BY <1>3, <2>1, <2>2
<1>9. CASE ListFile
  <2>1. PICK f \in Files : model' = AddFile(model, f, Call.dir)
    BY <1>1, <1>9, ListFileIs
  <2> DEFINE p == ParentOf(model, Call.dir)
  <2>2. IF f \in model.rev[p] THEN model' = model ELSE Added(model, model', p, f)
    BY <1>2, <2>1, AddFileIs
  <2> HIDE DEF p
  <2> QED  BY <1>3, <2>2 DEF Added
<1>10. CASE ListDone
  BY <1>3, <1>10 DEF ListDone
<1>11. CASE ListNext
  BY <1>3, <1>11 DEF ListNext
<1>12. CASE SortNext
  BY <1>1, <1>3, <1>12, SortNextIs DEF Rearranged, SameBut
<1> QED  BY <1>5, <1>6, <1>7, <1>8, <1>9, <1>10, <1>11, <1>12 DEF Working

\* A row that was opened stays open until it, or one above, is closed or
\* removed.
THEOREM OpenedStaysOpen == Spec => KeptOpen
<1>1. Always /\ [Next]_vars => [\A row \in model.open : StaysOpen(row)]_vars
  BY HappensKeepsOpen, WorkingKeepsOpen DEF Next
<1>2. Spec => [][\A row \in model.open : StaysOpen(row)]_vars
  BY <1>1, AlwaysAlways, PTL DEF Spec
<1> QED  BY <1>2 DEF KeptOpen, StaysOpen

-------------------------------------------------------------------------------
(* The order of the rows on the screen.                                    *)

LEMMA PrefixUpTo ==
  ASSUME NEW S, NEW s \in Seq(S), NEW t \in Seq(S)
  PROVE  /\ IsPrefix(s, t) <=> Len(s) <= Len(t) /\ SubSeq(t, 1, Len(s)) = s
         /\ Len(s) \in Nat /\ Len(t) \in Nat
<1>1. Len(s) \in Nat /\ Len(t) \in Nat
  BY LenProperties
<1>2. IsPrefix(s, t) <=> Len(s) <= Len(t) /\ \A i \in 1 .. Len(s) : s[i] = t[i]
  BY PrefixIs
<1>3. ASSUME Len(s) <= Len(t)
      PROVE  SubSeq(t, 1, Len(s)) = s <=> \A i \in 1 .. Len(s) : s[i] = t[i]
  <2> DEFINE u == SubSeq(t, 1, Len(s))
  <2>1. Len(s) \in 0 .. Len(t)
    BY <1>1, <1>3
  <2>2. u \in Seq(S) /\ Len(u) = Len(s) /\ \A i \in 1 .. Len(s) : u[i] = t[i]
    BY <2>1, UpTo
  <2> HIDE DEF u
  <2>3. (\A i \in 1 .. Len(s) : s[i] = t[i]) => u = s
    BY <2>2, SeqEqual
  <2>4. u = s <=> \A i \in 1 .. Len(s) : s[i] = t[i]
    BY <2>2, <2>3
  <2> QED  BY <2>4 DEF u
<1> QED  BY <1>1, <1>2, <1>3

Pos(lists, a, i) == Where(lists[SubSeq(a, 1, i - 1)], a[i])

Earlier(lists, a, b) ==
  \/ a # b /\ Len(a) <= Len(b) /\ SubSeq(b, 1, Len(a)) = a
  \/ \E i \in 1 .. Len(a) : /\ i <= Len(b) /\ SubSeq(a, 1, i - 1) = SubSeq(b, 1, i - 1)
                            /\ Pos(lists, a, i) < Pos(lists, b, i)

LEMMA PathUpTo ==
  ASSUME NEW lists, Tree(lists), NEW a \in Seq(Entries), OnTree(lists, a), NEW k \in 0 .. Len(a)
  PROVE  /\ OnTree(lists, SubSeq(a, 1, k)) /\ SubSeq(a, 1, k) \in Seq(Entries)
         /\ GetPath(lists, SubSeq(a, 1, k)) = SubSeq(GetPath(lists, a), 1, k)
         /\ GetIter(lists, SubSeq(GetPath(lists, a), 1, k)) = SubSeq(a, 1, k)
<1> DEFINE b == SubSeq(a, 1, k)
           p == GetPath(lists, a)
           q == GetPath(lists, b)
           r == SubSeq(p, 1, k)
<1>1. \A s \in DOMAIN lists : lists[s] \in Seq(Entries)
  BY DEF Tree
<1>2. /\ b \in Seq(Entries) /\ Len(b) = k /\ Len(a) \in Nat /\ k \in Nat
      /\ \A i \in 1 .. k : b[i] = a[i]
      /\ \A i \in 0 .. k : SubSeq(b, 1, i) = SubSeq(a, 1, i)
  BY UpTo, LenProperties
<1> HIDE DEF b
<1>3. OnTree(lists, b)
  <2>1. ASSUME NEW n \in 1 .. Len(b)
        PROVE  SubSeq(b, 1, n - 1) \in DOMAIN lists /\ b[n] \in ToSet(lists[SubSeq(b, 1, n - 1)])
    <3>1. n \in 1 .. Len(a) /\ n \in 1 .. k /\ n - 1 \in 0 .. k
      BY <1>2
    <3>2. SubSeq(b, 1, n - 1) = SubSeq(a, 1, n - 1) /\ b[n] = a[n]
      BY <1>2, <3>1
    <3>3. SubSeq(a, 1, n - 1) \in DOMAIN lists /\ a[n] \in ToSet(lists[SubSeq(a, 1, n - 1)])
      BY <3>1 DEF OnTree
    <3> QED  BY <3>2, <3>3
  <2> QED  BY <2>1 DEF OnTree
<1>4. /\ p \in Seq(Nat) /\ Len(p) = Len(a)
      /\ \A i \in 1 .. Len(a) : p[i] = Where(lists[SubSeq(a, 1, i - 1)], a[i])
  BY <1>1, PathIs
<1>5. /\ q \in Seq(Nat) /\ Len(q) = k
      /\ \A i \in 1 .. k : q[i] = Where(lists[SubSeq(b, 1, i - 1)], b[i])
  BY <1>1, <1>2, <1>3, PathIs
<1> HIDE DEF p, q
<1>6. r \in Seq(Nat) /\ Len(r) = k /\ \A i \in 1 .. k : r[i] = p[i]
  BY <1>4, UpTo
<1> HIDE DEF r
<1>7. \A i \in 1 .. k : q[i] = r[i]
  <2> TAKE i \in 1 .. k
  <2>1. i \in 1 .. Len(a) /\ i - 1 \in 0 .. k
    BY <1>2
  <2>2. SubSeq(b, 1, i - 1) = SubSeq(a, 1, i - 1) /\ b[i] = a[i]
    BY <1>2, <2>1
  <2> QED  BY <1>4, <1>5, <1>6, <2>1, <2>2
<1>8. q = r
  BY <1>5, <1>6, <1>7, SeqEqual
<1>9. GetIter(lists, q) = b
  BY <1>1, <1>2, <1>3, IterOfPath DEF q
<1>10. GetIter(lists, r) = b
  BY <1>8, <1>9
<1> QED  BY <1>2, <1>3, <1>8, <1>10 DEF b, p, q, r

LEMMA SamePath ==
  ASSUME NEW lists, Tree(lists), NEW a \in Seq(Entries), OnTree(lists, a),
         NEW b \in Seq(Entries), OnTree(lists, b), NEW k \in 0 .. Len(a), k <= Len(b)
  PROVE  SubSeq(GetPath(lists, a), 1, k) = SubSeq(GetPath(lists, b), 1, k)
           <=> SubSeq(a, 1, k) = SubSeq(b, 1, k)
<1>1. Len(a) \in Nat /\ Len(b) \in Nat
  BY LenProperties
<1>2. k \in 0 .. Len(b)
  BY <1>1
<1> DEFINE p == SubSeq(GetPath(lists, a), 1, k)
           q == SubSeq(GetPath(lists, b), 1, k)
           c == SubSeq(a, 1, k)
           d == SubSeq(b, 1, k)
<1>3. GetPath(lists, c) = p /\ GetIter(lists, p) = c
  BY PathUpTo
<1>4. GetPath(lists, d) = q /\ GetIter(lists, q) = d
  BY <1>2, PathUpTo
<1> HIDE DEF p, q, c, d
<1>5. p = q <=> c = d
  BY <1>3, <1>4
<1> QED  BY <1>5 DEF p, q, c, d

LEMMA OrderOfPaths ==
  ASSUME NEW lists, Tree(lists), NEW a \in Seq(Entries), OnTree(lists, a),
         NEW b \in Seq(Entries), OnTree(lists, b)
  PROVE  ComesBefore(GetPath(lists, a), GetPath(lists, b)) <=> Earlier(lists, a, b)
<1> DEFINE p == GetPath(lists, a)
           q == GetPath(lists, b)
<1>1. Len(a) \in Nat /\ Len(b) \in Nat /\ SubSeq(a, 1, Len(a)) = a /\ SubSeq(b, 1, Len(b)) = b
  BY LenProperties, SubSeqFull
<1>2. \A s \in DOMAIN lists : lists[s] \in Seq(Entries)
  BY DEF Tree
<1>3. /\ p \in Seq(Nat) /\ Len(p) = Len(a)
      /\ \A i \in 1 .. Len(a) : p[i] = Pos(lists, a, i)
  BY <1>2, PathIs DEF Pos
<1>4. /\ q \in Seq(Nat) /\ Len(q) = Len(b)
      /\ \A i \in 1 .. Len(b) : q[i] = Pos(lists, b, i)
  BY <1>2, PathIs DEF Pos
<1>5. \A k \in 0 .. Len(a) : k <= Len(b) =>
          (SubSeq(p, 1, k) = SubSeq(q, 1, k) <=> SubSeq(a, 1, k) = SubSeq(b, 1, k))
  BY SamePath
<1>6. GetIter(lists, p) = a /\ GetIter(lists, q) = b
  BY <1>2, IterOfPath
<1>7. p = q <=> a = b
  BY <1>6
<1> HIDE DEF p, q
<1>8. SubSeq(p, 1, Len(a)) = p
  BY <1>3, SubSeqFull
<1>9. IsStrictPrefix(p, q) <=> a # b /\ Len(a) <= Len(b) /\ SubSeq(b, 1, Len(a)) = a
  <2>1. IsPrefix(p, q) <=> Len(a) <= Len(b) /\ SubSeq(q, 1, Len(a)) = p
    BY <1>3, <1>4, PrefixUpTo
  <2>2. Len(a) <= Len(b) => (SubSeq(q, 1, Len(a)) = p <=> SubSeq(b, 1, Len(a)) = a)
    <3>1. Len(a) \in 0 .. Len(a)
      BY <1>1
    <3>2. Len(a) <= Len(b) => (SubSeq(p, 1, Len(a)) = SubSeq(q, 1, Len(a)) <=> SubSeq(a, 1, Len(a)) = SubSeq(b, 1, Len(a)))
      BY <1>5, <3>1
    <3> QED  BY <1>1, <1>8, <3>2
  <2> QED  BY <1>7, <2>1, <2>2 DEF IsStrictPrefix
<1>10. DOMAIN p = 1 .. Len(a) /\ DOMAIN q = 1 .. Len(b)
  BY <1>3, <1>4, LenProperties
<1>11. ASSUME NEW i \in 1 .. Len(a)
       PROVE  (i \in DOMAIN q /\ p[i] < q[i] /\ SubSeq(p, 1, i-1) = SubSeq(q, 1, i-1))
                <=> (i <= Len(b) /\ SubSeq(a, 1, i - 1) = SubSeq(b, 1, i - 1) /\ Pos(lists, a, i) < Pos(lists, b, i))
  <2>1. i \in DOMAIN q <=> i <= Len(b)
    BY <1>1, <1>10
  <2>2. i <= Len(b) => i - 1 \in 0 .. Len(a) /\ i - 1 <= Len(b) /\ i \in 1 .. Len(b)
    BY <1>1
  <2> QED  BY <1>3, <1>4, <1>5, <2>1, <2>2
<1>12. ComesBefore(p, q) <=> Earlier(lists, a, b)
  BY <1>9, <1>10, <1>11 DEF ComesBefore, Earlier
<1> QED  BY <1>12 DEF p, q

\* The rows that can be open at a time.
Openable(lists, open) ==
  /\ open \subseteq DOMAIN lists \ {Top}
  /\ \A row \in open : Front(row) = Top \/ Front(row) \in open

Shown(lists, open) ==
  UNION {{Append(row, g) : g \in ToSet(lists[row])} : row \in {Top} \cup open}

LEMMA ShownIs ==
  ASSUME NEW lists, Tree(lists), NEW open, Openable(lists, open), NEW row \in Shown(lists, open)
  PROVE  /\ row \in Seq(Entries) /\ OnTree(lists, row) /\ Len(row) \in Nat \ {0}
         /\ Front(row) \in {Top} \cup open /\ Front(row) = SubSeq(row, 1, Len(row) - 1)
         /\ SubSeq(row, 1, Len(row)) = row
<1>0. PICK parent \in {Top} \cup open : row \in {Append(parent, g) : g \in ToSet(lists[parent])}
  BY DEF Shown
<1>1. PICK g \in ToSet(lists[parent]) : row = Append(parent, g)
  BY <1>0
<1>2. parent \in DOMAIN lists /\ parent \in Seq(Entries)
  BY <1>1, RowOfTree DEF Openable, Tree
<1>3. row \in Seq(Entries) /\ OnTree(lists, row) /\ g \in Entries
  BY <1>1, <1>2, ChildIsOnTree
<1>4. Front(row) = parent /\ row # <<>>
  BY <1>1, <1>2, <1>3, AppendFront
<1>5. Len(row) \in Nat \ {0} /\ SubSeq(row, 1, Len(row)) = row
  BY <1>3, <1>4, FrontLast, SubSeqFull
<1> QED  BY <1>1, <1>3, <1>4, <1>5 DEF Front

\* Every row above one that is shown is open.
LEMMA AboveIsOpen ==
  ASSUME NEW lists, Tree(lists), NEW open, Openable(lists, open), NEW row \in Shown(lists, open),
         NEW k \in 0 .. Len(row) - 1
  PROVE  SubSeq(row, 1, k) \in {Top} \cup open
<1>0. /\ row \in Seq(Entries) /\ Len(row) \in Nat \ {0}
      /\ Front(row) \in {Top} \cup open /\ Front(row) = SubSeq(row, 1, Len(row) - 1)
  BY ShownIs
<1>1. /\ row \in Seq(Entries) /\ Len(row) \in Nat \ {0}
      /\ SubSeq(row, 1, Len(row) - 1) \in {Top} \cup open
  BY <1>0
<1> DEFINE wrong == {j \in 0 .. Len(row) - 1 : SubSeq(row, 1, j) \notin {Top} \cup open}
<1>2. SUFFICES ASSUME wrong # {} PROVE FALSE
  OBVIOUS
<1>3. wrong \in SUBSET (0 .. Len(row) - 1) /\ Len(row) - 1 \in Nat
  BY <1>1
<1> HIDE DEF wrong
<1>4. PICK i \in wrong : \A j \in wrong : j <= i
  BY <1>2, <1>3, GreatestExists
<1>5. i \in 0 .. Len(row) - 1 /\ SubSeq(row, 1, i) \notin {Top} \cup open /\ i # Len(row) - 1
  BY <1>1, <1>4 DEF wrong
<1>6. i + 1 \in 0 .. Len(row) - 1 /\ i + 1 \in 0 .. Len(row) /\ ~ (i + 1 <= i) /\ i \in Nat /\ i + 1 > 0
      /\ (i + 1) - 1 = i
  BY <1>1, <1>5
<1> DEFINE r == SubSeq(row, 1, i + 1)
<1>7. r \in {Top} \cup open
  BY <1>4, <1>6 DEF wrong
<1>8. Len(r) = i + 1 /\ Front(r) = SubSeq(row, 1, i)
  BY <1>1, <1>6, UpTo
<1>9. r # Top
  BY <1>6, <1>8 DEF Top
<1>10. Front(r) \in {Top} \cup open
  <2> HIDE DEF r
  <2> QED  BY <1>7, <1>9 DEF Openable
<1> QED  BY <1>5, <1>8, <1>10

ChildAt(lists, parent, i) == Append(parent, lists[parent][i])

\* A child of an open row is shown; where it is.
LEMMA ChildIsShown ==
  ASSUME NEW lists, Tree(lists), NEW open, Openable(lists, open),
         NEW parent \in {Top} \cup open, NEW i \in 1 .. Len(lists[parent]), NEW row,
         row = ChildAt(lists, parent, i)
  PROVE  /\ row \in Shown(lists, open) /\ row \in Seq(Entries) /\ row # NoRow
         /\ Len(row) = Len(parent) + 1 /\ Len(parent) \in Nat
         /\ SubSeq(row, 1, Len(parent)) = parent
         /\ \A k \in 0 .. Len(parent) : SubSeq(row, 1, k) = SubSeq(parent, 1, k)
         /\ \A k \in 1 .. Len(parent) : row[k] = parent[k] /\ Pos(lists, row, k) = Pos(lists, parent, k)
         /\ row[Len(parent) + 1] = lists[parent][i] /\ Pos(lists, row, Len(parent) + 1) = i
<1> DEFINE f == lists[parent][i]
<1>1. /\ parent \in DOMAIN lists /\ parent \in Seq(Folders) /\ parent \in Seq(Entries)
      /\ lists[parent] \in Seq(Entries) /\ IsInjective(lists[parent]) /\ Len(parent) \in Nat
      /\ OnTree(lists, parent)
  BY RowOfTree DEF Openable, Tree
<1>2. f \in ToSet(lists[parent]) /\ f \in Entries
  <2>1. i \in DOMAIN lists[parent]
    BY <1>1, LenProperties
  <2>2. f \in ToSet(lists[parent])
    BY <2>1 DEF ToSet
  <2> QED  BY <1>1, <2>2, ChildIsOnTree
<1>3. row \in Shown(lists, open)
  BY <1>2 DEF Shown, ChildAt
<1>4. Where(lists[parent], f) = i
  BY <1>1, WhereOnly
<1> HIDE DEF f
<1>5. /\ row \in Seq(Entries) /\ Len(row) = Len(parent) + 1
      /\ \A k \in 1 .. Len(parent) : row[k] = parent[k]
      /\ Front(row) = parent /\ Last(row) = f
  <2>1. row = Append(parent, f)
    BY DEF f, ChildAt
  <2> QED  BY <1>1, <1>2, <2>1, AppendFront
<1>6. SubSeq(row, 1, Len(parent)) = parent /\ row[Len(parent) + 1] = f
  BY <1>1, <1>5 DEF Front, Last
<1>7. ASSUME NEW k \in 0 .. Len(parent) PROVE SubSeq(row, 1, k) = SubSeq(parent, 1, k)
  <2>1. Len(parent) \in 0 .. Len(row)
    BY <1>1, <1>5
  <2>2. SubSeq(SubSeq(row, 1, Len(parent)), 1, k) = SubSeq(row, 1, k)
    BY <1>5, <2>1, UpTo
  <2> QED  BY <1>6, <2>2
<1>8. ASSUME NEW k \in 1 .. Len(parent) PROVE Pos(lists, row, k) = Pos(lists, parent, k)
  <2>1. k - 1 \in 0 .. Len(parent)
    BY <1>1
  <2> QED  BY <1>5, <1>7, <2>1 DEF Pos
<1>9. Pos(lists, row, Len(parent) + 1) = i
  <2>1. (Len(parent) + 1) - 1 = Len(parent)
    BY <1>1
  <2> QED  BY <1>4, <1>6, <2>1 DEF Pos
<1>10. row # NoRow
  <2>1. CASE row = NoRow
    <3>1. Len(row) = 2 /\ row[1] = Dummy
      BY <2>1 DEF NoRow
    <3>2. Len(row) = Len(parent) + 1 /\ Len(parent) \in Nat
      BY <1>1, <1>5
    <3>6. Len(parent) + 1 = 2
      BY <3>1, <3>2
    <3>3. 1 \in 1 .. Len(parent)
      BY <3>2, <3>6
    <3>5. parent[1] = Dummy
      BY <1>5, <3>1, <3>3
    <3>4. parent[1] \in Folders
      BY <1>1, <3>3, ElementOfSeq
    <3> QED  BY <3>4, <3>5, DirsAre
  <2> QED  BY <2>1
<1> QED  BY <1>1, <1>3, <1>5, <1>6, <1>7, <1>8, <1>9, <1>10 DEF f

\* Of two rows that part at a place, the earlier one is that whose entry comes
\* first there.
LEMMA EarlierIs ==
  ASSUME NEW lists, NEW a \in Seq(Entries), NEW b \in Seq(Entries), NEW i \in 1 .. Len(a), i <= Len(b),
         SubSeq(a, 1, i - 1) = SubSeq(b, 1, i - 1), Pos(lists, a, i) < Pos(lists, b, i)
  PROVE  Earlier(lists, a, b)
BY DEF Earlier

\* The row in whose list a row is at a level.
AboveAt(row, i, p) == p = SubSeq(row, 1, i - 1)

\* Where a row of the tree is in its list.
LEMMA PosIs ==
  ASSUME NEW lists, Tree(lists), NEW a \in Seq(Entries), OnTree(lists, a), NEW i \in 1 .. Len(a),
         NEW p, AboveAt(a, i, p)
  PROVE  /\ p \in DOMAIN lists /\ lists[p] \in Seq(Entries)
         /\ Pos(lists, a, i) \in 1 .. Len(lists[p]) /\ lists[p][Pos(lists, a, i)] = a[i]
<1>1. p \in DOMAIN lists /\ a[i] \in ToSet(lists[p])
  BY DEF OnTree, AboveAt
<1>2. lists[p] \in Seq(Entries)
  BY <1>1 DEF Tree
<1>3. Where(lists[p], a[i]) \in 1 .. Len(lists[p]) /\ lists[p][Where(lists[p], a[i])] = a[i]
  BY <1>1, <1>2, WhereIs
<1> QED  BY <1>1, <1>2, <1>3 DEF Pos, AboveAt

LEMMA UpToNext ==
  ASSUME NEW S, NEW s \in Seq(S), NEW n \in Nat, n + 1 \in 1 .. Len(s)
  PROVE  SubSeq(s, 1, n + 1) = Append(SubSeq(s, 1, n), s[n + 1])
<1> DEFINE t == SubSeq(s, 1, n + 1)
<1>1. n + 1 \in 0 .. Len(s) /\ n + 1 > 0 /\ (n + 1) - 1 = n /\ n \in 0 .. n + 1
  OBVIOUS
<1>2. /\ t \in Seq(S) /\ Len(t) = n + 1
      /\ Front(t) = SubSeq(s, 1, n) /\ Last(t) = s[n + 1]
  BY <1>1, UpTo
<1> HIDE DEF t
<1>3. t # <<>>
  BY <1>1, <1>2
<1>4. Append(Front(t), Last(t)) = t
  BY <1>2, <1>3, FrontLast
<1> QED  BY <1>2, <1>4 DEF t

LEMMA FirstChildIsNext ==
  ASSUME NEW lists, Tree(lists), NEW open, Openable(lists, open),
         NEW row \in Shown(lists, open), row \in open, lists[row] # <<>>,
         NEW next, next = Append(row, lists[row][1])
  PROVE  /\ next \in Shown(lists, open) /\ next # NoRow /\ Earlier(lists, row, next)
         /\ \A r \in Shown(lists, open) : Earlier(lists, row, r) /\ r # next => Earlier(lists, next, r)
<1>1. /\ row \in Seq(Entries) /\ Len(row) \in Nat \ {0} /\ SubSeq(row, 1, Len(row)) = row
      /\ row \in DOMAIN lists /\ lists[row] \in Seq(Entries)
  BY ShownIs DEF Openable, Tree
<1>2. 1 \in 1 .. Len(lists[row])
  <2>1. Len(lists[row]) \in Nat \ {0}
    BY <1>1, Popped
  <2> QED  BY <2>1
<1>7. row \in {Top} \cup open
  OBVIOUS
<1> DEFINE n == Len(row)
<1> HIDE DEF n
<1>4. n \in Nat \ {0} /\ n = Len(row)
  BY <1>1 DEF n
<1>3. /\ next \in Shown(lists, open) /\ next \in Seq(Entries) /\ next # NoRow /\ Len(next) = n + 1
      /\ SubSeq(next, 1, n) = row
      /\ \A k \in 0 .. n : SubSeq(next, 1, k) = SubSeq(row, 1, k)
      /\ \A k \in 1 .. n : Pos(lists, next, k) = Pos(lists, row, k)
      /\ next[n + 1] = lists[row][1] /\ Pos(lists, next, n + 1) = 1
  <2>1. /\ next \in Shown(lists, open) /\ next \in Seq(Entries) /\ next # NoRow
        /\ Len(next) = Len(row) + 1
        /\ SubSeq(next, 1, Len(row)) = row
        /\ \A k \in 0 .. Len(row) : SubSeq(next, 1, k) = SubSeq(row, 1, k)
        /\ \A k \in 1 .. Len(row) : Pos(lists, next, k) = Pos(lists, row, k)
        /\ next[Len(row) + 1] = lists[row][1] /\ Pos(lists, next, Len(row) + 1) = 1
    <3> DEFINE i == 1
    <3>1. i \in 1 .. Len(lists[row]) /\ next = ChildAt(lists, row, i)
      BY <1>2 DEF ChildAt
    <3>2. i = 1
      OBVIOUS
    <3> HIDE DEF i
    <3>3. /\ next \in Shown(lists, open) /\ next \in Seq(Entries) /\ next # NoRow
          /\ Len(next) = Len(row) + 1
          /\ SubSeq(next, 1, Len(row)) = row
      BY <1>7, <3>1, ChildIsShown
    <3>4. /\ \A k \in 0 .. Len(row) : SubSeq(next, 1, k) = SubSeq(row, 1, k)
          /\ \A k \in 1 .. Len(row) : Pos(lists, next, k) = Pos(lists, row, k)
          /\ next[Len(row) + 1] = lists[row][i] /\ Pos(lists, next, Len(row) + 1) = i
      BY <1>7, <3>1, ChildIsShown
    <3> QED  BY <3>2, <3>3, <3>4
  <2> QED  BY <2>1 DEF n
<1>5. Earlier(lists, row, next)
  <2>0. Len(row) # Len(next) /\ Len(row) <= Len(next) /\ SubSeq(next, 1, Len(row)) = row
    <3>1. Len(next) = n + 1 /\ SubSeq(next, 1, n) = row
      BY <1>3
    <3> QED  BY <1>4, <3>1
  <2> QED  BY <2>0 DEF Earlier
<1>6. ASSUME NEW r \in Shown(lists, open), Earlier(lists, row, r), r # next
      PROVE  Earlier(lists, next, r)
  <2>1. r \in Seq(Entries) /\ OnTree(lists, r) /\ Len(r) \in Nat \ {0}
    BY ShownIs
  <2>2. CASE row # r /\ n <= Len(r) /\ SubSeq(r, 1, n) = row
    <3>1. Len(r) # n
      BY <1>4, <2>1, <2>2, SubSeqFull
    <3>2. n + 1 \in 1 .. Len(r) /\ (n + 1) - 1 = n /\ n + 1 \in 1 .. Len(next) /\ n + 1 <= Len(r)
      BY <1>3, <1>4, <2>1, <2>2, <3>1
    <3>3. Pos(lists, r, n + 1) \in 1 .. Len(lists[row]) /\ lists[row][Pos(lists, r, n + 1)] = r[n + 1]
      <4> DEFINE i == n + 1
      <4>1. i \in 1 .. Len(r) /\ SubSeq(r, 1, i - 1) = row
        BY <2>2, <3>2
      <4> HIDE DEF i
      <4>3. AboveAt(r, i, row)
        BY <4>1 DEF AboveAt
      <4>2. Pos(lists, r, i) \in 1 .. Len(lists[row]) /\ lists[row][Pos(lists, r, i)] = r[i]
        BY <2>1, <4>1, <4>3, PosIs
      <4> QED  BY <4>2 DEF i
    <3>4. CASE Pos(lists, r, n + 1) = 1
      <4>1. r[n + 1] = next[n + 1]
        BY <1>3, <3>3, <3>4
      <4>2. SubSeq(r, 1, n + 1) = next
        <5>1. n + 1 \in 0 .. Len(r) /\ n + 1 > 0 /\ n + 1 \in 0 .. Len(next) /\ (n + 1) - 1 = n
          BY <3>2
        <5>2. SubSeq(r, 1, n + 1) = Append(SubSeq(r, 1, n), r[n + 1])
          BY <1>4, <2>1, <5>1, UpToNext
        <5>3. SubSeq(next, 1, n + 1) = Append(SubSeq(next, 1, n), next[n + 1])
          BY <1>3, <1>4, <5>1, UpToNext
        <5>4. SubSeq(next, 1, n + 1) = next
          BY <1>3, SubSeqFull
        <5> QED  BY <1>3, <2>2, <4>1, <5>2, <5>3, <5>4
      <4> QED  BY <1>3, <1>6, <3>2, <4>2 DEF Earlier
    <3>5. CASE Pos(lists, r, n + 1) # 1
      <4>1. Pos(lists, next, n + 1) < Pos(lists, r, n + 1)
        BY <1>1, <1>3, <3>3, <3>5, LenProperties
      <4>2. SubSeq(next, 1, (n + 1) - 1) = SubSeq(r, 1, (n + 1) - 1)
        BY <1>3, <2>2, <3>2
      <4> QED  BY <1>3, <2>1, <3>2, <4>1, <4>2, EarlierIs
    <3> QED  BY <3>4, <3>5
  <2>3. ASSUME NEW i \in 1 .. n, i <= Len(r), SubSeq(row, 1, i - 1) = SubSeq(r, 1, i - 1),
               Pos(lists, row, i) < Pos(lists, r, i)
        PROVE  Earlier(lists, next, r)
    <3>1. i \in 1 .. Len(next) /\ i - 1 \in 0 .. n
      BY <1>3, <1>4
    <3>2. Pos(lists, next, i) < Pos(lists, r, i) /\ SubSeq(next, 1, i - 1) = SubSeq(r, 1, i - 1)
      BY <1>3, <2>3, <3>1
    <3> QED  BY <1>3, <2>1, <2>3, <3>1, <3>2, EarlierIs
  <2> QED  BY <1>4, <1>6, <2>2, <2>3 DEF Earlier
<1> QED  BY <1>3, <1>5, <1>6

\* What it is to be the row after this one on the screen.
IsNext(lists, open, row, next) ==
  \/ next = NoRow /\ \A r \in Shown(lists, open) : ~ Earlier(lists, row, r)
  \/ /\ next \in Shown(lists, open) /\ next # NoRow /\ Earlier(lists, row, next)
     /\ \A r \in Shown(lists, open) : Earlier(lists, row, r) /\ r # next => Earlier(lists, next, r)

\* A row is followed by another one in its list at a level.
HasNextAt(lists, row, n) == Pos(lists, row, n) < Len(lists[SubSeq(row, 1, n - 1)])

LEMMA IterNextIs ==
  ASSUME NEW m, Tree(m.lists), NEW row \in Seq(Entries), OnTree(m.lists, row), NEW n \in 1 .. Len(row),
         NEW p, p = SubSeq(row, 1, n - 1)
  PROVE  IterNext(m, SubSeq(row, 1, n))
           = IF HasNextAt(m.lists, row, n) THEN ChildAt(m.lists, p, Pos(m.lists, row, n) + 1) ELSE NoRow
<1>1. n \in 0 .. Len(row) /\ n > 0
  OBVIOUS
<1>2. Front(SubSeq(row, 1, n)) = p /\ Last(SubSeq(row, 1, n)) = row[n]
  BY <1>1, UpTo
<1> DEFINE r == SubSeq(row, 1, n)
<1> HIDE DEF r
<1>3. Front(r) = p /\ Last(r) = row[n]
  BY <1>2 DEF r
<1>4. IterNext(m, r) = IF HasNextAt(m.lists, row, n) THEN ChildAt(m.lists, p, Pos(m.lists, row, n) + 1) ELSE NoRow
  BY <1>3 DEF IterNext, HasNextAt, Pos, ChildAt
<1> QED  BY <1>4 DEF r

\* Only below an open row with children are there rows on the screen.
LEMMA NothingBelow ==
  ASSUME NEW lists, Tree(lists), NEW open, Openable(lists, open), NEW row \in Shown(lists, open),
         NEW r \in Shown(lists, open), r # row, Len(row) <= Len(r), SubSeq(r, 1, Len(row)) = row
  PROVE  row \in open /\ lists[row] # <<>>
<1> DEFINE k == Len(row)
<1> HIDE DEF k
<1>1. k = Len(row) /\ k \in Nat \ {0} /\ row \in Seq(Entries)
  BY ShownIs DEF k
<1>2. r \in Seq(Entries) /\ Len(r) \in Nat \ {0} /\ OnTree(lists, r) /\ SubSeq(r, 1, Len(r)) = r
  BY ShownIs
<1>3. k <= Len(r) /\ SubSeq(r, 1, k) = row
  BY <1>1
<1>4. k # Len(r)
  BY <1>2, <1>3
<1> DEFINE l == Len(r)
<1>10. k \in Nat \ {0} /\ l \in Nat /\ k <= l /\ k # l
  BY <1>1, <1>2, <1>3, <1>4
<1> HIDE DEF l
<1>11. k \in 0 .. l - 1 /\ k + 1 \in 1 .. l /\ (k + 1) - 1 = k
  BY <1>10
<1>5. k \in 0 .. Len(r) - 1 /\ k + 1 \in 1 .. Len(r) /\ (k + 1) - 1 = k
  BY <1>11 DEF l
<1>6. SubSeq(r, 1, k) \in {Top} \cup open
  BY <1>5, AboveIsOpen
<1>7. row # Top
  BY <1>1 DEF Top
<1>8. row \in open
  BY <1>3, <1>6, <1>7
<1>9. lists[row] # <<>>
  <2>1. row \in DOMAIN lists /\ r[k + 1] \in ToSet(lists[row])
    <3>1. SubSeq(r, 1, (k + 1) - 1) \in DOMAIN lists /\ r[k + 1] \in ToSet(lists[SubSeq(r, 1, (k + 1) - 1)])
      BY <1>2, <1>5 DEF OnTree
    <3> QED  BY <1>3, <1>5, <3>1
  <2> QED  BY <2>1 DEF ToSet
<1> QED  BY <1>8, <1>9

\* What comes later parts from a row without open children at a level where
\* it has a next one.
LEMMA LaterParts ==
  ASSUME NEW lists, Tree(lists), NEW open, Openable(lists, open), NEW row \in Shown(lists, open),
         ~ (row \in open /\ lists[row] # <<>>), NEW r \in Shown(lists, open), Earlier(lists, row, r)
  PROVE  \E i \in 1 .. Len(row) : /\ i <= Len(r) /\ SubSeq(row, 1, i - 1) = SubSeq(r, 1, i - 1)
                                  /\ Pos(lists, row, i) < Pos(lists, r, i) /\ HasNextAt(lists, row, i)
<1>1. PICK i \in 1 .. Len(row) : /\ i <= Len(r) /\ SubSeq(row, 1, i - 1) = SubSeq(r, 1, i - 1)
                                 /\ Pos(lists, row, i) < Pos(lists, r, i)
  BY NothingBelow DEF Earlier
<1>2. /\ row \in Seq(Entries) /\ OnTree(lists, row) /\ r \in Seq(Entries) /\ OnTree(lists, r)
      /\ Len(row) \in Nat /\ Len(r) \in Nat
  BY ShownIs
<1>3. i \in 1 .. Len(r)
  BY <1>1, <1>2
<1> DEFINE p == SubSeq(r, 1, i - 1)
<1> HIDE DEF p
<1>4. p = SubSeq(r, 1, i - 1) /\ p = SubSeq(row, 1, i - 1)
  BY <1>1 DEF p
<1>8. AboveAt(r, i, p) /\ AboveAt(row, i, p)
  BY <1>4 DEF AboveAt
<1>5. lists[p] \in Seq(Entries) /\ Pos(lists, r, i) \in 1 .. Len(lists[p])
  BY <1>2, <1>3, <1>8, PosIs
<1>6. Pos(lists, row, i) \in 1 .. Len(lists[p])
  BY <1>2, <1>8, PosIs
<1>7. Pos(lists, row, i) < Len(lists[p])
  BY <1>1, <1>5, <1>6, LenProperties
<1> QED  BY <1>1, <1>4, <1>7 DEF HasNextAt

After(lists, row, n, at) == at = Pos(lists, row, n) + 1

Lowest(lists, row, n) ==
  HasNextAt(lists, row, n) /\ \A i \in 1 .. Len(row) : HasNextAt(lists, row, i) => i <= n

\* The next row at the lowest level where there is one.
LEMMA NextAtIsNext ==
  ASSUME NEW lists, Tree(lists), NEW open, Openable(lists, open), NEW row \in Shown(lists, open),
         ~ (row \in open /\ lists[row] # <<>>),
         NEW n \in 1 .. Len(row), Lowest(lists, row, n), NEW p, AboveAt(row, n, p),
         NEW at, After(lists, row, n, at), NEW next, next = ChildAt(lists, p, at)
  PROVE  IsNext(lists, open, row, next)
<1>1. /\ row \in Seq(Entries) /\ OnTree(lists, row) /\ Len(row) \in Nat \ {0}
  BY ShownIs
<1>2. n \in Nat \ {0} /\ n - 1 \in 0 .. Len(row) - 1 /\ n - 1 \in 0 .. Len(row) /\ (n - 1) + 1 = n
  BY <1>1
<1>3. p \in {Top} \cup open
  BY <1>2, AboveIsOpen DEF AboveAt
<1>4. /\ p \in DOMAIN lists /\ lists[p] \in Seq(Entries) /\ Pos(lists, row, n) \in 1 .. Len(lists[p])
      /\ lists[p][Pos(lists, row, n)] = row[n]
  BY <1>1, PosIs
<1>5. Len(p) = n - 1 /\ \A k \in 0 .. n - 1 : SubSeq(p, 1, k) = SubSeq(row, 1, k)
  BY <1>1, <1>2, UpTo DEF AboveAt
<1>6. at \in 1 .. Len(lists[p]) /\ next = ChildAt(lists, p, at) /\ at \in Nat
  BY <1>4, LenProperties DEF HasNextAt, Lowest, After, AboveAt
<1>7. Pos(lists, row, n) < at /\ Pos(lists, row, n) + 1 = at /\ Pos(lists, row, n) \in Nat
  BY <1>4 DEF After
<1>8. /\ next \in Shown(lists, open) /\ next \in Seq(Entries) /\ next # NoRow
      /\ Len(next) = Len(p) + 1
      /\ SubSeq(next, 1, Len(p)) = p
  BY <1>3, <1>6, ChildIsShown
<1>9. /\ \A k \in 0 .. Len(p) : SubSeq(next, 1, k) = SubSeq(p, 1, k)
      /\ \A k \in 1 .. Len(p) : Pos(lists, next, k) = Pos(lists, p, k)
      /\ next[Len(p) + 1] = lists[p][at] /\ Pos(lists, next, Len(p) + 1) = at
  BY <1>3, <1>6, ChildIsShown
<1>10. Len(next) = n /\ Pos(lists, next, n) = at /\ next[n] = lists[p][at]
  BY <1>2, <1>5, <1>8, <1>9
<1>11. \A k \in 0 .. n - 1 : SubSeq(next, 1, k) = SubSeq(row, 1, k)
  BY <1>5, <1>9
<1>12. ASSUME NEW k \in 1 .. n - 1 PROVE Pos(lists, next, k) = Pos(lists, row, k)
  <2>1. k \in 1 .. Len(p) /\ k - 1 \in 0 .. n - 1 /\ k \in 1 .. Len(row)
    BY <1>1, <1>2, <1>5
  <2>2. Pos(lists, next, k) = Pos(lists, p, k)
    BY <1>9, <2>1
  <2>3. SubSeq(p, 1, k - 1) = SubSeq(row, 1, k - 1)
    BY <1>5, <2>1
  <2>4. p[k] = row[k]
    <3>1. \A i \in 1 .. n - 1 : SubSeq(row, 1, n - 1)[i] = row[i]
      BY <1>1, <1>2, UpTo
    <3> QED  BY <3>1 DEF AboveAt
  <2> QED  BY <2>2, <2>3, <2>4 DEF Pos
<1>13. Earlier(lists, row, next)
  <2>1. n <= Len(next) /\ SubSeq(row, 1, n - 1) = SubSeq(next, 1, n - 1) /\ Pos(lists, row, n) < Pos(lists, next, n)
    <3>1. n <= Len(next) /\ n - 1 \in 0 .. n - 1
      BY <1>2, <1>10
    <3> QED  BY <1>7, <1>10, <1>11, <3>1
  <2> QED  BY <1>1, <1>8, <2>1, EarlierIs
<1>14. ASSUME NEW r \in Shown(lists, open), Earlier(lists, row, r), r # next
       PROVE  Earlier(lists, next, r)
  <2>1. PICK i \in 1 .. Len(row) : /\ i <= Len(r) /\ SubSeq(row, 1, i - 1) = SubSeq(r, 1, i - 1)
                                   /\ Pos(lists, row, i) < Pos(lists, r, i) /\ HasNextAt(lists, row, i)
    BY <1>14, LaterParts
  <2>2. r \in Seq(Entries) /\ OnTree(lists, r) /\ Len(r) \in Nat \ {0}
    BY ShownIs
  <2>3. i <= n /\ i \in 1 .. Len(next) /\ i - 1 \in 0 .. n - 1
    BY <1>2, <1>10, <2>1 DEF Lowest
  <2>4. SubSeq(next, 1, i - 1) = SubSeq(r, 1, i - 1)
    BY <1>11, <2>1, <2>3
  <2>5. CASE i # n
    <3>1. i \in 1 .. n - 1
      BY <1>2, <2>3, <2>5
    <3>2. Pos(lists, next, i) < Pos(lists, r, i)
      BY <1>12, <2>1, <3>1
    <3> QED  BY <1>8, <2>1, <2>2, <2>3, <2>4, <3>2, EarlierIs
  <2>6. CASE i = n
    <3>1. SubSeq(r, 1, n - 1) = p /\ n \in 1 .. Len(r)
      BY <2>1, <2>2, <2>6 DEF AboveAt
    <3>6. AboveAt(r, n, p)
      BY <3>1 DEF AboveAt
    <3>2. Pos(lists, r, n) \in 1 .. Len(lists[p]) /\ lists[p][Pos(lists, r, n)] = r[n]
      BY <2>2, <3>1, <3>6, PosIs
    <3>3. Pos(lists, r, n) >= at
      BY <1>6, <1>7, <2>1, <2>6, <3>2
    <3>4. CASE Pos(lists, r, n) = at
      <4>1. r[n] = next[n]
        BY <1>10, <3>2, <3>4
      <4>2. SubSeq(r, 1, n) = next
        <5> DEFINE j == n - 1
        <5>1. j \in Nat /\ j + 1 = n /\ j + 1 \in 1 .. Len(r) /\ j + 1 \in 1 .. Len(next)
          BY <1>2, <1>10, <3>1
        <5> HIDE DEF j
        <5>2. SubSeq(r, 1, j + 1) = Append(SubSeq(r, 1, j), r[j + 1])
          BY <2>2, <5>1, UpToNext
        <5>3. SubSeq(next, 1, j + 1) = Append(SubSeq(next, 1, j), next[j + 1])
          BY <1>8, <5>1, UpToNext
        <5>4. SubSeq(next, 1, n) = next
          BY <1>8, <1>10, SubSeqFull
        <5>5. SubSeq(r, 1, j) = p /\ SubSeq(next, 1, j) = p
          BY <1>5, <1>8, <3>1 DEF j
        <5> QED  BY <4>1, <5>1, <5>2, <5>3, <5>4, <5>5
      <4>3. Len(next) <= Len(r) /\ SubSeq(r, 1, Len(next)) = next
        BY <1>10, <3>1, <4>2
      <4> QED  BY <1>14, <4>3 DEF Earlier
    <3>5. CASE Pos(lists, r, n) # at
      <4>1. Pos(lists, next, n) < Pos(lists, r, n)
        BY <1>6, <1>10, <3>2, <3>3, <3>5
      <4> QED  BY <1>8, <2>1, <2>2, <2>3, <2>4, <2>6, <4>1, EarlierIs
    <3> QED  BY <3>4, <3>5
  <2> QED  BY <2>5, <2>6
<1> QED  BY <1>8, <1>13, <1>14 DEF IsNext

LEMMA NextAfterIs ==
  ASSUME NEW m, Tree(m.lists), Openable(m.lists, m.open), NEW row \in Shown(m.lists, m.open),
         ~ (row \in m.open /\ m.lists[row] # <<>>)
  PROVE  IsNext(m.lists, m.open, row, NextAfter(m, row))
<1> DEFINE lists == m.lists
           levels == {n \in 1 .. Len(row) : IterNext(m, SubSeq(row, 1, n)) # NoRow}
<1>1. /\ row \in Seq(Entries) /\ OnTree(lists, row) /\ Len(row) \in Nat \ {0}
  BY ShownIs
<1>2. ASSUME NEW n \in 1 .. Len(row)
      PROVE  /\ n \in levels <=> HasNextAt(lists, row, n)
             /\ HasNextAt(lists, row, n) =>
                  IterNext(m, SubSeq(row, 1, n)) = ChildAt(lists, SubSeq(row, 1, n - 1), Pos(lists, row, n) + 1)
  <2> DEFINE p == SubSeq(row, 1, n - 1)
  <2>1. p = SubSeq(row, 1, n - 1)
    OBVIOUS
  <2>4. AboveAt(row, n, p)
    BY DEF AboveAt
  <2> HIDE DEF p
  <2>2. IterNext(m, SubSeq(row, 1, n)) = IF HasNextAt(lists, row, n) THEN ChildAt(lists, p, Pos(lists, row, n) + 1) ELSE NoRow
    BY <1>1, <2>1, IterNextIs
  <2>3. ASSUME HasNextAt(lists, row, n) PROVE ChildAt(lists, p, Pos(lists, row, n) + 1) # NoRow
    <3>1. n - 1 \in 0 .. Len(row) - 1
      BY <1>1
    <3>2. p \in {Top} \cup m.open
      BY <2>1, <3>1, AboveIsOpen
    <3>3. lists[p] \in Seq(Entries) /\ Pos(lists, row, n) \in 1 .. Len(lists[p])
      BY <1>1, <2>4, PosIs
    <3> DEFINE at == Pos(lists, row, n) + 1
    <3>4. at \in 1 .. Len(lists[p])
      <4>1. Pos(lists, row, n) < Len(lists[p])
        BY <2>1, <2>3 DEF HasNextAt
      <4> QED  BY <3>3, <4>1, LenProperties
    <3> HIDE DEF at
    <3>5. ChildAt(lists, p, at) # NoRow
      BY <3>2, <3>4, ChildIsShown
    <3> QED  BY <3>5 DEF at
  <2> QED  BY <2>1, <2>2, <2>3
<1>3. levels \in SUBSET (0 .. Len(row)) /\ levels \subseteq 1 .. Len(row)
  BY <1>1
<1>4. NextAfter(m, row) = IF levels = {} THEN NoRow ELSE IterNext(m, SubSeq(row, 1, Max(levels)))
  BY DEF NextAfter
<1> HIDE DEF levels
<1>5. CASE levels = {}
  <2>1. \A n \in 1 .. Len(row) : ~ HasNextAt(lists, row, n)
    BY <1>2, <1>5
  <2>2. \A r \in Shown(lists, m.open) : ~ Earlier(lists, row, r)
    BY <2>1, LaterParts
  <2> QED  BY <1>4, <1>5, <2>2 DEF IsNext
<1>6. CASE levels # {}
  <2>1. PICK n \in levels : \A k \in levels : k <= n
    BY <1>1, <1>3, <1>6, GreatestExists
  <2>2. Max(levels) = n
    <3>1. levels \subseteq Nat
      BY <1>1, <1>3
    <3>2. Max(levels) \in levels /\ \A y \in levels : Max(levels) >= y
      BY <2>1, <3>1 DEF Max
    <3> DEFINE x == Max(levels)
    <3> HIDE DEF x
    <3>3. x \in levels /\ x >= n /\ n \in Nat /\ x \in Nat
      BY <2>1, <3>1, <3>2 DEF x
    <3>4. x <= n
      BY <2>1, <3>3
    <3>5. x = n
      BY <3>3, <3>4
    <3> QED  BY <3>5 DEF x
  <2>3. n \in 1 .. Len(row) /\ HasNextAt(lists, row, n)
    BY <1>2, <1>3, <2>1
  <2>4. \A i \in 1 .. Len(row) : HasNextAt(lists, row, i) => i <= n
    BY <1>2, <2>1
  <2> DEFINE p == SubSeq(row, 1, n - 1)
             next == NextAfter(m, row)
             at == Pos(lists, row, n) + 1
  <2>5. next = ChildAt(lists, p, at)
    BY <1>2, <1>4, <1>6, <2>2, <2>3
  <2>6. AboveAt(row, n, p) /\ After(lists, row, n, at)
    BY DEF AboveAt, After
  <2> HIDE DEF p, next, at
  <2>8. Lowest(lists, row, n)
    BY <2>3, <2>4 DEF Lowest
  <2>7. IsNext(lists, m.open, row, next)
    BY <2>3, <2>5, <2>6, <2>8, NextAtIsNext
  <2> QED  BY <2>7 DEF next
<1> QED  BY <1>5, <1>6

LEMMA NextVisibleIs ==
  ASSUME NEW m, Tree(m.lists), Openable(m.lists, m.open), NEW row \in Shown(m.lists, m.open)
  PROVE  IsNext(m.lists, m.open, row, NextVisible(m, row))
<1>1. CASE row \in m.open /\ m.lists[row] # <<>>
  <2> DEFINE next == Append(row, m.lists[row][1])
  <2>1. next = Append(row, m.lists[row][1])
    OBVIOUS
  <2>2. row \in DOMAIN m.lists
    BY <1>1 DEF Openable
  <2>3. IterChildren(m, row) = next
    BY <1>1, <2>2 DEF IterChildren
  <2> HIDE DEF next
  <2>4. /\ next \in Shown(m.lists, m.open) /\ next # NoRow /\ Earlier(m.lists, row, next)
        /\ \A r \in Shown(m.lists, m.open) : Earlier(m.lists, row, r) /\ r # next => Earlier(m.lists, next, r)
    BY <1>1, <2>1, FirstChildIsNext
  <2>5. NextVisible(m, row) = next
    BY <1>1, <2>3, <2>4 DEF NextVisible
  <2> QED  BY <2>4, <2>5 DEF IsNext
<1>2. CASE ~ (row \in m.open /\ m.lists[row] # <<>>)
  <2>1. NextVisible(m, row) = NextAfter(m, row)
    BY <1>2 DEF NextVisible, IterChildren
  <2> QED  BY <1>2, <2>1, NextAfterIs
<1> QED  BY <1>1, <1>2

LEMMA OpenableIs ==
  ASSUME ModelTrue(model)
  PROVE  Openable(model.lists, model.open) /\ Tree(model.lists)
BY DEF ModelTrue, Openable

LEMMA WalkIsTrue ==
  ASSUME ModelTrue(model)
  PROVE  WalkVisitsAll
<1> DEFINE lists == model.lists
           before(a, b) == ComesBefore(GetPath(lists, a), GetPath(lists, b))
<1>1. Openable(lists, model.open) /\ Tree(lists)
  BY OpenableIs
<1>2. ASSUME NEW a \in Shown(lists, model.open), NEW b \in Shown(lists, model.open)
      PROVE  before(a, b) <=> Earlier(lists, a, b)
  <2>1. a \in Seq(Entries) /\ OnTree(lists, a)
    BY <1>1, ShownIs
  <2>2. b \in Seq(Entries) /\ OnTree(lists, b)
    BY <1>1, ShownIs
  <2> QED  BY <1>1, <2>1, <2>2, OrderOfPaths
<1> DEFINE visible == Shown(lists, model.open)
<1>3. WalkVisitsAll <=>
        \A row \in visible :
           LET next == NextVisible(model, row)
               later == {r \in visible : before(row, r)}
           IN  IF later = {} THEN next = NoRow
               ELSE next \in later /\ \A r \in later \ {next} : before(next, r)
  BY DEF WalkVisitsAll, Shown
<1>4. ASSUME NEW row \in visible PROVE IsNext(lists, model.open, row, NextVisible(model, row))
  BY <1>1, <1>4, NextVisibleIs
<1> HIDE DEF visible, before
<1>5. ASSUME NEW row \in visible
      PROVE  LET next == NextVisible(model, row)
                 later == {r \in visible : before(row, r)}
             IN  IF later = {} THEN next = NoRow
                 ELSE next \in later /\ \A r \in later \ {next} : before(next, r)
  <2> DEFINE next == NextVisible(model, row)
  <2> HIDE DEF next
  <2>1. \/ next = NoRow /\ \A r \in visible : ~ Earlier(lists, row, r)
        \/ /\ next \in visible /\ next # NoRow /\ Earlier(lists, row, next)
           /\ \A r \in visible : Earlier(lists, row, r) /\ r # next => Earlier(lists, next, r)
    BY <1>4 DEF IsNext, next, visible
  <2>2. \A a, b \in visible : before(a, b) <=> Earlier(lists, a, b)
    BY <1>2 DEF visible
  <2>3. CASE next = NoRow /\ \A r \in visible : ~ Earlier(lists, row, r)
    BY <2>2, <2>3 DEF next
  <2>4. CASE /\ next \in visible /\ next # NoRow /\ Earlier(lists, row, next)
             /\ \A r \in visible : Earlier(lists, row, r) /\ r # next => Earlier(lists, next, r)
    BY <2>2, <2>4 DEF next
  <2> QED  BY <2>1, <2>3, <2>4
<1> QED  BY <1>3, <1>5

\* The widget has every list of the model after each signal, and
\* get_next_visible_iter comes from any row on the screen to the next one,
\* leaving none out.
THEOREM WidgetIsTrue == Spec => []WidgetTrue
<1>1. Always => WidgetTrue
  BY WalkIsTrue DEF Always, ModelTrue, WidgetTrue, ShownIsModel
<1> QED  BY <1>1, AlwaysAlways, PTL

-------------------------------------------------------------------------------
(* While a folder has one row at most.                                     *)

LEMMA RowsNest ==
  ASSUME NEW a \in Seq(Entries), NEW r \in Seq(Entries), NEW f \in Entries
  PROVE  /\ IsPrefix(r, r) /\ IsPrefix(r, Append(r, f)) /\ r # Append(r, f)
         /\ IsPrefix(a, r) => /\ IsPrefix(a, Append(r, f)) /\ a # Append(r, f)
                              /\ a # Top => Front(a) # r /\ Front(a) # Append(r, f)
         /\ IsPrefix(a, Append(r, f)) /\ a # Append(r, f) => IsPrefix(a, r)
<1> DEFINE t == Append(r, f)
<1>1. /\ t \in Seq(Entries) /\ Len(t) = Len(r) + 1 /\ Len(r) \in Nat /\ Len(a) \in Nat
      /\ \A i \in 1 .. Len(r) : t[i] = r[i]
  BY AppendFront, LenProperties
<1>2. IsPrefix(a, r) <=> Len(a) <= Len(r) /\ \A i \in 1 .. Len(a) : a[i] = r[i]
  BY PrefixIs
<1> HIDE DEF t
<1>3. IsPrefix(a, t) <=> Len(a) <= Len(t) /\ \A i \in 1 .. Len(a) : a[i] = t[i]
  BY <1>1, PrefixIs
<1>4. IsPrefix(r, r) /\ IsPrefix(r, t) /\ r # t
  <2>1. IsPrefix(r, r) <=> Len(r) <= Len(r) /\ \A i \in 1 .. Len(r) : r[i] = r[i]
    BY PrefixIs
  <2>2. IsPrefix(r, t) <=> Len(r) <= Len(t) /\ \A i \in 1 .. Len(r) : r[i] = t[i]
    BY <1>1, PrefixIs
  <2> QED  BY <1>1, <2>1, <2>2
<1>5. ASSUME IsPrefix(a, r) PROVE IsPrefix(a, t) /\ a # t /\ (a # Top => Front(a) # r /\ Front(a) # t)
  <2>1. Len(a) <= Len(r) /\ \A i \in 1 .. Len(a) : a[i] = r[i]
    BY <1>2, <1>5
  <2>2. \A i \in 1 .. Len(a) : i \in 1 .. Len(r) /\ a[i] = t[i]
    BY <1>1, <2>1
  <2>3. IsPrefix(a, t) /\ a # t
    BY <1>1, <1>3, <2>1, <2>2
  <2>4. ASSUME a # Top PROVE Front(a) # r /\ Front(a) # t
    <3>1. Len(Front(a)) = Len(a) - 1
      BY <2>4, FrontLast DEF Top
    <3> QED  BY <1>1, <2>1, <3>1
  <2> QED  BY <2>3, <2>4
<1>6. ASSUME IsPrefix(a, t), a # t PROVE IsPrefix(a, r)
  <2>1. Len(a) <= Len(t) /\ \A i \in 1 .. Len(a) : a[i] = t[i]
    BY <1>3, <1>6
  <2>2. Len(a) # Len(t)
    BY <1>1, <1>6, <2>1, SeqEqual
  <2>3. Len(a) <= Len(r)
    BY <1>1, <2>1, <2>2
  <2>4. \A i \in 1 .. Len(a) : i \in 1 .. Len(r) /\ a[i] = r[i]
    BY <1>1, <2>1, <2>3
  <2> QED  BY <1>2, <2>3, <2>4
<1> QED  BY <1>4, <1>5, <1>6 DEF t

LEMMA PrefixOfPrefix ==
  ASSUME NEW a \in Seq(Entries), NEW b \in Seq(Entries), NEW c \in Seq(Entries),
         IsPrefix(a, b), IsPrefix(b, c)
  PROVE  IsPrefix(a, c)
<1>1. Len(a) <= Len(b) /\ \A i \in 1 .. Len(a) : a[i] = b[i]
  BY PrefixIs
<1>2. Len(b) <= Len(c) /\ \A i \in 1 .. Len(b) : b[i] = c[i]
  BY PrefixIs
<1>3. Len(a) \in Nat /\ Len(b) \in Nat /\ Len(c) \in Nat
  BY LenProperties
<1>4. Len(a) <= Len(c) /\ \A i \in 1 .. Len(a) : a[i] = c[i]
  BY <1>1, <1>2, <1>3
<1> QED  BY <1>4, PrefixIs

\* The folder of a row is the home of what is in it, so that no two rows are of
\* one folder.
LEMMA OneRowEach ==
  ASSUME NEW m, Tree(m.lists), AtHome(m)
  PROVE  Unique(m)
<1> DEFINE other(r, s) == s \in DOMAIN m.lists \ {Top} /\ Last(r) = Last(s) /\ r # s
           wrong == {Len(r) : r \in {r \in DOMAIN m.lists \ {Top} : \E s : other(r, s)}}
<1>1. SUFFICES ASSUME wrong # {} PROVE FALSE
  BY DEF Unique
<1>2. wrong \in SUBSET Nat
  BY RowOfTree
<1>3. PICK n \in wrong : \A k \in wrong : n <= k
  <2> HIDE DEF wrong
  <2> QED  BY <1>1, <1>2, LeastExists
<1>4. PICK r \in DOMAIN m.lists \ {Top}, s \in DOMAIN m.lists \ {Top} :
        n = Len(r) /\ Last(r) = Last(s) /\ r # s
  BY <1>3
<1>5. /\ Front(r) \in DOMAIN m.lists /\ Last(r) \in ToSet(m.lists[Front(r)])
      /\ Last(r) \in Folders /\ r = Append(Front(r), Last(r))
      /\ Len(r) \in Nat \ {0} /\ Len(Front(r)) = Len(r) - 1
  BY <1>4, ParentOfRow
<1>6. /\ Front(s) \in DOMAIN m.lists /\ Last(s) \in ToSet(m.lists[Front(s)])
      /\ s = Append(Front(s), Last(s))
  BY <1>4, ParentOfRow
<1>7. Home[Last(r)] = FolderOf(Front(r)) /\ Home[Last(r)] = FolderOf(Front(s))
  BY <1>4, <1>5, <1>6, DirsAre DEF AtHome
<1>8. Front(r) # Front(s)
  BY <1>4, <1>5, <1>6
<1>9. \A t \in DOMAIN m.lists : t # Top => FolderOf(t) = Last(t) /\ FolderOf(t) # Root
  <2> TAKE t \in DOMAIN m.lists
  <2>1. t # Top => Last(t) \in Folders
    BY ParentOfRow
  <2> QED  BY <2>1, DirsAre DEF FolderOf
<1>10. FolderOf(Top) = Root
  BY DEF FolderOf
<1>11. Front(r) # Top /\ Front(s) # Top /\ Last(Front(r)) = Last(Front(s))
  BY <1>5, <1>6, <1>7, <1>8, <1>9, <1>10
<1>12. Len(Front(r)) \in wrong
  BY <1>5, <1>6, <1>8, <1>11
<1>13. n <= Len(Front(r))
  <2> HIDE DEF wrong
  <2> QED  BY <1>3, <1>12
<1> QED  BY <1>4, <1>5, <1>13

-------------------------------------------------------------------------------
(* The stack of calls, while a folder has one row at most.                 *)

CallNested(m, call, outer, followed) ==
  /\ call.do = "remove" => IsRow(m, call.row)
  /\ call.do = "clear" => call.row \in DOMAIN m.lists
  /\ call.do = "unload" => call.row \in m.sub /\ outer = <<>>
  /\ RowCall(call) =>
        /\ \A s \in Below(call.row, m.sub) : Last(s) \notin followed
        /\ \A j \in DOMAIN outer : RowCall(outer[j]) =>
              /\ IsPrefix(outer[j].row, call.row)
              /\ call.do = "remove" => call.row # outer[j].row
  /\ call.do = "list" => /\ call.dir = Root \/ call.dir \in DOMAIN m.dirs
                         /\ call.dir \in followed
                         /\ \A f \in call.files : Home[f] = call.dir
  /\ call.do = "again" => call.dirs \subseteq {Root}

LEMMA NestedPushed ==
  ASSUME NEW m, NEW c \in Seq(Calls), NEW x \in Calls, NEW followed,
         CallsNested(m, c, followed), CallNested(m, x, c, followed)
  PROVE  CallsNested(m, <<x>> \o c, followed)
<1> DEFINE d == <<x>> \o c
<1>1. /\ DOMAIN d = 1 .. Len(c) + 1 /\ DOMAIN c = 1 .. Len(c) /\ Len(c) \in Nat /\ d[1] = x
      /\ Len(d) = Len(c) + 1
      /\ \A i \in 2 .. Len(c) + 1 : d[i] = c[i - 1] /\ i - 1 \in DOMAIN c
  BY Pushed
<1> HIDE DEF d
<1>2. c = <<>> <=> Len(c) = 0
  BY EmptySeq
<1>3. SUFFICES ASSUME NEW i \in DOMAIN d
      PROVE  /\ d[i].do = "remove" => IsRow(m, d[i].row)
             /\ d[i].do = "clear" => d[i].row \in DOMAIN m.lists
             /\ d[i].do = "unload" => d[i].row \in m.sub /\ i = Len(d)
             /\ RowCall(d[i]) =>
                   /\ \A s \in Below(d[i].row, m.sub) : Last(s) \notin followed
                   /\ \A j \in DOMAIN d : i < j /\ RowCall(d[j]) =>
                         /\ IsPrefix(d[j].row, d[i].row)
                         /\ d[i].do = "remove" => d[i].row # d[j].row
             /\ d[i].do = "list" => /\ d[i].dir = Root \/ d[i].dir \in DOMAIN m.dirs
                                    /\ d[i].dir \in followed
                                    /\ \A f \in d[i].files : Home[f] = d[i].dir
             /\ d[i].do = "again" => d[i].dirs \subseteq {Root}
  BY DEF CallsNested, d
<1>4. CASE i = 1
  <2>1. d[i] = x
    BY <1>1, <1>4
  <2>2. d[i].do = "unload" => i = Len(d)
    BY <1>1, <1>2, <1>4, <2>1 DEF CallNested
  <2>3. ASSUME RowCall(d[i]), NEW j \in DOMAIN d, i < j, RowCall(d[j])
        PROVE  IsPrefix(d[j].row, d[i].row) /\ (d[i].do = "remove" => d[i].row # d[j].row)
    <3>1. d[j] = c[j - 1] /\ j - 1 \in DOMAIN c
      BY <1>1, <1>4, <2>3
    <3> QED  BY <2>1, <2>3, <3>1 DEF CallNested
  <2> QED  BY <2>1, <2>2, <2>3 DEF CallNested
<1>5. CASE i # 1
  <2>1. d[i] = c[i - 1] /\ i - 1 \in DOMAIN c /\ i \in Nat
    BY <1>1, <1>5
  <2>2. d[i].do = "unload" => i = Len(d)
    BY <1>1, <2>1 DEF CallsNested
  <2>3. ASSUME RowCall(d[i]), NEW j \in DOMAIN d, i < j, RowCall(d[j])
        PROVE  IsPrefix(d[j].row, d[i].row) /\ (d[i].do = "remove" => d[i].row # d[j].row)
    <3>1. d[j] = c[j - 1] /\ j - 1 \in DOMAIN c /\ i - 1 < j - 1
      BY <1>1, <1>5, <2>1, <2>3
    <3> QED  BY <2>1, <2>3, <3>1 DEF CallsNested
  <2> QED  BY <2>1, <2>2, <2>3 DEF CallsNested
<1> QED  BY <1>4, <1>5

LEMMA NestedPopped ==
  ASSUME NEW m, NEW c \in Seq(Calls), c # <<>>, NEW followed, CallsNested(m, c, followed)
  PROVE  CallsNested(m, Tail(c), followed) /\ CallNested(m, Head(c), Tail(c), followed)
<1> DEFINE t == Tail(c)
           h == Head(c)
<1>1. /\ t \in Seq(Calls) /\ Len(t) = Len(c) - 1 /\ DOMAIN t = 1 .. Len(c) - 1 /\ DOMAIN c = 1 .. Len(c)
      /\ h = c[1] /\ Len(c) \in Nat \ {0}
      /\ \A i \in 1 .. Len(c) - 1 : t[i] = c[i + 1] /\ i + 1 \in DOMAIN c
  BY Popped
<1> HIDE DEF t, h
<1>2. CallsNested(m, t, followed)
  <2>1. ASSUME NEW i \in DOMAIN t
        PROVE  /\ t[i].do = "unload" => t[i].row \in m.sub /\ i = Len(t)
               /\ RowCall(t[i]) => \A j \in DOMAIN t : i < j /\ RowCall(t[j]) =>
                     IsPrefix(t[j].row, t[i].row) /\ (t[i].do = "remove" => t[i].row # t[j].row)
    <3>1. t[i] = c[i + 1] /\ i + 1 \in DOMAIN c /\ i \in Nat
      BY <1>1
    <3>2. t[i].do = "unload" => t[i].row \in m.sub /\ i + 1 = Len(c)
      BY <3>1 DEF CallsNested
    <3>3. ASSUME RowCall(t[i]), NEW j \in DOMAIN t, i < j, RowCall(t[j])
          PROVE  IsPrefix(t[j].row, t[i].row) /\ (t[i].do = "remove" => t[i].row # t[j].row)
      <4>1. t[j] = c[j + 1] /\ j + 1 \in DOMAIN c /\ i + 1 < j + 1
        BY <1>1, <3>3
      <4> QED  BY <3>1, <3>3, <4>1 DEF CallsNested
    <3> QED  BY <1>1, <3>1, <3>2, <3>3
  <2>2. ASSUME NEW i \in DOMAIN t
        PROVE  /\ t[i].do = "remove" => IsRow(m, t[i].row)
               /\ t[i].do = "clear" => t[i].row \in DOMAIN m.lists
               /\ RowCall(t[i]) => \A s \in Below(t[i].row, m.sub) : Last(s) \notin followed
               /\ t[i].do = "list" => /\ t[i].dir = Root \/ t[i].dir \in DOMAIN m.dirs
                                      /\ t[i].dir \in followed
                                      /\ \A f \in t[i].files : Home[f] = t[i].dir
               /\ t[i].do = "again" => t[i].dirs \subseteq {Root}
    <3>1. t[i] = c[i + 1] /\ i + 1 \in DOMAIN c
      BY <1>1
    <3> QED  BY <3>1 DEF CallsNested
  <2> QED  BY <2>1, <2>2 DEF CallsNested
<1>3. CallNested(m, h, t, followed)
  <2>1. h = c[1] /\ 1 \in DOMAIN c
    BY <1>1
  <2>2. h.do = "unload" => h.row \in m.sub /\ t = <<>>
    <3>1. h.do = "unload" => h.row \in m.sub /\ 1 = Len(c)
      BY <2>1 DEF CallsNested
    <3> QED  BY <1>1, <3>1, EmptySeq
  <2>3. ASSUME RowCall(h), NEW j \in DOMAIN t, RowCall(t[j])
        PROVE  IsPrefix(t[j].row, h.row) /\ (h.do = "remove" => h.row # t[j].row)
    <3>1. t[j] = c[j + 1] /\ j + 1 \in DOMAIN c /\ 1 < j + 1
      BY <1>1
    <3> QED  BY <2>1, <2>3, <3>1 DEF CallsNested
  <2>4. /\ h.do = "remove" => IsRow(m, h.row)
        /\ h.do = "clear" => h.row \in DOMAIN m.lists
        /\ RowCall(h) => \A s \in Below(h.row, m.sub) : Last(s) \notin followed
        /\ h.do = "list" => /\ h.dir = Root \/ h.dir \in DOMAIN m.dirs
                            /\ h.dir \in followed
                            /\ \A f \in h.files : Home[f] = h.dir
        /\ h.do = "again" => h.dirs \subseteq {Root}
    BY <2>1 DEF CallsNested
  <2> QED  BY <2>2, <2>3, <2>4 DEF CallNested
<1> QED  BY <1>2, <1>3 DEF t, h

LEMMA NoneNested ==
  /\ \A m, followed : CallsNested(m, <<>>, followed)
  /\ \A m, x, followed : CallNested(m, x, <<>>, followed) /\ x \in Calls => CallsNested(m, <<x>>, followed)
<1>1. \A m, followed : CallsNested(m, <<>>, followed)
  BY DEF CallsNested
<1>2. ASSUME NEW m, NEW x \in Calls, NEW followed, CallNested(m, x, <<>>, followed)
      PROVE  CallsNested(m, <<x>>, followed)
  <2>1. <<>> \in Seq(Calls) /\ <<x>> \o <<>> = <<x>>
    <3>1. <<x>> \in Seq(Calls)
      BY OneCall
    <3> QED  BY <3>1, ConcatEmptySeq, NoCalls
  <2>2. CallsNested(m, <<x>> \o <<>>, followed)
    BY <1>1, <1>2, <2>1, NestedPushed
  <2> QED  BY <2>1, <2>2
<1> QED  BY <1>1, <1>2

\* A call below another one.
LEMMA ChildNested ==
  ASSUME NEW m, ModelTrue(m), NEW c \in Seq(Calls), c # <<>>, NEW followed, CallsNested(m, c, followed),
         NEW row \in DOMAIN m.lists, RowCall(Head(c)), Head(c).row = row,
         NEW f \in ToSet(m.lists[row])
  PROVE  /\ CallNested(m, Removing(Append(row, f)), c, followed)
         /\ Append(row, f) \in DOMAIN m.lists =>
               CallNested(m, Clearing(Append(row, f)), <<Removing(Append(row, f))>> \o c, followed)
<1> DEFINE child == Append(row, f)
           t == Tail(c)
           h == Head(c)
<1>1. /\ row \in Seq(Entries) /\ f \in Entries /\ child \in Seq(Entries) /\ child # Top
      /\ Front(child) = row /\ Last(child) = f /\ Tree(m.lists)
  <2>1. Tree(m.lists)
    BY DEF ModelTrue
  <2>2. row \in Seq(Entries) /\ f \in Entries
    BY <2>1, RowOfTree, ChildIsOnTree
  <2> QED  BY <2>1, <2>2, AppendFront DEF Top
<1>2. CallsNested(m, t, followed) /\ CallNested(m, h, t, followed)
  BY NestedPopped
<1>3. /\ DOMAIN c = 1 .. Len(c) /\ DOMAIN t = 1 .. Len(c) - 1 /\ h = c[1] /\ Len(c) \in Nat \ {0}
      /\ \A i \in 1 .. Len(c) - 1 : t[i] = c[i + 1]
      /\ h \in Calls /\ t \in Seq(Calls)
  BY Popped
<1>4. \A a \in Seq(Entries) : IsPrefix(a, row) => IsPrefix(a, child) /\ a # child
  BY <1>1, RowsNest
<1>5. IsPrefix(row, row) /\ IsPrefix(row, child) /\ IsPrefix(child, child)
  <2>1. IsPrefix(row, row) /\ IsPrefix(row, child)
    BY <1>1, RowsNest
  <2>2. IsPrefix(child, child)
    BY <1>1, RowsNest
  <2> QED  BY <2>1, <2>2
<1>6. ASSUME NEW j \in DOMAIN c, RowCall(c[j])
      PROVE  c[j].row \in Seq(Entries) /\ IsPrefix(c[j].row, row)
  <2>1. c[j] \in Calls
    BY ElementOfSeq, <1>3
  <2>2. c[j].row \in Seq(Entries)
    BY <1>6, <2>1, CallIs
  <2>3. CASE j = 1
    BY <1>3, <1>5, <2>2, <2>3
  <2>4. CASE j # 1
    <3>1. j - 1 \in DOMAIN t /\ t[j - 1] = c[j]
      BY <1>3, <2>4
    <3> HIDE DEF t, h
    <3>2. IsPrefix(t[j - 1].row, h.row)
      BY <1>2, <1>6, <3>1 DEF CallNested, h
    <3> QED  BY <2>2, <3>1, <3>2 DEF h
  <2> QED  BY <2>3, <2>4
<1>7. \A s \in Below(child, m.sub) : Last(s) \notin followed
  <2>1. \A s \in Below(h.row, m.sub) : Last(s) \notin followed
    BY <1>2 DEF CallNested, h
  <2>2. ASSUME NEW s \in Below(child, m.sub) PROVE s \in Below(row, m.sub)
    <3>1. s \in m.sub /\ IsPrefix(child, s) /\ s \in Seq(Entries)
      <4>1. s \in m.sub /\ IsPrefix(child, s) /\ s \in DOMAIN m.lists
        BY DEF Below, ModelTrue
      <4> QED  BY <4>1, ModelTypes
    <3>2. IsPrefix(row, s)
      BY <1>1, <1>5, <3>1, PrefixOfPrefix
    <3> QED  BY <3>1, <3>2 DEF Below
  <2> QED  BY <2>1, <2>2
<1> HIDE DEF child, t, h
<1>8. /\ Removing(child).do = "remove" /\ Removing(child).row = child /\ RowCall(Removing(child))
      /\ Clearing(child).do = "clear" /\ Clearing(child).row = child /\ RowCall(Clearing(child))
      /\ Removing(child) \in Calls
  BY <1>1, RowCallsMade
<1>9. CallNested(m, Removing(child), c, followed)
  <2>1. IsRow(m, child)
    BY <1>1 DEF IsRow
  <2>2. ASSUME NEW j \in DOMAIN c, RowCall(c[j])
        PROVE  IsPrefix(c[j].row, child) /\ child # c[j].row
    BY <1>4, <1>6, <2>2
  <2> QED  BY <1>7, <1>8, <2>1, <2>2 DEF CallNested
<1>10. ASSUME child \in DOMAIN m.lists
       PROVE  CallNested(m, Clearing(child), <<Removing(child)>> \o c, followed)
  <2> DEFINE e == <<Removing(child)>> \o c
  <2>1. /\ DOMAIN e = 1 .. Len(c) + 1 /\ e[1] = Removing(child)
        /\ \A i \in 2 .. Len(c) + 1 : e[i] = c[i - 1] /\ i - 1 \in DOMAIN c
    BY <1>8, Pushed
  <2> HIDE DEF e
  <2>2. ASSUME NEW j \in DOMAIN e, RowCall(e[j]) PROVE IsPrefix(e[j].row, child)
    <3>1. CASE j = 1
      BY <1>5, <1>8, <2>1, <3>1
    <3>2. CASE j # 1
      <4>1. e[j] = c[j - 1] /\ j - 1 \in DOMAIN c
        BY <1>3, <2>1, <3>2
      <4> QED  BY <1>4, <1>6, <2>2, <4>1
    <3> QED  BY <3>1, <3>2
  <2> QED  BY <1>7, <1>8, <1>10, <2>2 DEF CallNested, e
<1> QED  BY <1>9, <1>10 DEF child

\* The rows of the sub-folders are found by their folders.
DirsMap(m) == m.dirs = [d \in DOMAIN m.dirs |-> m.dirs[d]]

\* While no row was hidden or orphaned: rows lie below their folders, the calls
\* below their callers, the maps find each row and each folder that is followed.
GoodNow(m, c, followed) ==
  /\ AtHome(m) /\ CallsNested(m, c, followed) /\ Found(m, c)
  /\ followed \ {Root} \subseteq DOMAIN m.dirs
  /\ DirsMap(m)

Fine(happened) == happened \cap {"hidden", "orphaned"} = {}

LEMMA GoodWithout ==
  ASSUME NEW m, NEW followed, GoodNow(m, <<>>, followed)
  PROVE  /\ \A row \in m.sub : Last(row) \in DOMAIN m.dirs
         /\ AtHome(m) /\ followed \ {Root} \subseteq DOMAIN m.dirs /\ DirsMap(m)
BY DEF GoodNow, Found

\* Nothing has changed but what is in the lists.
LEMMA GoodBetween ==
  ASSUME NEW m, NEW followed, GoodNow(m, <<>>, followed),
         NEW n, n.sub = m.sub, n.dirs = m.dirs, AtHome(n),
         NEW f, f \ {Root} \subseteq followed
  PROVE  /\ GoodNow(n, <<>>, f)
         /\ \A x \in Calls : CallNested(n, x, <<>>, f) => GoodNow(n, <<x>>, f)
<1>1. /\ \A row \in n.sub : Last(row) \in DOMAIN n.dirs
      /\ AtHome(n) /\ f \ {Root} \subseteq DOMAIN n.dirs /\ DirsMap(n)
  BY GoodWithout DEF DirsMap
<1>2. \A c : Found(n, c)
  BY <1>1 DEF Found
<1>3. /\ CallsNested(n, <<>>, f)
      /\ \A x \in Calls : CallNested(n, x, <<>>, f) => CallsNested(n, <<x>>, f)
  BY NoneNested
<1> QED  BY <1>1, <1>2, <1>3 DEF GoodNow

LEMMA ListNested ==
  ASSUME NEW m, NEW d, NEW files, NEW outer, NEW followed, d = Root \/ d \in DOMAIN m.dirs,
         d \in followed, \A f \in files : Home[f] = d,
         NEW x, x.do = "list", x.dir = d, x.files = files
  PROVE  CallNested(m, x, outer, followed)
BY DEF CallNested, RowCall

LEMMA SortNested ==
  ASSUME NEW m, NEW rows, NEW outer, NEW followed
  PROVE  CallNested(m, Sorting(rows), outer, followed)
BY ListCallsMade DEF CallNested

LEMMA AgainNested ==
  ASSUME NEW m, NEW dirs, NEW outer, NEW followed, dirs \subseteq {Root}
  PROVE  CallNested(m, ListingAgain(dirs), outer, followed)
BY DEF ListingAgain, RowCall, CallNested

LEMMA RowNested ==
  ASSUME NEW m, NEW row, NEW followed, \A s \in Below(row, m.sub) : Last(s) \notin followed
  PROVE  /\ IsRow(m, row) => CallNested(m, Removing(row), <<>>, followed)
         /\ row \in DOMAIN m.lists => CallNested(m, Clearing(row), <<>>, followed)
         /\ row \in m.sub => CallNested(m, Unloading(row), <<>>, followed)
BY RowCallsMade DEF CallNested

\* The row in which a folder's files are put is the folder's.
LEMMA ParentAtHome ==
  ASSUME NEW m, ModelTrue(m), NEW d, d = Root \/ d \in DOMAIN m.dirs
  PROVE  /\ FolderOf(ParentOf(m, d)) = d
         /\ d = Root => ParentOf(m, d) = Top
         /\ d # Root => ParentOf(m, d) = m.dirs[d] /\ m.dirs[d] \in m.sub /\ m.dirs[d] # Top
<1>1. \A e \in DOMAIN m.dirs : m.dirs[e] \in m.sub /\ Last(m.dirs[e]) = e /\ e \in Folders /\ m.dirs[e] # Top
  <2> TAKE e \in DOMAIN m.dirs
  <2>1. m.dirs[e] \in m.sub /\ Last(m.dirs[e]) = e
    BY DEF ModelTrue
  <2>2. m.dirs[e] \in DOMAIN m.lists /\ m.dirs[e] # Top /\ Tree(m.lists)
    BY <2>1 DEF ModelTrue
  <2>3. Last(m.dirs[e]) \in Folders
    BY <2>2, ParentOfRow
  <2> QED  BY <2>1, <2>2, <2>3
<1>2. Root \notin DOMAIN m.dirs
  BY <1>1, DirsAre
<1> QED  BY <1>1, <1>2 DEF ParentOf, FolderOf

LEMMA AddKeepsHome ==
  ASSUME NEW m, ModelTrue(m), AtHome(m), NEW f \in Files, NEW d, Home[f] = d,
         d = Root \/ d \in DOMAIN m.dirs, NEW n, n = AddFile(m, f, d)
  PROVE  AtHome(n) /\ n.sub = m.sub /\ n.dirs = m.dirs
<1> DEFINE parent == ParentOf(m, d)
<1>1. FolderOf(parent) = d
  BY ParentAtHome
<1>2. parent \in DOMAIN m.lists /\ IF f \in m.rev[parent] THEN n = m ELSE Added(m, n, parent, f)
  BY AddFileIs
<1> HIDE DEF parent
<1>3. CASE n = m
  BY <1>3
<1>4. CASE Added(m, n, parent, f)
  <2> DEFINE row == Append(parent, f)
  <2>1. /\ n.sub = m.sub /\ n.dirs = m.dirs
        /\ ToSet(n.lists[parent]) = (ToSet(m.lists[parent]) \ {Dummy}) \cup {f}
        /\ DOMAIN n.lists = IF f \in Folders THEN DOMAIN m.lists \cup {row} ELSE DOMAIN m.lists
        /\ f \in Folders => n.lists[row] = <<Dummy>>
        /\ \A r \in DOMAIN m.lists \ {parent} : n.lists[r] = m.lists[r]
    BY <1>4 DEF Added
  <2> HIDE DEF row
  <2>2. ASSUME NEW r \in DOMAIN n.lists, NEW g \in ToSet(n.lists[r]) \ {Dummy}
        PROVE  Home[g] = FolderOf(r)
    <3>1. CASE r = parent
      BY <1>1, <1>2, <2>1, <2>2, <3>1 DEF AtHome
    <3>2. CASE r # parent /\ r \in DOMAIN m.lists
      BY <2>1, <2>2, <3>2 DEF AtHome
    <3>3. CASE r # parent /\ r \notin DOMAIN m.lists
      <4>1. n.lists[r] = <<Dummy>>
        BY <2>1, <3>3
      <4>2. ToSet(<<Dummy>>) = {Dummy}
        BY DEF ToSet
      <4> QED  BY <2>2, <4>1, <4>2
    <3> QED  BY <3>1, <3>2, <3>3
  <2> QED  BY <2>1, <2>2 DEF AtHome
<1> QED  BY <1>2, <1>3, <1>4

LEMMA RearrangedHome ==
  ASSUME NEW m, NEW n, NEW parent, Rearranged(m, n, parent), AtHome(m)
  PROVE  AtHome(n) /\ n.sub = m.sub /\ n.dirs = m.dirs
BY DEF Rearranged, SameBut, AtHome

LEMMA SameListsHome ==
  ASSUME NEW m, NEW n, n.lists = m.lists, AtHome(m)
  PROVE  AtHome(n)
BY DEF AtHome

-------------------------------------------------------------------------------
(* What happens between the calls keeps GoodNow.                           *)

GoodIdle == Idle /\ GoodNow(model, calls, connected) /\ Fine(mishaps')
GoodNext == GoodNow(model', calls', connected')

LEMMA GoodIdleIs ==
  ASSUME GoodIdle
  PROVE  /\ ModelTrue(model) /\ HasTrue /\ HeldTrue /\ OthersOK
         /\ GoodNow(model, <<>>, connected) /\ AtHome(model) /\ calls = <<>>
         /\ \A d \in connected : d = Root \/ d \in DOMAIN model.dirs
<1>1. ModelTrue(model) /\ HasTrue /\ HeldTrue /\ OthersOK /\ calls = <<>>
  BY IdleIs DEF GoodIdle, Idle
<1>2. GoodNow(model, <<>>, connected)
  BY <1>1 DEF GoodIdle
<1> QED  BY <1>1, <1>2, GoodWithout

LEMMA BatchGood ==
  ASSUME GoodIdle, NEW d \in Dirs, NEW some, Batch(d, some)
  PROVE  GoodNext
<1>1. /\ ModelTrue(model) /\ HasTrue /\ OthersOK /\ GoodNow(model, <<>>, connected) /\ AtHome(model)
      /\ \A e \in connected : e = Root \/ e \in DOMAIN model.dirs
  BY GoodIdleIs
<1> DEFINE x == Listing(d, some, FALSE)
<1>2. /\ model' = model /\ connected' = connected
      /\ d \in connected => calls' = <<x>>
      /\ d \notin connected => calls' = <<>>
  BY DEF Batch
<1>3. some \in SUBSET Files /\ \A f \in some : Home[f] = d
  <2>1. has[d] \subseteq Files /\ some \subseteq has[d]
    BY <1>1 DEF Batch, OthersOK
  <2> QED  BY <1>1, <2>1 DEF HasTrue
<1>4. x \in Calls /\ x.do = "list" /\ x.dir = d /\ x.files = some
  BY <1>3 DEF Listing, Calls
<1> HIDE DEF x
<1>5. CASE d \in connected
  <2>1. CallNested(model, x, <<>>, connected)
    BY <1>1, <1>3, <1>4, <1>5, ListNested
  <2>2. GoodNow(model, <<x>>, connected)
    BY <1>1, <1>4, <2>1, GoodBetween
  <2> QED  BY <1>2, <1>5, <2>2 DEF GoodNext
<1>6. CASE d \notin connected
  BY <1>1, <1>2, <1>6 DEF GoodNext
<1> QED  BY <1>5, <1>6

LEMMA ReadingEndsGood ==
  ASSUME GoodIdle, NEW d \in Dirs, DoneLoading(d) \/ ReadingFails(d)
  PROVE  GoodNext
<1>1. /\ ModelTrue(model) /\ GoodNow(model, <<>>, connected) /\ AtHome(model)
  BY GoodIdleIs
<1> DEFINE x == Sorting(ListsToSort(model))
<1>2. /\ model' = model /\ connected' = connected
      /\ calls' = <<x>> \/ calls' = <<>>
  BY DEF DoneLoading, ReadingFails, ReadingEnds
<1>3. x \in Calls /\ CallNested(model, x, <<>>, connected)
  BY <1>1, ListsToSortIs, SortNested
<1> HIDE DEF x
<1>4. GoodNow(model, <<x>>, connected)
  BY <1>1, <1>3, GoodBetween
<1>5. CASE calls' = <<x>>
  BY <1>2, <1>4, <1>5 DEF GoodNext
<1>6. CASE calls' = <<>>
  BY <1>1, <1>2, <1>6 DEF GoodNext
<1> QED  BY <1>2, <1>5, <1>6

LEMMA FileAddedGood ==
  ASSUME GoodIdle, NEW f \in Files, FileAdded(f)
  PROVE  GoodNext
<1>1. /\ ModelTrue(model) /\ GoodNow(model, <<>>, connected) /\ AtHome(model) /\ calls = <<>>
      /\ \A e \in connected : e = Root \/ e \in DOMAIN model.dirs
  BY GoodIdleIs
<1>2. /\ model' = (IF Home[f] \in connected THEN AddFile(model, f, Home[f]) ELSE model)
      /\ connected' = connected /\ calls' = <<>>
  BY <1>1 DEF FileAdded
<1>3. AtHome(model') /\ model'.sub = model.sub /\ model'.dirs = model.dirs
  BY <1>1, <1>2, AddKeepsHome
<1> QED  BY <1>1, <1>2, <1>3, GoodBetween DEF GoodNext

LEMMA FileDeletedGood ==
  ASSUME GoodIdle, NEW f \in Files, FileDeleted(f)
  PROVE  GoodNext
<1>1. /\ ModelTrue(model) /\ GoodNow(model, <<>>, connected) /\ AtHome(model)
  BY GoodIdleIs
<1> DEFINE d == Home[f]
           row == IF d \in connected THEN LookupFile(model, f, d) ELSE NoRow
<1>2. /\ model' = model /\ connected' = connected /\ calls' = (IF row = NoRow THEN <<>> ELSE <<Removing(row)>>)
      /\ mishaps' = mishaps \cup Orphaned(row)
  BY DEF FileDeleted
<1>3. ASSUME row # NoRow PROVE GoodNow(model, <<Removing(row)>>, connected)
  <2>1. row \in Seq(Entries) /\ IsRow(model, row)
    <3> DEFINE parent == ParentOf(model, d)
    <3>1. /\ LookupFile(model, f, d) = IF f \in model.rev[parent] THEN Append(parent, f) ELSE NoRow
          /\ Append(parent, f) # NoRow /\ Append(parent, f) # Top
          /\ Front(Append(parent, f)) = parent /\ Last(Append(parent, f)) = f
          /\ Append(parent, f) \in Seq(Entries)
          /\ f \in model.rev[parent] <=> f \in ToSet(model.lists[parent])
      BY <1>1, LookupIs
    <3>2. parent \in DOMAIN model.lists
      BY <1>1, ParentIs
    <3> HIDE DEF parent
    <3>3. row = Append(parent, f) /\ f \in model.rev[parent]
      BY <1>3, <3>1
    <3> HIDE DEF row
    <3> QED  BY <3>1, <3>2, <3>3 DEF IsRow
  <2> HIDE DEF row, d
  <2>2. "orphaned" \notin Orphaned(row)
    BY <1>2 DEF GoodIdle, Fine
  <2>3. \A s \in Below(row, model.sub) : Last(s) \notin connected
    BY <2>2 DEF Orphaned
  <2>4. Removing(row) \in Calls
    BY <2>1, RowCallsMade
  <2>5. CallNested(model, Removing(row), <<>>, connected)
    BY <2>1, <2>3, RowNested
  <2> QED  BY <1>1, <2>4, <2>5, GoodBetween
<1> QED  BY <1>1, <1>2, <1>3 DEF GoodNext

LEMMA FileGrowsGood ==
  ASSUME GoodIdle, NEW f \in Files, FileGrows(f)
  PROVE  GoodNext
<1>1. /\ ModelTrue(model) /\ GoodNow(model, <<>>, connected) /\ AtHome(model) /\ calls = <<>>
  BY GoodIdleIs
<1>2. PICK s \in Sizes : model' = LET m == [model EXCEPT !.size[f] = s]
                                  IN  IF Home[f] \in connected THEN FileChanged(m, f, Home[f]) ELSE m
  BY DEF FileGrows
<1> DEFINE m == [model EXCEPT !.size[f] = s]
<1>3. /\ ModelTrue(m) /\ m.lists = model.lists /\ m.sub = model.sub /\ m.dirs = model.dirs
  BY <1>1, FileResized
<1>4. model' = IF Home[f] \in connected THEN FileChanged(m, f, Home[f]) ELSE m
  BY <1>2
<1> HIDE DEF m
<1>5. AtHome(m)
  BY <1>1, <1>3, SameListsHome
<1>6. AtHome(model') /\ model'.sub = model.sub /\ model'.dirs = model.dirs
  <2>1. CASE Home[f] \in connected
    <3> DEFINE n == FileChanged(m, f, Home[f])
    <3>1. Rearranged(m, n, ParentOf(m, Home[f]))
      BY <1>3, FileIsMoved
    <3> HIDE DEF n
    <3>2. AtHome(n) /\ n.sub = m.sub /\ n.dirs = m.dirs
      BY <1>5, <3>1, RearrangedHome
    <3> QED  BY <1>3, <1>4, <2>1, <3>2 DEF n
  <2> QED  BY <1>3, <1>4, <1>5, <2>1
<1>7. connected' = connected /\ calls' = <<>>
  BY <1>1 DEF FileGrows
<1> QED  BY <1>1, <1>6, <1>7, GoodBetween DEF GoodNext

LEMMA ExpandGood ==
  ASSUME GoodIdle, NEW row \in DOMAIN model.lists, Expand(row)
  PROVE  GoodNext
<1>1. /\ ModelTrue(model) /\ HasTrue /\ OthersOK /\ GoodNow(model, <<>>, connected) /\ AtHome(model) /\ calls = <<>>
  BY GoodIdleIs
<1>2. /\ model'.lists = model.lists
      /\ IF row \in model.sub THEN model'.sub = model.sub /\ model'.dirs = model.dirs
         ELSE model'.sub = model.sub \cup {row} /\ model'.dirs = With(model.dirs, Last(row), row)
      /\ CanLoadSubdirectory(model, row) <=> row \notin model.sub
      /\ row # Top /\ Last(row) \in Folders
  BY <1>1, ExpandIs
<1>3. AtHome(model')
  BY <1>1, <1>2, SameListsHome
<1>4. CASE row \in model.sub
  <2>1. calls' = <<>> /\ connected' = connected
    BY <1>1, <1>2, <1>4 DEF Expand
  <2> QED  BY <1>1, <1>2, <1>3, <1>4, <2>1, GoodBetween DEF GoodNext
<1>5. CASE row \notin model.sub
  <2> DEFINE d == Last(row)
  <2> DEFINE x == Listing(d, has[d], TRUE)
  <2>1. /\ connected' = connected \cup {d}
        /\ calls' = <<>> \/ calls' = <<x>>
    <3>1. \A y : <<y>> \o <<>> = <<y>>
      OBVIOUS
    <3> QED  BY <1>2, <1>5, <3>1 DEF Expand, Load, LoadShared
  <2>2. model'.sub = model.sub \cup {row} /\ model'.dirs = With(model.dirs, d, row)
    BY <1>2, <1>5
  <2>3. d \in Dirs /\ d # Root
    BY <1>2, DirsAre
  <2> HIDE DEF d
  <2>4. DOMAIN model'.dirs = DOMAIN model.dirs \cup {d} /\ DirsMap(model')
    BY <2>2 DEF With, DirsMap
  <2>5. \A c : Found(model', c)
    <3>1. \A r \in model.sub : Last(r) \in DOMAIN model.dirs
      BY <1>1, GoodWithout
    <3> QED  BY <2>2, <2>4, <3>1 DEF Found, d
  <2>6. connected' \ {Root} \subseteq DOMAIN model'.dirs
    BY <1>1, <2>1, <2>4, GoodWithout
  <2>7. CallsNested(model', calls', connected')
    <3>1. CASE calls' = <<>>
      BY <3>1, NoneNested
    <3>2. CASE calls' = <<x>>
      <4>1. has[d] \in SUBSET Files /\ \A f \in has[d] : Home[f] = d
        BY <1>1, <2>3 DEF HasTrue, OthersOK
      <4>2. x \in Calls /\ x.do = "list" /\ x.dir = d /\ x.files = has[d]
        BY <2>3, <4>1 DEF Listing, Calls
      <4> HIDE DEF x
      <4>3. CallNested(model', x, <<>>, connected')
        BY <2>1, <2>4, <4>1, <4>2, ListNested
      <4> QED  BY <3>2, <4>2, <4>3, NoneNested
    <3> QED  BY <2>1, <3>1, <3>2
  <2> QED  BY <1>3, <2>4, <2>5, <2>6, <2>7 DEF GoodNext, GoodNow
<1> QED  BY <1>4, <1>5

LEMMA CollapseGood ==
  ASSUME GoodIdle, NEW row \in DOMAIN model.lists, Collapse(row)
  PROVE  GoodNext
<1>1. /\ ModelTrue(model) /\ GoodNow(model, <<>>, connected) /\ AtHome(model) /\ calls = <<>>
  BY GoodIdleIs
<1>2. model'.lists = model.lists /\ model'.sub = model.sub /\ model'.dirs = model.dirs
  BY <1>1, CollapseIs
<1>3. connected' \subseteq connected /\ calls' = <<>>
  BY <1>1 DEF Collapse, Release
<1> QED  BY <1>1, <1>2, <1>3, SameListsHome, GoodBetween DEF GoodNext

LEMMA UnloadTimerGood ==
  ASSUME GoodIdle, NEW d \in Folders, UnloadTimer(d)
  PROVE  GoodNext
<1>1. /\ ModelTrue(model) /\ GoodNow(model, <<>>, connected) /\ AtHome(model) /\ calls = <<>>
      /\ GoodNow(model, calls, connected)
  BY GoodIdleIs DEF GoodIdle
<1>2. connected' = connected
  BY DEF UnloadTimer
<1>3. CASE UNCHANGED <<model, calls, loading, read, failed, mishaps>>
  BY <1>1, <1>2, <1>3 DEF GoodNext
<1>4. CASE \E row \in model.sub :
               /\ row \notin model.open
               /\ row \in FirstItersForFile(model, d)
               /\ ModelTrue(model') /\ model'.lists = model.lists /\ model'.sub = model.sub
               /\ model'.dirs = Without(model.dirs, {Last(row)}) /\ model'.open = model.open
               /\ model'.size = model.size /\ model'.column = model.column
               /\ model'.reversed = model.reversed
               /\ calls' = <<Unloading(row)>>
               /\ loading' = loading \ {d}
               /\ read' = [read EXCEPT ![d] = {}]
               /\ failed' = failed \cup ({d} \cap loading)
               /\ mishaps' = mishaps \cup Orphaned(row)
  <2>1. PICK row \in model.sub :
               /\ model'.lists = model.lists /\ model'.sub = model.sub
               /\ model'.dirs = Without(model.dirs, {Last(row)})
               /\ calls' = <<Unloading(row)>>
               /\ mishaps' = mishaps \cup Orphaned(row)
    BY <1>4
  <2>2. row \in DOMAIN model.lists \ {Top} /\ row \in Seq(Entries) /\ Tree(model.lists)
    <3>1. row \in DOMAIN model.lists \ {Top} /\ Tree(model.lists)
      BY <1>1 DEF ModelTrue
    <3> QED  BY <3>1, RowOfTree
  <2>3. \A s \in Below(row, model.sub) : Last(s) \notin connected
    <3>1. "orphaned" \notin Orphaned(row)
      BY <2>1 DEF GoodIdle, Fine
    <3> QED  BY <3>1 DEF Orphaned
  <2>4. Last(row) \notin connected
    <3>1. IsPrefix(row, row)
      <4>1. Dummy \in Entries
        BY DirsAre
      <4> QED  BY <2>2, <4>1, RowsNest
    <3>2. row \in Below(row, model.sub)
      BY <3>1 DEF Below
    <3> QED  BY <2>3, <3>2
  <2>5. DOMAIN model'.dirs = DOMAIN model.dirs \ {Last(row)} /\ DirsMap(model')
    BY <2>1 DEF Without, DirsMap
  <2>6. connected' \ {Root} \subseteq DOMAIN model'.dirs
    BY <1>1, <1>2, <2>4, <2>5, GoodWithout
  <2>7. AtHome(model') /\ Unique(model)
    BY <1>1, <2>1, <2>2, SameListsHome, OneRowEach
  <2>8. Unloading(row) \in Calls
    BY <2>2, RowCallsMade
  <2>9. CallsNested(model', calls', connected')
    <3>1. \A s \in Below(row, model'.sub) : Last(s) \notin connected'
      BY <1>2, <2>1, <2>3
    <3>2. CallNested(model', Unloading(row), <<>>, connected')
      BY <2>1, <3>1, RowNested
    <3> QED  BY <2>1, <2>8, <3>2, NoneNested
  <2>10. Found(model', calls')
    <3>1. ASSUME NEW r \in model'.sub, Last(r) \notin DOMAIN model'.dirs
          PROVE  \E i \in DOMAIN calls' : calls'[i] = Unloading(r)
      <4>1. Last(r) \in DOMAIN model.dirs
        BY <1>1, <2>1, GoodWithout
      <4>2. Last(r) = Last(row)
        BY <2>5, <3>1, <4>1
      <4>3. r \in DOMAIN model.lists \ {Top}
        BY <1>1, <2>1 DEF ModelTrue
      <4>4. r = row
        BY <2>2, <2>7, <4>2, <4>3 DEF Unique
      <4>5. Calling(calls', Unloading(r))
        BY <2>1, <2>8, <4>4, OneCall
      <4> QED  BY <4>5 DEF Calling
    <3> QED  BY <3>1 DEF Found
  <2> QED  BY <2>5, <2>6, <2>7, <2>9, <2>10 DEF GoodNext, GoodNow
<1> QED  BY <1>1, <1>3, <1>4, UnloadTimerIs

LEMMA SortGood ==
  ASSUME GoodIdle, NEW o \in Orders, Sort(o[1], o[2])
  PROVE  GoodNext
<1>1. /\ ModelTrue(model) /\ GoodNow(model, <<>>, connected) /\ AtHome(model) /\ calls = <<>>
  BY GoodIdleIs
<1>2. /\ model'.lists = model.lists /\ model'.sub = model.sub /\ model'.dirs = model.dirs
      /\ calls' = <<Sorting(ListsToSort(model))>>
  BY <1>1, SortIs
<1>3. connected' = connected
  BY DEF Sort
<1>4. Sorting(ListsToSort(model)) \in Calls
  BY <1>1, ListsToSortIs
<1>5. CallNested(model', Sorting(ListsToSort(model)), <<>>, connected)
  BY SortNested
<1>6. AtHome(model')
  BY <1>1, <1>2, SameListsHome
<1> QED  BY <1>1, <1>2, <1>3, <1>4, <1>5, <1>6, GoodBetween DEF GoodNext

LEMMA HideHiddenGood ==
  ASSUME GoodIdle, HideHidden
  PROVE  GoodNext
<1>1. /\ ModelTrue(model) /\ GoodNow(model, <<>>, connected) /\ AtHome(model) /\ calls = <<>> /\ HeldTrue
  BY GoodIdleIs
<1>2. model' = model /\ connected' = connected /\ mishaps' = (IF {d \in Folders : held[d] > 0} = {} THEN mishaps ELSE mishaps \cup {"hidden"})
  BY DEF HideHidden
<1>3. {d \in Folders : held[d] > 0} = {}
  BY <1>2 DEF GoodIdle, Fine
<1> DEFINE a == {Root}
<1>4. PICK b \in SUBSET Folders :
            /\ b = {d \in Folders : held[d] > 0}
            /\ calls' = <<Clearing(Top)>> \o (<<ListingAgain(a)>> \o <<ListingAgain(b)>>)
  BY HideHiddenIs
<1>5. b = {}
  BY <1>3, <1>4
<1>6. \A s \in Below(Top, model.sub) : Last(s) \notin connected
  <2>1. ASSUME NEW s \in Below(Top, model.sub) PROVE Last(s) \notin connected
    <3>1. s \in DOMAIN model.lists /\ s # Top /\ Tree(model.lists)
      BY <1>1 DEF Below, ModelTrue
    <3>2. Last(s) \in Folders
      BY <3>1, ParentOfRow
    <3> QED  BY <1>1, <1>3, <3>2, DirsAre DEF HeldTrue
  <2> QED  BY <2>1
<1>7. /\ ListingAgain(a) \in Calls /\ ListingAgain(b) \in Calls /\ Clearing(Top) \in Calls
      /\ Top \in DOMAIN model.lists
  <2>1. a \in SUBSET Dirs /\ b \in SUBSET Dirs
    BY DirsAre
  <2>2. Top \in Seq(Entries) /\ Top \in DOMAIN model.lists
    BY <1>1, EmptySeq DEF Top, ModelTrue, Tree
  <2> QED  BY <2>1, <2>2, ListCallsMade, RowCallsMade
<1> DEFINE c1 == <<ListingAgain(b)>>
           c2 == <<ListingAgain(a)>> \o c1
           c3 == <<Clearing(Top)>> \o c2
<1>8. c1 \in Seq(Calls) /\ CallsNested(model, c1, connected)
  <2>1. CallNested(model, ListingAgain(b), <<>>, connected)
    BY <1>5, AgainNested
  <2> QED  BY <1>7, <2>1, NoneNested, OneCall
<1> HIDE DEF c1
<1>9. c2 \in Seq(Calls) /\ CallsNested(model, c2, connected)
  <2>1. CallNested(model, ListingAgain(a), c1, connected)
    BY <1>4, AgainNested
  <2> QED  BY <1>7, <1>8, <2>1, NestedPushed, Pushed
<1>10. \A j \in DOMAIN c2 : ~ RowCall(c2[j])
  <2>1. c1[1] = ListingAgain(b) /\ Len(c1) = 1
    BY DEF c1
  <2>2. /\ DOMAIN c2 = 1 .. Len(c1) + 1 /\ c2[1] = ListingAgain(a)
        /\ \A i \in 1 .. Len(c1) : c2[i + 1] = c1[i]
    BY <1>7, <1>8, Pushed
  <2> HIDE DEF c2
  <2>3. DOMAIN c2 = {1, 2} /\ c2[2] = ListingAgain(b)
    <3>1. c2[1 + 1] = c1[1]
      BY <2>1, <2>2
    <3>2. DOMAIN c2 = 1 .. 2 /\ c2[2] = ListingAgain(b)
      BY <2>1, <2>2, <3>1
    <3> QED  BY <3>2
  <2>4. ~ RowCall(ListingAgain(a)) /\ ~ RowCall(ListingAgain(b))
    BY ListCallsMade
  <2>5. c2[1] = ListingAgain(a)
    BY <2>2
  <2> QED  BY <2>3, <2>4, <2>5
<1> HIDE DEF c2
<1>11. CallNested(model, Clearing(Top), c2, connected)
  <2>1. /\ Clearing(Top).do = "clear" /\ Clearing(Top).row = Top
    BY RowCallsMade
  <2> QED  BY <1>6, <1>7, <1>10, <2>1 DEF CallNested
<1>12. CallsNested(model, c3, connected)
  BY <1>7, <1>9, <1>11, NestedPushed
<1>13. calls' = c3
  BY <1>4 DEF c1, c2, c3
<1> HIDE DEF c3
<1>14. Found(model, c3)
  BY <1>1, GoodWithout DEF Found
<1> QED  BY <1>1, <1>2, <1>12, <1>13, <1>14, GoodWithout DEF GoodNext, GoodNow

LEMMA ReloadGood ==
  ASSUME GoodIdle, Reload
  PROVE  GoodNext
<1>1. /\ ModelTrue(model) /\ GoodNow(model, <<>>, connected) /\ AtHome(model)
  BY GoodIdleIs
<1> DEFINE y == ListingAgain({Root})
           z == Clearing(Top)
           c == <<y>>
<1>2. model' = model /\ connected' = {Root} /\ calls' = <<z>> \o c
  BY ReloadIs DEF Reload
<1>3. ASSUME NEW s \in Below(Top, model.sub) PROVE Last(s) \notin {Root}
  <2>1. s \in DOMAIN model.lists /\ s # Top /\ Tree(model.lists)
    BY <1>1 DEF Below, ModelTrue
  <2> QED  BY <2>1, ParentOfRow, DirsAre
<1>4. Top \in Seq(Entries) /\ Top \in DOMAIN model.lists
  BY <1>1, EmptySeq DEF Top, ModelTrue, Tree
<1>5. y \in Calls /\ z \in Calls
  <2>1. {Root} \in SUBSET Dirs
    BY DirsAre
  <2> QED  BY <1>4, <2>1, ListCallsMade, RowCallsMade
<1>6. c \in Seq(Calls) /\ CallsNested(model, c, {Root})
  <2>1. CallNested(model, y, <<>>, {Root})
    BY AgainNested
  <2> QED  BY <1>5, <2>1, NoneNested, OneCall
<1>7. \A j \in DOMAIN c : ~ RowCall(c[j])
  <2>1. DOMAIN c = {1} /\ c[1] = y
    OBVIOUS
  <2>2. ~ RowCall(y)
    BY ListCallsMade
  <2> HIDE DEF y, c
  <2> QED  BY <2>1, <2>2
<1> HIDE DEF c
<1>8. CallNested(model, z, c, {Root})
  <2>1. z.do = "clear" /\ z.row = Top
    BY RowCallsMade
  <2> HIDE DEF z
  <2> QED  BY <1>3, <1>4, <1>7, <2>1 DEF CallNested
<1>9. CallsNested(model, <<z>> \o c, {Root})
  BY <1>5, <1>6, <1>8, NestedPushed
<1>10. Found(model, <<z>> \o c)
  BY <1>1, GoodWithout DEF Found
<1>11. {Root} \ {Root} \subseteq DOMAIN model.dirs
  OBVIOUS
<1> HIDE DEF z
<1> QED  BY <1>1, <1>2, <1>9, <1>10, <1>11, GoodWithout DEF GoodNext, GoodNow

LEMMA HappensGood ==
  ASSUME Always, GoodNow(model, calls, connected), Happens, Fine(mishaps')
  PROVE  GoodNext
<1>1. calls = <<>> /\ after' \in 0 .. MaxAfter
  <2>1. after \in 0 .. MaxAfter /\ MaxAfter \in Nat
    BY BoundsAssumption DEF Always, TypeOK
  <2>2. calls = <<>> /\ (after' = 0 \/ (after < MaxAfter /\ after' = after + 1))
    BY DEF Happens
  <2> QED  BY <2>1, <2>2
<1>2. GoodIdle
  BY <1>1 DEF GoodIdle, Idle
<1> QED  BY <1>2, BatchGood, ReadingEndsGood, FileAddedGood, FileDeletedGood, FileGrowsGood, ExpandGood, CollapseGood,
             UnloadTimerGood, SortGood, HideHiddenGood, ReloadGood DEF Happens

-------------------------------------------------------------------------------
(* The steps of the calls keep GoodNow.                                    *)

LEMMA GoodCallMade ==
  ASSUME NEW m, NEW c \in Seq(Calls), NEW followed, GoodNow(m, c, followed), NEW x \in Calls,
         CallNested(m, x, c, followed)
  PROVE  <<x>> \o c \in Seq(Calls) /\ <<x>> \o c # <<>> /\ GoodNow(m, <<x>> \o c, followed)
<1>1. CallsNested(m, <<x>> \o c, followed)
  BY NestedPushed DEF GoodNow
<1>2. Found(m, <<x>> \o c)
  <2>1. \A call : Calling(c, call) => Calling(<<x>> \o c, call)
    BY CallingPushed
  <2> QED  BY <2>1 DEF GoodNow, Found, Calling
<1>3. <<x>> \o c \in Seq(Calls) /\ <<x>> \o c # <<>>
  BY Pushed
<1> QED  BY <1>1, <1>2, <1>3 DEF GoodNow

LEMMA GoodCallReturned ==
  ASSUME NEW m, NEW c \in Seq(Calls), c # <<>>, NEW followed, GoodNow(m, c, followed), Head(c).do # "unload"
  PROVE  Tail(c) \in Seq(Calls) /\ GoodNow(m, Tail(c), followed)
<1>1. CallsNested(m, Tail(c), followed) /\ Tail(c) \in Seq(Calls)
  BY NestedPopped, Popped DEF GoodNow
<1>2. Found(m, Tail(c))
  <2>1. \A row : Calling(c, Unloading(row)) => Calling(Tail(c), Unloading(row))
    <3> TAKE row
    <3>1. Unloading(row).do = "unload"
      BY RowCallsMade
    <3> QED  BY <3>1, CallingPopped
  <2> QED  BY <2>1 DEF GoodNow, Found, Calling
<1> QED  BY <1>1, <1>2 DEF GoodNow

\* The lists change under the calls.
LEMMA NestedStays ==
  ASSUME NEW m, NEW c, NEW followed, CallsNested(m, c, followed), NEW n, n.sub \subseteq m.sub,
         DOMAIN m.dirs \subseteq DOMAIN n.dirs \/ \A i \in DOMAIN c : c[i].do # "list",
         \A i \in DOMAIN c : /\ c[i].do = "remove" => IsRow(n, c[i].row)
                             /\ c[i].do = "clear" => c[i].row \in DOMAIN n.lists
                             /\ c[i].do = "unload" => c[i].row \in n.sub
  PROVE  CallsNested(n, c, followed)
<1>1. \A row : Below(row, n.sub) \subseteq Below(row, m.sub)
  BY DEF Below
<1> QED  BY <1>1 DEF CallsNested

\* The child that fm_list_model_remove is to remove is found by its folder.
LEMMA ChildIsFound ==
  ASSUME NEW m, ModelTrue(m), NEW c \in Seq(Calls), c # <<>>, NEW followed, GoodNow(m, c, followed),
         Head(c).do = "remove", NEW row \in DOMAIN m.lists, Head(c).row = row,
         m.lists[row] # <<>>, Head(m.lists[row]) # Dummy
  PROVE  /\ ChildToRemove(m, row) = Append(row, Head(m.lists[row]))
         /\ ChildToRemove(m, row) # NoRow
<1> DEFINE f == Head(m.lists[row])
           h == Head(c)
<1>1. f \in ToSet(m.lists[row]) /\ f \in Files /\ f # Dummy
  BY HeadOfList
<1>2. CallsNested(m, c, followed) /\ AtHome(m) /\ Found(m, c) /\ Tree(m.lists)
  BY DEF GoodNow, ModelTrue
<1>3. h = c[1] /\ 1 \in DOMAIN c /\ DOMAIN c = 1 .. Len(c) /\ RowCall(h)
  BY Popped DEF RowCall
<1> HIDE DEF f, h
<1>4. row # Top
  BY <1>2, <1>3 DEF CallsNested, IsRow, h
<1>5. row \in m.sub
  BY <1>1, <1>4 DEF ModelTrue
<1>6. ~ \E i \in DOMAIN c : c[i] = Unloading(row)
  <2>1. SUFFICES ASSUME NEW i \in DOMAIN c, c[i] = Unloading(row) PROVE FALSE
    OBVIOUS
  <2>2. c[i].do = "unload" /\ c[i].row = row /\ RowCall(c[i])
    BY <2>1, RowCallsMade
  <2>3. i # 1
    BY <1>3, <2>2 DEF h
  <2>4. 1 < i
    BY <1>3, <2>3
  <2> QED  BY <1>2, <1>3, <2>2, <2>4 DEF CallsNested, h
<1>7. Last(row) \in DOMAIN m.dirs
  BY <1>2, <1>5, <1>6 DEF Found
<1>8. m.dirs[Last(row)] \in m.sub /\ Last(m.dirs[Last(row)]) = Last(row) /\ m.sub \subseteq DOMAIN m.lists \ {Top}
  BY <1>7 DEF ModelTrue
<1>9. m.dirs[Last(row)] = row
  BY <1>2, <1>5, <1>8, OneRowEach DEF Unique
<1>10. ParentOf(m, Last(row)) = row
  BY <1>7, <1>9 DEF ParentOf
<1>11. /\ LookupFile(m, f, Last(row)) = IF f \in m.rev[row] THEN Append(row, f) ELSE NoRow
       /\ Append(row, f) # NoRow
       /\ f \in m.rev[row] <=> f \in ToSet(m.lists[row])
  BY <1>1, <1>10, LookupIs
<1>12. ChildToRemove(m, row) = LookupFile(m, f, Last(row))
  BY <1>5 DEF ChildToRemove, f
<1> QED  BY <1>1, <1>11, <1>12 DEF f

GoodBusy == Busy /\ GoodNow(model, calls, connected)

LEMMA GoodBusyIs ==
  ASSUME GoodBusy
  PROVE  /\ ModelTrue(model) /\ calls \in Seq(Calls) /\ calls # <<>>
         /\ Tail(calls) \in Seq(Calls) /\ calls = <<Call>> \o Tail(calls)
         /\ AtHome(model) /\ Unique(model) /\ DirsMap(model)
         /\ CallsNested(model, Tail(calls), connected) /\ CallNested(model, Call, Tail(calls), connected)
         /\ CallTrue(model, Call, Tail(calls)) /\ NoneListing(Tail(calls))
         /\ connected' = connected /\ has' = has /\ HasTrue /\ HeldTrue /\ OthersOK
         /\ Call \in Calls /\ Call = Head(calls)
         /\ \A j \in DOMAIN Tail(calls) : Tail(calls)[j] \in Calls
<1>1. /\ ModelTrue(model) /\ calls \in Seq(Calls) /\ Call \in Calls /\ Tail(calls) \in Seq(Calls)
      /\ calls = <<Call>> \o Tail(calls)
      /\ NoneListing(Tail(calls)) /\ CallTrue(model, Call, Tail(calls))
  BY BusyIs DEF GoodBusy
<1>2. calls # <<>> /\ connected' = connected /\ has' = has /\ HasTrue /\ HeldTrue /\ OthersOK
  BY AlwaysIs DEF GoodBusy, Busy, Others
<1>3. AtHome(model) /\ CallsNested(model, calls, connected) /\ DirsMap(model)
  BY DEF GoodBusy, GoodNow
<1>4. Unique(model)
  BY <1>1, <1>3, OneRowEach DEF ModelTrue
<1>5. CallsNested(model, Tail(calls), connected) /\ CallNested(model, Call, Tail(calls), connected)
  BY <1>1, <1>2, <1>3, NestedPopped DEF Call
<1>6. \A j \in DOMAIN Tail(calls) : Tail(calls)[j] \in Calls
  <2>1. DOMAIN Tail(calls) = 1 .. Len(Tail(calls))
    BY <1>1, LenProperties
  <2> QED  BY <1>1, <2>1, ElementOfSeq
<1> QED  BY <1>1, <1>2, <1>3, <1>4, <1>5, <1>6 DEF Call

RowOfCall == /\ Call.row \in Seq(Entries)
             /\ \A j \in DOMAIN Tail(calls) : RowCall(Tail(calls)[j]) =>
                   Tail(calls)[j].row \in Seq(Entries) /\ IsPrefix(Tail(calls)[j].row, Call.row)

LEMMA RowOfCallIs ==
  ASSUME GoodBusy, RowCall(Call)
  PROVE  RowOfCall
<1>1. /\ CallNested(model, Call, Tail(calls), connected) /\ Call \in Calls
      /\ \A j \in DOMAIN Tail(calls) : Tail(calls)[j] \in Calls
  BY GoodBusyIs
<1>2. Call.row \in Seq(Entries)
  BY <1>1, CallIs
<1>3. ASSUME NEW j \in DOMAIN Tail(calls), RowCall(Tail(calls)[j])
      PROVE  Tail(calls)[j].row \in Seq(Entries) /\ IsPrefix(Tail(calls)[j].row, Call.row)
  <2>1. Tail(calls)[j].row \in Seq(Entries)
    BY <1>1, <1>3, CallIs
  <2> QED  BY <1>1, <1>3, <2>1 DEF CallNested
<1> QED  BY <1>2, <1>3 DEF RowOfCall

LEMMA RemoveChildGood ==
  ASSUME GoodBusy, RemoveChild
  PROVE  GoodNext
<1> DEFINE row == Call.row
<1>1. /\ ModelTrue(model) /\ calls \in Seq(Calls) /\ calls # <<>> /\ Call = Head(calls)
      /\ connected' = connected /\ Tail(calls) \in Seq(Calls) /\ AtHome(model)
      /\ GoodNow(model, calls, connected) /\ CallsNested(model, calls, connected)
  BY GoodBusyIs DEF GoodBusy, GoodNow
<1>2. Call.do = "remove" /\ row \in DOMAIN model.lists /\ model.lists[row] # <<>> /\ RowCall(Call)
  BY DEF RemoveChild, HasChild, RowCall
<1>3. CASE Head(model.lists[row]) = Dummy
  <2>1. model' = RemoveDummy(model, row) /\ calls' = calls
    BY <1>3 DEF RemoveChild
  <2>2. Emptied(model, model', row)
    BY <1>1, <1>2, <1>3, <2>1, DummyIsRemoved
  <2> HIDE DEF row
  <2>3. /\ DOMAIN model'.lists = DOMAIN model.lists /\ model'.lists[row] = <<>>
        /\ model.lists[row] = <<Dummy>> /\ row # Top
        /\ \A r \in DOMAIN model.lists \ {row} : model'.lists[r] = model.lists[r]
        /\ model'.sub = model.sub /\ model'.rev = model.rev /\ model'.dirs = model.dirs
    BY <2>2 DEF Emptied
  <2>4. AtHome(model')
    <3>1. ToSet(<<>>) = {}
      BY DEF ToSet
    <3>2. ASSUME NEW r \in DOMAIN model.lists PROVE \A g \in ToSet(model'.lists[r]) \ {Dummy} : Home[g] = FolderOf(r)
      <4>1. CASE r = row
        BY <2>3, <3>1, <4>1
      <4>2. CASE r # row
        BY <1>1, <2>3, <4>2 DEF AtHome
      <4> QED  BY <4>1, <4>2
    <3> QED  BY <2>3, <3>2 DEF AtHome
  <2>5. ASSUME NEW i \in DOMAIN calls, calls[i].do = "remove" PROVE IsRow(model', calls[i].row)
    <3> DEFINE r == calls[i].row
    <3>1. IsRow(model, r) /\ r \in Seq(Entries)
      <4>1. calls[i] \in Calls
        <5>1. DOMAIN calls = 1 .. Len(calls)
          BY <1>1, LenProperties
        <5> QED  BY <1>1, <5>1, ElementOfSeq
      <4>2. RowCall(calls[i])
        BY <2>5 DEF RowCall
      <4> QED  BY <1>1, <2>5, <4>1, <4>2, CallIs DEF CallsNested
    <3>2. Front(r) # row
      <4>1. row \in Seq(Entries) /\ Dummy \in Entries
        BY <1>1, <1>2, ModelTypes, DirsAre
      <4>2. CASE i = 1
        <5>1. r = row
          BY <1>1, <4>2, Popped DEF row
        <5>2. IsPrefix(row, row)
          BY <4>1, RowsNest
        <5> HIDE DEF r
        <5>3. row # Top => Front(row) # row
          BY <4>1, <5>2, RowsNest
        <5> QED  BY <2>3, <5>1, <5>3
      <4>3. CASE i # 1
        <5>1. i - 1 \in DOMAIN Tail(calls) /\ Tail(calls)[i - 1] = calls[i]
          <6>1. /\ DOMAIN calls = 1 .. Len(calls) /\ DOMAIN Tail(calls) = 1 .. Len(calls) - 1
                /\ \A k \in 1 .. Len(calls) - 1 : Tail(calls)[k] = calls[k + 1]
                /\ Len(calls) \in Nat \ {0}
            BY <1>1, Popped
          <6>2. i - 1 \in 1 .. Len(calls) - 1 /\ (i - 1) + 1 = i
            BY <4>3, <6>1
          <6> QED  BY <6>1, <6>2
        <5>2. RowCall(calls[i])
          BY <2>5 DEF RowCall
        <5>3. r \in Seq(Entries) /\ IsPrefix(r, row)
          BY <1>2, <5>1, <5>2, RowOfCallIs DEF RowOfCall, row
        <5>4. r # Top
          BY <3>1 DEF IsRow
        <5> HIDE DEF r
        <5> QED  BY <4>1, <5>3, <5>4, RowsNest
      <4> QED  BY <4>2, <4>3
    <3> HIDE DEF r
    <3>3. IsRow(model', r)
      BY <2>3, <3>1, <3>2 DEF IsRow
    <3> QED  BY <3>3 DEF r
  <2>6. CallsNested(model', calls, connected)
    <3>1. \A i \in DOMAIN calls : /\ calls[i].do = "remove" => IsRow(model', calls[i].row)
                                  /\ calls[i].do = "clear" => calls[i].row \in DOMAIN model'.lists
                                  /\ calls[i].do = "unload" => calls[i].row \in model'.sub
      BY <1>1, <2>3, <2>5 DEF CallsNested
    <3> QED  BY <1>1, <2>3, <3>1, NestedStays
  <2>7. Found(model', calls) /\ DirsMap(model') /\ connected \ {Root} \subseteq DOMAIN model'.dirs
    BY <1>1, <2>3 DEF GoodNow, Found, DirsMap
  <2> QED  BY <1>1, <2>1, <2>4, <2>6, <2>7 DEF GoodNext, GoodNow
<1>4. CASE Head(model.lists[row]) # Dummy
  <2> DEFINE f == Head(model.lists[row])
  <2>1. model' = model /\ calls' = <<Removing(ChildToRemove(model, row))>> \o calls
    BY <1>4 DEF RemoveChild, MakeCalls
  <2>2. ChildToRemove(model, row) = Append(row, f)
    BY <1>1, <1>2, <1>4, ChildIsFound
  <2>3. f \in ToSet(model.lists[row]) /\ Append(row, f) \in Seq(Entries)
    BY <1>1, <1>2, HeadOfList
  <2>4. Call.row = row
    OBVIOUS
  <2> HIDE DEF f, row
  <2>5. CallNested(model, Removing(Append(row, f)), calls, connected)
    BY <1>1, <1>2, <2>3, <2>4, ChildNested
  <2>6. Removing(Append(row, f)) \in Calls
    BY <2>3, RowCallsMade
  <2>7. GoodNow(model, <<Removing(Append(row, f))>> \o calls, connected)
    BY <1>1, <2>5, <2>6, GoodCallMade
  <2> QED  BY <1>1, <2>1, <2>2, <2>7 DEF GoodNext
<1> QED  BY <1>3, <1>4

LEMMA RemoveItselfGood ==
  ASSUME GoodBusy, RemoveItself
  PROVE  GoodNext
<1> DEFINE row == Call.row
           parent == Front(Call.row)
           f == Last(Call.row)
           t == Tail(calls)
<1>1. /\ ModelTrue(model) /\ calls \in Seq(Calls) /\ calls # <<>> /\ Call = Head(calls)
      /\ connected' = connected /\ t \in Seq(Calls) /\ AtHome(model) /\ Unique(model) /\ DirsMap(model)
      /\ CallsNested(model, t, connected) /\ CallNested(model, Call, t, connected)
      /\ Found(model, calls) /\ connected \ {Root} \subseteq DOMAIN model.dirs
      /\ CallTrue(model, Call, t) /\ NoneListing(t)
  BY GoodBusyIs DEF GoodBusy, GoodNow
<1>2. /\ Removed(model, model', parent, f)
      /\ parent \in DOMAIN model.lists /\ f \in ToSet(model.lists[parent])
      /\ Append(parent, f) = row /\ calls' = t
      /\ Call.row \in DOMAIN model.lists => model.lists[Call.row] = <<>>
  BY RemoveItselfIs DEF GoodBusy
<1>3. Call.do = "remove" /\ RowCall(Call)
  BY DEF RemoveItself, RowCall
<1>4. RowOfCall
  BY <1>3, RowOfCallIs
<1>5. \A j \in DOMAIN t : RowCall(t[j]) => row # t[j].row
  BY <1>1, <1>3 DEF CallNested
<1>6. \A j \in DOMAIN t : RowCall(t[j]) => t[j].row \in Seq(Entries) /\ IsPrefix(t[j].row, row)
  BY <1>4 DEF RowOfCall
<1>7. \A s \in Below(row, model.sub) : Last(s) \notin connected
  BY <1>1, <1>3 DEF CallNested
<1>8. row = Call.row
  OBVIOUS
<1> HIDE DEF row, parent, f, t
<1>9. /\ DOMAIN model'.lists = DOMAIN model.lists \ {row} /\ row # parent /\ row # Top
      /\ ToSet(model'.lists[parent]) \ {Dummy} = ToSet(model.lists[parent]) \ {Dummy, f}
      /\ \A r \in DOMAIN model.lists \ {parent, row} : model'.lists[r] = model.lists[r]
      /\ model'.sub = model.sub \ {row}
      /\ model'.dirs = (IF row \in model.sub THEN Without(model.dirs, {f}) ELSE model.dirs)
  BY <1>2 DEF Removed
<1>10. /\ parent \in Seq(Entries) /\ f \in Entries /\ row \in Seq(Entries)
       /\ Front(row) = parent /\ Last(row) = f
  <2>1. Tree(model.lists)
    BY <1>1 DEF ModelTrue
  <2>2. parent \in Seq(Entries) /\ f \in Entries /\ row \in Seq(Entries)
    BY <1>2, <2>1, RowOfTree, ChildIsOnTree
  <2> QED  BY <1>2, <2>2, AppendFront
<1>11. AtHome(model')
  <2>1. ASSUME NEW r \in DOMAIN model'.lists, NEW g \in ToSet(model'.lists[r]) \ {Dummy} PROVE Home[g] = FolderOf(r)
    <3>1. CASE r = parent
      BY <1>1, <1>2, <1>9, <2>1, <3>1 DEF AtHome
    <3>2. CASE r # parent
      BY <1>1, <1>9, <2>1, <3>2 DEF AtHome
    <3> QED  BY <3>1, <3>2
  <2> QED  BY <2>1 DEF AtHome
<1>12. \A a \in Seq(Entries) :
         IsPrefix(a, row) /\ a # row /\ a # Top => Front(a) # parent /\ Front(a) # row
  <2> TAKE a \in Seq(Entries)
  <2>1. IsPrefix(a, row) /\ a # row => IsPrefix(a, parent)
    BY <1>2, <1>10, RowsNest
  <2>2. IsPrefix(a, parent) /\ a # Top => Front(a) # parent /\ Front(a) # row
    BY <1>2, <1>10, RowsNest
  <2> QED  BY <2>1, <2>2
<1>13. CallsNested(model', t, connected)
  <2>1. ASSUME NEW i \in DOMAIN t
        PROVE  /\ t[i].do = "remove" => IsRow(model', t[i].row)
               /\ t[i].do = "clear" => t[i].row \in DOMAIN model'.lists
               /\ t[i].do = "unload" => t[i].row \in model'.sub
    <3> DEFINE r == t[i].row
    <3>1. RowCall(t[i]) => r \in Seq(Entries) /\ IsPrefix(r, row) /\ r # row
      BY <1>5, <1>6
    <3>2. /\ t[i].do = "remove" => IsRow(model, r)
          /\ t[i].do = "clear" => r \in DOMAIN model.lists
          /\ t[i].do = "unload" => r \in model.sub
      BY <1>1 DEF CallsNested
    <3>3. t[i].do \in {"remove", "clear", "unload"} => RowCall(t[i])
      BY DEF RowCall
    <3> HIDE DEF r
    <3>4. ASSUME t[i].do = "remove" PROVE IsRow(model', r)
      <4>1. r # Top /\ Front(r) \in DOMAIN model.lists /\ Last(r) \in ToSet(model.lists[Front(r)])
        BY <3>2, <3>4 DEF IsRow
      <4>2. Front(r) # parent /\ Front(r) # row
        BY <1>12, <3>1, <3>3, <3>4, <4>1
      <4> QED  BY <1>9, <4>1, <4>2 DEF IsRow
    <3>5. /\ t[i].do = "clear" => r \in DOMAIN model'.lists
          /\ t[i].do = "unload" => r \in model'.sub
      BY <1>9, <3>1, <3>2, <3>3
    <3> QED  BY <3>4, <3>5 DEF r
  <2>2. \A i \in DOMAIN t : t[i].do # "list"
    BY <1>1 DEF NoneListing
  <2>3. model'.sub \subseteq model.sub
    BY <1>9
  <2> QED  BY <1>1, <2>1, <2>2, <2>3, NestedStays
<1>14. DirsMap(model') /\ DOMAIN model'.dirs = IF row \in model.sub THEN DOMAIN model.dirs \ {f} ELSE DOMAIN model.dirs
  BY <1>1, <1>9 DEF DirsMap, Without
<1>15. Found(model', t)
  <2>1. ASSUME NEW r \in model'.sub, Last(r) \notin DOMAIN model'.dirs
        PROVE  \E i \in DOMAIN t : t[i] = Unloading(r)
    <3>1. r \in model.sub /\ r # row /\ r \in DOMAIN model.lists \ {Top}
      BY <1>1, <1>9, <2>1 DEF ModelTrue
    <3>2. Last(r) \notin DOMAIN model.dirs
      <4>1. row \in model.sub => row \in DOMAIN model.lists \ {Top}
        BY <1>1 DEF ModelTrue
      <4>2. row \in model.sub => Last(r) # f
        BY <1>1, <1>10, <3>1, <4>1 DEF Unique
      <4> QED  BY <1>14, <2>1, <4>2
    <3>3. Calling(calls, Unloading(r))
      BY <1>1, <3>1, <3>2 DEF Found, Calling
    <3>4. Unloading(r).do = "unload"
      BY RowCallsMade
    <3>5. Calling(t, Unloading(r))
      BY <1>1, <1>3, <3>3, <3>4, CallingPopped DEF t
    <3> QED  BY <3>5 DEF Calling
  <2> QED  BY <2>1 DEF Found
<1>16. connected \ {Root} \subseteq DOMAIN model'.dirs
  <2>1. row \in model.sub => f \notin connected
    <3>1. IsPrefix(row, row)
      BY <1>10, RowsNest
    <3>2. row \in model.sub => row \in Below(row, model.sub)
      BY <3>1 DEF Below
    <3> QED  BY <1>7, <1>10, <3>2
  <2> QED  BY <1>1, <1>14, <2>1
<1> QED  BY <1>1, <1>2, <1>11, <1>13, <1>14, <1>15, <1>16 DEF GoodNext, GoodNow

LEMMA ClearDirectoryGood ==
  ASSUME GoodBusy, ClearDirectory
  PROVE  GoodNext
<1> DEFINE row == Call.row
           first == Append(row, Head(model.lists[row]))
<1>1. /\ ModelTrue(model) /\ calls \in Seq(Calls) /\ calls # <<>> /\ Call = Head(calls)
      /\ connected' = connected /\ GoodNow(model, calls, connected)
      /\ CallsNested(model, calls, connected)
  BY GoodBusyIs DEF GoodBusy, GoodNow
<1>2. Call.do = "clear" /\ row \in DOMAIN model.lists /\ model' = model /\ RowCall(Call)
  BY DEF ClearDirectory, RowCall
<1>3. CASE ~ HasChild(row)
  <2>1. calls' = Tail(calls)
    BY <1>3 DEF ClearDirectory, Return
  <2> QED  BY <1>1, <1>2, <2>1, GoodCallReturned DEF GoodNext
<1>4. CASE HasChild(row)
  <2>1. calls' = ((IF first \in DOMAIN model.lists THEN <<Clearing(first)>> ELSE <<>>)
                          \o <<Removing(first)>>) \o calls
    BY <1>4 DEF ClearDirectory, MakeCalls
  <2>2. model.lists[row] # <<>>
    BY <1>4 DEF HasChild
  <2> DEFINE g == Head(model.lists[row])
  <2>3. g \in ToSet(model.lists[row]) /\ first \in Seq(Entries) /\ first = Append(row, g)
    BY <1>1, <1>2, <2>2, HeadOfList
  <2>4. Call.row = row
    OBVIOUS
  <2> HIDE DEF g, first, row
  <2>5. /\ CallNested(model, Removing(first), calls, connected)
        /\ first \in DOMAIN model.lists => CallNested(model, Clearing(first), <<Removing(first)>> \o calls, connected)
    BY <1>1, <1>2, <2>3, <2>4, ChildNested
  <2>6. Removing(first) \in Calls /\ Clearing(first) \in Calls
    BY <2>3, RowCallsMade
  <2> DEFINE c == <<Removing(first)>> \o calls
  <2>7. c \in Seq(Calls) /\ GoodNow(model, c, connected)
    BY <1>1, <2>5, <2>6, GoodCallMade
  <2>8. CASE first \in DOMAIN model.lists
    <3>1. calls' = <<Clearing(first)>> \o c
      <4>1. <<Clearing(first)>> \in Seq(Calls) /\ <<Removing(first)>> \in Seq(Calls)
        BY <2>6, OneCall
      <4> QED  BY <1>1, <2>1, <2>8, <4>1, ConcatAssociative
    <3>2. CallNested(model, Clearing(first), c, connected)
      BY <2>5, <2>8
    <3> HIDE DEF c
    <3> QED  BY <1>1, <1>2, <2>6, <2>7, <3>1, <3>2, GoodCallMade DEF GoodNext
  <2>9. CASE first \notin DOMAIN model.lists
    <3>1. calls' = c
      <4>1. <<Removing(first)>> \in Seq(Calls)
        BY <2>6, OneCall
      <4> QED  BY <2>1, <2>9, <4>1, ConcatEmptySeq
    <3> QED  BY <1>1, <1>2, <2>7, <3>1 DEF GoodNext
  <2> QED  BY <2>8, <2>9
<1> QED  BY <1>3, <1>4

LEMMA UnloadChildGood ==
  ASSUME GoodBusy, UnloadChild
  PROVE  GoodNext
<1> DEFINE row == Call.row
           first == Append(row, Head(model.lists[row]))
<1>1. /\ ModelTrue(model) /\ calls \in Seq(Calls) /\ calls # <<>> /\ Call = Head(calls) /\ Call \in Calls
      /\ connected' = connected /\ GoodNow(model, calls, connected) /\ AtHome(model) /\ DirsMap(model)
      /\ Found(model, calls) /\ connected \ {Root} \subseteq DOMAIN model.dirs
      /\ CallsNested(model, calls, connected) /\ CallNested(model, Call, Tail(calls), connected)
      /\ CallTrue(model, Call, Tail(calls)) /\ calls = <<Call>> \o Tail(calls)
  BY GoodBusyIs DEF GoodBusy, GoodNow
<1>2. Call.do = "unload" /\ row \in model.sub /\ row \in DOMAIN model.lists /\ RowCall(Call)
  BY <1>1 DEF UnloadChild, RowCall, ModelTrue
<1>3. CASE HasChild(row) /\ Head(model.lists[row]) # Dummy
  <2>1. calls' = <<Removing(first)>> \o calls /\ model' = model
    BY <1>3 DEF UnloadChild, MakeCalls
  <2>2. model.lists[row] # <<>>
    BY <1>3 DEF HasChild
  <2> DEFINE g == Head(model.lists[row])
  <2>3. g \in ToSet(model.lists[row]) /\ first \in Seq(Entries) /\ first = Append(row, g)
    BY <1>1, <1>2, <2>2, HeadOfList
  <2>4. Call.row = row
    OBVIOUS
  <2> HIDE DEF g, first, row
  <2>5. CallNested(model, Removing(first), calls, connected)
    BY <1>1, <1>2, <2>3, <2>4, ChildNested
  <2>6. Removing(first) \in Calls
    BY <2>3, RowCallsMade
  <2> QED  BY <1>1, <2>1, <2>5, <2>6, GoodCallMade DEF GoodNext
<1>4. CASE ~ (HasChild(row) /\ Head(model.lists[row]) # Dummy)
  <2>1. model.rev[row] = {} /\ model' = Unloaded(model, row) /\ calls' = Tail(calls)
    BY <1>4 DEF UnloadChild, Return
  <2>2. Last(row) \notin DOMAIN model.dirs
    BY <1>1, <1>2 DEF CallTrue
  <2>3. /\ model'.lists = model.lists /\ model'.sub = model.sub \ {row} /\ model'.dirs = model.dirs
    BY <1>1, <1>2, <2>1, <2>2, SubdirectoryUnloaded, SMTT(40)
  <2>4. Tail(calls) = <<>>
    BY <1>1, <1>2 DEF CallNested
  <2>5. calls = <<Unloading(row)>>
    <3>1. <<Call>> \in Seq(Calls)
      BY <1>1, OneCall
    <3>2. calls = <<Call>>
      BY <1>1, <2>4, <3>1, ConcatEmptySeq
    <3>3. Call = Unloading(row)
      BY <1>1, <1>2, CallIs
    <3> QED  BY <3>2, <3>3
  <2>6. Unloading(row) \in Calls
    BY <1>1, <1>2, CallIs
  <2>7. Found(model', calls')
    <3>1. ASSUME NEW r \in model'.sub PROVE Last(r) \in DOMAIN model'.dirs
      <4>1. r \in model.sub /\ r # row
        BY <2>3, <3>1
      <4>2. ~ Calling(calls, Unloading(r))
        <5>1. Unloading(r) # Unloading(row)
          BY <4>1, RowCallsMade
        <5> QED  BY <2>5, <2>6, <5>1, OneCall
      <4> QED  BY <1>1, <2>3, <4>1, <4>2 DEF Found, Calling
    <3> QED  BY <3>1 DEF Found
  <2>8. AtHome(model') /\ DirsMap(model')
    BY <1>1, <2>3, SameListsHome DEF DirsMap
  <2>9. CallsNested(model', calls', connected)
    BY <2>1, <2>4, NoneNested
  <2> QED  BY <1>1, <2>3, <2>7, <2>8, <2>9 DEF GoodNext, GoodNow
<1> QED  BY <1>3, <1>4

\* What is left to do when files were listed or sorted.
LEMMA GoodRest ==
  ASSUME GoodBusy, Call.do \in {"list", "sort", "again"},
         NEW n, AtHome(n), n.sub = model.sub, n.dirs = model.dirs
  PROVE  Tail(calls) \in Seq(Calls) /\ GoodNow(n, Tail(calls), connected)
<1> DEFINE t == Tail(calls)
<1>1. /\ calls \in Seq(Calls) /\ calls # <<>> /\ Call = Head(calls) /\ GoodNow(model, calls, connected)
  BY GoodBusyIs DEF GoodBusy
<1>2. t \in Seq(Calls) /\ GoodNow(model, t, connected)
  BY <1>1, GoodCallReturned
<1>3. \A j \in DOMAIN t : t[j].do = "again"
  BY ListingIs DEF GoodBusy
<1> HIDE DEF t
<1>4. CallsNested(n, t, connected)
  <2>1. CallsNested(model, t, connected) /\ n.sub \subseteq model.sub /\ DOMAIN model.dirs \subseteq DOMAIN n.dirs
    BY <1>2 DEF GoodNow
  <2> QED  BY <1>3, <2>1, NestedStays
<1>5. Found(n, t) /\ DirsMap(n) /\ connected \ {Root} \subseteq DOMAIN n.dirs
  BY <1>2 DEF GoodNow, Found, DirsMap
<1> QED  BY <1>2, <1>4, <1>5 DEF GoodNow, t

LEMMA ListFileGood ==
  ASSUME GoodBusy, ListFile
  PROVE  GoodNext
<1>1. /\ ModelTrue(model) /\ AtHome(model) /\ connected' = connected
      /\ CallNested(model, Call, Tail(calls), connected)
  BY GoodBusyIs
<1>2. PICK f \in Call.files :
            /\ model' = AddFile(model, f, Call.dir) /\ f \in Files
            /\ calls' = <<Listing(Call.dir, Call.files \ {f}, Call.last)>> \o Tail(calls)
            /\ Call.dir \in Dirs /\ Call.files \subseteq Files /\ Call.last \in BOOLEAN
  BY ListFileIs DEF GoodBusy
<1>3. Call.do = "list"
  BY DEF ListFile
<1>4. /\ Call.dir = Root \/ Call.dir \in DOMAIN model.dirs
      /\ Call.dir \in connected /\ \A g \in Call.files : Home[g] = Call.dir
  BY <1>1, <1>3 DEF CallNested
<1>5. AtHome(model') /\ model'.sub = model.sub /\ model'.dirs = model.dirs
  BY <1>1, <1>2, <1>4, AddKeepsHome
<1>6. Tail(calls) \in Seq(Calls) /\ GoodNow(model', Tail(calls), connected)
  BY <1>3, <1>5, GoodRest
<1> DEFINE s == Call.files \ {f}
<1>7. s \in SUBSET Files /\ \A g \in s : Home[g] = Call.dir
  BY <1>2, <1>4
<1> HIDE DEF s
<1> DEFINE x == Listing(Call.dir, s, Call.last)
<1>8. x \in Calls /\ x.do = "list" /\ x.dir = Call.dir /\ x.files = s
  BY <1>2, <1>7 DEF Listing, Calls
<1>9. calls' = <<x>> \o Tail(calls)
  BY <1>2 DEF s
<1> HIDE DEF x
<1>10. CallNested(model', x, Tail(calls), connected)
  BY <1>4, <1>5, <1>7, <1>8, ListNested
<1>11. GoodNow(model', <<x>> \o Tail(calls), connected)
  BY <1>6, <1>8, <1>10, GoodCallMade
<1> QED  BY <1>1, <1>9, <1>11 DEF GoodNext

LEMMA ListDoneGood ==
  ASSUME GoodBusy, ListDone
  PROVE  GoodNext
<1>1. /\ ModelTrue(model) /\ AtHome(model) /\ connected' = connected
  BY GoodBusyIs
<1>2. /\ calls' = <<Sorting(ListsToSort(model))>> \o Tail(calls) \/ calls' = Tail(calls)
      /\ model' = model /\ Call.do = "list"
  BY DEF ListDone
<1>3. Tail(calls) \in Seq(Calls) /\ GoodNow(model, Tail(calls), connected)
  BY <1>1, <1>2, GoodRest
<1>4. Sorting(ListsToSort(model)) \in Calls
  BY <1>1, ListsToSortIs
<1>5. CallNested(model, Sorting(ListsToSort(model)), Tail(calls), connected)
  BY SortNested
<1>6. GoodNow(model, <<Sorting(ListsToSort(model))>> \o Tail(calls), connected)
  BY <1>3, <1>4, <1>5, GoodCallMade
<1> QED  BY <1>1, <1>2, <1>3, <1>6 DEF GoodNext

LEMMA ListNextIs ==
  ASSUME Busy, ListNext
  PROVE  /\ model' = model /\ Call.dirs \subseteq Dirs /\ Call = ListingAgain(Call.dirs)
         /\ \/ Call.dirs = {} /\ calls' = Tail(calls) /\ UNCHANGED reading
            \/ \E d \in Call.dirs :
                  /\ ListingAgain(Call.dirs \ {d}) \in Calls
                  /\ has[d] \in SUBSET Files
                  /\ Load(d, <<ListingAgain(Call.dirs \ {d})>> \o Tail(calls))
<1>1. Call \in Calls /\ has \in [Dirs -> SUBSET Files]
  BY BusyIs, AlwaysIs DEF Busy, OthersOK
<1>2. model' = model /\ Call.do = "again"
  BY DEF ListNext
<1>3. Call.dirs \subseteq Dirs /\ Call = ListingAgain(Call.dirs)
  BY <1>1, <1>2, CallIs
<1>4. CASE Call.dirs = {}
  BY <1>2, <1>3, <1>4 DEF ListNext, Return
<1>5. CASE Call.dirs # {}
  <2>1. PICK d \in Call.dirs : Load(d, <<ListingAgain(Call.dirs \ {d})>> \o Tail(calls))
    BY <1>5 DEF ListNext
  <2> DEFINE s == Call.dirs \ {d}
  <2>2. s \in SUBSET Dirs
    BY <1>3
  <2> HIDE DEF s
  <2>3. ListingAgain(s) \in Calls
    BY <2>2, ListCallsMade
  <2> QED  BY <1>1, <1>2, <1>3, <2>1, <2>3 DEF s
<1> QED  BY <1>4, <1>5

LEMMA ListNextGood ==
  ASSUME GoodBusy, ListNext
  PROVE  GoodNext
<1>1. /\ ModelTrue(model) /\ AtHome(model) /\ connected' = connected /\ HasTrue /\ HeldTrue /\ OthersOK
      /\ CallNested(model, Call, Tail(calls), connected)
  BY GoodBusyIs
<1>2. Call.do = "again"
  BY DEF ListNext
<1>3. Tail(calls) \in Seq(Calls) /\ GoodNow(model, Tail(calls), connected)
  BY <1>1, <1>2, GoodRest
<1>4. Call.dirs \subseteq {Root}
  BY <1>1, <1>2 DEF CallNested
<1>5. model' = model
  BY DEF ListNext
<1>6. CASE calls' = Tail(calls)
  BY <1>1, <1>3, <1>5, <1>6 DEF GoodNext
<1>7. ASSUME NEW d \in Call.dirs,
             ListingAgain(Call.dirs \ {d}) \in Calls, has[d] \in SUBSET Files,
             Load(d, <<ListingAgain(Call.dirs \ {d})>> \o Tail(calls))
      PROVE  GoodNext
  <2> DEFINE s == Call.dirs \ {d}
             c == <<ListingAgain(s)>> \o Tail(calls)
             x == Listing(d, has[d], TRUE)
  <2>1. /\ s \subseteq {Root} /\ d = Root /\ d \in connected /\ d \in Dirs
        /\ \A f \in has[d] : Home[f] = d
    BY <1>1, <1>4, DirsAre DEF HasTrue, HeldTrue
  <2>2. ListingAgain(s) \in Calls
    BY <1>7
  <2>3. calls' = c \/ calls' = <<x>> \o c
    BY <1>7 DEF Load
  <2> HIDE DEF s
  <2>4. c \in Seq(Calls) /\ GoodNow(model, c, connected)
    <3>1. CallNested(model, ListingAgain(s), Tail(calls), connected)
      BY <2>1, AgainNested
    <3> QED  BY <1>3, <2>2, <3>1, GoodCallMade
  <2> HIDE DEF c
  <2>5. x \in Calls /\ x.do = "list" /\ x.dir = d /\ x.files = has[d]
    BY <1>7, <2>1 DEF Listing, Calls
  <2> HIDE DEF x
  <2>6. CallNested(model, x, c, connected)
    BY <2>1, <2>5, ListNested
  <2>7. GoodNow(model, <<x>> \o c, connected)
    BY <2>4, <2>5, <2>6, GoodCallMade
  <2> QED  BY <1>1, <1>5, <2>3, <2>4, <2>7 DEF GoodNext
<1> QED  BY <1>6, <1>7, ListNextIs DEF GoodBusy

LEMMA SortNextGood ==
  ASSUME GoodBusy, SortNext
  PROVE  GoodNext
<1>1. /\ ModelTrue(model) /\ AtHome(model) /\ connected' = connected
  BY GoodBusyIs
<1>2. Call.do = "sort"
  BY DEF SortNext
<1>3. CASE calls' = Tail(calls) /\ model' = model
  BY <1>1, <1>2, <1>3, GoodRest DEF GoodNext
<1>4. ASSUME NEW row \in Call.rows, Rearranged(model, model', row), Call.rows \subseteq Seq(Folders),
             calls' = <<Sorting(Call.rows \ {row})>> \o Tail(calls)
      PROVE  GoodNext
  <2>1. AtHome(model') /\ model'.sub = model.sub /\ model'.dirs = model.dirs
    BY <1>1, <1>4, RearrangedHome
  <2>2. Tail(calls) \in Seq(Calls) /\ GoodNow(model', Tail(calls), connected)
    BY <1>2, <2>1, GoodRest
  <2> DEFINE s == Call.rows \ {row}
  <2>3. s \in SUBSET Seq(Folders)
    BY <1>4
  <2> HIDE DEF s
  <2>4. Sorting(s) \in Calls
    BY <2>3, ListCallsMade
  <2>5. CallNested(model', Sorting(s), Tail(calls), connected)
    BY SortNested
  <2>6. GoodNow(model', <<Sorting(s)>> \o Tail(calls), connected)
    BY <2>2, <2>4, <2>5, GoodCallMade
  <2> QED  BY <1>1, <1>4, <2>6 DEF GoodNext, s
<1> QED  BY <1>3, <1>4, SortNextIs DEF GoodBusy

LEMMA WorkingGood ==
  ASSUME Always, GoodNow(model, calls, connected), Working
  PROVE  GoodNext
<1>1. GoodBusy
  BY DEF Working, GoodBusy, Busy, Others
<1> QED  BY <1>1, RemoveChildGood, RemoveItselfGood, ClearDirectoryGood, UnloadChildGood,
            ListFileGood, ListDoneGood, ListNextGood, SortNextGood DEF Working

\* As long as a folder has one row at most.
Agrees == Fine(mishaps) => GoodNow(model, calls, connected)

LEMMA InitAgrees == Init => Agrees
<1> SUFFICES ASSUME Init PROVE GoodNow(model, calls, connected)
  BY DEF Agrees
<1>1. model = EmptyModel([f \in Files |-> 0]) /\ calls = <<>> /\ connected = {Root}
  BY DEF Init
<1>2. /\ model.lists = [row \in {Top} |-> <<>>] /\ model.sub = {} /\ model.dirs = [d \in {} |-> Top]
  BY <1>1 DEF EmptyModel
<1>3. AtHome(model)
  BY <1>2 DEF AtHome, ToSet
<1>4. CallsNested(model, calls, connected)
  BY <1>1, NoneNested
<1>5. Found(model, calls) /\ connected \ {Root} \subseteq DOMAIN model.dirs /\ DirsMap(model)
  BY <1>1, <1>2 DEF Found, DirsMap
<1> QED  BY <1>3, <1>4, <1>5 DEF GoodNow

LEMMA MishapsStay ==
  ASSUME Next
  PROVE  mishaps \subseteq mishaps'
<1>1. CASE Happens
  BY <1>1 DEF Happens, Batch, DoneLoading, ReadingFails, ReadingEnds, FileAdded, FileDeleted, FileGrows, Expand, Collapse, UnloadTimer,
              Sort, HideHidden, Reload
<1>2. CASE Working
  BY <1>2 DEF Working
<1> QED  BY <1>1, <1>2 DEF Next

LEMMA AgreesAlways == Spec => []Agrees
<1>1. Always /\ Agrees /\ [Next]_vars => Agrees'
  <2> SUFFICES ASSUME Always, Agrees, [Next]_vars, Fine(mishaps') PROVE GoodNext
    BY DEF Agrees, GoodNext
  <2>1. CASE Next
    <3>1. GoodNow(model, calls, connected)
      BY <2>1, MishapsStay DEF Agrees, Fine
    <3> QED  BY <2>1, <3>1, HappensGood, WorkingGood DEF Next
  <2>2. CASE UNCHANGED vars
    BY <2>2 DEF vars, Agrees, GoodNext, Fine
  <2> QED  BY <2>1, <2>2
<1> QED  BY <1>1, AlwaysAlways, InitAgrees, PTL DEF Spec

LEMMA AgreesIs ==
  ASSUME Always, Agrees
  PROVE  MapsAgree
<1> SUFFICES ASSUME Fine(mishaps)
    PROVE  /\ ~Stuck
           /\ calls = <<>> =>
              /\ DOMAIN model.rev = model.sub \cup {Top}
              /\ \A row \in DOMAIN model.rev : model.rev[row] = ToSet(model.lists[row]) \ {Dummy}
              /\ model.dirs = [d \in {Last(r) : r \in model.sub} |->
                                 CHOOSE r \in model.sub : Last(r) = d]
              /\ \A row \in DOMAIN model.lists \ {Top} :
                    Dummy \in ToSet(model.lists[row]) => model.lists[row] = <<Dummy>>
              /\ \A row \in DOMAIN model.lists \ {Top} : model.lists[row] # <<>>
  BY DEF MapsAgree, Fine
<1>1. /\ ModelTrue(model) /\ GoodNow(model, calls, connected) /\ calls \in Seq(Calls)
      /\ EmptyIsLeaving(model, calls)
  BY AlwaysIs DEF Agrees
<1>2. /\ AtHome(model) /\ CallsNested(model, calls, connected) /\ Found(model, calls) /\ DirsMap(model)
      /\ Tree(model.lists)
  BY <1>1 DEF GoodNow, ModelTrue
<1>3. ~Stuck
  <2> SUFFICES ASSUME Stuck PROVE FALSE
    OBVIOUS
  <2> DEFINE row == Call.row
  <2>1. calls # <<>>
    BY DEF Stuck
  <2>2. CallNested(model, Call, Tail(calls), connected) /\ Call = Head(calls)
    BY <1>1, <1>2, <2>1, NestedPopped DEF Call
  <2>3. CASE Call.do = "remove" /\ ~IsRow(model, row)
    BY <2>2, <2>3 DEF CallNested
  <2>4. CASE /\ Call.do = "remove" /\ HasChild(row)
             /\ Head(model.lists[row]) # Dummy /\ ChildToRemove(model, row) = NoRow
    <3>1. row \in DOMAIN model.lists /\ model.lists[row] # <<>>
      BY <2>4 DEF HasChild
    <3>2. Head(calls).do = "remove" /\ Head(calls).row = row
      BY <2>2, <2>4
    <3> HIDE DEF row
    <3> QED  BY <1>1, <2>1, <2>4, <3>1, <3>2, ChildIsFound
  <2>5. CASE Call.do = "clear" /\ row \notin DOMAIN model.lists
    BY <2>2, <2>5 DEF CallNested
  <2>6. CASE Call.do = "unload" /\ row \notin model.sub
    BY <2>2, <2>6 DEF CallNested
  <2>7. CASE /\ Call.do = "unload" /\ model.rev[row] # {}
             /\ HasChild(row) => Head(model.lists[row]) = Dummy
    <3>1. row \in model.sub
      BY <2>2, <2>7 DEF CallNested
    <3>2. row \in DOMAIN model.lists /\ row \in DOMAIN model.rev
      BY <1>1, <3>1 DEF ModelTrue
    <3>3. PICK f \in ToSet(model.lists[row]) : f # Dummy
      BY <1>1, <2>7, <3>2 DEF ModelTrue
    <3>4. model.lists[row] # <<>>
      BY <3>3 DEF ToSet
    <3>5. Head(model.lists[row]) = Dummy
      BY <2>7, <3>2, <3>4 DEF HasChild
    <3>6. Dummy \in ToSet(model.lists[row])
      BY <1>1, <3>2, <3>4, <3>5, HeadOfList
    <3>7. model.lists[row] = <<Dummy>>
      BY <1>1, <3>2, <3>6 DEF ModelTrue
    <3>8. ToSet(<<Dummy>>) = {Dummy}
      BY DEF ToSet
    <3> QED  BY <3>3, <3>7, <3>8
  <2> QED  BY <2>3, <2>4, <2>5, <2>6, <2>7 DEF Stuck
<1>4. ASSUME calls = <<>>
      PROVE  model.dirs = [d \in {Last(r) : r \in model.sub} |-> CHOOSE r \in model.sub : Last(r) = d]
  <2>1. \A r \in model.sub : Last(r) \in DOMAIN model.dirs
    BY <1>2, <1>4 DEF Found
  <2>2. \A d \in DOMAIN model.dirs : model.dirs[d] \in model.sub /\ Last(model.dirs[d]) = d
    BY <1>1 DEF ModelTrue
  <2>3. DOMAIN model.dirs = {Last(r) : r \in model.sub}
    BY <2>1, <2>2
  <2>4. \A d \in DOMAIN model.dirs : model.dirs[d] = CHOOSE r \in model.sub : Last(r) = d
    <3> TAKE d \in DOMAIN model.dirs
    <3>1. model.sub \subseteq DOMAIN model.lists \ {Top} /\ Unique(model)
      BY <1>1, <1>2, OneRowEach DEF ModelTrue
    <3>2. \A r \in model.sub : Last(r) = d => r = model.dirs[d]
      BY <2>2, <3>1 DEF Unique
    <3> QED  BY <2>2, <3>2
  <2>5. model.dirs = [d \in DOMAIN model.dirs |-> CHOOSE r \in model.sub : Last(r) = d]
    BY <1>2, <2>4 DEF DirsMap
  <2> QED  BY <2>3, <2>5
<1>5. calls = <<>> => \A row \in DOMAIN model.lists \ {Top} : model.lists[row] # <<>>
  BY <1>1, NoneEmptyIs DEF NoneEmpty
<1> QED  BY <1>1, <1>3, <1>4, <1>5 DEF ModelTrue

-------------------------------------------------------------------------------
(* As long as every open row is followed.                                  *)

\* What a call has still to do for a folder: to list the top again, to add files,
\* to remove one.
AgainOf(call) == call.do = "again" /\ Root \in call.dirs
AgainIn(c) == \E i \in DOMAIN c : AgainOf(c[i])
ComingOf(call, d) == {f \in Files : call.do = "list" /\ call.dir = d /\ f \in call.files}
ComingIn(c, d) == {f \in Files : \E i \in DOMAIN c : f \in ComingOf(c[i], d)}
GoneOf(m, call, d) == {f \in Entries : call = Removing(Append(ParentOf(m, d), f))}
GoneIn(m, c, d) == {f \in Entries : Calling(c, Removing(Append(ParentOf(m, d), f)))}
FilesOfDir(m, d) == ToSet(m.lists[ParentOf(m, d)]) \ {Dummy}
Partial(c, l, d) == d \in l \/ (d = Root /\ AgainIn(c))

\* What there is to show of a folder: while it is read, what has been read.
Due == [d \in Dirs |-> IF d \in loading THEN read[d] ELSE has[d]]

\* The files shown for a folder are those that are due, but for what is on its way,
\* and for those the view has missed.
Follows(m, c, h, l, d) ==
  LET files == (FilesOfDir(m, d) \cup ComingIn(c, d)) \ GoneIn(m, c, d)
  IN  IF Partial(c, l, d) THEN files \subseteq h[d] ELSE files = h[d]

OpenFollowed(m, followed) == \A row \in m.open : row \in m.sub /\ Last(row) \in followed

\* Every open row is followed, unless all rows are being cleared, which are then
\* read or listed again; and each folder that is followed is shown as it is.
FollowedNow(m, c, h, l, followed) ==
  /\ Calling(c, Clearing(Top)) \/ OpenFollowed(m, followed)
  /\ Calling(c, Clearing(Top)) => Root \in l \/ AgainIn(c)
  /\ \A d \in followed : Follows(m, c, h, l, d)

LEMMA FollowPushed ==
  ASSUME NEW c \in Seq(Calls), NEW x \in Calls
  PROVE  /\ AgainIn(<<x>> \o c) <=> AgainOf(x) \/ AgainIn(c)
         /\ \A d : ComingIn(<<x>> \o c, d) = ComingOf(x, d) \cup ComingIn(c, d)
         /\ \A m, d : GoneIn(m, <<x>> \o c, d) = GoneOf(m, x, d) \cup GoneIn(m, c, d)
         /\ Calling(<<x>> \o c, Clearing(Top)) <=> x = Clearing(Top) \/ Calling(c, Clearing(Top))
<1> DEFINE e == <<x>> \o c
<1>1. /\ DOMAIN e = 1 .. Len(c) + 1 /\ DOMAIN c = 1 .. Len(c) /\ Len(c) \in Nat /\ e[1] = x
      /\ \A i \in 1 .. Len(c) : e[i + 1] = c[i]
      /\ \A i \in 2 .. Len(c) + 1 : e[i] = c[i - 1] /\ i - 1 \in DOMAIN c
  BY Pushed
<1>2. \A call : Calling(e, call) <=> x = call \/ Calling(c, call)
  BY CallingPushed
<1> HIDE DEF e
<1>3. \A i \in DOMAIN e : i = 1 \/ (i \in 2 .. Len(c) + 1 /\ e[i] = c[i - 1] /\ i - 1 \in DOMAIN c)
  BY <1>1
<1>4. \A i \in DOMAIN c : i + 1 \in DOMAIN e /\ e[i + 1] = c[i]
  BY <1>1
<1>5. 1 \in DOMAIN e
  BY <1>1
<1>6. AgainIn(e) <=> AgainOf(x) \/ AgainIn(c)
  BY <1>1, <1>3, <1>4, <1>5 DEF AgainIn
<1>7. ASSUME NEW d PROVE ComingIn(e, d) = ComingOf(x, d) \cup ComingIn(c, d)
  <2>1. \A f \in Files : (\E i \in DOMAIN e : f \in ComingOf(e[i], d))
                            <=> f \in ComingOf(x, d) \/ \E i \in DOMAIN c : f \in ComingOf(c[i], d)
    BY <1>1, <1>3, <1>4, <1>5
  <2>2. ComingOf(x, d) \subseteq Files
    BY DEF ComingOf
  <2> QED  BY <2>1, <2>2 DEF ComingIn
<1>8. ASSUME NEW m, NEW d PROVE GoneIn(m, e, d) = GoneOf(m, x, d) \cup GoneIn(m, c, d)
  BY <1>2 DEF GoneIn, GoneOf
<1> QED  BY <1>2, <1>6, <1>7, <1>8 DEF e

LEMMA FollowNone ==
  /\ ~ AgainIn(<<>>) /\ ~ Calling(<<>>, Clearing(Top))
  /\ \A d : ComingIn(<<>>, d) = {}
  /\ \A m, d : GoneIn(m, <<>>, d) = {}
BY NoCalls DEF AgainIn, ComingIn, GoneIn

LEMMA FollowOne ==
  ASSUME NEW x \in Calls
  PROVE  /\ AgainIn(<<x>>) <=> AgainOf(x)
         /\ \A d : ComingIn(<<x>>, d) = ComingOf(x, d)
         /\ \A m, d : GoneIn(m, <<x>>, d) = GoneOf(m, x, d)
         /\ Calling(<<x>>, Clearing(Top)) <=> x = Clearing(Top)
<1>1. <<>> \in Seq(Calls) /\ <<x>> \o <<>> = <<x>>
  <2>1. <<x>> \in Seq(Calls)
    BY OneCall
  <2> QED  BY <2>1, ConcatEmptySeq, NoCalls
<1>2. /\ AgainIn(<<x>> \o <<>>) <=> AgainOf(x) \/ AgainIn(<<>>)
      /\ \A d : ComingIn(<<x>> \o <<>>, d) = ComingOf(x, d) \cup ComingIn(<<>>, d)
      /\ \A m, d : GoneIn(m, <<x>> \o <<>>, d) = GoneOf(m, x, d) \cup GoneIn(m, <<>>, d)
      /\ Calling(<<x>> \o <<>>, Clearing(Top)) <=> x = Clearing(Top) \/ Calling(<<>>, Clearing(Top))
  BY <1>1, FollowPushed
<1> QED  BY <1>1, <1>2, FollowNone

\* What each call says.
LEMMA CallFollows ==
  ASSUME NEW call \in Calls
  PROVE  /\ call.do # "again" => ~ AgainOf(call)
         /\ call.do # "list" => \A d : ComingOf(call, d) = {}
         /\ call.do # "remove" => \A m, d : GoneOf(m, call, d) = {}
         /\ call.do # "clear" => call # Clearing(Top)
<1>1. \A row : Removing(row).do = "remove"
  BY RowCallsMade
<1>2. Clearing(Top).do = "clear"
  BY RowCallsMade
<1> QED  BY <1>1, <1>2 DEF AgainOf, ComingOf, GoneOf

LEMMA ListFollows ==
  ASSUME NEW d, NEW files \in SUBSET Files, NEW x, x.do = "list", x.dir = d, x.files = files
  PROVE  /\ ComingOf(x, d) = files
         /\ \A e : e # d => ComingOf(x, e) = {}
BY DEF ComingOf

\* The row of a folder the view follows.
LEMMA FollowedRow ==
  ASSUME NEW m, ModelTrue(m), NEW c, NEW followed, GoodNow(m, c, followed), NEW d \in followed
  PROVE  /\ ParentOf(m, d) \in DOMAIN m.lists /\ ParentOf(m, d) \in Seq(Entries)
         /\ FolderOf(ParentOf(m, d)) = d
         /\ d = Root => ParentOf(m, d) = Top
         /\ d # Root => ParentOf(m, d) \in m.sub /\ ParentOf(m, d) # Top /\ Last(ParentOf(m, d)) = d
                        /\ d \in DOMAIN m.dirs
         /\ \A e \in followed : e # d => ParentOf(m, e) # ParentOf(m, d)
<1>1. \A e \in followed : e = Root \/ e \in DOMAIN m.dirs
  BY DEF GoodNow
<1>2. \A e \in followed : FolderOf(ParentOf(m, e)) = e
  BY <1>1, ParentAtHome
<1>3. /\ d = Root => ParentOf(m, d) = Top
      /\ d # Root => ParentOf(m, d) = m.dirs[d] /\ m.dirs[d] \in m.sub /\ m.dirs[d] # Top
  BY <1>1, ParentAtHome
<1>4. d # Root => Last(ParentOf(m, d)) = d
  BY <1>1, <1>3 DEF ModelTrue
<1>5. ParentOf(m, d) \in DOMAIN m.lists
  BY ParentIs
<1>6. ParentOf(m, d) \in Seq(Entries)
  BY <1>5, ModelTypes
<1> QED  BY <1>1, <1>2, <1>3, <1>4, <1>5, <1>6

\* The calls at work below a folder do not touch those the view follows.
LEMMA NotBelow ==
  ASSUME NEW m, ModelTrue(m), NEW c, NEW followed, GoodNow(m, c, followed), NEW d \in followed,
         NEW row \in Seq(Entries), row # Top, \A s \in Below(row, m.sub) : Last(s) \notin followed
  PROVE  ParentOf(m, d) # row
<1>1. /\ d = Root => ParentOf(m, d) = Top
      /\ d # Root => ParentOf(m, d) \in m.sub /\ Last(ParentOf(m, d)) = d
  BY FollowedRow
<1>2. IsPrefix(row, row)
  BY DirsAre, RowsNest
<1>3. SUFFICES ASSUME ParentOf(m, d) = row PROVE FALSE
  OBVIOUS
<1>4. row \in m.sub /\ Last(row) = d
  BY <1>1, <1>3
<1>5. row \in Below(row, m.sub)
  BY <1>2, <1>4 DEF Below
<1> QED  BY <1>4, <1>5

LEMMA FollowsBetween ==
  ASSUME NEW m, NEW h, NEW l, NEW followed
  PROVE  FollowedNow(m, <<>>, h, l, followed) <=>
           /\ OpenFollowed(m, followed)
           /\ \A d \in followed : IF d \in l THEN FilesOfDir(m, d) \subseteq h[d] ELSE FilesOfDir(m, d) = h[d]
BY FollowNone DEF FollowedNow, Follows, Partial

\* Calls that neither list nor remove nor clear.
LEMMA FollowsCall ==
  ASSUME NEW m, NEW h, NEW l, NEW followed, FollowedNow(m, <<>>, h, l, followed),
         NEW x \in Calls, x.do \notin {"list", "remove", "clear", "again"}
  PROVE  FollowedNow(m, <<x>>, h, l, followed)
<1>1. /\ ~ AgainIn(<<x>>) /\ ~ Calling(<<x>>, Clearing(Top))
      /\ \A d : ComingIn(<<x>>, d) = {} /\ GoneIn(m, <<x>>, d) = {}
  BY CallFollows, FollowOne
<1>2. /\ OpenFollowed(m, followed)
      /\ \A d \in followed : IF d \in l THEN FilesOfDir(m, d) \subseteq h[d] ELSE FilesOfDir(m, d) = h[d]
  BY FollowsBetween
<1> QED  BY <1>1, <1>2 DEF FollowedNow, Follows, Partial

\* Files of a folder are listed.
LEMMA FollowsListing ==
  ASSUME NEW m, NEW h, NEW l, NEW followed, NEW d \in followed, NEW files \in SUBSET Files,
         IF d \in l THEN FilesOfDir(m, d) \cup files \subseteq h[d] ELSE FilesOfDir(m, d) \cup files = h[d],
         OpenFollowed(m, followed), NEW x \in Calls, x.do = "list", x.dir = d, x.files = files,
         \A e \in followed \ {d} : IF e \in l THEN FilesOfDir(m, e) \subseteq h[e] ELSE FilesOfDir(m, e) = h[e]
  PROVE  FollowedNow(m, <<x>>, h, l, followed)
<1>2. ComingOf(x, d) = files /\ \A e : e # d => ComingOf(x, e) = {}
  BY ListFollows
<1>3. ~ AgainOf(x) /\ x # Clearing(Top) /\ \A e : GoneOf(m, x, e) = {}
  BY CallFollows
<1>4. /\ ~ AgainIn(<<x>>) /\ ~ Calling(<<x>>, Clearing(Top))
      /\ \A e : ComingIn(<<x>>, e) = ComingOf(x, e) /\ GoneIn(m, <<x>>, e) = {}
  BY <1>3, FollowOne
<1>5. \A e \in followed : Follows(m, <<x>>, h, l, e)
  <2> TAKE e \in followed
  <2>1. CASE e = d
    BY <1>2, <1>4, <2>1 DEF Follows, Partial
  <2>2. CASE e # d
    BY <1>2, <1>4, <2>2 DEF Follows, Partial
  <2> QED  BY <2>1, <2>2
<1> QED  BY <1>4, <1>5 DEF FollowedNow

Holds(m, h, l, d) == IF d \in l THEN FilesOfDir(m, d) \subseteq h[d] ELSE FilesOfDir(m, d) = h[d]

LEMMA FollowsHolds ==
  ASSUME NEW m, NEW h, NEW l, NEW followed
  PROVE  FollowedNow(m, <<>>, h, l, followed) <=>
           OpenFollowed(m, followed) /\ \A d \in followed : Holds(m, h, l, d)
BY FollowsBetween DEF Holds

LEMMA HoldsCall ==
  ASSUME NEW m, NEW h, NEW l, NEW followed, OpenFollowed(m, followed),
         \A d \in followed : Holds(m, h, l, d),
         NEW x \in Calls, x.do \notin {"list", "remove", "clear", "again"}
  PROVE  FollowedNow(m, <<x>>, h, l, followed)
BY FollowsHolds, FollowsCall

LEMMA HoldsListing ==
  ASSUME NEW m, NEW h, NEW l, NEW followed, NEW d \in followed, NEW files \in SUBSET Files,
         IF d \in l THEN FilesOfDir(m, d) \cup files \subseteq h[d] ELSE FilesOfDir(m, d) \cup files = h[d],
         OpenFollowed(m, followed), NEW x \in Calls, x.do = "list", x.dir = d, x.files = files,
         \A e \in followed \ {d} : Holds(m, h, l, e)
  PROVE  FollowedNow(m, <<x>>, h, l, followed)
BY FollowsListing DEF Holds

\* Which of the rows that go is one of the folder's.
LEMMA GoneIs ==
  ASSUME NEW m, NEW d, ParentOf(m, d) \in Seq(Entries), NEW row \in Seq(Entries), NEW f \in Entries
  PROVE  GoneOf(m, Removing(Append(row, f)), d) = IF ParentOf(m, d) = row THEN {f} ELSE {}
<1>1. Front(Append(row, f)) = row /\ Last(Append(row, f)) = f
  BY AppendFront
<1>2. \A g \in Entries : Front(Append(ParentOf(m, d), g)) = ParentOf(m, d) /\ Last(Append(ParentOf(m, d), g)) = g
  BY AppendFront
<1>3. \A g : Removing(Append(row, f)) = Removing(Append(ParentOf(m, d), g)) <=> Append(row, f) = Append(ParentOf(m, d), g)
  BY DEF Removing
<1>4. \A g \in Entries : Removing(Append(row, f)) = Removing(Append(ParentOf(m, d), g)) <=> row = ParentOf(m, d) /\ f = g
  BY <1>1, <1>2, <1>3
<1> QED  BY <1>4 DEF GoneOf

\* The folders have the files they had.
LEMMA FollowsSame ==
  ASSUME NEW m, NEW n, NEW c, NEW h, NEW l, NEW followed, FollowedNow(m, c, h, l, followed),
         n.dirs = m.dirs, n.sub = m.sub, n.open \subseteq m.open,
         \A d \in followed : FilesOfDir(n, d) = FilesOfDir(m, d)
  PROVE  FollowedNow(n, c, h, l, followed)
<1>1. \A d : GoneIn(n, c, d) = GoneIn(m, c, d)
  BY DEF GoneIn, ParentOf
<1>2. OpenFollowed(m, followed) => OpenFollowed(n, followed)
  BY DEF OpenFollowed
<1>3. \A d \in followed : Follows(m, c, h, l, d) => Follows(n, c, h, l, d)
  BY <1>1 DEF Follows
<1> QED  BY <1>2, <1>3 DEF FollowedNow

LEMMA SameFiles ==
  ASSUME NEW m, ModelTrue(m), NEW n, n.dirs = m.dirs,
         \A r \in DOMAIN m.lists : ToSet(n.lists[r]) \ {Dummy} = ToSet(m.lists[r]) \ {Dummy}
  PROVE  \A d : FilesOfDir(n, d) = FilesOfDir(m, d)
<1>1. \A d : ParentOf(n, d) = ParentOf(m, d)
  BY DEF ParentOf
<1>2. \A d : ParentOf(m, d) \in DOMAIN m.lists
  BY ParentIs
<1> QED  BY <1>1, <1>2 DEF FilesOfDir

-------------------------------------------------------------------------------
(* What happens between the calls keeps FollowedTrue.                      *)

FollowedIdle == /\ GoodIdle /\ mishaps' \subseteq {"single"}
                /\ FollowedNow(model, calls, Due, missed, connected)
FollowedNext == FollowedNow(model', calls', Due', missed', connected')

LEMMA DueIs ==
  ASSUME HasTrue, OthersOK
  PROVE  /\ Due \in [Dirs -> SUBSET Files]
         /\ \A d \in Dirs : Due[d] \subseteq has[d] /\ Due[d] = IF d \in loading THEN read[d] ELSE has[d]
BY DEF HasTrue, OthersOK, Due

LEMMA FollowedIdleIs ==
  ASSUME FollowedIdle
  PROVE  /\ ModelTrue(model) /\ HasTrue /\ HeldTrue /\ OthersOK
         /\ GoodNow(model, <<>>, connected) /\ AtHome(model) /\ calls = <<>>
         /\ \A d \in connected : d = Root \/ d \in DOMAIN model.dirs
         /\ OpenFollowed(model, connected) /\ \A d \in connected : Holds(model, Due, missed, d)
         /\ Unique(model) /\ has \in [Dirs -> SUBSET Files]
         /\ Due \in [Dirs -> SUBSET Files] /\ connected \subseteq Dirs
         /\ \A d \in Dirs : Due[d] \subseteq has[d] /\ Due[d] = IF d \in loading THEN read[d] ELSE has[d]
<1>1. /\ ModelTrue(model) /\ HasTrue /\ HeldTrue /\ OthersOK
      /\ GoodNow(model, <<>>, connected) /\ AtHome(model) /\ calls = <<>>
      /\ \A d \in connected : d = Root \/ d \in DOMAIN model.dirs
  BY GoodIdleIs DEF FollowedIdle
<1>2. OpenFollowed(model, connected) /\ \A d \in connected : Holds(model, Due, missed, d)
  BY <1>1, FollowsHolds DEF FollowedIdle
<1>3. Unique(model)
  BY <1>1, OneRowEach DEF ModelTrue
<1> QED  BY <1>1, <1>2, <1>3, DueIs DEF OthersOK

LEMMA BatchFollowed ==
  ASSUME FollowedIdle, NEW d \in Dirs, NEW some, Batch(d, some)
  PROVE  FollowedNext
<1>1. /\ OpenFollowed(model, connected) /\ \A e \in connected : Holds(model, Due, missed, e)
      /\ has \in [Dirs -> SUBSET Files] /\ connected \subseteq Dirs /\ calls = <<>>
      /\ \A e \in Dirs : Due[e] = IF e \in loading THEN read[e] ELSE has[e]
      /\ read \in [Dirs -> SUBSET Files]
  BY FollowedIdleIs DEF OthersOK
<1>2. /\ d \in loading /\ some \subseteq has[d] /\ read' = [read EXCEPT ![d] = @ \cup some]
      /\ loading' = loading /\ has' = has /\ missed' = missed /\ model' = model /\ connected' = connected
      /\ calls' = IF d \in connected THEN <<Listing(d, some, FALSE)>> ELSE <<>>
  BY DEF Batch
<1>3. /\ \A e \in Dirs \ {d} : Due'[e] = Due[e]
      /\ Due'[d] = Due[d] \cup some
  BY <1>1, <1>2 DEF Due
<1>4. \A e \in connected \ {d} : Holds(model, Due', missed, e)
  BY <1>1, <1>3 DEF Holds
<1>5. CASE d \in connected
  <2> DEFINE x == Listing(d, some, FALSE)
  <2>1. some \in SUBSET Files
    BY <1>1, <1>2
  <2>2. x \in Calls /\ x.do = "list" /\ x.dir = d /\ x.files = some
    BY <2>1 DEF Listing, Calls
  <2> HIDE DEF x
  <2>3. Holds(model, Due, missed, d)
    BY <1>1, <1>5
  <2>4. IF d \in missed THEN FilesOfDir(model, d) \cup some \subseteq Due'[d]
        ELSE FilesOfDir(model, d) \cup some = Due'[d]
    BY <1>3, <2>3 DEF Holds
  <2>5. FollowedNow(model, <<x>>, Due', missed, connected)
    BY <1>1, <1>4, <1>5, <2>1, <2>2, <2>4, HoldsListing
  <2>6. calls' = <<x>>
    BY <1>2, <1>5 DEF x
  <2> QED  BY <1>2, <2>5, <2>6 DEF FollowedNext
<1>6. CASE d \notin connected
  <2>1. \A e \in connected : Holds(model, Due', missed, e)
    BY <1>4, <1>6
  <2>2. calls' = <<>>
    BY <1>2, <1>6
  <2>3. FollowedNow(model, <<>>, Due', missed, connected)
    BY <1>1, <2>1, FollowsHolds
  <2> QED  BY <1>2, <2>2, <2>3 DEF FollowedNext
<1> QED  BY <1>5, <1>6

LEMMA ReadingEndsFollowed ==
  ASSUME FollowedIdle, NEW d \in Dirs, DoneLoading(d) \/ ReadingFails(d)
  PROVE  FollowedNext
<1>1. /\ OpenFollowed(model, connected) /\ \A e \in connected : Holds(model, Due, missed, e)
      /\ has \in [Dirs -> SUBSET Files] /\ connected \subseteq Dirs /\ calls = <<>>
      /\ \A e \in Dirs : Due[e] \subseteq has[e] /\ Due[e] = IF e \in loading THEN read[e] ELSE has[e]
      /\ ModelTrue(model)
  BY FollowedIdleIs
<1>2. /\ d \in loading /\ loading' = loading \ {d} /\ has' = has /\ model' = model /\ connected' = connected
      /\ read' = [read EXCEPT ![d] = {}]
      /\ calls' = IF d \in connected THEN <<Sorting(ListsToSort(model))>> ELSE <<>>
      /\ \/ read[d] = has[d] /\ missed' = missed
         \/ missed' = missed \cup {d}
  BY DEF DoneLoading, ReadingFails, ReadingEnds
<1>3. /\ \A e \in Dirs \ {d} : Due'[e] = Due[e] /\ (e \in missed' <=> e \in missed)
      /\ Due'[d] = has[d]
  <2>1. \A e \in Dirs \ {d} : (e \in loading' <=> e \in loading) /\ read'[e] = read[e]
    BY <1>2, FollowedIdleIs DEF OthersOK
  <2> QED  BY <1>1, <1>2, <2>1 DEF Due
<1>4. ASSUME NEW e \in connected PROVE Holds(model, Due', missed', e)
  <2>1. Holds(model, Due, missed, e) /\ e \in Dirs
    BY <1>1
  <2>2. CASE e # d
    BY <1>3, <2>1, <2>2 DEF Holds
  <2>3. CASE e = d /\ missed' = missed \cup {d}
    BY <1>1, <1>3, <2>1, <2>3 DEF Holds
  <2>4. CASE e = d /\ read[d] = has[d] /\ missed' = missed
    BY <1>1, <1>2, <1>3, <2>1, <2>4 DEF Holds
  <2> QED  BY <1>2, <2>2, <2>3, <2>4
<1> DEFINE x == Sorting(ListsToSort(model))
<1>5. x \in Calls /\ x.do = "sort"
  BY <1>1, ListsToSortIs, ListCallsMade
<1> HIDE DEF x
<1>6. calls' = <<x>> \/ calls' = <<>>
  BY <1>2 DEF x
<1>7. FollowedNow(model, <<x>>, Due', missed', connected)
  BY <1>1, <1>4, <1>5, HoldsCall
<1>8. FollowedNow(model, <<>>, Due', missed', connected)
  BY <1>1, <1>4, FollowsHolds
<1> QED  BY <1>2, <1>6, <1>7, <1>8 DEF FollowedNext

LEMMA FileAddedFollowed ==
  ASSUME FollowedIdle, NEW f \in Files, FileAdded(f)
  PROVE  FollowedNext
<1> DEFINE d == Home[f]
           parent == ParentOf(model, d)
<1>1. /\ OpenFollowed(model, connected) /\ \A e \in connected : Holds(model, Due, missed, e)
      /\ has \in [Dirs -> SUBSET Files] /\ calls = <<>> /\ ModelTrue(model) /\ connected \subseteq Dirs
      /\ \A e \in Dirs : Due[e] \subseteq has[e] /\ Due[e] = IF e \in loading THEN read[e] ELSE has[e]
      /\ GoodNow(model, <<>>, connected) /\ read \in [Dirs -> SUBSET Files]
  BY FollowedIdleIs DEF OthersOK
<1>2. /\ f \notin has[d] /\ has' = [has EXCEPT ![d] = has[d] \cup {f}]
      /\ Told(d, read[d] \cup {f})
      /\ model' = (IF d \in connected THEN AddFile(model, f, d) ELSE model)
      /\ connected' = connected /\ calls' = <<>> /\ loading' = loading /\ missed' = missed
  BY <1>1 DEF FileAdded
<1>3. d \in Dirs
  BY DirsAre
<1> HIDE DEF d
<1>4. \A e \in Dirs : Due'[e] = IF e = d THEN Due[d] \cup {f} ELSE Due[e]
  BY <1>1, <1>2, <1>3 DEF Due, Told
<1>6. CASE d \notin connected
  <2>1. \A e \in connected : Holds(model, Due', missed, e)
    BY <1>1, <1>4, <1>6 DEF Holds
  <2> QED  BY <1>1, <1>2, <1>6, <2>1, FollowsHolds DEF FollowedNext
<1>7. CASE d \in connected
  <2>1. Holds(model, Due, missed, d)
    BY <1>1, <1>7
  <2>2. f \notin ToSet(model.lists[parent])
    BY <1>1, <1>2, <1>3, <2>1, DirsAre DEF FilesOfDir, Holds
  <2>3. parent \in DOMAIN model.rev /\ parent \in DOMAIN model.lists
    BY <1>1, ParentIs
  <2>4. f \notin model.rev[parent]
    BY <1>1, <2>2, <2>3 DEF ModelTrue
  <2>5. Added(model, model', parent, f)
    BY <1>1, <1>2, <1>7, <2>4, AddFileIs
  <2>6. /\ ToSet(model'.lists[parent]) = (ToSet(model.lists[parent]) \ {Dummy}) \cup {f}
        /\ \A r \in DOMAIN model.lists \ {parent} : model'.lists[r] = model.lists[r]
        /\ model'.sub = model.sub /\ model'.dirs = model.dirs /\ model'.open = model.open
    BY <2>5 DEF Added
  <2>7. \A e : ParentOf(model', e) = ParentOf(model, e)
    BY <2>6 DEF ParentOf
  <2>8. FilesOfDir(model', d) = FilesOfDir(model, d) \cup {f}
    BY <2>6, <2>7, DirsAre DEF FilesOfDir
  <2>9. ASSUME NEW e \in connected, e # d PROVE FilesOfDir(model', e) = FilesOfDir(model, e)
    <3>1. ParentOf(model, e) # parent /\ ParentOf(model, e) \in DOMAIN model.lists
      BY <1>1, <1>7, <2>9, FollowedRow
    <3> QED  BY <2>6, <2>7, <3>1 DEF FilesOfDir
  <2>10. \A e \in connected : Holds(model', Due', missed, e)
    <3> HIDE DEF parent
    <3> SUFFICES ASSUME NEW e \in connected PROVE Holds(model', Due', missed, e)
      OBVIOUS
    <3>1. CASE e = d
      BY <1>2, <1>3, <1>4, <2>1, <2>8, <3>1 DEF Holds
    <3>2. CASE e # d
      BY <1>1, <1>4, <2>9, <3>2 DEF Holds
    <3> QED  BY <3>1, <3>2
  <2>11. OpenFollowed(model', connected)
    BY <1>1, <2>6 DEF OpenFollowed
  <2> QED  BY <1>2, <2>10, <2>11, FollowsHolds DEF FollowedNext
<1> QED  BY <1>6, <1>7

LEMMA FileDeletedFollowed ==
  ASSUME FollowedIdle, NEW f \in Files, FileDeleted(f)
  PROVE  FollowedNext
<1> DEFINE d == Home[f]
           parent == ParentOf(model, d)
           row == IF d \in connected THEN LookupFile(model, f, d) ELSE NoRow
<1>1. /\ OpenFollowed(model, connected) /\ \A e \in connected : Holds(model, Due, missed, e)
      /\ has \in [Dirs -> SUBSET Files] /\ ModelTrue(model) /\ connected \subseteq Dirs
      /\ \A e \in Dirs : Due[e] = IF e \in loading THEN read[e] ELSE has[e]
      /\ GoodNow(model, <<>>, connected) /\ read \in [Dirs -> SUBSET Files]
  BY FollowedIdleIs DEF OthersOK
<1>2. /\ f \in has[d] /\ has' = [has EXCEPT ![d] = has[d] \ {f}]
      /\ Told(d, read[d] \ {f})
      /\ model' = model /\ connected' = connected /\ loading' = loading /\ missed' = missed
      /\ calls' = (IF row = NoRow THEN <<>> ELSE <<Removing(row)>>)
  BY DEF FileDeleted
<1>3. d \in Dirs
  BY DirsAre
<1>4. \A e \in Dirs : Due'[e] = IF e = d THEN Due[d] \ {f} ELSE Due[e]
  <2> HIDE DEF d
  <2> QED  BY <1>1, <1>2, <1>3 DEF Due, Told
<1>5. CASE d \notin connected
  <2>1. \A e \in connected : Holds(model, Due', missed, e)
    BY <1>1, <1>4, <1>5 DEF Holds
  <2>2. calls' = <<>>
    BY <1>2, <1>5
  <2>3. FollowedNow(model, <<>>, Due', missed, connected)
    BY <1>1, <2>1, FollowsHolds
  <2> HIDE DEF d, parent, row
  <2> QED  BY <1>2, <2>2, <2>3 DEF FollowedNext
<1>6. CASE d \in connected /\ f \notin ToSet(model.lists[parent])
  <2>1. f \notin FilesOfDir(model, d)
    BY <1>6 DEF FilesOfDir
  <2>2. calls' = <<>>
    BY <1>1, <1>2, <1>6, LookupIs
  <2> HIDE DEF d, parent, row
  <2>3. \A e \in connected : Holds(model, Due', missed, e)
    BY <1>1, <1>4, <2>1 DEF Holds
  <2> QED  BY <1>1, <1>2, <2>2, <2>3, FollowsHolds DEF FollowedNext
<1>7. CASE d \in connected /\ f \in ToSet(model.lists[parent])
  <2>2. f \in ToSet(model.lists[parent])
    BY <1>7
  <2>3. LookupFile(model, f, d) = Append(parent, f) /\ Append(parent, f) # NoRow
    BY <1>1, <2>2, LookupIs
  <2>4. calls' = <<Removing(Append(parent, f))>>
    BY <1>2, <1>7, <2>3
  <2>5. parent \in Seq(Entries) /\ f \in Entries
    BY <1>1, <1>7, FollowedRow, DirsAre
  <2> DEFINE x == Removing(Append(parent, f))
  <2>6. x \in Calls /\ x.do = "remove"
    <3>1. Append(parent, f) \in Seq(Entries)
      BY <2>5, AppendFront
    <3> QED  BY <3>1, RowCallsMade
  <2>7. \A e \in connected : GoneOf(model, x, e) = IF e = d THEN {f} ELSE {}
    <3>1. ASSUME NEW e \in connected PROVE /\ ParentOf(model, e) \in Seq(Entries)
                                           /\ ParentOf(model, e) = parent <=> e = d
      BY <1>1, <1>7, FollowedRow
    <3> QED  BY <2>5, <3>1, GoneIs
  <2> HIDE DEF x, parent, d, row
  <2>8. /\ ~ AgainIn(<<x>>) /\ ~ Calling(<<x>>, Clearing(Top))
        /\ \A e : ComingIn(<<x>>, e) = {} /\ GoneIn(model, <<x>>, e) = GoneOf(model, x, e)
    BY <2>6, CallFollows, FollowOne
  <2>9. ASSUME NEW e \in connected PROVE Follows(model, <<x>>, Due', missed, e)
    <3>1. Holds(model, Due, missed, e) /\ e \in Dirs
      BY <1>1
    <3>2. Partial(<<x>>, missed, e) <=> e \in missed
      BY <2>8 DEF Partial
    <3>3. CASE e = d
      BY <1>4, <2>7, <2>8, <3>1, <3>2, <3>3 DEF Follows, Holds
    <3>4. CASE e # d
      BY <1>4, <2>7, <2>8, <3>1, <3>2, <3>4 DEF Follows, Holds
    <3> QED  BY <3>3, <3>4
  <2>10. FollowedNow(model, <<x>>, Due', missed, connected)
    BY <1>1, <2>8, <2>9 DEF FollowedNow
  <2> QED  BY <1>2, <2>4, <2>10 DEF FollowedNext, x
<1> QED  BY <1>5, <1>6, <1>7

LEMMA FileGrowsFollowed ==
  ASSUME FollowedIdle, NEW f \in Files, FileGrows(f)
  PROVE  FollowedNext
<1>1. /\ OpenFollowed(model, connected) /\ \A e \in connected : Holds(model, Due, missed, e)
      /\ ModelTrue(model) /\ calls = <<>>
  BY FollowedIdleIs
<1>2. PICK s \in Sizes : model' = LET m == [model EXCEPT !.size[f] = s]
                                  IN  IF Home[f] \in connected THEN FileChanged(m, f, Home[f]) ELSE m
  BY DEF FileGrows
<1> DEFINE m == [model EXCEPT !.size[f] = s]
<1>3. /\ ModelTrue(m) /\ m.lists = model.lists /\ m.sub = model.sub /\ m.dirs = model.dirs
      /\ m.open = model.open
  BY <1>1, FileResized
<1>4. model' = IF Home[f] \in connected THEN FileChanged(m, f, Home[f]) ELSE m
  BY <1>2
<1> HIDE DEF m
<1>5. /\ model'.sub = model.sub /\ model'.dirs = model.dirs /\ model'.open = model.open
      /\ \A r \in DOMAIN model.lists : ToSet(model'.lists[r]) = ToSet(model.lists[r])
  <2>1. CASE Home[f] \in connected
    <3> DEFINE n == FileChanged(m, f, Home[f])
    <3>1. Rearranged(m, n, ParentOf(m, Home[f]))
      BY <1>3, FileIsMoved
    <3> HIDE DEF n
    <3>2. n.sub = m.sub /\ n.dirs = m.dirs /\ n.open = m.open
      BY <3>1 DEF Rearranged, SameBut
    <3>3. \A r \in DOMAIN m.lists : ToSet(n.lists[r]) = ToSet(m.lists[r])
      BY <3>1 DEF Rearranged
    <3> QED  BY <1>3, <1>4, <2>1, <3>2, <3>3 DEF n
  <2> QED  BY <1>3, <1>4, <2>1
<1>6. connected' = connected /\ calls' = <<>> /\ Due' = Due /\ missed' = missed
  BY <1>1 DEF FileGrows, reading, Due
<1>7. \A d : FilesOfDir(model', d) = FilesOfDir(model, d)
  BY <1>1, <1>5, SameFiles
<1>8. FollowedNow(model, <<>>, Due, missed, connected)
  BY <1>1, FollowsHolds
<1>9. FollowedNow(model', <<>>, Due, missed, connected)
  BY <1>5, <1>7, <1>8, FollowsSame
<1> QED  BY <1>6, <1>9 DEF FollowedNext

LEMMA ExpandFollowed ==
  ASSUME FollowedIdle, NEW row \in DOMAIN model.lists, Expand(row)
  PROVE  FollowedNext
<1> DEFINE d == Last(row)
<1>1. /\ OpenFollowed(model, connected) /\ \A e \in connected : Holds(model, Due, missed, e)
      /\ has \in [Dirs -> SUBSET Files] /\ ModelTrue(model) /\ Unique(model) /\ calls = <<>>
      /\ GoodNow(model, <<>>, connected) /\ connected \subseteq Dirs
      /\ \A e \in Dirs : Due[e] = IF e \in loading THEN read[e] ELSE has[e]
      /\ read \in [Dirs -> SUBSET Files]
  BY FollowedIdleIs DEF OthersOK
<1>2. /\ model'.lists = model.lists /\ model'.open = model.open \cup {row}
      /\ IF row \in model.sub THEN model'.sub = model.sub /\ model'.dirs = model.dirs
         ELSE model'.sub = model.sub \cup {row} /\ model'.dirs = With(model.dirs, Last(row), row)
      /\ CanLoadSubdirectory(model, row) <=> row \notin model.sub
      /\ row # Top /\ Last(row) \in Folders
  BY <1>1, ExpandIs
<1>3. row \notin model.sub
  <2>1. SUFFICES ASSUME row \in model.sub PROVE FALSE
    OBVIOUS
  <2>2. "reexpanded" \in mishaps'
    BY <1>2, <2>1 DEF Expand
  <2> QED  BY <2>2 DEF FollowedIdle
<1>4. model'.sub = model.sub \cup {row} /\ model'.dirs = With(model.dirs, d, row)
  BY <1>2, <1>3
<1>5. /\ connected' = connected \cup {d} /\ has' = has
      /\ (d \in loading /\ Load(d, <<>>)) \/ (d \notin loading /\ LoadShared(d))
  BY <1>1, <1>2, <1>3 DEF Expand
<1>6. d \in Dirs /\ d # Root
  BY <1>2, DirsAre
<1>7. d \notin connected
  <2>1. SUFFICES ASSUME d \in connected PROVE FALSE
    OBVIOUS
  <2>2. ParentOf(model, d) \in model.sub /\ ParentOf(model, d) # Top /\ Last(ParentOf(model, d)) = d
    BY <1>1, <1>6, <2>1, FollowedRow
  <2>3. ParentOf(model, d) \in DOMAIN model.lists \ {Top}
    BY <1>1, <2>2 DEF ModelTrue
  <2>4. ParentOf(model, d) = row
    BY <1>1, <1>2, <2>2, <2>3 DEF Unique
  <2> QED  BY <1>3, <2>2, <2>4
<1>8. ParentOf(model', d) = row /\ \A e : e # d => ParentOf(model', e) = ParentOf(model, e)
  <2> HIDE DEF d
  <2> QED  BY <1>4 DEF ParentOf, With
<1>9. FilesOfDir(model', d) = {}
  <2>1. row \in DOMAIN model.lists \ DOMAIN model.rev
    BY <1>1, <1>2, <1>3 DEF ModelTrue
  <2>2. ToSet(model.lists[row]) \subseteq {Dummy}
    BY <1>1, <2>1 DEF ModelTrue
  <2> QED  BY <1>2, <1>8, <2>2 DEF FilesOfDir
<1>10. \A e \in connected : FilesOfDir(model', e) = FilesOfDir(model, e)
  BY <1>2, <1>7, <1>8 DEF FilesOfDir
<1>11. OpenFollowed(model', connected')
  <2>1. \A r \in model'.open : r = row \/ r \in model.open
    BY <1>2
  <2> QED  BY <1>1, <1>4, <1>5, <2>1 DEF OpenFollowed
<1> HIDE DEF d
<1>12. \A e \in connected' : e = d \/ (e \in connected /\ e \in Dirs \ {d})
  BY <1>1, <1>5
\* What there is to show of the other folders stays as it was.
<1>13. ASSUME NEW s, s = Dirs \ {d}, \A e \in s : e \in loading' <=> e \in loading,
              \A e \in s : read'[e] = read[e], \A e \in s : e \in missed' <=> e \in missed
       PROVE  \A e \in connected' \ {d} : Holds(model', Due', missed', e)
  <2> TAKE e \in connected' \ {d}
  <2>1. e \in connected /\ e \in Dirs \ {d} /\ Holds(model, Due, missed, e)
    BY <1>1, <1>12
  <2>2. Due'[e] = Due[e]
    BY <1>1, <1>5, <1>13, <2>1 DEF Due
  <2>3. e \in missed' <=> e \in missed
    BY <1>13, <2>1
  <2> QED  BY <1>10, <2>1, <2>2, <2>3 DEF Holds
\* Nothing is listed: nothing is due yet, or some was missed.
<1>14. ASSUME calls' = <<>>, \A e \in connected' \ {d} : Holds(model', Due', missed', e),
              Due'[d] = {} \/ d \in missed'
       PROVE  FollowedNext
  <2>1. Holds(model', Due', missed', d)
    BY <1>9, <1>14 DEF Holds
  <2>2. \A e \in connected' : Holds(model', Due', missed', e)
    BY <1>14, <2>1
  <2>3. FollowedNow(model', <<>>, Due', missed', connected')
    BY <1>11, <2>2, FollowsHolds
  <2> QED  BY <1>14, <2>3 DEF FollowedNext
<1>15. CASE d \in loading /\ Load(d, <<>>)
  <2>1. CASE d \in loading /\ missed' = (IF read[d] = {} THEN missed ELSE missed \cup {d})
             /\ calls' = <<>> /\ loading' = loading /\ read' = read
    <3>1. \A e \in connected' \ {d} : Holds(model', Due', missed', e)
      BY <1>13, <2>1
    <3>2. Due'[d] = {} \/ d \in missed'
      BY <1>6, <2>1 DEF Due
    <3> QED  BY <1>14, <2>1, <3>1, <3>2
  <2>2. d \notin failed
    BY <1>15, FollowedIdleIs DEF HasTrue
  <2> QED  BY <1>15, <2>1, <2>2 DEF Load
<1>16. CASE d \notin loading /\ LoadShared(d)
  <2>1. CASE StartReading(d) /\ calls' = <<>>
    <3>1. /\ loading' = loading \cup {d} /\ read' = [read EXCEPT ![d] = {}]
          /\ missed' = missed \ {d}
      BY <2>1 DEF StartReading
    <3> DEFINE s == Dirs \ {d}
    <3>4. /\ \A e \in s : e \in loading' <=> e \in loading
          /\ \A e \in s : read'[e] = read[e]
          /\ \A e \in s : e \in missed' <=> e \in missed
      BY <1>1, <3>1
    <3>2. \A e \in connected' \ {d} : Holds(model', Due', missed', e)
      BY <1>13, <3>4
    <3>3. Due'[d] = {}
      BY <1>1, <1>6, <3>1 DEF Due
    <3> QED  BY <1>14, <2>1, <3>2, <3>3
  <2>2. CASE /\ calls' = <<Listing(d, has[d], TRUE)>>
             /\ missed' = missed \ {d} /\ UNCHANGED <<loading, read>>
    <3>1. \A e \in connected' \ {d} : Holds(model', Due', missed', e)
      BY <1>13, <2>2
    <3> DEFINE files == Due'[d]
               x == Listing(d, has[d], TRUE)
    <3>2. d \notin loading
      BY <1>16
    <3>3. Due'[d] = has[d]
      BY <1>5, <1>6, <2>2, <3>2 DEF Due
    <3>4. has[d] \in SUBSET Files
      BY <1>1, <1>6
    <3>5. x \in Calls /\ x.do = "list" /\ x.dir = d /\ x.files = has[d]
      BY <1>6, <3>4 DEF Listing, Calls
    <3> HIDE DEF x
    <3>6. d \notin missed' /\ FilesOfDir(model', d) \cup has[d] = Due'[d] /\ d \in connected'
      BY <1>5, <1>9, <2>2, <3>3
    <3>7. FollowedNow(model', <<x>>, Due', missed', connected')
      BY <1>11, <3>1, <3>4, <3>5, <3>6, HoldsListing
    <3> QED  BY <2>2, <3>7 DEF FollowedNext, x
  <2>3. CASE /\ \E some \in SUBSET has[d] \ {{}} : read' = [read EXCEPT ![d] = some]
             /\ loading' = loading \cup {d}
             /\ missed' = missed \cup {d} /\ calls' = <<>>
    <3> DEFINE s == Dirs \ {d}
    <3>2. /\ \A e \in s : e \in loading' <=> e \in loading
          /\ \A e \in s : read'[e] = read[e]
          /\ \A e \in s : e \in missed' <=> e \in missed
      BY <1>1, <2>3
    <3>1. \A e \in connected' \ {d} : Holds(model', Due', missed', e)
      BY <1>13, <3>2
    <3> QED  BY <1>14, <2>3, <3>1
  <2> QED  BY <1>16, <2>1, <2>2, <2>3 DEF LoadShared
<1> QED  BY <1>5, <1>15, <1>16

LEMMA CollapseFollowed ==
  ASSUME FollowedIdle, NEW row \in DOMAIN model.lists, Collapse(row)
  PROVE  FollowedNext
<1> DEFINE d == Last(row)
<1>1. /\ OpenFollowed(model, connected) /\ \A e \in connected : Holds(model, Due, missed, e)
      /\ ModelTrue(model) /\ Unique(model) /\ calls = <<>> /\ connected \subseteq Dirs
      /\ read \in [Dirs -> SUBSET Files]
  BY FollowedIdleIs DEF OthersOK
<1>2. /\ model'.lists = model.lists /\ model'.open = model.open \ Below(row, model.open)
      /\ model'.sub = model.sub /\ model'.dirs = model.dirs
      /\ row # Top /\ row \in model.open
  BY <1>1, CollapseIs
<1>3. /\ connected' = connected \ {d} /\ calls' = <<>> /\ has' = has
      /\ loading' = loading \ {d} /\ read' = [read EXCEPT ![d] = {}] /\ missed' = missed \ {d}
  BY <1>1 DEF Collapse, Release
<1>4. OpenFollowed(model', connected')
  <2> SUFFICES ASSUME NEW r \in model'.open PROVE r \in model'.sub /\ Last(r) \in connected'
    BY DEF OpenFollowed
  <2>1. r \in model.open /\ r \notin Below(row, model.open)
    BY <1>2
  <2>2. r \in model.sub /\ Last(r) \in connected
    BY <1>1, <2>1 DEF OpenFollowed
  <2>3. r # row
    <3>1. row \in Seq(Entries)
      BY <1>1, ModelTypes
    <3>2. IsPrefix(row, row)
      BY <3>1, DirsAre, RowsNest
    <3> QED  BY <2>1, <3>2 DEF Below
  <2>4. r \in DOMAIN model.lists \ {Top} /\ row \in DOMAIN model.lists \ {Top}
    BY <1>1, <1>2, <2>1 DEF ModelTrue
  <2>5. Last(r) # d
    BY <1>1, <2>3, <2>4 DEF Unique
  <2> QED  BY <1>2, <1>3, <2>2, <2>5
<1>5. \A e : FilesOfDir(model', e) = FilesOfDir(model, e)
  BY <1>2 DEF FilesOfDir, ParentOf
<1>6. \A e \in connected' : Due'[e] = Due[e] /\ (e \in missed' <=> e \in missed)
  <2> HIDE DEF d
  <2> QED  BY <1>1, <1>3 DEF Due
<1>7. \A e \in connected' : Holds(model', Due', missed', e)
  BY <1>1, <1>3, <1>5, <1>6 DEF Holds
<1>8. FollowedNow(model', <<>>, Due', missed', connected')
  BY <1>4, <1>7, FollowsHolds
<1> QED  BY <1>3, <1>8 DEF FollowedNext

LEMMA FirstItersAre ==
  ASSUME NEW m, ModelTrue(m), NEW d \in Folders, NEW row \in FirstItersForFile(m, d)
  PROVE  Last(row) = d
<1>1. d \in Entries
  BY DirsAre
<1>2. CASE d \in m.rev[Top]
  <2>1. row = <<d>>
    BY <1>2 DEF FirstItersForFile
  <2>2. Top \in Seq(Entries)
    BY EmptySeq DEF Top
  <2>3. Last(Append(Top, d)) = d
    BY <1>1, <2>2, AppendFront
  <2>4. Append(Top, d) = <<d>>
    BY DEF Top
  <2> QED  BY <2>1, <2>3, <2>4
<1>3. CASE d \notin m.rev[Top]
  <2>1. PICK e \in DOMAIN m.dirs : row = Append(m.dirs[e], d)
    BY <1>3 DEF FirstItersForFile
  <2>2. m.dirs[e] \in Seq(Entries)
    <3>1. m.dirs[e] \in DOMAIN m.lists
      BY DEF ModelTrue
    <3> QED  BY <3>1, ModelTypes
  <2> QED  BY <1>1, <2>1, <2>2, AppendFront
<1> QED  BY <1>2, <1>3

LEMMA UnloadTimerFollowed ==
  ASSUME FollowedIdle, NEW d \in Folders, UnloadTimer(d)
  PROVE  FollowedNext
<1>1. /\ OpenFollowed(model, connected) /\ \A e \in connected : Holds(model, Due, missed, e)
      /\ ModelTrue(model) /\ Unique(model) /\ calls = <<>> /\ connected \subseteq Dirs
      /\ read \in [Dirs -> SUBSET Files]
  BY FollowedIdleIs DEF OthersOK
<1>2. connected' = connected /\ has' = has /\ missed' = missed
  BY DEF UnloadTimer
<1>3. CASE UNCHANGED <<model, calls, loading, read, failed, mishaps>>
  <2>1. Due' = Due
    BY <1>2, <1>3 DEF Due
  <2> QED  BY <1>2, <1>3, <2>1 DEF FollowedNext, FollowedIdle
<1>4. CASE \E row \in model.sub :
               /\ row \notin model.open
               /\ row \in FirstItersForFile(model, d)
               /\ ModelTrue(model') /\ model'.lists = model.lists /\ model'.sub = model.sub
               /\ model'.dirs = Without(model.dirs, {Last(row)}) /\ model'.open = model.open
               /\ model'.size = model.size /\ model'.column = model.column
               /\ model'.reversed = model.reversed
               /\ calls' = <<Unloading(row)>>
               /\ loading' = loading \ {d}
               /\ read' = [read EXCEPT ![d] = {}]
               /\ failed' = failed \cup ({d} \cap loading)
               /\ mishaps' = mishaps \cup Orphaned(row)
  <2>1. PICK row \in model.sub :
               /\ row \in FirstItersForFile(model, d)
               /\ model'.lists = model.lists /\ model'.sub = model.sub
               /\ model'.dirs = Without(model.dirs, {Last(row)}) /\ model'.open = model.open
               /\ calls' = <<Unloading(row)>>
               /\ loading' = loading \ {d}
               /\ read' = [read EXCEPT ![d] = {}]
               /\ mishaps' = mishaps \cup Orphaned(row)
    BY <1>4
  <2>2. Last(row) = d
    BY <1>1, <2>1, FirstItersAre
  <2>3. row \in Seq(Entries)
    <3>1. row \in DOMAIN model.lists
      BY <1>1 DEF ModelTrue
    <3> QED  BY <1>1, <3>1, ModelTypes
  <2>4. d \notin connected
    <3>1. "orphaned" \notin Orphaned(row)
      BY <2>1 DEF FollowedIdle
    <3>2. IsPrefix(row, row)
      BY <2>3, DirsAre, RowsNest
    <3>3. row \in Below(row, model.sub)
      BY <3>2 DEF Below
    <3> QED  BY <2>2, <3>1, <3>3 DEF Orphaned
  <2>5. \A e \in connected : FilesOfDir(model', e) = FilesOfDir(model, e)
    BY <2>1, <2>2, <2>4 DEF FilesOfDir, ParentOf, Without
  <2>6. \A e \in connected : Due'[e] = Due[e]
    BY <1>1, <1>2, <2>1, <2>4 DEF Due
  <2>10. \A e \in connected : Holds(model', Due', missed, e)
    BY <1>1, <2>5, <2>6 DEF Holds
  <2>7. OpenFollowed(model', connected)
    BY <1>1, <2>1 DEF OpenFollowed
  <2>8. Unloading(row) \in Calls /\ Unloading(row).do = "unload"
    BY <2>3, RowCallsMade
  <2>9. FollowedNow(model', <<Unloading(row)>>, Due', missed, connected)
    BY <2>10, <2>7, <2>8, HoldsCall
  <2> QED  BY <1>2, <2>1, <2>9 DEF FollowedNext
<1> QED  BY <1>1, <1>3, <1>4, UnloadTimerIs

LEMMA SortFollowed ==
  ASSUME FollowedIdle, NEW o \in Orders, Sort(o[1], o[2])
  PROVE  FollowedNext
<1>1. /\ OpenFollowed(model, connected) /\ \A e \in connected : Holds(model, Due, missed, e)
      /\ ModelTrue(model) /\ calls = <<>>
  BY FollowedIdleIs
<1>2. /\ model'.lists = model.lists /\ model'.sub = model.sub /\ model'.dirs = model.dirs
      /\ model'.open = model.open
      /\ calls' = <<Sorting(ListsToSort(model))>>
  BY <1>1, SortIs
<1>3. connected' = connected /\ Due' = Due /\ missed' = missed
  BY DEF Sort, reading, Due
<1> DEFINE x == Sorting(ListsToSort(model))
<1>4. x \in Calls /\ x.do = "sort"
  BY <1>1, ListsToSortIs, ListCallsMade
<1> HIDE DEF x
<1>5. FollowedNow(model, <<x>>, Due, missed, connected)
  BY <1>1, <1>4, HoldsCall
<1>6. \A e : FilesOfDir(model', e) = FilesOfDir(model, e)
  BY <1>2 DEF FilesOfDir, ParentOf
<1>7. FollowedNow(model', <<x>>, Due, missed, connected)
  BY <1>2, <1>5, <1>6, FollowsSame
<1> QED  BY <1>2, <1>3, <1>7 DEF FollowedNext, x

\* The rows are cleared, and the view's folder is asked for again.
LEMMA ClearedAgain ==
  ASSUME NEW c, NEW b \in SUBSET Dirs,
         c = <<ListingAgain({Root})>> \/ c = <<ListingAgain({Root})>> \o <<ListingAgain(b)>>
  PROVE  LET all == <<Clearing(Top)>> \o c
         IN  AgainIn(all) /\ Calling(all, Clearing(Top)) /\ \A d : ComingIn(all, d) = {}
<1>1. /\ ListingAgain({Root}) \in Calls /\ ListingAgain(b) \in Calls /\ Clearing(Top) \in Calls
      /\ ListingAgain({Root}).do = "again" /\ ListingAgain(b).do = "again" /\ Clearing(Top).do = "clear"
      /\ ListingAgain({Root}).dirs = {Root}
  <2>1. {Root} \in SUBSET Dirs
    BY DirsAre
  <2>2. Top \in Seq(Entries)
    BY EmptySeq DEF Top
  <2> QED  BY <2>1, <2>2, ListCallsMade, RowCallsMade
<1> DEFINE a == ListingAgain({Root})
           c1 == <<ListingAgain(b)>>
<1>2. c1 \in Seq(Calls) /\ \A d : ComingIn(c1, d) = {}
  BY <1>1, OneCall, FollowOne, CallFollows
<1>3. AgainOf(a) /\ \A d : ComingOf(a, d) = {}
  BY <1>1, CallFollows DEF AgainOf
<1>4. a \in Calls /\ <<a>> \in Seq(Calls)
  BY <1>1, OneCall
<1> HIDE DEF c1, a
<1>5. AgainIn(<<a>>) /\ \A d : ComingIn(<<a>>, d) = {}
  BY <1>3, <1>4, FollowOne
<1>6. AgainIn(<<a>> \o c1) /\ (\A d : ComingIn(<<a>> \o c1, d) = {}) /\ <<a>> \o c1 \in Seq(Calls)
  <2>1. <<a>> \o c1 \in Seq(Calls)
    BY <1>2, <1>4, Pushed
  <2> QED  BY <1>2, <1>3, <1>4, <2>1, FollowPushed
<1>7. c \in Seq(Calls) /\ AgainIn(c) /\ \A d : ComingIn(c, d) = {}
  BY <1>4, <1>5, <1>6 DEF a, c1
<1>8. \A d : ComingOf(Clearing(Top), d) = {}
  BY <1>1, CallFollows
<1> DEFINE all == <<Clearing(Top)>> \o c
<1>9. /\ AgainIn(c) => AgainIn(all)
      /\ \A d : ComingIn(all, d) = ComingOf(Clearing(Top), d) \cup ComingIn(c, d)
      /\ Calling(all, Clearing(Top))
  BY <1>1, <1>7, FollowPushed
<1> HIDE DEF all
<1>10. AgainIn(all) /\ Calling(all, Clearing(Top)) /\ \A d : ComingIn(all, d) = {}
  BY <1>7, <1>8, <1>9
<1> QED  BY <1>10 DEF all

\* Meanwhile its rows are files that are due.
LEMMA ClearedFollows ==
  ASSUME NEW m, NEW c, NEW h, NEW l, AgainIn(c), Calling(c, Clearing(Top)), \A d : ComingIn(c, d) = {},
         FilesOfDir(m, Root) \subseteq h[Root]
  PROVE  FollowedNow(m, c, h, l, {Root})
BY DEF FollowedNow, Follows, Partial

LEMMA HideHiddenFollowed ==
  ASSUME FollowedIdle, HideHidden
  PROVE  FollowedNext
<1>1. /\ \A e \in connected : Holds(model, Due, missed, e)
      /\ HeldTrue /\ OthersOK
  BY FollowedIdleIs
<1>2. /\ model' = model /\ connected' = connected /\ Due' = Due /\ missed' = missed
      /\ mishaps' = (IF {d \in Folders : held[d] > 0} = {} THEN mishaps ELSE mishaps \cup {"hidden"})
  BY DEF HideHidden, reading, Due
<1>3. {d \in Folders : held[d] > 0} = {}
  BY <1>2 DEF FollowedIdle
<1>4. connected = {Root}
  BY <1>1, <1>3, DirsAre DEF HeldTrue, OthersOK
<1>5. PICK b \in SUBSET Folders :
            calls' = <<Clearing(Top)>> \o (<<ListingAgain({Root})>> \o <<ListingAgain(b)>>)
  BY HideHiddenIs
<1>6. b \in SUBSET Dirs
  BY DirsAre
<1>7. AgainIn(calls') /\ Calling(calls', Clearing(Top)) /\ \A d : ComingIn(calls', d) = {}
  BY <1>5, <1>6, ClearedAgain
<1>8. FilesOfDir(model, Root) \subseteq Due[Root]
  BY <1>1, <1>4 DEF Holds
<1>9. FollowedNow(model, calls', Due, missed, {Root})
  BY <1>7, <1>8, ClearedFollows
<1> QED  BY <1>2, <1>4, <1>9 DEF FollowedNext

LEMMA ReloadFollowed ==
  ASSUME FollowedIdle, Reload
  PROVE  FollowedNext
<1>1. /\ \A e \in connected : Holds(model, Due, missed, e)
      /\ HeldTrue
      /\ \A e \in Dirs : Due[e] \subseteq has[e] /\ Due[e] = IF e \in loading THEN read[e] ELSE has[e]
  BY FollowedIdleIs
<1>2. /\ model' = model /\ connected' = {Root}
      /\ has' = has /\ loading' \subseteq loading
      /\ read' = [d \in Dirs |-> IF d \in loading' THEN read[d] ELSE {}]
  BY DEF Reload
<1>3. calls' = <<Clearing(Top)>> \o <<ListingAgain({Root})>>
  BY ReloadIs
<1>4. AgainIn(calls') /\ Calling(calls', Clearing(Top)) /\ \A d : ComingIn(calls', d) = {}
  BY <1>3, ClearedAgain
<1>5. Root \in Dirs
  BY DirsAre
<1>6. FilesOfDir(model, Root) \subseteq Due[Root]
  BY <1>1 DEF Holds, HeldTrue
<1>7. Due[Root] \subseteq Due'[Root]
  BY <1>1, <1>2, <1>5 DEF Due
<1>8. FollowedNow(model, calls', Due', missed', {Root})
  BY <1>4, <1>6, <1>7, ClearedFollows
<1> QED  BY <1>2, <1>8 DEF FollowedNext

LEMMA HappensFollowed ==
  ASSUME Always, GoodNow(model, calls, connected), FollowedNow(model, calls, Due, missed, connected),
         Happens, mishaps' \subseteq {"single"}
  PROVE  FollowedNext
<1>1. calls = <<>> /\ after' \in 0 .. MaxAfter
  <2>1. after \in 0 .. MaxAfter /\ MaxAfter \in Nat
    BY BoundsAssumption DEF Always, TypeOK
  <2>2. calls = <<>> /\ (after' = 0 \/ (after < MaxAfter /\ after' = after + 1))
    BY DEF Happens
  <2> QED  BY <2>1, <2>2
<1>2. FollowedIdle
  BY <1>1 DEF FollowedIdle, GoodIdle, Idle, Fine
<1> QED  BY <1>2, BatchFollowed, ReadingEndsFollowed, FileAddedFollowed, FileDeletedFollowed, FileGrowsFollowed,
             ExpandFollowed, CollapseFollowed, UnloadTimerFollowed, SortFollowed, HideHiddenFollowed,
             ReloadFollowed DEF Happens

-------------------------------------------------------------------------------
(* The steps of the calls keep FollowedTrue.                               *)

\* A call that is made, for a row that no followed folder has, or below the
\* view's folder when that is to be listed again.
LEMMA FollowsMade ==
  ASSUME NEW m, NEW c \in Seq(Calls), NEW h, NEW l, NEW followed, FollowedNow(m, c, h, l, followed),
         NEW x \in Calls, x.do \notin {"list", "again"}, x # Clearing(Top),
         \A d \in followed : GoneOf(m, x, d) = {} \/ Partial(c, l, d)
  PROVE  FollowedNow(m, <<x>> \o c, h, l, followed)
<1> DEFINE e == <<x>> \o c
<1>1. /\ AgainIn(e) <=> AgainOf(x) \/ AgainIn(c)
      /\ \A d : ComingIn(e, d) = ComingOf(x, d) \cup ComingIn(c, d)
      /\ \A d : GoneIn(m, e, d) = GoneOf(m, x, d) \cup GoneIn(m, c, d)
      /\ Calling(e, Clearing(Top)) <=> x = Clearing(Top) \/ Calling(c, Clearing(Top))
  BY FollowPushed
<1>2. ~ AgainOf(x) /\ \A d : ComingOf(x, d) = {}
  BY CallFollows
<1> HIDE DEF e
<1>3. /\ AgainIn(e) <=> AgainIn(c)
      /\ \A d : ComingIn(e, d) = ComingIn(c, d)
      /\ Calling(e, Clearing(Top)) <=> Calling(c, Clearing(Top))
  BY <1>1, <1>2
<1>4. \A d : Partial(e, l, d) <=> Partial(c, l, d)
  BY <1>3 DEF Partial
<1>5. \A d \in followed : Partial(c, l, d) \/ GoneIn(m, e, d) = GoneIn(m, c, d)
  BY <1>1
<1>6. \A d \in followed : Follows(m, e, h, l, d)
  <2> TAKE d \in followed
  <2>1. Follows(m, c, h, l, d)
    BY DEF FollowedNow
  <2> DEFINE files(all) == (FilesOfDir(m, d) \cup ComingIn(all, d)) \ GoneIn(m, all, d)
  <2>2. files(e) \subseteq files(c)
    BY <1>1, <1>3
  <2>3. CASE Partial(c, l, d)
    BY <1>4, <2>1, <2>2, <2>3 DEF Follows
  <2>4. CASE ~ Partial(c, l, d)
    <3>1. files(e) = files(c)
      BY <1>3, <1>5, <2>4
    <3> QED  BY <1>4, <2>1, <2>4, <3>1 DEF Follows
  <2> QED  BY <2>3, <2>4
<1> QED  BY <1>3, <1>6 DEF FollowedNow, e

\* A call has returned that neither removes nor clears, and has listed all.
LEMMA FollowsReturned ==
  ASSUME NEW m, NEW c \in Seq(Calls), c # <<>>, NEW h, NEW l, NEW followed, FollowedNow(m, c, h, l, followed),
         Head(c).do # "remove", Head(c) # Clearing(Top), ~ AgainOf(Head(c)),
         \A d : ComingOf(Head(c), d) = {}
  PROVE  Tail(c) \in Seq(Calls) /\ FollowedNow(m, Tail(c), h, l, followed)
<1> DEFINE x == Head(c)
           t == Tail(c)
<1>1. t \in Seq(Calls) /\ x \in Calls /\ c = <<x>> \o t
  BY Popped
<1> HIDE DEF x, t
<1>2. /\ AgainIn(c) <=> AgainOf(x) \/ AgainIn(t)
      /\ \A d : ComingIn(c, d) = ComingOf(x, d) \cup ComingIn(t, d)
      /\ \A d : GoneIn(m, c, d) = GoneOf(m, x, d) \cup GoneIn(m, t, d)
      /\ Calling(c, Clearing(Top)) <=> x = Clearing(Top) \/ Calling(t, Clearing(Top))
  BY <1>1, FollowPushed
<1>3. \A d : GoneOf(m, x, d) = {}
  BY <1>1, CallFollows DEF x
<1>4. /\ AgainIn(c) <=> AgainIn(t)
      /\ \A d : ComingIn(c, d) = ComingIn(t, d) /\ GoneIn(m, c, d) = GoneIn(m, t, d)
      /\ Calling(c, Clearing(Top)) <=> Calling(t, Clearing(Top))
  BY <1>2, <1>3 DEF x
<1>5. \A d : Follows(m, c, h, l, d) <=> Follows(m, t, h, l, d)
  BY <1>4 DEF Follows, Partial
<1> QED  BY <1>1, <1>4, <1>5 DEF FollowedNow, t

FollowedBusy == GoodBusy /\ FollowedNow(model, calls, Due, missed, connected)

LEMMA FollowedBusyIs ==
  ASSUME FollowedBusy
  PROVE  /\ ModelTrue(model) /\ calls \in Seq(Calls) /\ calls # <<>> /\ Call = Head(calls) /\ Call \in Calls
         /\ Tail(calls) \in Seq(Calls) /\ calls = <<Call>> \o Tail(calls)
         /\ GoodNow(model, calls, connected) /\ FollowedNow(model, calls, Due, missed, connected)
         /\ CallNested(model, Call, Tail(calls), connected) /\ CallTrue(model, Call, Tail(calls))
         /\ connected' = connected /\ has' = has
         /\ UNCHANGED reading => Due' = Due /\ missed' = missed
<1>1. has' = has /\ (UNCHANGED reading => Due' = Due /\ missed' = missed)
  BY DEF FollowedBusy, GoodBusy, Busy, Others, reading, Due
<1> QED  BY <1>1, GoodBusyIs DEF FollowedBusy, GoodBusy

\* A child of a row that goes.
LEMMA ChildGoneFollows ==
  ASSUME FollowedBusy, RowCall(Call), NEW row \in DOMAIN model.lists, Call.row = row, row # Top,
         NEW f \in Entries, NEW d \in connected
  PROVE  GoneOf(model, Removing(Append(row, f)), d) = {}
<1>1. /\ ModelTrue(model) /\ GoodNow(model, calls, connected)
      /\ CallNested(model, Call, Tail(calls), connected)
  BY FollowedBusyIs
<1>2. row \in Seq(Entries)
  BY <1>1, ModelTypes
<1>3. \A s \in Below(row, model.sub) : Last(s) \notin connected
  BY <1>1 DEF CallNested
<1>4. ParentOf(model, d) # row
  BY <1>1, <1>2, <1>3, NotBelow
<1>5. ParentOf(model, d) \in Seq(Entries)
  BY <1>1, FollowedRow
<1> QED  BY <1>2, <1>4, <1>5, GoneIs

LEMMA RemoveChildFollowed ==
  ASSUME FollowedBusy, UNCHANGED reading, RemoveChild
  PROVE  FollowedNext
<1> DEFINE row == Call.row
<1>1. /\ ModelTrue(model) /\ calls \in Seq(Calls) /\ calls # <<>> /\ Call = Head(calls)
      /\ connected' = connected /\ Due' = Due /\ missed' = missed
      /\ GoodNow(model, calls, connected) /\ FollowedNow(model, calls, Due, missed, connected)
      /\ CallTrue(model, Call, Tail(calls))
  BY FollowedBusyIs
<1>2. Call.do = "remove" /\ row \in DOMAIN model.lists /\ model.lists[row] # <<>> /\ RowCall(Call)
  BY DEF RemoveChild, HasChild, RowCall
<1>3. CASE Head(model.lists[row]) = Dummy
  <2>1. model' = RemoveDummy(model, row) /\ calls' = calls
    BY <1>3 DEF RemoveChild
  <2>2. Emptied(model, model', row)
    BY <1>1, <1>2, <1>3, <2>1, DummyIsRemoved
  <2> HIDE DEF row
  <2>3. /\ model'.lists[row] = <<>> /\ model.lists[row] = <<Dummy>>
        /\ \A r \in DOMAIN model.lists \ {row} : model'.lists[r] = model.lists[r]
        /\ model'.sub = model.sub /\ model'.dirs = model.dirs /\ model'.open \subseteq model.open
    BY <2>2 DEF Emptied
  <2>4. ToSet(<<>>) = {} /\ ToSet(<<Dummy>>) = {Dummy}
    BY DEF ToSet
  <2>5. \A r \in DOMAIN model.lists : ToSet(model'.lists[r]) \ {Dummy} = ToSet(model.lists[r]) \ {Dummy}
    BY <2>3, <2>4
  <2>6. \A d : FilesOfDir(model', d) = FilesOfDir(model, d)
    BY <1>1, <2>3, <2>5, SameFiles
  <2>7. FollowedNow(model', calls, Due, missed, connected)
    BY <1>1, <2>3, <2>6, FollowsSame
  <2> QED  BY <1>1, <2>1, <2>7 DEF FollowedNext
<1>4. CASE Head(model.lists[row]) # Dummy
  <2> DEFINE f == Head(model.lists[row])
  <2>1. model' = model /\ calls' = <<Removing(ChildToRemove(model, row))>> \o calls
    BY <1>4 DEF RemoveChild, MakeCalls
  <2>2. ChildToRemove(model, row) = Append(row, f)
    BY <1>1, <1>2, <1>4, ChildIsFound
  <2>3. f \in Entries /\ Append(row, f) \in Seq(Entries)
    BY <1>1, <1>2, HeadOfList
  <2>4. Call.row = row /\ row # Top
    BY <1>1, <1>2 DEF CallTrue
  <2> HIDE DEF f, row
  <2> DEFINE x == Removing(Append(row, f))
  <2>5. \A d \in connected : GoneOf(model, x, d) = {}
    BY <1>2, <2>3, <2>4, ChildGoneFollows
  <2>6. x \in Calls /\ x.do = "remove" /\ x # Clearing(Top)
    BY <2>3, RowCallsMade, ZenonT(40)
  <2> HIDE DEF x
  <2>7. FollowedNow(model, <<x>> \o calls, Due, missed, connected)
    BY <1>1, <2>5, <2>6, FollowsMade
  <2> QED  BY <1>1, <2>1, <2>2, <2>7 DEF FollowedNext, x
<1> QED  BY <1>3, <1>4

LEMMA RemoveItselfFollowed ==
  ASSUME FollowedBusy, UNCHANGED reading, RemoveItself
  PROVE  FollowedNext
<1> DEFINE row == Call.row
           parent == Front(Call.row)
           f == Last(Call.row)
           t == Tail(calls)
<1>1. /\ ModelTrue(model) /\ Call = Head(calls) /\ Call \in Calls
      /\ connected' = connected /\ Due' = Due /\ missed' = missed
      /\ t \in Seq(Calls) /\ calls = <<Call>> \o t
      /\ GoodNow(model, calls, connected) /\ FollowedNow(model, calls, Due, missed, connected)
      /\ CallNested(model, Call, t, connected)
  BY FollowedBusyIs
<1>2. /\ Removed(model, model', parent, f)
      /\ parent \in DOMAIN model.lists /\ f \in ToSet(model.lists[parent])
      /\ Append(parent, f) = row /\ calls' = t /\ Call = Removing(row)
  BY RemoveItselfIs DEF FollowedBusy, GoodBusy
<1>3. Call.do = "remove" /\ RowCall(Call) /\ Call # Clearing(Top)
  BY RowCallsMade DEF RemoveItself, RowCall
<1>4. NoneListing(t)
  BY GoodBusyIs DEF FollowedBusy
<1>5. \A s \in Below(row, model.sub) : Last(s) \notin connected
  BY <1>1, <1>3 DEF CallNested
<1> HIDE DEF row, parent, f, t
<1>6. /\ row # parent /\ row # Top
      /\ ToSet(model'.lists[parent]) \ {Dummy} = ToSet(model.lists[parent]) \ {Dummy, f}
      /\ \A r \in DOMAIN model.lists \ {parent, row} : model'.lists[r] = model.lists[r]
      /\ model'.sub = model.sub \ {row} /\ model'.open \subseteq model.open \ {row}
      /\ model'.dirs = (IF row \in model.sub THEN Without(model.dirs, {f}) ELSE model.dirs)
  BY <1>2 DEF Removed
<1>7. parent \in Seq(Entries) /\ f \in Entries /\ row \in Seq(Entries)
  <2>1. Tree(model.lists)
    BY <1>1 DEF ModelTrue
  <2> QED  BY <1>2, <2>1, RowOfTree, ChildIsOnTree
<1>8. Last(row) = f
  BY <1>2, <1>7, AppendFront
<1>9. row \in model.sub => f \notin connected
  <2>1. IsPrefix(row, row)
    BY <1>7, RowsNest
  <2>2. row \in model.sub => row \in Below(row, model.sub)
    BY <2>1 DEF Below
  <2> QED  BY <1>5, <1>8, <2>2
<1>10. \A d \in connected : ParentOf(model', d) = ParentOf(model, d)
  BY <1>6, <1>9 DEF ParentOf, Without
<1>11. \A d \in connected : /\ ParentOf(model, d) # row /\ ParentOf(model, d) \in DOMAIN model.lists
                            /\ ParentOf(model, d) \in Seq(Entries)
  BY <1>1, <1>5, <1>6, <1>7, NotBelow, FollowedRow
<1>12. \A d \in connected : FilesOfDir(model', d) = FilesOfDir(model, d) \ GoneOf(model, Call, d)
  <2> TAKE d \in connected
  <2>1. GoneOf(model, Call, d) = IF ParentOf(model, d) = parent THEN {f} ELSE {}
    BY <1>2, <1>7, <1>11, GoneIs
  <2>2. CASE ParentOf(model, d) = parent
    BY <1>6, <1>10, <2>1, <2>2 DEF FilesOfDir
  <2>3. CASE ParentOf(model, d) # parent
    BY <1>6, <1>10, <1>11, <2>1, <2>3 DEF FilesOfDir
  <2> QED  BY <2>2, <2>3
<1>13. /\ AgainIn(calls) <=> AgainOf(Call) \/ AgainIn(t)
       /\ \A d : ComingIn(calls, d) = ComingOf(Call, d) \cup ComingIn(t, d)
       /\ \A d : GoneIn(model, calls, d) = GoneOf(model, Call, d) \cup GoneIn(model, t, d)
       /\ Calling(calls, Clearing(Top)) <=> Call = Clearing(Top) \/ Calling(t, Clearing(Top))
  BY <1>1, FollowPushed
<1>14. ~ AgainOf(Call) /\ \A d : ComingOf(Call, d) = {}
  BY <1>1, <1>3, CallFollows
<1>15. \A d : ComingIn(t, d) = {}
  BY <1>4 DEF ComingIn, ComingOf, NoneListing
<1>16. \A d \in connected : GoneIn(model', t, d) = GoneIn(model, t, d)
  BY <1>10 DEF GoneIn
<1>17. \A d \in connected : Follows(model', t, Due, missed, d)
  <2> TAKE d \in connected
  <2>1. Follows(model, calls, Due, missed, d)
    BY <1>1 DEF FollowedNow
  <2>2. Partial(calls, missed, d) <=> Partial(t, missed, d)
    BY <1>13, <1>14 DEF Partial
  <2>3. ComingIn(calls, d) = {} /\ ComingIn(t, d) = {}
    BY <1>13, <1>14, <1>15
  <2>4. FilesOfDir(model, d) \ (GoneOf(model, Call, d) \cup GoneIn(model, t, d))
          = FilesOfDir(model', d) \ GoneIn(model', t, d)
    BY <1>12, <1>16
  <2>5. (FilesOfDir(model, d) \cup ComingIn(calls, d)) \ GoneIn(model, calls, d)
          = (FilesOfDir(model', d) \cup ComingIn(t, d)) \ GoneIn(model', t, d)
    BY <1>13, <2>3, <2>4
  <2> QED  BY <2>1, <2>2, <2>5 DEF Follows
<1>18. OpenFollowed(model, connected) => OpenFollowed(model', connected)
  BY <1>6 DEF OpenFollowed
<1>19. /\ Calling(t, Clearing(Top)) \/ OpenFollowed(model', connected)
       /\ Calling(t, Clearing(Top)) => Root \in missed \/ AgainIn(t)
  BY <1>1, <1>3, <1>13, <1>14, <1>18 DEF FollowedNow
<1> QED  BY <1>1, <1>2, <1>17, <1>19 DEF FollowedNext, FollowedNow

LEMMA ClearDirectoryFollowed ==
  ASSUME FollowedBusy, UNCHANGED reading, ClearDirectory
  PROVE  FollowedNext
<1> DEFINE row == Call.row
           first == Append(row, Head(model.lists[row]))
<1>1. /\ ModelTrue(model) /\ calls \in Seq(Calls) /\ calls # <<>> /\ Call = Head(calls) /\ Call \in Calls
      /\ connected' = connected /\ Due' = Due /\ missed' = missed
      /\ Tail(calls) \in Seq(Calls) /\ calls = <<Call>> \o Tail(calls)
      /\ GoodNow(model, calls, connected) /\ FollowedNow(model, calls, Due, missed, connected)
  BY FollowedBusyIs
<1>2. Call.do = "clear" /\ row \in DOMAIN model.lists /\ model' = model /\ RowCall(Call)
  BY DEF ClearDirectory, RowCall
<1>3. Call = Clearing(row)
  BY <1>1, <1>2, CallIs
<1>4. /\ AgainIn(calls) <=> AgainOf(Call) \/ AgainIn(Tail(calls))
      /\ \A d : ComingIn(calls, d) = ComingOf(Call, d) \cup ComingIn(Tail(calls), d)
      /\ \A d : GoneIn(model, calls, d) = GoneOf(model, Call, d) \cup GoneIn(model, Tail(calls), d)
      /\ Calling(calls, Clearing(Top)) <=> Call = Clearing(Top) \/ Calling(Tail(calls), Clearing(Top))
  <2> DEFINE t == Tail(calls)
             x == Call
  <2>1. t \in Seq(Calls) /\ x \in Calls /\ calls = <<x>> \o t
    BY <1>1
  <2> HIDE DEF t, x
  <2>2. /\ AgainIn(calls) <=> AgainOf(x) \/ AgainIn(t)
        /\ \A d : ComingIn(calls, d) = ComingOf(x, d) \cup ComingIn(t, d)
        /\ \A d : GoneIn(model, calls, d) = GoneOf(model, x, d) \cup GoneIn(model, t, d)
        /\ Calling(calls, Clearing(Top)) <=> x = Clearing(Top) \/ Calling(t, Clearing(Top))
    BY <2>1, FollowPushed
  <2> QED  BY <2>2 DEF t, x
<1>5. ~ AgainOf(Call) /\ \A d : ComingOf(Call, d) = {} /\ GoneOf(model, Call, d) = {}
  BY <1>1, <1>2, CallFollows
<1>6. CASE ~ HasChild(row) /\ row # Top
  <2>1. calls' = Tail(calls)
    BY <1>6 DEF ClearDirectory, Return
  <2>2. Call # Clearing(Top)
    BY <1>6, RowCallsMade
  <2> QED  BY <1>1, <1>2, <1>5, <2>1, <2>2, FollowsReturned DEF FollowedNext
<1>7. CASE ~ HasChild(row) /\ row = Top
  <2>1. calls' = Tail(calls) /\ model.lists[Top] = <<>>
    BY <1>2, <1>7 DEF ClearDirectory, Return, HasChild
  <2>2. model.open = {}
    <3>1. ASSUME NEW r \in model.open PROVE FALSE
      <4>1. r \in DOMAIN model.lists \ {Top} /\ Tree(model.lists)
        BY <1>1 DEF ModelTrue
      <4>2. r \in Seq(Entries) /\ Top \in Seq(Entries)
        BY <1>1, <4>1, ModelTypes, EmptySeq DEF Top
      <4>3. IsPrefix(Top, r)
        <5>1. Len(Top) = 0 /\ Len(r) \in Nat
          BY <4>2, LenProperties DEF Top
        <5>2. IsPrefix(Top, r) <=> Len(Top) <= Len(r) /\ \A i \in 1 .. Len(Top) : Top[i] = r[i]
          BY <4>2, PrefixIs
        <5> QED  BY <5>1, <5>2
      <4> QED  BY <2>1, <4>1, <4>2, <4>3, BelowIsChild
    <3> QED  BY <3>1
  <2>3. OpenFollowed(model, connected)
    BY <2>2 DEF OpenFollowed
  <2>4. \A d : Follows(model, calls, Due, missed, d) <=> Follows(model, Tail(calls), Due, missed, d)
    BY <1>4, <1>5 DEF Follows, Partial
  <2>5. FollowedNow(model, Tail(calls), Due, missed, connected)
    BY <1>1, <1>4, <1>5, <2>3, <2>4 DEF FollowedNow
  <2> QED  BY <1>1, <1>2, <2>1, <2>5 DEF FollowedNext
<1>8. CASE HasChild(row)
  <2>1. calls' = ((IF first \in DOMAIN model.lists THEN <<Clearing(first)>> ELSE <<>>)
                          \o <<Removing(first)>>) \o calls
    BY <1>8 DEF ClearDirectory, MakeCalls
  <2>2. model.lists[row] # <<>>
    BY <1>8 DEF HasChild
  <2> DEFINE g == Head(model.lists[row])
  <2>3. g \in Entries /\ first \in Seq(Entries) /\ first = Append(row, g) /\ first # Top
    BY <1>1, <1>2, <2>2, HeadOfList
  <2>4. Call.row = row
    OBVIOUS
  <2> HIDE DEF g, first, row
  <2>5. \A d \in connected : GoneOf(model, Removing(first), d) = {} \/ Partial(calls, missed, d)
    <3>1. CASE row # Top
      BY <1>2, <2>3, <2>4, <3>1, ChildGoneFollows
    <3>2. CASE row = Top
      <4>1. Partial(calls, missed, Root)
        BY <1>1, <1>3, <1>4, <3>2 DEF FollowedNow, Partial
      <4>2. ASSUME NEW d \in connected, d # Root PROVE GoneOf(model, Removing(first), d) = {}
        <5>1. ParentOf(model, d) # Top /\ ParentOf(model, d) \in Seq(Entries)
          BY <1>1, <4>2, FollowedRow
        <5>2. row \in Seq(Entries)
          BY <1>1, <1>2, ModelTypes
        <5> QED  BY <2>3, <3>2, <5>1, <5>2, GoneIs
      <4> QED  BY <4>1, <4>2
    <3> QED  BY <3>1, <3>2
  <2>6. /\ Removing(first) \in Calls /\ Clearing(first) \in Calls
        /\ Removing(first).do = "remove" /\ Clearing(first).do = "clear"
        /\ Clearing(first) # Clearing(Top) /\ Removing(first) # Clearing(Top)
    <3>1. /\ Removing(first) \in Calls /\ Clearing(first) \in Calls
          /\ Removing(first).do = "remove" /\ Clearing(first).do = "clear" /\ Clearing(first).row = first
      BY <2>3, RowCallsMade
    <3>2. Clearing(Top).do = "clear" /\ Clearing(Top).row = Top
      BY RowCallsMade
    <3>3. Removing(first) # Clearing(Top)
      BY <3>1, <3>2
    <3>4. Clearing(first) # Clearing(Top)
      BY <2>3, <3>1, <3>2
    <3> QED  BY <3>1, <3>3, <3>4
  <2> DEFINE c == <<Removing(first)>> \o calls
  <2>7. FollowedNow(model, c, Due, missed, connected)
    BY <1>1, <2>5, <2>6, FollowsMade
  <2>8. c \in Seq(Calls)
    BY <1>1, <2>6, Pushed
  <2>9. CASE first \in DOMAIN model.lists
    <3>1. calls' = <<Clearing(first)>> \o c
      <4>1. <<Clearing(first)>> \in Seq(Calls) /\ <<Removing(first)>> \in Seq(Calls)
        BY <2>6, OneCall
      <4> QED  BY <1>1, <2>1, <2>9, <4>1, ConcatAssociative
    <3>2. \A d : GoneOf(model, Clearing(first), d) = {}
      BY <2>6, CallFollows
    <3> HIDE DEF c
    <3>3. FollowedNow(model, <<Clearing(first)>> \o c, Due, missed, connected)
      BY <2>6, <2>7, <2>8, <3>2, FollowsMade
    <3> QED  BY <1>1, <1>2, <3>1, <3>3 DEF FollowedNext
  <2>10. CASE first \notin DOMAIN model.lists
    <3>1. calls' = c
      <4>1. <<Removing(first)>> \in Seq(Calls)
        BY <2>6, OneCall
      <4> QED  BY <2>1, <2>10, <4>1, ConcatEmptySeq
    <3> QED  BY <1>1, <1>2, <2>7, <3>1 DEF FollowedNext
  <2> QED  BY <2>9, <2>10
<1> QED  BY <1>6, <1>7, <1>8

LEMMA UnloadChildFollowed ==
  ASSUME FollowedBusy, UNCHANGED reading, UnloadChild
  PROVE  FollowedNext
<1> DEFINE row == Call.row
           first == Append(row, Head(model.lists[row]))
<1>1. /\ ModelTrue(model) /\ calls \in Seq(Calls) /\ calls # <<>> /\ Call = Head(calls) /\ Call \in Calls
      /\ connected' = connected /\ Due' = Due /\ missed' = missed
      /\ FollowedNow(model, calls, Due, missed, connected)
      /\ CallNested(model, Call, Tail(calls), connected) /\ CallTrue(model, Call, Tail(calls))
  BY FollowedBusyIs
<1>2. /\ Call.do = "unload" /\ row \in model.sub /\ row \in DOMAIN model.lists /\ RowCall(Call)
      /\ row # Top
  BY <1>1 DEF UnloadChild, RowCall, ModelTrue
<1>3. CASE HasChild(row) /\ Head(model.lists[row]) # Dummy
  <2>1. calls' = <<Removing(first)>> \o calls /\ model' = model
    BY <1>3 DEF UnloadChild, MakeCalls
  <2>2. model.lists[row] # <<>>
    BY <1>3 DEF HasChild
  <2> DEFINE g == Head(model.lists[row])
  <2>3. g \in Entries /\ first \in Seq(Entries) /\ first = Append(row, g)
    BY <1>1, <1>2, <2>2, HeadOfList
  <2>4. Call.row = row
    OBVIOUS
  <2> HIDE DEF g, first, row
  <2>5. \A d \in connected : GoneOf(model, Removing(first), d) = {}
    BY <1>2, <2>3, <2>4, ChildGoneFollows
  <2>6. Removing(first) \in Calls /\ Removing(first).do = "remove" /\ Removing(first) # Clearing(Top)
    BY <2>3, RowCallsMade, ZenonT(40)
  <2>7. FollowedNow(model, <<Removing(first)>> \o calls, Due, missed, connected)
    BY <1>1, <2>5, <2>6, FollowsMade
  <2> QED  BY <1>1, <2>1, <2>7 DEF FollowedNext
<1>4. CASE ~ (HasChild(row) /\ Head(model.lists[row]) # Dummy)
  <2>1. model.rev[row] = {} /\ model' = Unloaded(model, row) /\ calls' = Tail(calls)
    BY <1>4 DEF UnloadChild, Return
  <2>2. Last(row) \notin DOMAIN model.dirs
    BY <1>1, <1>2 DEF CallTrue
  <2>3. /\ model'.lists = model.lists /\ model'.sub = model.sub \ {row} /\ model'.dirs = model.dirs
        /\ model'.open = model.open
    BY <1>1, <1>2, <2>1, <2>2, SubdirectoryUnloaded
  <2>4. Tail(calls) = <<>>
    BY <1>1, <1>2 DEF CallNested
  <2>5. Call # Clearing(Top) /\ ~ AgainOf(Call) /\ \A d : ComingOf(Call, d) = {}
    BY <1>1, <1>2, CallFollows
  <2>6. FollowedNow(model, <<>>, Due, missed, connected)
    BY <1>1, <1>2, <2>4, <2>5, FollowsReturned
  <2>7. OpenFollowed(model, connected) /\ \A d \in connected : Holds(model, Due, missed, d)
    BY <2>6, FollowsHolds
  <2>8. \A r \in model.open : r # row
    <3>1. IsPrefix(row, row)
      <4>1. row \in Seq(Entries)
        BY <1>1, <1>2, ModelTypes
      <4> QED  BY <4>1, DirsAre, RowsNest
    <3>2. row \in Below(row, model.sub)
      BY <1>2, <3>1 DEF Below
    <3>3. Last(row) \notin connected
      BY <1>1, <1>2, <3>2 DEF CallNested
    <3> QED  BY <2>7, <3>3 DEF OpenFollowed
  <2> HIDE DEF row
  <2>9. OpenFollowed(model', connected)
    BY <2>3, <2>7, <2>8 DEF OpenFollowed
  <2>10. \A d \in connected : Holds(model', Due, missed, d)
    BY <2>3, <2>7 DEF Holds, FilesOfDir, ParentOf
  <2>11. FollowedNow(model', <<>>, Due, missed, connected)
    BY <2>9, <2>10, FollowsHolds
  <2> QED  BY <1>1, <2>1, <2>4, <2>11 DEF FollowedNext
<1> QED  BY <1>3, <1>4

\* While files are listed or sorted, nothing goes.
ListingOnly(m, c) ==
  /\ ~ Calling(c, Clearing(Top)) /\ (\A d : ComingIn(c, d) = {}) /\ \A d : GoneIn(m, c, d) = {}

LEMMA ListingFollows ==
  ASSUME FollowedBusy, Call.do \in {"list", "sort", "again"}
  PROVE  /\ \A m : ListingOnly(m, Tail(calls))
         /\ OpenFollowed(model, connected)
         /\ \A d \in connected : LET files == FilesOfDir(model, d) \cup ComingOf(Call, d)
                                 IN  IF d \in missed \/ (d = Root /\ (AgainOf(Call) \/ AgainIn(Tail(calls))))
                                     THEN files \subseteq Due[d] ELSE files = Due[d]
<1> DEFINE t == Tail(calls)
           x == Call
<1>1. /\ t \in Seq(Calls) /\ x \in Calls /\ calls = <<x>> \o t
      /\ FollowedNow(model, calls, Due, missed, connected)
  BY FollowedBusyIs
<1>2. \A j \in DOMAIN t : t[j].do = "again"
  BY ListingIs DEF FollowedBusy, GoodBusy
<1>3. x.do \in {"list", "sort", "again"}
  OBVIOUS
<1> HIDE DEF t, x
<1>4. /\ AgainIn(calls) <=> AgainOf(x) \/ AgainIn(t)
      /\ \A d : ComingIn(calls, d) = ComingOf(x, d) \cup ComingIn(t, d)
      /\ \A d : GoneIn(model, calls, d) = GoneOf(model, x, d) \cup GoneIn(model, t, d)
      /\ Calling(calls, Clearing(Top)) <=> x = Clearing(Top) \/ Calling(t, Clearing(Top))
  BY <1>1, FollowPushed
<1>5. x # Clearing(Top) /\ \A d : GoneOf(model, x, d) = {}
  BY <1>1, <1>3, CallFollows
<1>6. ASSUME NEW m PROVE ListingOnly(m, t)
  <2>1. \A row : ~ Calling(t, Removing(row))
    BY <1>2, RowCallsMade DEF Calling
  <2>2. ~ Calling(t, Clearing(Top))
    BY <1>2, RowCallsMade DEF Calling
  <2>3. \A d : ComingIn(t, d) = {}
    BY <1>2 DEF ComingIn, ComingOf
  <2>4. \A d : GoneIn(m, t, d) = {}
    BY <2>1 DEF GoneIn
  <2> QED  BY <2>2, <2>3, <2>4 DEF ListingOnly
<1>7. OpenFollowed(model, connected)
  BY <1>1, <1>4, <1>5, <1>6 DEF FollowedNow, ListingOnly
<1>8. ASSUME NEW d \in connected
      PROVE  LET files == FilesOfDir(model, d) \cup ComingOf(x, d)
             IN  IF d \in missed \/ (d = Root /\ (AgainOf(x) \/ AgainIn(t)))
                 THEN files \subseteq Due[d] ELSE files = Due[d]
  <2>1. Follows(model, calls, Due, missed, d)
    BY <1>1 DEF FollowedNow
  <2>2. ComingIn(calls, d) = ComingOf(x, d) /\ GoneIn(model, calls, d) = {}
    BY <1>4, <1>5, <1>6 DEF ListingOnly
  <2> QED  BY <1>4, <2>1, <2>2 DEF Follows, Partial
<1> QED  BY <1>6, <1>7, <1>8 DEF t, x

\* So that it is enough to look at what was and is to be listed.
LEMMA FollowsListed ==
  ASSUME NEW m, NEW t \in Seq(Calls), ListingOnly(m, t), NEW h, NEW l, NEW followed, OpenFollowed(m, followed),
         NEW x \in Calls, x.do \in {"list", "sort", "again"},
         \A d \in followed : LET files == FilesOfDir(m, d) \cup ComingOf(x, d)
                             IN  IF d \in l \/ (d = Root /\ (AgainOf(x) \/ AgainIn(t)))
                                 THEN files \subseteq h[d] ELSE files = h[d]
  PROVE  FollowedNow(m, <<x>> \o t, h, l, followed)
<1> DEFINE c == <<x>> \o t
<1>1. /\ AgainIn(c) <=> AgainOf(x) \/ AgainIn(t)
      /\ \A d : ComingIn(c, d) = ComingOf(x, d) \cup ComingIn(t, d)
      /\ \A d : GoneIn(m, c, d) = GoneOf(m, x, d) \cup GoneIn(m, t, d)
      /\ Calling(c, Clearing(Top)) <=> x = Clearing(Top) \/ Calling(t, Clearing(Top))
  BY FollowPushed
<1>2. x # Clearing(Top) /\ \A d : GoneOf(m, x, d) = {}
  BY CallFollows
<1> HIDE DEF c
<1>3. ~ Calling(c, Clearing(Top)) /\ (\A d : ComingIn(c, d) = ComingOf(x, d)) /\ \A d : GoneIn(m, c, d) = {}
  BY <1>1, <1>2 DEF ListingOnly
<1>4. ASSUME NEW d \in followed PROVE Follows(m, c, h, l, d)
  <2>1. LET files == FilesOfDir(m, d) \cup ComingOf(x, d)
        IN  IF d \in l \/ (d = Root /\ (AgainOf(x) \/ AgainIn(t)))
            THEN files \subseteq h[d] ELSE files = h[d]
    OBVIOUS
  <2> QED  BY <1>1, <1>3, <2>1 DEF Follows, Partial
<1> QED  BY <1>3, <1>4 DEF FollowedNow, c

LEMMA AddedFiles ==
  ASSUME NEW m, ModelTrue(m), NEW c, NEW followed, GoodNow(m, c, followed), NEW d \in followed,
         NEW f \in Files, NEW n, n = AddFile(m, f, d)
  PROVE  /\ n.sub = m.sub /\ n.dirs = m.dirs /\ n.open = m.open
         /\ FilesOfDir(n, d) = FilesOfDir(m, d) \cup {f}
         /\ \A e \in followed : e # d => FilesOfDir(n, e) = FilesOfDir(m, e)
<1> DEFINE parent == ParentOf(m, d)
<1>1. parent \in DOMAIN m.lists /\ parent \in DOMAIN m.rev
  BY ParentIs
<1>2. IF f \in m.rev[parent] THEN n = m ELSE Added(m, n, parent, f)
  BY AddFileIs
<1>3. CASE f \in m.rev[parent]
  <2>1. f \in ToSet(m.lists[parent]) \ {Dummy}
    BY <1>1, <1>3 DEF ModelTrue
  <2> QED  BY <1>2, <1>3, <2>1 DEF FilesOfDir
<1>4. CASE f \notin m.rev[parent]
  <2> HIDE DEF parent
  <2>1. /\ ToSet(n.lists[parent]) = (ToSet(m.lists[parent]) \ {Dummy}) \cup {f}
        /\ \A r \in DOMAIN m.lists \ {parent} : n.lists[r] = m.lists[r]
        /\ n.sub = m.sub /\ n.dirs = m.dirs /\ n.open = m.open
    BY <1>2, <1>4 DEF Added
  <2>2. \A e : ParentOf(n, e) = ParentOf(m, e)
    BY <2>1 DEF ParentOf
  <2>3. FilesOfDir(n, d) = FilesOfDir(m, d) \cup {f}
    BY <2>1, <2>2, DirsAre DEF FilesOfDir, parent
  <2>4. ASSUME NEW e \in followed, e # d PROVE FilesOfDir(n, e) = FilesOfDir(m, e)
    <3>1. ParentOf(m, e) # parent /\ ParentOf(m, e) \in DOMAIN m.lists
      BY <2>4, FollowedRow DEF parent
    <3> QED  BY <2>1, <2>2, <3>1 DEF FilesOfDir
  <2> QED  BY <2>1, <2>3, <2>4
<1> QED  BY <1>3, <1>4

LEMMA ListFileFollowed ==
  ASSUME FollowedBusy, UNCHANGED reading, ListFile
  PROVE  FollowedNext
<1> DEFINE t == Tail(calls)
           D == Call.dir
<1>1. /\ ModelTrue(model) /\ Call \in Calls /\ t \in Seq(Calls) /\ GoodNow(model, calls, connected)
      /\ connected' = connected /\ Due' = Due /\ missed' = missed
      /\ CallNested(model, Call, t, connected)
  BY FollowedBusyIs
<1>2. PICK f \in Call.files :
            /\ model' = AddFile(model, f, D) /\ f \in Files
            /\ calls' = <<Listing(D, Call.files \ {f}, Call.last)>> \o t
            /\ D \in Dirs /\ Call.files \subseteq Files /\ Call.last \in BOOLEAN
  BY ListFileIs DEF FollowedBusy, GoodBusy
<1>3. Call.do = "list"
  BY DEF ListFile
<1>4. D \in connected
  BY <1>1, <1>3 DEF CallNested
<1> DEFINE s == Call.files \ {f}
<1>5. s \in SUBSET Files /\ Call.files \in SUBSET Files /\ Call.files = s \cup {f}
  BY <1>2
<1>6. /\ ListingOnly(model', t) /\ OpenFollowed(model, connected)
      /\ \A d \in connected : LET files == FilesOfDir(model, d) \cup ComingOf(Call, d)
                              IN  IF d \in missed \/ (d = Root /\ (AgainOf(Call) \/ AgainIn(t)))
                                  THEN files \subseteq Due[d] ELSE files = Due[d]
  BY <1>3, ListingFollows
<1>7. /\ model'.sub = model.sub /\ model'.dirs = model.dirs /\ model'.open = model.open
      /\ FilesOfDir(model', D) = FilesOfDir(model, D) \cup {f}
      /\ \A e \in connected : e # D => FilesOfDir(model', e) = FilesOfDir(model, e)
  BY <1>1, <1>2, <1>4, AddedFiles
<1>8. ComingOf(Call, D) = Call.files /\ \A e : e # D => ComingOf(Call, e) = {}
  <2> DEFINE all == Call.files
             y == Call
  <2>1. all \in SUBSET Files /\ y.do = "list" /\ y.dir = D /\ y.files = all
    BY <1>2, <1>3
  <2> HIDE DEF all, D, y
  <2>2. ComingOf(y, D) = all /\ \A e : e # D => ComingOf(y, e) = {}
    BY <2>1, ListFollows
  <2> QED  BY <2>2 DEF all, y
<1> HIDE DEF t, D, s
<1> DEFINE x == Listing(D, s, Call.last)
<1>9. x \in Calls /\ x.do = "list" /\ x.dir = D /\ x.files = s
  BY <1>2, <1>5 DEF Listing, Calls
<1>10. ComingOf(x, D) = s /\ \A e : e # D => ComingOf(x, e) = {}
  <2> HIDE DEF x
  <2> QED  BY <1>5, <1>9, ListFollows
<1> HIDE DEF x
<1>11. ~ AgainOf(x) /\ ~ AgainOf(Call)
  BY <1>1, <1>3, <1>9, CallFollows
<1>12. \A d \in connected : FilesOfDir(model', d) \cup ComingOf(x, d) = FilesOfDir(model, d) \cup ComingOf(Call, d)
  <2> TAKE d \in connected
  <2>1. CASE d = D
    BY <1>5, <1>7, <1>8, <1>10, <2>1
  <2>2. CASE d # D
    BY <1>7, <1>8, <1>10, <2>2
  <2> QED  BY <2>1, <2>2
<1>13. OpenFollowed(model', connected)
  BY <1>6, <1>7 DEF OpenFollowed
<1>14. ASSUME NEW d \in connected
       PROVE  LET files == FilesOfDir(model', d) \cup ComingOf(x, d)
              IN  IF d \in missed \/ (d = Root /\ (AgainOf(x) \/ AgainIn(t)))
                  THEN files \subseteq Due[d] ELSE files = Due[d]
  BY <1>6, <1>11, <1>12
<1>15. FollowedNow(model', <<x>> \o t, Due, missed, connected)
  BY <1>1, <1>6, <1>9, <1>13, <1>14, FollowsListed
<1> QED  BY <1>1, <1>2, <1>15 DEF FollowedNext, x, s

LEMMA ListDoneFollowed ==
  ASSUME FollowedBusy, UNCHANGED reading, ListDone
  PROVE  FollowedNext
<1>1. /\ ModelTrue(model) /\ calls \in Seq(Calls) /\ calls # <<>> /\ Call = Head(calls) /\ Call \in Calls
      /\ Tail(calls) \in Seq(Calls)
      /\ connected' = connected /\ Due' = Due /\ missed' = missed
      /\ FollowedNow(model, calls, Due, missed, connected)
  BY FollowedBusyIs
<1>2. /\ calls' = <<Sorting(ListsToSort(model))>> \o Tail(calls) \/ calls' = Tail(calls)
      /\ model' = model /\ Call.do = "list" /\ Call.files = {}
  BY DEF ListDone
<1>3. Call # Clearing(Top) /\ ~ AgainOf(Call) /\ \A d : ComingOf(Call, d) = {}
  BY <1>1, <1>2, CallFollows DEF ComingOf
<1>4. FollowedNow(model, Tail(calls), Due, missed, connected)
  BY <1>1, <1>2, <1>3, FollowsReturned
<1> DEFINE x == Sorting(ListsToSort(model))
<1>5. x \in Calls /\ x.do = "sort"
  BY <1>1, ListsToSortIs, ListCallsMade
<1> HIDE DEF x
<1>6. x # Clearing(Top) /\ \A d : GoneOf(model, x, d) = {}
  BY <1>5, CallFollows
<1>7. FollowedNow(model, <<x>> \o Tail(calls), Due, missed, connected)
  BY <1>1, <1>4, <1>5, <1>6, FollowsMade
<1> QED  BY <1>1, <1>2, <1>4, <1>7 DEF FollowedNext, x

\* Before the view's folder is asked for again, its rows have been cleared: that
\* is the next call after clearing them.
ClearedFirst(m, c) ==
  AgainIn(c) => \E i \in 0 .. Len(c) :
                   /\ IF i = 0 THEN m.lists[Top] = <<>> ELSE c[i] = Clearing(Top)
                   /\ \A j \in DOMAIN c : AgainOf(c[j]) => j = i + 1

\* While files are listed or folders asked for, nothing is cleared any more.
LEMMA ClearedListing ==
  ASSUME GoodBusy, Call.do \in {"list", "sort", "again"}, ClearedFirst(model, calls)
  PROVE  /\ ~ AgainIn(Tail(calls))
         /\ AgainOf(Call) => model.lists[Top] = <<>>
<1> DEFINE t == Tail(calls)
           x == Call
<1>1. t \in Seq(Calls) /\ x \in Calls /\ calls = <<x>> \o t
  BY GoodBusyIs
<1>2. \A j \in DOMAIN t : t[j].do = "again"
  BY ListingIs DEF GoodBusy
<1>3. x.do \in {"list", "sort", "again"}
  OBVIOUS
<1> HIDE DEF t, x
<1>4. /\ DOMAIN calls = 1 .. Len(t) + 1 /\ DOMAIN t = 1 .. Len(t) /\ Len(t) \in Nat /\ calls[1] = x
      /\ \A i \in 1 .. Len(t) : calls[i + 1] = t[i]
      /\ \A i \in 2 .. Len(t) + 1 : calls[i] = t[i - 1] /\ i - 1 \in DOMAIN t
      /\ Len(calls) = Len(t) + 1
  BY <1>1, Pushed
<1>5. Clearing(Top).do = "clear"
  BY RowCallsMade
<1>6. \A i \in 1 .. Len(calls) : calls[i] # Clearing(Top)
  <2> TAKE i \in 1 .. Len(calls)
  <2>1. i = 1 \/ i \in 2 .. Len(t) + 1
    BY <1>4
  <2> QED  BY <1>2, <1>3, <1>4, <1>5, <2>1
<1>7. ASSUME AgainIn(calls) PROVE model.lists[Top] = <<>> /\ \A j \in DOMAIN calls : AgainOf(calls[j]) => j = 1
  <2>1. PICK i \in 0 .. Len(calls) : /\ IF i = 0 THEN model.lists[Top] = <<>> ELSE calls[i] = Clearing(Top)
                                     /\ \A j \in DOMAIN calls : AgainOf(calls[j]) => j = i + 1
    BY <1>7 DEF ClearedFirst
  <2>2. i = 0
    BY <1>4, <1>6, <2>1
  <2> QED  BY <2>1, <2>2
<1>8. ~ AgainIn(t)
  <2>1. SUFFICES ASSUME NEW i \in DOMAIN t, AgainOf(t[i]) PROVE FALSE
    BY DEF AgainIn
  <2>2. i + 1 \in DOMAIN calls /\ AgainOf(calls[i + 1]) /\ i + 1 # 1
    BY <1>4, <2>1
  <2>3. AgainIn(calls)
    BY <2>2 DEF AgainIn
  <2> QED  BY <1>7, <2>2, <2>3
<1>9. ASSUME AgainOf(x) PROVE model.lists[Top] = <<>>
  <2>1. 1 \in DOMAIN calls /\ AgainOf(calls[1])
    BY <1>4, <1>9
  <2>2. AgainIn(calls)
    BY <2>1 DEF AgainIn
  <2> QED  BY <1>7, <2>2
<1> QED  BY <1>8, <1>9 DEF t, x

LEMMA ListNextFollowed ==
  ASSUME FollowedBusy, ListNext, ClearedFirst(model, calls)
  PROVE  FollowedNext
<1> DEFINE t == Tail(calls)
<1>1. /\ calls \in Seq(Calls) /\ calls # <<>> /\ Call = Head(calls) /\ Call \in Calls /\ t \in Seq(Calls)
      /\ connected' = connected /\ has' = has
      /\ UNCHANGED reading => Due' = Due /\ missed' = missed
      /\ FollowedNow(model, calls, Due, missed, connected)
      /\ CallNested(model, Call, t, connected)
  BY FollowedBusyIs
<1>2. Call.do = "again" /\ model' = model
  BY DEF ListNext
<1>3. Call.dirs \subseteq {Root}
  BY <1>1, <1>2 DEF CallNested
<1>4. Call # Clearing(Top) /\ \A d : ComingOf(Call, d) = {}
  BY <1>1, <1>2, CallFollows
<1>5. CASE Call.dirs = {} /\ calls' = t /\ UNCHANGED reading
  <2>1. ~ AgainOf(Call)
    BY <1>5 DEF AgainOf
  <2> QED  BY <1>1, <1>2, <1>4, <1>5, <2>1, FollowsReturned DEF FollowedNext
<1>6. ASSUME NEW d \in Call.dirs, Load(d, <<ListingAgain(Call.dirs \ {d})>> \o t)
      PROVE  FollowedNext
  <2> DEFINE y == ListingAgain({})
             c == <<y>> \o t
  <2>1. d = Root /\ AgainOf(Call) /\ Load(Root, c)
    <3>1. d = Root /\ Call.dirs \ {d} = {} /\ Root \in Call.dirs
      BY <1>3, <1>6
    <3> QED  BY <1>2, <1>6, <3>1 DEF AgainOf
  <2>2. /\ ~ AgainIn(t) /\ model.lists[Top] = <<>>
        /\ ListingOnly(model, t) /\ OpenFollowed(model, connected)
        /\ \A e \in connected : LET files == FilesOfDir(model, e) \cup ComingOf(Call, e)
                                IN  IF e \in missed \/ (e = Root /\ (AgainOf(Call) \/ AgainIn(t)))
                                    THEN files \subseteq Due[e] ELSE files = Due[e]
    BY <1>2, <2>1, ListingFollows, ClearedListing DEF FollowedBusy
  <2>3. /\ OthersOK /\ HasTrue /\ ModelTrue(model)
        /\ \A e \in Dirs : Due[e] \subseteq has[e] /\ Due[e] = IF e \in loading THEN read[e] ELSE has[e]
        /\ connected \subseteq Dirs /\ Root \in Dirs /\ has[Root] \in SUBSET Files /\ read \in [Dirs -> SUBSET Files]
    BY GoodBusyIs, DueIs, DirsAre DEF FollowedBusy, OthersOK
  <2>4. FilesOfDir(model, Root) = {}
    <3>1. ParentOf(model, Root) = Top
      <4>1. Root \in connected
        BY GoodBusyIs DEF FollowedBusy, HeldTrue
      <4> QED  BY <4>1, FollowedBusyIs, FollowedRow
    <3> QED  BY <2>2, <3>1 DEF FilesOfDir, ToSet
  <2>5. y \in Calls /\ y.do = "again" /\ y.dirs = {}
    <3>1. {} \in SUBSET Dirs
      OBVIOUS
    <3> QED  BY <3>1, ListCallsMade
  <2> HIDE DEF y, t
  <2>6. ~ AgainOf(y) /\ y # Clearing(Top) /\ \A m, e : ComingOf(y, e) = {} /\ GoneOf(m, y, e) = {}
    BY <2>5, CallFollows DEF AgainOf
  <2>7. ASSUME NEW e \in connected, e # Root PROVE
          IF e \in missed THEN FilesOfDir(model, e) \subseteq Due[e] ELSE FilesOfDir(model, e) = Due[e]
    <3>1. ComingOf(Call, e) = {}
      BY <1>4
    <3> QED  BY <2>2, <2>7, <3>1
  \* The other folders stay as they were.
  <2>8. ASSUME missed' \ {Root} = missed \ {Root}, \A e \in Dirs \ {Root} : Due'[e] = Due[e],
               NEW e \in connected, e # Root
        PROVE  IF e \in missed' THEN FilesOfDir(model, e) \subseteq Due'[e] ELSE FilesOfDir(model, e) = Due'[e]
    <3>1. Due'[e] = Due[e] /\ (e \in missed' <=> e \in missed)
      BY <2>3, <2>8
    <3> QED  BY <2>7, <2>8, <3>1
  \* Nothing is listed.
  <2>9. ASSUME calls' = c, missed' \ {Root} = missed \ {Root}, \A e \in Dirs \ {Root} : Due'[e] = Due[e],
               Root \in missed' \/ Due'[Root] = {}
        PROVE  FollowedNext
    <3>1. ASSUME NEW e \in connected
          PROVE  LET files == FilesOfDir(model, e) \cup ComingOf(y, e)
                 IN  IF e \in missed' \/ (e = Root /\ (AgainOf(y) \/ AgainIn(t)))
                     THEN files \subseteq Due'[e] ELSE files = Due'[e]
      <4>1. CASE e = Root
        BY <2>2, <2>4, <2>6, <2>9, <4>1
      <4>2. CASE e # Root
        BY <2>2, <2>6, <2>8, <2>9, <4>2
      <4> QED  BY <4>1, <4>2
    <3>2. FollowedNow(model, c, Due', missed', connected)
      <4> HIDE DEF Due
      <4> QED  BY <1>1, <2>2, <2>5, <3>1, FollowsListed
    <3> QED  BY <1>1, <1>2, <2>9, <3>2 DEF FollowedNext
  <2>10. CASE /\ Root \in loading
              /\ missed' = IF read[Root] = {} THEN missed ELSE missed \cup {Root}
              /\ calls' = c
              /\ UNCHANGED <<loading, read, failed>>
    <3>1. Due' = Due
      BY <1>1, <2>10 DEF Due
    <3>2. Root \in missed' \/ Due'[Root] = {}
      BY <2>3, <2>10, <3>1
    <3>3. missed' \ {Root} = missed \ {Root}
      BY <2>10
    <3> QED  BY <2>9, <2>10, <3>1, <3>2, <3>3
  <2>11. CASE StartReading(Root) /\ calls' = c
    <3>1. /\ loading' = loading \cup {Root} /\ read' = [read EXCEPT ![Root] = {}]
          /\ missed' = missed \ {Root}
      BY <2>11 DEF StartReading
    <3>2. Due'[Root] = {} /\ \A e \in Dirs \ {Root} : Due'[e] = Due[e]
      BY <1>1, <2>3, <3>1 DEF Due
    <3> QED  BY <2>9, <2>11, <3>1, <3>2
  <2>12. CASE /\ Root \notin loading \cup failed
              /\ calls' = <<Listing(Root, has[Root], TRUE)>> \o c
              /\ missed' = missed \ {Root}
              /\ UNCHANGED <<loading, read, failed>>
    <3> DEFINE files == has[Root]
               x == Listing(Root, files, TRUE)
    <3>1. Due' = Due /\ Due[Root] = files
      BY <1>1, <2>3, <2>12 DEF Due
    <3>2. x \in Calls /\ x.do = "list" /\ x.dir = Root /\ x.files = files
      BY <2>3 DEF Listing, Calls
    <3>3. calls' = <<x>> \o c
      BY <2>12
    <3>10. files \in SUBSET Files
      BY <2>3
    <3> HIDE DEF x, files
    <3>4. ComingOf(x, Root) = files /\ \A e : e # Root => ComingOf(x, e) = {}
      BY <3>2, <3>10, ListFollows
    <3>5. ~ AgainOf(x)
      BY <3>2, CallFollows
    <3>6. /\ AgainIn(c) <=> AgainOf(y) \/ AgainIn(t)
          /\ \A e : ComingIn(c, e) = ComingOf(y, e) \cup ComingIn(t, e)
          /\ \A e : GoneIn(model, c, e) = GoneOf(model, y, e) \cup GoneIn(model, t, e)
          /\ Calling(c, Clearing(Top)) <=> y = Clearing(Top) \/ Calling(t, Clearing(Top))
      BY <1>1, <2>5, FollowPushed
    <3>7. c \in Seq(Calls)
      BY <1>1, <2>5, Pushed
    <3> HIDE DEF c
    <3>8. ListingOnly(model, c) /\ ~ AgainIn(c)
      BY <2>2, <2>6, <3>6 DEF ListingOnly
    <3>9. ASSUME NEW e \in connected
          PROVE  LET all == FilesOfDir(model, e) \cup ComingOf(x, e)
                 IN  IF e \in missed' \/ (e = Root /\ (AgainOf(x) \/ AgainIn(c)))
                     THEN all \subseteq Due'[e] ELSE all = Due'[e]
      <4>1. CASE e = Root
        BY <2>4, <3>1, <3>4, <4>1
      <4>2. CASE e # Root
        BY <2>8, <2>12, <3>1, <3>4, <4>2
      <4> QED  BY <4>1, <4>2
    <3>11. FollowedNow(model, <<x>> \o c, Due', missed', connected)
      <4> HIDE DEF Due
      <4> QED  BY <2>2, <3>2, <3>7, <3>8, <3>9, FollowsListed
    <3> QED  BY <1>1, <1>2, <3>3, <3>11 DEF FollowedNext
  <2> QED  BY <2>1, <2>10, <2>11, <2>12 DEF Load
<1> QED  BY <1>5, <1>6, ListNextIs DEF FollowedBusy, GoodBusy

LEMMA SortNextFollowed ==
  ASSUME FollowedBusy, UNCHANGED reading, SortNext
  PROVE  FollowedNext
<1>1. /\ ModelTrue(model) /\ calls \in Seq(Calls) /\ calls # <<>> /\ Call = Head(calls) /\ Call \in Calls
      /\ connected' = connected /\ Due' = Due /\ missed' = missed
      /\ FollowedNow(model, calls, Due, missed, connected)
  BY FollowedBusyIs
<1>2. Call.do = "sort"
  BY DEF SortNext
<1>3. Call # Clearing(Top) /\ ~ AgainOf(Call) /\ \A d : ComingOf(Call, d) = {}
  BY <1>1, <1>2, CallFollows
<1>4. Tail(calls) \in Seq(Calls) /\ FollowedNow(model, Tail(calls), Due, missed, connected)
  BY <1>1, <1>2, <1>3, FollowsReturned
<1>5. CASE calls' = Tail(calls) /\ model' = model
  BY <1>1, <1>4, <1>5 DEF FollowedNext
<1>6. ASSUME NEW row \in Call.rows, Rearranged(model, model', row), Call.rows \subseteq Seq(Folders),
             calls' = <<Sorting(Call.rows \ {row})>> \o Tail(calls)
      PROVE  FollowedNext
  <2>1. /\ model'.sub = model.sub /\ model'.dirs = model.dirs /\ model'.open = model.open
        /\ \A r \in DOMAIN model.lists : ToSet(model'.lists[r]) \ {Dummy} = ToSet(model.lists[r]) \ {Dummy}
    BY <1>6 DEF Rearranged, SameBut
  <2>2. \A d : FilesOfDir(model', d) = FilesOfDir(model, d)
    BY <1>1, <2>1, SameFiles
  <2>3. FollowedNow(model', Tail(calls), Due, missed, connected)
    BY <1>4, <2>1, <2>2, FollowsSame
  <2> DEFINE s == Call.rows \ {row}
             x == Sorting(s)
  <2>4. s \in SUBSET Seq(Folders)
    BY <1>6
  <2> HIDE DEF s
  <2>5. x \in Calls /\ x.do = "sort"
    BY <2>4, ListCallsMade
  <2> HIDE DEF x
  <2>6. x # Clearing(Top) /\ \A m, d : GoneOf(m, x, d) = {}
    BY <2>5, CallFollows
  <2>7. FollowedNow(model', <<x>> \o Tail(calls), Due, missed, connected)
    BY <1>4, <2>3, <2>5, <2>6, FollowsMade
  <2> QED  BY <1>1, <1>6, <2>7 DEF FollowedNext, x, s
<1> QED  BY <1>5, <1>6, SortNextIs DEF FollowedBusy, GoodBusy

LEMMA WorkingFollowed ==
  ASSUME Always, GoodNow(model, calls, connected), FollowedNow(model, calls, Due, missed, connected),
         ClearedFirst(model, calls), Working
  PROVE  FollowedNext
<1>1. FollowedBusy
  BY DEF Working, FollowedBusy, GoodBusy, Busy, Others
<1>2. CASE /\ RemoveChild \/ RemoveItself \/ ClearDirectory \/ UnloadChild \/ ListFile \/ ListDone \/ SortNext
           /\ UNCHANGED reading
  BY <1>1, <1>2, RemoveChildFollowed, RemoveItselfFollowed, ClearDirectoryFollowed, UnloadChildFollowed,
     ListFileFollowed, ListDoneFollowed, SortNextFollowed
<1>3. CASE ListNext
  BY <1>1, <1>3, ListNextFollowed
<1> QED  BY <1>2, <1>3 DEF Working

-------------------------------------------------------------------------------
(* The rows have been cleared.                                             *)

LEMMA ClearedPushed ==
  ASSUME NEW m, NEW n, NEW c \in Seq(Calls), ClearedFirst(m, c), c # <<>>, ~ AgainOf(Head(c)),
         NEW x \in Calls, ~ AgainOf(x)
  PROVE  /\ ClearedFirst(n, c) /\ ClearedFirst(n, <<x>> \o c)
         /\ <<x>> \o c \in Seq(Calls) /\ <<x>> \o c # <<>> /\ Head(<<x>> \o c) = x
<1> DEFINE e == <<x>> \o c
<1>1. /\ e \in Seq(Calls) /\ Len(e) = Len(c) + 1 /\ e # <<>> /\ Head(e) = x
      /\ DOMAIN e = 1 .. Len(c) + 1 /\ DOMAIN c = 1 .. Len(c) /\ Len(c) \in Nat /\ e[1] = x
      /\ \A i \in 1 .. Len(c) : e[i + 1] = c[i]
      /\ \A i \in 2 .. Len(c) + 1 : e[i] = c[i - 1] /\ i - 1 \in DOMAIN c
  BY Pushed
<1>2. Len(c) > 0 /\ Head(c) = c[1]
  BY <1>1
<1> HIDE DEF e
<1>3. ASSUME AgainIn(c)
      PROVE  \E i \in 1 .. Len(c) : c[i] = Clearing(Top) /\ \A j \in DOMAIN c : AgainOf(c[j]) => j = i + 1
  <2>1. PICK i \in 0 .. Len(c) : /\ IF i = 0 THEN m.lists[Top] = <<>> ELSE c[i] = Clearing(Top)
                                 /\ \A j \in DOMAIN c : AgainOf(c[j]) => j = i + 1
    BY <1>3 DEF ClearedFirst
  <2>2. PICK j \in DOMAIN c : AgainOf(c[j])
    BY <1>3 DEF AgainIn
  <2>3. j = i + 1 /\ j # 1
    BY <1>2, <2>1, <2>2
  <2> QED  BY <1>1, <2>1, <2>3
<1>4. ClearedFirst(n, c)
  BY <1>1, <1>3 DEF ClearedFirst
<1>5. ASSUME AgainIn(e)
      PROVE  \E i \in 0 .. Len(e) : /\ IF i = 0 THEN n.lists[Top] = <<>> ELSE e[i] = Clearing(Top)
                                    /\ \A j \in DOMAIN e : AgainOf(e[j]) => j = i + 1
  <2>1. PICK k \in DOMAIN e : AgainOf(e[k])
    BY <1>5 DEF AgainIn
  <2>2. k # 1 /\ k - 1 \in DOMAIN c /\ AgainOf(c[k - 1])
    BY <1>1, <2>1
  <2>3. PICK i \in 1 .. Len(c) : c[i] = Clearing(Top) /\ \A j \in DOMAIN c : AgainOf(c[j]) => j = i + 1
    BY <1>3, <2>2 DEF AgainIn
  <2>4. i + 1 \in 1 .. Len(e) /\ e[i + 1] = Clearing(Top)
    BY <1>1, <2>3
  <2>5. ASSUME NEW j \in DOMAIN e, AgainOf(e[j]) PROVE j = (i + 1) + 1
    <3>1. j # 1 /\ j \in 2 .. Len(c) + 1
      BY <1>1, <2>5
    <3>2. j - 1 \in DOMAIN c /\ AgainOf(c[j - 1])
      BY <1>1, <2>5, <3>1
    <3> QED  BY <2>3, <3>1, <3>2
  <2> QED  BY <2>4, <2>5
<1> QED  BY <1>1, <1>4, <1>5 DEF ClearedFirst, e

LEMMA ClearedPopped ==
  ASSUME NEW m, NEW n, NEW c \in Seq(Calls), c # <<>>, ClearedFirst(m, c), ~ AgainOf(Head(c)),
         Head(c) = Clearing(Top) => n.lists[Top] = <<>>
  PROVE  ClearedFirst(n, Tail(c))
<1> DEFINE x == Head(c)
           t == Tail(c)
<1>1. t \in Seq(Calls) /\ x \in Calls /\ c = <<x>> \o t
  BY Popped
<1> HIDE DEF x, t
<1>2. /\ DOMAIN c = 1 .. Len(t) + 1 /\ DOMAIN t = 1 .. Len(t) /\ Len(t) \in Nat /\ c[1] = x
      /\ \A i \in 1 .. Len(t) : c[i + 1] = t[i]
      /\ Len(c) = Len(t) + 1
  BY <1>1, Pushed
<1>3. ASSUME AgainIn(t)
      PROVE  \E i \in 0 .. Len(t) : /\ IF i = 0 THEN n.lists[Top] = <<>> ELSE t[i] = Clearing(Top)
                                    /\ \A j \in DOMAIN t : AgainOf(t[j]) => j = i + 1
  <2>1. PICK k \in DOMAIN t : AgainOf(t[k])
    BY <1>3 DEF AgainIn
  <2>2. k + 1 \in DOMAIN c /\ AgainOf(c[k + 1])
    BY <1>2, <2>1
  <2>3. AgainIn(c)
    BY <2>2 DEF AgainIn
  <2>4. PICK i \in 0 .. Len(c) : /\ IF i = 0 THEN m.lists[Top] = <<>> ELSE c[i] = Clearing(Top)
                                 /\ \A j \in DOMAIN c : AgainOf(c[j]) => j = i + 1
    BY <2>3 DEF ClearedFirst
  <2>5. k = i /\ i \in 1 .. Len(t)
    BY <1>2, <2>1, <2>2, <2>4
  <2>6. i - 1 \in 0 .. Len(t) /\ c[i] = Clearing(Top)
    BY <1>2, <2>4, <2>5
  <2>7. IF i - 1 = 0 THEN n.lists[Top] = <<>> ELSE t[i - 1] = Clearing(Top)
    <3>1. CASE i = 1
      BY <1>2, <2>6, <3>1 DEF x
    <3>2. CASE i # 1
      <4>1. i - 1 \in 1 .. Len(t) /\ c[(i - 1) + 1] = t[i - 1]
        BY <1>2, <2>5, <3>2
      <4> QED  BY <2>5, <2>6, <3>2, <4>1
    <3> QED  BY <3>1, <3>2
  <2>8. \A j \in DOMAIN t : AgainOf(t[j]) => j = (i - 1) + 1
    <3> TAKE j \in DOMAIN t
    <3>1. j + 1 \in DOMAIN c /\ c[j + 1] = t[j]
      BY <1>2
    <3> QED  BY <1>2, <2>4, <2>5, <3>1
  <2> QED  BY <2>6, <2>7, <2>8
<1> QED  BY <1>3 DEF ClearedFirst, t

ClearedNext == ClearedFirst(model', calls')

LEMMA HappensCleared ==
  ASSUME calls = <<>>, Happens
  PROVE  ClearedNext
<1>1. ASSUME calls' = <<>> \/ \E x : calls' = <<x>> /\ x.do # "again" PROVE ClearedNext
  <2>1. ~ AgainIn(calls')
    BY <1>1 DEF AgainIn, AgainOf
  <2> QED  BY <2>1 DEF ClearedNext, ClearedFirst
<1>2. /\ \A row : Removing(row).do # "again" /\ Unloading(row).do # "again"
      /\ \A rows : Sorting(rows).do # "again"
      /\ \A d, files : Listing(d, files, TRUE).do # "again" /\ Listing(d, files, FALSE).do # "again"
  BY DEF Removing, Unloading, Sorting, Listing
<1>3. ASSUME NEW d, NEW some, Batch(d, some) PROVE ClearedNext
  BY <1>1, <1>2, <1>3 DEF Batch
<1>4. ASSUME NEW d, DoneLoading(d) \/ ReadingFails(d) PROVE ClearedNext
  BY <1>1, <1>2, <1>4 DEF DoneLoading, ReadingFails, ReadingEnds
<1>5. ASSUME NEW f, FileAdded(f) \/ FileDeleted(f) \/ FileGrows(f) PROVE ClearedNext
  BY <1>1, <1>2, <1>5 DEF FileAdded, FileDeleted, FileGrows
<1>6. ASSUME NEW row, Expand(row) PROVE ClearedNext
  <2>1. CASE CanLoadSubdirectory(model, row)
    <3> DEFINE d == Last(row)
    <3>1. (d \in loading /\ Load(d, <<>>)) \/ LoadShared(d)
      BY <1>6, <2>1 DEF Expand
    <3> HIDE DEF d
    <3>2. calls' = <<>> \/ calls' = <<Listing(d, has[d], TRUE)>>
      <4>1. <<Listing(d, has[d], TRUE)>> \o <<>> = <<Listing(d, has[d], TRUE)>>
        OBVIOUS
      <4> QED  BY <3>1, <4>1 DEF Load, LoadShared
    <3> QED  BY <1>1, <1>2, <3>2
  <2>2. CASE ~ CanLoadSubdirectory(model, row)
    BY <1>1, <1>6, <2>2 DEF Expand
  <2> QED  BY <2>1, <2>2
<1>7. ASSUME NEW row, Collapse(row) PROVE ClearedNext
  BY <1>1, <1>7 DEF Collapse
<1>8. ASSUME NEW d, UnloadTimer(d) PROVE ClearedNext
  BY <1>1, <1>2, <1>8 DEF UnloadTimer
<1>9. ASSUME NEW o, Sort(o[1], o[2]) PROVE ClearedNext
  BY <1>1, <1>2, <1>9 DEF Sort
<1>10. ASSUME NEW b \in SUBSET Folders,
              calls' = <<Clearing(Top), ListingAgain({Root})>>
              \/ calls' = <<Clearing(Top), ListingAgain({Root}), ListingAgain(b)>>
       PROVE  ClearedNext
  <2>1. ~ AgainOf(Clearing(Top)) /\ ~ AgainOf(ListingAgain(b))
    BY DirsAre DEF AgainOf, Clearing, ListingAgain
  <2>2. Len(calls') \in Nat /\ Len(calls') >= 2 /\ calls'[1] = Clearing(Top)
    BY <1>10
  <2>3. \A j \in DOMAIN calls' : AgainOf(calls'[j]) => j = 1 + 1
    BY <1>10, <2>1
  <2> QED  BY <2>2, <2>3 DEF ClearedNext, ClearedFirst
<1>11. ASSUME HideHidden \/ Reload PROVE ClearedNext
  <2>1. {d \in Folders : held[d] > 0} \in SUBSET Folders
    OBVIOUS
  <2> QED  BY <1>10, <1>11, <2>1 DEF HideHidden, Reload
<1> QED  BY <1>3, <1>4, <1>5, <1>6, <1>7, <1>8, <1>9, <1>11 DEF Happens

LEMMA RowCallCleared ==
  ASSUME GoodBusy, ClearedFirst(model, calls), RemoveChild \/ RemoveItself \/ ClearDirectory \/ UnloadChild
  PROVE  ClearedNext
<1>1. /\ calls \in Seq(Calls) /\ calls # <<>> /\ Call = Head(calls) /\ Call \in Calls /\ ModelTrue(model)
      /\ CallTrue(model, Call, Tail(calls)) /\ GoodNow(model, calls, connected)
  BY GoodBusyIs DEF GoodBusy
<1>2. Call.do \in {"remove", "clear", "unload"}
  BY DEF RemoveChild, RemoveItself, ClearDirectory, UnloadChild
<1>3. ~ AgainOf(Head(calls))
  BY <1>1, <1>2, CallFollows
<1>4. ASSUME calls' = calls PROVE ClearedNext
  BY <1>1, <1>3, <1>4, ClearedPushed DEF ClearedNext
<1>5. ASSUME NEW x \in Calls, x.do # "again", calls' = <<x>> \o calls PROVE ClearedNext
  <2>1. ~ AgainOf(x)
    BY <1>5, CallFollows
  <2> QED  BY <1>1, <1>3, <1>5, <2>1, ClearedPushed DEF ClearedNext
<1>6. ASSUME calls' = Tail(calls), Call = Clearing(Top) => model'.lists[Top] = <<>> PROVE ClearedNext
  BY <1>1, <1>3, <1>6, ClearedPopped DEF ClearedNext
<1>7. Clearing(Top).do = "clear"
  BY RowCallsMade
<1>8. ASSUME NEW row \in DOMAIN model.lists, model.lists[row] # <<>>
      PROVE  LET first == Append(row, Head(model.lists[row]))
             IN  /\ Removing(first) \in Calls /\ Clearing(first) \in Calls
                 /\ Removing(first).do = "remove" /\ Clearing(first).do = "clear"
  <2>1. Append(row, Head(model.lists[row])) \in Seq(Entries)
    BY <1>1, <1>8, HeadOfList
  <2> QED  BY <2>1, RowCallsMade
<1>9. CASE RemoveChild
  <2> DEFINE row == Call.row
  <2>1. Call.do = "remove" /\ row \in DOMAIN model.lists /\ model.lists[row] # <<>>
    BY <1>9 DEF RemoveChild, HasChild
  <2>2. CASE Head(model.lists[row]) = Dummy
    BY <1>4, <1>9, <2>2 DEF RemoveChild
  <2>3. CASE Head(model.lists[row]) # Dummy
    <3>1. calls' = <<Removing(ChildToRemove(model, row))>> \o calls
      BY <1>9, <2>3 DEF RemoveChild, MakeCalls
    <3>2. ChildToRemove(model, row) = Append(row, Head(model.lists[row]))
      BY <1>1, <2>1, <2>3, ChildIsFound
    <3> HIDE DEF row
    <3>3. LET x == Removing(Append(row, Head(model.lists[row]))) IN x \in Calls /\ x.do = "remove"
      BY <1>8, <2>1
    <3> QED  BY <1>5, <3>1, <3>2, <3>3
  <2> QED  BY <2>2, <2>3
<1>10. CASE RemoveItself
  <2>1. calls' = Tail(calls) /\ Call # Clearing(Top)
    BY <1>7, <1>10 DEF RemoveItself, Return
  <2> QED  BY <1>6, <2>1
<1>11. CASE ClearDirectory
  <2> DEFINE row == Call.row
             first == Append(row, Head(model.lists[row]))
  <2>1. Call.do = "clear" /\ row \in DOMAIN model.lists /\ model' = model
    BY <1>11 DEF ClearDirectory
  <2>2. CASE ~ HasChild(row)
    <3>1. calls' = Tail(calls) /\ model.lists[row] = <<>>
      BY <1>11, <2>1, <2>2 DEF ClearDirectory, Return, HasChild
    <3>2. Clearing(Top).row = Top
      BY RowCallsMade
    <3>3. Call = Clearing(Top) => row = Top
      BY <3>2
    <3> QED  BY <1>6, <2>1, <3>1, <3>3
  <2>3. CASE HasChild(row)
    <3>1. calls' = ((IF first \in DOMAIN model.lists THEN <<Clearing(first)>> ELSE <<>>)
                            \o <<Removing(first)>>) \o calls
      BY <1>11, <2>3 DEF ClearDirectory, MakeCalls
    <3>2. model.lists[row] # <<>>
      BY <2>3 DEF HasChild
    <3> HIDE DEF row
    <3>3. /\ Removing(first) \in Calls /\ Clearing(first) \in Calls
          /\ Removing(first).do = "remove" /\ Clearing(first).do = "clear"
      BY <1>8, <2>1, <3>2
    <3> HIDE DEF first
    <3> DEFINE x == Removing(first)
               y == Clearing(first)
               c == <<x>> \o calls
    <3>4. ~ AgainOf(x) /\ ~ AgainOf(y)
      BY <3>3, CallFollows
    <3>5. <<x>> \in Seq(Calls) /\ <<y>> \in Seq(Calls)
      BY <3>3, OneCall
    <3>6. x \in Calls /\ y \in Calls
      BY <3>3
    <3>7. calls' = c \/ calls' = <<y>> \o c
      <4>1. CASE first \in DOMAIN model.lists
        <5>1. calls' = (<<y>> \o <<x>>) \o calls
          BY <3>1, <4>1
        <5> QED  BY <1>1, <3>5, <5>1, ConcatAssociative
      <4>2. CASE first \notin DOMAIN model.lists
        <5>1. calls' = (<<>> \o <<x>>) \o calls
          BY <3>1, <4>2
        <5> QED  BY <3>5, <5>1, ConcatEmptySeq
      <4> QED  BY <4>1, <4>2
    <3> HIDE DEF x, y
    <3>8. /\ ClearedFirst(model', c) /\ c \in Seq(Calls) /\ c # <<>> /\ Head(c) = x
      BY <1>1, <1>3, <3>4, <3>6, ClearedPushed
    <3> HIDE DEF c
    <3>9. ClearedFirst(model', <<y>> \o c)
      BY <3>4, <3>6, <3>8, ClearedPushed
    <3> QED  BY <3>7, <3>8, <3>9 DEF ClearedNext
  <2> QED  BY <2>2, <2>3
<1>12. CASE UnloadChild
  <2> DEFINE row == Call.row
             first == Append(row, Head(model.lists[row]))
  <2>1. Call.do = "unload" /\ row \in model.sub /\ row \in DOMAIN model.lists
    BY <1>1, <1>12 DEF UnloadChild, ModelTrue
  <2>2. CASE HasChild(row) /\ Head(model.lists[row]) # Dummy
    <3>1. calls' = <<Removing(first)>> \o calls /\ model.lists[row] # <<>>
      BY <1>12, <2>2 DEF UnloadChild, MakeCalls, HasChild
    <3> HIDE DEF row
    <3>2. Removing(first) \in Calls /\ Removing(first).do = "remove"
      BY <1>8, <2>1, <3>1
    <3> HIDE DEF first
    <3> QED  BY <1>5, <3>1, <3>2
  <2>3. CASE ~ (HasChild(row) /\ Head(model.lists[row]) # Dummy)
    <3>1. calls' = Tail(calls) /\ Call # Clearing(Top)
      BY <1>7, <1>12, <2>1, <2>3 DEF UnloadChild, Return
    <3> QED  BY <1>6, <3>1
  <2> QED  BY <2>2, <2>3
<1> QED  BY <1>9, <1>10, <1>11, <1>12

LEMMA ListCallCleared ==
  ASSUME GoodBusy, ClearedFirst(model, calls), ListFile \/ ListDone \/ ListNext \/ SortNext
  PROVE  ClearedNext
<1> DEFINE t == Tail(calls)
<1>1. Call.do \in {"list", "sort", "again"}
  BY DEF ListFile, ListDone, ListNext, SortNext
<1>2. ~ AgainIn(t)
  BY <1>1, ClearedListing
<1>3. /\ t \in Seq(Calls) /\ ModelTrue(model) /\ Call \in Calls /\ OthersOK
      /\ CallNested(model, Call, t, connected)
  BY GoodBusyIs
<1> HIDE DEF t
<1>4. ASSUME NEW x \in Calls, x.do # "again" \/ x.dirs = {} PROVE ~ AgainOf(x)
  BY <1>4 DEF AgainOf
<1>5. ASSUME NEW c \in Seq(Calls), ~ AgainIn(c), NEW x \in Calls, ~ AgainOf(x)
      PROVE  <<x>> \o c \in Seq(Calls) /\ ~ AgainIn(<<x>> \o c)
  <2>1. <<x>> \o c \in Seq(Calls)
    BY <1>5, Pushed
  <2> QED  BY <1>5, <2>1, FollowPushed
<1>6. ASSUME ~ AgainIn(calls') PROVE ClearedNext
  BY <1>6 DEF ClearedNext, ClearedFirst
<1>7. CASE ListFile
  <2>1. PICK f \in Call.files : /\ calls' = <<Listing(Call.dir, Call.files \ {f}, Call.last)>> \o Tail(calls)
                                /\ Call.dir \in Dirs /\ Call.files \subseteq Files /\ Call.last \in BOOLEAN
    BY <1>7, ListFileIs DEF GoodBusy
  <2> DEFINE x == Listing(Call.dir, Call.files \ {f}, Call.last)
  <2>2. x \in Calls /\ x.do = "list"
    BY <2>1 DEF Listing, Calls
  <2>3. calls' = <<x>> \o t
    BY <2>1 DEF t
  <2> HIDE DEF x
  <2> QED  BY <1>2, <1>3, <1>4, <1>5, <1>6, <2>2, <2>3
<1>8. CASE ListDone
  <2> DEFINE x == Sorting(ListsToSort(model))
  <2>1. x \in Calls /\ x.do = "sort"
    BY <1>3, ListsToSortIs, ListCallsMade
  <2>2. calls' = <<x>> \o t \/ calls' = t
    BY <1>8 DEF ListDone, t
  <2> HIDE DEF x
  <2> QED  BY <1>2, <1>3, <1>4, <1>5, <1>6, <2>1, <2>2
<1>9. CASE SortNext
  <2>1. CASE calls' = Tail(calls)
    BY <1>2, <1>6, <2>1 DEF t
  <2>2. ASSUME NEW row \in Call.rows, Call.rows \subseteq Seq(Folders),
               calls' = <<Sorting(Call.rows \ {row})>> \o Tail(calls)
        PROVE  ClearedNext
    <3> DEFINE s == Call.rows \ {row}
               x == Sorting(s)
    <3>1. s \in SUBSET Seq(Folders)
      BY <2>2
    <3> HIDE DEF s
    <3>2. x \in Calls /\ x.do = "sort"
      BY <3>1, ListCallsMade
    <3>3. calls' = <<x>> \o t
      BY <2>2 DEF t, s
    <3> HIDE DEF x
    <3> QED  BY <1>2, <1>3, <1>4, <1>5, <1>6, <3>2, <3>3
  <2> QED  BY <1>9, <2>1, <2>2, SortNextIs DEF GoodBusy
<1>10. CASE ListNext
  <2>1. CASE calls' = Tail(calls)
    BY <1>2, <1>6, <2>1 DEF t
  <2>2. ASSUME NEW d \in Call.dirs, Load(d, <<ListingAgain(Call.dirs \ {d})>> \o Tail(calls))
        PROVE  ClearedNext
    <3> DEFINE y == ListingAgain({})
               c == <<y>> \o t
    <3>1. Call.do = "again"
      BY <1>10 DEF ListNext
    <3>2. d = Root /\ Call.dirs \ {d} = {}
      BY <1>3, <2>2, <3>1 DEF CallNested
    <3>3. Load(Root, c)
      BY <2>2, <3>2 DEF t
    <3>4. y \in Calls /\ y.dirs = {}
      <4>1. {} \in SUBSET Dirs
        OBVIOUS
      <4> QED  BY <4>1, ListCallsMade
    <3> HIDE DEF y
    <3>5. c \in Seq(Calls) /\ ~ AgainIn(c)
      BY <1>2, <1>3, <1>4, <1>5, <3>4
    <3> DEFINE x == Listing(Root, has[Root], TRUE)
    <3>6. calls' = c \/ calls' = <<x>> \o c
      BY <3>3 DEF Load
    <3>7. has[Root] \in SUBSET Files /\ Root \in Dirs
      BY <1>3, DirsAre DEF OthersOK
    <3>8. x \in Calls /\ x.do = "list"
      BY <3>7 DEF Listing, Calls
    <3> HIDE DEF x, c
    <3> QED  BY <1>4, <1>5, <1>6, <3>5, <3>6, <3>8
  <2> QED  BY <1>10, <2>1, <2>2, ListNextIs DEF GoodBusy
<1> QED  BY <1>7, <1>8, <1>9, <1>10

\* The rows of every folder the view follows are the files in it, but for those
\* that are about to come or go, have not been read or were missed.
FollowedTrue ==
  mishaps \subseteq {"single"} =>
     FollowedNow(model, calls, Due, missed, connected) /\ ClearedFirst(model, calls)

LEMMA InitFollowed == Init => FollowedTrue
<1> SUFFICES ASSUME Init PROVE FollowedNow(model, calls, Due, missed, connected) /\ ClearedFirst(model, calls)
  BY DEF FollowedTrue
<1>1. /\ model = EmptyModel([f \in Files |-> 0]) /\ calls = <<>> /\ connected = {Root} /\ loading = {Root}
      /\ read = [d \in Dirs |-> {}] /\ missed = {}
  BY DEF Init
<1>2. /\ model.lists = [row \in {Top} |-> <<>>] /\ model.open = {} /\ model.dirs = [d \in {} |-> Top]
  BY <1>1 DEF EmptyModel
<1>3. OpenFollowed(model, connected)
  BY <1>2 DEF OpenFollowed
<1>4. FilesOfDir(model, Root) = {}
  BY <1>2 DEF FilesOfDir, ParentOf, ToSet
<1>5. Due[Root] = {}
  BY <1>1, DirsAre DEF Due
<1>6. \A d \in connected : Holds(model, Due, missed, d)
  BY <1>1, <1>4, <1>5 DEF Holds
<1>7. ClearedFirst(model, calls)
  BY <1>1 DEF ClearedFirst, AgainIn
<1> QED  BY <1>1, <1>3, <1>6, <1>7, FollowsHolds

LEMMA FollowedAlways == Spec => []FollowedTrue
<1>1. Always /\ Agrees /\ FollowedTrue /\ [Next]_vars => FollowedTrue'
  <2> SUFFICES ASSUME Always, Agrees, FollowedTrue, [Next]_vars, mishaps' \subseteq {"single"}
               PROVE  FollowedNext /\ ClearedNext
    BY DEF FollowedTrue, FollowedNext, ClearedNext
  <2>1. CASE Next
    <3>1. mishaps \subseteq {"single"}
      BY <2>1, MishapsStay
    <3>2. /\ FollowedNow(model, calls, Due, missed, connected) /\ ClearedFirst(model, calls)
          /\ GoodNow(model, calls, connected)
      BY <3>1 DEF FollowedTrue, Agrees, Fine
    <3>3. CASE Happens
      BY <3>2, <3>3, HappensFollowed, HappensCleared DEF Happens
    <3>4. CASE Working
      <4>1. GoodBusy
        BY <3>2, <3>4 DEF Working, GoodBusy, Busy, Others
      <4>2. ClearedNext
        BY <3>2, <3>4, <4>1, RowCallCleared, ListCallCleared DEF Working
      <4> QED  BY <3>2, <3>4, <4>2, WorkingFollowed
    <3> QED  BY <2>1, <3>3, <3>4 DEF Next
  <2>2. CASE UNCHANGED vars
    BY <2>2 DEF vars, reading, Due, FollowedTrue, FollowedNext, ClearedNext
  <2> QED  BY <2>1, <2>2
<1> QED  BY <1>1, AlwaysAlways, AgreesAlways, InitFollowed, PTL DEF Spec

LEMMA FollowedIs ==
  ASSUME Always, Agrees, FollowedTrue
  PROVE  RowsBelong
<1> SUFFICES ASSUME calls = <<>>, mishaps \subseteq {"single"}, NEW row \in {Top} \cup model.open
             PROVE  LET d == IF row = Top THEN Root ELSE Last(row)
                        rows == ToSet(model.lists[row]) \ {Dummy}
                    IN  /\ rows \subseteq has[d]
                        /\ d \notin missed => rows = IF d \in loading THEN read[d] ELSE has[d]
  BY DEF RowsBelong
<1> DEFINE d == FolderOf(row)
<1>1. /\ ModelTrue(model) /\ HeldTrue /\ GoodNow(model, <<>>, connected)
      /\ FollowedNow(model, <<>>, Due, missed, connected) /\ Unique(model)
  <2>1. ModelTrue(model) /\ HeldTrue /\ GoodNow(model, <<>>, connected)
        /\ FollowedNow(model, <<>>, Due, missed, connected)
    BY AlwaysIs DEF Agrees, Fine, FollowedTrue
  <2> QED  BY <2>1, OneRowEach DEF ModelTrue, GoodNow
<1>2. OpenFollowed(model, connected) /\ \A e \in connected : Holds(model, Due, missed, e)
  BY <1>1, FollowsHolds
<1>3. d \in connected /\ ParentOf(model, d) = row
  <2>1. CASE row = Top
    <3>1. d = Root /\ Root \in connected
      BY <1>1, <2>1 DEF FolderOf, HeldTrue
    <3>2. ParentOf(model, Root) = Top
      BY <1>1, <3>1, FollowedRow
    <3> QED  BY <2>1, <3>1, <3>2
  <2>2. CASE row # Top
    <3>1. row \in model.open /\ d = Last(row) /\ d \in connected
      BY <1>2, <2>2 DEF FolderOf, OpenFollowed
    <3>2. row \in DOMAIN model.lists \ {Top} /\ Tree(model.lists)
      BY <1>1, <3>1 DEF ModelTrue
    <3>3. d # Root
      BY <3>1, <3>2, ParentOfRow, DirsAre
    <3> HIDE DEF d
    <3>4. ParentOf(model, d) \in model.sub /\ ParentOf(model, d) # Top /\ Last(ParentOf(model, d)) = d
      BY <1>1, <3>1, <3>3, FollowedRow
    <3>5. ParentOf(model, d) \in DOMAIN model.lists \ {Top}
      BY <1>1, <3>4 DEF ModelTrue
    <3> QED  BY <1>1, <3>1, <3>2, <3>4, <3>5 DEF Unique
  <2> QED  BY <2>1, <2>2
<1>4. d \in Dirs /\ Due[d] \subseteq has[d] /\ Due[d] = IF d \in loading THEN read[d] ELSE has[d]
  <2>1. OthersOK /\ HasTrue
    BY AlwaysIs
  <2> HIDE DEF d
  <2>2. d \in Dirs
    BY <1>3, <2>1 DEF OthersOK
  <2> QED  BY <2>1, <2>2, DueIs
<1> DEFINE rows == ToSet(model.lists[row]) \ {Dummy}
<1>5. rows \subseteq Due[d] /\ (d \notin missed => rows = Due[d])
  <2>1. rows = FilesOfDir(model, d) /\ Holds(model, Due, missed, d)
    BY <1>2, <1>3 DEF FilesOfDir
  <2> HIDE DEF d, rows
  <2> QED  BY <2>1 DEF Holds
<1>6. rows \subseteq has[d] /\ (d \notin missed => rows = IF d \in loading THEN read[d] ELSE has[d])
  <2> HIDE DEF d, rows
  <2> QED  BY <1>4, <1>5
<1> QED  BY <1>6 DEF FolderOf

\* The rows and the maps to them are those of the folders the view follows: the
\* maps agree with the rows, no call is stuck, and an open row shows what is in
\* its folder, or what the reading has come to, unless the reading failed or was
\* joined in its midst, as long as a folder has one row at most and is followed.
THEOREM ListsAreTrue == Spec => []ListsTrue
<1>1. Always /\ Agrees /\ FollowedTrue => ListsTrue
  BY AgreesIs, FollowedIs DEF ListsTrue
<1> QED  BY <1>1, AlwaysAlways, AgreesAlways, FollowedAlways, PTL

-------------------------------------------------------------------------------
(* The rows are in order.                                                  *)

FollowedRows(m, followed) == {Top} \cup {r \in m.sub : Last(r) \in followed}

ToBeSorted(c, row) == \E i \in DOMAIN c : c[i].do = "sort" /\ row \in c[i].rows

\* The list of a row is in order, or going to be.
OrderedRow(m, c, row) == InOrder(m, m.lists[row]) \/ ToBeSorted(c, row)

OrderedNow(m, c, followed) == \A row \in FollowedRows(m, followed) : OrderedRow(m, c, row)

OrderedNext == OrderedNow(model', calls', connected')

LEMMA ShortInOrder ==
  ASSUME NEW m, NEW s \in Seq(Entries), ~ (Len(s) > 1)
  PROVE  InOrder(m, s)
<1>1. Len(s) \in Nat /\ DOMAIN s = 1 .. Len(s)
  BY LenProperties
<1>2. \A i, j \in DOMAIN s : ~ (i < j)
  BY <1>1
<1> QED  BY <1>2 DEF InOrder

\* What the order depends on.
LEMMA SameOrder ==
  ASSUME NEW m, NEW n, NEW s, n.column = m.column, n.reversed = m.reversed,
         \A i \in DOMAIN s : s[i] = Dummy \/ n.size[s[i]] = m.size[s[i]],
         InOrder(m, s)
  PROVE  InOrder(n, s)
<1>1. ASSUME NEW f, NEW g, f = Dummy \/ n.size[f] = m.size[f], g = Dummy \/ n.size[g] = m.size[g]
      PROVE  CompareEntries(n, f, g) = CompareEntries(m, f, g)
  <2>1. CASE f # Dummy /\ g # Dummy
    <3>1. \A column : CompareInColumn(n.size, column, f, g) = CompareInColumn(m.size, column, f, g)
      <4>1. CompareBySize(n.size, f, g) = CompareBySize(m.size, f, g)
        BY <1>1, <2>1 DEF CompareBySize
      <4> QED  BY <4>1 DEF CompareInColumn
    <3>2. CompareForSort(n.size, m.column, m.reversed, f, g) = CompareForSort(m.size, m.column, m.reversed, f, g)
      BY <3>1 DEF CompareForSort
    <3> QED  BY <2>1, <3>2 DEF CompareEntries
  <2>2. CASE f = Dummy \/ g = Dummy
    BY <2>2 DEF CompareEntries
  <2> QED  BY <2>1, <2>2
<1>2. \A i, j \in DOMAIN s : CompareEntries(n, s[i], s[j]) = CompareEntries(m, s[i], s[j])
  BY <1>1
<1> QED  BY <1>2 DEF InOrder

LEMMA AlikeOrder ==
  ASSUME NEW m, NEW n, n.column = m.column, n.reversed = m.reversed, n.size = m.size
  PROVE  \A s : InOrder(m, s) => InOrder(n, s)
BY SameOrder

\* The lists that are in order stay so when a file is added.
LEMMA AddKeepsOrder ==
  ASSUME NEW m, ModelTrue(m), NEW f \in Files, NEW d, NEW n, n = AddFile(m, f, d),
         NEW row \in DOMAIN m.lists, InOrder(m, m.lists[row])
  PROVE  InOrder(n, n.lists[row])
<1> DEFINE parent == ParentOf(m, d)
           old == IF m.lists[parent] = <<Dummy>> THEN <<>> ELSE m.lists[parent]
<1>1. parent \in DOMAIN m.lists /\ m.lists[parent] \in Seq(Entries)
  BY ParentIs, ModelTypes
<1>2. IF f \in m.rev[parent] THEN n = m ELSE Added(m, n, parent, f)
  BY AddFileIs
<1>3. CASE f \in m.rev[parent]
  BY <1>2, <1>3
<1>4. CASE f \notin m.rev[parent]
  <2> HIDE DEF parent
  <2>1. /\ Dummy \notin ToSet(old) /\ n.lists[parent] = InsertSorted(m, old, f)
        /\ \A r \in DOMAIN m.lists \ {parent} : n.lists[r] = m.lists[r]
        /\ n.column = m.column /\ n.reversed = m.reversed /\ n.size = m.size
    BY <1>2, <1>4 DEF Added
  <2>2. old \in Seq(Entries)
    BY <1>1, EmptySeq
  <2>3. CASE row = parent
    <3>1. InOrder(m, <<>>)
      BY DEF InOrder
    <3>2. InOrder(m, old)
      BY <2>3, <3>1
    <3>3. m.size \in [Files -> Int] /\ m.reversed \in BOOLEAN
      BY DEF ModelTrue
    <3> HIDE DEF old
    <3>4. InOrder(m, InsertSorted(m, old, f))
      BY <2>1, <2>2, <3>2, <3>3, InsertKeepsOrder
    <3> QED  BY <2>1, <2>3, <3>4, AlikeOrder
  <2>4. CASE row # parent
    BY <2>1, <2>4, AlikeOrder
  <2> QED  BY <2>3, <2>4
<1> QED  BY <1>3, <1>4

LEMMA OrderedWithout ==
  ASSUME NEW m, NEW followed
  PROVE  OrderedNow(m, <<>>, followed) <=> \A row \in FollowedRows(m, followed) : InOrder(m, m.lists[row])
<1>1. \A row : ~ ToBeSorted(<<>>, row)
  BY DEF ToBeSorted
<1> QED  BY <1>1 DEF OrderedNow, OrderedRow

LEMMA InOrderIsOrdered ==
  ASSUME NEW m, NEW c, NEW followed, \A row \in FollowedRows(m, followed) : InOrder(m, m.lists[row])
  PROVE  OrderedNow(m, c, followed)
BY DEF OrderedNow, OrderedRow

LEMMA RowsAre ==
  ASSUME NEW m, ModelTrue(m), NEW followed
  PROVE  \A row \in FollowedRows(m, followed) : row \in DOMAIN m.lists /\ m.lists[row] \in Seq(Entries)
BY ModelTypes DEF ModelTrue, FollowedRows, Tree

-------------------------------------------------------------------------------
(* What happens between the calls keeps OrderedTrue.                       *)

OrderedIdle == /\ GoodIdle /\ mishaps' = {}
               /\ OrderedNow(model, calls, connected)

LEMMA OrderedIdleIs ==
  ASSUME OrderedIdle
  PROVE  /\ ModelTrue(model) /\ HeldTrue /\ OthersOK
         /\ GoodNow(model, <<>>, connected) /\ AtHome(model) /\ calls = <<>> /\ Unique(model)
         /\ \A row \in FollowedRows(model, connected) : InOrder(model, model.lists[row])
<1>1. /\ ModelTrue(model) /\ HeldTrue /\ OthersOK
      /\ GoodNow(model, <<>>, connected) /\ AtHome(model) /\ calls = <<>>
  BY GoodIdleIs DEF OrderedIdle
<1>2. \A row \in FollowedRows(model, connected) : InOrder(model, model.lists[row])
  BY <1>1, OrderedWithout DEF OrderedIdle
<1>3. Unique(model)
  BY <1>1, OneRowEach DEF ModelTrue
<1> QED  BY <1>1, <1>2, <1>3

\* Fewer rows are followed, and no list changes.
LEMMA OrderedStays ==
  ASSUME OrderedIdle, model'.lists = model.lists, model'.sub = model.sub,
         model'.column = model.column, model'.reversed = model.reversed, model'.size = model.size,
         connected' \subseteq connected
  PROVE  OrderedNext
<1>1. \A row \in FollowedRows(model, connected) : InOrder(model, model.lists[row])
  BY OrderedIdleIs
<1>2. FollowedRows(model', connected') \subseteq FollowedRows(model, connected)
  BY DEF FollowedRows
<1>3. \A row \in FollowedRows(model', connected') : InOrder(model', model'.lists[row])
  BY <1>1, <1>2, AlikeOrder
<1> QED  BY <1>3, InOrderIsOrdered DEF OrderedNext

LEMMA FileAddedOrdered ==
  ASSUME OrderedIdle, NEW f \in Files, FileAdded(f)
  PROVE  OrderedNext
<1>1. /\ ModelTrue(model) /\ AtHome(model) /\ calls = <<>> /\ GoodNow(model, <<>>, connected)
      /\ \A row \in FollowedRows(model, connected) : InOrder(model, model.lists[row])
  BY OrderedIdleIs
<1>2. /\ model' = (IF Home[f] \in connected THEN AddFile(model, f, Home[f]) ELSE model)
      /\ connected' = connected
  BY DEF FileAdded
<1>3. CASE Home[f] \notin connected
  BY <1>2, <1>3, OrderedStays
<1>4. CASE Home[f] \in connected
  <2>1. model'.sub = model.sub
    BY <1>1, <1>2, <1>4, AddedFiles
  <2>2. \A row \in FollowedRows(model, connected) : InOrder(model', model'.lists[row])
    BY <1>1, <1>2, <1>4, RowsAre, AddKeepsOrder
  <2>3. FollowedRows(model', connected') = FollowedRows(model, connected)
    BY <1>2, <2>1 DEF FollowedRows
  <2> QED  BY <2>2, <2>3, InOrderIsOrdered DEF OrderedNext
<1> QED  BY <1>3, <1>4

LEMMA FileGrowsOrdered ==
  ASSUME OrderedIdle, NEW f \in Files, FileGrows(f)
  PROVE  OrderedNext
<1>1. /\ ModelTrue(model) /\ AtHome(model) /\ calls = <<>> /\ GoodNow(model, <<>>, connected) /\ Unique(model)
      /\ HeldTrue
      /\ \A row \in FollowedRows(model, connected) : InOrder(model, model.lists[row])
  BY OrderedIdleIs
<1>2. PICK s \in Sizes : model' = LET m == [model EXCEPT !.size[f] = s]
                                  IN  IF Home[f] \in connected THEN FileChanged(m, f, Home[f]) ELSE m
  BY DEF FileGrows
<1> DEFINE m == [model EXCEPT !.size[f] = s]
           d == Home[f]
           parent == ParentOf(model, d)
<1>3. /\ ModelTrue(m) /\ m.lists = model.lists /\ m.sub = model.sub /\ m.dirs = model.dirs
      /\ m.column = model.column /\ m.reversed = model.reversed /\ m.size = [model.size EXCEPT ![f] = s]
  BY <1>1, FileResized
<1>4. model' = IF d \in connected THEN FileChanged(m, f, d) ELSE m
  BY <1>2
<1>5. connected' = connected
  BY DEF FileGrows
<1> HIDE DEF m, d
\* The other lists do not have the file.
<1>6. ASSUME NEW r \in FollowedRows(model, connected), f \in ToSet(model.lists[r])
      PROVE  d \in connected /\ r = parent
  <2>1. r \in DOMAIN model.lists /\ f # Dummy
    BY <1>1, RowsAre, DirsAre
  <2>2. d = FolderOf(r)
    BY <1>1, <1>6, <2>1 DEF AtHome, d
  <2>3. CASE r = Top
    <3>1. d = Root /\ d \in connected
      BY <1>1, <2>2, <2>3 DEF FolderOf, HeldTrue
    <3>2. parent = Top
      BY <1>1, <3>1, FollowedRow
    <3> QED  BY <2>3, <3>1, <3>2
  <2>4. CASE r # Top
    <3>1. d = Last(r) /\ d \in connected
      BY <2>2, <2>4 DEF FolderOf, FollowedRows
    <3>2. d # Root
      <4>1. Tree(model.lists)
        BY <1>1 DEF ModelTrue
      <4> QED  BY <2>1, <2>4, <3>1, <4>1, ParentOfRow, DirsAre
    <3>3. parent \in model.sub /\ parent # Top /\ Last(parent) = d
      BY <1>1, <3>1, <3>2, FollowedRow
    <3>4. parent \in DOMAIN model.lists \ {Top}
      BY <1>1, <3>3 DEF ModelTrue
    <3> QED  BY <1>1, <2>1, <2>4, <3>1, <3>3, <3>4 DEF Unique
  <2> QED  BY <2>3, <2>4
<1>7. ASSUME NEW q \in Seq(Entries), InOrder(model, q), f \notin ToSet(q) PROVE InOrder(m, q)
  <2>1. \A i \in DOMAIN q : q[i] \in Entries /\ q[i] # f
    <3>1. DOMAIN q = 1 .. Len(q) /\ \A i \in 1 .. Len(q) : q[i] \in Entries
      BY LenProperties, ElementOfSeq
    <3> QED  BY <1>7, <3>1 DEF ToSet
  <2>2. \A i \in DOMAIN q : q[i] = Dummy \/ m.size[q[i]] = model.size[q[i]]
    BY <1>1, <1>3, <2>1 DEF Entries, ModelTrue
  <2> QED  BY <1>3, <1>7, <2>2, SameOrder
<1>8. CASE d \notin connected
  <2>1. \A r \in FollowedRows(model, connected) : InOrder(m, m.lists[r])
    BY <1>1, <1>3, <1>6, <1>7, <1>8, RowsAre
  <2>2. FollowedRows(model', connected') = FollowedRows(model, connected)
    BY <1>3, <1>4, <1>5, <1>8 DEF FollowedRows
  <2> QED  BY <1>4, <1>8, <2>1, <2>2, InOrderIsOrdered DEF OrderedNext
<1>9. CASE d \in connected
  <2> DEFINE n == FileChanged(m, f, d)
  <2>1. parent = ParentOf(m, d)
    BY <1>3 DEF ParentOf
  <2>2. Rearranged(m, n, ParentOf(m, d))
        /\ n.lists[ParentOf(m, d)] =
                  IF f \in ToSet(m.lists[ParentOf(m, d)])
                  THEN InsertSorted(m, RemoveAt(m.lists[ParentOf(m, d)], Where(m.lists[ParentOf(m, d)], f)), f)
                  ELSE m.lists[ParentOf(m, d)]
    BY <1>3, FileIsMoved
  <2> HIDE DEF n, parent
  <2>3. /\ n.sub = m.sub /\ n.column = m.column /\ n.reversed = m.reversed /\ n.size = m.size
        /\ \A r \in DOMAIN m.lists \ {parent} : n.lists[r] = m.lists[r]
    BY <2>1, <2>2 DEF Rearranged, SameBut
  <2>4. ASSUME NEW r \in FollowedRows(model, connected) PROVE InOrder(n, n.lists[r])
    <3>1. /\ r \in DOMAIN model.lists /\ model.lists[r] \in Seq(Entries) /\ InOrder(model, model.lists[r])
      BY <1>1, <2>4, RowsAre
    <3>2. CASE f \notin ToSet(model.lists[r])
      <4>1. n.lists[r] = m.lists[r]
        BY <1>3, <2>1, <2>2, <2>3, <3>1, <3>2
      <4>2. InOrder(m, m.lists[r])
        BY <1>3, <1>7, <3>1, <3>2
      <4> QED  BY <2>3, <4>1, <4>2, AlikeOrder
    <3>3. CASE f \in ToSet(model.lists[r])
      <4> DEFINE old == model.lists[r]
                 left == RemoveAt(old, Where(old, f))
      <4>1. r = parent
        BY <1>6, <2>4, <3>3
      <4>2. n.lists[r] = InsertSorted(m, left, f)
        BY <1>3, <2>1, <2>2, <3>3, <4>1
      <4>3. Where(old, f) \in 1 .. Len(old) /\ old[Where(old, f)] = f /\ IsInjective(old) /\ old \in Seq(Entries)
        BY <1>1, <3>1, <3>3, WhereIs DEF ModelTrue, Tree
      <4>4. InOrder(model, old) /\ Dummy \notin ToSet(old)
        <5>1. Dummy \in ToSet(old) => old = <<Dummy>>
          BY <1>1, <3>1 DEF ModelTrue
        <5>2. ToSet(<<Dummy>>) = {Dummy}
          BY DEF ToSet
        <5> QED  BY <3>1, <3>3, <5>1, <5>2, DirsAre
      <4> DEFINE at == Where(old, f)
      <4> HIDE DEF old, at
      <4>5. at \in 1 .. Len(old) /\ old[at] = f
        BY <4>3 DEF at
      <4>6. RemoveAt(old, at) \in Seq(Entries) /\ InOrder(model, RemoveAt(old, at))
        BY <4>3, <4>4, <4>5, RemoveKeepsOrder, RemoveAtIs
      <4>7. ToSet(RemoveAt(old, at)) = ToSet(old) \ {f}
        BY <4>3, <4>5, RemoveDistinct
      <4>8. left = RemoveAt(old, at)
        BY DEF at
      <4> HIDE DEF left
      <4>9. left \in Seq(Entries) /\ Dummy \notin ToSet(left) /\ InOrder(m, left)
        BY <1>7, <4>4, <4>6, <4>7, <4>8
      <4>10. m.size \in [Files -> Int] /\ m.reversed \in BOOLEAN
        BY <1>3 DEF ModelTrue
      <4>11. InOrder(m, InsertSorted(m, left, f))
        BY <4>9, <4>10, InsertKeepsOrder
      <4> QED  BY <2>3, <4>2, <4>11, AlikeOrder
    <3> QED  BY <3>2, <3>3
  <2>5. FollowedRows(n, connected) = FollowedRows(model, connected)
    BY <1>3, <2>3 DEF FollowedRows
  <2>6. model' = n
    BY <1>4, <1>9 DEF n
  <2> QED  BY <1>5, <2>4, <2>5, <2>6, InOrderIsOrdered DEF OrderedNext
<1> QED  BY <1>8, <1>9

LEMMA ExpandOrdered ==
  ASSUME OrderedIdle, NEW row \in DOMAIN model.lists, Expand(row)
  PROVE  OrderedNext
<1> DEFINE d == Last(row)
<1>1. /\ ModelTrue(model) /\ calls = <<>> /\ Unique(model)
      /\ \A r \in FollowedRows(model, connected) : InOrder(model, model.lists[r])
  BY OrderedIdleIs
<1>2. /\ model'.lists = model.lists
      /\ model'.size = model.size /\ model'.column = model.column /\ model'.reversed = model.reversed
      /\ IF row \in model.sub THEN model'.sub = model.sub /\ model'.dirs = model.dirs
         ELSE model'.sub = model.sub \cup {row} /\ model'.dirs = With(model.dirs, Last(row), row)
      /\ CanLoadSubdirectory(model, row) <=> row \notin model.sub
      /\ row # Top
  BY <1>1, ExpandIs
<1>3. row \notin model.sub
  <2>1. SUFFICES ASSUME row \in model.sub PROVE FALSE
    OBVIOUS
  <2>2. "reexpanded" \in mishaps'
    BY <1>2, <2>1 DEF Expand
  <2> QED  BY <2>2 DEF OrderedIdle
<1>4. connected' = connected \cup {d} /\ model'.sub = model.sub \cup {row}
  BY <1>2, <1>3 DEF Expand
<1>5. InOrder(model, model.lists[row])
  <2>1. row \in DOMAIN model.lists \ DOMAIN model.rev
    BY <1>1, <1>2, <1>3 DEF ModelTrue
  <2>2. ToSet(model.lists[row]) \subseteq {Dummy} /\ model.lists[row] \in Seq(Entries)
    BY <1>1, <2>1, ModelTypes DEF ModelTrue
  <2>3. Dummy \in ToSet(model.lists[row]) => model.lists[row] = <<Dummy>>
    BY <1>1, <2>1 DEF ModelTrue
  <2>4. model.lists[row] = <<>> \/ model.lists[row] = <<Dummy>>
    BY <2>2, <2>3, NoEntry
  <2>5. CASE model.lists[row] = <<>>
    <3>1. InOrder(model, <<>>)
      BY DEF InOrder
    <3> QED  BY <2>5, <3>1
  <2>6. CASE model.lists[row] = <<Dummy>>
    <3>1. InOrder(model, <<Dummy>>)
      BY DEF InOrder
    <3> QED  BY <2>6, <3>1
  <2> QED  BY <2>4, <2>5, <2>6
<1>6. ASSUME NEW r \in FollowedRows(model', connected') PROVE r = row \/ r \in FollowedRows(model, connected)
  <2>1. CASE r \in model.sub /\ Last(r) = d
    <3>1. r \in DOMAIN model.lists \ {Top}
      BY <1>1, <2>1 DEF ModelTrue
    <3> QED  BY <1>1, <1>2, <2>1, <3>1 DEF Unique
  <2> QED  BY <1>4, <1>6, <2>1 DEF FollowedRows
<1>7. \A r \in FollowedRows(model', connected') : InOrder(model', model'.lists[r])
  BY <1>1, <1>2, <1>5, <1>6, AlikeOrder
<1> QED  BY <1>7, InOrderIsOrdered DEF OrderedNext

LEMMA SortOrdered ==
  ASSUME OrderedIdle, NEW o \in Orders, Sort(o[1], o[2])
  PROVE  OrderedNext
<1>1. ModelTrue(model)
  BY OrderedIdleIs
<1>2. /\ model'.lists = model.lists /\ model'.sub = model.sub
      /\ calls' = <<Sorting(ListsToSort(model))>>
  BY <1>1, SortIs
<1>3. connected' = connected
  BY DEF Sort
<1>4. ~ \E row, r \in DOMAIN model.lists :
            Len(model.lists[row]) = 1 /\ IsStrictPrefix(row, r) /\ Len(model.lists[r]) > 1
  <2>1. SUFFICES ASSUME \E row, r \in DOMAIN model.lists :
                    Len(model.lists[row]) = 1 /\ IsStrictPrefix(row, r) /\ Len(model.lists[r]) > 1
                 PROVE  FALSE
    OBVIOUS
  <2>2. mishaps' = mishaps \cup {"single"}
    BY <2>1 DEF Sort
  <2> QED  BY <2>2 DEF OrderedIdle
<1>5. ASSUME NEW r \in FollowedRows(model', connected') PROVE OrderedRow(model', calls', r)
  <2>1. r \in DOMAIN model.lists /\ model.lists[r] \in Seq(Entries)
    BY <1>1, <1>2, <1>3, <1>5, RowsAre DEF FollowedRows
  <2>2. CASE ~ (Len(model.lists[r]) > 1)
    BY <1>2, <2>1, <2>2, ShortInOrder DEF OrderedRow
  <2>3. CASE Len(model.lists[r]) > 1
    <3>1. r \in ListsToSort(model)
      <4>1. SUFFICES ASSUME NEW k \in 0 .. Len(r) PROVE Len(model.lists[SubSeq(r, 1, k)]) > 1
        BY <2>1 DEF ListsToSort
      <4> DEFINE a == SubSeq(r, 1, k)
      <4>2. Tree(model.lists) /\ r \in Seq(Entries) /\ Len(r) \in Nat
        BY <1>1, <2>1, RowOfTree DEF ModelTrue
      <4>3. a \in DOMAIN model.lists
        BY <2>1, <4>2, OnTheWay
      <4>4. /\ a \in Seq(Entries) /\ Len(a) = k /\ \A i \in 1 .. k : a[i] = r[i]
            /\ Len(model.lists[a]) \in Nat
        BY <1>1, <4>2, <4>3, UpTo, ModelTypes, LenProperties
      <4> HIDE DEF a
      <4>5. IsPrefix(a, r)
        <5>1. IsPrefix(a, r) <=> Len(a) <= Len(r) /\ \A i \in 1 .. Len(a) : a[i] = r[i]
          BY <4>2, <4>4, PrefixIs
        <5> QED  BY <4>2, <4>4, <5>1
      <4>6. CASE a = r
        BY <2>3, <4>6 DEF a
      <4>7. CASE a # r
        <5>1. IsStrictPrefix(a, r)
          BY <4>5, <4>7 DEF IsStrictPrefix
        <5>2. model.lists[a] # <<>>
          BY <2>1, <4>2, <4>4, <4>5, <4>7, BelowIsChild
        <5>3. Len(model.lists[a]) # 0
          BY <1>1, <4>3, <5>2, ModelTypes, EmptySeq
        <5>4. Len(model.lists[a]) # 1
          BY <1>4, <2>1, <2>3, <4>3, <5>1
        <5>5. \A n \in Nat : n # 0 /\ n # 1 => n > 1
          OBVIOUS
        <5>6. Len(model.lists[a]) > 1
          BY <4>4, <5>3, <5>4, <5>5
        <5> QED  BY <5>6 DEF a
      <4> QED  BY <4>6, <4>7
    <3> DEFINE x == Sorting(ListsToSort(model))
    <3>2. x.do = "sort" /\ x.rows = ListsToSort(model)
      BY ListCallsMade
    <3>3. calls' = <<x>>
      BY <1>2
    <3> HIDE DEF x
    <3>4. 1 \in DOMAIN calls' /\ calls'[1] = x
      BY <3>3
    <3>5. ToBeSorted(calls', r)
      BY <3>1, <3>2, <3>4 DEF ToBeSorted
    <3> QED  BY <3>5 DEF OrderedRow
  <2> QED  BY <2>2, <2>3
<1> QED  BY <1>5 DEF OrderedNext, OrderedNow

LEMMA HappensOrdered ==
  ASSUME Always, GoodNow(model, calls, connected), OrderedNow(model, calls, connected),
         Happens, mishaps' = {}
  PROVE  OrderedNext
<1>1. calls = <<>> /\ after' \in 0 .. MaxAfter
  <2>1. after \in 0 .. MaxAfter /\ MaxAfter \in Nat
    BY BoundsAssumption DEF Always, TypeOK
  <2>2. calls = <<>> /\ (after' = 0 \/ (after < MaxAfter /\ after' = after + 1))
    BY DEF Happens
  <2> QED  BY <2>1, <2>2
<1>2. OrderedIdle
  BY <1>1 DEF OrderedIdle, GoodIdle, Idle, Fine
<1>3. ModelTrue(model) /\ Root \in connected
  BY <1>2, OrderedIdleIs DEF HeldTrue
<1>4. ASSUME NEW d \in Dirs, DoneLoading(d) \/ ReadingFails(d) PROVE OrderedNext
  BY <1>2, <1>4, OrderedStays DEF DoneLoading, ReadingFails, ReadingEnds
<1>10. ASSUME NEW d \in Dirs, NEW some, Batch(d, some) PROVE OrderedNext
  BY <1>2, <1>10, OrderedStays DEF Batch
<1>5. ASSUME NEW f \in Files, FileDeleted(f) PROVE OrderedNext
  BY <1>2, <1>5, OrderedStays DEF FileDeleted
<1>6. ASSUME NEW row \in DOMAIN model.lists, Collapse(row) PROVE OrderedNext
  <2>1. connected' \subseteq connected
    BY <1>6 DEF Collapse, Release
  <2> QED  BY <1>2, <1>3, <1>6, <2>1, CollapseIs, OrderedStays
<1>7. ASSUME NEW d \in Folders, UnloadTimer(d) PROVE OrderedNext
  <2>1. connected' = connected
    BY <1>7 DEF UnloadTimer
  <2>2. /\ model'.lists = model.lists /\ model'.sub = model.sub
        /\ model'.column = model.column /\ model'.reversed = model.reversed /\ model'.size = model.size
    BY <1>3, <1>7, UnloadTimerIs
  <2> QED  BY <1>2, <2>1, <2>2, OrderedStays
<1>8. HideHidden => OrderedNext
  BY <1>2, OrderedStays DEF HideHidden
<1>9. Reload => OrderedNext
  BY <1>2, <1>3, OrderedStays DEF Reload
<1> QED  BY <1>2, <1>4, <1>5, <1>6, <1>7, <1>8, <1>9, <1>10, FileAddedOrdered, FileGrowsOrdered,
            ExpandOrdered, SortOrdered DEF Happens

-------------------------------------------------------------------------------
(* The steps of the calls keep OrderedTrue.                                *)

LEMMA ToBeSortedPushed ==
  ASSUME NEW c \in Seq(Calls), NEW x \in Calls, NEW row
  PROVE  ToBeSorted(<<x>> \o c, row) <=> (x.do = "sort" /\ row \in x.rows) \/ ToBeSorted(c, row)
<1> DEFINE d == <<x>> \o c
<1>1. /\ DOMAIN d = 1 .. Len(c) + 1 /\ DOMAIN c = 1 .. Len(c) /\ Len(c) \in Nat /\ d[1] = x
      /\ \A i \in 1 .. Len(c) : d[i + 1] = c[i]
      /\ \A i \in 2 .. Len(c) + 1 : d[i] = c[i - 1] /\ i - 1 \in DOMAIN c
  BY Pushed
<1> HIDE DEF d
<1>2. \A n \in Nat : /\ 1 \in 1 .. n + 1
                     /\ \A i \in 1 .. n : i + 1 \in 1 .. n + 1
                     /\ \A i \in 1 .. n + 1 : i = 1 \/ i \in 2 .. n + 1
  OBVIOUS
<1>3. 1 \in DOMAIN d /\ (\A i \in DOMAIN c : i + 1 \in DOMAIN d)
      /\ \A i \in DOMAIN d : i = 1 \/ i \in 2 .. Len(c) + 1
  BY <1>1, <1>2
<1>4. ASSUME ToBeSorted(d, row) PROVE (x.do = "sort" /\ row \in x.rows) \/ ToBeSorted(c, row)
  <2>1. PICK i \in DOMAIN d : d[i].do = "sort" /\ row \in d[i].rows
    BY <1>4 DEF ToBeSorted
  <2>2. CASE i = 1
    BY <1>1, <2>1, <2>2
  <2>3. CASE i \in 2 .. Len(c) + 1
    <3>1. d[i] = c[i - 1] /\ i - 1 \in DOMAIN c
      BY <1>1, <2>3
    <3> QED  BY <2>1, <3>1 DEF ToBeSorted
  <2> QED  BY <1>3, <2>2, <2>3
<1>5. x.do = "sort" /\ row \in x.rows => ToBeSorted(d, row)
  BY <1>1, <1>3 DEF ToBeSorted
<1>6. ASSUME ToBeSorted(c, row) PROVE ToBeSorted(d, row)
  <2>1. PICK i \in DOMAIN c : c[i].do = "sort" /\ row \in c[i].rows
    BY <1>6 DEF ToBeSorted
  <2>2. i + 1 \in DOMAIN d /\ d[i + 1] = c[i]
    BY <1>1, <1>3
  <2> QED  BY <2>1, <2>2 DEF ToBeSorted
<1> QED  BY <1>4, <1>5, <1>6 DEF d

OrderedBusy == GoodBusy /\ OrderedNow(model, calls, connected)

LEMMA OrderedBusyIs ==
  ASSUME OrderedBusy
  PROVE  /\ ModelTrue(model) /\ Call \in Calls /\ Tail(calls) \in Seq(Calls) /\ calls = <<Call>> \o Tail(calls)
         /\ GoodNow(model, calls, connected) /\ CallNested(model, Call, Tail(calls), connected)
         /\ CallTrue(model, Call, Tail(calls)) /\ connected' = connected
         /\ \A row : ~ ToBeSorted(Tail(calls), row)
         /\ \A row \in FollowedRows(model, connected) : row \in DOMAIN model.lists /\ model.lists[row] \in Seq(Entries)
         /\ \A row \in FollowedRows(model, connected) :
               InOrder(model, model.lists[row]) \/ (Call.do = "sort" /\ row \in Call.rows)
<1> DEFINE t == Tail(calls)
           x == Call
<1>1. /\ ModelTrue(model) /\ x \in Calls /\ t \in Seq(Calls) /\ calls = <<x>> \o t
      /\ NoneListing(t) /\ CallNested(model, Call, Tail(calls), connected)
      /\ CallTrue(model, Call, Tail(calls)) /\ connected' = connected
  BY GoodBusyIs DEF OrderedBusy
<1>2. GoodNow(model, calls, connected) /\ OrderedNow(model, calls, connected)
  BY DEF OrderedBusy, GoodBusy
<1> HIDE DEF t, x
<1>3. \A row : ~ ToBeSorted(t, row)
  BY <1>1 DEF ToBeSorted, NoneListing
<1>4. \A row : ToBeSorted(calls, row) => x.do = "sort" /\ row \in x.rows
  BY <1>1, <1>3, ToBeSortedPushed
<1>5. \A row \in FollowedRows(model, connected) :
         InOrder(model, model.lists[row]) \/ (x.do = "sort" /\ row \in x.rows)
  BY <1>2, <1>4 DEF OrderedNow, OrderedRow
<1>6. \A row \in FollowedRows(model, connected) : row \in DOMAIN model.lists /\ model.lists[row] \in Seq(Entries)
  BY <1>1, RowsAre
<1> QED  BY <1>1, <1>2, <1>3, <1>5, <1>6 DEF t, x

\* Nothing is to be sorted, and the lists that change keep their order.
LEMMA OrderedKept ==
  ASSUME OrderedBusy, Call.do # "sort",
         model'.column = model.column, model'.reversed = model.reversed, model'.size = model.size,
         model'.sub \subseteq model.sub,
         \A row \in FollowedRows(model, connected) :
            InOrder(model, model.lists[row]) /\ row \in FollowedRows(model', connected)
               => InOrder(model, model'.lists[row])
  PROVE  OrderedNext
<1>1. connected' = connected /\ \A row \in FollowedRows(model, connected) : InOrder(model, model.lists[row])
  BY OrderedBusyIs
<1>2. FollowedRows(model', connected) \subseteq FollowedRows(model, connected)
  BY DEF FollowedRows
<1>3. \A row \in FollowedRows(model', connected) : InOrder(model', model'.lists[row])
  BY <1>1, <1>2, AlikeOrder
<1> QED  BY <1>1, <1>3, InOrderIsOrdered DEF OrderedNext

LEMMA RemoveChildOrdered ==
  ASSUME OrderedBusy, RemoveChild
  PROVE  OrderedNext
<1> DEFINE row == Call.row
<1>1. ModelTrue(model) /\ Call.do = "remove" /\ row \in DOMAIN model.lists /\ model.lists[row] # <<>>
  BY OrderedBusyIs DEF RemoveChild, HasChild
<1>2. CASE Head(model.lists[row]) = Dummy
  <2>1. Emptied(model, model', row)
    BY <1>1, <1>2, DummyIsRemoved DEF RemoveChild
  <2> HIDE DEF row
  <2>2. /\ model'.lists[row] = <<>> /\ model'.sub = model.sub
        /\ \A r \in DOMAIN model.lists \ {row} : model'.lists[r] = model.lists[r]
        /\ model'.column = model.column /\ model'.reversed = model.reversed /\ model'.size = model.size
    BY <2>1 DEF Emptied
  <2>3. InOrder(model, <<>>)
    BY DEF InOrder
  <2>4. \A r \in FollowedRows(model, connected) : InOrder(model, model.lists[r]) => InOrder(model, model'.lists[r])
    BY <2>2, <2>3, OrderedBusyIs
  <2> QED  BY <1>1, <2>2, <2>4, OrderedKept
<1>3. CASE Head(model.lists[row]) # Dummy
  <2>1. model' = model
    BY <1>3 DEF RemoveChild
  <2> QED  BY <1>1, <2>1, OrderedKept
<1> QED  BY <1>2, <1>3

LEMMA RemoveItselfOrdered ==
  ASSUME OrderedBusy, RemoveItself
  PROVE  OrderedNext
<1> DEFINE row == Call.row
           parent == Front(Call.row)
           f == Last(Call.row)
<1>1. /\ Removed(model, model', parent, f)
      /\ parent \in DOMAIN model.lists /\ f \in ToSet(model.lists[parent])
      /\ Append(parent, f) = row
  BY RemoveItselfIs DEF OrderedBusy, GoodBusy
<1>2. Call.do = "remove" /\ ModelTrue(model)
  BY OrderedBusyIs DEF RemoveItself
<1>3. model.lists[parent] \in Seq(Entries)
  BY <1>1, <1>2, ModelTypes
<1> HIDE DEF row, parent, f
<1>4. /\ \/ model'.lists[parent] = <<Dummy>>
         \/ model'.lists[parent] = RemoveAt(model.lists[parent], Where(model.lists[parent], f))
      /\ \A r \in DOMAIN model.lists \ {parent, row} : model'.lists[r] = model.lists[r]
      /\ model'.sub = model.sub \ {row} /\ row # Top
      /\ model'.column = model.column /\ model'.reversed = model.reversed /\ model'.size = model.size
  BY <1>1 DEF Removed
<1> DEFINE s == model.lists[parent]
<1>5. s \in Seq(Entries) /\ f \in ToSet(s)
  BY <1>1, <1>3
<1>6. InOrder(model, <<Dummy>>)
  <2>1. <<Dummy>> \in Seq(Entries) /\ ~ (Len(<<Dummy>>) > 1)
    BY DirsAre
  <2> HIDE DEF s
  <2> QED  BY <2>1, ShortInOrder
<1>7. InOrder(model, s) => InOrder(model, RemoveAt(s, Where(s, f)))
  <2> HIDE DEF s
  <2>1. Where(s, f) \in 1 .. Len(s)
    BY <1>5, WhereIs
  <2> QED  BY <1>5, <2>1, RemoveKeepsOrder
<1>8. \A r \in FollowedRows(model, connected) :
         InOrder(model, model.lists[r]) /\ r \in FollowedRows(model', connected) => InOrder(model, model'.lists[r])
  <2> TAKE r \in FollowedRows(model, connected)
  <2>1. r \in DOMAIN model.lists
    BY OrderedBusyIs
  <2>2. r \in FollowedRows(model', connected) => r # row
    BY <1>4 DEF FollowedRows
  <2>3. CASE r = parent
    BY <1>4, <1>6, <1>7, <2>3
  <2>4. CASE r # parent
    BY <1>4, <2>1, <2>2, <2>4
  <2> QED  BY <2>3, <2>4
<1> QED  BY <1>2, <1>4, <1>8, OrderedKept

LEMMA ClearDirectoryOrdered ==
  ASSUME OrderedBusy, ClearDirectory
  PROVE  OrderedNext
<1>1. model' = model /\ Call.do = "clear"
  BY DEF ClearDirectory
<1> QED  BY <1>1, OrderedKept

LEMMA UnloadChildOrdered ==
  ASSUME OrderedBusy, UnloadChild
  PROVE  OrderedNext
<1> DEFINE row == Call.row
<1>1. /\ ModelTrue(model) /\ Call.do = "unload" /\ row \in model.sub
      /\ CallTrue(model, Call, Tail(calls))
  BY OrderedBusyIs DEF UnloadChild
<1>2. CASE model' = model
  BY <1>1, <1>2, OrderedKept
<1>3. CASE model.rev[row] = {} /\ model' = Unloaded(model, row)
  <2>1. Last(row) \notin DOMAIN model.dirs
    BY <1>1 DEF CallTrue
  <2>2. /\ model'.lists = model.lists /\ model'.sub = model.sub \ {row}
        /\ model'.column = model.column /\ model'.reversed = model.reversed /\ model'.size = model.size
    BY <1>1, <1>3, <2>1, SubdirectoryUnloaded
  <2> QED  BY <1>1, <2>2, OrderedKept
<1> QED  BY <1>2, <1>3 DEF UnloadChild

LEMMA ListFileOrdered ==
  ASSUME OrderedBusy, ListFile
  PROVE  OrderedNext
<1> DEFINE D == Call.dir
<1>1. /\ ModelTrue(model) /\ GoodNow(model, calls, connected)
      /\ CallNested(model, Call, Tail(calls), connected)
  BY OrderedBusyIs
<1>2. PICK f \in Call.files : model' = AddFile(model, f, D) /\ f \in Files
  BY ListFileIs DEF OrderedBusy, GoodBusy
<1>3. Call.do = "list"
  BY DEF ListFile
<1>4. Home[f] = D /\ (D = Root \/ D \in DOMAIN model.dirs) /\ D \in connected
  BY <1>1, <1>2, <1>3 DEF CallNested
<1> HIDE DEF D
<1>5. model'.sub = model.sub
  BY <1>1, <1>2, <1>4, AddedFiles
<1>6. ASSUME NEW row \in FollowedRows(model', connected) PROVE InOrder(model', model'.lists[row])
  <2>1. row \in FollowedRows(model, connected)
    BY <1>5, <1>6 DEF FollowedRows
  <2>2. row \in DOMAIN model.lists /\ InOrder(model, model.lists[row])
    BY <1>3, <2>1, OrderedBusyIs
  <2> QED  BY <1>1, <1>2, <2>2, AddKeepsOrder
<1> QED  BY <1>6, OrderedBusyIs, InOrderIsOrdered DEF OrderedNext

LEMMA ListDoneOrdered ==
  ASSUME OrderedBusy, ListDone
  PROVE  OrderedNext
<1>1. model' = model /\ Call.do = "list"
  BY DEF ListDone
<1> QED  BY <1>1, OrderedKept

LEMMA ListNextOrdered ==
  ASSUME OrderedBusy, ListNext
  PROVE  OrderedNext
<1>1. model' = model /\ Call.do = "again"
  BY DEF ListNext
<1> QED  BY <1>1, OrderedKept

LEMMA SortNextOrdered ==
  ASSUME OrderedBusy, SortNext
  PROVE  OrderedNext
<1> DEFINE t == Tail(calls)
<1>1. /\ t \in Seq(Calls) /\ connected' = connected
      /\ \A row \in FollowedRows(model, connected) : row \in DOMAIN model.lists
      /\ \A row \in FollowedRows(model, connected) : InOrder(model, model.lists[row]) \/ row \in Call.rows
  BY OrderedBusyIs
<1>2. CASE Call.rows = {} /\ calls' = t /\ model' = model
  <2>1. \A row \in FollowedRows(model, connected) : InOrder(model, model.lists[row])
    BY <1>1, <1>2
  <2>2. OrderedNow(model, t, connected)
    BY <2>1, InOrderIsOrdered
  <2> QED  BY <1>1, <1>2, <2>2 DEF OrderedNext
<1>3. ASSUME NEW row \in Call.rows, Rearranged(model, model', row), InOrder(model, model'.lists[row]),
             Call.rows \subseteq Seq(Folders),
             calls' = <<Sorting(Call.rows \ {row})>> \o t
      PROVE  OrderedNext
  <2>1. /\ \A r \in DOMAIN model.lists \ {row} : model'.lists[r] = model.lists[r]
        /\ model'.sub = model.sub
        /\ model'.column = model.column /\ model'.reversed = model.reversed /\ model'.size = model.size
    BY <1>3 DEF Rearranged, SameBut
  <2> DEFINE s == Call.rows \ {row}
             x == Sorting(s)
  <2>2. s \in SUBSET Seq(Folders) /\ \A r \in Call.rows : r = row \/ r \in s
    BY <1>3
  <2> HIDE DEF s, t
  <2>3. x \in Calls /\ x.do = "sort" /\ x.rows = s
    BY <2>2, ListCallsMade
  <2> HIDE DEF x
  <2>4. \A r \in s : ToBeSorted(<<x>> \o t, r)
    BY <1>1, <2>3, ToBeSortedPushed
  <2>5. ASSUME NEW r \in FollowedRows(model', connected) PROVE OrderedRow(model', calls', r)
    <3>1. r \in FollowedRows(model, connected)
      BY <2>1, <2>5 DEF FollowedRows
    <3>2. CASE r = row
      <4>1. InOrder(model', model'.lists[r])
        BY <1>3, <2>1, <3>2, AlikeOrder
      <4> QED  BY <4>1 DEF OrderedRow
    <3>3. CASE r # row /\ InOrder(model, model.lists[r])
      <4>1. InOrder(model', model'.lists[r])
        BY <1>1, <2>1, <3>1, <3>3, AlikeOrder
      <4> QED  BY <4>1 DEF OrderedRow
    <3>4. CASE r # row /\ r \in Call.rows
      <4>1. ToBeSorted(calls', r)
        BY <1>3, <2>2, <2>4, <3>4 DEF x, s
      <4> QED  BY <4>1 DEF OrderedRow
    <3> QED  BY <1>1, <3>1, <3>2, <3>3, <3>4
  <2> QED  BY <1>1, <2>5 DEF OrderedNext, OrderedNow
<1> QED  BY <1>2, <1>3, SortNextIs DEF OrderedBusy, GoodBusy

LEMMA WorkingOrdered ==
  ASSUME Always, GoodNow(model, calls, connected), OrderedNow(model, calls, connected), Working
  PROVE  OrderedNext
<1>1. OrderedBusy
  BY DEF Working, OrderedBusy, GoodBusy, Busy, Others
<1> QED  BY <1>1, RemoveChildOrdered, RemoveItselfOrdered, ClearDirectoryOrdered, UnloadChildOrdered,
            ListFileOrdered, ListDoneOrdered, ListNextOrdered, SortNextOrdered DEF Working

\* The rows of every folder the view follows are in order, or to be sorted.
OrderedTrue == mishaps = {} => OrderedNow(model, calls, connected)

LEMMA InitOrdered == Init => OrderedTrue
<1> SUFFICES ASSUME Init PROVE OrderedNow(model, calls, connected)
  BY DEF OrderedTrue
<1>1. model.lists = [row \in {Top} |-> <<>>] /\ model.sub = {}
  BY DEF Init, EmptyModel
<1>2. FollowedRows(model, connected) = {Top}
  BY <1>1 DEF FollowedRows
<1>3. InOrder(model, <<>>)
  BY DEF InOrder
<1>4. \A row \in FollowedRows(model, connected) : InOrder(model, model.lists[row])
  BY <1>1, <1>2, <1>3
<1> QED  BY <1>4, InOrderIsOrdered

LEMMA OrderedAlways == Spec => []OrderedTrue
<1>1. Always /\ Agrees /\ OrderedTrue /\ [Next]_vars => OrderedTrue'
  <2> SUFFICES ASSUME Always, Agrees, OrderedTrue, [Next]_vars, mishaps' = {} PROVE OrderedNext
    BY DEF OrderedTrue, OrderedNext
  <2>1. CASE Next
    <3>1. mishaps = {}
      BY <2>1, MishapsStay
    <3>2. OrderedNow(model, calls, connected) /\ GoodNow(model, calls, connected)
      BY <3>1 DEF OrderedTrue, Agrees, Fine
    <3> QED  BY <2>1, <3>2, HappensOrdered, WorkingOrdered DEF Next
  <2>2. CASE UNCHANGED vars
    BY <2>2 DEF vars, OrderedTrue, OrderedNext
  <2> QED  BY <2>1, <2>2
<1> QED  BY <1>1, AlwaysAlways, AgreesAlways, InitOrdered, PTL DEF Spec

LEMMA OrderedIs ==
  ASSUME FollowedTrue, OrderedTrue
  PROVE  RowsSorted
<1> SUFFICES ASSUME calls = <<>>, mishaps = {}, NEW row \in {Top} \cup model.open
             PROVE  InOrder(model, model.lists[row])
  BY DEF RowsSorted, InOrder
<1>1. OpenFollowed(model, connected)
  BY FollowsHolds DEF FollowedTrue
<1>2. row \in FollowedRows(model, connected)
  BY <1>1 DEF OpenFollowed, FollowedRows
<1> QED  BY <1>2, OrderedWithout DEF OrderedTrue

\* The rows of the view's folder and of every open row are in order by the
\* column and the direction the user chose, between the calls: an insertion, a
\* change of size and a removal keep the order, and set_sort_column_id makes it
\* again in every list, as long as no list of one row hid those below it.
THEOREM RowsStaySorted == Spec => []RowsSorted
<1>1. FollowedTrue /\ OrderedTrue => RowsSorted
  BY OrderedIs
<1> QED  BY <1>1, FollowedAlways, OrderedAlways, PTL

===============================================================================
