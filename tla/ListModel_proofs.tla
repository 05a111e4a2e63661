--------------------------- MODULE ListModel_proofs ---------------------------
(***************************************************************************)
(* The list model: what its functions do to a tree of rows, in which order *)
(* they put the rows, and that the widget, which follows the signals, has  *)
(* the lists as they are; for any files, folders in folders and sizes.     *)
(***************************************************************************)
EXTENDS ListModel, SequenceTheorems, FiniteSetTheorems, WellFoundedInduction, TLAPS

-------------------------------------------------------------------------------
(* Sequences.                                                              *)

LEMMA InsertAtIs ==
  ASSUME NEW S, NEW s \in Seq(S), NEW i \in 1 .. Len(s) + 1, NEW e \in S
  PROVE  /\ InsertAt(s, i, e) \in Seq(S)
         /\ Len(InsertAt(s, i, e)) = Len(s) + 1
         /\ \A j \in 1 .. Len(s) + 1 :
               InsertAt(s, i, e)[j] = IF j < i THEN s[j] ELSE IF j = i THEN e ELSE s[j - 1]
<1> DEFINE before == SubSeq(s, 1, i - 1)
           after1 == SubSeq(s, i, Len(s))
<1>1. /\ before \in Seq(S) /\ Len(before) = i - 1
      /\ \A j \in 1 .. i - 1 : before[j] = s[j]
  BY SubSeqProperties
<1>2. /\ after1 \in Seq(S) /\ Len(after1) = Len(s) - i + 1
      /\ \A j \in 1 .. Len(s) - i + 1 : after1[j] = s[i + j - 1]
  BY SubSeqProperties
<1>3. /\ <<e>> \in Seq(S) /\ Len(<<e>>) = 1 /\ <<e>>[1] = e
  OBVIOUS
<1>4. InsertAt(s, i, e) = before \o <<e>> \o after1
  BY DEF InsertAt
<1> HIDE DEF before, after1
<1>5. /\ before \o <<e>> \in Seq(S) /\ Len(before \o <<e>>) = i
      /\ \A j \in 1 .. i : (before \o <<e>>)[j] = IF j < i THEN s[j] ELSE e
  BY <1>1, <1>3, ConcatProperties
<1> QED  BY <1>2, <1>4, <1>5, ConcatProperties, SMTT(30)

LEMMA RemoveAtIs ==
  ASSUME NEW S, NEW s \in Seq(S), NEW i \in 1 .. Len(s)
  PROVE  /\ RemoveAt(s, i) \in Seq(S)
         /\ Len(RemoveAt(s, i)) = Len(s) - 1
         /\ \A j \in 1 .. Len(s) - 1 : RemoveAt(s, i)[j] = IF j < i THEN s[j] ELSE s[j + 1]
<1> DEFINE before == SubSeq(s, 1, i - 1)
           after1 == SubSeq(s, i + 1, Len(s))
<1>1. /\ before \in Seq(S) /\ Len(before) = i - 1
      /\ \A j \in 1 .. i - 1 : before[j] = s[j]
  BY SubSeqProperties
<1>2. /\ after1 \in Seq(S) /\ Len(after1) = Len(s) - i
      /\ \A j \in 1 .. Len(s) - i : after1[j] = s[i + j]
  BY SubSeqProperties
<1>3. RemoveAt(s, i) = before \o after1
  BY DEF RemoveAt
<1> HIDE DEF before, after1
<1>4. /\ before \o after1 \in Seq(S) /\ Len(before \o after1) = Len(before) + Len(after1)
      /\ \A j \in 1 .. Len(before) + Len(after1) :
            (before \o after1)[j] = IF j <= Len(before) THEN before[j] ELSE after1[j - Len(before)]
  BY <1>1, <1>2, ConcatProperties
<1>5. /\ Len(before) + Len(after1) = Len(s) - 1
      /\ \A j \in 1 .. Len(s) - 1 : IF j <= Len(before) THEN j < i ELSE
            /\ j >= i /\ j - Len(before) \in 1 .. Len(s) - i
            /\ i + (j - Len(before)) = j + 1
  BY <1>1, <1>2
<1>6. ASSUME NEW j \in 1 .. Len(s) - 1
      PROVE  (before \o after1)[j] = IF j < i THEN s[j] ELSE s[j + 1]
  <2>1. CASE j <= Len(before)
    BY <1>1, <1>4, <1>5, <2>1
  <2>2. CASE ~ (j <= Len(before))
    <3>1. (before \o after1)[j] = after1[j - Len(before)] /\ ~ (j < i)
      BY <1>4, <1>5, <2>2
    <3>2. after1[j - Len(before)] = s[j + 1]
      BY <1>2, <1>5, <2>2
    <3> QED  BY <3>1, <3>2
  <2> QED  BY <2>1, <2>2
<1> QED  BY <1>3, <1>4, <1>5, <1>6

\* A file is found where it is.
LEMMA WhereIs ==
  ASSUME NEW S, NEW s \in Seq(S), NEW x \in ToSet(s)
  PROVE  Where(s, x) \in 1 .. Len(s) /\ s[Where(s, x)] = x
<1>1. DOMAIN s = 1 .. Len(s)
  BY LenProperties
<1> QED  BY <1>1 DEF Where, ToSet

LEMMA WhereOnly ==
  ASSUME NEW S, NEW s \in Seq(S), IsInjective(s), NEW i \in 1 .. Len(s)
  PROVE  Where(s, s[i]) = i
<1>1. DOMAIN s = 1 .. Len(s)
  BY LenProperties
<1>2. s[i] \in ToSet(s)
  BY <1>1 DEF ToSet
<1> QED  BY <1>1, <1>2, WhereIs DEF IsInjective

LEMMA InsertDistinct ==
  ASSUME NEW S, NEW s \in Seq(S), NEW i \in 1 .. Len(s) + 1, NEW e \in S
  PROVE  /\ ToSet(InsertAt(s, i, e)) = ToSet(s) \cup {e}
         /\ IsInjective(s) /\ e \notin ToSet(s) => IsInjective(InsertAt(s, i, e))
<1>0. PICK t : t = InsertAt(s, i, e)
  OBVIOUS
<1>a. /\ InsertAt(s, i, e) \in Seq(S)
      /\ Len(InsertAt(s, i, e)) = Len(s) + 1
      /\ \A j \in 1 .. Len(s) + 1 :
            InsertAt(s, i, e)[j] = IF j < i THEN s[j] ELSE IF j = i THEN e ELSE s[j - 1]
  BY InsertAtIs
<1>1. /\ t \in Seq(S) /\ Len(t) = Len(s) + 1
      /\ \A j \in 1 .. Len(s) + 1 : t[j] = IF j < i THEN s[j] ELSE IF j = i THEN e ELSE s[j - 1]
  BY <1>0, <1>a
<1>2. DOMAIN s = 1 .. Len(s) /\ DOMAIN t = 1 .. Len(s) + 1
  BY <1>1, LenProperties
<1>3. ASSUME NEW j \in DOMAIN t PROVE t[j] \in ToSet(s) \cup {e}
  <2>1. CASE j < i
    <3>1. j \in DOMAIN s /\ t[j] = s[j]
      BY <1>1, <1>2, <1>3, <2>1
    <3> QED  BY <3>1 DEF ToSet
  <2>2. CASE j = i
    BY <1>1, <1>2, <2>2
  <2>3. CASE j > i
    <3>1. j - 1 \in DOMAIN s /\ t[j] = s[j - 1]
      BY <1>1, <1>2, <1>3, <2>3
    <3> QED  BY <3>1 DEF ToSet
  <2> QED  BY <1>2, <2>1, <2>2, <2>3
<1>4. ASSUME NEW j \in 1 .. Len(s) PROVE s[j] \in ToSet(t)
  <2>1. CASE j < i
    <3>1. t[j] = s[j] /\ j \in DOMAIN t
      BY <1>1, <1>2, <2>1
    <3> QED  BY <3>1 DEF ToSet
  <2>2. CASE j >= i
    <3>1. t[j + 1] = s[j] /\ j + 1 \in DOMAIN t
      BY <1>1, <1>2, <2>2
    <3> QED  BY <3>1 DEF ToSet
  <2> QED  BY <2>1, <2>2
<1>5. e \in ToSet(t)
  BY <1>1, <1>2 DEF ToSet
<1>6. ASSUME IsInjective(s), e \notin ToSet(s) PROVE IsInjective(t)
  <2>1. \A j \in 1 .. Len(s) : s[j] # e
    BY <1>2, <1>6 DEF ToSet
  <2>2. \A j, k \in 1 .. Len(s) : s[j] = s[k] => j = k
    BY <1>2, <1>6 DEF IsInjective
  <2>3. ASSUME NEW j \in DOMAIN t, j < i PROVE t[j] = s[j] /\ j \in 1 .. Len(s)
    BY <1>1, <1>2, <2>3
  <2>4. ASSUME NEW j \in DOMAIN t, j > i PROVE t[j] = s[j - 1] /\ j - 1 \in 1 .. Len(s)
    BY <1>1, <1>2, <2>4
  <2>5. t[i] = e
    BY <1>1
  <2>6. ASSUME NEW j \in DOMAIN t PROVE j < i \/ j = i \/ j > i
    BY <1>2
  <2>7. ASSUME NEW j \in DOMAIN t, NEW k \in DOMAIN t, t[j] = t[k], j < i PROVE j = k
    <3>1. CASE k < i
      BY <2>2, <2>3, <2>7, <3>1, Zenon
    <3>2. CASE k = i
      BY <2>1, <2>3, <2>5, <2>7, <3>2, Zenon
    <3>3. CASE k > i
      <4>1. j = k - 1
        <5>1. t[k] = s[k - 1] /\ k - 1 \in 1 .. Len(s)
          BY <2>4, <3>3, Zenon
        <5>2. t[j] = s[j] /\ j \in 1 .. Len(s)
          BY <2>3, <2>7, Zenon
        <5>3. s[j] = s[k - 1]
          BY <2>7, <5>1, <5>2, Zenon
        <5> QED  BY <2>2, <5>1, <5>2, <5>3, Zenon
      <4>2. j < i
        BY <2>7
      <4>3. i \in Int /\ j \in Int /\ k \in Int
        BY <1>2
      <4> QED  BY <3>3, <4>1, <4>2, <4>3
    <3> QED  BY <2>6, <3>1, <3>2, <3>3
  <2>8. ASSUME NEW j \in DOMAIN t, NEW k \in DOMAIN t, t[j] = t[k], j > i, k > i PROVE j = k
    <3>1. j - 1 = k - 1
      BY <2>2, <2>4, <2>8, Zenon
    <3> QED  BY <1>2, <3>1
  <2>9. ASSUME NEW j \in DOMAIN t, t[j] = t[i], j > i PROVE FALSE
    BY <2>1, <2>4, <2>5, <2>9, Zenon
  <2> SUFFICES ASSUME NEW j \in DOMAIN t, NEW k \in DOMAIN t, t[j] = t[k]
               PROVE  j = k
    BY DEF IsInjective
  <2> QED  BY <2>6, <2>7, <2>8, <2>9, Zenon
<1>7. ToSet(t) = ToSet(s) \cup {e}
  <2>1. ToSet(t) \subseteq ToSet(s) \cup {e}
    BY <1>3 DEF ToSet
  <2>2. ToSet(s) \subseteq ToSet(t)
    BY <1>2, <1>4 DEF ToSet
  <2> QED  BY <1>5, <2>1, <2>2
<1> QED  BY <1>0, <1>6, <1>7

LEMMA RemoveDistinct ==
  ASSUME NEW S, NEW s \in Seq(S), IsInjective(s), NEW i \in 1 .. Len(s)
  PROVE  /\ ToSet(RemoveAt(s, i)) = ToSet(s) \ {s[i]}
         /\ IsInjective(RemoveAt(s, i))
<1> DEFINE t == RemoveAt(s, i)
<1>1. /\ t \in Seq(S) /\ Len(t) = Len(s) - 1
      /\ \A j \in 1 .. Len(s) - 1 : t[j] = IF j < i THEN s[j] ELSE s[j + 1]
  BY RemoveAtIs
<1>2. DOMAIN s = 1 .. Len(s) /\ DOMAIN t = 1 .. Len(s) - 1
  BY <1>1, LenProperties
<1> HIDE DEF t
<1>3. \A j, k \in 1 .. Len(s) : s[j] = s[k] => j = k
  BY <1>2 DEF IsInjective
<1>4. ToSet(t) \subseteq ToSet(s) \ {s[i]}
  BY <1>1, <1>2, <1>3 DEF ToSet
<1>5. ASSUME NEW j \in 1 .. Len(s), j # i PROVE s[j] \in ToSet(t)
  <2>1. CASE j < i
    <3>1. t[j] = s[j] /\ j \in DOMAIN t
      BY <1>1, <1>2, <2>1
    <3> QED  BY <3>1 DEF ToSet
  <2>2. CASE j > i
    <3>1. t[j - 1] = s[j] /\ j - 1 \in DOMAIN t
      BY <1>1, <1>2, <2>2
    <3> QED  BY <3>1 DEF ToSet
  <2> QED  BY <1>5, <2>1, <2>2
<1>6. ToSet(s) \ {s[i]} \subseteq ToSet(t)
  BY <1>2, <1>5 DEF ToSet
<1>7. IsInjective(t)
  BY <1>1, <1>2, <1>3 DEF IsInjective
<1> QED  BY <1>4, <1>6, <1>7 DEF t

LEMMA FrontLast ==
  ASSUME NEW S, NEW row \in Seq(S), row # <<>>
  PROVE  /\ Len(row) \in Nat \ {0}
         /\ Front(row) \in Seq(S) /\ Len(Front(row)) = Len(row) - 1
         /\ \A i \in 1 .. Len(row) - 1 : Front(row)[i] = row[i]
         /\ Last(row) \in S
         /\ Append(Front(row), Last(row)) = row
<1>1. Len(row) \in Nat \ {0}
  BY EmptySeq
<1>2. \A i \in 1 .. Len(row) : row[i] \in S
  BY ElementOfSeq
<1>3. /\ Front(row) \in Seq(S) /\ Len(Front(row)) = Len(row) - 1
      /\ \A i \in 1 .. Len(row) - 1 : Front(row)[i] = row[i]
  <2>1. Len(row) - 1 \in Int /\ \A i \in 1 .. Len(row) - 1 : row[i] \in S
    BY <1>1, <1>2
  <2> DEFINE n == Len(row) - 1
  <2>2. /\ SubSeq(row, 1, n) \in Seq(S) /\ Len(SubSeq(row, 1, n)) = IF 1 <= n THEN n - 1 + 1 ELSE 0
        /\ \A i \in 1 .. n - 1 + 1 : SubSeq(row, 1, n)[i] = row[1 + i - 1]
    <3> HIDE DEF n
    <3>1. n \in Int /\ \A i \in 1 .. n : row[i] \in S
      BY <2>1 DEF n
    <3> QED  BY <3>1, SubSeqProperties
  <2>3. n \in Nat /\ Front(row) = SubSeq(row, 1, n)
    BY <1>1 DEF Front
  <2> HIDE DEF n
  <2>4. /\ Front(row) \in Seq(S) /\ Len(Front(row)) = n
        /\ \A i \in 1 .. n : Front(row)[i] = row[i]
    BY <2>2, <2>3
  <2> QED  BY <2>4 DEF n
<1>4. Last(row) \in S
  BY <1>1, <1>2 DEF Last
<1>5. Append(Front(row), Last(row)) = row
  <2> DEFINE t == Append(Front(row), Last(row))
  <2>1. /\ t \in Seq(S) /\ Len(t) = Len(row)
        /\ \A i \in 1 .. Len(row) - 1 : t[i] = row[i]
        /\ t[Len(row)] = row[Len(row)]
    BY <1>1, <1>3, <1>4, AppendProperties DEF Last
  <2> HIDE DEF t
  <2>2. \A i \in 1 .. Len(t) : t[i] = row[i]
    BY <1>1, <2>1
  <2> QED  BY <2>1, <2>2, SeqEqual DEF t
<1> QED  BY <1>1, <1>3, <1>4, <1>5

LEMMA AppendFront ==
  ASSUME NEW S, NEW r \in Seq(S), NEW f \in S
  PROVE  /\ Append(r, f) \in Seq(S) /\ Append(r, f) # <<>>
         /\ Len(Append(r, f)) = Len(r) + 1
         /\ \A i \in 1 .. Len(r) : Append(r, f)[i] = r[i]
         /\ Front(Append(r, f)) = r /\ Last(Append(r, f)) = f
<1> DEFINE t == Append(r, f)
<1>1. /\ t \in Seq(S) /\ t # <<>> /\ Len(t) = Len(r) + 1
      /\ \A i \in 1 .. Len(r) : t[i] = r[i]
      /\ t[Len(r) + 1] = f
  BY AppendProperties
<1> HIDE DEF t
<1>2. /\ Front(t) \in Seq(S) /\ Len(Front(t)) = Len(r)
      /\ \A i \in 1 .. Len(r) : Front(t)[i] = t[i]
  BY <1>1, FrontLast, LenProperties
<1>3. Front(t) = r
  BY <1>1, <1>2, SeqEqual
<1>4. Last(t) = f
  BY <1>1 DEF Last
<1> QED  BY <1>1, <1>3, <1>4 DEF t

\* The rows on the way to a row.
LEMMA UpTo ==
  ASSUME NEW S, NEW row \in Seq(S), NEW n \in 0 .. Len(row)
  PROVE  /\ SubSeq(row, 1, n) \in Seq(S) /\ Len(SubSeq(row, 1, n)) = n
         /\ \A i \in 1 .. n : SubSeq(row, 1, n)[i] = row[i]
         /\ \A k \in 0 .. n : SubSeq(SubSeq(row, 1, n), 1, k) = SubSeq(row, 1, k)
         /\ n > 0 => /\ Front(SubSeq(row, 1, n)) = SubSeq(row, 1, n - 1)
                     /\ Last(SubSeq(row, 1, n)) = row[n]
                     /\ SubSeq(row, 1, n) = Append(SubSeq(row, 1, n - 1), row[n])
<1>1. ASSUME NEW k \in 0 .. Len(row)
      PROVE  /\ SubSeq(row, 1, k) \in Seq(S) /\ Len(SubSeq(row, 1, k)) = k
             /\ \A i \in 1 .. k : SubSeq(row, 1, k)[i] = row[i]
  <2>1. \A i \in 1 .. k : row[i] \in S
    BY ElementOfSeq
  <2> QED  BY <2>1, SubSeqProperties
<1> DEFINE t == SubSeq(row, 1, n)
<1>2. /\ t \in Seq(S) /\ Len(t) = n /\ \A i \in 1 .. n : t[i] = row[i]
  BY <1>1
<1>3. ASSUME NEW k \in 0 .. n PROVE SubSeq(t, 1, k) = SubSeq(row, 1, k)
  <2>1. \A i \in 1 .. k : t[i] \in S
    BY <1>2, ElementOfSeq
  <2>2. /\ SubSeq(t, 1, k) \in Seq(S) /\ Len(SubSeq(t, 1, k)) = k
        /\ \A i \in 1 .. k : SubSeq(t, 1, k)[i] = t[i]
    BY <2>1, SubSeqProperties
  <2>3. /\ SubSeq(row, 1, k) \in Seq(S) /\ Len(SubSeq(row, 1, k)) = k
        /\ \A i \in 1 .. k : SubSeq(row, 1, k)[i] = row[i]
    BY <1>1
  <2> QED  BY <1>2, <2>2, <2>3, SeqEqual
<1>4. ASSUME n > 0
      PROVE  /\ Front(t) = SubSeq(row, 1, n - 1) /\ Last(t) = row[n]
             /\ t = Append(SubSeq(row, 1, n - 1), row[n])
  <2>1. Front(t) = SubSeq(t, 1, n - 1)
    BY <1>2 DEF Front
  <2>2. Front(t) = SubSeq(row, 1, n - 1)
    BY <1>3, <1>4, <2>1
  <2>3. Last(t) = row[n]
    BY <1>2, <1>4 DEF Last
  <2>4. t # <<>>
    BY <1>2, <1>4
  <2> QED  BY <1>2, <2>2, <2>3, <2>4, FrontLast
<1> QED  BY <1>2, <1>3, <1>4

LEMMA PrefixIs ==
  ASSUME NEW S, NEW s \in Seq(S), NEW t \in Seq(S)
  PROVE  IsPrefix(s, t) <=> Len(s) <= Len(t) /\ \A i \in 1 .. Len(s) : s[i] = t[i]
<1>1. SubSeq(s, 1, Len(s)) = s
  BY SubSeqFull
<1>2. CASE Len(s) <= Len(t)
  <2>1. /\ SubSeq(t, 1, Len(s)) \in Seq(S) /\ Len(SubSeq(t, 1, Len(s))) = Len(s)
        /\ \A i \in 1 .. Len(s) : SubSeq(t, 1, Len(s))[i] = t[i]
    BY <1>2, UpTo, LenProperties
  <2> QED  BY <1>1, <1>2, <2>1, SeqEqual DEF IsPrefix
<1>3. CASE ~ (Len(s) <= Len(t))
  BY <1>3 DEF IsPrefix
<1> QED  BY <1>2, <1>3

-------------------------------------------------------------------------------
(* Numbers.                                                                *)

LEMMA LeastExists ==
  ASSUME NEW places \in SUBSET Nat, places # {}
  PROVE  \E i \in places : \A k \in places : i <= k
<1>1. PICK i \in places : \A k \in places : ~ (<<k, i>> \in OpToRel(<, Nat))
  BY NatLessThanWellFounded, WFMin
<1>2. \A k \in places : i <= k
  <2> SUFFICES ASSUME NEW k \in places PROVE ~ (k < i)
    OBVIOUS
  <2>1. <<k, i>> \notin OpToRel(<, Nat)
    BY <1>1
  <2> QED  BY <2>1 DEF OpToRel
<1> QED  BY <1>2

LEMMA GreatestExists ==
  ASSUME NEW n \in Nat, NEW places \in SUBSET (0 .. n), places # {}
  PROVE  \E i \in places : \A k \in places : k <= i
<1> DEFINE mirrored == {n - i : i \in places}
<1>1. mirrored \in SUBSET Nat /\ mirrored # {}
  <2>1. \A i \in places : n - i \in Nat
    OBVIOUS
  <2>2. PICK i \in places : TRUE
    OBVIOUS
  <2>3. n - i \in mirrored
    OBVIOUS
  <2> QED  BY <2>1, <2>3
<1>2. PICK j \in mirrored : \A k \in mirrored : j <= k
  BY <1>1, LeastExists
<1>3. PICK i \in places : j = n - i
  BY <1>2
<1>4. \A k \in places : n - i <= n - k
  <2>1. \A k \in places : n - k \in mirrored
    OBVIOUS
  <2> QED  BY <1>2, <1>3, <2>1
<1> HIDE DEF mirrored
<1>5. \A k \in places : k <= i
  BY <1>4
<1> QED  BY <1>5

-------------------------------------------------------------------------------
(* Rows and their paths.                                                   *)

\* Each step on the way to the row is in a list.
OnTree(lists, row) ==
  \A n \in 1 .. Len(row) : /\ SubSeq(row, 1, n - 1) \in DOMAIN lists
                           /\ row[n] \in ToSet(lists[SubSeq(row, 1, n - 1)])

Tree(lists) ==
  /\ Top \in DOMAIN lists
  /\ DOMAIN lists \subseteq Seq(Folders)
  /\ \A row \in DOMAIN lists :
        /\ lists[row] \in Seq(Entries) /\ IsInjective(lists[row])
        /\ OnTree(lists, row)
        /\ \A f \in ToSet(lists[row]) \cap Folders : Append(row, f) \in DOMAIN lists

LEMMA PathIs ==
  ASSUME NEW lists, NEW row \in Seq(Entries), OnTree(lists, row),
         \A r \in DOMAIN lists : lists[r] \in Seq(Entries)
  PROVE  /\ GetPath(lists, row) \in Seq(Nat)
         /\ Len(GetPath(lists, row)) = Len(row)
         /\ \A i \in 1 .. Len(row) :
               /\ GetPath(lists, row)[i] = Where(lists[SubSeq(row, 1, i - 1)], row[i])
               /\ GetPath(lists, row)[i] \in 1 .. Len(lists[SubSeq(row, 1, i - 1)])
               /\ lists[SubSeq(row, 1, i - 1)][GetPath(lists, row)[i]] = row[i]
<1>1. \A i \in 1 .. Len(row) :
         LET s == lists[SubSeq(row, 1, i - 1)]
         IN  Where(s, row[i]) \in 1 .. Len(s) /\ s[Where(s, row[i])] = row[i]
  BY WhereIs DEF OnTree
<1>2. Len(row) \in Nat
  BY LenProperties
<1>3. \A i \in 1 .. Len(row) : Where(lists[SubSeq(row, 1, i - 1)], row[i]) \in Nat
  BY <1>1
<1>4. GetPath(lists, row) \in [1 .. Len(row) -> Nat]
  BY <1>3 DEF GetPath
<1>5. GetPath(lists, row) \in Seq(Nat)
  BY <1>2, <1>4, SeqDef
<1>6. Len(GetPath(lists, row)) = Len(row)
  BY <1>2, <1>4, <1>5, LenProperties
<1> QED  BY <1>1, <1>5, <1>6 DEF GetPath

\* A path leads back to its row.
LEMMA IterOfPath ==
  ASSUME NEW lists, NEW row \in Seq(Entries), OnTree(lists, row),
         \A r \in DOMAIN lists : lists[r] \in Seq(Entries)
  PROVE  GetIter(lists, GetPath(lists, row)) = row
<1> DEFINE path == GetPath(lists, row)
           len == Len(path)
           Step(at, i) == IF i = 0 THEN Top
                          ELSE IF at[i-1] \in DOMAIN lists /\ path[i] \in DOMAIN lists[at[i-1]]
                               THEN Append(at[i-1], lists[at[i-1]][path[i]])
                               ELSE NoRow
           Walks(at) == at = [i \in 0 .. len |-> Step(at, i)]
           walk == [i \in 0 .. len |-> SubSeq(row, 1, i)]
<1>1. /\ path \in Seq(Nat) /\ len = Len(row) /\ len \in Nat
      /\ \A i \in 1 .. len : LET s == lists[SubSeq(row, 1, i - 1)]
                             IN  path[i] \in 1 .. Len(s) /\ s[path[i]] = row[i]
  BY PathIs, LenProperties
<1>2. \A i \in 1 .. len : /\ SubSeq(row, 1, i - 1) \in DOMAIN lists
                          /\ path[i] \in DOMAIN lists[SubSeq(row, 1, i - 1)]
                          /\ SubSeq(row, 1, i) = Append(SubSeq(row, 1, i - 1), lists[SubSeq(row, 1, i - 1)][path[i]])
  <2> SUFFICES ASSUME NEW i \in 1 .. len
               PROVE  /\ SubSeq(row, 1, i - 1) \in DOMAIN lists
                      /\ path[i] \in DOMAIN lists[SubSeq(row, 1, i - 1)]
                      /\ SubSeq(row, 1, i) = Append(SubSeq(row, 1, i - 1), lists[SubSeq(row, 1, i - 1)][path[i]])
    OBVIOUS
  <2>1. SubSeq(row, 1, i - 1) \in DOMAIN lists
    BY <1>1 DEF OnTree
  <2>2. lists[SubSeq(row, 1, i - 1)] \in Seq(Entries)
    BY <2>1
  <2>3. DOMAIN lists[SubSeq(row, 1, i - 1)] = 1 .. Len(lists[SubSeq(row, 1, i - 1)])
    BY <2>2, LenProperties
  <2>4. i \in 0 .. Len(row) /\ i > 0
    BY <1>1
  <2>5. SubSeq(row, 1, i) = Append(SubSeq(row, 1, i - 1), row[i])
    BY <2>4, UpTo
  <2> QED  BY <1>1, <2>1, <2>3, <2>5
<1> HIDE DEF path
<1>3. SubSeq(row, 1, 0) = Top
  BY SubSeqEmpty DEF Top
<1>4. Walks(walk)
  <2>1. \A i \in 0 .. len : walk[i] = Step(walk, i)
    <3> SUFFICES ASSUME NEW i \in 0 .. len PROVE SubSeq(row, 1, i) = Step(walk, i)
      OBVIOUS
    <3>1. CASE i = 0
      BY <1>3, <3>1
    <3>2. CASE i # 0
      <4>1. i \in 1 .. len /\ i - 1 \in 0 .. len
        BY <1>1, <3>2
      <4>2. walk[i - 1] = SubSeq(row, 1, i - 1)
        BY <4>1
      <4> QED  BY <1>2, <3>2, <4>1, <4>2
    <3> QED  BY <3>1, <3>2
  <2>2. walk = [i \in 0 .. len |-> walk[i]]
    OBVIOUS
  <2> HIDE DEF Step, walk
  <2> QED  BY <2>1, <2>2
<1>5. ASSUME NEW at, Walks(at) PROVE at[len] = row
  <2> DEFINE wrong == {i \in 0 .. len : at[i] # SubSeq(row, 1, i)}
  <2>1. \A i \in 0 .. len : at[i] = Step(at, i)
    <3> HIDE DEF Step
    <3> QED  BY <1>5
  <2>2. ASSUME wrong # {} PROVE FALSE
    <3>1. wrong \in SUBSET Nat
      BY <1>1
    <3>2. PICK i \in wrong : \A k \in wrong : i <= k
      BY <2>2, <3>1, LeastExists
    <3>3. i # 0
      BY <1>3, <2>1, <3>2
    <3>4. i \in 1 .. len /\ i - 1 \in 0 .. len /\ i - 1 \notin wrong
      BY <1>1, <3>2, <3>3
    <3>5. at[i - 1] = SubSeq(row, 1, i - 1)
      BY <3>4
    <3>6. at[i] = Append(at[i-1], lists[at[i-1]][path[i]])
      BY <1>2, <2>1, <3>3, <3>4, <3>5
    <3> QED  BY <1>2, <3>2, <3>4, <3>5, <3>6
  <2>3. at[len] = SubSeq(row, 1, len)
    BY <1>1, <2>2
  <2> QED  BY <1>1, <2>3, SubSeqFull
<1>6. GetIter(lists, path) = (CHOOSE at : Walks(at))[len]
  BY DEF GetIter
<1>7. Walks(CHOOSE at : Walks(at))
  <2> HIDE DEF Walks, walk
  <2> QED  BY <1>4
<1> HIDE DEF Walks
<1> QED  BY <1>5, <1>6, <1>7 DEF path

-------------------------------------------------------------------------------
(* Rows come and go.                                                       *)

LEMMA RowOfTree ==
  ASSUME NEW lists, Tree(lists), NEW row \in DOMAIN lists
  PROVE  row \in Seq(Folders) /\ row \in Seq(Entries) /\ Len(row) \in Nat
<1>1. row \in Seq(Folders)
  BY DEF Tree
<1>2. Folders \subseteq Entries
  BY FoldersAssumption DEF Entries
<1> QED  BY <1>1, <1>2, LenProperties

LEMMA OnTheWay ==
  ASSUME NEW lists, Tree(lists), NEW row \in DOMAIN lists, NEW n \in 0 .. Len(row)
  PROVE  /\ SubSeq(row, 1, n) \in DOMAIN lists
         /\ n < Len(row) => row[n + 1] \in ToSet(lists[SubSeq(row, 1, n)])
<1>1. row \in Seq(Folders) /\ Len(row) \in Nat
  BY RowOfTree
<1>2. CASE n = Len(row)
  <2>1. SubSeq(row, 1, Len(row)) = row
    BY <1>1, SubSeqFull
  <2>2. ~ (n < Len(row))
    BY <1>1, <1>2
  <2> QED  BY <1>2, <2>1, <2>2
<1>3. CASE n < Len(row)
  <2>1. n + 1 \in 1 .. Len(row) /\ (n + 1) - 1 = n
    BY <1>1, <1>3
  <2>2. OnTree(lists, row)
    BY DEF Tree
  <2> QED  BY <1>3, <2>1, <2>2 DEF OnTree
<1> QED  BY <1>1, <1>2, <1>3

LEMMA ChildIsOnTree ==
  ASSUME NEW lists, Tree(lists), NEW parent \in DOMAIN lists, NEW f \in ToSet(lists[parent])
  PROVE  /\ f \in Entries /\ Append(parent, f) \in Seq(Entries)
         /\ OnTree(lists, Append(parent, f))
<1>1. parent \in Seq(Entries)
  BY RowOfTree
<1>2. f \in Entries
  <2>1. lists[parent] \in Seq(Entries)
    BY DEF Tree
  <2>2. PICK i \in DOMAIN lists[parent] : lists[parent][i] = f
    BY DEF ToSet
  <2> QED  BY <2>1, <2>2, ElementOfSeq, LenProperties
<1> DEFINE row == Append(parent, f)
<1>3. /\ row \in Seq(Entries) /\ Len(row) = Len(parent) + 1 /\ Len(parent) \in Nat
      /\ \A i \in 1 .. Len(parent) : row[i] = parent[i]
      /\ row[Len(parent) + 1] = f
  BY <1>1, <1>2, AppendProperties, LenProperties
<1>4. Front(row) = parent
  BY <1>1, <1>2, AppendFront
<1> HIDE DEF row
<1>5. ASSUME NEW n \in 1 .. Len(row)
      PROVE  SubSeq(row, 1, n - 1) \in DOMAIN lists /\ row[n] \in ToSet(lists[SubSeq(row, 1, n - 1)])
  <2>1. SubSeq(row, 1, n - 1) = SubSeq(parent, 1, n - 1)
    <3>1. Len(row) - 1 \in 0 .. Len(row) /\ n - 1 \in 0 .. Len(row) - 1
      BY <1>3
    <3>2. parent = SubSeq(row, 1, Len(row) - 1)
      BY <1>3, <1>4 DEF Front
    <3> QED  BY <1>3, <3>1, <3>2, UpTo
  <2>2. CASE n = Len(row)
    <3>1. SubSeq(parent, 1, n - 1) = parent
      BY <1>1, <1>3, <2>2, SubSeqFull
    <3> QED  BY <1>3, <2>1, <2>2, <3>1
  <2>3. CASE n # Len(row)
    <3>1. n - 1 \in 0 .. Len(parent) /\ n - 1 < Len(parent) /\ (n - 1) + 1 = n /\ n \in 1 .. Len(parent)
      BY <1>3, <2>3
    <3> QED  BY <1>3, <2>1, <3>1, OnTheWay
  <2> QED  BY <2>2, <2>3
<1> QED  BY <1>2, <1>3, <1>5 DEF OnTree, row

LEMMA RowIsOnTree ==
  ASSUME NEW m, Tree(m.lists), NEW row \in Seq(Entries), IsRow(m, row)
  PROVE  OnTree(m.lists, row) /\ row = Append(Front(row), Last(row))
<1>1. row = Append(Front(row), Last(row))
  BY FrontLast DEF IsRow, Top
<1> QED  BY <1>1, ChildIsOnTree DEF IsRow

\* A row below another has a file of it on its way.
LEMMA BelowIsChild ==
  ASSUME NEW lists, Tree(lists), NEW row \in Seq(Entries), NEW r \in DOMAIN lists, IsPrefix(row, r)
  PROVE  /\ row \in DOMAIN lists
         /\ r # row => lists[row] # <<>>
<1>1. /\ r \in Seq(Entries) /\ Len(r) \in Nat /\ Len(row) \in Nat
  BY LenProperties, RowOfTree
<1>2. Len(row) <= Len(r) /\ SubSeq(r, 1, Len(row)) = SubSeq(row, 1, Len(row))
  BY <1>1, PrefixIs DEF IsPrefix
<1>3. SubSeq(row, 1, Len(row)) = row
  BY SubSeqFull
<1>4. Len(row) \in 0 .. Len(r)
  BY <1>1, <1>2
<1>5. row \in DOMAIN lists
  BY <1>2, <1>3, <1>4, OnTheWay
<1>6. ASSUME r # row PROVE lists[row] # <<>>
  <2>1. Len(row) < Len(r)
    <3>1. CASE Len(row) = Len(r)
      BY <1>1, <1>2, <1>3, <1>6, <3>1, SubSeqFull
    <3> QED  BY <1>1, <1>2, <3>1
  <2>2. r[Len(row) + 1] \in ToSet(lists[row])
    BY <1>2, <1>3, <1>4, <2>1, OnTheWay
  <2>3. \A x : x \notin ToSet(<<>>)
    BY DEF ToSet
  <2> QED  BY <2>2, <2>3
<1> QED  BY <1>5, <1>6

\* A list changes; its folders stay.
LEMMA TreeReplaced ==
  ASSUME NEW lists, Tree(lists), NEW parent \in DOMAIN lists,
         NEW new \in Seq(Entries), IsInjective(new),
         ToSet(new) \cap Folders = ToSet(lists[parent]) \cap Folders
  PROVE  Tree([lists EXCEPT ![parent] = new])
<1> DEFINE lists2 == [lists EXCEPT ![parent] = new]
<1>1. /\ DOMAIN lists2 = DOMAIN lists /\ lists2[parent] = new
      /\ \A r \in DOMAIN lists : r # parent => lists2[r] = lists[r]
  OBVIOUS
<1> HIDE DEF lists2
<1>2. ASSUME NEW row \in DOMAIN lists PROVE OnTree(lists2, row)
  <2> SUFFICES ASSUME NEW n \in 1 .. Len(row)
               PROVE  /\ SubSeq(row, 1, n - 1) \in DOMAIN lists2
                      /\ row[n] \in ToSet(lists2[SubSeq(row, 1, n - 1)])
    BY DEF OnTree
  <2>1. /\ SubSeq(row, 1, n - 1) \in DOMAIN lists
        /\ row[n] \in ToSet(lists[SubSeq(row, 1, n - 1)])
    BY <1>2 DEF Tree, OnTree
  <2>2. row[n] \in Folders
    BY <1>2, ElementOfSeq DEF Tree
  <2> QED  BY <1>1, <2>1, <2>2
<1>3. ASSUME NEW row \in DOMAIN lists
      PROVE  /\ lists2[row] \in Seq(Entries) /\ IsInjective(lists2[row])
             /\ \A f \in ToSet(lists2[row]) \cap Folders : Append(row, f) \in DOMAIN lists2
  <2>1. /\ lists[row] \in Seq(Entries) /\ IsInjective(lists[row])
        /\ \A f \in ToSet(lists[row]) \cap Folders : Append(row, f) \in DOMAIN lists
    BY DEF Tree
  <2>2. CASE row = parent
    BY <1>1, <2>1, <2>2
  <2>3. CASE row # parent
    BY <1>1, <2>1, <2>3
  <2> QED  BY <2>2, <2>3
<1>4. Top \in DOMAIN lists /\ DOMAIN lists \subseteq Seq(Folders)
  BY DEF Tree
<1> QED  BY <1>1, <1>2, <1>3, <1>4 DEF Tree, lists2

\* A file comes; a folder brings an empty list.
HasRow(lists, parent, f, new) ==
  LET row == Append(parent, f)
      lists2 == WithRow([lists EXCEPT ![parent] = new], row)
  IN  /\ Tree(lists2) /\ row \notin DOMAIN lists
      /\ DOMAIN lists2 = IF f \in Folders THEN DOMAIN lists \cup {row} ELSE DOMAIN lists
      /\ lists2[parent] = new
      /\ f \in Folders => lists2[row] = <<>>
      /\ \A r \in DOMAIN lists \ {parent} : lists2[r] = lists[r]
      /\ f \notin Folders => lists2 = [lists EXCEPT ![parent] = new]

LEMMA TreeWithRow ==
  ASSUME NEW lists, Tree(lists), NEW parent \in DOMAIN lists, NEW f \in Entries,
         NEW new \in Seq(Entries), IsInjective(new),
         f \notin ToSet(lists[parent]),
         ToSet(new) \cap Folders = (ToSet(lists[parent]) \cup {f}) \cap Folders
  PROVE  HasRow(lists, parent, f, new)
<1> DEFINE row == Append(parent, f)
           lists2 == WithRow([lists EXCEPT ![parent] = new], row)
<1>1. parent \in Seq(Folders) /\ parent \in Seq(Entries) /\ Len(parent) \in Nat
  BY RowOfTree
<1>2. /\ row \in Seq(Entries) /\ row # <<>> /\ Front(row) = parent /\ Last(row) = f
      /\ Len(row) = Len(parent) + 1
  BY <1>1, AppendFront
<1>3. row \notin DOMAIN lists
  <2> SUFFICES ASSUME row \in DOMAIN lists PROVE FALSE
    OBVIOUS
  <2>1. Len(row) - 1 \in 0 .. Len(row) /\ Len(row) - 1 < Len(row) /\ (Len(row) - 1) + 1 = Len(row)
    BY <1>1, <1>2
  <2>2. row[Len(row)] \in ToSet(lists[SubSeq(row, 1, Len(row) - 1)])
    BY <2>1, OnTheWay
  <2> QED  BY <1>2, <2>2 DEF Front, Last
<1>4. CASE f \notin Folders
  <2>1. lists2 = [lists EXCEPT ![parent] = new]
    BY <1>2, <1>4 DEF WithRow
  <2>2. ToSet(new) \cap Folders = ToSet(lists[parent]) \cap Folders
    BY <1>4
  <2>3. Tree([lists EXCEPT ![parent] = new])
    BY <2>2, TreeReplaced
  <2> QED  BY <1>3, <1>4, <2>1, <2>3 DEF HasRow
<1>5. CASE f \in Folders
  <2>1. /\ DOMAIN lists2 = DOMAIN lists \cup {row} /\ lists2[parent] = new
        /\ lists2[row] = <<>> /\ \A r \in DOMAIN lists \ {parent} : lists2[r] = lists[r]
    BY <1>2, <1>3, <1>5 DEF WithRow, With
  <2> HIDE DEF lists2
  <2>2. row \in Seq(Folders)
    BY <1>1, <1>5, AppendFront DEF row
  <2>3. f \in ToSet(new)
    BY <1>5
  <2> HIDE DEF row
  <2>4. ASSUME NEW r \in DOMAIN lists, NEW n \in 1 .. Len(r)
        PROVE  /\ SubSeq(r, 1, n - 1) \in DOMAIN lists2
               /\ r[n] \in ToSet(lists2[SubSeq(r, 1, n - 1)])
    <3>1. /\ SubSeq(r, 1, n - 1) \in DOMAIN lists
          /\ r[n] \in ToSet(lists[SubSeq(r, 1, n - 1)])
      BY <2>4 DEF Tree, OnTree
    <3>2. r[n] \in Folders
      BY <2>4, ElementOfSeq DEF Tree
    <3> QED  BY <2>1, <3>1, <3>2
  <2>5. ASSUME NEW n \in 1 .. Len(row)
        PROVE  /\ SubSeq(row, 1, n - 1) \in DOMAIN lists2
               /\ row[n] \in ToSet(lists2[SubSeq(row, 1, n - 1)])
    <3>1. parent = SubSeq(row, 1, Len(row) - 1) /\ row[Len(row)] = f
      BY <1>2 DEF Front, Last
    <3>2. CASE n = Len(row)
      BY <2>1, <2>3, <3>1, <3>2
    <3>3. CASE n # Len(row)
      <4>1. n \in 1 .. Len(parent) /\ Len(row) - 1 \in 0 .. Len(row) /\ n - 1 \in 0 .. Len(row) - 1
        BY <1>1, <1>2, <3>3
      <4>2. SubSeq(parent, 1, n - 1) = SubSeq(row, 1, n - 1) /\ parent[n] = row[n]
        BY <1>2, <3>1, <4>1, UpTo
      <4> QED  BY <2>4, <4>1, <4>2
    <3> QED  BY <3>2, <3>3
  <2>6. ASSUME NEW r \in DOMAIN lists2
        PROVE  /\ lists2[r] \in Seq(Entries) /\ IsInjective(lists2[r])
               /\ \A g \in ToSet(lists2[r]) \cap Folders : Append(r, g) \in DOMAIN lists2
    <3>1. CASE r = row
      <4>1. <<>> \in Seq(Entries) /\ IsInjective(<<>>) /\ ToSet(<<>>) = {}
        BY DEF IsInjective, ToSet
      <4> QED  BY <2>1, <3>1, <4>1
    <3>2. CASE r = parent
      <4>1. \A g \in ToSet(lists[r]) \cap Folders : Append(r, g) \in DOMAIN lists
        BY <3>2 DEF Tree
      <4> QED  BY <2>1, <3>2, <4>1 DEF row
    <3>3. CASE r # row /\ r # parent
      <4>1. r \in DOMAIN lists /\ lists2[r] = lists[r]
        BY <2>1, <2>6, <3>3
      <4>2. /\ lists[r] \in Seq(Entries) /\ IsInjective(lists[r])
            /\ \A g \in ToSet(lists[r]) \cap Folders : Append(r, g) \in DOMAIN lists
        BY <4>1 DEF Tree
      <4> QED  BY <2>1, <4>1, <4>2
    <3> QED  BY <3>1, <3>2, <3>3
  <2>7. Top \in DOMAIN lists2 /\ DOMAIN lists2 \subseteq Seq(Folders)
    BY <2>1, <2>2 DEF Tree
  <2>8. \A r \in DOMAIN lists2 : OnTree(lists2, r)
    BY <2>1, <2>4, <2>5 DEF OnTree
  <2>9. Tree(lists2)
    BY <2>6, <2>7, <2>8 DEF Tree
  <2> QED  BY <1>3, <1>5, <2>1, <2>9 DEF row, lists2, HasRow
<1> QED  BY <1>4, <1>5 DEF HasRow

\* A row without children goes.
HasLost(lists, parent, f, new) ==
  LET row == Append(parent, f)
      lists2 == Without([lists EXCEPT ![parent] = new], {row})
  IN  /\ Tree(lists2) /\ row # parent /\ row # Top
      /\ DOMAIN lists2 = DOMAIN lists \ {row}
      /\ lists2[parent] = new
      /\ \A r \in DOMAIN lists \ {parent, row} : lists2[r] = lists[r]
      /\ DOMAIN lists \ Below(row, DOMAIN lists) = DOMAIN lists \ {row}

LEMMA TreeWithout ==
  ASSUME NEW lists, Tree(lists), NEW parent \in DOMAIN lists, NEW f \in Entries,
         NEW new \in Seq(Entries), IsInjective(new),
         ToSet(new) \cap Folders = (ToSet(lists[parent]) \ {f}) \cap Folders,
         Append(parent, f) \in DOMAIN lists => lists[Append(parent, f)] = <<>>
  PROVE  HasLost(lists, parent, f, new)
<1> DEFINE row == Append(parent, f)
           lists2 == Without([lists EXCEPT ![parent] = new], {row})
<1>1. parent \in Seq(Folders) /\ parent \in Seq(Entries) /\ Len(parent) \in Nat
  BY RowOfTree
<1>2. /\ row \in Seq(Entries) /\ row # <<>> /\ Front(row) = parent /\ Last(row) = f
      /\ Len(row) = Len(parent) + 1
  BY <1>1, AppendFront
<1>3. row # parent /\ row # Top
  BY <1>1, <1>2 DEF Top
<1>4. /\ DOMAIN lists2 = DOMAIN lists \ {row} /\ lists2[parent] = new
      /\ \A r \in DOMAIN lists \ {parent, row} : lists2[r] = lists[r]
  BY <1>3 DEF Without
<1> HIDE DEF lists2
<1>5. row \in DOMAIN lists => lists[row] = <<>>
  OBVIOUS
<1> HIDE DEF row
<1>6. ASSUME NEW r \in DOMAIN lists2, NEW n \in 1 .. Len(r)
      PROVE  /\ SubSeq(r, 1, n - 1) \in DOMAIN lists2
             /\ r[n] \in ToSet(lists2[SubSeq(r, 1, n - 1)])
  <2> DEFINE up == SubSeq(r, 1, n - 1)
  <2>1. up \in DOMAIN lists /\ r[n] \in ToSet(lists[up])
    BY <1>4, <1>6 DEF Tree, OnTree
  <2>2. r[n] \in Folders
    BY <1>4, <1>6, ElementOfSeq DEF Tree
  <2>3. up # row
    <3>1. \A x : x \notin ToSet(<<>>)
      BY DEF ToSet
    <3> QED  BY <1>5, <2>1, <3>1
  <2>4. ASSUME up = parent PROVE r[n] # f
    <3> SUFFICES ASSUME r[n] = f PROVE FALSE
      OBVIOUS
    <3>1. r \in DOMAIN lists /\ r \in Seq(Entries) /\ Len(r) \in Nat
      BY <1>4, RowOfTree
    <3>2. n \in 0 .. Len(r) /\ n > 0
      BY <3>1
    <3>3. SubSeq(r, 1, n) = row
      BY <2>4, <3>1, <3>2, UpTo DEF row
    <3>4. row \in DOMAIN lists
      BY <3>1, <3>2, <3>3, OnTheWay
    <3>5. CASE n = Len(r)
      BY <1>4, <3>1, <3>3, <3>5, SubSeqFull
    <3>6. CASE n # Len(r)
      <4>1. n < Len(r)
        BY <3>1, <3>6
      <4>2. r[n + 1] \in ToSet(lists[row])
        BY <3>1, <3>2, <3>3, <4>1, OnTheWay
      <4>3. \A x : x \notin ToSet(<<>>)
        BY DEF ToSet
      <4> QED  BY <1>5, <3>4, <4>2, <4>3
    <3> QED  BY <3>5, <3>6
  <2> QED  BY <1>4, <2>1, <2>2, <2>3, <2>4
<1>7. ASSUME NEW r \in DOMAIN lists2
      PROVE  /\ lists2[r] \in Seq(Entries) /\ IsInjective(lists2[r])
             /\ \A g \in ToSet(lists2[r]) \cap Folders : Append(r, g) \in DOMAIN lists2
  <2>1. /\ r \in DOMAIN lists /\ r # row /\ r \in Seq(Entries)
        /\ lists[r] \in Seq(Entries) /\ IsInjective(lists[r])
        /\ \A g \in ToSet(lists[r]) \cap Folders : Append(r, g) \in DOMAIN lists
    BY <1>4, <1>7, RowOfTree DEF Tree
  <2>2. CASE r = parent
    <3>1. ASSUME NEW g \in ToSet(lists2[r]) \cap Folders PROVE Append(r, g) \in DOMAIN lists2
      <4>1. g \in ToSet(lists[parent]) /\ g # f /\ g \in Entries
        BY <1>4, <2>2, <3>1, FoldersAssumption DEF Entries
      <4>2. Last(Append(r, g)) = g
        BY <2>1, <4>1, AppendFront
      <4> QED  BY <1>2, <1>4, <2>1, <2>2, <3>1, <4>1, <4>2
    <3> QED  BY <1>4, <2>2, <3>1
  <2>3. CASE r # parent
    <3>1. ASSUME NEW g \in ToSet(lists2[r]) \cap Folders PROVE Append(r, g) \in DOMAIN lists2
      <4>1. Front(Append(r, g)) = r
        BY <2>1, <3>1, FoldersAssumption, AppendFront DEF Entries
      <4> QED  BY <1>2, <1>4, <2>1, <2>3, <3>1, <4>1
    <3> QED  BY <1>4, <2>1, <2>3, <3>1
  <2> QED  BY <2>2, <2>3
<1>8. Top \in DOMAIN lists2 /\ DOMAIN lists2 \subseteq Seq(Folders)
  BY <1>3, <1>4 DEF Tree
<1>9. Tree(lists2)
  BY <1>6, <1>7, <1>8 DEF Tree, OnTree
<1>10. ASSUME NEW r \in DOMAIN lists PROVE r \in Below(row, DOMAIN lists) <=> r = row
  <2>1. ASSUME IsPrefix(row, r) PROVE r = row
    BY <1>2, <1>5, <2>1, BelowIsChild
  <2>2. IsPrefix(row, row)
    BY DEF IsPrefix
  <2> QED  BY <2>1, <2>2 DEF Below
<1> QED  BY <1>3, <1>4, <1>9, <1>10 DEF row, lists2, HasLost

-------------------------------------------------------------------------------
(* What holds of a model at every signal.                                  *)

Fields(m) == DOMAIN m = {"lists", "sub", "rev", "dirs", "column", "reversed",
                         "size", "shown", "open"}

\* What holds of the model whatever happens.
ModelTrue(m) ==
  /\ Fields(m)
  /\ Tree(m.lists) /\ m.shown = m.lists
  /\ \A row \in DOMAIN m.lists :
        Dummy \in ToSet(m.lists[row]) => row # Top /\ m.lists[row] = <<Dummy>>
  /\ m.sub \subseteq DOMAIN m.lists \ {Top}
  /\ DOMAIN m.rev = m.sub \cup {Top}
  /\ \A row \in DOMAIN m.rev : m.rev[row] = ToSet(m.lists[row]) \ {Dummy}
  /\ \A row \in DOMAIN m.lists \ DOMAIN m.rev : ToSet(m.lists[row]) \subseteq {Dummy}
  /\ \A d \in DOMAIN m.dirs : m.dirs[d] \in m.sub /\ Last(m.dirs[d]) = d
  /\ m.open \subseteq DOMAIN m.lists \ {Top}
  /\ \A row \in m.open : Front(row) = Top \/ Front(row) \in m.open
  /\ m.size \in [Files -> Int] /\ m.reversed \in BOOLEAN

\* Each row comes before the later ones, or ties with them.
InOrder(m, s) == \A i, j \in DOMAIN s : i < j => CompareEntries(m, s[i], s[j]) <= 0

-------------------------------------------------------------------------------
(* What a listener makes of a signal.                                      *)

ChildPath(lists, parent, f) ==
  LET row == Append(parent, f)
      path == GetPath(lists, row)
  IN  /\ path = Append(GetPath(lists, parent), Where(lists[parent], f))
      /\ Front(path) = GetPath(lists, parent)
      /\ Last(path) = Where(lists[parent], f)
      /\ GetIter(lists, path) = row
      /\ GetIter(lists, GetPath(lists, parent)) = parent
      /\ Front(row) = parent /\ Last(row) = f

LEMMA PathOfChild ==
  ASSUME NEW lists, Tree(lists), NEW parent \in DOMAIN lists, NEW f \in ToSet(lists[parent])
  PROVE  ChildPath(lists, parent, f)
<1> DEFINE row == Append(parent, f)
           path == GetPath(lists, row)
           above == GetPath(lists, parent)
           n == Len(parent)
<1>1. /\ parent \in Seq(Entries) /\ n \in Nat /\ f \in Entries /\ row \in Seq(Entries)
      /\ OnTree(lists, row) /\ OnTree(lists, parent)
      /\ \A r \in DOMAIN lists : lists[r] \in Seq(Entries)
  BY RowOfTree, ChildIsOnTree DEF Tree
<1>2. /\ Len(row) = n + 1 /\ \A i \in 1 .. n : row[i] = parent[i]
      /\ row[n + 1] = f /\ Front(row) = parent /\ Last(row) = f
  BY <1>1, AppendFront, AppendProperties
<1>3. /\ above \in Seq(Nat) /\ Len(above) = n
      /\ \A i \in 1 .. n : above[i] = Where(lists[SubSeq(parent, 1, i - 1)], parent[i])
  BY <1>1, PathIs
<1>4. /\ path \in Seq(Nat) /\ Len(path) = n + 1
      /\ \A i \in 1 .. n + 1 : path[i] = Where(lists[SubSeq(row, 1, i - 1)], row[i])
  <2> HIDE DEF row
  <2> QED  BY <1>1, <1>2, PathIs
<1>5. \A k \in 0 .. n : SubSeq(row, 1, k) = SubSeq(parent, 1, k)
  <2>1. parent = SubSeq(row, 1, n)
    <3>1. Len(row) - 1 = n
      BY <1>1, <1>2
    <3> QED  BY <1>2, <3>1 DEF Front
  <2>2. n \in 0 .. Len(row)
    BY <1>1, <1>2
  <2> HIDE DEF row
  <2> QED  BY <1>1, <2>1, <2>2, UpTo
<1>6. \A i \in 1 .. n : path[i] = above[i]
  <2> HIDE DEF row, path, above
  <2>1. \A i \in 1 .. n : i - 1 \in 0 .. n /\ i \in 1 .. n + 1
    BY <1>1
  <2> QED  BY <1>2, <1>3, <1>4, <1>5, <2>1
<1>7. path[n + 1] = Where(lists[parent], f)
  <2>1. SubSeq(parent, 1, n) = parent
    BY <1>1, SubSeqFull
  <2>2. n + 1 \in 1 .. n + 1 /\ (n + 1) - 1 = n /\ n \in 0 .. n
    BY <1>1
  <2> HIDE DEF row, path
  <2> QED  BY <1>2, <1>4, <1>5, <2>1, <2>2
<1>8. Where(lists[parent], f) \in Nat
  <2>1. n + 1 \in 1 .. Len(path)
    BY <1>1, <1>4
  <2> HIDE DEF path
  <2> QED  BY <1>4, <1>7, <2>1, ElementOfSeq
<1>9. path = Append(above, Where(lists[parent], f))
  <2> DEFINE other == Append(above, Where(lists[parent], f))
  <2>1. /\ other \in Seq(Nat) /\ Len(other) = n + 1
        /\ \A i \in 1 .. n : other[i] = above[i]
        /\ other[n + 1] = Where(lists[parent], f)
    <3> HIDE DEF above
    <3> QED  BY <1>3, <1>8, AppendProperties
  <2> HIDE DEF other, path
  <2>2. \A i \in 1 .. n + 1 : path[i] = other[i]
    <3>1. \A i \in 1 .. n + 1 : i \in 1 .. n \/ i = n + 1
      BY <1>1
    <3> QED  BY <1>6, <1>7, <2>1, <3>1
  <2> QED  BY <1>4, <2>1, <2>2, SeqEqual DEF other
<1>10. Front(path) = above /\ Last(path) = Where(lists[parent], f)
  <2> HIDE DEF path, above
  <2> QED  BY <1>3, <1>8, <1>9, AppendFront
<1>11. GetIter(lists, path) = row /\ GetIter(lists, above) = parent
  <2> HIDE DEF row
  <2> QED  BY <1>1, IterOfPath
<1> QED  BY <1>2, <1>9, <1>10, <1>11 DEF ChildPath

\* The way to a row does not depend on what is beside or below it.
LEMMA PathKept ==
  ASSUME NEW lists, Tree(lists), NEW lists2, NEW row \in DOMAIN lists,
         \A r \in DOMAIN lists : Len(r) < Len(row) => lists2[r] = lists[r]
  PROVE  GetPath(lists2, row) = GetPath(lists, row)
<1>1. row \in Seq(Entries) /\ Len(row) \in Nat
  BY RowOfTree
<1>2. ASSUME NEW i \in 1 .. Len(row)
      PROVE  lists2[SubSeq(row, 1, i - 1)] = lists[SubSeq(row, 1, i - 1)]
  <2>1. i - 1 \in 0 .. Len(row) /\ i - 1 < Len(row)
    BY <1>1
  <2>2. SubSeq(row, 1, i - 1) \in DOMAIN lists
    BY <2>1, OnTheWay
  <2>3. Len(SubSeq(row, 1, i - 1)) = i - 1
    BY <1>1, <2>1, UpTo
  <2> QED  BY <2>1, <2>2, <2>3
<1> QED  BY <1>2 DEF GetPath

LEMMA RowInsertedIs ==
  ASSUME NEW m, Fields(m), NEW lists, Tree(lists), m.shown = lists,
         NEW parent \in DOMAIN lists, NEW f \in Entries, f \notin ToSet(lists[parent]),
         NEW at \in 1 .. Len(lists[parent]) + 1,
         m.lists = WithRow([lists EXCEPT ![parent] = InsertAt(lists[parent], at, f)], Append(parent, f))
  PROVE  LET n == RowInserted(m, GetPath(m.lists, Append(parent, f)))
         IN  /\ Fields(n) /\ n.shown = m.lists /\ n.lists = m.lists /\ n.open = m.open
             /\ n.sub = m.sub /\ n.rev = m.rev /\ n.dirs = m.dirs
             /\ n.column = m.column /\ n.reversed = m.reversed /\ n.size = m.size
<1> DEFINE row == Append(parent, f)
           new == InsertAt(lists[parent], at, f)
           path == GetPath(m.lists, row)
<1>1. lists[parent] \in Seq(Entries) /\ IsInjective(lists[parent])
  BY DEF Tree
<1>2. new \in Seq(Entries) /\ ToSet(new) = ToSet(lists[parent]) \cup {f} /\ IsInjective(new)
  BY <1>1, InsertAtIs, InsertDistinct
<1>3. Where(new, f) = at
  <2>1. new[at] = f /\ at \in 1 .. Len(new)
    BY <1>1, InsertAtIs, LenProperties
  <2> HIDE DEF new
  <2> QED  BY <1>2, <2>1, WhereOnly
<1>4. /\ Tree(m.lists) /\ parent \in DOMAIN m.lists /\ m.lists[parent] = new
      /\ \A r \in DOMAIN lists \ {parent} : m.lists[r] = lists[r]
  <2>1. ToSet(new) \cap Folders = (ToSet(lists[parent]) \cup {f}) \cap Folders
    BY <1>2
  <2>2. m.lists = WithRow([lists EXCEPT ![parent] = new], row)
    OBVIOUS
  <2> HIDE DEF new
  <2>3. HasRow(lists, parent, f, new)
    BY <1>2, <2>1, TreeWithRow
  <2>4. /\ Tree(m.lists) /\ m.lists[parent] = new
        /\ \A r \in DOMAIN lists \ {parent} : m.lists[r] = lists[r]
        /\ parent \in DOMAIN m.lists
    BY <2>2, <2>3 DEF HasRow
  <2> QED  BY <2>4
<1>5. /\ GetIter(m.lists, path) = row /\ Last(row) = f
      /\ Front(path) = GetPath(m.lists, parent) /\ Last(path) = at
  <2>1. f \in ToSet(m.lists[parent])
    BY <1>2, <1>4
  <2> HIDE DEF new
  <2>2. ChildPath(m.lists, parent, f)
    BY <1>4, <2>1, PathOfChild
  <2> QED  BY <1>3, <1>4, <2>2 DEF ChildPath
<1>6. GetPath(m.lists, parent) = GetPath(lists, parent)
  <2>1. \A r \in DOMAIN lists : Len(r) < Len(parent) => r # parent
    <3>1. Len(parent) \in Nat
      BY RowOfTree
    <3> QED  BY <3>1
  <2>2. \A r \in DOMAIN lists : Len(r) < Len(parent) => m.lists[r] = lists[r]
    BY <1>4, <2>1
  <2> QED  BY <2>2, PathKept
<1>7. GetIter(m.shown, Front(path)) = parent
  <2>1. OnTree(lists, parent) /\ parent \in Seq(Entries)
    BY RowOfTree DEF Tree
  <2>2. \A r \in DOMAIN lists : lists[r] \in Seq(Entries)
    BY DEF Tree
  <2> QED  BY <1>5, <1>6, <2>1, <2>2, IterOfPath
<1>8. /\ RowInserted(m, path).shown = WithRow([m.shown EXCEPT ![parent] = InsertAt(m.shown[parent], at, f)], row)
      /\ LET n == RowInserted(m, path)
         IN  /\ Fields(n) /\ n.lists = m.lists /\ n.open = m.open
             /\ n.sub = m.sub /\ n.rev = m.rev /\ n.dirs = m.dirs
             /\ n.column = m.column /\ n.reversed = m.reversed /\ n.size = m.size
  <2> HIDE DEF path, row
  <2> QED  BY <1>5, <1>7 DEF RowInserted, Fields
<1> QED  BY <1>8

LEMMA RowChangedIs ==
  ASSUME NEW m, Fields(m), NEW lists, Tree(lists), m.shown = lists,
         NEW parent \in DOMAIN lists, NEW f \in Files, lists[parent] = <<Dummy>>,
         m.lists = WithRow([lists EXCEPT ![parent] = <<f>>], Append(parent, f))
  PROVE  LET n == RowChanged(m, GetPath(m.lists, Append(parent, f)))
         IN  /\ Fields(n) /\ n.shown = m.lists /\ n.lists = m.lists /\ n.open = m.open
             /\ n.sub = m.sub /\ n.rev = m.rev /\ n.dirs = m.dirs
             /\ n.column = m.column /\ n.reversed = m.reversed /\ n.size = m.size
<1> DEFINE row == Append(parent, f)
           path == GetPath(m.lists, row)
<1>1. /\ <<f>> \in Seq(Entries) /\ ToSet(<<f>>) = {f} /\ IsInjective(<<f>>)
      /\ f \in Entries /\ f # Dummy /\ Dummy \notin Folders
  BY DummyAssumption, FoldersAssumption DEF Entries, ToSet, IsInjective
<1>2. ToSet(lists[parent]) = {Dummy}
  BY DEF ToSet
<1>3. Where(<<f>>, f) = 1
  BY DEF Where
<1>4. /\ Tree(m.lists) /\ parent \in DOMAIN m.lists /\ m.lists[parent] = <<f>>
      /\ \A r \in DOMAIN lists \ {parent} : m.lists[r] = lists[r]
  <2>1. ToSet(<<f>>) \cap Folders = (ToSet(lists[parent]) \cup {f}) \cap Folders
    BY <1>1, <1>2
  <2>2. f \notin ToSet(lists[parent])
    BY <1>1, <1>2
  <2>3. HasRow(lists, parent, f, <<f>>)
    BY <1>1, <2>1, <2>2, TreeWithRow
  <2> QED  BY <2>3 DEF HasRow
<1>5. /\ GetIter(m.lists, path) = row /\ Last(row) = f
      /\ Front(path) = GetPath(m.lists, parent) /\ Last(path) = 1
  <2>1. f \in ToSet(m.lists[parent])
    BY <1>1, <1>4
  <2>2. ChildPath(m.lists, parent, f)
    BY <1>4, <2>1, PathOfChild
  <2> QED  BY <1>3, <1>4, <2>2 DEF ChildPath
<1>6. GetPath(m.lists, parent) = GetPath(lists, parent)
  <2>1. \A r \in DOMAIN lists : Len(r) < Len(parent) => r # parent
    <3>1. Len(parent) \in Nat
      BY RowOfTree
    <3> QED  BY <3>1
  <2>2. \A r \in DOMAIN lists : Len(r) < Len(parent) => m.lists[r] = lists[r]
    BY <1>4, <2>1
  <2> QED  BY <2>2, PathKept
<1>7. GetIter(m.shown, Front(path)) = parent
  <2>1. OnTree(lists, parent) /\ parent \in Seq(Entries)
    BY RowOfTree DEF Tree
  <2>2. \A r \in DOMAIN lists : lists[r] \in Seq(Entries)
    BY DEF Tree
  <2> QED  BY <1>5, <1>6, <2>1, <2>2, IterOfPath
<1>8. /\ RowChanged(m, path).shown = WithRow([m.shown EXCEPT ![parent] = [m.shown[parent] EXCEPT ![1] = f]], row)
      /\ LET n == RowChanged(m, path)
         IN  /\ Fields(n) /\ n.lists = m.lists /\ n.open = m.open
             /\ n.sub = m.sub /\ n.rev = m.rev /\ n.dirs = m.dirs
             /\ n.column = m.column /\ n.reversed = m.reversed /\ n.size = m.size
  <2> HIDE DEF path, row
  <2> QED  BY <1>5, <1>7 DEF RowChanged, Fields
<1>9. [<<Dummy>> EXCEPT ![1] = f] = <<f>>
  OBVIOUS
<1> QED  BY <1>8, <1>9

\* A row without children goes.
Deleted(m, n, lists, parent, f) ==
  LET row == Append(parent, f)
      left == RemoveAt(lists[parent], Where(lists[parent], f))
  IN  /\ Fields(n) /\ n.lists = m.lists
      /\ n.shown = Without([lists EXCEPT ![parent] = left], {row})
      /\ n.open = m.open \ (Below(row, m.open) \cup (IF left = <<>> THEN {parent} ELSE {}))
      /\ n.sub = m.sub /\ n.rev = m.rev /\ n.dirs = m.dirs
      /\ n.column = m.column /\ n.reversed = m.reversed /\ n.size = m.size

LEMMA RowDeletedIs ==
  ASSUME NEW m, Fields(m), NEW lists, Tree(lists), m.shown = lists,
         NEW parent \in DOMAIN lists, NEW f \in ToSet(lists[parent]),
         Append(parent, f) \in DOMAIN lists => lists[Append(parent, f)] = <<>>,
         NEW n, n = RowDeleted(m, GetPath(lists, Append(parent, f)))
  PROVE  Deleted(m, n, lists, parent, f)
<1> DEFINE row == Append(parent, f)
           path == GetPath(lists, row)
           left == RemoveAt(lists[parent], Where(lists[parent], f))
<1>1. /\ GetIter(lists, path) = row /\ Last(path) = Where(lists[parent], f)
      /\ Front(row) = parent
  BY PathOfChild DEF ChildPath
<1>2. DOMAIN lists \ Below(row, DOMAIN lists) = DOMAIN lists \ {row}
  <2>1. lists[parent] \in Seq(Entries) /\ IsInjective(lists[parent])
    BY DEF Tree
  <2>2. Where(lists[parent], f) \in 1 .. Len(lists[parent]) /\ lists[parent][Where(lists[parent], f)] = f
    BY <2>1, WhereIs
  <2>3. /\ left \in Seq(Entries) /\ IsInjective(left)
        /\ ToSet(left) \cap Folders = (ToSet(lists[parent]) \ {f}) \cap Folders
    BY <2>1, <2>2, RemoveAtIs, RemoveDistinct
  <2>4. f \in Entries
    BY ChildIsOnTree
  <2> HIDE DEF left
  <2>5. HasLost(lists, parent, f, left)
    BY <2>3, <2>4, TreeWithout
  <2> QED  BY <2>5 DEF HasLost
<1>3. /\ Fields(n) /\ n.lists = m.lists
      /\ n.shown = Without([lists EXCEPT ![parent] = left], Below(row, DOMAIN lists))
      /\ n.open = m.open \ (Below(row, m.open) \cup (IF left = <<>> THEN {parent} ELSE {}))
      /\ n.sub = m.sub /\ n.rev = m.rev /\ n.dirs = m.dirs
      /\ n.column = m.column /\ n.reversed = m.reversed /\ n.size = m.size
  <2>1. n = RowDeleted(m, path)
    OBVIOUS
  <2> HIDE DEF path, row, left
  <2>2. n = [m EXCEPT !.shown = Without([lists EXCEPT ![parent] = left], Below(row, DOMAIN lists)),
                      !.open = m.open \ (Below(row, m.open) \cup (IF left = <<>> THEN {parent} ELSE {}))]
    BY <1>1, <2>1 DEF RowDeleted, left
  <2> QED  BY <2>2 DEF Fields
<1>4. Without([lists EXCEPT ![parent] = left], Below(row, DOMAIN lists))
        = Without([lists EXCEPT ![parent] = left], {row})
  <2> DEFINE fn == [lists EXCEPT ![parent] = left]
  <2>1. DOMAIN fn = DOMAIN lists
    OBVIOUS
  <2> HIDE DEF fn, row
  <2> QED  BY <1>2, <2>1 DEF Without
<1> QED  BY <1>3, <1>4 DEF Deleted

LEMMA RowsReorderedIs ==
  ASSUME NEW m, Fields(m), NEW lists, Tree(lists), m.shown = lists,
         NEW parent \in DOMAIN lists, NEW new \in Seq(Entries), NEW order,
         m.lists = [lists EXCEPT ![parent] = new],
         Len(new) = Len(lists[parent]),
         \A i \in 1 .. Len(new) : lists[parent][order[i]] = new[i]
  PROVE  LET n == RowsReordered(m, parent, order)
         IN  /\ Fields(n) /\ n.shown = m.lists /\ n.lists = m.lists /\ n.open = m.open
             /\ n.sub = m.sub /\ n.rev = m.rev /\ n.dirs = m.dirs
             /\ n.column = m.column /\ n.reversed = m.reversed /\ n.size = m.size
<1>1. \A r \in DOMAIN lists : Len(r) < Len(parent) => m.lists[r] = lists[r]
  <2>1. Len(parent) \in Nat
    BY RowOfTree
  <2> QED  BY <2>1
<1>2. GetPath(m.lists, parent) = GetPath(lists, parent)
  BY <1>1, PathKept
<1>3. GetIter(m.shown, GetPath(m.lists, parent)) = parent
  <2>1. OnTree(lists, parent) /\ parent \in Seq(Entries)
    BY RowOfTree DEF Tree
  <2>2. \A r \in DOMAIN lists : lists[r] \in Seq(Entries)
    BY DEF Tree
  <2> QED  BY <1>2, <2>1, <2>2, IterOfPath
<1>4. LET n == RowsReordered(m, parent, order)
      IN  /\ Fields(n) /\ n.lists = m.lists /\ n.open = m.open
          /\ n.shown = [lists EXCEPT ![parent] = [i \in DOMAIN lists[parent] |-> lists[parent][order[i]]]]
          /\ n.sub = m.sub /\ n.rev = m.rev /\ n.dirs = m.dirs
          /\ n.column = m.column /\ n.reversed = m.reversed /\ n.size = m.size
  BY <1>3 DEF RowsReordered, Fields
<1>5. [i \in DOMAIN lists[parent] |-> lists[parent][order[i]]] = new
  <2>1. DOMAIN lists[parent] = 1 .. Len(new) /\ DOMAIN new = 1 .. Len(new)
    BY LenProperties DEF Tree
  <2>2. new = [i \in DOMAIN new |-> new[i]]
    OBVIOUS
  <2> QED  BY <2>1, <2>2
<1> QED  BY <1>4, <1>5

-------------------------------------------------------------------------------
(* Adding.                                                                 *)

\* A file is inserted before the first that is greater.
LEMMA InsertSortedIs ==
  ASSUME NEW m, NEW s \in Seq(Entries), NEW f \in Entries
  PROVE  \E at \in 1 .. Len(s) + 1 :
            /\ InsertSorted(m, s, f) = InsertAt(s, at, f)
            /\ \A i \in 1 .. Len(s) : i < at => ~ (CompareEntries(m, s[i], f) > 0)
            /\ at <= Len(s) => CompareEntries(m, s[at], f) > 0
<1> DEFINE greater == {i \in DOMAIN s : CompareEntries(m, s[i], f) > 0}
<1>1. DOMAIN s = 1 .. Len(s) /\ Len(s) \in Nat
  BY LenProperties
<1>2. CASE greater = {}
  <2>1. InsertSorted(m, s, f) = InsertAt(s, Len(s) + 1, f)
    BY <1>2 DEF InsertSorted
  <2>2. \A i \in 1 .. Len(s) : ~ (CompareEntries(m, s[i], f) > 0)
    BY <1>1, <1>2
  <2> QED  BY <1>1, <2>1, <2>2
<1>3. CASE greater # {}
  <2>1. greater \in SUBSET Nat
    BY <1>1
  <2>2. Min(greater) \in greater /\ \A k \in greater : Min(greater) <= k
    <3> HIDE DEF greater
    <3> QED  BY <1>3, <2>1, LeastExists DEF Min
  <2>3. InsertSorted(m, s, f) = InsertAt(s, Min(greater), f)
    BY <1>3 DEF InsertSorted
  <2>4. \A i \in 1 .. Len(s) : i < Min(greater) => ~ (CompareEntries(m, s[i], f) > 0)
    <3> SUFFICES ASSUME NEW i \in 1 .. Len(s), i < Min(greater), CompareEntries(m, s[i], f) > 0
                 PROVE  FALSE
      OBVIOUS
    <3>1. i \in greater
      BY <1>1
    <3>2. Min(greater) \in Nat /\ Min(greater) <= i
      BY <2>1, <2>2, <3>1
    <3> HIDE DEF greater
    <3> QED  BY <3>2
  <2>5. Min(greater) \in 1 .. Len(s) /\ CompareEntries(m, s[Min(greater)], f) > 0
    BY <1>1, <2>2
  <2> HIDE DEF greater
  <2> QED  BY <1>1, <2>3, <2>4, <2>5
<1> QED  BY <1>2, <1>3

LEMMA InsertSortedSet ==
  ASSUME NEW m, NEW s \in Seq(Entries), IsInjective(s), NEW f \in Entries, f \notin ToSet(s)
  PROVE  /\ InsertSorted(m, s, f) \in Seq(Entries) /\ IsInjective(InsertSorted(m, s, f))
         /\ ToSet(InsertSorted(m, s, f)) = ToSet(s) \cup {f}
         /\ Len(InsertSorted(m, s, f)) = Len(s) + 1
<1>1. PICK at \in 1 .. Len(s) + 1 : InsertSorted(m, s, f) = InsertAt(s, at, f)
  BY InsertSortedIs
<1> QED  BY <1>1, InsertAtIs, InsertDistinct

LEMMA OneEntry ==
  ASSUME NEW s \in Seq(Entries), IsInjective(s), NEW e, ToSet(s) = {e}
  PROVE  s = <<e>>
<1>1. DOMAIN s = 1 .. Len(s) /\ Len(s) \in Nat
  BY LenProperties
<1>2. \A i \in 1 .. Len(s) : s[i] = e
  BY <1>1 DEF ToSet
<1>3. Len(s) # 0
  <2>1. PICK i \in DOMAIN s : s[i] = e
    BY DEF ToSet
  <2> QED  BY <1>1, <2>1
<1>4. ~ (Len(s) > 1)
  <2> SUFFICES ASSUME Len(s) > 1 PROVE FALSE
    OBVIOUS
  <2>1. 1 \in DOMAIN s /\ 2 \in DOMAIN s /\ s[1] = s[2]
    BY <1>1, <1>2
  <2> QED  BY <2>1 DEF IsInjective
<1>5. Len(s) = 1
  BY <1>1, <1>3, <1>4
<1>6. e \in Entries
  BY <1>2, <1>5, ElementOfSeq
<1>7. <<e>> \in Seq(Entries) /\ Len(<<e>>) = 1 /\ <<e>>[1] = e
  BY <1>6
<1> QED  BY <1>2, <1>5, <1>7, SeqEqual

LEMMA NoEntry ==
  ASSUME NEW s \in Seq(Entries)
  PROVE  ToSet(s) = {} <=> s = <<>>
<1>1. DOMAIN s = 1 .. Len(s) /\ Len(s) \in Nat
  BY LenProperties
<1>2. ASSUME ToSet(s) = {} PROVE s = <<>>
  <2>1. DOMAIN s = {}
    BY <1>2 DEF ToSet
  <2>2. Len(s) = 0
    BY <1>1, <2>1
  <2> QED  BY <2>2, EmptySeq
<1>3. ToSet(<<>>) = {}
  BY DEF ToSet
<1> QED  BY <1>2, <1>3

LEMMA InsertFirst ==
  ASSUME NEW m, NEW f \in Entries
  PROVE  InsertSorted(m, <<>>, f) = <<f>>
<1> DEFINE s == <<>>
<1>1. s \in Seq(Entries) /\ IsInjective(s) /\ ToSet(s) = {}
  BY DEF IsInjective, ToSet
<1> HIDE DEF s
<1>2. /\ InsertSorted(m, s, f) \in Seq(Entries)
      /\ IsInjective(InsertSorted(m, s, f))
      /\ ToSet(InsertSorted(m, s, f)) = {f}
  BY <1>1, InsertSortedSet
<1>3. InsertSorted(m, s, f) = <<f>>
  BY <1>2, OneEntry
<1> QED  BY <1>3 DEF s

SameBut(n, m) ==
  /\ n.sub = m.sub /\ n.rev = m.rev /\ n.dirs = m.dirs /\ n.open = m.open
  /\ n.column = m.column /\ n.reversed = m.reversed /\ n.size = m.size

LEMMA AddDummyRowIs ==
  ASSUME NEW m, Fields(m), Tree(m.lists), m.shown = m.lists,
         NEW parent \in DOMAIN m.lists, Dummy \notin ToSet(m.lists[parent])
  PROVE  LET n == AddDummyRow(m, parent)
         IN  /\ Fields(n) /\ Tree(n.lists) /\ n.shown = n.lists /\ SameBut(n, m)
             /\ n.lists = [m.lists EXCEPT ![parent] = InsertSorted(m, m.lists[parent], Dummy)]
<1> DEFINE new == InsertSorted(m, m.lists[parent], Dummy)
           in == [m EXCEPT !.lists = [m.lists EXCEPT ![parent] = new]]
           row == Append(parent, Dummy)
<1>1. /\ m.lists[parent] \in Seq(Entries) /\ IsInjective(m.lists[parent])
      /\ Dummy \in Entries /\ Dummy \notin Folders
  BY DummyAssumption, FoldersAssumption DEF Tree, Entries
<1>2. /\ new \in Seq(Entries) /\ IsInjective(new)
      /\ ToSet(new) = ToSet(m.lists[parent]) \cup {Dummy}
  BY <1>1, InsertSortedSet
<1>3. PICK at \in 1 .. Len(m.lists[parent]) + 1 : new = InsertAt(m.lists[parent], at, Dummy)
  BY <1>1, InsertSortedIs, SMTT(30)
<1>4. AddDummyRow(m, parent) = RowInserted(in, GetPath(in.lists, row))
  BY DEF AddDummyRow, Fields
<1> HIDE DEF new
<1>5. /\ Fields(in) /\ in.lists = [m.lists EXCEPT ![parent] = new] /\ in.shown = m.lists /\ SameBut(in, m)
  BY DEF Fields, SameBut
<1>6. HasRow(m.lists, parent, Dummy, new)
  <2>1. ToSet(new) \cap Folders = (ToSet(m.lists[parent]) \cup {Dummy}) \cap Folders
    BY <1>2
  <2> QED  BY <1>1, <1>2, <2>1, TreeWithRow
<1>7. /\ Tree(in.lists)
      /\ in.lists = WithRow([m.lists EXCEPT ![parent] = InsertAt(m.lists[parent], at, Dummy)], row)
  BY <1>1, <1>3, <1>5, <1>6 DEF HasRow
<1> HIDE DEF in, row
<1>8. LET n == RowInserted(in, GetPath(in.lists, Append(parent, Dummy)))
      IN  /\ Fields(n) /\ n.shown = in.lists /\ n.lists = in.lists /\ n.open = in.open
             /\ n.sub = in.sub /\ n.rev = in.rev /\ n.dirs = in.dirs
             /\ n.column = in.column /\ n.reversed = in.reversed /\ n.size = in.size
  BY <1>1, <1>5, <1>7, RowInsertedIs DEF row
<1> QED  BY <1>4, <1>5, <1>7, <1>8 DEF SameBut, row, new

\* The file has a row, and the dummy row has gone.
Added(m, n, parent, f) ==
  LET row == Append(parent, f)
      old == IF m.lists[parent] = <<Dummy>> THEN <<>> ELSE m.lists[parent]
  IN  /\ Dummy \notin ToSet(old) /\ f \notin ToSet(old)
      /\ row \notin DOMAIN m.lists /\ row # parent
      /\ n.lists[parent] = InsertSorted(m, old, f)
      /\ ToSet(n.lists[parent]) = (ToSet(m.lists[parent]) \ {Dummy}) \cup {f}
      /\ DOMAIN n.lists = IF f \in Folders THEN DOMAIN m.lists \cup {row} ELSE DOMAIN m.lists
      /\ f \in Folders => n.lists[row] = <<Dummy>>
      /\ \A r \in DOMAIN m.lists \ {parent} : n.lists[r] = m.lists[r]
      /\ n.sub = m.sub /\ n.dirs = m.dirs /\ n.open = m.open
      /\ n.rev = [m.rev EXCEPT ![parent] = m.rev[parent] \cup {f}]
      /\ n.column = m.column /\ n.reversed = m.reversed /\ n.size = m.size

LEMMA ParentIs ==
  ASSUME NEW m, ModelTrue(m), NEW dir
  PROVE  /\ ParentOf(m, dir) \in DOMAIN m.lists /\ ParentOf(m, dir) \in DOMAIN m.rev
         /\ ParentOf(m, dir) = Top \/ ParentOf(m, dir) \in m.sub
BY DEF ModelTrue, ParentOf, Tree

LEMMA FileIsAdded ==
  ASSUME NEW m, ModelTrue(m), NEW f \in Files, NEW dir, f \notin m.rev[ParentOf(m, dir)]
  PROVE  /\ Added(m, AddFile(m, f, dir), ParentOf(m, dir), f)
         /\ ModelTrue(AddFile(m, f, dir))
<1> DEFINE parent == ParentOf(m, dir)
           row == Append(parent, f)
           replaced == parent # Top /\ m.lists[parent] = <<Dummy>>
           old == IF m.lists[parent] = <<Dummy>> THEN <<>> ELSE m.lists[parent]
           new == InsertSorted(m, old, f)
           lists2 == WithRow([m.lists EXCEPT ![parent] = new], row)
           rev2 == [m.rev EXCEPT ![parent] = m.rev[parent] \cup {f}]
           in == [m EXCEPT !.lists = lists2, !.rev = rev2]
           path == GetPath(in.lists, row)
           told == IF replaced THEN RowChanged(in, path) ELSE RowInserted(in, path)
           n == AddFile(m, f, dir)
<1>1. /\ parent \in DOMAIN m.lists /\ parent \in DOMAIN m.rev /\ m.rev[parent] = ToSet(m.lists[parent]) \ {Dummy}
      /\ m.lists[parent] \in Seq(Entries) /\ IsInjective(m.lists[parent])
      /\ Fields(m) /\ Tree(m.lists) /\ m.shown = m.lists
      /\ f \in Entries /\ f # Dummy /\ Dummy \in Entries /\ Dummy \notin Folders
  BY ParentIs, DummyAssumption, FoldersAssumption DEF ModelTrue, Tree, Entries
<1>2. /\ parent = Top => m.lists[parent] # <<Dummy>> /\ Dummy \notin ToSet(m.lists[parent])
      /\ Dummy \in ToSet(m.lists[parent]) => m.lists[parent] = <<Dummy>>
  <2>1. ToSet(<<Dummy>>) = {Dummy}
    BY DEF ToSet
  <2> QED  BY <1>1, <2>1 DEF ModelTrue
<1>3. /\ old \in Seq(Entries) /\ IsInjective(old) /\ f \notin ToSet(old) /\ Dummy \notin ToSet(old)
      /\ ToSet(old) = ToSet(m.lists[parent]) \ {Dummy}
      /\ f \notin ToSet(m.lists[parent])
  <2>1. <<>> \in Seq(Entries) /\ IsInjective(<<>>) /\ ToSet(<<>>) = {} /\ ToSet(<<Dummy>>) = {Dummy}
    BY DEF IsInjective, ToSet
  <2> QED  BY <1>1, <1>2, <2>1
<1>4. /\ new \in Seq(Entries) /\ IsInjective(new)
      /\ ToSet(new) = (ToSet(m.lists[parent]) \ {Dummy}) \cup {f}
  <2> HIDE DEF old, parent
  <2> QED  BY <1>1, <1>3, InsertSortedSet
<1>5. replaced <=> m.lists[parent] = <<Dummy>>
  BY <1>2
<1>6. n = IF f \in Folders THEN AddDummyRow(told, row) ELSE told
  <2>1. in = [m EXCEPT !.lists = WithRow([@ EXCEPT ![parent] = InsertSorted(m, IF replaced THEN <<>> ELSE m.lists[parent], f)], row),
                        !.rev[parent] = @ \cup {f}]
    BY <1>1, <1>5 DEF Fields
  <2> HIDE DEF in, parent
  <2> QED  BY <2>1 DEF AddFile, parent
<1> HIDE DEF new
<1>7. HasRow(m.lists, parent, f, new)
  <2>1. ToSet(new) \cap Folders = (ToSet(m.lists[parent]) \cup {f}) \cap Folders
    BY <1>1, <1>4
  <2> HIDE DEF parent
  <2> QED  BY <1>1, <1>3, <1>4, <2>1, TreeWithRow
<1>8. /\ Fields(in) /\ in.lists = lists2 /\ in.rev = rev2 /\ in.shown = m.lists
      /\ in.sub = m.sub /\ in.dirs = m.dirs /\ in.open = m.open
      /\ in.column = m.column /\ in.reversed = m.reversed /\ in.size = m.size
  <2> HIDE DEF lists2, rev2
  <2> QED  BY <1>1 DEF Fields
<1>9. /\ Tree(lists2) /\ row \notin DOMAIN m.lists
      /\ DOMAIN lists2 = IF f \in Folders THEN DOMAIN m.lists \cup {row} ELSE DOMAIN m.lists
      /\ lists2[parent] = new
      /\ f \in Folders => lists2[row] = <<>>
      /\ \A r \in DOMAIN m.lists \ {parent} : lists2[r] = m.lists[r]
  <2> HIDE DEF parent
  <2> QED  BY <1>7 DEF HasRow
<1>10. /\ Fields(told) /\ told.lists = lists2 /\ told.shown = lists2 /\ SameBut(told, in)
  <2>1. CASE replaced
    <3>1. new = <<f>>
      <4>1. ToSet(m.lists[parent]) = {Dummy}
        BY <1>5, <2>1 DEF ToSet
      <4>2. ToSet(new) = {f}
        BY <1>1, <1>4, <4>1
      <4> QED  BY <1>4, <4>2, OneEntry
    <3>2. in.lists = WithRow([m.lists EXCEPT ![parent] = <<f>>], Append(parent, f))
      BY <1>8, <3>1
    <3>3. m.lists[parent] = <<Dummy>>
      BY <2>1
    <3>4. told = RowChanged(in, path)
      BY <2>1
    <3> HIDE DEF in, parent, told
    <3> QED  BY <1>1, <1>8, <3>2, <3>3, <3>4, RowChangedIs DEF SameBut
  <2>2. CASE ~ replaced
    <3>1. old = m.lists[parent]
      BY <1>5, <2>2
    <3>2. PICK at \in 1 .. Len(m.lists[parent]) + 1 : new = InsertAt(m.lists[parent], at, f)
      BY <1>1, <3>1, InsertSortedIs DEF new
    <3>3. in.lists = WithRow([m.lists EXCEPT ![parent] = InsertAt(m.lists[parent], at, f)], Append(parent, f))
      BY <1>8, <3>2
    <3>4. told = RowInserted(in, path)
      BY <2>2
    <3> HIDE DEF in, parent, told
    <3> QED  BY <1>1, <1>3, <1>8, <3>3, <3>4, RowInsertedIs DEF SameBut
  <2> QED  BY <2>1, <2>2
<1>11. row # parent
  BY <1>1, <1>9
<1>12. /\ Fields(n) /\ Tree(n.lists) /\ n.shown = n.lists /\ SameBut(n, in)
       /\ DOMAIN n.lists = DOMAIN lists2
       /\ n.lists[parent] = new
       /\ f \in Folders => n.lists[row] = <<Dummy>>
       /\ \A r \in DOMAIN m.lists \ {parent} : n.lists[r] = m.lists[r]
  <2>1. CASE f \notin Folders
    <3>1. n = told
      BY <1>6, <2>1
    <3> HIDE DEF n, told, lists2, in, parent, row
    <3> QED  BY <1>9, <1>10, <2>1, <3>1
  <2>2. CASE f \in Folders
    <3>1. n = AddDummyRow(told, row)
      BY <1>6, <2>2
    <3>2. row \in DOMAIN told.lists /\ told.lists[row] = <<>>
      <4> HIDE DEF told, lists2, row
      <4> QED  BY <1>9, <1>10, <2>2
    <3>3. Dummy \notin ToSet(told.lists[row])
      <4> HIDE DEF told, row
      <4> QED  BY <3>2 DEF ToSet
    <3> HIDE DEF n, told, lists2, in, parent, row
    <3>4. /\ Fields(n) /\ Tree(n.lists) /\ n.shown = n.lists /\ SameBut(n, told)
          /\ n.lists = [told.lists EXCEPT ![row] = InsertSorted(told, told.lists[row], Dummy)]
      BY <1>9, <1>10, <3>1, <3>2, <3>3, AddDummyRowIs
    <3>5. InsertSorted(told, <<>>, Dummy) = <<Dummy>>
      BY <1>1, InsertFirst
    <3>6. n.lists[row] = <<Dummy>> /\ DOMAIN n.lists = DOMAIN lists2
      BY <1>10, <3>2, <3>4, <3>5
    <3>7. \A r \in DOMAIN m.lists : n.lists[r] = lists2[r]
      BY <1>9, <1>10, <3>4
    <3> QED  BY <1>1, <1>9, <1>10, <1>11, <3>4, <3>6, <3>7 DEF SameBut
  <2> QED  BY <2>1, <2>2
<1>13. Added(m, n, parent, f)
  <2> HIDE DEF n, in, parent, lists2
  <2> QED  BY <1>3, <1>4, <1>8, <1>9, <1>11, <1>12 DEF Added, SameBut, new
<1>14. ModelTrue(n)
  <2> HIDE DEF n, in, parent, lists2
  <2>1. ASSUME NEW r \in DOMAIN n.lists, Dummy \in ToSet(n.lists[r])
        PROVE  r # Top /\ n.lists[r] = <<Dummy>>
    <3>1. CASE r = parent
      BY <1>1, <1>4, <1>12, <2>1, <3>1
    <3>2. CASE r # parent /\ r \in DOMAIN m.lists
      BY <1>12, <2>1, <3>2 DEF ModelTrue
    <3>3. CASE r \notin DOMAIN m.lists
      BY <1>9, <1>12, <2>1, <3>3 DEF ModelTrue, Tree
    <3> QED  BY <3>1, <3>2, <3>3
  <2>2. n.sub \subseteq DOMAIN n.lists \ {Top} /\ DOMAIN n.rev = n.sub \cup {Top}
    BY <1>8, <1>9, <1>12 DEF ModelTrue, SameBut
  <2>3. ASSUME NEW r \in DOMAIN n.rev PROVE n.rev[r] = ToSet(n.lists[r]) \ {Dummy}
    <3>1. r \in DOMAIN m.rev /\ r \in DOMAIN m.lists /\ n.rev = rev2
      BY <1>8, <1>12, <2>3 DEF SameBut, ModelTrue, Tree
    <3>2. CASE r = parent
      BY <1>1, <1>4, <1>12, <3>1, <3>2
    <3>3. CASE r # parent
      BY <1>12, <3>1, <3>3 DEF ModelTrue
    <3> QED  BY <3>2, <3>3
  <2>4. ASSUME NEW r \in DOMAIN n.lists \ DOMAIN n.rev PROVE ToSet(n.lists[r]) \subseteq {Dummy}
    <3>1. DOMAIN n.rev = DOMAIN m.rev
      BY <1>8, <1>12 DEF SameBut
    <3>2. r # parent
      BY <1>1, <2>4, <3>1
    <3>3. CASE r \in DOMAIN m.lists
      BY <1>12, <2>4, <3>1, <3>2, <3>3 DEF ModelTrue
    <3>4. CASE r \notin DOMAIN m.lists
      <4>1. ToSet(<<Dummy>>) = {Dummy}
        BY DEF ToSet
      <4> QED  BY <1>9, <1>12, <2>4, <3>4, <4>1
    <3> QED  BY <3>3, <3>4
  <2>5. /\ \A d \in DOMAIN n.dirs : n.dirs[d] \in n.sub /\ Last(n.dirs[d]) = d
        /\ n.open \subseteq DOMAIN n.lists \ {Top}
        /\ \A r \in n.open : Front(r) = Top \/ Front(r) \in n.open
        /\ n.size \in [Files -> Int] /\ n.reversed \in BOOLEAN
    BY <1>8, <1>9, <1>12 DEF ModelTrue, SameBut
  <2> QED  BY <1>12, <2>1, <2>2, <2>3, <2>4, <2>5 DEF ModelTrue
<1> QED  BY <1>13, <1>14

-------------------------------------------------------------------------------
(* The order of the rows: the comparison is a strict total order up to     *)
(* ties, whatever the column and the direction, which g_sequence's sorting *)
(* and its binary search need.                                             *)

Signs == {-1, 0, 1}

\* Two transitive comparisons of f with g, g with h and f with h, the first
\* of which is also transitive in its ties, are transitive one after the other.
LEMMA OrElseIsTransitive ==
  ASSUME NEW k1 \in Signs, NEW k2 \in Signs, NEW k3 \in Signs,
         NEW d1 \in Signs, NEW d2 \in Signs, NEW d3 \in Signs,
         k1 <= 0 /\ k2 <= 0 => k3 <= 0,
         k1 <= 0 /\ k2 <= 0 /\ k3 = 0 => k1 = 0 /\ k2 = 0,
         d1 <= 0 /\ d2 <= 0 => d3 <= 0,
         OrElse(k1, d1) <= 0, OrElse(k2, d2) <= 0
  PROVE  OrElse(k3, d3) <= 0
  BY DEF OrElse, Signs

\* Folders and other files.
LEMMA FoldersAreOrdered ==
  ASSUME NEW f \in Files, NEW g \in Files, NEW h \in Files
  PROVE  /\ DirectoriesFirst(f, g) \in Signs
         /\ DirectoriesFirst(g, f) + DirectoriesFirst(f, g) = 0
         /\ DirectoriesFirst(f, g) <= 0 /\ DirectoriesFirst(g, h) <= 0
               => DirectoriesFirst(f, h) <= 0
         /\ DirectoriesFirst(f, g) <= 0 /\ DirectoriesFirst(g, h) <= 0
               /\ DirectoriesFirst(f, h) = 0
               => DirectoriesFirst(f, g) = 0 /\ DirectoriesFirst(g, h) = 0
  BY DEF DirectoriesFirst, Signs

\* The display names alone.
LEMMA NamesAreOrdered ==
  ASSUME NEW f \in Files, NEW g \in Files, NEW h \in Files
  PROVE  /\ CompareByDisplayName(f, g) \in Signs
         /\ CompareByDisplayName(g, f) + CompareByDisplayName(f, g) = 0
         /\ CompareByDisplayName(f, g) <= 0 /\ CompareByDisplayName(g, h) <= 0
               => CompareByDisplayName(f, h) <= 0
         /\ CompareByDisplayName(f, g) <= 0 /\ CompareByDisplayName(g, h) <= 0
               /\ CompareByDisplayName(f, h) = 0
               => CompareByDisplayName(f, g) = 0 /\ CompareByDisplayName(g, h) = 0
  <1>1. Name[f] \in Int /\ Name[g] \in Int /\ Name[h] \in Int
    BY KeysAssumption
  <1>2. QED
    BY <1>1 DEF CompareByDisplayName, By, Signs

\* The key of a column: folders first, then what the column shows.
Key(size, column, f, g) ==
    CASE column = "size"     -> CompareBySize(size, f, g)
      [] column = "type"     -> CompareByType(f, g)
      [] column = "modified" -> CompareByTime(f, g)
      [] OTHER               -> 0

LEMMA KeysAreOrdered ==
  ASSUME NEW size \in [Files -> Int], NEW column,
         NEW f \in Files, NEW g \in Files, NEW h \in Files
  PROVE  /\ Key(size, column, f, g) \in Signs
         /\ Key(size, column, g, f) + Key(size, column, f, g) = 0
         /\ Key(size, column, f, g) <= 0 /\ Key(size, column, g, h) <= 0
               => Key(size, column, f, h) <= 0
         /\ Key(size, column, f, g) <= 0 /\ Key(size, column, g, h) <= 0
               /\ Key(size, column, f, h) = 0
               => Key(size, column, f, g) = 0 /\ Key(size, column, g, h) = 0
  <1>1. /\ size[f] \in Int /\ size[g] \in Int /\ size[h] \in Int
        /\ Type[f] \in Int /\ Type[g] \in Int /\ Type[h] \in Int
        /\ Time[f] \in Int /\ Time[g] \in Int /\ Time[h] \in Int
    BY KeysAssumption
  <1>2. CASE column = "size"
    BY <1>1, <1>2 DEF Key, CompareBySize, OrElse, DirectoriesFirst, By, Signs
  <1>3. CASE column = "type"
    BY <1>1, <1>3 DEF Key, CompareByType, OrElse, DirectoriesFirst, By, Signs
  <1>4. CASE column = "modified"
    BY <1>1, <1>4 DEF Key, CompareByTime, OrElse, DirectoriesFirst, By, Signs
  <1>5. CASE column \notin {"size", "type", "modified"}
    BY <1>5 DEF Key, Signs
  <1>6. QED
    BY <1>2, <1>3, <1>4, <1>5

\* What gof_file_compare_for_sort needs of the switch: it is ordered.
LEMMA ColumnsAreOrdered ==
  ASSUME NEW size \in [Files -> Int], NEW column,
         NEW f \in Files, NEW g \in Files, NEW h \in Files
  PROVE  /\ CompareInColumn(size, column, f, g) \in Signs
         /\ CompareInColumn(size, column, g, f) + CompareInColumn(size, column, f, g) = 0
         /\ CompareInColumn(size, column, f, g) <= 0 /\ CompareInColumn(size, column, g, h) <= 0
               => CompareInColumn(size, column, f, h) <= 0
  <1>1. \A a, b \in Files :
           CompareInColumn(size, column, a, b)
             = OrElse(Key(size, column, a, b), CompareByDisplayName(a, b))
    BY DEF CompareInColumn, Key
  <1> DEFINE k(a, b) == Key(size, column, a, b)
             d(a, b) == CompareByDisplayName(a, b)
  <1>2. /\ k(f, g) \in Signs /\ k(g, h) \in Signs /\ k(f, h) \in Signs
        /\ k(g, f) \in Signs /\ k(g, f) + k(f, g) = 0
        /\ k(h, g) + k(g, h) = 0 /\ k(h, f) + k(f, h) = 0
        /\ k(f, g) <= 0 /\ k(g, h) <= 0 => k(f, h) <= 0
        /\ k(f, g) <= 0 /\ k(g, h) <= 0 /\ k(f, h) = 0 => k(f, g) = 0 /\ k(g, h) = 0
    BY KeysAreOrdered
  <1>3. /\ d(f, g) \in Signs /\ d(g, h) \in Signs /\ d(f, h) \in Signs /\ d(g, f) + d(f, g) = 0
        /\ d(f, g) <= 0 /\ d(g, h) <= 0 => d(f, h) <= 0
    BY NamesAreOrdered
  <1> HIDE DEF k, d
  <1>4. /\ OrElse(k(f, g), d(f, g)) \in Signs
        /\ OrElse(k(g, f), d(g, f)) + OrElse(k(f, g), d(f, g)) = 0
    <2>1. CASE k(f, g) = 0
      <3>1. k(g, f) = 0
        BY <1>2, <2>1 DEF Signs
      <3>2. QED
        BY <3>1, <2>1, <1>3 DEF OrElse
    <2>2. CASE k(f, g) # 0
      <3>1. k(g, f) # 0
        BY <1>2, <2>2 DEF Signs
      <3>2. QED
        BY <3>1, <2>2, <1>2 DEF OrElse
    <2>3. QED
      BY <2>1, <2>2
  <1>5. OrElse(k(f, g), d(f, g)) <= 0 /\ OrElse(k(g, h), d(g, h)) <= 0
           => OrElse(k(f, h), d(f, h)) <= 0
    BY <1>2, <1>3 DEF OrElse, Signs
  <1>6. QED
    BY <1>1, <1>4, <1>5 DEF k, d

\* gof_file_compare_for_sort gives opposite answers for opposite arguments.
THEOREM SortIsAntisymmetric ==
  ASSUME NEW size \in [Files -> Int], NEW column, NEW reversed \in BOOLEAN,
         NEW f \in Files, NEW g \in Files
  PROVE  CompareForSort(size, column, reversed, g, f) + CompareForSort(size, column, reversed, f, g) = 0
  <1>1. /\ CompareInColumn(size, column, f, g) \in Signs
        /\ CompareInColumn(size, column, g, f) + CompareInColumn(size, column, f, g) = 0
    BY ColumnsAreOrdered
  <1>2. /\ DirectoriesFirst(f, g) \in Signs /\ DirectoriesFirst(g, f) \in Signs
        /\ DirectoriesFirst(g, f) + DirectoriesFirst(f, g) = 0
    BY FoldersAreOrdered
  <1>3. CASE f = g
    BY <1>3 DEF CompareForSort
  <1>4. CASE f # g
    <2> DEFINE c == CompareInColumn(size, column, f, g)
               d == CompareInColumn(size, column, g, f)
    <2>1. /\ CompareForSort(size, column, reversed, f, g)
                = OrElse(DirectoriesFirst(f, g), IF reversed THEN 0 - c ELSE c)
          /\ CompareForSort(size, column, reversed, g, f)
                = OrElse(DirectoriesFirst(g, f), IF reversed THEN 0 - d ELSE d)
      BY <1>4 DEF CompareForSort
    <2>2. c \in Signs /\ d + c = 0 /\ d \in Signs
      BY ColumnsAreOrdered
    <2> HIDE DEF c, d
    <2>3. CASE reversed
      <3>1. /\ (IF reversed THEN 0 - c ELSE c) = 0 - c
            /\ (IF reversed THEN 0 - d ELSE d) = 0 - d
        BY <2>3, Zenon
      <3>2. OrElse(DirectoriesFirst(g, f), 0 - d) + OrElse(DirectoriesFirst(f, g), 0 - c) = 0
        BY <2>2, <1>2 DEF OrElse, Signs
      <3>3. QED
        BY <2>1, <3>1, <3>2, Zenon
    <2>4. CASE ~reversed
      <3>1. /\ (IF reversed THEN 0 - c ELSE c) = c
            /\ (IF reversed THEN 0 - d ELSE d) = d
        BY <2>4, Zenon
      <3>2. OrElse(DirectoriesFirst(g, f), d) + OrElse(DirectoriesFirst(f, g), c) = 0
        BY <2>2, <1>2 DEF OrElse, Signs
      <3>3. QED
        BY <2>1, <3>1, <3>2, Zenon
    <2>5. QED
      BY <2>3, <2>4
  <1>5. QED
    BY <1>3, <1>4

\* ... and is transitive, so that a list in which every row is in order with
\* the next is in order everywhere: folders first, also when reversed.
THEOREM SortIsTransitive ==
  ASSUME NEW size \in [Files -> Int], NEW column, NEW reversed \in BOOLEAN,
         NEW f \in Files, NEW g \in Files, NEW h \in Files,
         CompareForSort(size, column, reversed, f, g) <= 0,
         CompareForSort(size, column, reversed, g, h) <= 0
  PROVE  CompareForSort(size, column, reversed, f, h) <= 0
  <1> DEFINE c(a, b) == CompareInColumn(size, column, a, b)
  <1>1. /\ c(f, g) \in Signs /\ c(g, h) \in Signs /\ c(f, h) \in Signs
        /\ c(g, f) \in Signs /\ c(h, g) \in Signs /\ c(h, f) \in Signs
        /\ c(h, g) + c(g, h) = 0 /\ c(g, f) + c(f, g) = 0 /\ c(h, f) + c(f, h) = 0
        /\ c(f, g) <= 0 /\ c(g, h) <= 0 => c(f, h) <= 0
        /\ c(h, g) <= 0 /\ c(g, f) <= 0 => c(h, f) <= 0
    BY ColumnsAreOrdered
  <1>2. \A a, b \in Files :
           CompareForSort(size, column, reversed, a, b)
             = IF a = b THEN 0 ELSE OrElse(DirectoriesFirst(a, b), IF reversed THEN 0 - c(a, b) ELSE c(a, b))
    BY DEF CompareForSort
  <1> HIDE DEF c
  <1>3. CASE f = g \/ g = h \/ f = h
    BY <1>2, <1>3
  <1>4. CASE f # g /\ g # h /\ f # h
    <2>1. /\ OrElse(DirectoriesFirst(f, g), IF reversed THEN 0 - c(f, g) ELSE c(f, g)) <= 0
          /\ OrElse(DirectoriesFirst(g, h), IF reversed THEN 0 - c(g, h) ELSE c(g, h)) <= 0
      BY <1>2, <1>4
    <2> DEFINE r(a, b) == IF reversed THEN 0 - c(a, b) ELSE c(a, b)
    <2> HIDE DEF r
    <2>2. /\ r(f, g) \in Signs /\ r(g, h) \in Signs /\ r(f, h) \in Signs
          /\ r(f, g) <= 0 /\ r(g, h) <= 0 => r(f, h) <= 0
      <3>1. CASE reversed
        <4>1. r(f, g) = 0 - c(f, g) /\ r(g, h) = 0 - c(g, h) /\ r(f, h) = 0 - c(f, h)
          BY <3>1, Zenon DEF r
        <4>2. QED
          BY <4>1, <1>1 DEF Signs
      <3>2. CASE ~reversed
        <4>1. r(f, g) = c(f, g) /\ r(g, h) = c(g, h) /\ r(f, h) = c(f, h)
          BY <3>2, Zenon DEF r
        <4>2. QED
          BY <4>1, <1>1 DEF Signs
      <3>3. QED
        BY <3>1, <3>2
    <2>4. OrElse(DirectoriesFirst(f, g), r(f, g)) <= 0 /\ OrElse(DirectoriesFirst(g, h), r(g, h)) <= 0
      BY <2>1 DEF r
    <2>5. /\ DirectoriesFirst(f, g) \in Signs
          /\ DirectoriesFirst(g, h) \in Signs
          /\ DirectoriesFirst(f, h) \in Signs
          /\ DirectoriesFirst(f, g) <= 0 /\ DirectoriesFirst(g, h) <= 0
                => DirectoriesFirst(f, h) <= 0
          /\ DirectoriesFirst(f, g) <= 0 /\ DirectoriesFirst(g, h) <= 0
                /\ DirectoriesFirst(f, h) = 0
                => DirectoriesFirst(f, g) = 0 /\ DirectoriesFirst(g, h) = 0
      BY FoldersAreOrdered
    <2>6. OrElse(DirectoriesFirst(f, h), r(f, h)) <= 0
      BY <2>2, <2>4, <2>5, OrElseIsTransitive
    <2>7. CompareForSort(size, column, reversed, f, h) = OrElse(DirectoriesFirst(f, h), r(f, h))
      <3>1. CompareForSort(size, column, reversed, f, h)
              = IF f = h THEN 0
                ELSE OrElse(DirectoriesFirst(f, h), IF reversed THEN 0 - c(f, h) ELSE c(f, h))
        BY <1>2
      <3>2. QED
        BY <3>1, <1>4, Zenon DEF r
    <2>8. QED
      BY <2>7, <2>6
  <1>5. QED
    BY <1>3, <1>4

\* Two files that nothing tells apart have the same name key: the order of
\* the rows is determined by the files.
THEOREM TiesHaveOneName ==
  ASSUME NEW size \in [Files -> Int], NEW column, NEW reversed \in BOOLEAN,
         NEW f \in Files, NEW g \in Files,
         CompareForSort(size, column, reversed, f, g) = 0
  PROVE  Name[f] = Name[g]
  <1>1. Name[f] \in Int /\ Name[g] \in Int
    BY KeysAssumption
  <1>2. Key(size, column, f, g) \in Signs /\ CompareByDisplayName(f, g) \in Signs
    BY KeysAreOrdered, NamesAreOrdered
  <1>3. CompareInColumn(size, column, f, g) = OrElse(Key(size, column, f, g), CompareByDisplayName(f, g))
    BY DEF CompareInColumn, Key
  <1>4. CASE f = g
    BY <1>4
  <1>5. CASE f # g
    <2>1. CompareInColumn(size, column, f, g) = 0
      BY <1>2, <1>3, <1>5 DEF CompareForSort, OrElse, DirectoriesFirst, Signs
    <2>2. CompareByDisplayName(f, g) = 0
      BY <2>1, <1>2, <1>3 DEF OrElse, Signs
    <2>3. QED
      BY <1>1, <2>2 DEF CompareByDisplayName, By
  <1>6. QED
    BY <1>4, <1>5

LEMMA EntriesAreOrdered ==
  ASSUME NEW m, m.size \in [Files -> Int], m.reversed \in BOOLEAN,
         NEW f \in Files, NEW g \in Files, NEW h \in Files
  PROVE  /\ CompareEntries(m, f, g) \in Int
         /\ CompareEntries(m, g, f) = - CompareEntries(m, f, g)
         /\ CompareEntries(m, f, g) <= 0 /\ CompareEntries(m, g, h) <= 0
               => CompareEntries(m, f, h) <= 0
<1>1. /\ CompareEntries(m, f, g) = CompareForSort(m.size, m.column, m.reversed, f, g)
      /\ CompareEntries(m, g, f) = CompareForSort(m.size, m.column, m.reversed, g, f)
      /\ CompareEntries(m, g, h) = CompareForSort(m.size, m.column, m.reversed, g, h)
      /\ CompareEntries(m, f, h) = CompareForSort(m.size, m.column, m.reversed, f, h)
  BY DummyAssumption DEF CompareEntries
<1>2. ASSUME NEW a \in Files, NEW b \in Files
      PROVE  CompareForSort(m.size, m.column, m.reversed, a, b) \in Int
  <2>1. CompareInColumn(m.size, m.column, a, b) \in Signs
    BY ColumnsAreOrdered
  <2>2. DirectoriesFirst(a, b) \in Signs
    BY FoldersAreOrdered
  <2> QED  BY <2>1, <2>2 DEF CompareForSort, OrElse, Signs
<1>3. CompareForSort(m.size, m.column, m.reversed, g, f) + CompareForSort(m.size, m.column, m.reversed, f, g) = 0
  BY SortIsAntisymmetric
<1>4. CompareForSort(m.size, m.column, m.reversed, f, g) \in Int /\ CompareForSort(m.size, m.column, m.reversed, g, f) \in Int
  BY <1>2
<1>5. ASSUME CompareForSort(m.size, m.column, m.reversed, f, g) <= 0,
             CompareForSort(m.size, m.column, m.reversed, g, h) <= 0
      PROVE  CompareForSort(m.size, m.column, m.reversed, f, h) <= 0
  BY <1>5, SortIsTransitive
<1> QED  BY <1>1, <1>3, <1>4, <1>5

LEMMA FilesOf ==
  ASSUME NEW s \in Seq(Entries), Dummy \notin ToSet(s)
  PROVE  \A i \in 1 .. Len(s) : s[i] \in Files
<1>1. DOMAIN s = 1 .. Len(s)
  BY LenProperties
<1> QED  BY <1>1, ElementOfSeq DEF ToSet, Entries

\* A file is inserted where it belongs.
LEMMA InsertKeepsOrder ==
  ASSUME NEW m, m.size \in [Files -> Int], m.reversed \in BOOLEAN,
         NEW s \in Seq(Entries), Dummy \notin ToSet(s), InOrder(m, s), NEW f \in Files
  PROVE  InOrder(m, InsertSorted(m, s, f))
<1> DEFINE C(a, b) == CompareEntries(m, a, b)
           t == InsertSorted(m, s, f)
<1>1. PICK at \in 1 .. Len(s) + 1 :
            /\ t = InsertAt(s, at, f)
            /\ \A i \in 1 .. Len(s) : i < at => ~ (C(s[i], f) > 0)
            /\ at <= Len(s) => C(s[at], f) > 0
  BY InsertSortedIs DEF Entries
<1>2. /\ Len(t) = Len(s) + 1 /\ DOMAIN t = 1 .. Len(s) + 1
      /\ \A j \in 1 .. Len(s) + 1 : t[j] = IF j < at THEN s[j] ELSE IF j = at THEN f ELSE s[j - 1]
  BY <1>1, InsertAtIs, LenProperties DEF Entries
<1>3. /\ DOMAIN s = 1 .. Len(s) /\ Len(s) \in Nat
      /\ \A i \in 1 .. Len(s) : s[i] \in Files
  BY FilesOf, LenProperties
<1>4. \A a, b, c \in Files : /\ C(a, b) \in Int /\ C(b, a) = - C(a, b)
                             /\ C(a, b) <= 0 /\ C(b, c) <= 0 => C(a, c) <= 0
  BY EntriesAreOrdered
<1>5. \A i, j \in 1 .. Len(s) : i < j => C(s[i], s[j]) <= 0
  BY <1>3 DEF InOrder
<1> HIDE DEF C, t
<1>6. \A i \in 1 .. Len(s) : i < at => C(s[i], f) <= 0
  BY <1>1, <1>3, <1>4
<1>7. \A i \in 1 .. Len(s) : at <= i => C(f, s[i]) <= 0
  <2> SUFFICES ASSUME NEW i \in 1 .. Len(s), at <= i PROVE C(f, s[i]) <= 0
    OBVIOUS
  <2>1. at \in 1 .. Len(s) /\ C(f, s[at]) <= 0
    <3>1. at \in 1 .. Len(s) /\ C(s[at], f) > 0
      BY <1>1, <1>3
    <3>2. s[at] \in Files
      BY <1>3, <3>1
    <3> QED  BY <1>4, <3>1, <3>2
  <2>2. CASE i = at
    BY <2>1, <2>2
  <2>3. CASE at < i
    <3>1. C(s[at], s[i]) <= 0
      BY <1>5, <2>1, <2>3
    <3>2. s[at] \in Files /\ s[i] \in Files
      BY <1>3, <2>1
    <3> QED  BY <1>4, <2>1, <3>1, <3>2
  <2> QED  BY <2>2, <2>3
<1>8. ASSUME NEW i \in 1 .. Len(s) + 1, NEW j \in 1 .. Len(s) + 1, i < j
      PROVE  C(t[i], t[j]) <= 0
  <2>1. CASE j < at
    BY <1>2, <1>3, <1>5, <1>8, <2>1
  <2>2. CASE j = at
    <3>1. i \in 1 .. Len(s) /\ i < at
      BY <1>3, <1>8, <2>2
    <3> QED  BY <1>2, <1>6, <2>2, <3>1
  <2>3. CASE at < j
    <3>1. j - 1 \in 1 .. Len(s) /\ at <= j - 1 /\ t[j] = s[j - 1]
      BY <1>2, <1>3, <2>3
    <3>2. CASE i = at
      BY <1>2, <1>7, <3>1, <3>2
    <3>3. CASE i < at
      <4>1. i \in 1 .. Len(s) /\ i < j - 1 /\ t[i] = s[i]
        BY <1>2, <1>3, <1>8, <3>1, <3>3
      <4> QED  BY <1>5, <3>1, <4>1
    <3>4. CASE at < i
      <4>1. i - 1 \in 1 .. Len(s) /\ i - 1 < j - 1 /\ t[i] = s[i - 1]
        BY <1>2, <1>3, <1>8, <3>4
      <4> QED  BY <1>5, <3>1, <4>1
    <3> QED  BY <3>2, <3>3, <3>4
  <2> QED  BY <2>1, <2>2, <2>3
<1> QED  BY <1>2, <1>8 DEF InOrder, C, t

LEMMA RemoveKeepsOrder ==
  ASSUME NEW m, NEW s \in Seq(Entries), InOrder(m, s), NEW i \in 1 .. Len(s)
  PROVE  InOrder(m, RemoveAt(s, i))
<1> DEFINE t == RemoveAt(s, i)
<1>1. /\ t \in Seq(Entries) /\ Len(t) = Len(s) - 1
      /\ \A j \in 1 .. Len(s) - 1 : t[j] = IF j < i THEN s[j] ELSE s[j + 1]
  BY RemoveAtIs
<1>2. DOMAIN s = 1 .. Len(s) /\ DOMAIN t = 1 .. Len(s) - 1 /\ Len(s) \in Nat
  BY <1>1, LenProperties
<1> HIDE DEF t
<1>3. ASSUME NEW j \in 1 .. Len(s) - 1, NEW k \in 1 .. Len(s) - 1, j < k
      PROVE  CompareEntries(m, t[j], t[k]) <= 0
  <2>1. PICK a \in 1 .. Len(s) : a = IF j < i THEN j ELSE j + 1
    BY <1>2
  <2>2. PICK b \in 1 .. Len(s) : b = IF k < i THEN k ELSE k + 1
    BY <1>2
  <2>3. a < b /\ t[j] = s[a] /\ t[k] = s[b]
    BY <1>1, <1>3, <2>1, <2>2
  <2> QED  BY <1>2, <2>3 DEF InOrder
<1> QED  BY <1>2, <1>3 DEF InOrder, t

\* g_sequence_sort has an arrangement to come to, and keeps the files.
Arranges(m, s, files) ==
  /\ s \in Seq(Entries) /\ IsInjective(s) /\ ToSet(s) = ToSet(files) /\ InOrder(m, s)

LEMMA CanArrange ==
  ASSUME NEW m, m.size \in [Files -> Int], m.reversed \in BOOLEAN,
         NEW files \in Seq(Entries), IsInjective(files), Dummy \notin ToSet(files)
  PROVE  \E s \in Seq(Entries) : Len(s) = Len(files) /\ Arranges(m, s, files)
<1> DEFINE Upto(n) == {files[i] : i \in 1 .. n}
           Can(n) == \E s \in Seq(Entries) : /\ Len(s) = n /\ IsInjective(s)
                                             /\ ToSet(s) = Upto(n) /\ InOrder(m, s)
           wrong == {n \in 0 .. Len(files) : ~ Can(n)}
<1>1. /\ DOMAIN files = 1 .. Len(files) /\ Len(files) \in Nat
      /\ \A i \in 1 .. Len(files) : files[i] \in Files /\ files[i] \in Entries
      /\ \A i, j \in 1 .. Len(files) : files[i] = files[j] => i = j
  BY FilesOf, LenProperties DEF IsInjective, Entries
<1>2. Can(0)
  <2>1. /\ <<>> \in Seq(Entries) /\ Len(<<>>) = 0 /\ IsInjective(<<>>)
        /\ ToSet(<<>>) = {} /\ InOrder(m, <<>>)
    BY DEF IsInjective, ToSet, InOrder
  <2>2. Upto(0) = {}
    OBVIOUS
  <2> QED  BY <2>1, <2>2
<1>3. ASSUME NEW n \in 1 .. Len(files), Can(n - 1) PROVE Can(n)
  <2>1. PICK s \in Seq(Entries) : /\ Len(s) = n - 1 /\ IsInjective(s)
                                  /\ ToSet(s) = Upto(n - 1) /\ InOrder(m, s)
    BY <1>3
  <2> DEFINE t == InsertSorted(m, s, files[n])
  <2>2. /\ files[n] \in Files /\ files[n] \in Entries /\ files[n] \notin Upto(n - 1)
        /\ Dummy \notin Upto(n - 1) /\ Upto(n) = Upto(n - 1) \cup {files[n]}
    <3>1. \A i \in 1 .. n - 1 : i \in 1 .. Len(files) /\ i # n
      BY <1>1
    <3>2. \A i \in 1 .. n : i \in 1 .. n - 1 \/ i = n
      BY <1>1
    <3>3. n \in 1 .. n /\ \A i \in 1 .. n - 1 : i \in 1 .. n
      BY <1>1
    <3> QED  BY <1>1, <3>1, <3>2, <3>3, DummyAssumption
  <2> HIDE DEF Upto
  <2>3. /\ t \in Seq(Entries) /\ IsInjective(t) /\ ToSet(t) = Upto(n) /\ Len(t) = n
    <3>1. IsInjective(s) /\ files[n] \in Entries /\ files[n] \notin ToSet(s)
      BY <2>1, <2>2
    <3>2. /\ t \in Seq(Entries) /\ IsInjective(t) /\ ToSet(t) = ToSet(s) \cup {files[n]}
          /\ Len(t) = Len(s) + 1
      BY <3>1, InsertSortedSet
    <3> HIDE DEF t
    <3>3. ToSet(t) = Upto(n)
      BY <2>1, <2>2, <3>2
    <3>4. Len(t) = n
      BY <2>1, <3>2
    <3> QED  BY <3>2, <3>3, <3>4
  <2>4. InOrder(m, t)
    BY <2>1, <2>2, InsertKeepsOrder
  <2> QED  BY <2>3, <2>4
<1>4. wrong = {}
  <2> HIDE DEF Can
  <2> SUFFICES ASSUME wrong # {} PROVE FALSE
    OBVIOUS
  <2>1. wrong \in SUBSET Nat
    BY <1>1
  <2>2. PICK n \in wrong : \A k \in wrong : n <= k
    <3> HIDE DEF wrong
    <3> QED  BY <2>1, LeastExists
  <2>3. n \in 1 .. Len(files) /\ n - 1 \in 0 .. Len(files) /\ ~ (n <= n - 1)
    BY <1>1, <1>2, <2>2
  <2>4. Can(n - 1)
    BY <2>2, <2>3
  <2> QED  BY <1>3, <2>2, <2>3, <2>4
<1>5. Can(Len(files))
  <2> HIDE DEF Can
  <2> QED  BY <1>1, <1>4
<1>6. Upto(Len(files)) = ToSet(files)
  BY <1>1 DEF ToSet
<1> QED  BY <1>5, <1>6 DEF Arranges

LEMMA SortedFilesIs ==
  ASSUME NEW m, m.size \in [Files -> Int], m.reversed \in BOOLEAN,
         NEW files \in Seq(Entries), IsInjective(files), Dummy \notin ToSet(files)
  PROVE  Arranges(m, SortedFiles(m, files), files) /\ Len(SortedFiles(m, files)) = Len(files)
<1> DEFINE Is(s) == /\ IsInjective(s)
                    /\ \A i, j \in DOMAIN s : i < j => CompareEntries(m, s[i], s[j]) <= 0
           new == SortedFiles(m, files)
<1>1. DOMAIN files = 1 .. Len(files) /\ Len(files) \in Nat /\ ToSet(files) \subseteq Entries
  <2>1. DOMAIN files = 1 .. Len(files) /\ Len(files) \in Nat
    BY LenProperties
  <2> QED  BY <2>1, ElementOfSeq DEF ToSet
<1>2. \E s \in [DOMAIN files -> ToSet(files)] : Is(s)
  <2>1. PICK s \in Seq(Entries) : Len(s) = Len(files) /\ Arranges(m, s, files)
    BY CanArrange
  <2>2. DOMAIN s = DOMAIN files
    BY <1>1, <2>1, LenProperties
  <2>3. s \in [DOMAIN s -> ToSet(s)]
    BY DEF ToSet
  <2> QED  BY <2>1, <2>2, <2>3 DEF Arranges, InOrder
<1>3. new \in [DOMAIN files -> ToSet(files)] /\ Is(new)
  <2>1. new = CHOOSE s \in [DOMAIN files -> ToSet(files)] : Is(s)
    BY DEF SortedFiles
  <2> HIDE DEF Is, new
  <2> QED  BY <1>2, <2>1
<1> HIDE DEF new
<1>4. new \in Seq(Entries) /\ Len(new) = Len(files)
  <2>1. new \in [1 .. Len(files) -> Entries]
    BY <1>1, <1>3
  <2>2. new \in Seq(Entries)
    BY <1>1, <2>1, SeqDef
  <2> QED  BY <1>1, <2>1, <2>2, LenProperties
<1>5. ToSet(new) = ToSet(files)
  <2> DEFINE places == 1 .. Len(files)
  <2>1. IsFiniteSet(places) /\ Cardinality(places) = Len(files)
    <3>1. 1 \in Int /\ Len(files) \in Int
      BY <1>1
    <3>2. IsFiniteSet(1 .. Len(files)) /\ Cardinality(1 .. Len(files)) = IF 1 > Len(files) THEN 0 ELSE Len(files) - 1 + 1
      BY <3>1, FS_Interval
    <3> QED  BY <1>1, <3>2
  <2>2. files \in Bijection(places, ToSet(files))
    <3>1. files \in [places -> ToSet(files)]
      BY <1>1 DEF ToSet
    <3> QED  BY <1>1, <3>1 DEF Bijection, Injection, Surjection, IsInjective, ToSet
  <2>3. IsFiniteSet(ToSet(files)) /\ Cardinality(ToSet(files)) = Len(files)
    BY <2>1, <2>2, FS_Bijection DEF ExistsBijection
  <2>4. new \in Injection(places, ToSet(files))
    BY <1>1, <1>3 DEF Injection, IsInjective
  <2>5. new \in Surjection(places, ToSet(files))
    <3> HIDE DEF places
    <3> QED  BY <2>1, <2>3, <2>4, FS_Injection
  <2> QED  BY <1>1, <1>3, <2>5 DEF Surjection, ToSet
<1> QED  BY <1>3, <1>4, <1>5 DEF Arranges, InOrder, new

-------------------------------------------------------------------------------
(* Rearranging.                                                            *)

\* One list has the same files in another order.
Rearranged(m, n, parent) ==
  /\ DOMAIN n.lists = DOMAIN m.lists
  /\ n.lists[parent] \in Seq(Entries) /\ Len(n.lists[parent]) = Len(m.lists[parent])
  /\ ToSet(n.lists[parent]) = ToSet(m.lists[parent])
  /\ \A r \in DOMAIN m.lists \ {parent} : n.lists[r] = m.lists[r]
  /\ SameBut(n, m)

LEMMA ReorderedIs ==
  ASSUME NEW m, ModelTrue(m), NEW parent \in DOMAIN m.lists, NEW new \in Seq(Entries),
         IsInjective(new), ToSet(new) = ToSet(m.lists[parent]),
         Len(new) = Len(m.lists[parent]), NEW order,
         \A i \in 1 .. Len(new) : m.lists[parent][order[i]] = new[i],
         NEW n, n = RowsReordered([m EXCEPT !.lists = [m.lists EXCEPT ![parent] = new]], parent, order)
  PROVE  ModelTrue(n) /\ Rearranged(m, n, parent) /\ n.lists[parent] = new
<1> DEFINE lists2 == [m.lists EXCEPT ![parent] = new]
           in == [m EXCEPT !.lists = lists2]
<1>1. Fields(m) /\ Tree(m.lists) /\ m.shown = m.lists
  BY DEF ModelTrue
<1>2. Fields(in) /\ in.lists = lists2 /\ in.shown = m.lists /\ SameBut(in, m)
  BY <1>1 DEF Fields, SameBut
<1>3. Tree(lists2)
  BY <1>1, TreeReplaced
<1>4. /\ DOMAIN lists2 = DOMAIN m.lists /\ lists2[parent] = new
      /\ \A r \in DOMAIN m.lists \ {parent} : lists2[r] = m.lists[r]
  OBVIOUS
<1>5. Fields(n) /\ n.shown = lists2 /\ n.lists = lists2 /\ SameBut(n, in)
  <2>1. n = RowsReordered(in, parent, order)
    OBVIOUS
  <2> HIDE DEF in
  <2> QED  BY <1>1, <1>2, <2>1, RowsReorderedIs DEF SameBut
<1> HIDE DEF in
<1> HIDE DEF lists2
<1>6. Rearranged(m, n, parent)
  BY <1>2, <1>4, <1>5 DEF Rearranged, SameBut
<1>7. \A r \in DOMAIN m.lists : ToSet(n.lists[r]) = ToSet(m.lists[r])
  BY <1>4, <1>5
<1>8. ASSUME NEW r \in DOMAIN n.lists, Dummy \in ToSet(n.lists[r])
      PROVE  r # Top /\ n.lists[r] = <<Dummy>>
  <2>1. r \in DOMAIN m.lists /\ r # Top /\ m.lists[r] = <<Dummy>>
    BY <1>4, <1>5, <1>7, <1>8 DEF ModelTrue
  <2>2. CASE r = parent
    <3>1. ToSet(new) = {Dummy}
      BY <2>1, <2>2 DEF ToSet
    <3> QED  BY <1>4, <1>5, <2>1, <2>2, <3>1, OneEntry, ZenonT(40)
  <2>3. CASE r # parent
    BY <1>4, <1>5, <2>1, <2>3
  <2> QED  BY <2>2, <2>3
<1>9. ModelTrue(n)
  <2>1. /\ n.sub = m.sub /\ n.rev = m.rev /\ n.dirs = m.dirs /\ n.open = m.open
        /\ n.size = m.size /\ n.reversed = m.reversed /\ DOMAIN n.lists = DOMAIN m.lists
    BY <1>6 DEF Rearranged, SameBut
  <2>2. /\ n.sub \subseteq DOMAIN n.lists \ {Top}
        /\ DOMAIN n.rev = n.sub \cup {Top}
        /\ \A d \in DOMAIN n.dirs : n.dirs[d] \in n.sub /\ Last(n.dirs[d]) = d
        /\ n.open \subseteq DOMAIN n.lists \ {Top}
        /\ \A row \in n.open : Front(row) = Top \/ Front(row) \in n.open
        /\ n.size \in [Files -> Int] /\ n.reversed \in BOOLEAN
    BY <2>1 DEF ModelTrue
  <2>3. \A row \in DOMAIN n.rev : n.rev[row] = ToSet(n.lists[row]) \ {Dummy}
    <3>1. DOMAIN m.rev \subseteq DOMAIN m.lists
      BY DEF ModelTrue, Tree
    <3>2. \A row \in DOMAIN m.rev : m.rev[row] = ToSet(m.lists[row]) \ {Dummy}
      BY DEF ModelTrue
    <3> QED  BY <1>7, <2>1, <3>1, <3>2
  <2>4. \A row \in DOMAIN n.lists \ DOMAIN n.rev : ToSet(n.lists[row]) \subseteq {Dummy}
    BY <1>7, <2>1 DEF ModelTrue
  <2> QED  BY <1>3, <1>5, <1>8, <2>2, <2>3, <2>4 DEF ModelTrue
<1> QED  BY <1>4, <1>5, <1>6, <1>9 DEF lists2

LEMMA LookupIs ==
  ASSUME NEW m, ModelTrue(m), NEW f \in Files, NEW dir
  PROVE  LET parent == ParentOf(m, dir)
         IN  /\ LookupFile(m, f, dir) = IF f \in m.rev[parent] THEN Append(parent, f) ELSE NoRow
             /\ Append(parent, f) # NoRow /\ Append(parent, f) # Top
             /\ Front(Append(parent, f)) = parent /\ Last(Append(parent, f)) = f
             /\ Append(parent, f) \in Seq(Entries)
             /\ f \in m.rev[parent] <=> f \in ToSet(m.lists[parent])
<1> DEFINE parent == ParentOf(m, dir)
<1>1. parent \in DOMAIN m.rev /\ parent \in DOMAIN m.lists
  BY ParentIs
<1> HIDE DEF parent
<1>2. parent \in Seq(Entries) /\ f \in Entries /\ f # Dummy
  BY <1>1, RowOfTree, DummyAssumption DEF ModelTrue, Entries
<1>3. /\ Append(parent, f) \in Seq(Entries) /\ Append(parent, f) # Top
      /\ Front(Append(parent, f)) = parent /\ Last(Append(parent, f)) = f
  BY <1>2, AppendFront DEF Top
<1>4. Last(NoRow) = Dummy
  BY DEF NoRow, Last
<1>5. f \in m.rev[parent] <=> f \in ToSet(m.lists[parent])
  BY <1>1, <1>2 DEF ModelTrue
<1> QED  BY <1>1, <1>2, <1>3, <1>4, <1>5 DEF LookupFile, parent

\* fm_list_model_file_changed puts the file where it belongs.
LEMMA FileIsMoved ==
  ASSUME NEW m, ModelTrue(m), NEW f \in Files, NEW dir
  PROVE  LET parent == ParentOf(m, dir)
             n == FileChanged(m, f, dir)
         IN  /\ ModelTrue(n) /\ Rearranged(m, n, parent)
             /\ n.lists[parent] =
                  IF f \in ToSet(m.lists[parent])
                  THEN InsertSorted(m, RemoveAt(m.lists[parent], Where(m.lists[parent], f)), f)
                  ELSE m.lists[parent]
<1> DEFINE parent == ParentOf(m, dir)
           old == m.lists[parent]
           before == Where(old, f)
           rest == RemoveAt(old, before)
           new == InsertSorted(m, rest, f)
           after1 == Where(new, f)
           order == MoveOrder(Len(old), before, after1)
           in == [m EXCEPT !.lists = [m.lists EXCEPT ![parent] = new]]
           n == FileChanged(m, f, dir)
<1>1. parent \in DOMAIN m.lists /\ old \in Seq(Entries) /\ IsInjective(old) /\ f \in Entries
  BY ParentIs DEF ModelTrue, Tree, Entries
<1>2. /\ LookupFile(m, f, dir) = IF f \in ToSet(old) THEN Append(parent, f) ELSE NoRow
      /\ Append(parent, f) # NoRow /\ Front(Append(parent, f)) = parent
  BY LookupIs
<1>3. ASSUME n = m
      PROVE  ModelTrue(n) /\ Rearranged(m, n, parent) /\ n.lists[parent] = old
  BY <1>1, <1>3 DEF Rearranged, SameBut
<1>4. CASE f \notin ToSet(old)
  <2>1. n = m
    BY <1>2, <1>4 DEF FileChanged
  <2> QED  BY <1>3, <1>4, <2>1
<1>5. CASE f \in ToSet(old)
  <2>1. before \in 1 .. Len(old) /\ old[before] = f /\ Len(old) \in Nat
    BY <1>1, <1>5, WhereIs, LenProperties
  <2>2. /\ rest \in Seq(Entries) /\ Len(rest) = Len(old) - 1 /\ IsInjective(rest)
        /\ \A j \in 1 .. Len(old) - 1 : rest[j] = IF j < before THEN old[j] ELSE old[j + 1]
        /\ ToSet(rest) = ToSet(old) \ {f}
    <3> HIDE DEF before, old
    <3> QED  BY <1>1, <2>1, RemoveAtIs, RemoveDistinct
  <2> HIDE DEF rest, before
  <2>3. PICK at \in 1 .. Len(rest) + 1 : new = InsertAt(rest, at, f)
    BY <1>1, <2>2, InsertSortedIs
  <2>4. /\ new \in Seq(Entries) /\ IsInjective(new) /\ ToSet(new) = ToSet(old) /\ Len(new) = Len(old)
    <3>1. /\ new \in Seq(Entries) /\ IsInjective(new) /\ ToSet(new) = ToSet(rest) \cup {f}
          /\ Len(new) = Len(rest) + 1
      <4>1. f \notin ToSet(rest)
        BY <2>2
      <4>2. rest \in Seq(Entries) /\ IsInjective(rest) /\ f \in Entries
        BY <1>1, <2>2
      <4>3. \A s \in Seq(Entries) : IsInjective(s) /\ f \notin ToSet(s) =>
               /\ InsertSorted(m, s, f) \in Seq(Entries) /\ IsInjective(InsertSorted(m, s, f))
               /\ ToSet(InsertSorted(m, s, f)) = ToSet(s) \cup {f}
               /\ Len(InsertSorted(m, s, f)) = Len(s) + 1
        BY <4>2, InsertSortedSet
      <4> QED  BY <4>1, <4>2, <4>3
    <3> HIDE DEF new
    <3> QED  BY <1>5, <2>1, <2>2, <3>1
  <2>5. \A j \in 1 .. Len(old) : new[j] = IF j < at THEN rest[j] ELSE IF j = at THEN f ELSE rest[j - 1]
    <3>1. Len(rest) + 1 = Len(old)
      BY <2>1, <2>2
    <3>2. \A j \in 1 .. Len(rest) + 1 :
             InsertAt(rest, at, f)[j] = IF j < at THEN rest[j] ELSE IF j = at THEN f ELSE rest[j - 1]
      BY <1>1, <2>2, InsertAtIs
    <3> HIDE DEF new
    <3> QED  BY <2>3, <3>1, <3>2
  <2> HIDE DEF new
  <2>6. after1 = at
    <3>1. at \in 1 .. Len(new) /\ new[at] = f
      BY <2>1, <2>2, <2>4, <2>5
    <3> QED  BY <2>4, <3>1, WhereOnly
  <2> HIDE DEF old, parent
  <2>7. ASSUME NEW i \in 1 .. Len(new) PROVE old[order[i]] = new[i]
    <3>1. order[i] = IF i = at THEN before
                     ELSE LET o == IF i < at THEN i ELSE i - 1
                          IN  IF o >= before THEN o + 1 ELSE o
      BY <2>4, <2>6 DEF MoveOrder
    <3>2. i \in 1 .. Len(old)
      BY <2>4
    <3> HIDE DEF order, after1
    <3>3. CASE i = at
      BY <2>1, <2>5, <3>1, <3>2, <3>3
    <3>4. CASE i < at
      <4>1. new[i] = rest[i] /\ i \in 1 .. Len(old) - 1
        BY <2>1, <2>2, <2>3, <2>5, <3>2, <3>4
      <4>2. order[i] = IF i >= before THEN i + 1 ELSE i
        BY <3>1, <3>4
      <4> QED  BY <2>1, <2>2, <4>1, <4>2
    <3>5. CASE i > at
      <4>1. new[i] = rest[i - 1] /\ i - 1 \in 1 .. Len(old) - 1
        BY <2>1, <2>2, <2>3, <2>5, <3>2, <3>5
      <4>2. order[i] = IF i - 1 >= before THEN (i - 1) + 1 ELSE i - 1
        BY <3>1, <3>2, <3>5
      <4> QED  BY <2>1, <2>2, <4>1, <4>2
    <3> QED  BY <2>3, <3>2, <3>3, <3>4, <3>5
  <2>8. n = IF new = old THEN m ELSE RowsReordered(in, parent, order)
    <3>1. in = [m EXCEPT !.lists[parent] = new]
      BY DEF ModelTrue, Fields
    <3> HIDE DEF in
    <3> QED  BY <1>2, <1>5, <3>1 DEF FileChanged, old, new, rest, before, parent
  <2>9. CASE new = old
    BY <1>3, <1>5, <2>8, <2>9 DEF new, rest, before, old, parent
  <2>10. CASE new # old
    <3> HIDE DEF order, n
    <3>1. n = RowsReordered(in, parent, order)
      BY <2>8, <2>10
    <3>2. /\ ToSet(new) = ToSet(m.lists[parent]) /\ Len(new) = Len(m.lists[parent])
          /\ \A i \in 1 .. Len(new) : m.lists[parent][order[i]] = new[i]
          /\ n = RowsReordered([m EXCEPT !.lists = [m.lists EXCEPT ![parent] = new]], parent, order)
      BY <2>4, <2>7, <3>1 DEF old
    <3>3. ModelTrue(n) /\ Rearranged(m, n, parent) /\ n.lists[parent] = new
      <4>1. parent \in DOMAIN m.lists /\ new \in Seq(Entries) /\ IsInjective(new)
        BY <1>1, <2>4
      <4> HIDE DEF in, old, new, parent
      <4>2. \A o, k :
               /\ \A i \in 1 .. Len(new) : m.lists[parent][o[i]] = new[i]
               /\ k = RowsReordered([m EXCEPT !.lists = [m.lists EXCEPT ![parent] = new]], parent, o)
               => ModelTrue(k) /\ Rearranged(m, k, parent) /\ k.lists[parent] = new
        BY <3>2, <4>1, ReorderedIs
      <4> QED  BY <3>2, <4>2
    <3> QED  BY <1>5, <3>3 DEF new, rest, before, old, parent, n
  <2> QED  BY <2>9, <2>10
<1> QED  BY <1>4, <1>5

\* fm_list_model_sort_file_entries puts a list in order.
LEMMA ListIsSorted ==
  ASSUME NEW m, ModelTrue(m), NEW row \in DOMAIN m.lists, Len(m.lists[row]) > 1
  PROVE  LET n == SortFileEntries(m, row)
         IN  ModelTrue(n) /\ Rearranged(m, n, row) /\ InOrder(m, n.lists[row])
<1> DEFINE files == m.lists[row]
           new == SortedFiles(m, files)
           order == [i \in DOMAIN new |-> Where(files, new[i])]
           in == [m EXCEPT !.lists = [m.lists EXCEPT ![row] = new]]
           n == SortFileEntries(m, row)
<1>1. files \in Seq(Entries) /\ IsInjective(files) /\ m.size \in [Files -> Int] /\ m.reversed \in BOOLEAN
  BY DEF ModelTrue, Tree
<1>2. Dummy \notin ToSet(files)
  <2> SUFFICES ASSUME Dummy \in ToSet(files) PROVE FALSE
    OBVIOUS
  <2>1. files = <<Dummy>>
    BY DEF ModelTrue
  <2> QED  BY <2>1
<1>3. Arranges(m, new, files) /\ Len(new) = Len(files)
  <2> HIDE DEF files
  <2> QED  BY <1>1, <1>2, SortedFilesIs
<1>4. in = [m EXCEPT !.lists[row] = new]
  BY DEF ModelTrue, Fields
<1>5. n = RowsReordered(in, row, order)
  <2> HIDE DEF in
  <2> QED  BY <1>4 DEF SortFileEntries
<1> HIDE DEF new
<1>6. ASSUME NEW i \in 1 .. Len(new) PROVE files[order[i]] = new[i]
  <2>1. i \in DOMAIN new
    BY <1>3, LenProperties DEF Arranges
  <2>2. new[i] \in ToSet(files)
    BY <1>3, <2>1 DEF Arranges, ToSet
  <2>3. order[i] = Where(files, new[i])
    BY <2>1
  <2> HIDE DEF order, files
  <2> QED  BY <1>1, <2>2, <2>3, WhereIs
<1> HIDE DEF order, n
<1>7. ModelTrue(n) /\ Rearranged(m, n, row) /\ n.lists[row] = new
  BY <1>3, <1>5, <1>6, ReorderedIs DEF Arranges
<1> QED  BY <1>3, <1>7 DEF Arranges, n

-------------------------------------------------------------------------------
(* Removing.                                                               *)

\* The dummy row has gone, and its folder is closed.
Emptied(m, n, row) ==
  /\ DOMAIN n.lists = DOMAIN m.lists /\ n.lists[row] = <<>>
  /\ m.lists[row] = <<Dummy>> /\ row # Top
  /\ \A r \in DOMAIN m.lists \ {row} : n.lists[r] = m.lists[r]
  /\ n.open = m.open \ {row}
  /\ n.sub = m.sub /\ n.rev = m.rev /\ n.dirs = m.dirs
  /\ n.column = m.column /\ n.reversed = m.reversed /\ n.size = m.size

LEMMA DummyIsRemoved ==
  ASSUME NEW m, ModelTrue(m), NEW row \in DOMAIN m.lists,
         m.lists[row] # <<>>, Head(m.lists[row]) = Dummy
  PROVE  Emptied(m, RemoveDummy(m, row), row) /\ ModelTrue(RemoveDummy(m, row))
<1> DEFINE in == [m EXCEPT !.lists = [m.lists EXCEPT ![row] = <<>>]]
           n == RemoveDummy(m, row)
           child == Append(row, Dummy)
<1>1. /\ Fields(m) /\ Tree(m.lists) /\ m.shown = m.lists /\ Dummy \in Entries /\ Dummy \notin Folders
      /\ row \in Seq(Entries)
  BY RowOfTree, DummyAssumption, FoldersAssumption DEF ModelTrue, Entries
<1>2. m.lists[row] = <<Dummy>> /\ row # Top
  <2>1. m.lists[row] \in Seq(Entries)
    BY <1>1 DEF Tree
  <2>2. 1 \in DOMAIN m.lists[row] /\ m.lists[row][1] = Dummy
    <3>1. Len(m.lists[row]) \in Nat \ {0}
      BY <2>1, EmptySeq
    <3> QED  BY <2>1, <3>1, LenProperties
  <2>3. Dummy \in ToSet(m.lists[row])
    BY <2>2 DEF ToSet
  <2> QED  BY <2>3 DEF ModelTrue
<1>3. n = RowDeleted(in, Append(GetPath(m.lists, row), 1))
  <2>1. Tail(<<Dummy>>) = <<>>
    OBVIOUS
  <2>2. in = [m EXCEPT !.lists[row] = Tail(@)]
    BY <1>1, <1>2, <2>1 DEF Fields
  <2> HIDE DEF in
  <2> QED  BY <2>2 DEF RemoveDummy
<1>4. Dummy \in ToSet(m.lists[row]) /\ Where(m.lists[row], Dummy) = 1
  BY <1>2 DEF ToSet, Where
<1>5. Append(GetPath(m.lists, row), 1) = GetPath(m.lists, child)
  BY <1>1, <1>4, PathOfChild DEF ChildPath
<1>6. child \notin DOMAIN m.lists
  <2>1. /\ child \in Seq(Entries) /\ Len(child) = Len(row) + 1 /\ Len(row) \in Nat
        /\ child[Len(row) + 1] = Dummy
    BY <1>1, AppendProperties, LenProperties
  <2> SUFFICES ASSUME child \in Seq(Folders) PROVE FALSE
    BY <1>1 DEF Tree
  <2>2. Len(row) + 1 \in 1 .. Len(child)
    BY <2>1
  <2> HIDE DEF child
  <2>3. child[Len(row) + 1] \in Folders
    BY <2>2, ElementOfSeq
  <2> QED  BY <1>1, <2>1, <2>3
<1>7. Below(child, m.open) = {}
  <2>1. child \in Seq(Entries)
    BY <1>1, AppendProperties
  <2>2. ASSUME NEW r \in m.open PROVE ~ IsPrefix(child, r)
    <3>1. r \in DOMAIN m.lists
      BY DEF ModelTrue
    <3> HIDE DEF child
    <3> QED  BY <1>1, <1>6, <2>1, <3>1, BelowIsChild
  <2> QED  BY <2>2 DEF Below
<1>8. RemoveAt(<<Dummy>>, 1) = <<>>
  <2>1. SubSeq(<<Dummy>>, 1, 0) = <<>> /\ SubSeq(<<Dummy>>, 2, 1) = <<>>
    BY SubSeqEmpty
  <2>2. Len(<<Dummy>>) = 1
    OBVIOUS
  <2> QED  BY <2>1, <2>2 DEF RemoveAt
<1>9. /\ Fields(in) /\ in.lists = [m.lists EXCEPT ![row] = <<>>] /\ in.shown = m.lists
      /\ in.sub = m.sub /\ in.rev = m.rev /\ in.dirs = m.dirs /\ in.open = m.open
      /\ in.column = m.column /\ in.reversed = m.reversed /\ in.size = m.size
  BY <1>1 DEF Fields
<1> HIDE DEF in
<1>10. Deleted(in, n, m.lists, row, Dummy)
  <2> HIDE DEF n
  <2>1. n = RowDeleted(in, GetPath(m.lists, Append(row, Dummy)))
    BY <1>3, <1>5
  <2>2. Append(row, Dummy) \notin DOMAIN m.lists
    BY <1>6
  <2> HIDE DEF child
  <2> QED  BY <1>1, <1>4, <1>9, <2>1, <2>2, RowDeletedIs
<1> DEFINE lists2 == [m.lists EXCEPT ![row] = <<>>]
<1>11. Without(lists2, {child}) = lists2
  <2>1. DOMAIN lists2 = DOMAIN m.lists /\ lists2 = [r \in DOMAIN lists2 |-> lists2[r]]
    OBVIOUS
  <2>2. DOMAIN lists2 \ {child} = DOMAIN lists2
    BY <1>6, <2>1
  <2> HIDE DEF lists2, child
  <2> QED  BY <2>1, <2>2 DEF Without
<1>12. /\ Fields(n) /\ n.lists = lists2 /\ n.shown = lists2 /\ n.open = m.open \ {row}
       /\ n.sub = m.sub /\ n.rev = m.rev /\ n.dirs = m.dirs
       /\ n.column = m.column /\ n.reversed = m.reversed /\ n.size = m.size
  <2> HIDE DEF n
  <2>1. RemoveAt(m.lists[row], Where(m.lists[row], Dummy)) = <<>>
    BY <1>2, <1>4, <1>8
  <2> QED  BY <1>7, <1>9, <1>10, <1>11, <2>1 DEF Deleted
<1>13. Emptied(m, n, row)
  <2> HIDE DEF n
  <2> QED  BY <1>2, <1>12 DEF Emptied
<1>14. Tree(lists2)
  <2>1. <<>> \in Seq(Entries) /\ IsInjective(<<>>) /\ ToSet(<<>>) = {} /\ ToSet(<<Dummy>>) = {Dummy}
    BY DEF IsInjective, ToSet
  <2>2. ToSet(<<>>) \cap Folders = ToSet(m.lists[row]) \cap Folders
    BY <1>1, <1>2, <2>1
  <2> QED  BY <1>1, <2>1, <2>2, TreeReplaced
<1>15. ModelTrue(n)
  <2> HIDE DEF n
  <2>1. ToSet(<<>>) = {} /\ ToSet(<<Dummy>>) = {Dummy}
    BY DEF ToSet
  <2>2. /\ DOMAIN n.lists = DOMAIN m.lists /\ n.lists[row] = <<>>
        /\ \A r \in DOMAIN m.lists : r # row => n.lists[r] = m.lists[r]
    BY <1>13 DEF Emptied
  <2>3. \A r \in DOMAIN n.lists : ToSet(n.lists[r]) \ {Dummy} = ToSet(m.lists[r]) \ {Dummy}
    BY <1>2, <2>1, <2>2
  <2>4. \A r \in DOMAIN n.lists : Dummy \in ToSet(n.lists[r]) => r # Top /\ n.lists[r] = <<Dummy>>
    BY <2>1, <2>2 DEF ModelTrue
  <2>5. n.sub \subseteq DOMAIN n.lists \ {Top} /\ DOMAIN n.rev = n.sub \cup {Top}
    BY <1>12, <2>2 DEF ModelTrue
  <2>6. DOMAIN m.rev \subseteq DOMAIN n.lists
    BY <1>1, <2>2 DEF ModelTrue, Tree
  <2>7. \A r \in DOMAIN n.rev : n.rev[r] = ToSet(n.lists[r]) \ {Dummy}
    <3>1. \A r \in DOMAIN m.rev : m.rev[r] = ToSet(m.lists[r]) \ {Dummy}
      BY DEF ModelTrue
    <3> QED  BY <1>12, <2>3, <2>6, <3>1
  <2>8. \A r \in DOMAIN n.lists \ DOMAIN n.rev : ToSet(n.lists[r]) \subseteq {Dummy}
    <3>1. \A r \in DOMAIN m.lists \ DOMAIN m.rev : ToSet(m.lists[r]) \subseteq {Dummy}
      BY DEF ModelTrue
    <3> QED  BY <1>12, <2>2, <2>3, <3>1, ZenonT(40)
  <2>9. /\ \A d \in DOMAIN n.dirs : n.dirs[d] \in n.sub /\ Last(n.dirs[d]) = d
        /\ n.open \subseteq DOMAIN n.lists \ {Top}
        /\ n.size \in [Files -> Int] /\ n.reversed \in BOOLEAN
    BY <1>12, <2>2 DEF ModelTrue
  <2>10. ASSUME NEW r \in n.open PROVE Front(r) = Top \/ Front(r) \in n.open
    <3>1. r \in m.open /\ r \in DOMAIN m.lists /\ r # Top
      BY <1>12, <2>10 DEF ModelTrue
    <3>2. CASE Front(r) = row
      <4>1. r \in Seq(Folders) /\ r \in Seq(Entries) /\ Len(r) \in Nat /\ Len(r) # 0
        BY <1>1, <3>1, RowOfTree, EmptySeq DEF Top
      <4>2. Len(r) - 1 \in 0 .. Len(r) /\ Len(r) - 1 < Len(r) /\ (Len(r) - 1) + 1 = Len(r)
        BY <4>1
      <4>3. r[Len(r)] \in ToSet(m.lists[row])
        BY <1>1, <3>1, <3>2, <4>2, OnTheWay DEF Front
      <4>4. r[Len(r)] \in Folders
        <5>1. Len(r) \in 1 .. Len(r)
          BY <4>1
        <5> QED  BY <4>1, <5>1, ElementOfSeq
      <4> QED  BY <1>1, <1>2, <2>1, <4>3, <4>4
    <3>3. CASE Front(r) # row
      BY <1>12, <3>1, <3>3 DEF ModelTrue
    <3> QED  BY <3>2, <3>3
  <2> QED  BY <1>12, <1>14, <2>4, <2>5, <2>7, <2>8, <2>9, <2>10 DEF ModelTrue
<1> QED  BY <1>13, <1>15

TakenOut(m, n, parent, f) ==
  LET row == Append(parent, f)
      left == RemoveAt(m.lists[parent], Where(m.lists[parent], f))
  IN  /\ Fields(n) /\ Tree(n.lists) /\ n.shown = n.lists
      /\ DOMAIN n.lists = DOMAIN m.lists \ {row}
      /\ row # parent /\ row # Top
      /\ n.lists[parent] = left
      /\ \A r \in DOMAIN m.lists \ {parent, row} : n.lists[r] = m.lists[r]
      /\ n.open = m.open \ (Below(row, m.open) \cup (IF left = <<>> THEN {parent} ELSE {}))
      /\ n.sub = m.sub \ {row} /\ n.rev = Without(m.rev, {row})
      /\ n.dirs = (IF row \in m.sub THEN Without(m.dirs, {f}) ELSE m.dirs)
      /\ n.column = m.column /\ n.reversed = m.reversed /\ n.size = m.size

LEMMA TakeOutIs ==
  ASSUME NEW m, Fields(m), Tree(m.lists), m.shown = m.lists,
         NEW parent \in DOMAIN m.lists, NEW f \in ToSet(m.lists[parent]),
         Append(parent, f) \in DOMAIN m.lists => m.lists[Append(parent, f)] = <<>>,
         NEW n, n = TakeOut(m, Append(parent, f))
  PROVE  TakenOut(m, n, parent, f)
<1> DEFINE row == Append(parent, f)
           left == RemoveAt(m.lists[parent], Where(m.lists[parent], f))
           lists2 == Without([m.lists EXCEPT ![parent] = left], {row})
           dirs2 == IF row \in m.sub THEN Without(m.dirs, {f}) ELSE m.dirs
           in == [m EXCEPT !.lists = lists2, !.dirs = dirs2, !.sub = m.sub \ {row}, !.rev = Without(m.rev, {row})]
<1>1. Front(row) = parent /\ Last(row) = f
  BY PathOfChild DEF ChildPath
<1>2. n = RowDeleted(in, GetPath(m.lists, row))
  <2>1. n = TakeOut(m, row)
    OBVIOUS
  <2> HIDE DEF row
  <2> QED  BY <1>1, <2>1 DEF TakeOut
<1> HIDE DEF lists2, dirs2
<1>3. /\ Fields(in) /\ in.lists = lists2 /\ in.shown = m.lists
      /\ in.sub = m.sub \ {row} /\ in.rev = Without(m.rev, {row}) /\ in.dirs = dirs2 /\ in.open = m.open
      /\ in.column = m.column /\ in.reversed = m.reversed /\ in.size = m.size
  <2> HIDE DEF row
  <2> QED  BY DEF Fields
<1>4. HasLost(m.lists, parent, f, left)
  <2>1. m.lists[parent] \in Seq(Entries) /\ IsInjective(m.lists[parent]) /\ f \in Entries
    BY ChildIsOnTree DEF Tree
  <2>2. Where(m.lists[parent], f) \in 1 .. Len(m.lists[parent]) /\ m.lists[parent][Where(m.lists[parent], f)] = f
    BY <2>1, WhereIs
  <2>3. /\ left \in Seq(Entries) /\ IsInjective(left)
        /\ ToSet(left) \cap Folders = (ToSet(m.lists[parent]) \ {f}) \cap Folders
    BY <2>1, <2>2, RemoveAtIs, RemoveDistinct
  <2> HIDE DEF left
  <2> QED  BY <2>1, <2>3, TreeWithout
<1> HIDE DEF in
<1>5. Deleted(in, n, m.lists, parent, f)
  BY <1>2, <1>3, RowDeletedIs
<1> HIDE DEF row, left
<1>6. /\ Fields(n) /\ n.lists = lists2
      /\ n.shown = lists2
      /\ n.open = m.open \ (Below(row, m.open) \cup (IF left = <<>> THEN {parent} ELSE {}))
      /\ n.sub = m.sub \ {row} /\ n.rev = Without(m.rev, {row}) /\ n.dirs = dirs2
      /\ n.column = m.column /\ n.reversed = m.reversed /\ n.size = m.size
  BY <1>3, <1>5 DEF Deleted, row, left, lists2
<1>7. /\ Tree(lists2) /\ DOMAIN lists2 = DOMAIN m.lists \ {row} /\ lists2[parent] = left
      /\ row # parent /\ row # Top
      /\ \A r \in DOMAIN m.lists \ {parent, row} : lists2[r] = m.lists[r]
  BY <1>4 DEF HasLost, lists2, row
<1> QED  BY <1>6, <1>7 DEF TakenOut, row, left, dirs2

LEMMA ParentOfRow ==
  ASSUME NEW lists, Tree(lists), NEW row \in DOMAIN lists, row # Top
  PROVE  /\ Front(row) \in DOMAIN lists /\ Last(row) \in ToSet(lists[Front(row)])
         /\ Last(row) \in Folders /\ Last(row) \in Entries /\ row = Append(Front(row), Last(row))
         /\ row \in Seq(Folders) /\ Len(row) \in Nat \ {0} /\ Len(Front(row)) = Len(row) - 1
<1>1. row \in Seq(Folders) /\ row \in Seq(Entries) /\ Len(row) \in Nat
  BY RowOfTree
<1>2. /\ Len(row) \in Nat \ {0} /\ Len(Front(row)) = Len(row) - 1 /\ Last(row) \in Folders
      /\ Append(Front(row), Last(row)) = row
  BY <1>1, FrontLast DEF Top
<1>3. Len(row) - 1 \in 0 .. Len(row) /\ Len(row) - 1 < Len(row) /\ (Len(row) - 1) + 1 = Len(row)
  BY <1>2
<1>4. Front(row) = SubSeq(row, 1, Len(row) - 1) /\ Last(row) = row[Len(row)]
  BY DEF Front, Last
<1>5. Front(row) \in DOMAIN lists /\ Last(row) \in ToSet(lists[Front(row)])
  BY <1>3, <1>4, OnTheWay
<1> QED  BY <1>1, <1>2, <1>5, FoldersAssumption DEF Entries

\* A row without children has gone, the last of its folder for a dummy row.
Removed(m, n, parent, f) ==
  LET row == Append(parent, f)
  IN  /\ DOMAIN n.lists = DOMAIN m.lists \ {row} /\ row # parent /\ row # Top
      /\ n.lists[parent] = IF parent # Top /\ Len(m.lists[parent]) = 1 /\ f # Dummy THEN <<Dummy>>
                           ELSE RemoveAt(m.lists[parent], Where(m.lists[parent], f))
      /\ ToSet(n.lists[parent]) \ {Dummy} = ToSet(m.lists[parent]) \ {Dummy, f}
      /\ n.lists[parent] = <<>> => parent = Top \/ f = Dummy
      /\ \A r \in DOMAIN m.lists \ {parent, row} : n.lists[r] = m.lists[r]
      /\ n.open = m.open \ ({row} \cup (IF n.lists[parent] = <<>> THEN {parent} ELSE {}))
      /\ n.sub = m.sub \ {row}
      /\ n.dirs = (IF row \in m.sub THEN Without(m.dirs, {f}) ELSE m.dirs)
      /\ n.column = m.column /\ n.reversed = m.reversed /\ n.size = m.size

\* What fm_list_model_remove does before it takes the row out.
Kept(m, n, parent, f) ==
  /\ Fields(n) /\ Tree(n.lists) /\ n.shown = n.lists /\ DOMAIN n.lists = DOMAIN m.lists
  /\ \A r \in DOMAIN m.lists \ {parent} : n.lists[r] = m.lists[r]
  /\ f \in ToSet(n.lists[parent])
  /\ RemoveAt(n.lists[parent], Where(n.lists[parent], f))
       = IF parent # Top /\ Len(m.lists[parent]) = 1 /\ f # Dummy THEN <<Dummy>>
         ELSE RemoveAt(m.lists[parent], Where(m.lists[parent], f))
  /\ n.rev = (IF parent \in DOMAIN m.rev THEN [m.rev EXCEPT ![parent] = m.rev[parent] \ {f}] ELSE m.rev)
  /\ n.sub = m.sub /\ n.dirs = m.dirs /\ n.open = m.open
  /\ n.column = m.column /\ n.reversed = m.reversed /\ n.size = m.size

LEMMA WithDummyRow ==
  ASSUME NEW m, Fields(m), Tree(m.lists), m.shown = m.lists,
         NEW parent \in DOMAIN m.lists, Dummy \notin ToSet(m.lists[parent]),
         NEW n, n = AddDummyRow(m, parent)
  PROVE  /\ Fields(n) /\ Tree(n.lists) /\ n.shown = n.lists /\ SameBut(n, m)
         /\ n.lists = [m.lists EXCEPT ![parent] = InsertSorted(m, m.lists[parent], Dummy)]
<1>1. LET o == AddDummyRow(m, parent)
      IN  /\ Fields(o) /\ Tree(o.lists) /\ o.shown = o.lists /\ SameBut(o, m)
          /\ o.lists = [m.lists EXCEPT ![parent] = InsertSorted(m, m.lists[parent], Dummy)]
  BY AddDummyRowIs
<1> QED  BY <1>1

LEMMA ExpanderIsKept ==
  ASSUME NEW m, ModelTrue(m), NEW parent \in DOMAIN m.lists, NEW f \in ToSet(m.lists[parent]),
         NEW n, n = KeepExpander(Forget(m, Append(parent, f)), Append(parent, f), 1)
  PROVE  Kept(m, n, parent, f)
<1> DEFINE row == Append(parent, f)
           m1 == Forget(m, row)
           rev1 == IF parent \in DOMAIN m.rev THEN [m.rev EXCEPT ![parent] = m.rev[parent] \ {f}] ELSE m.rev
<1>1. Fields(m) /\ Tree(m.lists) /\ m.shown = m.lists /\ Dummy \in Entries
  BY DEF ModelTrue, Entries
<1>2. Front(row) = parent /\ Last(row) = f /\ f \in Entries
  BY <1>1, PathOfChild, ChildIsOnTree DEF ChildPath
<1>3. /\ Fields(m1) /\ m1.lists = m.lists /\ m1.shown = m.lists /\ m1.rev = rev1
      /\ m1.sub = m.sub /\ m1.dirs = m.dirs /\ m1.open = m.open
      /\ m1.column = m.column /\ m1.reversed = m.reversed /\ m1.size = m.size
  <2> HIDE DEF row
  <2> QED  BY <1>1, <1>2 DEF Forget, Fields
<1>4. n = IF parent # Top /\ Len(m1.lists[parent]) = 1 /\ f # Dummy THEN AddDummyRow(m1, parent) ELSE m1
  <2>1. n = KeepExpander(m1, row, 1)
    OBVIOUS
  <2> HIDE DEF m1, row
  <2> QED  BY <1>2, <2>1 DEF KeepExpander
<1>5. m.lists[parent] \in Seq(Entries) /\ IsInjective(m.lists[parent])
  BY <1>1 DEF Tree
<1> HIDE DEF m1, rev1
<1>6. CASE parent # Top /\ Len(m.lists[parent]) = 1 /\ f # Dummy
  <2>1. m.lists[parent] = <<f>>
    <3>1. m.lists[parent] = << m.lists[parent][1] >>
      BY <1>5, <1>6
    <3>2. ToSet(m.lists[parent]) = {m.lists[parent][1]}
      BY <1>5, <1>6, LenProperties DEF ToSet
    <3> QED  BY <3>1, <3>2
  <2>2. Dummy \notin ToSet(m.lists[parent]) /\ ToSet(<<f>>) = {f}
    BY <1>6, <2>1 DEF ToSet
  <2>3. n = AddDummyRow(m1, parent)
    BY <1>3, <1>4, <1>6
  <2> DEFINE new == InsertSorted(m1, m.lists[parent], Dummy)
  <2>4. /\ Fields(n) /\ Tree(n.lists) /\ n.shown = n.lists /\ SameBut(n, m1)
        /\ n.lists = [m.lists EXCEPT ![parent] = new]
    <3>1. /\ Fields(m1) /\ Tree(m1.lists) /\ m1.shown = m1.lists /\ parent \in DOMAIN m1.lists
          /\ Dummy \notin ToSet(m1.lists[parent])
      BY <1>1, <1>3, <2>2
    <3>2. /\ Fields(n) /\ Tree(n.lists) /\ n.shown = n.lists /\ SameBut(n, m1)
          /\ n.lists = [m1.lists EXCEPT ![parent] = InsertSorted(m1, m1.lists[parent], Dummy)]
      BY <2>3, <3>1, WithDummyRow
    <3>3. m1.lists = m.lists
      BY <1>3
    <3>4. n.lists = [m.lists EXCEPT ![parent] = InsertSorted(m1, m.lists[parent], Dummy)]
      BY <3>2, <3>3
    <3> QED  BY <3>2, <3>4
  <2>5. new \in Seq(Entries) /\ IsInjective(new) /\ ToSet(new) = {f, Dummy} /\ Len(new) = 2
    <3>1. new \in Seq(Entries) /\ IsInjective(new) /\ ToSet(new) = ToSet(m.lists[parent]) \cup {Dummy}
          /\ Len(new) = Len(m.lists[parent]) + 1
      BY <1>1, <1>5, <2>2, InsertSortedSet, SMTT(30)
    <3>2. ToSet(m.lists[parent]) = {f}
      BY <2>1, <2>2
    <3> QED  BY <1>6, <3>1, <3>2
  <2> HIDE DEF new
  <2>6. RemoveAt(new, Where(new, f)) = <<Dummy>>
    <3> DEFINE at == Where(new, f)
               left == RemoveAt(new, at)
    <3>1. at \in 1 .. Len(new) /\ new[at] = f
      BY <2>5, WhereIs
    <3> HIDE DEF at
    <3>2. left \in Seq(Entries) /\ IsInjective(left) /\ ToSet(left) = {f, Dummy} \ {f}
      BY <2>5, <3>1, RemoveAtIs, RemoveDistinct
    <3>3. {f, Dummy} \ {f} = {Dummy}
      BY <1>6
    <3> HIDE DEF left
    <3> QED  BY <3>2, <3>3, OneEntry DEF left, at
  <2> QED  BY <1>1, <1>3, <1>6, <2>4, <2>5, <2>6 DEF Kept, SameBut, rev1
<1>7. CASE ~ (parent # Top /\ Len(m.lists[parent]) = 1 /\ f # Dummy)
  <2>1. n = m1
    BY <1>3, <1>4, <1>7
  <2> QED  BY <1>1, <1>3, <1>7, <2>1 DEF Kept, rev1
<1> QED  BY <1>6, <1>7

LEMMA RowIsRemoved ==
  ASSUME NEW m, ModelTrue(m), NEW parent \in DOMAIN m.lists, NEW f \in ToSet(m.lists[parent]),
         Append(parent, f) \in DOMAIN m.lists => m.lists[Append(parent, f)] = <<>>,
         NEW n, n = RemoveRow(m, Append(parent, f))
  PROVE  Removed(m, n, parent, f) /\ ModelTrue(n)
<1> DEFINE row == Append(parent, f)
           k == KeepExpander(Forget(m, row), row, 1)
           left == RemoveAt(m.lists[parent], Where(m.lists[parent], f))
           new == IF parent # Top /\ Len(m.lists[parent]) = 1 /\ f # Dummy THEN <<Dummy>> ELSE left
<1>1. Tree(m.lists) /\ f \in Entries /\ m.lists[parent] \in Seq(Entries) /\ IsInjective(m.lists[parent])
  BY ChildIsOnTree DEF ModelTrue, Tree
<1>2. Kept(m, k, parent, f)
  BY ExpanderIsKept
<1>3. row # parent /\ row # Top
  <2>1. parent \in Seq(Entries) /\ Len(parent) \in Nat
    BY <1>1, RowOfTree
  <2>2. Len(row) = Len(parent) + 1 /\ row # <<>>
    BY <1>1, <2>1, AppendFront
  <2> QED  BY <2>1, <2>2 DEF Top
<1>4. TakenOut(k, n, parent, f)
  <2>1. n = TakeOut(k, Append(parent, f))
    BY DEF RemoveRow
  <2> HIDE DEF k
  <2>2. Append(parent, f) \in DOMAIN k.lists => k.lists[Append(parent, f)] = <<>>
    BY <1>2, <1>3 DEF Kept
  <2> QED  BY <1>2, <2>1, <2>2, TakeOutIs DEF Kept
<1> HIDE DEF k
<1>5. /\ Fields(n) /\ Tree(n.lists) /\ n.shown = n.lists
      /\ DOMAIN n.lists = DOMAIN m.lists \ {row}
      /\ n.lists[parent] = new
      /\ \A r \in DOMAIN m.lists \ {parent, row} : n.lists[r] = m.lists[r]
      /\ n.open = m.open \ (Below(row, m.open) \cup (IF n.lists[parent] = <<>> THEN {parent} ELSE {}))
      /\ n.sub = m.sub \ {row}
      /\ n.rev = Without(k.rev, {row})
      /\ k.rev = (IF parent \in DOMAIN m.rev THEN [m.rev EXCEPT ![parent] = m.rev[parent] \ {f}] ELSE m.rev)
      /\ n.dirs = (IF row \in m.sub THEN Without(m.dirs, {f}) ELSE m.dirs)
      /\ n.column = m.column /\ n.reversed = m.reversed /\ n.size = m.size
  <2> HIDE DEF row
  <2> QED  BY <1>2, <1>4 DEF Kept, TakenOut, row
<1>6. Where(m.lists[parent], f) \in 1 .. Len(m.lists[parent]) /\ m.lists[parent][Where(m.lists[parent], f)] = f
  BY <1>1, WhereIs
<1>7. left \in Seq(Entries) /\ ToSet(left) = ToSet(m.lists[parent]) \ {f} /\ Len(left) = Len(m.lists[parent]) - 1
  BY <1>1, <1>6, RemoveAtIs, RemoveDistinct, ZenonT(40)
<1>8. \A r \in DOMAIN m.lists : Dummy \in ToSet(m.lists[r]) => r # Top /\ m.lists[r] = <<Dummy>>
  BY DEF ModelTrue
<1> HIDE DEF left
<1>9. ToSet(<<Dummy>>) = {Dummy} /\ <<Dummy>> # <<>> /\ Len(<<Dummy>>) = 1
  BY DEF ToSet
<1>10. /\ ToSet(new) \ {Dummy} = ToSet(m.lists[parent]) \ {Dummy, f}
       /\ new = <<>> => parent = Top \/ f = Dummy
       /\ Dummy \in ToSet(new) => parent # Top /\ new = <<Dummy>>
  <2>1. CASE parent # Top /\ Len(m.lists[parent]) = 1 /\ f # Dummy
    <3>1. ToSet(m.lists[parent]) = {f}
      <4>1. ToSet(m.lists[parent]) = {m.lists[parent][1]}
        BY <1>1, <2>1, LenProperties DEF ToSet
      <4> QED  BY <4>1
    <3> QED  BY <1>9, <2>1, <3>1
  <2>2. CASE ~ (parent # Top /\ Len(m.lists[parent]) = 1 /\ f # Dummy)
    <3>1. new = left
      BY <2>2
    <3>2. Dummy \notin ToSet(left)
      BY <1>7, <1>8, <1>9
    <3>3. left = <<>> => Len(m.lists[parent]) = 1
      BY <1>1, <1>7
    <3> QED  BY <1>7, <2>2, <3>1, <3>2, <3>3
  <2> QED  BY <2>1, <2>2
<1> HIDE DEF new
<1>11. Below(row, m.open) = {row} \cap m.open
  <2>1. row \in Seq(Entries)
    BY <1>1, RowOfTree, AppendFront
  <2>2. ASSUME NEW r \in m.open PROVE IsPrefix(row, r) <=> r = row
    <3>1. r \in DOMAIN m.lists /\ r \in Seq(Entries)
      BY <1>1, RowOfTree DEF ModelTrue
    <3>2. IsPrefix(row, r) => r = row
      <4> HIDE DEF row
      <4> QED  BY <1>1, <2>1, <3>1, BelowIsChild DEF row
    <3>3. r = row => IsPrefix(row, r)
      <4> HIDE DEF row
      <4> QED  BY <2>1, PrefixIs
    <3> QED  BY <3>2, <3>3
  <2> HIDE DEF row
  <2> QED  BY <2>2 DEF Below
<1>12. n.open = m.open \ ({row} \cup (IF n.lists[parent] = <<>> THEN {parent} ELSE {}))
  <2> HIDE DEF row
  <2> QED  BY <1>5, <1>11
<1>13. Removed(m, n, parent, f)
  <2> HIDE DEF row
  <2> QED  BY <1>3, <1>5, <1>10, <1>12 DEF Removed, row, new, left
<1>14. ModelTrue(n)
  <2> HIDE DEF row
  <2>1. /\ m.sub \subseteq DOMAIN m.lists \ {Top} /\ DOMAIN m.rev = m.sub \cup {Top}
        /\ m.open \subseteq DOMAIN m.lists \ {Top}
        /\ m.size \in [Files -> Int] /\ m.reversed \in BOOLEAN
    BY DEF ModelTrue
  <2>2. n.sub \subseteq DOMAIN n.lists \ {Top} /\ DOMAIN n.rev = n.sub \cup {Top}
    BY <1>3, <1>5, <2>1 DEF Without
  <2>3. ASSUME NEW r \in DOMAIN n.lists, Dummy \in ToSet(n.lists[r]) PROVE r # Top /\ n.lists[r] = <<Dummy>>
    BY <1>5, <1>8, <1>10, <2>3
  <2>4. ASSUME NEW r \in DOMAIN n.rev PROVE n.rev[r] = ToSet(n.lists[r]) \ {Dummy}
    <3>1. r \in DOMAIN m.rev /\ r # row /\ n.rev[r] = k.rev[r] /\ r \in DOMAIN m.lists
      BY <1>5, <2>1, <2>2 DEF Without, ModelTrue, Tree
    <3>2. m.rev[r] = ToSet(m.lists[r]) \ {Dummy}
      BY <3>1 DEF ModelTrue
    <3>3. CASE r = parent
      <4>1. k.rev[r] = m.rev[r] \ {f}
        BY <1>5, <3>1, <3>3
      <4> QED  BY <1>5, <1>10, <3>1, <3>2, <3>3, <4>1
    <3>4. CASE r # parent
      <4>1. k.rev[r] = m.rev[r]
        BY <1>5, <3>1, <3>4
      <4> QED  BY <1>5, <3>1, <3>2, <3>4, <4>1
    <3> QED  BY <3>3, <3>4
  <2>5. ASSUME NEW r \in DOMAIN n.lists \ DOMAIN n.rev PROVE ToSet(n.lists[r]) \subseteq {Dummy}
    <3>1. r \in DOMAIN m.lists \ DOMAIN m.rev /\ r # row
      BY <1>5, <2>1, <2>2
    <3>2. ToSet(m.lists[r]) \subseteq {Dummy}
      BY <3>1 DEF ModelTrue
    <3> QED  BY <1>5, <1>10, <3>1, <3>2
  <2>6. ASSUME NEW d \in DOMAIN n.dirs PROVE n.dirs[d] \in n.sub /\ Last(n.dirs[d]) = d
    <3>1. d \in DOMAIN m.dirs /\ n.dirs[d] = m.dirs[d]
      BY <1>5 DEF Without
    <3>2. m.dirs[d] \in m.sub /\ Last(m.dirs[d]) = d
      BY <3>1 DEF ModelTrue
    <3>3. Last(row) = f
      BY <1>1, PathOfChild DEF ChildPath, row
    <3>4. m.dirs[d] # row
      BY <1>5, <3>2, <3>3 DEF Without
    <3> QED  BY <1>5, <3>1, <3>2, <3>4
  <2>7. ASSUME NEW r \in n.open PROVE Front(r) = Top \/ Front(r) \in n.open
    <3>1. r \in m.open /\ r # row /\ r \in DOMAIN n.lists /\ r # Top
      BY <1>5, <1>12, <2>1
    <3>2. Front(r) = Top \/ Front(r) \in m.open
      BY <3>1 DEF ModelTrue
    <3>3. Front(r) \in DOMAIN n.lists /\ Last(r) \in ToSet(n.lists[Front(r)])
      BY <1>5, <3>1, ParentOfRow
    <3>4. ToSet(<<>>) = {}
      BY DEF ToSet
    <3> QED  BY <1>5, <1>12, <3>2, <3>3, <3>4
  <2>8. n.open \subseteq DOMAIN n.lists \ {Top} /\ n.size \in [Files -> Int] /\ n.reversed \in BOOLEAN
    BY <1>5, <1>12, <2>1
  <2> QED  BY <1>5, <2>2, <2>3, <2>4, <2>5, <2>6, <2>7, <2>8 DEF ModelTrue
<1> QED  BY <1>13, <1>14

-------------------------------------------------------------------------------
(* What changes no list.                                                   *)

SameRows(n, m) == n.sub = m.sub /\ n.rev = m.rev /\ n.dirs = m.dirs

LEMMA EmptyModelTrue ==
  ASSUME NEW size \in [Files -> Int]
  PROVE  ModelTrue(EmptyModel(size))
<1> DEFINE m == EmptyModel(size)
<1>1. /\ Fields(m) /\ DOMAIN m.lists = {Top} /\ m.lists[Top] = <<>> /\ m.shown = m.lists /\ m.sub = {}
      /\ DOMAIN m.rev = {Top} /\ m.rev[Top] = {} /\ DOMAIN m.dirs = {} /\ m.open = {} /\ m.size = size
      /\ m.reversed = FALSE
  BY DEF EmptyModel, Fields
<1>2. /\ <<>> \in Seq(Entries) /\ <<>> \in Seq(Folders) /\ IsInjective(<<>>) /\ ToSet(<<>>) = {}
      /\ Len(<<>>) = 0
  BY DEF IsInjective, ToSet
<1> HIDE DEF m
<1>3. Tree(m.lists)
  <2>1. OnTree(m.lists, Top) /\ Top \in Seq(Folders) /\ m.lists[Top] \in Seq(Entries)
        /\ IsInjective(m.lists[Top]) /\ ToSet(m.lists[Top]) \cap Folders = {}
    BY <1>1, <1>2 DEF OnTree, Top
  <2> QED  BY <1>1, <2>1 DEF Tree
<1>4. ModelTrue(m)
  BY <1>1, <1>2, <1>3 DEF ModelTrue
<1> QED  BY <1>4 DEF m

LEMMA SizeChanged ==
  ASSUME NEW m, ModelTrue(m), NEW n, Fields(n), n.lists = m.lists, n.shown = m.shown,
         SameRows(n, m), n.open = m.open, n.reversed = m.reversed, n.size \in [Files -> Int]
  PROVE  ModelTrue(n)
BY DEF ModelTrue, SameRows

LEMMA ColumnChanged ==
  ASSUME NEW m, ModelTrue(m), NEW column, NEW reversed \in BOOLEAN,
         NEW n, n = SetSortColumn(m, column, reversed)
  PROVE  /\ ModelTrue(n) /\ n.lists = m.lists /\ n.sub = m.sub /\ n.rev = m.rev /\ n.dirs = m.dirs
         /\ n.open = m.open /\ n.size = m.size
<1>1. /\ Fields(n) /\ n.lists = m.lists /\ n.sub = m.sub /\ n.rev = m.rev /\ n.dirs = m.dirs
      /\ n.open = m.open /\ n.size = m.size /\ n.shown = m.shown /\ n.reversed = reversed
  BY DEF ModelTrue, Fields, SetSortColumn
<1> QED  BY <1>1 DEF ModelTrue

LEMMA OpenChanged ==
  ASSUME NEW m, ModelTrue(m), NEW open \in SUBSET (DOMAIN m.lists \ {Top}),
         \A row \in open : Front(row) = Top \/ Front(row) \in open,
         NEW n, n = [m EXCEPT !.open = open]
  PROVE  /\ ModelTrue(n) /\ n.lists = m.lists /\ n.sub = m.sub /\ n.rev = m.rev /\ n.dirs = m.dirs
         /\ n.open = open /\ n.size = m.size /\ n.column = m.column /\ n.reversed = m.reversed
<1>1. /\ Fields(n) /\ n.lists = m.lists /\ n.sub = m.sub /\ n.rev = m.rev /\ n.dirs = m.dirs
      /\ n.open = open /\ n.size = m.size /\ n.shown = m.shown /\ n.reversed = m.reversed
      /\ n.column = m.column
  BY DEF ModelTrue, Fields
<1> QED  BY <1>1 DEF ModelTrue

LEMMA SubdirectoryLoaded ==
  ASSUME NEW m, ModelTrue(m), NEW row \in DOMAIN m.lists, row # Top, row \notin m.sub,
         NEW n, n = LoadSubdirectory(m, row)
  PROVE  /\ ModelTrue(n) /\ n.lists = m.lists /\ n.sub = m.sub \cup {row}
         /\ n.dirs = With(m.dirs, Last(row), row) /\ n.open = m.open
         /\ n.size = m.size /\ n.column = m.column /\ n.reversed = m.reversed
<1>1. /\ Fields(n) /\ n.lists = m.lists /\ n.sub = m.sub \cup {row} /\ n.rev = With(m.rev, row, {})
      /\ n.dirs = With(m.dirs, Last(row), row)
      /\ n.open = m.open /\ n.size = m.size /\ n.shown = m.shown /\ n.reversed = m.reversed
      /\ n.column = m.column
  BY DEF ModelTrue, Fields, LoadSubdirectory
<1>2. ToSet(m.lists[row]) \subseteq {Dummy}
  BY DEF ModelTrue
<1>3. /\ DOMAIN n.rev = n.sub \cup {Top}
      /\ \A r \in DOMAIN n.rev : n.rev[r] = ToSet(n.lists[r]) \ {Dummy}
      /\ \A r \in DOMAIN n.lists \ DOMAIN n.rev : ToSet(n.lists[r]) \subseteq {Dummy}
  BY <1>1, <1>2 DEF ModelTrue, With
<1>4. \A d \in DOMAIN n.dirs : n.dirs[d] \in n.sub /\ Last(n.dirs[d]) = d
  BY <1>1 DEF ModelTrue, With
<1> QED  BY <1>1, <1>3, <1>4 DEF ModelTrue

LEMMA SubdirectoryLeft ==
  ASSUME NEW m, ModelTrue(m), NEW row, NEW n, n = UnloadSubdirectory(m, row)
  PROVE  /\ ModelTrue(n) /\ n.lists = m.lists /\ n.sub = m.sub /\ n.rev = m.rev
         /\ n.dirs = Without(m.dirs, {Last(row)}) /\ n.open = m.open
         /\ n.size = m.size /\ n.column = m.column /\ n.reversed = m.reversed
<1>1. /\ Fields(n) /\ n.lists = m.lists /\ n.sub = m.sub /\ n.rev = m.rev
      /\ n.dirs = Without(m.dirs, {Last(row)})
      /\ n.open = m.open /\ n.size = m.size /\ n.shown = m.shown /\ n.reversed = m.reversed
      /\ n.column = m.column
  BY DEF ModelTrue, Fields, UnloadSubdirectory
<1>2. \A d \in DOMAIN n.dirs : n.dirs[d] \in n.sub /\ Last(n.dirs[d]) = d
  <2>1. \A d \in DOMAIN m.dirs : m.dirs[d] \in m.sub /\ Last(m.dirs[d]) = d
    BY DEF ModelTrue
  <2>2. \A d \in DOMAIN n.dirs : d \in DOMAIN m.dirs /\ n.dirs[d] = m.dirs[d]
    BY <1>1 DEF Without
  <2> QED  BY <1>1, <2>1, <2>2
<1>3. /\ Tree(n.lists) /\ n.shown = n.lists
      /\ \A r \in DOMAIN n.lists :
            Dummy \in ToSet(n.lists[r]) => r # Top /\ n.lists[r] = <<Dummy>>
      /\ n.sub \subseteq DOMAIN n.lists \ {Top}
  BY <1>1 DEF ModelTrue
<1>4. /\ DOMAIN n.rev = n.sub \cup {Top}
      /\ \A r \in DOMAIN n.rev : n.rev[r] = ToSet(n.lists[r]) \ {Dummy}
      /\ \A r \in DOMAIN n.lists \ DOMAIN n.rev : ToSet(n.lists[r]) \subseteq {Dummy}
  BY <1>1 DEF ModelTrue
<1>5. /\ n.open \subseteq DOMAIN n.lists \ {Top}
      /\ \A r \in n.open : Front(r) = Top \/ Front(r) \in n.open
      /\ n.size \in [Files -> Int] /\ n.reversed \in BOOLEAN
  BY <1>1 DEF ModelTrue
<1>6. ModelTrue(n)
  BY <1>1, <1>2, <1>3, <1>4, <1>5 DEF ModelTrue
<1> QED  BY <1>1, <1>6

LEMMA SubdirectoryUnloaded ==
  ASSUME NEW m, ModelTrue(m), NEW row \in m.sub, m.rev[row] = {}, Last(row) \notin DOMAIN m.dirs,
         NEW n, n = Unloaded(m, row)
  PROVE  /\ ModelTrue(n) /\ n.lists = m.lists /\ n.sub = m.sub \ {row}
         /\ n.dirs = m.dirs /\ n.open = m.open
         /\ n.size = m.size /\ n.column = m.column /\ n.reversed = m.reversed
<1>1. /\ Fields(n) /\ n.lists = m.lists /\ n.sub = m.sub \ {row} /\ n.rev = Without(m.rev, {row})
      /\ n.dirs = m.dirs
      /\ n.open = m.open /\ n.size = m.size /\ n.shown = m.shown /\ n.reversed = m.reversed
      /\ n.column = m.column
  BY DEF ModelTrue, Fields, Unloaded
<1>2. row \in DOMAIN m.rev /\ row # Top /\ row \in DOMAIN m.lists
  BY DEF ModelTrue
<1>3. ToSet(m.lists[row]) \subseteq {Dummy}
  BY <1>2 DEF ModelTrue
<1>4. /\ DOMAIN n.rev = n.sub \cup {Top}
      /\ \A r \in DOMAIN n.rev : n.rev[r] = ToSet(n.lists[r]) \ {Dummy}
      /\ \A r \in DOMAIN n.lists \ DOMAIN n.rev : ToSet(n.lists[r]) \subseteq {Dummy}
  BY <1>1, <1>2, <1>3 DEF ModelTrue, Without
<1>5. \A d \in DOMAIN n.dirs : n.dirs[d] \in n.sub /\ Last(n.dirs[d]) = d
  BY <1>1 DEF ModelTrue
<1>6. /\ Tree(n.lists) /\ n.shown = n.lists /\ n.sub \subseteq DOMAIN n.lists \ {Top}
      /\ \A r \in DOMAIN n.lists : Dummy \in ToSet(n.lists[r]) => r # Top /\ n.lists[r] = <<Dummy>>
      /\ n.open \subseteq DOMAIN n.lists \ {Top}
      /\ \A r \in n.open : Front(r) = Top \/ Front(r) \in n.open
      /\ n.size \in [Files -> Int] /\ n.reversed \in BOOLEAN
  BY <1>1 DEF ModelTrue
<1> QED  BY <1>1, <1>4, <1>5, <1>6 DEF ModelTrue

===============================================================================
