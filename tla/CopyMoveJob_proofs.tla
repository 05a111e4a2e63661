-------------------------- MODULE CopyMoveJob_proofs --------------------------
(***************************************************************************)
(* Proofs about CopyMoveJob, for any files, names, jobs and answers.       *)
(***************************************************************************)
EXTENDS CopyMoveJob, SequenceTheorems, TLAPS

-----------------------------------------------------------------------------
(* Paths *)

LEMMA PrefixMeans ==
  ASSUME NEW p \in Path, NEW q \in Path
  PROVE  IsPrefix(p, q) <=> Len(p) <= Len(q) /\ \A i \in 1 .. Len(p) : p[i] = q[i]
<1>1. CASE Len(p) <= Len(q)
  <2>1. /\ SubSeq(p, 1, Len(p)) \in Seq(Name) /\ Len(SubSeq(p, 1, Len(p))) = Len(p)
        /\ SubSeq(q, 1, Len(p)) \in Seq(Name) /\ Len(SubSeq(q, 1, Len(p))) = Len(p)
    BY <1>1 DEF Path
  <2>2. \A i \in 1 .. Len(p) : SubSeq(p, 1, Len(p))[i] = p[i] /\ SubSeq(q, 1, Len(p))[i] = q[i]
    BY <1>1 DEF Path
  <2> QED  BY <1>1, <2>1, <2>2 DEF IsPrefix, Path
<1> QED  BY <1>1 DEF IsPrefix, Path

LEMMA PrefixSelf == \A p \in Path : IsPrefix(p, p)
  BY PrefixMeans DEF Path

LEMMA PrefixTrans ==
  ASSUME NEW p \in Path, NEW q \in Path, NEW w \in Path, IsPrefix(p, q), IsPrefix(q, w)
  PROVE  IsPrefix(p, w)
  BY PrefixMeans DEF Path

LEMMA PrefixLen ==
  ASSUME NEW p \in Path, NEW q \in Path, IsPrefix(p, q)
  PROVE  Len(p) <= Len(q) /\ (Len(p) = Len(q) => p = q)
  BY PrefixMeans DEF Path

\* Of two folders that p is in, the one with the shorter path has the other in it.
LEMMA PrefixesNest ==
  ASSUME NEW p \in Path, NEW q \in Path, NEW w \in Path, IsPrefix(p, w), IsPrefix(q, w),
         Len(p) <= Len(q)
  PROVE  IsPrefix(p, q)
  BY PrefixMeans DEF Path

LEMMA PrefixConcat ==
  ASSUME NEW p \in Path, NEW q \in Path
  PROVE  p \o q \in Path /\ Len(p \o q) = Len(p) + Len(q) /\ IsPrefix(p, p \o q)
<1>1. p \o q \in Path /\ Len(p \o q) = Len(p) + Len(q)
  BY DEF Path
<1>2. \A i \in 1 .. Len(p) : (p \o q)[i] = p[i]
  BY DEF Path
<1> DEFINE r == p \o q
<1> HIDE DEF r
<1>3. r \in Path /\ Len(p) <= Len(r) /\ \A i \in 1 .. Len(p) : p[i] = r[i]
  BY <1>1, <1>2 DEF r, Path
<1>4. IsPrefix(p, r)
  BY <1>3, PrefixMeans
<1> QED  BY <1>1, <1>4 DEF r

LEMMA PrefixAppend ==
  ASSUME NEW p \in Path, NEW n \in Name
  PROVE  /\ Append(p, n) \in Path /\ Len(Append(p, n)) = Len(p) + 1
         /\ IsPrefix(p, Append(p, n)) /\ Last(Append(p, n)) = n
<1>1. Append(p, n) \in Path /\ Len(Append(p, n)) = Len(p) + 1
  BY DEF Path
<1>2. Last(Append(p, n)) = n
  BY <1>1 DEF Path, Last
<1>3. \A i \in 1 .. Len(p) : Append(p, n)[i] = p[i]
  BY DEF Path
<1> DEFINE r == Append(p, n)
<1> HIDE DEF r
<1>4. r \in Path /\ Len(p) <= Len(r) /\ \A i \in 1 .. Len(p) : p[i] = r[i]
  BY <1>1, <1>3 DEF r, Path
<1>5. IsPrefix(p, r)
  BY <1>4, PrefixMeans
<1> QED  BY <1>1, <1>2, <1>5 DEF r

LEMMA AboveMeans ==
  ASSUME NEW p \in Path
  PROVE  \A q : q \in Above(p) <=> q \in Path /\ q # <<>> /\ Len(q) < Len(p) /\ IsPrefix(q, p)
<1>1. ASSUME NEW k \in 1 .. Len(p) - 1
      PROVE  /\ SubSeq(p, 1, k) \in Path /\ Len(SubSeq(p, 1, k)) = k
             /\ \A i \in 1 .. k : SubSeq(p, 1, k)[i] = p[i]
  BY DEF Path
<1>2. ASSUME NEW q \in Above(p)
      PROVE  q \in Path /\ q # <<>> /\ Len(q) < Len(p) /\ IsPrefix(q, p)
  <2>1. PICK k \in 1 .. Len(p) - 1 : q = SubSeq(p, 1, k)
    BY DEF Above
  <2>2. q \in Path /\ Len(q) = k /\ \A i \in 1 .. k : q[i] = p[i]
    BY <1>1, <2>1
  <2> QED  BY <2>2, PrefixMeans DEF Path
<1>3. ASSUME NEW q \in Path, q # <<>>, Len(q) < Len(p), IsPrefix(q, p)
      PROVE  q \in Above(p)
  <2>1. Len(q) \in 1 .. Len(p) - 1
    BY <1>3 DEF Path
  <2>2. \A i \in 1 .. Len(q) : q[i] = SubSeq(p, 1, Len(q))[i]
    BY <1>1, <1>3, <2>1, PrefixMeans
  <2>3. q = SubSeq(p, 1, Len(q))
    BY <1>1, <2>1, <2>2 DEF Path
  <2> QED  BY <2>1, <2>3 DEF Above
<1> QED  BY <1>2, <1>3

-----------------------------------------------------------------------------
(* The files to be copied or moved *)

LEMMA WayTyped == \A f \in File : Way[f] \in Path /\ Way[f] # <<>> /\ Len(Way[f]) \in Nat
  BY FileAssumption DEF Path

LEMMA UnderSelf ==
  ASSUME NEW f \in File
  PROVE  /\ f \in Under(f) /\ Under(f) \subseteq File
         /\ \A g \in Under(f) : Under(g) \subseteq Under(f)
<1>1. f \in Under(f) /\ Under(f) \subseteq File
  BY WayTyped, PrefixSelf DEF Under
<1>2. ASSUME NEW g \in Under(f), NEW h \in Under(g) PROVE h \in Under(f)
  BY <1>1, WayTyped, PrefixTrans DEF Under
<1> QED  BY <1>1, <1>2

\* What is between a folder and a file in it is a folder.
LEMMA FoldersBetween ==
  ASSUME NEW f \in File, NEW g \in Under(f), NEW p \in Path,
         IsPrefix(Way[f], p), IsPrefix(p, Way[g]), p # Way[g]
  PROVE  \E d \in Folder : Way[d] = p /\ d \in Under(f) /\ g \in Under(d)
<1>1. g \in File /\ IsPrefix(Way[f], Way[g])
  BY DEF Under
<1>2. p \in Above(Way[g])
  <2>1. Len(p) < Len(Way[g])
    BY <1>1, PrefixLen, WayTyped DEF Path
  <2>2. p # <<>>
    BY WayTyped, PrefixLen DEF Path
  <2> QED  BY <1>1, <2>1, <2>2, AboveMeans, WayTyped
<1>3. PICK d \in Folder : Way[d] = p
  BY <1>1, <1>2, FileAssumption
<1> QED  BY <1>1, <1>3, FileAssumption DEF Under

LEMMA OnlyFoldersHold ==
  ASSUME NEW f \in File, NEW g \in Under(f), g # f
  PROVE  f \in Folder /\ Len(Way[f]) < Len(Way[g])
<1>1. g \in File /\ IsPrefix(Way[f], Way[g]) /\ Way[f] # Way[g]
  BY FileAssumption DEF Under
<1>2. PICK d \in Folder : Way[d] = Way[f]
  BY <1>1, FoldersBetween, PrefixSelf, WayTyped
<1>3. Len(Way[f]) < Len(Way[g])
  BY <1>1, WayTyped, PrefixLen
<1> QED  BY <1>2, <1>3, FileAssumption

LEMMA OneWay ==
  ASSUME NEW f \in File, NEW g \in File, f \in Under(g), g \in Under(f)
  PROVE  f = g
<1>1. f # g => Len(Way[f]) < Len(Way[g]) /\ Len(Way[g]) < Len(Way[f])
  BY OnlyFoldersHold
<1> QED  BY <1>1, WayTyped

\* What is in a folder is one of its children, or in one.
LEMMA KidBetween ==
  ASSUME NEW f \in File, NEW g \in Under(f), g # f
  PROVE  \E h \in Kids(f) : g \in Under(h)
<1>1. g \in File /\ IsPrefix(Way[f], Way[g]) /\ Len(Way[f]) < Len(Way[g])
  BY OnlyFoldersHold DEF Under
<1>2. CASE Len(Way[g]) = Len(Way[f]) + 1
  BY <1>1, <1>2, UnderSelf DEF Kids
<1>3. CASE Len(Way[g]) # Len(Way[f]) + 1
  <2> DEFINE p == SubSeq(Way[g], 1, Len(Way[f]) + 1)
  <2>1. /\ p \in Path /\ Len(p) = Len(Way[f]) + 1 /\ Len(p) < Len(Way[g])
        /\ \A i \in 1 .. Len(Way[f]) + 1 : p[i] = Way[g][i]
    BY <1>1, <1>3, WayTyped DEF Path
  <2> HIDE DEF p
  <2>2. IsPrefix(p, Way[g])
    BY <1>1, <2>1, WayTyped, PrefixMeans
  <2>3. IsPrefix(Way[f], p)
    BY <1>1, <2>1, <2>2, WayTyped, PrefixesNest
  <2>4. PICK d \in Folder : Way[d] = p /\ d \in Under(f) /\ g \in Under(d)
    BY <1>1, <2>1, <2>2, <2>3, FoldersBetween, WayTyped
  <2> QED  BY <2>1, <2>4 DEF Kids
<1> QED  BY <1>2, <1>3

\* Two files that have something in common are one in the other.
LEMMA CommonUnder ==
  ASSUME NEW f \in File, NEW g \in File, NEW h \in Under(f), h \in Under(g)
  PROVE  f \in Under(g) \/ g \in Under(f)
  BY PrefixesNest, WayTyped DEF Under

LEMMA KidsApart ==
  ASSUME NEW d \in File, NEW g \in Kids(d)
  PROVE  /\ g \in File /\ g \in Under(d) /\ g # d /\ d \notin Under(g)
         /\ \A h \in Kids(d) : h # g => h \notin Under(g)
<1>1. g \in File /\ g \in Under(d) /\ Len(Way[g]) = Len(Way[d]) + 1
  BY DEF Kids, Under
<1>2. d \notin Under(g)
  BY <1>1, PrefixLen, WayTyped DEF Under
<1>3. ASSUME NEW h \in Kids(d), h # g PROVE h \notin Under(g)
  BY <1>1, <1>3, OnlyFoldersHold, WayTyped DEF Kids
<1> QED  BY <1>1, <1>2, <1>3, WayTyped

-----------------------------------------------------------------------------
(* The places of the files of a folder *)

LEMMA PathInIs ==
  ASSUME NEW f \in File, NEW g \in Under(f)
  PROVE  /\ PathIn(f, g) \in Path /\ Len(PathIn(f, g)) = Len(Way[g]) - Len(Way[f])
         /\ \A i \in 1 .. Len(PathIn(f, g)) : PathIn(f, g)[i] = Way[g][Len(Way[f]) + i]
         /\ Len(Way[f]) <= Len(Way[g]) /\ g \in File
<1>1. g \in File /\ Len(Way[f]) <= Len(Way[g])
  BY PrefixLen, WayTyped DEF Under
<1> DEFINE w == Way[g]  n == Len(Way[f])
<1>2. w \in Seq(Name) /\ n \in Nat /\ n <= Len(w)
  BY <1>1, WayTyped DEF Path
<1> HIDE DEF w, n
<1>3. /\ SubSeq(w, n + 1, Len(w)) \in Seq(Name) /\ Len(SubSeq(w, n + 1, Len(w))) = Len(w) - n
      /\ \A i \in 1 .. Len(w) - n : SubSeq(w, n + 1, Len(w))[i] = w[n + i]
  BY <1>2
<1> QED  BY <1>1, <1>3 DEF PathIn, w, n, Path

\* Where g comes to be when f is put at p.
Place(f, p, g) == p \o PathIn(f, g)

LEMMA PlaceIs ==
  ASSUME NEW f \in File, NEW g \in Under(f), NEW p \in Path
  PROVE  /\ Place(f, p, g) \in Path /\ IsPrefix(p, Place(f, p, g))
         /\ Len(Place(f, p, g)) = Len(p) + Len(Way[g]) - Len(Way[f])
         /\ \A i \in 1 .. Len(Way[g]) - Len(Way[f]) :
              Place(f, p, g)[Len(p) + i] = Way[g][Len(Way[f]) + i]
<1> DEFINE r == PathIn(f, g)
<1>1. r \in Path /\ Len(r) = Len(Way[g]) - Len(Way[f]) /\ Len(Way[g]) \in Nat
      /\ Len(Way[f]) \in Nat /\ \A i \in 1 .. Len(r) : r[i] = Way[g][Len(Way[f]) + i]
  BY PathInIs, WayTyped
<1> HIDE DEF r
<1>2. p \o r \in Path /\ Len(p \o r) = Len(p) + Len(r) /\ IsPrefix(p, p \o r)
  BY <1>1, PrefixConcat
<1>3. \A i \in 1 .. Len(r) : (p \o r)[Len(p) + i] = r[i]
  BY <1>1 DEF Path
<1>4. Len(p) \in Nat
  BY DEF Path
<1> QED  BY <1>1, <1>2, <1>3, <1>4 DEF Place, r

LEMMA PlaceSelf ==
  ASSUME NEW f \in File, NEW p \in Path
  PROVE  Place(f, p, f) = p
<1>1. PathIn(f, f) \in Seq(Name) /\ Len(PathIn(f, f)) = 0
  BY PathInIs, UnderSelf, WayTyped DEF Path
<1>2. PathIn(f, f) = <<>>
  BY <1>1
<1> QED  BY <1>2 DEF Place, Path

LEMMA PlacesDiffer ==
  ASSUME NEW f \in File, NEW g \in Under(f), NEW h \in Under(f), NEW p \in Path,
         Place(f, p, g) = Place(f, p, h)
  PROVE  g = h
<1>1. g \in File /\ h \in File /\ Len(p) \in Nat
  BY DEF Under, Path
<1> DEFINE a == Len(Way[g])  b == Len(Way[h])  c == Len(Way[f])  l == Len(p)
<1>n. a \in Nat /\ b \in Nat /\ c \in Nat /\ l \in Nat
  BY <1>1, WayTyped
<1>2. a = b
  <2>1. Len(Place(f, p, g)) = l + a - c
    BY PlaceIs
  <2>2. Len(Place(f, p, h)) = l + b - c
    BY PlaceIs
  <2> HIDE DEF a, b, c, l
  <2> QED  BY <1>n, <2>1, <2>2
<1>3. \A i \in 1 .. Len(Way[f]) : Way[g][i] = Way[f][i] /\ Way[h][i] = Way[f][i]
  BY <1>1, PrefixMeans, WayTyped DEF Under
<1>4. ASSUME NEW i \in 1 .. Len(Way[g]) PROVE Way[g][i] = Way[h][i]
  <2>1. CASE i <= Len(Way[f])
    BY <1>3, <2>1, WayTyped
  <2>2. CASE i > Len(Way[f])
    <3> DEFINE k == i - c
    <3>1. k \in 1 .. a - c /\ c + k = i
      BY <1>n, <2>2
    <3> HIDE DEF k
    <3>2. Place(f, p, g)[l + k] = Way[g][c + k]
      BY <3>1, PlaceIs
    <3>3. k \in 1 .. b - c
      BY <1>2, <3>1
    <3>4. Place(f, p, h)[l + k] = Way[h][c + k]
      BY <3>3, PlaceIs
    <3> QED  BY <3>1, <3>2, <3>4
  <2> QED  BY <1>1, <2>1, <2>2, WayTyped
<1>5. Way[g] = Way[h]
  BY <1>1, <1>2, <1>4, WayTyped DEF Path
<1> QED  BY <1>1, <1>5, FileAssumption

LEMMA PlacePrefix ==
  ASSUME NEW f \in File, NEW d \in Under(f), NEW g \in Under(d), NEW p \in Path
  PROVE  IsPrefix(Place(f, p, d), Place(f, p, g))
<1>1. d \in File /\ g \in Under(f) /\ g \in File
  BY UnderSelf DEF Under
<1> DEFINE a == Len(Way[g])  b == Len(Way[d])  c == Len(Way[f])  l == Len(p)
           D == Place(f, p, d)  G == Place(f, p, g)
<1>2. a \in Nat /\ b \in Nat /\ c \in Nat /\ l \in Nat /\ b <= a /\ c <= b
  BY <1>1, WayTyped, PrefixLen DEF Under, Path
<1>3. /\ D \in Path /\ IsPrefix(p, D) /\ Len(D) = l + b - c
      /\ \A i \in 1 .. b - c : D[l + i] = Way[d][c + i]
  BY PlaceIs
<1>4. /\ G \in Path /\ IsPrefix(p, G) /\ Len(G) = l + a - c
      /\ \A i \in 1 .. a - c : G[l + i] = Way[g][c + i]
  BY <1>1, PlaceIs
<1>5. \A i \in 1 .. b : Way[d][i] = Way[g][i]
  BY <1>1, PrefixMeans, WayTyped DEF Under
<1>6. \A i \in 1 .. l : D[i] = p[i] /\ G[i] = p[i]
  BY <1>3, <1>4, PrefixMeans
<1> HIDE DEF a, b, c, l, D, G
<1>7. ASSUME NEW i \in 1 .. Len(D) PROVE D[i] = G[i]
  <2>1. CASE i <= l
    BY <1>2, <1>3, <1>6, <2>1
  <2>2. CASE i > l
    <3> DEFINE k == i - l
    <3>1. k \in 1 .. b - c /\ k \in 1 .. a - c /\ l + k = i /\ c + k \in 1 .. b
      BY <1>2, <1>3, <2>2
    <3> HIDE DEF k
    <3> QED  BY <1>3, <1>4, <1>5, <3>1
  <2> QED  BY <1>2, <1>3, <2>1, <2>2
<1>8. Len(D) <= Len(G)
  BY <1>2, <1>3, <1>4
<1>9. IsPrefix(D, G)
  BY <1>3, <1>4, <1>7, <1>8, PrefixMeans
<1> QED  BY <1>9 DEF D, G

\* Between p and the place of g are the places of the folders between f and g.
LEMMA PlacesBetween ==
  ASSUME NEW f \in File, NEW g \in Under(f), NEW p \in Path, NEW v \in Path,
         IsPrefix(p, v), IsPrefix(v, Place(f, p, g)), v # Place(f, p, g)
  PROVE  \E d \in Folder : d \in Under(f) /\ g \in Under(d) /\ v = Place(f, p, d)
<1> DEFINE a == Len(Way[g])  c == Len(Way[f])  l == Len(p)  m == Len(v)
           G == Place(f, p, g)  w == Way[g]
           q == SubSeq(w, 1, c + m - l)
<1>1. g \in File /\ IsPrefix(Way[f], Way[g])
  BY DEF Under
<1>2. G \in Path /\ Len(G) = l + a - c
  BY PlaceIs
<1>3. a \in Nat /\ c \in Nat /\ l \in Nat /\ m \in Nat /\ c <= a /\ c > 0
  BY <1>1, WayTyped, PrefixLen DEF Path
<1>4. l <= m /\ m < Len(G)
  <2>1. l <= m /\ m <= Len(G) /\ (m = Len(G) => v = G)
    BY <1>2, PrefixLen
  <2> HIDE DEF l, m, G, a, c
  <2>2. l + a - c \in Int
    BY <1>3
  <2> QED  BY <1>2, <1>3, <2>1, <2>2 DEF G
<1>5. w \in Seq(Name) /\ Len(w) = a
  BY <1>1, WayTyped DEF Path
<1> HIDE DEF a, c, l, m, G, w
<1>6. c + m - l \in 1 .. a /\ c + m - l < a /\ c <= c + m - l
  BY <1>2, <1>3, <1>4
<1>7. q \in Path /\ Len(q) = c + m - l /\ \A i \in 1 .. c + m - l : q[i] = w[i]
  BY <1>5, <1>6 DEF Path
<1> HIDE DEF q
<1>8. IsPrefix(q, w)
  BY <1>5, <1>6, <1>7, PrefixMeans DEF Path
<1>9. IsPrefix(Way[f], q)
  BY <1>1, <1>5, <1>6, <1>7, <1>8, PrefixesNest, WayTyped DEF Path, w, c
<1>10. PICK d \in Folder : Way[d] = q /\ d \in Under(f) /\ g \in Under(d)
  <2>1. q # w
    BY <1>5, <1>6, <1>7
  <2> QED  BY <1>7, <1>8, <1>9, <2>1, FoldersBetween DEF w
<1>11. Place(f, p, d) \in Path /\ Len(Place(f, p, d)) = m
  <2>1. Place(f, p, d) \in Path /\ Len(Place(f, p, d)) = l + Len(q) - c
    BY <1>10, PlaceIs DEF l, c
  <2> QED  BY <1>3, <1>6, <1>7, <2>1
<1>12. IsPrefix(Place(f, p, d), G)
  BY <1>10, PlacePrefix DEF G
<1>13. v = Place(f, p, d)
  BY <1>2, <1>3, <1>11, <1>12, PrefixesNest, PrefixLen DEF G, m
<1> QED  BY <1>10, <1>13

-----------------------------------------------------------------------------
(* Types *)

\* The call of copy_move_directory at work is replaced, or leaves.
LEMMA HeadReplaced ==
  ASSUME NEW S, NEW fs \in Seq(S), fs # <<>>, NEW c \in S
  PROVE  /\ <<c>> \o Tail(fs) \in Seq(S) /\ Len(<<c>> \o Tail(fs)) = Len(fs)
         /\ \A k \in 1 .. Len(fs) : (<<c>> \o Tail(fs))[k] = IF k = 1 THEN c ELSE fs[k]
         /\ Len(fs) \in Nat /\ Len(fs) > 0 /\ Head(fs) = fs[1] /\ fs[1] \in S
         /\ \A k \in 1 .. Len(fs) : fs[k] \in S
<1>1. Len(fs) \in Nat /\ Len(fs) > 0 /\ Head(fs) = fs[1] /\ \A k \in 1 .. Len(fs) : fs[k] \in S
  OBVIOUS
<1> DEFINE t == Tail(fs)
<1>2. t \in Seq(S) /\ Len(t) = Len(fs) - 1 /\ \A k \in 1 .. Len(fs) - 1 : t[k] = fs[k + 1]
  BY <1>1
<1> HIDE DEF t
<1>3. <<c>> \o t \in Seq(S) /\ Len(<<c>> \o t) = Len(fs)
  BY <1>1, <1>2
<1>4. \A k \in 1 .. Len(fs) : (<<c>> \o t)[k] = IF k = 1 THEN c ELSE t[k - 1]
  BY <1>1, <1>2
<1>5. \A k \in 1 .. Len(fs) : k # 1 => t[k - 1] = fs[k]
  BY <1>1, <1>2
<1> QED  BY <1>1, <1>3, <1>4, <1>5 DEF t

LEMMA HeadAdded ==
  ASSUME NEW S, NEW fs \in Seq(S), NEW c \in S
  PROVE  /\ <<c>> \o fs \in Seq(S) /\ Len(<<c>> \o fs) = Len(fs) + 1
         /\ \A k \in 1 .. Len(fs) + 1 : (<<c>> \o fs)[k] = IF k = 1 THEN c ELSE fs[k - 1]
  OBVIOUS

LEMMA TailIs ==
  ASSUME NEW S, NEW fs \in Seq(S), fs # <<>>
  PROVE  /\ Tail(fs) \in Seq(S) /\ Len(Tail(fs)) = Len(fs) - 1
         /\ \A k \in 1 .. Len(fs) - 1 : Tail(fs)[k] = fs[k + 1]
         /\ Len(fs) \in Nat /\ Len(fs) > 0 /\ Head(fs) = fs[1] /\ fs[1] \in S
  OBVIOUS

\* What a step that only marks the head of the frames leaves alone.
SameLevel(c, l) ==
  /\ c.dir = l.dir /\ c.dest = l.dest /\ c.stage = l.stage /\ c.left = l.left
  /\ c.broken = l.broken /\ c.created = l.created

LEMMA MarkTyped ==
  ASSUME NEW fs \in Seq(Level)
  PROVE  /\ MarkIn(fs) \in Seq(Level) /\ Len(MarkIn(fs)) = Len(fs)
         /\ \A k \in 1 .. Len(fs) : SameLevel(MarkIn(fs)[k], fs[k]) /\ MarkIn(fs)[k].fs = fs[k].fs
<1>1. CASE fs = <<>>
  BY <1>1 DEF MarkIn
<1>2. CASE fs # <<>>
  <2>1. fs[1] \in Level /\ Head(fs) = fs[1]
    BY <1>2
  <2> DEFINE c == [Head(fs) EXCEPT !.skip = TRUE]
  <2>2. c \in Level /\ SameLevel(c, fs[1]) /\ c.fs = fs[1].fs
    BY <2>1 DEF Level, SameLevel
  <2>3. \A k \in 1 .. Len(fs) : SameLevel(fs[k], fs[k])
    BY DEF SameLevel
  <2>4. MarkIn(fs) = <<c>> \o Tail(fs)
    BY <1>2 DEF MarkIn
  <2> HIDE DEF c
  <2> QED  BY <1>2, <2>2, <2>3, <2>4, HeadReplaced
<1> QED  BY <1>1, <1>2

\* A folder whose file system is known now.
LEMMA LearnTyped ==
  ASSUME TypeOK, LearnFs(frames)
  PROVE  /\ frames' \in Seq(Level) /\ topFs' \in BOOLEAN /\ Len(frames') = Len(frames)
         /\ \A k \in 1 .. Len(frames) : SameLevel(frames'[k], frames[k])
         /\ topFs => topFs'
         /\ frames = <<>> => topFs'
         /\ frames # <<>> => frames'[1].fs
<1> USE DEF TypeOK
<1>1. CASE frames = <<>>
  BY <1>1 DEF LearnFs
<1>2. CASE frames # <<>>
  <2>1. frames[1] \in Level /\ Head(frames) = frames[1]
    BY <1>2
  <2> DEFINE c == [Head(frames) EXCEPT !.fs = TRUE]
  <2>2. c \in Level /\ c.fs
    BY <2>1 DEF Level
  <2>3. SameLevel(c, frames[1])
    BY <2>1 DEF Level, SameLevel
  <2>4. \A k \in 1 .. Len(frames) : SameLevel(frames[k], frames[k])
    BY DEF SameLevel
  <2>5. frames' = <<c>> \o Tail(frames) /\ topFs' = topFs
    BY <1>2 DEF LearnFs
  <2> HIDE DEF c
  <2> QED  BY <1>2, <2>2, <2>3, <2>4, <2>5, HeadReplaced
<1> QED  BY <1>1, <1>2

LEMMA NameTyped == \A f \in File : NameOf(f) \in Name
  BY WayTyped DEF NameOf, Last, Path

LEMMA FoldersTyped ==
  ASSUME TypeOK
  PROVE  Folders \in Path /\ Len(Folders) \in Nat /\ FsKnown \in BOOLEAN
<1>1. frames # <<>> => frames[1] \in Level /\ Head(frames) = frames[1]
  BY DEF TypeOK
<1>2. Folders \in Path /\ FsKnown \in BOOLEAN
  BY <1>1 DEF Folders, FsKnown, Level, Path, TypeOK
<1> QED  BY <1>2 DEF Path

LEMMA TargetTyped ==
  ASSUME TypeOK, NEW f \in File, NEW nth \in Nat, NEW fs \in BOOLEAN,
         Unique => nth \in DOMAIN CopyName[NameOf(f)]
  PROVE  /\ Target(f, nth, fs) \in Path /\ Target(f, nth, fs) # <<>>
         /\ \E n \in Name : Target(f, nth, fs) = Append(Folders, n)
         /\ ~Unique => Target(f, nth, fs) =
                         Append(Folders, IF fs THEN Safe[NameOf(f)] ELSE NameOf(f))
<1>1. NameOf(f) \in Name
  BY NameTyped
<1>2. ASSUME Unique PROVE CopyName[NameOf(f)][nth] \in Name
  BY <1>1, <1>2, NameAssumption DEF Path
<1>3. \E n \in Name : Target(f, nth, fs) = Append(Folders, n)
  BY <1>1, <1>2, NameAssumption DEF Target
<1>4. ~Unique => Target(f, nth, fs) = Append(Folders, IF fs THEN Safe[NameOf(f)] ELSE NameOf(f))
  BY DEF Target
<1>5. \A n \in Name : Append(Folders, n) \in Path /\ Append(Folders, n) # <<>>
  BY FoldersTyped DEF Path
<1> QED  BY <1>3, <1>4, <1>5

\* The spelling that create_dest_dir tries.
LEMMA SafePlaced ==
  ASSUME TypeOK, NEW f \in File
  PROVE  /\ Append(Folders, Safe[NameOf(f)]) \in Path
         /\ \E n \in Name : Append(Folders, Safe[NameOf(f)]) = Append(Folders, n)
<1>1. Safe[NameOf(f)] \in Name
  BY NameTyped, NameAssumption
<1> QED  BY <1>1, FoldersTyped DEF Path

LEMMA FirstNamed ==
  ASSUME NEW f \in File
  PROVE  1 \in DOMAIN CopyName[NameOf(f)]
  BY NameTyped, NameAssumption DEF Path

-----------------------------------------------------------------------------
(* What is put into the destination *)

Places(f, p, files) == {Place(f, p, g) : g \in files}

LEMMA BelowMeans == \A p : \A q : q \in Below(p) <=> q \in DOMAIN dest /\ IsPrefix(p, q)
  BY DEF Below

LEMMA PutIs ==
  ASSUME NEW f \in File, NEW p \in Path, NEW files, files \subseteq Under(f), Put(f, p, files)
  PROVE  /\ DOMAIN dest' = (DOMAIN dest \ Below(p)) \cup Places(f, p, files)
         /\ dest' = [q \in DOMAIN dest' |-> dest'[q]]
         /\ \A g \in files : dest'[Place(f, p, g)] = g
         /\ \A q \in DOMAIN dest \ Below(p) : dest'[q] = dest[q]
<1> DEFINE at == [q \in Places(f, p, files) |-> CHOOSE g \in files : q = Place(f, p, g)]
           D == (DOMAIN dest \ Below(p)) \cup DOMAIN at
<1>1. dest' = [q \in D |-> IF q \in DOMAIN at THEN at[q] ELSE dest[q]]
  BY DEF Put, Place, Places
<1>2. DOMAIN at = Places(f, p, files)
  OBVIOUS
<1>3. ASSUME NEW g \in files PROVE Place(f, p, g) \in DOMAIN at /\ at[Place(f, p, g)] = g
  <2>1. Place(f, p, g) \in Places(f, p, files)
    BY DEF Places
  <2>2. \A h \in files : Place(f, p, g) = Place(f, p, h) => h = g
    BY PlacesDiffer
  <2>3. (CHOOSE h \in files : Place(f, p, g) = Place(f, p, h)) = g
    BY <2>2
  <2> QED  BY <2>1, <2>3
<1>4. ASSUME NEW q \in DOMAIN dest \ Below(p) PROVE q \notin DOMAIN at
  <2> SUFFICES ASSUME NEW g \in files, q = Place(f, p, g) PROVE FALSE
    BY <1>2 DEF Places
  <2> QED  BY PlaceIs, BelowMeans
<1> HIDE DEF at
<1> QED  BY <1>1, <1>2, <1>3, <1>4

LEMMA PutTyped ==
  ASSUME TypeOK, NEW f \in File, NEW p \in Path, NEW files, files \subseteq Under(f),
         Put(f, p, files)
  PROVE  /\ DOMAIN dest' \subseteq Path
         /\ dest' \in [DOMAIN dest' -> File \cup {OldFile, OldFolder}]
<1>1. /\ DOMAIN dest' = (DOMAIN dest \ Below(p)) \cup Places(f, p, files)
      /\ dest' = [q \in DOMAIN dest' |-> dest'[q]]
      /\ \A g \in files : dest'[Place(f, p, g)] = g
      /\ \A q \in DOMAIN dest \ Below(p) : dest'[q] = dest[q]
  BY PutIs
<1>2. \A g \in files : g \in File /\ Place(f, p, g) \in Path
  BY PlaceIs DEF Under
<1>3. DOMAIN dest \subseteq Path /\ \A q \in DOMAIN dest : dest[q] \in File \cup {OldFile, OldFolder}
  BY DEF TypeOK
<1>4. \A q \in DOMAIN dest' : q \in Path /\ dest'[q] \in File \cup {OldFile, OldFolder}
  BY <1>1, <1>2, <1>3 DEF Places
<1> QED  BY <1>1, <1>4

LEMMA ReportTyped ==
  ASSUME TypeOK, NEW f \in File, NEW p \in Path, NEW files, files \subseteq Under(f),
         Report(f, p, files)
  PROVE  /\ shown' \subseteq Path
         /\ shown' = (shown \ {q \in shown : IsPrefix(p, q)}) \cup Places(f, p, files)
<1>1. shown' = (shown \ {q \in shown : IsPrefix(p, q)}) \cup Places(f, p, files)
  BY DEF Report, Place, Places
<1>2. \A g \in files : Place(f, p, g) \in Path
  BY PlaceIs
<1>3. Places(f, p, files) \subseteq Path
  BY <1>2 DEF Places
<1> QED  BY <1>1, <1>3 DEF TypeOK

LEMMA GoneIs ==
  ASSUME TypeOK, NEW p, Gone(p)
  PROVE  /\ DOMAIN dest' = DOMAIN dest \ {p} /\ \A q \in DOMAIN dest' : dest'[q] = dest[q]
         /\ DOMAIN dest' \subseteq Path
         /\ dest' \in [DOMAIN dest' -> File \cup {OldFile, OldFolder}]
         /\ shown' \subseteq shown /\ \A q \in shown : q \in shown' <=> ~IsPrefix(p, q)
<1>1. dest' = [q \in DOMAIN dest \ {p} |-> dest[q]]
  BY DEF Gone
<1>2. DOMAIN dest' = DOMAIN dest \ {p} /\ \A q \in DOMAIN dest' : dest'[q] = dest[q]
  BY <1>1
<1>3. \A q \in DOMAIN dest : q \in Path /\ dest[q] \in File \cup {OldFile, OldFolder}
  BY DEF TypeOK
<1>4. DOMAIN dest' \subseteq Path /\ dest' \in [DOMAIN dest' -> File \cup {OldFile, OldFolder}]
  BY <1>1, <1>2, <1>3
<1> QED  BY <1>2, <1>4 DEF Gone

-----------------------------------------------------------------------------
(* The type invariant *)

CurType == [file : File \cup {NoFile}, dest : Path, over : BOOLEAN, handled : BOOLEAN,
            nth : Nat, stage : {"try", "drop", "make"}]
CommonType ==
  [cancelled : BOOLEAN, skipAll : BOOLEAN, skipConflicts : BOOLEAN, mergeAll : BOOLEAN,
   replaceAll : BOOLEAN, skipFiles : SUBSET File, skipReaddir : SUBSET File]
AskType == [kind : Questions, file : File \cup {NoFile}]

\* The parts of TypeOK that steps change together.
CallTyped == cur \in CurType /\ frames \in Seq(Level)
AskTyped == question \in AskType /\ common \in CommonType /\ pc \in {"query", "prepare",
              "scan", "verify", "copy", "notify", "over"}
ListTyped == job \in Jobs /\ list \in Seq(Entry) /\ fallbacks \in Seq(Entry)
DestTyped == /\ DOMAIN dest \subseteq Path
             /\ dest \in [DOMAIN dest -> File \cup {OldFile, OldFolder}]
DataTyped ==
  /\ src \subseteq File /\ DestTyped
  /\ record \subseteq File \X Path /\ debuting \subseteq Path /\ shown \subseteq Path
  /\ left \subseteq File \X Path
SaidTyped == agreed \subseteq Path /\ renamed \subseteq Path /\ told \subseteq File
             /\ merged \subseteq File
RestTyped == removing \in Seq(Path) /\ topFs \in BOOLEAN

LEMMA TypeParts ==
  TypeOK <=> CallTyped /\ AskTyped /\ ListTyped /\ DataTyped /\ SaidTyped /\ RestTyped
  BY DEF TypeOK, CallTyped, AskTyped, ListTyped, DataTyped, DestTyped, SaidTyped, RestTyped, CurType,
    CommonType, AskType

LEMMA TypePartsNext ==
  CallTyped' /\ AskTyped' /\ ListTyped' /\ DataTyped' /\ SaidTyped' /\ RestTyped' => TypeOK'
  BY DEF TypeOK, CallTyped, AskTyped, ListTyped, DataTyped, DestTyped, SaidTyped, RestTyped, CurType,
    CommonType, AskType

LEMMA DestPaths == TypeOK => DOMAIN dest \subseteq Path
  BY DEF TypeOK

LEMMA IdleTyped == Idle \in CurType
  BY DEF Idle, CurType, Path

LEMMA OutTyped == TypeOK /\ Out => CallTyped'
  BY IdleTyped, MarkTyped DEF TypeOK, Out, CallTyped

LEMMA AskIs ==
  ASSUME NEW k \in Questions, NEW f \in File \cup {NoFile}, Ask(k, f)
  PROVE  question' \in AskType /\ question'.kind = k /\ question'.file = f
  BY DEF Ask, AskType

LEMMA NoQuestionTyped == NoQuestion \in AskType
  BY DEF NoQuestion, AskType, Questions

LEMMA TroubleTyped ==
  ASSUME TypeOK, NEW k \in Errors, NEW f \in File, Trouble(k, f)
  PROVE  CallTyped' /\ question' \in AskType /\ told' \subseteq File
<1>1. CASE common.skipAll
  BY <1>1, OutTyped, TypeParts DEF Trouble, SaidTyped, AskTyped
<1>2. CASE ~common.skipAll
  <2>1. Ask(k, f) /\ UNCHANGED <<cur, frames, told>>
    BY <1>2 DEF Trouble
  <2>2. k \in Questions
    BY DEF Questions
  <2> QED  BY <2>1, <2>2, AskIs, TypeParts DEF CallTyped, SaidTyped
<1> QED  BY <1>1, <1>2

\* How the state of the thread, the dialog and the calls go together.
CurQuestions == {"failed", "conflict", "old", "target", "make"}
Control ==
  /\ cur # Idle => cur.file \in File /\ pc \in {"prepare", "copy"}
  /\ frames # <<>> => pc = "copy"
  /\ removing # <<>> => /\ cur # Idle /\ cur.stage = "try" /\ pc = "copy"
                        /\ question = NoQuestion
  /\ cur.stage # "try" => pc = "copy" /\ cur.file \in Folder
  /\ question.kind = "none" => question = NoQuestion
  /\ question.kind \in CurQuestions => cur # Idle /\ question.file = cur.file
  /\ question.kind \in {"failed", "conflict", "target"} => cur.stage = "try"
  /\ question.kind = "old" => cur.stage = "drop"
  /\ question.kind = "make" => cur.stage = "make"
  /\ question.kind = "itself" => /\ cur = Idle /\ frames = <<>> /\ pc \in {"prepare", "copy"}
                                 /\ question.file \in File
  /\ question.kind \in {"query", "space", "refused"} => pc \in {"query", "verify"}
  /\ question.kind \in {"open", "list", "source"} => cur = Idle /\ frames # <<>>
  /\ question.kind = "open" => Call.stage = "open"
  /\ question.kind = "list" => Call.stage = "list"
  /\ question.kind = "source" => Call.stage = "end"
  /\ pc \in {"query", "prepare"} => IsMove

LEMMA EntriesTyped ==
  ASSUME NEW l \in Seq(Entry)
  PROVE  /\ \A i \in DOMAIN l : l[i] \in Entry /\ l[i].file \in File /\ l[i].over \in BOOLEAN
         /\ l # <<>> => /\ 1 \in DOMAIN l /\ Head(l) = l[1] /\ Tail(l) \in Seq(Entry)
                       /\ Head(l).file \in File /\ Head(l).over \in BOOLEAN
<1>1. \A i \in DOMAIN l : l[i] \in Entry
  OBVIOUS
<1>2. l # <<>> => 1 \in DOMAIN l /\ Head(l) = l[1] /\ Tail(l) \in Seq(Entry)
  OBVIOUS
<1>3. \A i \in DOMAIN l : l[i].file \in File /\ l[i].over \in BOOLEAN
  BY <1>1 DEF Entry
<1> QED  BY <1>1, <1>2, <1>3

LEMMA CallTypes ==
  ASSUME TypeOK, frames # <<>>
  PROVE  /\ Call = frames[1] /\ Call \in Level /\ Len(frames) \in Nat /\ Len(frames) > 0
         /\ Call.dir \in Folder /\ Call.dir \in File /\ Call.dest \in Path
         /\ Call.left \subseteq File /\ Call.fs \in BOOLEAN
<1>1. Call = frames[1] /\ frames[1] \in Level /\ Len(frames) \in Nat /\ Len(frames) > 0
  BY DEF TypeOK, Call
<1> QED  BY <1>1, FileAssumption DEF Level

LEMMA LevelsTyped ==
  ASSUME NEW fs \in Seq(Level), NEW k \in DOMAIN fs
  PROVE  /\ fs[k] \in Level /\ fs[k].dest \in Path /\ fs[k].dir \in Folder /\ fs[k].dir \in File
         /\ fs[k].left \subseteq File /\ k \in Nat /\ k >= 1 /\ k <= Len(fs)
<1>1. fs[k] \in Level /\ k \in Nat /\ k >= 1 /\ k <= Len(fs)
  OBVIOUS
<1> QED  BY <1>1, FileAssumption DEF Level

LEMMA NextLists ==
  TypeOK /\ Control /\ [Next]_vars => ListTyped'
<1> SUFFICES ASSUME TypeOK, Control, [Next]_vars PROVE ListTyped'
  OBVIOUS
<1>1. ListTyped
  BY TypeParts
<1>2. CASE UNCHANGED <<job, list, fallbacks>>
  BY <1>1, <1>2 DEF ListTyped
<1>3. CASE TakeNext
  BY <1>1, <1>3 DEF ListTyped, TakeNext
<1>4. CASE ListDone
  BY <1>1, <1>4 DEF ListTyped, ListDone
<1>5. CASE PutOff
  <2>1. cur.file \in File /\ cur.over \in BOOLEAN
    BY <1>5 DEF PutOff, Trying, Control, TypeOK
  <2>2. [file |-> cur.file, over |-> cur.over] \in Entry
    BY <2>1 DEF Entry
  <2> QED  BY <1>1, <1>5, <2>2 DEF ListTyped, PutOff, PutOnList
<1>6. CASE \/ Aborted \/ Done \/ Verify \/ Scan \/ Succeed \/ Respell \/ NextName
           \/ Conflict \/ Empty \/ Recurse \/ Stop \/ Fail
  BY <1>2, <1>6 DEF Aborted, Done, Verify, Scan, Succeed, Respell, NextName, Conflict, Empty,
    Recurse, Stop, Fail, lists
<1>7. CASE \/ RemoveTarget \/ DropOld \/ MakeFolder \/ OpenDir \/ CloseDir \/ EndDir \/ LeaveDir
           \/ \E f \in File : CopyChild(f)
  BY <1>2, <1>7 DEF RemoveTarget, DropOld, MakeFolder, OpenDir, CloseDir, EndDir, LeaveDir,
    CopyChild, lists
<1>8. CASE \/ AnswerDestination \/ AnswerConflict \/ AnswerError \/ AnswerMake \/ AnswerFolder
           \/ AnswerSource \/ AnswerRename \/ Retry \/ Cancel \/ UNCHANGED vars
  BY <1>2, <1>8 DEF AnswerDestination, AnswerConflict, AnswerError, AnswerMake, AnswerFolder,
    AnswerSource, AnswerRename, Retry, Cancel, vars, lists
<1> QED  BY <1>3, <1>4, <1>5, <1>6, <1>7, <1>8 DEF Next, Thread, Answer

\* The dialogs, the answers and the phase.
LEMMA NextAsks ==
  TypeOK /\ Control /\ [Next]_vars => AskTyped'
<1> SUFFICES ASSUME TypeOK, Control, [Next]_vars PROVE AskTyped'
  OBVIOUS
<1> DEFINE Phases == {"query", "prepare", "scan", "verify", "copy", "notify", "over"}
           Files == File \cup {NoFile}
<1>1. question \in AskType /\ common \in CommonType /\ pc \in Phases /\ list \in Seq(Entry)
      /\ cur \in CurType /\ frames \in Seq(Level)
  BY TypeParts DEF AskTyped, ListTyped, CallTyped
<1>2. Abort => common' \in CommonType
  BY <1>1 DEF Abort, CommonType
<1>3. ASSUME NEW k \in Questions, NEW f \in Files, Ask(k, f) PROVE question' \in AskType
  BY <1>3, AskIs
<1>4. {"query", "space", "refused", "conflict", "make", "open", "list", "source"} \cup Errors
        \subseteq Questions
  BY DEF Questions, Errors
<1>5. CASE UNCHANGED <<pc, question, common>>
  BY <1>1, <1>5 DEF AskTyped
<1>6. CASE Aborted \/ Done \/ ListDone
  BY <1>1, <1>6 DEF Aborted, Done, ListDone, AskTyped
<1>7. CASE Verify
  <2>1. question' \in AskType
    BY <1>1, <1>3, <1>4, <1>7 DEF Verify
  <2> QED  BY <1>1, <1>7, <2>1 DEF Verify, AfterVerify, AskTyped
<1>8. CASE Scan
  <2>1. common' \in CommonType
    <3>1. ASSUME NEW s \in ScanFaults({list[i].file : i \in DOMAIN list}),
                 NEW all \in {common.skipAll, TRUE},
                 common' = [common EXCEPT !.skipFiles = s.files, !.skipReaddir = s.dirs,
                                          !.skipAll = all]
          PROVE  common' \in CommonType
      <4>1. \A i \in DOMAIN list : list[i].file \in File
        BY <1>1, EntriesTyped
      <4>2. \A f \in File : Under(f) \subseteq File
        BY DEF Under
      <4>3. s.files \subseteq File /\ s.dirs \subseteq File
        BY <4>1, <4>2, FileAssumption DEF ScanFaults
      <4> QED  BY <1>1, <3>1, <4>3 DEF CommonType
    <3> QED  BY <1>2, <1>8, <3>1 DEF Scan
  <2> QED  BY <1>1, <1>8, <2>1 DEF Scan, AskTyped
<1>9. ASSUME NEW k \in Errors, NEW f \in File, Trouble(k, f), UNCHANGED <<pc, common>>
      PROVE  AskTyped'
  BY <1>1, <1>9, TroubleTyped DEF AskTyped
<1>10. CASE TakeNext
  <2>1. Head(list).file \in File
    BY <1>1, <1>10, EntriesTyped DEF TakeNext
  <2>2. Trouble("itself", Head(list).file) \/ UNCHANGED question
    BY <1>10 DEF TakeNext, Begin
  <2> QED  BY <1>1, <1>9, <1>10, <2>1, <2>2 DEF TakeNext, Errors, AskTyped
<1>11. CASE \/ Succeed \/ Respell \/ NextName \/ PutOff \/ Empty \/ Recurse \/ Stop \/ LeaveDir
            \/ \E f \in File : CopyChild(f)
  BY <1>5, <1>11 DEF Succeed, Respell, NextName, PutOff, Empty, Recurse, Stop, LeaveDir, CopyChild
<1>12. CASE Conflict
  <2>1. Ask("conflict", cur.file) \/ UNCHANGED question
    BY <1>12 DEF Conflict
  <2> QED  BY <1>1, <1>3, <1>4, <1>12, <2>1 DEF Conflict, AskTyped, CurType
<1>13. CASE Fail \/ RemoveTarget \/ DropOld
  <2>1. cur.file \in File
    BY <1>13 DEF Fail, RemoveTarget, DropOld, Trying, Control, Idle
  <2>2. UNCHANGED <<pc, common>>
    BY <1>13 DEF Fail, RemoveTarget, DropOld
  <2>3. (\E k \in Errors : Trouble(k, cur.file)) \/ UNCHANGED question
    BY <1>13 DEF Fail, RemoveTarget, DropOld, Errors
  <2> QED  BY <1>5, <1>9, <2>1, <2>2, <2>3
<1>14. CASE MakeFolder
  <2>1. Ask("make", cur.file) \/ UNCHANGED question
    BY <1>14 DEF MakeFolder
  <2> QED  BY <1>1, <1>3, <1>4, <1>14, <2>1 DEF MakeFolder, AskTyped, CurType
<1>15. CASE OpenDir \/ CloseDir \/ EndDir
  <2>1. Call.dir \in File
    BY <1>15, CallTypes DEF OpenDir, CloseDir, EndDir, InFolder
  <2>2. UNCHANGED <<pc, common>>
    BY <1>15 DEF OpenDir, CloseDir, EndDir
  <2>3. \/ Ask("open", Call.dir) \/ Ask("list", Call.dir) \/ Ask("source", Call.dir)
        \/ UNCHANGED question
    BY <1>15 DEF OpenDir, CloseDir, EndDir
  <2> QED  BY <1>1, <1>3, <1>4, <2>1, <2>2, <2>3 DEF AskTyped
<1>16. CASE \/ AnswerDestination \/ AnswerConflict \/ AnswerError \/ AnswerMake \/ AnswerFolder
            \/ AnswerSource
  <2>1. question' = NoQuestion
    BY <1>16 DEF AnswerDestination, AnswerConflict, AnswerError, AnswerMake, AnswerFolder,
      AnswerSource
  <2>2. \/ Abort \/ UNCHANGED common
        \/ common' \in {[common EXCEPT !.skipConflicts = TRUE], [common EXCEPT !.mergeAll = TRUE],
                        [common EXCEPT !.replaceAll = TRUE], [common EXCEPT !.skipAll = TRUE]}
    BY <1>16 DEF AnswerDestination, AnswerConflict, AnswerError, AnswerMake, AnswerFolder,
      AnswerSource
  <2>3. common' \in CommonType
    BY <1>1, <1>2, <2>2 DEF CommonType
  <2>4. UNCHANGED pc \/ pc' = AfterVerify
    BY <1>16 DEF AnswerDestination, AnswerConflict, AnswerError, AnswerMake, AnswerFolder,
      AnswerSource
  <2>5. pc' \in Phases
    BY <1>1, <2>4 DEF AfterVerify
  <2> QED  BY <2>1, <2>3, <2>5, NoQuestionTyped DEF AskTyped
<1>17. CASE AnswerRename \/ Retry \/ Cancel
  <2>1. question' = NoQuestion \/ UNCHANGED question
    BY <1>17 DEF AnswerRename, Retry, Cancel
  <2>2. UNCHANGED common \/ common' = [common EXCEPT !.cancelled = TRUE]
    BY <1>17 DEF AnswerRename, Retry, Cancel
  <2>3. UNCHANGED pc
    BY <1>17 DEF AnswerRename, Retry, Cancel
  <2> QED  BY <1>1, <1>2, <2>1, <2>2, <2>3, NoQuestionTyped DEF AskTyped, Abort
<1>18. CASE UNCHANGED vars
  BY <1>5, <1>18 DEF vars
<1> QED
  BY <1>6, <1>7, <1>8, <1>10, <1>11, <1>12, <1>13, <1>14, <1>15, <1>16, <1>17, <1>18
     DEF Next, Thread, Answer

LEMMA EnterTyped ==
  ASSUME TypeOK, cur.file \in Folder, NEW created \in BOOLEAN, Enter(created)
  PROVE  CallTyped' /\ merged' \subseteq File
<1>1. cur.dest \in Path /\ cur.file \in File
  BY FileAssumption DEF TypeOK
<1>2. Frame(created) \in Level
  BY <1>1 DEF Frame, Level
<1>3. frames' \in Seq(Level)
  BY <1>2, HeadAdded DEF Enter, TypeOK
<1> QED  BY <1>1, <1>3, IdleTyped DEF Enter, CallTyped, TypeOK

\* What happens to the call on a file and to the folders it is in.
LEMMA NextCalls ==
  TypeOK /\ Control /\ [Next]_vars => CallTyped'
<1> SUFFICES ASSUME TypeOK, Control, [Next]_vars PROVE CallTyped'
  OBVIOUS
<1>1. cur \in CurType /\ frames \in Seq(Level) /\ FsKnown \in BOOLEAN /\ CallTyped
  BY TypeParts, FoldersTyped DEF CallTyped
<1>2. CASE UNCHANGED <<cur, frames>>
  BY <1>1, <1>2 DEF CallTyped
<1>3. ASSUME Out PROVE CallTyped'
  BY <1>3, OutTyped
<1>4. ASSUME NEW k \in Errors, NEW f \in File, Trouble(k, f) PROVE CallTyped'
  BY <1>4, TroubleTyped
<1>5. Trying => cur.file \in File
  BY DEF Trying, Control
<1>6. ASSUME NEW c \in Level, frames # <<>>, Calls(c), UNCHANGED cur PROVE CallTyped'
  BY <1>1, <1>6, HeadReplaced DEF Calls, CallTyped
<1>7. ASSUME frames # <<>>, NEW skip, Return(skip), UNCHANGED cur PROVE CallTyped'
  BY <1>1, <1>7, TailIs, MarkTyped DEF Return, CallTyped
<1>8. ASSUME NEW f \in File, NEW over \in BOOLEAN
      PROVE  [Idle EXCEPT !.file = f, !.dest = Target(f, 1, FsKnown), !.over = over,
                          !.handled = FsKnown, !.nth = 2] \in CurType
  <2>1. Target(f, 1, FsKnown) \in Path
    BY <1>1, FirstNamed, TargetTyped
  <2> QED  BY <1>1, <2>1 DEF Idle, CurType
<1>9. ASSUME HasName, NEW fs \in BOOLEAN, cur.file \in File PROVE Target(cur.file, cur.nth, fs) \in Path
  BY <1>1, <1>9, TargetTyped DEF HasName, CurType
<1>10. CASE TakeNext
  <2>1. Head(list).file \in File /\ Head(list).over \in BOOLEAN
    BY <1>10, EntriesTyped, TypeParts DEF TakeNext, ListTyped
  <2>2. \/ Out
        \/ Trouble("itself", Head(list).file)
        \/ /\ cur' = [Idle EXCEPT !.file = Head(list).file,
                                  !.dest = Target(Head(list).file, 1, FsKnown),
                                  !.over = Head(list).over, !.handled = FsKnown, !.nth = 2]
           /\ UNCHANGED frames
    BY <1>10 DEF TakeNext, Begin
  <2> QED  BY <1>1, <1>3, <1>4, <1>8, <2>1, <2>2 DEF Errors, CallTyped
<1>11. CASE Succeed \/ PutOff
  BY <1>1, <1>11, IdleTyped DEF Succeed, PutOff, CallTyped
<1>12. CASE Respell
  <2> DEFINE new == Target(cur.file, cur.nth, TRUE)
  <2>1. new \in Path
    BY <1>5, <1>9, <1>12 DEF Respell, Result
  <2>2. \/ cur' = [cur EXCEPT !.dest = new, !.handled = TRUE]
        \/ cur' = Idle
        \/ cur' = [cur EXCEPT !.handled = TRUE]
    BY <1>12 DEF Respell
  <2>3. cur' \in CurType
    <3> HIDE DEF new
    <3>1. /\ [cur EXCEPT !.dest = new, !.handled = TRUE] \in CurType
          /\ [cur EXCEPT !.handled = TRUE] \in CurType
      BY <1>1, <2>1 DEF CurType
    <3> QED  BY <2>2, <3>1, IdleTyped
  <2>4. frames' \in Seq(Level)
    BY <1>12, LearnTyped DEF Respell
  <2> QED  BY <2>3, <2>4 DEF CallTyped
<1>13. CASE NextName
  <2> DEFINE new == Target(cur.file, cur.nth, FsKnown)
  <2>1. new \in Path
    BY <1>1, <1>5, <1>9, <1>13 DEF NextName, Result
  <2> DEFINE m == cur.nth + 1
  <2>2. cur' = [cur EXCEPT !.dest = new, !.nth = m] /\ UNCHANGED frames
    BY <1>13 DEF NextName
  <2>n. m \in Nat
    BY <1>1 DEF CurType
  <2> HIDE DEF new, m
  <2>3. cur' \in CurType
    BY <1>1, <2>1, <2>2, <2>n DEF CurType
  <2> QED  BY <1>1, <2>2, <2>3 DEF CallTyped
<1>14. CASE Conflict \/ AnswerConflict
  <2> DEFINE Over == cur' = [cur EXCEPT !.over = TRUE] /\ UNCHANGED frames
  <2>a. Conflict => Out \/ UNCHANGED <<cur, frames>> \/ Over
    BY DEF Conflict
  <2>b. AnswerConflict => Out \/ UNCHANGED <<cur, frames>> \/ Over
    BY DEF AnswerConflict
  <2>1. Out \/ UNCHANGED <<cur, frames>> \/ Over
    BY <1>14, <2>a, <2>b
  <2>2. [cur EXCEPT !.over = TRUE] \in CurType
    BY <1>1 DEF CurType
  <2> QED  BY <1>1, <1>2, <1>3, <2>1, <2>2 DEF CallTyped
<1>15. CASE AnswerRename
  <2>1. PICK n \in NewNames : cur' = [cur EXCEPT !.dest = Append(Folders, n)]
    BY <1>15 DEF AnswerRename, Rename
  <2>2. Append(Folders, n) \in Path
    BY FoldersTyped, NameAssumption, PrefixAppend
  <2>3. cur' \in CurType
    BY <1>1, <2>1, <2>2 DEF CurType
  <2> QED  BY <1>1, <1>15, <2>3 DEF AnswerRename, CallTyped
<1>16. CASE Recurse
  <2>1. CASE cur' = [cur EXCEPT !.stage = IF cur.over THEN "drop" ELSE "make"] /\ UNCHANGED frames
    BY <1>1, <2>1 DEF CallTyped, CurType
  <2>2. CASE Result("merge") /\ Enter(FALSE)
    <3>1. cur.file \in Folder
      BY <2>2 DEF Result, Attempt
    <3> QED  BY <2>2, <3>1, EnterTyped
  <2> QED  BY <1>16, <2>1, <2>2 DEF Recurse
<1>17. CASE Stop \/ AnswerError \/ AnswerMake
  BY <1>3, <1>17 DEF Stop, AnswerError, AnswerMake, NotMade
<1>18. CASE Fail
  BY <1>4, <1>5, <1>18 DEF Fail, Errors
<1>19. CASE RemoveTarget
  <2>1. cur.file \in File
    BY <1>19 DEF RemoveTarget, Control
  <2>2. Trouble("target", cur.file) \/ UNCHANGED <<cur, frames>>
    BY <1>19 DEF RemoveTarget
  <2> QED  BY <1>2, <1>4, <2>1, <2>2 DEF Errors
<1>20. CASE DropOld
  <2>1. cur.file \in File
    BY <1>20 DEF DropOld, Control, Idle
  <2>2. \/ Trouble("old", cur.file)
        \/ cur' = [cur EXCEPT !.stage = "make"] /\ UNCHANGED frames
    BY <1>20 DEF DropOld
  <2> QED  BY <1>1, <1>4, <2>1, <2>2 DEF Errors, CallTyped, CurType
<1>21. CASE MakeFolder
  <2> DEFINE new == Append(Folders, Safe[NameOf(cur.file)])
  <2>1. cur.file \in Folder /\ cur.file \in File
    BY <1>21, FileAssumption DEF MakeFolder, Control
  <2>2. \/ Enter(TRUE)
        \/ /\ LearnFs(frames)
           /\ \/ UNCHANGED cur
              \/ cur' = [cur EXCEPT !.dest = new, !.handled = TRUE, !.stage = "try"]
        \/ UNCHANGED <<cur, frames>>
    BY <1>21 DEF MakeFolder
  <2>3. ASSUME LearnFs(frames),
               \/ UNCHANGED cur
               \/ cur' = [cur EXCEPT !.dest = new, !.handled = TRUE, !.stage = "try"]
        PROVE  CallTyped'
    <3>1. new \in Path
      BY <2>1, SafePlaced
    <3>2. cur' \in CurType
      <4> HIDE DEF new
      <4> QED  BY <1>1, <2>3, <3>1 DEF CurType
    <3> QED  BY <2>3, <3>2, LearnTyped DEF CallTyped
  <2> QED  BY <1>2, <2>1, <2>2, <2>3, EnterTyped
<1>22. CASE OpenDir \/ CloseDir \/ AnswerFolder
  <2>1. frames # <<>>
    BY <1>22 DEF OpenDir, CloseDir, AnswerFolder, InFolder, Control
  <2>2. Present(Call.dir) \subseteq File
    BY DEF Present, Kids, Under
  <2>3. UNCHANGED cur
    BY <1>22 DEF OpenDir, CloseDir, AnswerFolder
  <2>4. CASE OpenDir
    <3>1. \/ Calls([Call EXCEPT !.stage = "list", !.left = Present(Call.dir)])
          \/ \E seen \in SUBSET Present(Call.dir) :
               Calls([Call EXCEPT !.stage = "list", !.left = seen,
                                  !.broken = Call.dir \notin common.skipReaddir])
          \/ UNCHANGED frames
      BY <2>4 DEF OpenDir
    <3>2. \A seen \in SUBSET File : [Call EXCEPT !.stage = "list", !.left = seen] \in Level
      BY <2>1, CallTypes DEF Level
    <3>3. \A seen \in SUBSET File, b \in BOOLEAN :
            [Call EXCEPT !.stage = "list", !.left = seen, !.broken = b] \in Level
      BY <2>1, CallTypes DEF Level
    <3> QED  BY <1>2, <1>6, <2>1, <2>2, <2>3, <3>1, <3>2, <3>3
  <2>5. CASE CloseDir \/ AnswerFolder
    <3>1. \/ \E c \in {[Call EXCEPT !.broken = FALSE], [Call EXCEPT !.stage = "end"],
                       [Call EXCEPT !.skip = TRUE, !.stage = "end"],
                       [Call EXCEPT !.skip = TRUE, !.stage = "list"]} : Calls(c)
          \/ UNCHANGED frames
      BY <2>5 DEF CloseDir, AnswerFolder
    <3>2. /\ [Call EXCEPT !.broken = FALSE] \in Level /\ [Call EXCEPT !.stage = "end"] \in Level
          /\ [Call EXCEPT !.skip = TRUE, !.stage = "end"] \in Level
          /\ [Call EXCEPT !.skip = TRUE, !.stage = "list"] \in Level
      BY <2>1, CallTypes DEF Level
    <3> QED  BY <1>2, <1>6, <2>1, <2>3, <3>1, <3>2
  <2> QED  BY <1>22, <2>4, <2>5
<1>23. ASSUME NEW f \in File, CopyChild(f) PROVE CallTyped'
  <2> DEFINE c == [Call EXCEPT !.left = Call.left \ {f}]
             rest == <<c>> \o Tail(frames)
  <2>1. frames # <<>>
    BY <1>23 DEF CopyChild, InFolder
  <2>2. c \in Level
    BY <2>1, CallTypes DEF Level
  <2>3. rest \in Seq(Level)
    <3> HIDE DEF c
    <3> QED  BY <1>1, <2>1, <2>2, HeadReplaced
  <2>4. \/ frames' = MarkIn(rest) /\ UNCHANGED cur
        \/ /\ frames' = rest
           /\ cur' = [Idle EXCEPT !.file = f, !.dest = Target(f, 1, FsKnown), !.over = FALSE,
                                  !.handled = FsKnown, !.nth = 2]
    BY <1>23 DEF CopyChild
  <2> HIDE DEF rest
  <2> QED  BY <1>1, <1>8, <2>3, <2>4, MarkTyped DEF CallTyped
<1>24. CASE EndDir \/ LeaveDir \/ AnswerSource
  <2>1. frames # <<>> /\ UNCHANGED cur
    BY <1>24 DEF EndDir, LeaveDir, AnswerSource, InFolder, Control
  <2>2. (\E skip : Return(skip)) \/ UNCHANGED frames
    BY <1>24 DEF EndDir, LeaveDir, AnswerSource
  <2> QED  BY <1>2, <1>7, <2>1, <2>2
<1>25. CASE \/ Aborted \/ Done \/ Verify \/ Scan \/ ListDone \/ Empty \/ AnswerDestination
            \/ Retry \/ Cancel \/ UNCHANGED vars
  BY <1>2, <1>25 DEF Aborted, Done, Verify, Scan, ListDone, Empty, AnswerDestination, Retry,
    Cancel, vars
<1> QED
  BY <1>10, <1>11, <1>12, <1>13, <1>14, <1>15, <1>16, <1>17, <1>18, <1>19, <1>20, <1>21,
     <1>22, <1>23, <1>24, <1>25 DEF Next, Thread, Answer

\* What a step does to the files, in their places and in the destination.
Still == UNCHANGED <<src, dest, shown, record, left>>

Makes ==
  /\ Going /\ cur.stage = "make" /\ cur.file \in Folder /\ Last(cur.dest) \notin job.invalid
  /\ Put(cur.file, cur.dest, {cur.file}) /\ Report(cur.file, cur.dest, {cur.file})
  /\ Record(cur.file, cur.dest) /\ Enter(TRUE)
  /\ UNCHANGED <<src, left, told>>

Removes ==
  /\ removing # <<>> /\ Within(Head(removing)) = {}
  /\ Gone(Head(removing))
  /\ removing' = Tail(removing)
  /\ UNCHANGED <<src, record, left, cur, frames>>

Drops ==
  /\ cur.stage = "drop"
  /\ Gone(cur.dest)
  /\ cur' = [cur EXCEPT !.stage = "make"]
  /\ UNCHANGED <<src, record, left, frames, removing>>

Deletes ==
  /\ InFolder("end") /\ IsMove /\ Present(Call.dir) = {} /\ ~Call.skip
  /\ src' = src \ {Call.dir}
  /\ Return(FALSE)
  /\ UNCHANGED <<dest, shown, record, left, cur>>

\* A failed attempt leaves something.
Parts(f) == {{}, {f}, Under(f) \cap src}
Spills ==
  /\ cur # Idle /\ cur.file \in src /\ cur.stage = "try" /\ removing = <<>>
  /\ question = NoQuestion
  /\ Attempt(cur.file, cur.dest) = "ok"
  /\ \E files \in Parts(cur.file) : Put(cur.file, cur.dest, files)
  /\ left' = left \cup {<<cur.file, cur.dest>>}
  /\ \/ Out /\ common.cancelled /\ UNCHANGED <<common, told>>
     \/ Trouble("failed", cur.file)
  /\ UNCHANGED <<src, record, shown>>

DataStep == Still \/ Succeed \/ Makes \/ Removes \/ Drops \/ Deletes \/ Spills

LEMMA DataSteps ==
  TypeOK /\ Control /\ [Next]_vars => DataStep
<1> SUFFICES ASSUME TypeOK, Control, [Next]_vars PROVE DataStep
  OBVIOUS
<1>1. CASE Still
  BY <1>1 DEF DataStep
<1>2. CASE RemoveTarget
  <2>1. Still \/ Removes
    BY <1>2 DEF RemoveTarget, Still, Removes, fileVars
  <2> QED  BY <2>1 DEF DataStep
<1>3. CASE DropOld
  <2>1. Still \/ Drops
    BY <1>3 DEF DropOld, Still, Drops, fileVars
  <2> QED  BY <2>1 DEF DataStep
<1>4. CASE MakeFolder
  <2>1. cur.file \in Folder
    BY <1>4 DEF MakeFolder, Control
  <2>2. Still \/ Makes
    BY <1>4, <2>1 DEF MakeFolder, Still, Makes, fileVars
  <2> QED  BY <2>2 DEF DataStep
<1>5. CASE EndDir
  <2>1. Still \/ Deletes
    BY <1>5 DEF EndDir, Still, Deletes
  <2> QED  BY <2>1 DEF DataStep
<1>6. CASE \/ Aborted \/ Done \/ Verify \/ Scan \/ TakeNext \/ ListDone \/ Respell \/ NextName
           \/ Conflict \/ PutOff \/ Empty \/ Recurse
  BY <1>1, <1>6 DEF Aborted, Done, Verify, Scan, TakeNext, ListDone, Respell, NextName, Conflict,
    PutOff, Empty, Recurse, fileVars, Still
<1>7. CASE OpenDir \/ CloseDir \/ LeaveDir \/ \E f \in File : CopyChild(f)
  BY <1>1, <1>7 DEF OpenDir, CloseDir, LeaveDir, CopyChild, fileVars, Still
<1>8. CASE \/ AnswerDestination \/ AnswerConflict \/ AnswerError \/ AnswerMake \/ AnswerFolder
           \/ AnswerSource \/ AnswerRename \/ Retry \/ Cancel \/ UNCHANGED vars
  BY <1>1, <1>8 DEF AnswerDestination, AnswerConflict, AnswerError, AnswerMake, AnswerFolder,
    AnswerSource, AnswerRename, Retry, Cancel, vars, fileVars, Still
<1>9. CASE Stop \/ Fail
  <2>1. /\ UNCHANGED <<src, shown, record>> /\ cur # Idle /\ question = NoQuestion
        /\ LeavesSome(cur.file, cur.dest)
        /\ \/ Out /\ common.cancelled /\ UNCHANGED <<common, told>>
           \/ Trouble("failed", cur.file)
    BY <1>9 DEF Stop, Fail, Trying, said
  <2>2. CASE UNCHANGED <<dest, left>>
    BY <1>1, <2>1, <2>2 DEF Still
  <2>3. CASE ~UNCHANGED <<dest, left>>
    <3>1. /\ cur.stage = "try" /\ removing = <<>> /\ Attempt(cur.file, cur.dest) = "ok"
          /\ \E files \in Parts(cur.file) : Put(cur.file, cur.dest, files)
          /\ left' = left \cup {<<cur.file, cur.dest>>}
      BY <2>1, <2>3 DEF LeavesSome, Parts
    <3>2. cur.file \in src
      BY <3>1 DEF Attempt
    <3>3. Spills
      BY <2>1, <3>1, <3>2 DEF Spills
    <3> QED  BY <3>3 DEF DataStep
  <2> QED  BY <2>2, <2>3
<1> QED  BY <1>2, <1>3, <1>4, <1>5, <1>6, <1>7, <1>8, <1>9 DEF Next, Thread, Answer, DataStep

\* What is put, whatever part of it.
LEMMA PartsUnder ==
  ASSUME TypeOK, NEW f \in src, NEW files \in Parts(f)
  PROVE  f \in File /\ files \subseteq Under(f)
<1>1. f \in File
  BY DEF TypeOK
<1> QED  BY <1>1, UnderSelf DEF Parts

LEMMA NextData ==
  TypeOK /\ Control /\ [Next]_vars => DataTyped'
<1> SUFFICES ASSUME TypeOK, Control, [Next]_vars PROVE DataTyped'
  OBVIOUS
<1>1. /\ src \subseteq File /\ DestTyped /\ record \subseteq File \X Path
      /\ debuting \subseteq Path /\ shown \subseteq Path /\ cur.dest \in Path
      /\ left \subseteq File \X Path
  BY DEF TypeOK, DestTyped
<1>2. debuting' \subseteq Path
  <2>1. UNCHANGED debuting \/ debuting' = debuting \cup {cur.dest}
        \/ (frames # <<>> /\ debuting' = debuting \cup {Call.dest})
    <3>1. CASE Succeed \/ MakeFolder
      BY <3>1 DEF Succeed, MakeFolder, Debut, fileVars
    <3>2. CASE CloseDir
      BY <3>2 DEF CloseDir, InFolder
    <3>3. CASE \/ Aborted \/ Done \/ Verify \/ Scan \/ TakeNext \/ ListDone \/ Respell \/ NextName
               \/ Conflict \/ PutOff \/ Empty \/ Recurse \/ Stop \/ Fail
      BY <3>3 DEF Aborted, Done, Verify, Scan, TakeNext, ListDone, Respell, NextName, Conflict,
        PutOff, Empty, Recurse, Stop, Fail, fileVars
    <3>4. CASE \/ RemoveTarget \/ DropOld \/ OpenDir \/ EndDir \/ LeaveDir
               \/ \E f \in File : CopyChild(f)
      BY <3>4 DEF RemoveTarget, DropOld, OpenDir, EndDir, LeaveDir, CopyChild, fileVars
    <3>5. CASE \/ AnswerDestination \/ AnswerConflict \/ AnswerError \/ AnswerMake \/ AnswerFolder
               \/ AnswerSource \/ AnswerRename \/ Retry \/ Cancel \/ UNCHANGED vars
      BY <3>5 DEF AnswerDestination, AnswerConflict, AnswerError, AnswerMake, AnswerFolder,
        AnswerSource, AnswerRename, Retry, Cancel, vars, fileVars
    <3> QED  BY <3>1, <3>2, <3>3, <3>4, <3>5 DEF Next, Thread, Answer
  <2> QED  BY <1>1, <2>1, CallTypes
<1> DEFINE Typed == /\ src' \subseteq File /\ DestTyped' /\ record' \subseteq File \X Path
                    /\ shown' \subseteq Path /\ left' \subseteq File \X Path
<1>3. ASSUME Still PROVE Typed
  BY <1>1, <1>3 DEF Still, DestTyped
<1>4. ASSUME NEW f \in File, NEW files, files \subseteq Under(f), Put(f, cur.dest, files),
             Report(f, cur.dest, files), Record(f, cur.dest), src' \subseteq src,
             UNCHANGED left
      PROVE  Typed
  <2>1. DestTyped'
    BY <1>1, <1>4, PutTyped DEF DestTyped
  <2>2. shown' \subseteq Path
    BY <1>1, <1>4, ReportTyped
  <2>3. record' = record \cup {<<f, cur.dest>>}
    BY <1>4 DEF Record
  <2> QED  BY <1>1, <1>4, <2>1, <2>2, <2>3
<1>5. ASSUME Succeed PROVE Typed
  <2>1. cur.file \in File
    BY <1>5 DEF Succeed, Result, Trying, Control
  <2>2. Under(cur.file) \cap src \subseteq Under(cur.file)
    OBVIOUS
  <2>3. /\ Put(cur.file, cur.dest, Under(cur.file) \cap src)
        /\ Report(cur.file, cur.dest, Under(cur.file) \cap src)
        /\ Record(cur.file, cur.dest) /\ src' \subseteq src /\ UNCHANGED left
    BY <1>5 DEF Succeed
  <2> QED  BY <1>4, <2>1, <2>2, <2>3
<1>6. ASSUME Makes PROVE Typed
  <2>1. cur.file \in File
    BY <1>6, FileAssumption DEF Makes
  <2>2. {cur.file} \subseteq Under(cur.file)
    BY <2>1, UnderSelf
  <2>3. /\ Put(cur.file, cur.dest, {cur.file}) /\ Report(cur.file, cur.dest, {cur.file})
        /\ Record(cur.file, cur.dest) /\ src' \subseteq src /\ UNCHANGED left
    BY <1>6 DEF Makes
  <2> QED  BY <1>4, <2>1, <2>2, <2>3
<1>7. ASSUME Removes \/ Drops PROVE Typed
  <2>1. PICK p : Gone(p) /\ UNCHANGED <<src, record, left>>
    BY <1>7 DEF Removes, Drops
  <2>2. DestTyped' /\ shown' \subseteq Path
    BY <1>1, <2>1, GoneIs DEF DestTyped
  <2> QED  BY <1>1, <2>1, <2>2
<1>8. ASSUME Deletes PROVE Typed
  BY <1>1, <1>8 DEF Deletes, DestTyped
<1>10. ASSUME Spills PROVE Typed
  <2>1. /\ cur.file \in src /\ UNCHANGED <<src, record, shown>>
        /\ left' = left \cup {<<cur.file, cur.dest>>}
    BY <1>10 DEF Spills
  <2>2. PICK files \in Parts(cur.file) : Put(cur.file, cur.dest, files)
    BY <1>10 DEF Spills
  <2>3. cur.file \in File /\ files \subseteq Under(cur.file)
    BY <2>1, PartsUnder
  <2>4. DestTyped'
    BY <1>1, <2>2, <2>3, PutTyped DEF DestTyped
  <2> QED  BY <1>1, <2>1, <2>3, <2>4
<1>9. Typed
  BY <1>3, <1>5, <1>6, <1>7, <1>8, <1>10, DataSteps DEF DataStep
<1> QED  BY <1>2, <1>9 DEF DataTyped

\* What the user said and knows.
LEMMA NextSaid ==
  TypeOK /\ Control /\ [Next]_vars => SaidTyped' /\ RestTyped'
<1> SUFFICES ASSUME TypeOK, Control, [Next]_vars PROVE SaidTyped' /\ RestTyped'
  OBVIOUS
<1>1. SaidTyped /\ RestTyped /\ cur.dest \in Path /\ cur.file \in File \cup {NoFile}
      /\ question.file \in File \cup {NoFile} /\ removing \in Seq(Path) /\ DOMAIN dest \subseteq Path
  BY TypeParts DEF TypeOK
<1>2. CASE UNCHANGED said /\ UNCHANGED <<removing, topFs>>
  BY <1>1, <1>2 DEF SaidTyped, RestTyped, said
<1>3. ASSUME NEW k \in Errors, NEW f \in File, Trouble(k, f) PROVE told' \subseteq File
  BY <1>3, TroubleTyped
<1>4. LearnFs(frames) => topFs' \in BOOLEAN
  BY LearnTyped
<1>5. CASE TakeNext
  <2>1. Head(list).file \in File
    BY <1>5, EntriesTyped, TypeParts DEF TakeNext, ListTyped
  <2>2. Trouble("itself", Head(list).file) \/ UNCHANGED told
    BY <1>5 DEF TakeNext, Begin
  <2>3. told' \subseteq File
    BY <1>1, <1>3, <2>1, <2>2 DEF SaidTyped, Errors
  <2> QED  BY <1>1, <1>5, <2>3 DEF TakeNext, SaidTyped, RestTyped
<1>6. CASE Respell
  BY <1>1, <1>4, <1>6 DEF Respell, SaidTyped, RestTyped, said
<1>7. CASE Conflict
  <2>1. cur.file \in File
    BY <1>7 DEF Conflict, Result, Trying, Control
  <2>2. told' \subseteq File /\ agreed' \subseteq Path
    BY <1>1, <1>7, <2>1 DEF Conflict, Agree, SaidTyped
  <2> QED  BY <1>1, <1>7, <2>2 DEF Conflict, SaidTyped, RestTyped
<1>8. CASE AnswerConflict
  <2>1. cur.file \in File
    BY <1>8 DEF AnswerConflict, CurQuestions, Control
  <2>2. told' \subseteq File /\ agreed' \subseteq Path /\ UNCHANGED <<renamed, merged>>
    BY <1>1, <1>8, <2>1 DEF AnswerConflict, Agree, SaidTyped, said
  <2> QED  BY <1>1, <1>8, <2>2 DEF AnswerConflict, SaidTyped, RestTyped
<1>9. CASE AnswerRename
  BY <1>1, <1>9 DEF AnswerRename, SaidTyped, RestTyped
<1>10. CASE Empty
  BY <1>1, <1>10 DEF Empty, SaidTyped, RestTyped, said
<1>11. CASE Recurse
  <2>1. merged' \subseteq File
    <3>1. CASE Result("merge") /\ Enter(FALSE)
      <4>1. cur.file \in Folder
        BY <3>1 DEF Result, Attempt
      <4> QED  BY <3>1, <4>1, EnterTyped
    <3> QED  BY <1>1, <1>11, <3>1 DEF Recurse, SaidTyped
  <2> QED  BY <1>1, <1>11, <2>1 DEF Recurse, SaidTyped, RestTyped
<1>12. CASE Stop
  BY <1>1, <1>12 DEF Stop, SaidTyped, RestTyped, said
<1>13. CASE Fail
  <2>1. cur.file \in File
    BY <1>13 DEF Fail, Trying, Control
  <2>2. told' \subseteq File
    BY <1>3, <1>13, <2>1 DEF Fail, Errors
  <2> QED  BY <1>1, <1>13, <2>2 DEF Fail, SaidTyped, RestTyped
<1>14. CASE RemoveTarget
  <2>1. cur.file \in File
    BY <1>14 DEF RemoveTarget, Control
  <2>2. told' \subseteq File
    BY <1>1, <1>3, <1>14, <2>1 DEF RemoveTarget, Errors, SaidTyped
  <2>3. removing' \in Seq(Path)
    <3>1. ASSUME NEW q \in Within(Head(removing)) PROVE <<q>> \o removing \in Seq(Path)
      <4>1. q \in Path
        BY <1>1, <3>1 DEF Within, Below
      <4> QED  BY <1>1, <4>1
    <3>2. removing # <<>> => Tail(removing) \in Seq(Path)
      BY <1>1
    <3>3. removing' = Tail(removing) \/ removing' = <<>>
          \/ \E q \in Within(Head(removing)) : removing' = <<q>> \o removing
      BY <1>14 DEF RemoveTarget
    <3>4. removing # <<>> /\ <<>> \in Seq(Path)
      BY <1>14 DEF RemoveTarget
    <3> QED  BY <3>1, <3>2, <3>3, <3>4
  <2> QED  BY <1>1, <1>14, <2>2, <2>3 DEF RemoveTarget, SaidTyped, RestTyped
<1>15. CASE DropOld
  <2>1. cur.file \in File
    BY <1>15 DEF DropOld, Control, Idle
  <2>2. told' \subseteq File
    BY <1>1, <1>3, <1>15, <2>1 DEF DropOld, Errors, SaidTyped
  <2> QED  BY <1>1, <1>15, <2>2 DEF DropOld, SaidTyped, RestTyped
<1>16. CASE MakeFolder
  <2>1. cur.file \in Folder
    BY <1>16 DEF MakeFolder, Control
  <2>2. merged' \subseteq File
    BY <1>1, <1>16, <2>1, EnterTyped DEF MakeFolder, SaidTyped
  <2>3. topFs' \in BOOLEAN
    BY <1>1, <1>4, <1>16 DEF MakeFolder, RestTyped
  <2> QED  BY <1>1, <1>16, <2>2, <2>3 DEF MakeFolder, SaidTyped, RestTyped
<1>17. CASE AnswerError \/ AnswerMake
  <2>1. question.file \in File
    BY <1>17, FileAssumption DEF AnswerError, AnswerMake, Control, Errors, CurQuestions
  <2>2. told' \subseteq File
    BY <1>1, <1>17, <2>1 DEF AnswerError, AnswerMake, SaidTyped
  <2> QED  BY <1>1, <1>17, <2>2 DEF AnswerError, AnswerMake, SaidTyped, RestTyped
<1>18. CASE \/ Aborted \/ Done \/ Verify \/ Scan \/ ListDone \/ Succeed \/ NextName \/ PutOff
            \/ OpenDir \/ CloseDir \/ EndDir \/ LeaveDir \/ \E f \in File : CopyChild(f)
  BY <1>2, <1>18 DEF Aborted, Done, Verify, Scan, ListDone, Succeed, NextName, PutOff, OpenDir,
    CloseDir, EndDir, LeaveDir, CopyChild
<1>19. CASE AnswerDestination \/ AnswerFolder \/ AnswerSource \/ Retry \/ Cancel \/ UNCHANGED vars
  BY <1>2, <1>19 DEF AnswerDestination, AnswerFolder, AnswerSource, Retry, Cancel, vars, said
<1> QED
  BY <1>5, <1>6, <1>7, <1>8, <1>9, <1>10, <1>11, <1>12, <1>13, <1>14, <1>15, <1>16, <1>17, <1>18,
     <1>19 DEF Next, Thread, Answer

LEMMA InitTyped == Init => TypeOK
<1> SUFFICES ASSUME Init PROVE TypeOK
  OBVIOUS
<1>1. job \in Jobs /\ job.top \in Seq(File) /\ DOMAIN job.old \subseteq Path
  BY JobAssumption DEF Init
<1>2. list \in Seq(Entry)
  <2> DEFINE z(i) == [file |-> job.top[i], over |-> FALSE]
  <2>1. Len(job.top) \in Nat /\ DOMAIN job.top = 1 .. Len(job.top)
    BY <1>1
  <2>2. \A i \in 1 .. Len(job.top) : z(i) \in Entry
    BY <1>1 DEF Entry
  <2>3. list = [i \in 1 .. Len(job.top) |-> z(i)]
    BY <2>1 DEF Init
  <2> HIDE DEF z
  <2> QED  BY <2>1, <2>2, <2>3
<1>3. CallTyped
  BY IdleTyped DEF Init, CallTyped
<1>4. AskTyped
  BY NoQuestionTyped DEF Init, AskTyped, CommonType
<1>5. ListTyped
  BY <1>1, <1>2 DEF Init, ListTyped
<1>6. dest \in [DOMAIN dest -> File \cup {OldFile, OldFolder}]
  BY <1>1, JobAssumption DEF Init
<1>7. DataTyped
  BY <1>1, <1>6 DEF Init, DataTyped, DestTyped
<1>8. SaidTyped /\ RestTyped
  <2>1. <<>> \in Seq(Path)
    OBVIOUS
  <2> QED  BY <2>1 DEF Init, SaidTyped, RestTyped
<1> QED  BY <1>3, <1>4, <1>5, <1>7, <1>8, TypeParts

LEMMA IdleIs ==
  /\ Idle.file = NoFile /\ Idle.dest = <<>> /\ Idle.over = FALSE /\ Idle.handled = FALSE
  /\ Idle.stage = "try" /\ NoFile \notin File
  BY FileAssumption DEF Idle

LEMMA InitControl == Init => Control
  BY IdleIs DEF Init, Control, NoQuestion, CurQuestions, IsMove

LEMMA OutIs ==
  ASSUME TypeOK, Out
  PROVE  cur' = Idle /\ frames' = MarkIn(frames) /\ (frames' = <<>> <=> frames = <<>>)
  BY MarkTyped DEF Out, TypeOK

LEMMA TroubleIs ==
  ASSUME TypeOK, NEW k \in Errors, NEW f \in File, Trouble(k, f)
  PROVE  \/ Out /\ told' = told \cup {f} /\ UNCHANGED question
         \/ /\ question'.kind = k /\ question'.file = f /\ question' # NoQuestion
            /\ UNCHANGED <<cur, frames, told>>
<1>1. k \in Questions /\ k # "none"
  BY DEF Questions, Errors
<1> QED  BY <1>1, AskIs DEF Trouble, NoQuestion

LEMMA NextControl ==
  TypeOK /\ Control /\ [Next]_vars => Control'
<1> SUFFICES ASSUME TypeOK, Control, [Next]_vars PROVE Control'
  OBVIOUS
<1>0. NoQuestion.kind = "none" /\ "none" \notin CurQuestions
  BY DEF NoQuestion, CurQuestions
<1>1. /\ cur \in CurType /\ cur' \in CurType /\ frames \in Seq(Level)
      /\ question \in AskType /\ IsMove \in BOOLEAN
  BY TypeParts, NextCalls DEF CallTyped, AskTyped, IsMove
<1>2. CASE UNCHANGED <<job, pc, question, cur, frames, removing>>
  BY <1>2 DEF Control, Call, IsMove
<1>3. ASSUME Out, question' = NoQuestion, removing' = <<>>, UNCHANGED <<job, pc>>
      PROVE  Control'
  BY <1>0, <1>3, OutIs, IdleIs DEF Control, IsMove
<1>4. CASE Aborted \/ Done \/ Verify \/ Scan \/ ListDone \/ AnswerDestination
  <2>1. cur = Idle /\ frames = <<>> /\ removing = <<>> /\ UNCHANGED <<job, cur, frames, removing>>
    <3>1. cur = Idle /\ frames = <<>> 
      BY <1>4, IdleIs DEF Aborted, Done, Verify, Scan, ListDone, AnswerDestination, Control
    <3>2. UNCHANGED <<job, cur, frames, removing>>
      BY <1>4 DEF Aborted, Done, Verify, Scan, ListDone, AnswerDestination, lists
    <3> QED  BY <3>1, <3>2 DEF Control
  <2>2. CASE Verify
    <3>1. CASE UNCHANGED question /\ pc' = AfterVerify
      BY <1>0, <2>1, <2>2, <3>1, IdleIs DEF Verify, Going, AfterVerify, Control, IsMove
    <3>2. CASE UNCHANGED pc /\ \E k \in {"query", "space", "refused"} : Ask(k, NoFile)
      <4>1. question'.kind \in {"query", "space", "refused"}
        BY <3>2, AskIs DEF Questions
      <4> QED  BY <2>1, <2>2, <3>2, <4>1, IdleIs DEF Verify, CurQuestions, Control, IsMove
    <3> QED  BY <2>2, <3>1, <3>2 DEF Verify
  <2>3. CASE Aborted \/ Scan \/ ListDone
    <3>1. question' = NoQuestion /\ pc' \in {"notify", "verify", "scan"}
      BY <2>3 DEF Aborted, Scan, ListDone, Going
    <3> QED  BY <1>0, <2>1, <3>1, IdleIs DEF Control
  <2>4. CASE Done
    BY <2>1, <2>4, IdleIs DEF Done, Control, IsMove, CurQuestions
  <2>5. CASE AnswerDestination
    BY <1>0, <2>1, <2>5, IdleIs DEF AnswerDestination, AfterVerify, Control, IsMove
  <2> QED  BY <1>4, <2>2, <2>3, <2>4, <2>5
<1>5. ASSUME NEW k \in Errors \cap (CurQuestions \cup {"itself"}), NEW f \in File, Trouble(k, f),
             question = NoQuestion, UNCHANGED <<job, pc>>, removing' = <<>>,
             k = "itself" => cur = Idle /\ frames = <<>> /\ pc \in {"prepare", "copy"},
             k # "itself" => cur # Idle /\ f = cur.file,
             k \in {"failed", "conflict", "target"} => cur.stage = "try",
             k = "old" => cur.stage = "drop",
             k # "make"
      PROVE  Control'
  <2>1. CASE Out /\ UNCHANGED question
    BY <1>3, <1>5, <2>1
  <2>2. CASE question'.kind = k /\ question'.file = f /\ UNCHANGED <<cur, frames>>
    <3>1. k \notin {"none", "query", "space", "refused", "open", "list", "source"}
      BY <1>5 DEF CurQuestions
    <3>2. "itself" \notin CurQuestions
      BY DEF CurQuestions
    <3> QED  BY <1>5, <2>2, <3>1, <3>2 DEF Control, IsMove
  <2>3. \/ Out /\ UNCHANGED question
        \/ question'.kind = k /\ question'.file = f /\ UNCHANGED <<cur, frames>>
    <3>1. k \in Errors
      BY <1>5
    <3>2. Trouble(k, f)
      BY <1>5
    <3> QED  BY <3>1, <3>2, TroubleIs
  <2> QED  BY <2>1, <2>2, <2>3
<1>6. ASSUME question' = NoQuestion, removing' = <<>>, UNCHANGED <<job, pc>>,
             frames' # <<>> => pc = "copy",
             cur' # Idle => pc \in {"prepare", "copy"} /\ cur'.file \in File,
             cur'.stage # "try" => pc = "copy" /\ cur'.file \in Folder
      PROVE  Control'
  BY <1>0, <1>6 DEF Control, IsMove
<1>7. CASE TakeNext
  <2> DEFINE f == Head(list).file
             c == [Idle EXCEPT !.file = f, !.dest = Target(f, 1, FsKnown), !.over = Head(list).over,
                               !.handled = FsKnown, !.nth = 2]
  <2>1. f \in File
    BY <1>7, EntriesTyped, TypeParts DEF TakeNext, ListTyped
  <2>2. /\ pc \in {"prepare", "copy"} /\ question = NoQuestion /\ cur = Idle /\ frames = <<>>
        /\ removing = <<>> /\ UNCHANGED <<job, pc, removing>>
    BY <1>7 DEF TakeNext, Going, Control
  <2>3. \/ Out /\ UNCHANGED question
        \/ Trouble("itself", f)
        \/ cur' = c /\ UNCHANGED <<question, frames>>
    BY <1>7 DEF TakeNext, Begin
  <2>4. c.file = f /\ c.stage = "try"
    BY DEF Idle
  <2>5. "itself" \in Errors
    BY DEF Errors
  <2> HIDE DEF f, c
  <2> QED  BY <1>3, <1>5, <1>6, <2>1, <2>2, <2>3, <2>4, <2>5
<1>8. CASE Succeed \/ PutOff
  BY <1>6, <1>8, IdleIs DEF Succeed, PutOff, Result, Trying, Control, lists
<1>9. CASE Respell \/ NextName
  <2>1. /\ cur.file \in File /\ question = NoQuestion /\ removing = <<>> /\ cur.stage = "try"
        /\ pc \in {"prepare", "copy"} /\ UNCHANGED <<job, pc, question, removing>>
    BY <1>9 DEF Respell, NextName, Result, Trying, Control, lists
  <2>2. frames' # <<>> => frames # <<>>
    BY <1>9, LearnTyped DEF Respell, NextName, LearnFs
  <2>3. cur' = Idle \/ (cur'.file = cur.file /\ cur'.stage = cur.stage)
    BY <1>1, <1>9 DEF Respell, NextName, CurType
  <2> QED  BY <1>6, <2>1, <2>2, <2>3, IdleIs DEF Control
<1>10. CASE Conflict
  <2>1. /\ cur.file \in File /\ cur # Idle /\ question = NoQuestion /\ removing = <<>>
        /\ cur.stage = "try"
        /\ pc \in {"prepare", "copy"} /\ UNCHANGED <<job, pc, removing>>
    BY <1>10 DEF Conflict, Result, Trying, Control, lists
  <2>2. CASE Out /\ UNCHANGED question
    BY <1>3, <2>1, <2>2
  <2>3. CASE cur' = [cur EXCEPT !.over = TRUE] /\ UNCHANGED <<question, frames>>
    <3>1. cur'.file = cur.file /\ cur'.stage = cur.stage
      BY <1>1, <2>3 DEF CurType
    <3> QED  BY <1>6, <2>1, <2>3, <3>1, IdleIs DEF Control
  <2>4. CASE Ask("conflict", cur.file) /\ UNCHANGED <<cur, frames>>
    <3>0. "conflict" \in Questions /\ cur.file \in File \cup {NoFile}
      BY <2>1 DEF Questions
    <3>1. question'.kind = "conflict" /\ question'.file = cur.file
      BY <2>4, <3>0, AskIs
    <3> QED  BY <2>1, <2>4, <3>1 DEF Control, IsMove
  <2> QED  BY <1>10, <2>2, <2>3, <2>4 DEF Conflict
<1>11. CASE AnswerConflict
  <2>1. cur # Idle /\ cur.file \in File /\ cur.stage = "try" /\ removing = <<>>
        /\ question' = NoQuestion /\ UNCHANGED <<job, pc, removing>>
        /\ pc \in {"prepare", "copy"}
    BY <1>0, <1>11 DEF AnswerConflict, Control, CurQuestions, lists
  <2>2. CASE Out
    BY <1>3, <2>1, <2>2
  <2>3. CASE cur' = [cur EXCEPT !.over = TRUE] /\ UNCHANGED frames
    <3>1. cur'.file = cur.file /\ cur'.stage = cur.stage
      BY <1>1, <2>3 DEF CurType
    <3> QED  BY <1>6, <2>1, <2>3, <3>1, IdleIs DEF Control
  <2> QED  BY <1>11, <2>2, <2>3 DEF AnswerConflict
<1>12. CASE AnswerRename
  <2>1. cur # Idle /\ cur.file \in File /\ cur.stage = "try" /\ removing = <<>>
        /\ question' = NoQuestion /\ UNCHANGED <<job, pc, removing, frames>>
        /\ pc \in {"prepare", "copy"}
    BY <1>0, <1>12 DEF AnswerRename, Control, CurQuestions, lists
  <2>2. cur'.file = cur.file /\ cur'.stage = cur.stage
    <3>1. PICK n \in NewNames : cur' = [cur EXCEPT !.dest = Append(Folders, n)]
      BY <1>12 DEF AnswerRename, Rename
    <3> QED  BY <1>1, <3>1 DEF CurType
  <2> QED  BY <1>6, <2>1, <2>2, IdleIs DEF Control
<1>13. CASE Empty
  <2>1. removing' # <<>>
    BY <1>13 DEF Empty
  <2>2. /\ cur # Idle /\ cur.file \in File /\ cur.stage = "try" /\ pc = "copy"
        /\ question = NoQuestion /\ UNCHANGED <<job, pc, question, cur, frames>>
    BY <1>13 DEF Empty, Result, Trying, Control, lists
  <2> QED  BY <1>0, <2>1, <2>2 DEF Control, IsMove
<1>14. CASE Recurse
  <2>1. /\ question = NoQuestion /\ removing = <<>> /\ cur.file \in File /\ pc = "copy"
        /\ UNCHANGED <<job, pc, question, removing>> /\ cur.stage = "try"
    BY <1>14 DEF Recurse, Result, Trying, Control, lists
  <2>2. CASE cur' = [cur EXCEPT !.stage = IF cur.over THEN "drop" ELSE "make"] /\ Result("recurse")
    <3>1. cur'.file = cur.file
      BY <1>1, <2>2 DEF CurType
    <3>2. cur.file \in Folder
      BY <2>2 DEF Result, Attempt
    <3> QED  BY <1>6, <2>1, <3>1, <3>2
  <2>3. CASE cur' = Idle
    BY <1>6, <2>1, <2>3, IdleIs
  <2> QED  BY <1>14, <2>2, <2>3 DEF Recurse, Enter
<1>15. CASE Stop
  BY <1>3, <1>15 DEF Stop, lists
<1>16. CASE AnswerError \/ AnswerMake
  <2>1. removing' = <<>>
    <3>1. question # NoQuestion
      BY <1>0, <1>16 DEF AnswerError, AnswerMake, Errors
    <3> QED  BY <1>16, <3>1 DEF AnswerError, AnswerMake, Control
  <2> QED  BY <1>3, <1>16, <2>1 DEF AnswerError, AnswerMake, NotMade, lists
<1>17. CASE Fail
  <2>1. /\ question = NoQuestion /\ removing' = <<>> /\ cur.file \in File /\ cur.stage = "try"
        /\ UNCHANGED <<job, pc>> /\ cur # Idle
    BY <1>17 DEF Fail, Trying, Control, lists
  <2>2. Trouble("failed", cur.file) /\ "failed" \in Errors \cap (CurQuestions \cup {"itself"})
    BY <1>17 DEF Fail, Errors, CurQuestions
  <2> QED  BY <1>5, <2>1, <2>2
<1>18. CASE RemoveTarget
  <2>1. /\ question = NoQuestion /\ cur.file \in File /\ cur.stage = "try" /\ cur # Idle
        /\ UNCHANGED <<job, pc>> /\ pc = "copy"
    BY <1>18 DEF RemoveTarget, Going, Control, lists
  <2>2. CASE UNCHANGED <<question, cur, frames>>
    BY <1>0, <2>1, <2>2 DEF Control, IsMove
  <2>3. CASE Trouble("target", cur.file) /\ removing' = <<>>
    <3>1. "target" \in Errors \cap (CurQuestions \cup {"itself"})
      BY DEF Errors, CurQuestions
    <3> QED  BY <1>5, <2>1, <2>3, <3>1
  <2> QED  BY <1>18, <2>2, <2>3 DEF RemoveTarget
<1>19. CASE DropOld
  <2>1. /\ question = NoQuestion /\ cur.file \in Folder /\ cur.file \in File /\ cur.stage = "drop"
        /\ removing' = <<>> /\ UNCHANGED <<job, pc>> /\ pc = "copy" /\ cur # Idle
    BY <1>19, FileAssumption, IdleIs DEF DropOld, Going, Control, lists
  <2>2. CASE cur' = [cur EXCEPT !.stage = "make"] /\ UNCHANGED question
    <3>1. cur'.file = cur.file
      BY <1>1, <2>2 DEF CurType
    <3> QED  BY <1>6, <2>1, <2>2, <3>1
  <2>3. CASE Trouble("old", cur.file)
    <3>1. "old" \in Errors \cap (CurQuestions \cup {"itself"})
      BY DEF Errors, CurQuestions
    <3> QED  BY <1>5, <2>1, <2>3, <3>1
  <2> QED  BY <1>19, <2>2, <2>3 DEF DropOld
<1>20. CASE MakeFolder
  <2>1. /\ question = NoQuestion /\ cur.file \in Folder /\ cur.file \in File /\ cur.stage = "make"
        /\ removing' = <<>> /\ removing = <<>> /\ UNCHANGED <<job, pc>> /\ pc = "copy" /\ cur # Idle
    BY <1>20, FileAssumption, IdleIs DEF MakeFolder, Going, Control, lists
  <2>2. CASE cur' = Idle /\ UNCHANGED question
    BY <1>6, <2>1, <2>2, IdleIs
  <2>3. CASE (\E p : cur' = [cur EXCEPT !.dest = p, !.handled = TRUE, !.stage = "try"])
             /\ UNCHANGED question
    <3>1. cur'.file = cur.file /\ cur'.stage = "try"
      BY <1>1, <2>3 DEF CurType
    <3> QED  BY <1>6, <2>1, <2>3, <3>1
  <2>4. CASE Ask("make", cur.file) /\ UNCHANGED cur
    <3>0. "make" \in Questions /\ cur.file \in File \cup {NoFile}
      BY <2>1 DEF Questions
    <3>1. question'.kind = "make" /\ question'.file = cur.file
      BY <2>4, <3>0, AskIs
    <3> QED  BY <2>1, <2>4, <3>1 DEF Control, IsMove
  <2>5. \/ cur' = Idle /\ UNCHANGED question
        \/ UNCHANGED question /\ \E p : cur' = [cur EXCEPT !.dest = p, !.handled = TRUE, !.stage = "try"]
        \/ Ask("make", cur.file) /\ UNCHANGED cur
    BY <1>20 DEF MakeFolder, Enter
  <2> QED  BY <2>2, <2>3, <2>4, <2>5
<1>21. ASSUME question' = NoQuestion, frames # <<>>, cur = Idle, UNCHANGED <<job, pc, cur, removing>>
       PROVE  Control'
  <2>1. removing' = <<>> /\ pc = "copy"
    BY <1>21 DEF Control
  <2> QED  BY <1>6, <1>21, <2>1, IdleIs
<1>22. ASSUME frames # <<>>, frames' # <<>>, cur = Idle, UNCHANGED <<job, pc, cur, removing>>,
              NEW k \in {"open", "list", "source"}, Ask(k, Call.dir), Call'.stage = Call.stage,
              k = "open" => Call.stage = "open", k = "list" => Call.stage = "list",
              k = "source" => Call.stage = "end"
       PROVE  Control'
  <2>1. question'.kind = k
    <3>1. k \in Questions /\ Call.dir \in File
      BY <1>22, CallTypes DEF Questions
    <3> QED  BY <1>22, <3>1, AskIs
  <2>2. removing' = <<>> /\ pc = "copy"
    BY <1>22 DEF Control
  <2>3. k \notin CurQuestions \cup {"none", "itself", "query", "space", "refused", "failed",
                                    "conflict", "target", "old", "make"}
    BY <1>22 DEF CurQuestions
  <2> QED  BY <1>22, <2>1, <2>2, <2>3, IdleIs DEF Control, IsMove
<1>23. CASE OpenDir
  <2>1. /\ frames # <<>> /\ cur = Idle /\ question = NoQuestion /\ Call.stage = "open"
        /\ UNCHANGED <<job, pc, cur, removing>>
    BY <1>23 DEF OpenDir, InFolder, Going, lists
  <2>2. CASE UNCHANGED question
    BY <1>21, <2>1, <2>2
  <2>3. CASE Ask("open", Call.dir) /\ UNCHANGED frames
    BY <1>22, <2>1, <2>3 DEF Call
  <2> QED  BY <1>23, <2>2, <2>3 DEF OpenDir
<1>24. CASE CloseDir
  <2>1. /\ frames # <<>> /\ cur = Idle /\ question = NoQuestion /\ Call.stage = "list"
        /\ UNCHANGED <<job, pc, cur, removing>>
    BY <1>24 DEF CloseDir, InFolder, lists
  <2>2. CASE UNCHANGED question
    BY <1>21, <2>1, <2>2
  <2>3. CASE Ask("list", Call.dir) /\ Calls([Call EXCEPT !.broken = FALSE])
    <3> DEFINE c == [Call EXCEPT !.broken = FALSE]
    <3>1. c \in Level /\ c.stage = Call.stage
      BY <2>1, CallTypes DEF Level
    <3>2. frames' = <<c>> \o Tail(frames)
      BY <2>3 DEF Calls
    <3> HIDE DEF c
    <3>3. frames' # <<>> /\ Call' = c
      BY <1>1, <2>1, <3>1, <3>2, HeadReplaced DEF Call
    <3> QED  BY <1>22, <2>1, <2>3, <3>1, <3>3
  <2> QED  BY <1>24, <2>2, <2>3 DEF CloseDir
<1>25. CASE EndDir
  <2>1. /\ frames # <<>> /\ cur = Idle /\ question = NoQuestion /\ Call.stage = "end"
        /\ UNCHANGED <<job, pc, cur, removing>>
    BY <1>25 DEF EndDir, InFolder, lists
  <2>2. CASE UNCHANGED question
    BY <1>21, <2>1, <2>2
  <2>3. CASE Ask("source", Call.dir) /\ UNCHANGED frames
    BY <1>22, <2>1, <2>3 DEF Call
  <2> QED  BY <1>25, <2>2, <2>3 DEF EndDir
<1>26. CASE LeaveDir \/ AnswerFolder \/ AnswerSource
  <2>1. /\ frames # <<>> /\ cur = Idle /\ question' = NoQuestion
        /\ UNCHANGED <<job, pc, cur, removing>>
    BY <1>26 DEF LeaveDir, AnswerFolder, AnswerSource, InFolder, Control, lists
  <2> QED  BY <1>21, <2>1
<1>27. ASSUME NEW f \in File, CopyChild(f) PROVE Control'
  <2>1. /\ frames # <<>> /\ cur = Idle /\ question' = NoQuestion /\ pc = "copy" /\ removing' = <<>>
        /\ UNCHANGED <<job, pc, removing>>
    BY <1>27 DEF CopyChild, InFolder, Going, Control, lists
  <2>2. cur' = Idle \/ (cur'.file = f /\ cur'.stage = "try")
    BY <1>27, <2>1 DEF CopyChild, Idle
  <2> QED  BY <1>6, <2>1, <2>2, IdleIs
<1>28. CASE Retry
  <2>1. CASE question.kind \in {"query", "space"}
    BY <1>0, <1>28, <2>1 DEF Retry, Control, IsMove, lists
  <2>2. CASE question.kind \in {"make", "open"}
    BY <1>0, <1>28, <2>2 DEF Retry, Control, IsMove, lists
  <2> QED  BY <1>28, <2>1, <2>2 DEF Retry
<1>29. CASE Cancel \/ UNCHANGED vars
  BY <1>2, <1>29 DEF Cancel, vars, lists
<1> QED
  BY <1>4, <1>7, <1>8, <1>9, <1>10, <1>11, <1>12, <1>13, <1>14, <1>15, <1>16, <1>17, <1>18, <1>19,
     <1>20, <1>23, <1>24, <1>25, <1>26, <1>27, <1>28, <1>29 DEF Next, Thread, Answer

-----------------------------------------------------------------------------
(* The shape of the destination *)

\* What is in the destination is in a folder that is in it.
IsTree == \A p \in DOMAIN dest : p # <<>> /\ \A q \in Above(p) : IsDir(q)

\* The folders copy_move_directory is in are in the destination, one in the other.
Nested == \A k \in DOMAIN frames :
            IsDir(frames[k].dest) /\ Len(frames[k].dest) = Len(frames) - k + 1

\* Only a move takes files away, and a folder not before all that is in it.
Emptied == /\ ~IsMove => src = File
           /\ \A d \in Folder \ src : Under(d) \cap src = {}

\* The file at work goes into the folder at hand; what may be removed for it.
CurPlaced ==
  cur # Idle =>
    /\ \E n \in Name : cur.dest = Append(Folders, n)
    /\ cur.stage = "make" => cur.dest \notin DOMAIN dest
    /\ cur.stage = "drop" => cur.over /\ ~IsDir(cur.dest)
    /\ removing # <<>> => cur.over /\ cur.file \notin Folder
    /\ \A i \in DOMAIN removing : IsPrefix(cur.dest, removing[i])

\* The two halves of ReportedTrue; what failed is asked about at once.
Reported ==
  \A p \in shown \cup DOMAIN dest : (p \in shown <=> p \in DOMAIN dest) \/ LeftAt(p)
Owned(f) == \/ f \in told \/ common.cancelled
            \/ question.kind = "failed" /\ question.file = f
LeftOwned == \A l \in left : Owned(l[1])

Shape ==
  /\ TypeOK /\ Control
  /\ IsTree /\ Nested /\ Emptied /\ CurPlaced /\ Reported /\ LeftOwned

LEMMA BelowTree ==
  ASSUME TypeOK, IsTree, NEW p \in Path, p # <<>>, NEW q \in Within(p)
  PROVE  q \in Path /\ p \in Above(q) /\ IsDir(p)
<1>1. q \in DOMAIN dest /\ q \in Path /\ IsPrefix(p, q) /\ p # q
  BY DEF Within, Below, TypeOK
<1>2. p \in Above(q)
  <2>1. Len(p) < Len(q)
    BY <1>1, PrefixLen DEF Path
  <2> QED  BY <1>1, <2>1, AboveMeans
<1> QED  BY <1>1, <1>2 DEF IsTree

LEMMA CurIs ==
  ASSUME Shape, cur # Idle
  PROVE  /\ cur.dest \in Path /\ cur.dest # <<>> /\ Len(cur.dest) = Len(frames) + 1
         /\ \A q \in Above(cur.dest) : IsDir(q) /\ ~IsPrefix(cur.dest, q)
         /\ \A k \in DOMAIN frames : ~IsPrefix(cur.dest, frames[k].dest)
<1>1. PICK n \in Name : cur.dest = Append(Folders, n)
  BY DEF Shape, CurPlaced
<1>2. Folders \in Path /\ Len(Folders) \in Nat /\ frames \in Seq(Level) /\ cur.dest \in Path
  BY FoldersTyped DEF Shape, TypeOK
<1>3. Len(Folders) = Len(frames) /\ (frames # <<>> => IsDir(Folders))
  <2>1. CASE frames = <<>>
    BY <2>1 DEF Folders
  <2>2. CASE frames # <<>>
    <3>1. 1 \in DOMAIN frames /\ Head(frames) = frames[1] /\ Len(frames) \in Nat
      BY <1>2, <2>2
    <3>2. IsDir(frames[1].dest) /\ Len(frames[1].dest) = Len(frames) - 1 + 1
      BY <3>1 DEF Shape, Nested
    <3> QED  BY <2>2, <3>1, <3>2 DEF Folders
  <2> QED  BY <2>1, <2>2
<1>4. Len(cur.dest) = Len(frames) + 1 /\ IsPrefix(Folders, cur.dest)
  BY <1>1, <1>2, <1>3, PrefixAppend
<1>5. ASSUME NEW q \in Above(cur.dest) PROVE IsDir(q) /\ ~IsPrefix(cur.dest, q)
  <2>1. q \in Path /\ q # <<>> /\ Len(q) < Len(cur.dest) /\ IsPrefix(q, cur.dest)
    BY <1>2, AboveMeans
  <2>2. ~IsPrefix(cur.dest, q)
    BY <1>2, <2>1, PrefixLen DEF Path
  <2>3. Len(q) \in Nat /\ Len(q) > 0 /\ Len(q) <= Len(Folders)
    BY <1>2, <1>3, <1>4, <2>1 DEF Path
  <2>4. IsPrefix(q, Folders)
    BY <1>2, <1>4, <2>1, <2>3, PrefixesNest
  <2>5. frames # <<>>
    BY <1>3, <2>3
  <2>6. CASE q = Folders
    BY <1>3, <2>5, <2>6, <2>2
  <2>7. CASE q # Folders
    <3>1. Len(q) < Len(Folders)
      BY <1>2, <2>1, <2>3, <2>4, <2>7, PrefixLen
    <3>2. q \in Above(Folders)
      BY <1>2, <2>1, <2>4, <3>1, AboveMeans
    <3> QED  BY <1>3, <2>2, <2>5, <3>2 DEF IsDir, Shape, IsTree
  <2> QED  BY <2>6, <2>7
<1>6. ASSUME NEW k \in DOMAIN frames PROVE ~IsPrefix(cur.dest, frames[k].dest)
  <2>1. Len(frames[k].dest) = Len(frames) - k + 1 /\ k >= 1 /\ k \in Nat /\ Len(frames) \in Nat
    BY <1>2 DEF Shape, Nested
  <2>2. frames[k].dest \in Path
    BY <1>2, LevelsTyped
  <2> QED  BY <1>2, <1>4, <2>1, <2>2, PrefixLen
<1>7. cur.dest # <<>>
  BY <1>4, <1>2 DEF TypeOK
<1> QED  BY <1>2, <1>4, <1>5, <1>6, <1>7

\* Only what is at p and below it is touched.
Around(p) == \A q \in DOMAIN dest : ~IsPrefix(p, q) => q \in DOMAIN dest' /\ dest'[q] = dest[q]

LEMMA IsDirIs ==
  \A q : IsDir(q)' <=> q \in DOMAIN dest' /\ dest'[q] \in Folder \cup {OldFolder}
  BY DEF IsDir

LEMMA PutTree ==
  ASSUME TypeOK, IsTree, NEW f \in File, NEW files, files \subseteq Under(f),
         \A g \in files : \A d \in Folder : d \in Under(f) /\ g \in Under(d) => d \in files,
         NEW p \in Path, p # <<>>, \A q \in Above(p) : IsDir(q) /\ ~IsPrefix(p, q),
         Put(f, p, files)
  PROVE  /\ IsTree' /\ Around(p)
         /\ \A q \in DOMAIN dest' : ~IsPrefix(p, q) => q \in DOMAIN dest
<1>t. TypeOK /\ IsTree /\ DOMAIN dest \subseteq Path
  BY DestPaths
<1>1. /\ DOMAIN dest' = (DOMAIN dest \ Below(p)) \cup Places(f, p, files)
      /\ \A g \in files : dest'[Place(f, p, g)] = g
      /\ \A q \in DOMAIN dest \ Below(p) : dest'[q] = dest[q]
  BY PutIs
<1>2. Around(p)
  <2> SUFFICES ASSUME NEW q \in DOMAIN dest, ~IsPrefix(p, q)
               PROVE  q \in DOMAIN dest' /\ dest'[q] = dest[q]
    BY DEF Around
  <2>1. q \in DOMAIN dest \ Below(p)
    BY BelowMeans
  <2> QED  BY <1>1, <2>1
<1>3. \A q \in DOMAIN dest' : ~IsPrefix(p, q) => q \in DOMAIN dest
  <2>1. \A g \in files : IsPrefix(p, Place(f, p, g))
    BY PlaceIs
  <2> QED  BY <1>1, <2>1 DEF Places
\* A folder that has something outside p in it is not in p.
<1>5. ASSUME NEW q \in Path, NEW v \in Above(q), ~IsPrefix(p, q), IsDir(v) PROVE IsDir(v)'
  <2>1. v \in Path /\ IsPrefix(v, q)
    BY <1>5, AboveMeans
  <2>2. ~IsPrefix(p, v)
    BY <1>5, <2>1, PrefixTrans
  <2>3. v \in DOMAIN dest' /\ dest'[v] = dest[v]
    BY <1>2, <1>5, <2>2 DEF Around, IsDir
  <2> QED  BY <1>5, <2>3, IsDirIs DEF IsDir
<1>6. ASSUME NEW q \in DOMAIN dest \ Below(p) PROVE q # <<>> /\ \A v \in Above(q) : IsDir(v)'
  <2>1. q \in Path /\ ~IsPrefix(p, q) /\ q # <<>> /\ \A v \in Above(q) : IsDir(v)
    BY <1>t, <1>6, BelowMeans DEF IsTree
  <2> QED  BY <1>5, <2>1
<1>7. ASSUME NEW g \in files, NEW v \in Above(Place(f, p, g)) PROVE IsDir(v)'
  <2>1. Place(f, p, g) \in Path /\ IsPrefix(p, Place(f, p, g)) /\ g \in Under(f)
    BY PlaceIs
  <2>2. v \in Path /\ v # <<>> /\ IsPrefix(v, Place(f, p, g)) /\ v # Place(f, p, g)
    BY <2>1, AboveMeans
  <2>3. CASE IsPrefix(p, v)
    <3>1. PICK d \in Folder : d \in Under(f) /\ g \in Under(d) /\ v = Place(f, p, d)
      BY <2>1, <2>2, <2>3, PlacesBetween
    <3>2. d \in files
      BY <3>1
    <3>3. v \in DOMAIN dest' /\ dest'[v] = d
      BY <1>1, <3>1, <3>2 DEF Places
    <3> QED  BY <3>1, <3>3, IsDirIs
  <2>4. CASE ~IsPrefix(p, v)
    <3>1. Len(v) < Len(p)
      BY <2>1, <2>2, <2>4, PrefixesNest DEF Path
    <3>2. IsPrefix(v, p)
      BY <2>1, <2>2, <3>1, PrefixesNest DEF Path
    <3>3. v \in Above(p)
      BY <2>2, <3>1, <3>2, AboveMeans
    <3>4. IsDir(v)
      BY <3>3
    <3>5. v \in DOMAIN dest' /\ dest'[v] = dest[v]
      BY <1>2, <2>4, <3>4 DEF Around, IsDir
    <3> QED  BY <3>4, <3>5, IsDirIs DEF IsDir
  <2> QED  BY <2>3, <2>4
<1>8. ASSUME NEW g \in files PROVE Place(f, p, g) # <<>>
  <2>1. IsPrefix(p, Place(f, p, g))
    BY PlaceIs
  <2> QED  BY <2>1, PrefixLen, PlaceIs DEF Path
<1>9. IsTree'
  BY <1>1, <1>6, <1>7, <1>8 DEF IsTree, Places
<1> QED  BY <1>2, <1>3, <1>9

LEMMA PutShape ==
  ASSUME Shape, NEW f \in File, NEW files, files \subseteq Under(f),
         \A g \in files : \A d \in Folder : d \in Under(f) /\ g \in Under(d) => d \in files,
         NEW p \in Path, p # <<>>, \A q \in Above(p) : IsDir(q) /\ ~IsPrefix(p, q),
         Put(f, p, files), Report(f, p, files), UNCHANGED left
  PROVE  IsTree' /\ Reported' /\ Around(p)
<1>1. TypeOK /\ IsTree /\ Reported
  BY DEF Shape
<1>2. IsTree' /\ Around(p)
  BY <1>1, PutTree
<1>3. DOMAIN dest' = (DOMAIN dest \ Below(p)) \cup Places(f, p, files)
  BY PutIs
<1>4. shown' = (shown \ {q \in shown : IsPrefix(p, q)}) \cup Places(f, p, files)
  BY <1>1, ReportTyped
<1>5. \A q : LeftAt(q)' = LeftAt(q)
  BY DEF LeftAt
<1>6. ASSUME NEW q \in shown' \cup DOMAIN dest'
      PROVE  (q \in shown' <=> q \in DOMAIN dest') \/ LeftAt(q)
  <2>1. CASE q \in Places(f, p, files)
    BY <1>3, <1>4, <2>1
  <2>2. CASE q \notin Places(f, p, files)
    <3>1. q \in DOMAIN dest' <=> q \in DOMAIN dest /\ ~IsPrefix(p, q)
      BY <1>3, <2>2, BelowMeans
    <3>2. q \in shown' <=> q \in shown /\ ~IsPrefix(p, q)
      BY <1>4, <2>2
    <3> QED  BY <1>1, <1>6, <3>1, <3>2 DEF Reported
  <2> QED  BY <2>1, <2>2
<1>7. Reported'
  BY <1>5, <1>6 DEF Reported
<1> QED  BY <1>2, <1>7

LEMMA GoneShape ==
  ASSUME Shape, NEW p \in Path, p # <<>>, Within(p) = {}, Gone(p), UNCHANGED left
  PROVE  IsTree' /\ Reported' /\ Around(p)
<1>1. /\ DOMAIN dest' = DOMAIN dest \ {p} /\ \A q \in DOMAIN dest' : dest'[q] = dest[q]
      /\ shown' \subseteq shown /\ \A q \in shown : q \in shown' <=> ~IsPrefix(p, q)
  BY GoneIs DEF Shape
<1>2. Reported /\ IsTree /\ DOMAIN dest \subseteq Path
  BY DEF Shape, TypeOK
<1>3. \A q \in DOMAIN dest : IsPrefix(p, q) <=> q = p
  BY <1>2, PrefixSelf DEF Within, Below
<1>4. Reported' /\ Around(p)
  <2>1. \A q : LeftAt(q)' = LeftAt(q)
    BY DEF LeftAt
  <2>2. ASSUME NEW q \in shown' \cup DOMAIN dest'
        PROVE  (q \in shown' <=> q \in DOMAIN dest') \/ LeftAt(q)
    <3>1. p \notin shown' /\ q # p
      BY <1>1, <2>2, PrefixSelf
    <3>2. q \in DOMAIN dest' <=> q \in DOMAIN dest
      BY <1>1, <3>1
    <3>3. q \in DOMAIN dest => (q \in shown' <=> q \in shown)
      BY <1>1, <1>3, <3>1
    <3>4. q \notin DOMAIN dest => q \in shown
      BY <1>1, <2>2
    <3> QED  BY <1>1, <1>2, <2>2, <3>2, <3>3, <3>4 DEF Reported
  <2> QED  BY <1>1, <1>3, <2>1, <2>2 DEF Reported, Around
<1>5. ASSUME NEW q \in DOMAIN dest', NEW v \in Above(q) PROVE IsDir(v)'
  <2>1. q \in Path /\ q \in DOMAIN dest /\ q # p /\ IsDir(v) /\ v \in Path /\ IsPrefix(v, q)
    BY <1>1, <1>2, <1>5, AboveMeans DEF IsTree
  <2>2. v # p
    BY <1>3, <2>1
  <2>3. v \in DOMAIN dest' /\ dest'[v] = dest[v]
    BY <1>1, <2>1, <2>2 DEF IsDir
  <2> QED  BY <2>1, <2>3, IsDirIs DEF IsDir
<1>6. IsTree'
  BY <1>1, <1>2, <1>5 DEF IsTree
<1> QED  BY <1>4, <1>6

\* The folders a renamed folder's files are in are renamed with it.
LEMMA FilesWhole ==
  ASSUME Emptied, NEW f \in File
  PROVE  /\ Under(f) \cap src \subseteq Under(f)
         /\ \A g \in Under(f) \cap src : \A d \in Folder :
              d \in Under(f) /\ g \in Under(d) => d \in Under(f) \cap src
  BY DEF Emptied

\* Nothing takes a cancel back, nor what the user knows.
LEMMA CancelStays ==
  ASSUME TypeOK, [Next]_vars, common.cancelled
  PROVE  common'.cancelled
<1>1. common \in CommonType
  BY TypeParts DEF AskTyped
<1>2. CASE UNCHANGED common
  BY <1>2
<1>3. CASE \/ Abort \/ common' = [common EXCEPT !.skipAll = TRUE]
           \/ common' = [common EXCEPT !.skipConflicts = TRUE]
           \/ common' = [common EXCEPT !.mergeAll = TRUE]
           \/ common' = [common EXCEPT !.replaceAll = TRUE]
  BY <1>1, <1>3 DEF Abort, CommonType
<1>4. CASE \/ Aborted \/ Done \/ Verify \/ Scan \/ TakeNext \/ ListDone \/ Succeed \/ Respell
           \/ NextName \/ Conflict \/ PutOff \/ Empty \/ Recurse \/ Stop \/ Fail \/ RemoveTarget
  BY <1>2, <1>4 DEF Aborted, Done, Verify, Scan, Going, TakeNext, ListDone, Succeed, Respell, NextName,
    Conflict, PutOff, Empty, Recurse, Stop, Fail, RemoveTarget
<1>5. CASE \/ DropOld \/ MakeFolder \/ OpenDir \/ (\E f \in File : CopyChild(f)) \/ CloseDir
           \/ EndDir \/ LeaveDir
  BY <1>2, <1>5 DEF DropOld, MakeFolder, OpenDir, CopyChild, CloseDir, EndDir, LeaveDir
<1>6. CASE \/ AnswerDestination \/ AnswerConflict \/ AnswerError \/ AnswerMake \/ AnswerFolder
           \/ AnswerSource \/ AnswerRename \/ Retry \/ Cancel \/ UNCHANGED vars
  BY <1>2, <1>3, <1>6 DEF AnswerDestination, AnswerConflict, AnswerError, AnswerMake, AnswerFolder,
    AnswerSource, AnswerRename, Retry, Cancel, Abort, vars
<1> QED  BY <1>4, <1>5, <1>6 DEF Next, Thread, Answer

LEMMA ToldGrows ==
  [Next]_vars => told \subseteq told' /\ merged \subseteq merged'
<1> SUFFICES ASSUME [Next]_vars PROVE told \subseteq told' /\ merged \subseteq merged'
  OBVIOUS
<1>1. CASE \/ Aborted \/ Done \/ Verify \/ Scan \/ ListDone \/ Succeed \/ Respell
           \/ NextName \/ PutOff \/ Empty \/ Stop
  BY <1>1 DEF Aborted, Done, Verify, Scan, ListDone, Succeed, Respell, NextName, PutOff, Empty,
    Stop, said
<1>2. CASE TakeNext \/ Conflict \/ Fail \/ RemoveTarget \/ DropOld
  BY <1>2 DEF TakeNext, Begin, Conflict, Fail, RemoveTarget, DropOld, Trouble
<1>3. CASE Recurse \/ MakeFolder
  BY <1>3 DEF Recurse, MakeFolder, Enter
<1>4. CASE OpenDir \/ (\E f \in File : CopyChild(f)) \/ CloseDir \/ EndDir \/ LeaveDir
  BY <1>4 DEF OpenDir, CopyChild, CloseDir, EndDir, LeaveDir, said
<1>5. CASE AnswerConflict \/ AnswerError \/ AnswerMake
  BY <1>5 DEF AnswerConflict, AnswerError, AnswerMake, said
<1>6. CASE \/ AnswerDestination \/ AnswerFolder \/ AnswerSource \/ AnswerRename \/ Retry \/ Cancel
           \/ UNCHANGED vars
  BY <1>6 DEF AnswerDestination, AnswerFolder, AnswerSource, AnswerRename, Retry, Cancel, vars, said
<1> QED  BY <1>1, <1>2, <1>3, <1>4, <1>5, <1>6 DEF Next, Thread, Answer

\* What each step that changes files does to the destination.
LEMMA DataShape ==
  ASSUME Shape, DataStep
  PROVE  IsTree' /\ Reported' /\ (UNCHANGED dest \/ (cur # Idle /\ Around(cur.dest)))
<1>1. CASE Still \/ Deletes
  <2>1. dest' = dest /\ shown' = shown /\ left' = left
    BY <1>1 DEF Still, Deletes
  <2>2. IsTree /\ Reported
    BY DEF Shape
  <2>3. \A q : IsDir(q)' <=> IsDir(q)
    BY <2>1 DEF IsDir
  <2>4. IsTree'
    BY <2>1, <2>2, <2>3 DEF IsTree
  <2>5. Reported'
    BY <2>1, <2>2 DEF Reported, LeftAt
  <2> QED  BY <2>1, <2>4, <2>5
<1>2. CASE Succeed
  <2>1. cur # Idle /\ cur.file \in File /\ cur.file \in src
    BY <1>2 DEF Succeed, Result, Trying, Attempt, Shape, Control
  <2>2. /\ Put(cur.file, cur.dest, Under(cur.file) \cap src)
        /\ Report(cur.file, cur.dest, Under(cur.file) \cap src) /\ UNCHANGED left
    BY <1>2 DEF Succeed
  <2>3. cur.file \in Under(cur.file) \cap src
    BY <2>1, UnderSelf
  <2>4. Emptied
    BY DEF Shape
  <2>5. PICK p \in Path : p = cur.dest
    BY <2>1, CurIs
  <2>6. /\ p # <<>> /\ \A q \in Above(p) : IsDir(q) /\ ~IsPrefix(p, q)
        /\ Put(cur.file, p, Under(cur.file) \cap src)
        /\ Report(cur.file, p, Under(cur.file) \cap src)
    BY <2>1, <2>2, <2>5, CurIs
  <2>7. IsTree' /\ Reported' /\ Around(p)
    BY <2>1, <2>2, <2>3, <2>4, <2>6, PutShape, FilesWhole
  <2> QED  BY <2>1, <2>5, <2>7
<1>3. CASE Makes
  <2>1. cur # Idle /\ cur.file \in File
    BY <1>3, FileAssumption, IdleIs DEF Makes
  <2>2. /\ Put(cur.file, cur.dest, {cur.file}) /\ Report(cur.file, cur.dest, {cur.file})
        /\ UNCHANGED left
    BY <1>3 DEF Makes
  <2>3. {cur.file} \subseteq Under(cur.file)
    BY <2>1, UnderSelf
  <2>4. \A d \in Folder : d \in Under(cur.file) /\ cur.file \in Under(d) => d \in {cur.file}
    BY <2>1, OneWay, FileAssumption
  <2>5. PICK p \in Path : p = cur.dest
    BY <2>1, CurIs
  <2>6. /\ p # <<>> /\ \A q \in Above(p) : IsDir(q) /\ ~IsPrefix(p, q)
        /\ Put(cur.file, p, {cur.file}) /\ Report(cur.file, p, {cur.file})
    BY <2>1, <2>2, <2>5, CurIs
  <2>7. IsTree' /\ Reported' /\ Around(p)
    BY <2>1, <2>2, <2>3, <2>4, <2>6, PutShape
  <2> QED  BY <2>1, <2>5, <2>7
<1>4. CASE Removes
  <2> DEFINE p == Head(removing)
  <2>1. cur # Idle /\ removing # <<>> /\ removing \in Seq(Path)
    BY <1>4 DEF Removes, Shape, Control, TypeOK
  <2>2. p \in Path /\ IsPrefix(cur.dest, p)
    BY <2>1 DEF Shape, CurPlaced
  <2>3. cur.dest \in Path /\ cur.dest # <<>>
    BY <2>1, CurIs
  <2>4. Within(p) = {} /\ Gone(p) /\ UNCHANGED left
    BY <1>4 DEF Removes
  <2> HIDE DEF p
  <2>5. p # <<>>
    BY <2>2, <2>3, PrefixLen DEF Path
  <2>6. IsTree' /\ Reported' /\ Around(p)
    BY <2>2, <2>4, <2>5, GoneShape
  <2>7. Around(cur.dest)
    <3>1. \A q \in DOMAIN dest : IsPrefix(p, q) => IsPrefix(cur.dest, q)
      BY <2>2, <2>3, PrefixTrans DEF Shape, TypeOK
    <3> QED  BY <2>6, <3>1 DEF Around
  <2> QED  BY <2>1, <2>6, <2>7
<1>5. CASE Drops
  <2>1. cur # Idle /\ ~IsDir(cur.dest)
    BY <1>5, IdleIs DEF Drops, Shape, CurPlaced
  <2>2. cur.dest \in Path /\ cur.dest # <<>>
    BY <2>1, CurIs
  <2>3. Within(cur.dest) = {}
    BY <2>1, <2>2, BelowTree DEF Shape
  <2> QED  BY <1>5, <2>1, <2>2, <2>3, GoneShape DEF Drops
<1>6. CASE Spills
  <2>1. /\ cur # Idle /\ cur.file \in src /\ shown' = shown
        /\ left' = left \cup {<<cur.file, cur.dest>>}
    BY <1>6 DEF Spills
  <2>2. PICK files \in Parts(cur.file) : Put(cur.file, cur.dest, files)
    BY <1>6 DEF Spills
  <2>3. TypeOK /\ IsTree /\ Emptied /\ Reported
    BY DEF Shape
  <2>4. cur.file \in File /\ files \subseteq Under(cur.file)
    BY <2>1, <2>3, PartsUnder
  <2>5. PICK p, f : p = cur.dest /\ f = cur.file
    OBVIOUS
  <2>6. \A g \in files : \A d \in Folder : d \in Under(f) /\ g \in Under(d) => d \in files
    <3>1. CASE files = Under(f) \cap src
      BY <2>3, <2>4, <2>5, <3>1, FilesWhole
    <3>2. CASE files = {f}
      BY <2>4, <2>5, <3>2, OneWay, FileAssumption
    <3> QED  BY <2>2, <2>5, <3>1, <3>2 DEF Parts
  <2>7. p \in Path /\ p # <<>> /\ \A q \in Above(p) : IsDir(q) /\ ~IsPrefix(p, q)
    BY <2>1, <2>5, CurIs
  <2>8. /\ IsTree' /\ Around(p)
        /\ \A q \in DOMAIN dest' : ~IsPrefix(p, q) => q \in DOMAIN dest
    BY <2>2, <2>3, <2>4, <2>5, <2>6, <2>7, PutTree
  <2>9. \A q : IsPrefix(p, q) \/ LeftAt(q) => LeftAt(q)'
    <3>1. PICK k \in left' : k[2] = p
      <4>1. <<f, p>> \in left' /\ <<f, p>>[2] = p
        BY <2>1, <2>5
      <4> QED  BY <4>1
    <3>2. left \subseteq left'
      BY <2>1
    <3> QED  BY <3>1, <3>2 DEF LeftAt
  <2>10. ASSUME NEW q \in shown' \cup DOMAIN dest'
         PROVE  (q \in shown' <=> q \in DOMAIN dest') \/ LeftAt(q)'
    <3>1. CASE IsPrefix(p, q)
      BY <2>9, <3>1
    <3>2. CASE ~IsPrefix(p, q)
      <4>1. q \in DOMAIN dest' <=> q \in DOMAIN dest
        BY <2>8, <3>2 DEF Around
      <4> QED  BY <2>1, <2>3, <2>9, <2>10, <4>1 DEF Reported
    <3> QED  BY <3>1, <3>2
  <2>11. Reported'
    BY <2>10 DEF Reported
  <2> QED  BY <2>1, <2>5, <2>8, <2>11
<1> QED  BY <1>1, <1>2, <1>3, <1>4, <1>5, <1>6 DEF DataStep

\* What a failed attempt left is known to the user from then on: the question is
\* not taken back before it is answered.
LEMMA OwnedStays ==
  ASSUME TypeOK, Control, [Next]_vars, NEW f, Owned(f)
  PROVE  Owned(f)'
<1>1. told \subseteq told'
  BY ToldGrows
<1>2. common.cancelled => common'.cancelled
  BY CancelStays
<1>3. CASE question.kind = "failed" /\ question.file = f
  <2>1. question # NoQuestion
    BY <1>3 DEF NoQuestion
  <2>2. CASE \/ Aborted \/ Done \/ Verify \/ Scan \/ TakeNext \/ ListDone \/ Succeed \/ Respell
             \/ NextName \/ Conflict \/ PutOff \/ Empty \/ Recurse \/ Stop \/ Fail
    <3>1. Done
      BY <2>1, <2>2 DEF Aborted, Verify, Scan, TakeNext, ListDone, Succeed, Respell, NextName,
        Conflict, PutOff, Empty, Recurse, Stop, Fail, Result, Trying, Going
    <3>2. question' = question
      BY <3>1 DEF Done
    <3> QED  BY <1>3, <3>2 DEF Owned
  <2>3. CASE \/ RemoveTarget \/ DropOld \/ MakeFolder \/ OpenDir \/ (\E g \in File : CopyChild(g))
             \/ CloseDir \/ EndDir \/ LeaveDir
    BY <2>1, <2>3 DEF RemoveTarget, DropOld, MakeFolder, OpenDir, CopyChild, CloseDir, EndDir,
      LeaveDir, Going
  <2>4. CASE AnswerError
    BY <1>3, <2>4, TypeParts DEF AnswerError, Abort, Owned, AskTyped, CommonType
  <2>5. CASE AnswerDestination \/ AnswerConflict \/ AnswerMake \/ AnswerFolder \/ AnswerSource
             \/ AnswerRename \/ Retry
    BY <1>3, <2>5 DEF AnswerDestination, AnswerConflict, AnswerMake, AnswerFolder, AnswerSource,
      AnswerRename, Retry
  <2>6. CASE Cancel \/ UNCHANGED vars
    BY <1>3, <2>6 DEF Cancel, vars, Owned
  <2> QED  BY <2>2, <2>3, <2>4, <2>5, <2>6 DEF Next, Thread, Answer
<1> QED  BY <1>1, <1>2, <1>3 DEF Owned

LEMMA NextLeftOwned ==
  ASSUME Shape, [Next]_vars
  PROVE  LeftOwned'
<1>1. TypeOK /\ Control /\ LeftOwned /\ DataStep
  BY DataSteps DEF Shape
<1>2. ASSUME NEW l \in left PROVE Owned(l[1])'
  <2>1. PICK f : f = l[1]
    OBVIOUS
  <2>2. Owned(f)
    BY <1>1, <1>2, <2>1 DEF LeftOwned
  <2>3. Owned(f)'
    BY <1>1, <2>2, OwnedStays
  <2> QED  BY <2>1, <2>3 DEF Owned
<1>3. CASE UNCHANGED left
  BY <1>2, <1>3 DEF LeftOwned
<1>4. CASE Spills
  <2>1. PICK f, p : f = cur.file /\ p = cur.dest
    OBVIOUS
  <2>2. left' = left \cup {<<f, p>>} /\ f \in File /\ "failed" \in Errors
    BY <1>1, <1>4, <2>1 DEF Spills, Errors, TypeOK
  <2>3. Owned(f)'
    BY <1>1, <1>4, <2>1, <2>2, TroubleIs DEF Spills, Owned
  <2>4. \A l \in left' : l \in left \/ l[1] = f
    BY <2>2
  <2> QED  BY <1>2, <2>3, <2>4 DEF LeftOwned, Owned
<1> QED  BY <1>1, <1>3, <1>4 DEF DataStep, Still, Succeed, Makes, Removes, Drops, Deletes

LEMMA NextEmptied ==
  ASSUME Shape, DataStep, UNCHANGED job
  PROVE  Emptied'
<1>1. src \subseteq File /\ (~IsMove => src = File) /\ \A d \in Folder \ src : Under(d) \cap src = {}
  BY DEF Shape, TypeOK, Emptied
<1>2. IsMove' = IsMove
  BY DEF IsMove
<1>3. CASE UNCHANGED src
  BY <1>1, <1>2, <1>3 DEF Emptied
<1>4. CASE Succeed /\ IsMove
  <2>1. src' = src \ (Under(cur.file) \cap src) /\ cur.file \in File
    BY <1>4 DEF Succeed, Result, Trying, Shape, Control
  <2>2. \A d \in Under(cur.file) : Under(d) \subseteq Under(cur.file)
    BY <2>1, UnderSelf
  <2>3. \A d \in Folder \ src' : Under(d) \cap src' = {}
    BY <1>1, <2>1, <2>2, FileAssumption
  <2> QED  BY <1>2, <1>4, <2>3 DEF Emptied
<1>5. CASE Deletes
  <2>1. src' = src \ {Call.dir} /\ Call.dir \in File /\ Present(Call.dir) = {} /\ IsMove
    BY <1>5, CallTypes DEF Deletes, InFolder, Shape
  <2>2. ASSUME NEW g \in Under(Call.dir), g # Call.dir PROVE g \notin src
    <3>1. PICK h \in Kids(Call.dir) : g \in Under(h)
      BY <2>1, <2>2, KidBetween
    <3>2. h \notin src /\ h \in File
      BY <2>1, KidsApart DEF Present
    <3>3. h = g \/ h \in Folder
      BY <3>1, <3>2, OnlyFoldersHold
    <3> QED  BY <1>1, <3>1, <3>2, <3>3
  <2>3. \A d \in Folder \ src' : Under(d) \cap src' = {}
    BY <1>1, <2>1, <2>2
  <2> QED  BY <1>2, <2>1, <2>3 DEF Emptied
<1>6. CASE Succeed /\ ~IsMove
  BY <1>3, <1>6 DEF Succeed
<1> QED  BY <1>3, <1>4, <1>5, <1>6 DEF DataStep, Still, Makes, Removes, Drops, Spills

\* The folders copy_move_directory is in: none comes or goes, a new one is
\* entered, the innermost one is left.
SameFolders ==
  /\ Len(frames') = Len(frames)
  /\ \A k \in DOMAIN frames : frames'[k].dir = frames[k].dir /\ frames'[k].dest = frames[k].dest
Enters ==
  /\ cur # Idle /\ cur.file \in Folder /\ cur' = Idle /\ UNCHANGED told
  /\ \E created \in BOOLEAN :
       /\ frames' = <<Frame(created)>> \o frames
       /\ created => Makes
       /\ ~created => Result("merge") /\ UNCHANGED dest
Leaves == frames # <<>> /\ cur = Idle /\ cur' = Idle /\ \E skip \in BOOLEAN : Return(skip)

LEMMA CallsSame ==
  ASSUME TypeOK, frames # <<>>, NEW c \in Level, c.dir = Call.dir, c.dest = Call.dest, Calls(c)
  PROVE  SameFolders
<1>1. frames' = <<c>> \o Tail(frames) /\ Call = frames[1] /\ frames \in Seq(Level)
  BY CallTypes DEF Calls, TypeOK
<1> QED  BY <1>1, HeadReplaced DEF SameFolders

LEMMA MarkSame ==
  ASSUME TypeOK, frames' = MarkIn(frames)
  PROVE  SameFolders
<1>1. frames \in Seq(Level)
  BY DEF TypeOK
<1> QED  BY <1>1, MarkTyped DEF SameFolders, SameLevel

LEMMA LearnSame ==
  ASSUME TypeOK, LearnFs(frames)
  PROVE  SameFolders
<1>1. frames \in Seq(Level)
  BY DEF TypeOK
<1> QED  BY <1>1, LearnTyped DEF SameFolders, SameLevel

LEMMA FrameSteps ==
  TypeOK /\ Control /\ [Next]_vars => SameFolders \/ Enters \/ Leaves
<1> SUFFICES ASSUME TypeOK, Control, [Next]_vars PROVE SameFolders \/ Enters \/ Leaves
  OBVIOUS
<1>1. ASSUME UNCHANGED frames PROVE SameFolders
  BY <1>1 DEF SameFolders
<1>2. ASSUME Out PROVE SameFolders
  BY <1>2, MarkSame DEF Out
<1>3. ASSUME NEW k, NEW f, Trouble(k, f) PROVE SameFolders
  BY <1>1, <1>2, <1>3 DEF Trouble
<1>4. CASE TakeNext
  <2>1. Out \/ UNCHANGED frames \/ Trouble("itself", Head(list).file)
    BY <1>4 DEF TakeNext, Begin
  <2> QED  BY <1>1, <1>2, <1>3, <2>1
<1>5. CASE Respell
  BY <1>5, LearnSame DEF Respell
<1>6. CASE Conflict \/ AnswerConflict
  <2>1. Out \/ UNCHANGED frames
    BY <1>6 DEF Conflict, AnswerConflict
  <2> QED  BY <1>1, <1>2, <2>1
<1>7. CASE Recurse
  <2>1. CASE Result("merge") /\ Enter(FALSE)
    <3>1. cur # Idle /\ cur.file \in Folder
      BY <2>1 DEF Result, Trying, Attempt
    <3> QED  BY <1>7, <2>1, <3>1 DEF Recurse, Enter, Enters, fileVars
  <2> QED  BY <1>1, <1>7, <2>1 DEF Recurse
<1>8. CASE Stop \/ AnswerError \/ AnswerMake
  BY <1>2, <1>8 DEF Stop, AnswerError, AnswerMake, NotMade
<1>9. CASE Fail \/ RemoveTarget \/ DropOld
  <2>1. UNCHANGED frames \/ \E k, f : Trouble(k, f)
    BY <1>9 DEF Fail, RemoveTarget, DropOld
  <2> QED  BY <1>1, <1>3, <2>1
<1>10. CASE MakeFolder
  <2>1. cur.file \in Folder /\ cur # Idle
    BY <1>10, IdleIs DEF MakeFolder, Control
  <2>2. \/ Makes
        \/ LearnFs(frames)
        \/ UNCHANGED frames
    BY <1>10, <2>1 DEF MakeFolder, Makes
  <2>3. Makes => Enters
    BY <2>1 DEF Makes, Enters, Enter
  <2> QED  BY <1>1, <2>2, <2>3, LearnSame
<1>11. CASE OpenDir \/ CloseDir \/ AnswerFolder
  <2>1. frames # <<>>
    BY <1>11 DEF OpenDir, CloseDir, AnswerFolder, InFolder, Control
  <2>2. UNCHANGED frames \/ \E c \in Level : c.dir = Call.dir /\ c.dest = Call.dest /\ Calls(c)
    <3>1. Call \in Level /\ Present(Call.dir) \subseteq File
      BY <2>1, CallTypes DEF Present, Kids, Under
    <3>2. CASE OpenDir
      <4>1. \A seen \in SUBSET File, b \in BOOLEAN :
              LET c == [Call EXCEPT !.stage = "list", !.left = seen, !.broken = b]
              IN c \in Level /\ c.dir = Call.dir /\ c.dest = Call.dest
        BY <3>1 DEF Level
      <4>2. LET c == [Call EXCEPT !.stage = "list", !.left = Present(Call.dir)]
            IN c \in Level /\ c.dir = Call.dir /\ c.dest = Call.dest
        BY <3>1 DEF Level
      <4>3. \/ UNCHANGED frames
            \/ Calls([Call EXCEPT !.stage = "list", !.left = Present(Call.dir)])
            \/ \E seen \in SUBSET File, b \in BOOLEAN :
                 Calls([Call EXCEPT !.stage = "list", !.left = seen, !.broken = b])
        BY <3>1, <3>2 DEF OpenDir
      <4> QED  BY <4>1, <4>2, <4>3
    <3>3. CASE CloseDir \/ AnswerFolder
      <4>1. \A c \in {[Call EXCEPT !.broken = FALSE], [Call EXCEPT !.stage = "end"],
                      [Call EXCEPT !.skip = TRUE, !.stage = "end"],
                      [Call EXCEPT !.skip = TRUE, !.stage = "list"]} :
              c \in Level /\ c.dir = Call.dir /\ c.dest = Call.dest
        BY <3>1 DEF Level
      <4>2. \/ UNCHANGED frames
            \/ \E c \in {[Call EXCEPT !.broken = FALSE], [Call EXCEPT !.stage = "end"],
                         [Call EXCEPT !.skip = TRUE, !.stage = "end"],
                         [Call EXCEPT !.skip = TRUE, !.stage = "list"]} : Calls(c)
        BY <3>3 DEF CloseDir, AnswerFolder
      <4> QED  BY <4>1, <4>2
    <3> QED  BY <1>11, <3>2, <3>3
  <2> QED  BY <1>1, <2>1, <2>2, CallsSame
<1>12. ASSUME NEW f \in File, CopyChild(f) PROVE SameFolders
  <2> DEFINE c == [Call EXCEPT !.left = Call.left \ {f}]
             rest == <<c>> \o Tail(frames)
  <2>1. frames # <<>> /\ Call = frames[1] /\ frames \in Seq(Level)
    BY <1>12, CallTypes DEF CopyChild, InFolder, TypeOK
  <2>2. c \in Level /\ c.dir = Call.dir /\ c.dest = Call.dest
    BY <2>1, CallTypes DEF Level
  <2>3. frames' = rest \/ frames' = MarkIn(rest)
    BY <1>12 DEF CopyChild
  <2> HIDE DEF c
  <2>4. /\ rest \in Seq(Level) /\ Len(rest) = Len(frames)
        /\ \A k \in DOMAIN frames : rest[k].dir = frames[k].dir /\ rest[k].dest = frames[k].dest
    BY <2>1, <2>2, HeadReplaced
  <2> HIDE DEF rest
  <2>5. /\ Len(MarkIn(rest)) = Len(rest)
        /\ \A k \in DOMAIN rest : /\ MarkIn(rest)[k].dir = rest[k].dir
                                 /\ MarkIn(rest)[k].dest = rest[k].dest
    BY <2>4, MarkTyped DEF SameLevel
  <2>6. DOMAIN rest = DOMAIN frames
    BY <2>1, <2>4
  <2> QED  BY <2>3, <2>4, <2>5, <2>6 DEF SameFolders
<1>13. CASE EndDir \/ LeaveDir \/ AnswerSource
  <2>1. frames # <<>> /\ cur = Idle /\ cur' = Idle
    BY <1>13 DEF EndDir, LeaveDir, AnswerSource, InFolder, Control
  <2>2. Call.skip \in BOOLEAN
    BY <2>1, CallTypes DEF Level
  <2>3. UNCHANGED frames \/ \E skip \in BOOLEAN : Return(skip)
    BY <1>13, <2>2 DEF EndDir, LeaveDir, AnswerSource
  <2> QED  BY <1>1, <2>1, <2>3 DEF Leaves
<1>14. CASE \/ Aborted \/ Done \/ Verify \/ Scan \/ ListDone \/ Succeed \/ NextName \/ PutOff
            \/ Empty \/ AnswerDestination \/ AnswerRename \/ Retry \/ Cancel \/ UNCHANGED vars
  BY <1>1, <1>14 DEF Aborted, Done, Verify, Scan, ListDone, Succeed, NextName, PutOff, Empty,
    AnswerDestination, AnswerRename, Retry, Cancel, vars
<1> QED
  BY <1>4, <1>5, <1>6, <1>7, <1>8, <1>9, <1>10, <1>11, <1>12, <1>13, <1>14
     DEF Next, Thread, Answer

LEMMA PutSelf ==
  ASSUME NEW f \in File, NEW p \in Path, NEW files, files \subseteq Under(f), f \in files,
         Put(f, p, files)
  PROVE  p \in DOMAIN dest' /\ dest'[p] = f
<1>1. Place(f, p, f) = p
  BY PlaceSelf
<1>2. /\ DOMAIN dest' = (DOMAIN dest \ Below(p)) \cup Places(f, p, files)
      /\ \A g \in files : dest'[Place(f, p, g)] = g
  BY PutIs
<1> QED  BY <1>1, <1>2 DEF Places

LEMMA LeavesIs ==
  ASSUME TypeOK, Leaves
  PROVE  /\ frames' \in Seq(Level) /\ Len(frames') = Len(frames) - 1
         /\ \A k \in DOMAIN frames' : /\ k \in Nat /\ k >= 1 /\ k + 1 \in DOMAIN frames
                                     /\ SameLevel(frames'[k], frames[k + 1])
                                     /\ frames'[k].fs = frames[k + 1].fs
<1>1. frames \in Seq(Level) /\ frames # <<>>
  BY DEF Leaves, TypeOK
<1> DEFINE t == Tail(frames)
<1>2. /\ t \in Seq(Level) /\ Len(t) = Len(frames) - 1 /\ Len(frames) \in Nat
      /\ \A k \in 1 .. Len(frames) - 1 : t[k] = frames[k + 1]
  BY <1>1, TailIs
<1>3. frames' = t \/ frames' = MarkIn(t)
  BY DEF Leaves, Return
<1> HIDE DEF t
<1>4. \A k \in 1 .. Len(t) : SameLevel(t[k], t[k])
  BY DEF SameLevel
<1>5. /\ MarkIn(t) \in Seq(Level) /\ Len(MarkIn(t)) = Len(t)
      /\ \A k \in 1 .. Len(t) : SameLevel(MarkIn(t)[k], t[k]) /\ MarkIn(t)[k].fs = t[k].fs
  BY <1>2, MarkTyped
<1>6. /\ frames' \in Seq(Level) /\ Len(frames') = Len(t)
      /\ \A k \in 1 .. Len(t) : SameLevel(frames'[k], t[k]) /\ frames'[k].fs = t[k].fs
  BY <1>2, <1>3, <1>4, <1>5
<1>7. DOMAIN frames' = 1 .. Len(frames) - 1 /\ DOMAIN frames = 1 .. Len(frames)
  BY <1>1, <1>2, <1>6
<1> QED  BY <1>2, <1>6, <1>7

LEMMA NextNested ==
  ASSUME Shape, [Next]_vars
  PROVE  Nested'
<1>1. TypeOK /\ Control /\ Nested /\ DataStep /\ frames \in Seq(Level)
  BY DataSteps DEF Shape, TypeOK
<1>3. ASSUME NEW p, IsDir(p), cur # Idle => ~IsPrefix(cur.dest, p)
      PROVE  p \in DOMAIN dest' /\ dest'[p] \in Folder \cup {OldFolder}
  <2>1. p \in DOMAIN dest /\ dest[p] \in Folder \cup {OldFolder}
    BY <1>3 DEF IsDir
  <2>2. UNCHANGED dest \/ (cur # Idle /\ Around(cur.dest))
    BY <1>1, DataShape
  <2> QED  BY <1>3, <2>1, <2>2 DEF Around
<1>4. ASSUME NEW k \in DOMAIN frames
      PROVE  /\ frames[k].dest \in DOMAIN dest' /\ dest'[frames[k].dest] \in Folder \cup {OldFolder}
             /\ Len(frames[k].dest) = Len(frames) - k + 1
  <2>1. IsDir(frames[k].dest) /\ Len(frames[k].dest) = Len(frames) - k + 1
    BY <1>1 DEF Nested
  <2>2. cur # Idle => ~IsPrefix(cur.dest, frames[k].dest)
    BY CurIs
  <2> QED  BY <1>3, <2>1, <2>2
<1> DEFINE N(k) == /\ frames'[k].dest \in DOMAIN dest'
                   /\ dest'[frames'[k].dest] \in Folder \cup {OldFolder}
                   /\ Len(frames'[k].dest) = Len(frames') - k + 1
<1>5. (\A k \in DOMAIN frames' : N(k)) => Nested'
  BY DEF Nested, IsDir
<1>t. frames' \in Seq(Level)
  BY <1>1, NextCalls DEF CallTyped
<1>6. CASE SameFolders
  <2>1. DOMAIN frames' = DOMAIN frames
    BY <1>1, <1>t, <1>6 DEF SameFolders
  <2> QED  BY <1>4, <1>5, <1>6, <2>1 DEF SameFolders
<1>7. CASE Enters
  <2>1. PICK created \in BOOLEAN :
          /\ frames' = <<Frame(created)>> \o frames
          /\ created => Makes
          /\ ~created => Result("merge") /\ UNCHANGED dest
    BY <1>7 DEF Enters
  <2>2. cur # Idle /\ cur.file \in Folder /\ cur.file \in File
    BY <1>7, FileAssumption DEF Enters
  <2>3. cur.dest \in Path /\ Len(cur.dest) = Len(frames) + 1
    BY <2>2, CurIs
  <2>4. Frame(created) \in Level /\ Frame(created).dest = cur.dest
    BY <2>2, <2>3 DEF Frame, Level
  <2>5. /\ Len(frames') = Len(frames) + 1
        /\ \A k \in 1 .. Len(frames) + 1 :
             frames'[k] = IF k = 1 THEN Frame(created) ELSE frames[k - 1]
    BY <1>1, <2>1, <2>4, HeadAdded
  <2>6. DOMAIN frames = 1 .. Len(frames) /\ DOMAIN frames' = 1 .. Len(frames) + 1
        /\ Len(frames) \in Nat
    BY <1>1, <1>t, <2>5
  <2>7. cur.dest \in DOMAIN dest' /\ dest'[cur.dest] \in Folder \cup {OldFolder}
    <3>1. CASE created
      <4>1. Put(cur.file, cur.dest, {cur.file})
        BY <2>1, <3>1 DEF Makes
      <4>2. {cur.file} \subseteq Under(cur.file)
        BY <2>2, UnderSelf
      <4>3. PICK p \in Path : p = cur.dest
        BY <2>3
      <4>4. Put(cur.file, p, {cur.file})
        BY <4>1, <4>3
      <4>5. p \in DOMAIN dest' /\ dest'[p] = cur.file
        BY <2>2, <4>2, <4>4, PutSelf
      <4> QED  BY <2>2, <4>3, <4>5
    <3>2. CASE ~created
      <4>1. IsDir(cur.dest) /\ UNCHANGED dest
        BY <2>1, <3>2 DEF Result, Attempt
      <4> QED  BY <4>1 DEF IsDir
    <3> QED  BY <3>1, <3>2
  <2>8. ASSUME NEW k \in 1 .. Len(frames) + 1 PROVE N(k)
    <3>1. CASE k = 1
      BY <2>3, <2>4, <2>5, <2>6, <2>7, <3>1
    <3>2. CASE k # 1
      <4>1. k - 1 \in DOMAIN frames /\ frames'[k] = frames[k - 1]
        BY <2>5, <2>6, <3>2
      <4>2. Len(frames[k - 1].dest) = Len(frames) - (k - 1) + 1
        BY <1>4, <4>1
      <4>3. Len(frames'[k].dest) = Len(frames') - k + 1
        BY <2>5, <2>6, <4>1, <4>2
      <4> QED  BY <1>4, <4>1, <4>3
    <3> QED  BY <3>1, <3>2
  <2> QED  BY <1>5, <2>6, <2>8
<1>8. CASE Leaves
  <2>1. ASSUME NEW k \in DOMAIN frames' PROVE N(k)
    <3>1. /\ k + 1 \in DOMAIN frames /\ frames'[k].dest = frames[k + 1].dest /\ k \in Nat
          /\ Len(frames') = Len(frames) - 1 /\ Len(frames) \in Nat
      BY <1>1, <1>8, LeavesIs DEF SameLevel
    <3>2. Len(frames[k + 1].dest) = Len(frames) - (k + 1) + 1
      BY <1>4, <3>1
    <3> QED  BY <1>4, <3>1, <3>2
  <2> QED  BY <1>5, <2>1
<1> QED  BY <1>1, <1>6, <1>7, <1>8, FrameSteps

LEMMA FoldersSame ==
  ASSUME TypeOK, frames' \in Seq(Level), SameFolders
  PROVE  Folders' = Folders
<1>1. CASE frames = <<>>
  BY <1>1 DEF SameFolders, Folders, TypeOK
<1>2. CASE frames # <<>>
  <2>1. frames \in Seq(Level) /\ Len(frames') = Len(frames)
    BY DEF SameFolders, TypeOK
  <2>2. 1 \in DOMAIN frames /\ Head(frames) = frames[1]
    BY <1>2, <2>1
  <2>3. frames' # <<>> /\ Head(frames') = frames'[1]
    BY <1>2, <2>1
  <2>4. frames'[1].dest = frames[1].dest
    BY <2>2 DEF SameFolders
  <2> QED  BY <1>2, <2>2, <2>3, <2>4 DEF Folders
<1> QED  BY <1>1, <1>2

LEMMA TargetPlaced ==
  ASSUME TypeOK, HasName, cur.file \in File, NEW fs \in BOOLEAN
  PROVE  \E n \in Name : Target(cur.file, cur.nth, fs) = Append(Folders, n)
<1>1. cur.nth \in Nat
  BY DEF TypeOK
<1> QED  BY <1>1, TargetTyped DEF HasName

\* The calls that a file is tried with next, in the same folder.
LEMMA NextPlaced ==
  ASSUME Shape, [Next]_vars
  PROVE  CurPlaced'
<1> DEFINE Anew == /\ cur'.stage = "try" /\ removing' = <<>> /\ SameFolders
                   /\ \E n \in Name : cur'.dest = Append(Folders, n)
           Same == /\ cur # Idle /\ UNCHANGED <<frames, dest>> /\ cur'.dest = cur.dest
                   /\ cur'.file = cur.file /\ cur'.over = cur.over
                   /\ cur'.stage = cur.stage /\ UNCHANGED removing
<1>1. /\ TypeOK /\ Control /\ frames \in Seq(Level) /\ frames' \in Seq(Level)
      /\ cur \in CurType /\ FsKnown \in BOOLEAN
  BY NextCalls, TypeParts, FoldersTyped DEF Shape, CallTyped
<1>2. cur' = Idle => CurPlaced'
  BY DEF CurPlaced
<1>3. ASSUME Anew PROVE CurPlaced'
  <2>1. Folders' = Folders
    BY <1>1, <1>3, FoldersSame
  <2>2. DOMAIN removing' = {}
    BY <1>3
  <2> QED  BY <1>3, <2>1, <2>2 DEF CurPlaced
<1>4. ASSUME Same PROVE CurPlaced'
  <2>1. IsDir(cur.dest)' = IsDir(cur.dest) /\ Folders' = Folders
    BY <1>4 DEF IsDir, Folders
  <2> QED  BY <1>4, <2>1 DEF CurPlaced, Shape
<1>5. ASSUME NEW f \in File
      PROVE  \E n \in Name : Target(f, 1, FsKnown) = Append(Folders, n)
  BY <1>1, FirstNamed, TargetTyped
<1>6. ASSUME NEW k, NEW f, Trouble(k, f), cur # Idle, UNCHANGED <<dest, removing>> PROVE CurPlaced'
  BY <1>2, <1>4, <1>6 DEF Trouble, Out
<1>7. CASE TakeNext
  <2> DEFINE f == Head(list).file
             c == [Idle EXCEPT !.file = f, !.dest = Target(f, 1, FsKnown), !.over = Head(list).over,
                               !.handled = FsKnown, !.nth = 2]
  <2>1. f \in File /\ cur = Idle /\ removing' = <<>>
    BY <1>1, <1>7, EntriesTyped, TypeParts DEF TakeNext, ListTyped, Control
  <2>2. \/ cur' = Idle
        \/ UNCHANGED cur
        \/ cur' = c /\ UNCHANGED frames
    BY <1>7 DEF TakeNext, Begin, Out, Trouble
  <2>3. c.dest = Target(f, 1, FsKnown) /\ c.stage = "try"
    BY DEF Idle
  <2> HIDE DEF c, f
  <2> QED  BY <1>2, <1>3, <1>5, <2>1, <2>2, <2>3 DEF SameFolders
<1>8. ASSUME NEW f \in File, CopyChild(f) PROVE CurPlaced'
  <2> DEFINE c == [Idle EXCEPT !.file = f, !.dest = Target(f, 1, FsKnown), !.over = FALSE,
                               !.handled = FsKnown, !.nth = 2]
  <2>1. cur = Idle /\ removing' = <<>>
    BY <1>1, <1>8 DEF CopyChild, InFolder, Control
  <2>2. UNCHANGED cur \/ cur' = c
    BY <1>8 DEF CopyChild
  <2>3. c.dest = Target(f, 1, FsKnown) /\ c.stage = "try"
    BY DEF Idle
  <2> HIDE DEF c
  <2>4. SameFolders \/ cur' = Idle
    <3>1. (Leaves \/ Enters) => cur' = Idle
      BY DEF Leaves, Enters
    <3> QED  BY <1>1, <3>1, FrameSteps
  <2> QED  BY <1>2, <1>3, <1>5, <2>1, <2>2, <2>3, <2>4
<1>9. CASE Respell
  <2> DEFINE new == Target(cur.file, cur.nth, TRUE)
  <2>1. /\ cur.file \in File /\ cur # Idle /\ cur.stage = "try" /\ removing' = <<>> /\ HasName
    BY <1>1, <1>9 DEF Respell, Result, Trying, Control
  <2>2. \E n \in Name : new = Append(Folders, n)
    BY <1>1, <2>1, TargetPlaced
  <2>3. \E n \in Name : cur.dest = Append(Folders, n)
    BY <2>1 DEF Shape, CurPlaced
  <2>4. SameFolders
    BY <1>1, <1>9, LearnSame DEF Respell
  <2>5. \/ cur' = [cur EXCEPT !.dest = new, !.handled = TRUE]
        \/ cur' = Idle
        \/ cur' = [cur EXCEPT !.handled = TRUE]
    BY <1>9 DEF Respell
  <2> HIDE DEF new
  <2>6. cur' = Idle \/ (cur'.stage = "try" /\ cur'.dest \in {new, cur.dest})
    BY <1>1, <2>1, <2>5 DEF CurType
  <2> QED  BY <1>2, <1>3, <2>1, <2>2, <2>3, <2>4, <2>6
<1>10. CASE NextName
  <2> DEFINE new == Target(cur.file, cur.nth, FsKnown)  m == cur.nth + 1
  <2>1. /\ cur.file \in File /\ cur # Idle /\ cur.stage = "try" /\ removing' = <<>> /\ HasName
        /\ UNCHANGED frames
    BY <1>1, <1>10 DEF NextName, Result, Trying, Control
  <2>2. \E n \in Name : new = Append(Folders, n)
    BY <1>1, <2>1, TargetPlaced
  <2>3. cur' = [cur EXCEPT !.dest = new, !.nth = m]
    BY <1>10 DEF NextName
  <2> HIDE DEF new, m
  <2>4. cur'.stage = "try" /\ cur'.dest = new
    BY <1>1, <2>1, <2>3 DEF CurType
  <2> QED  BY <1>3, <2>1, <2>2, <2>4 DEF SameFolders
<1>11. CASE Conflict \/ AnswerConflict
  <2>1. cur # Idle /\ cur.stage = "try" /\ removing' = <<>>
    <3>1. CASE Conflict
      BY <1>1, <3>1 DEF Conflict, Result, Trying
    <3>2. CASE AnswerConflict
      BY <1>1, <3>2 DEF AnswerConflict, Control, CurQuestions, NoQuestion
    <3> QED  BY <1>11, <3>1, <3>2
  <2>2. cur' = Idle \/ (cur' = [cur EXCEPT !.over = TRUE] /\ UNCHANGED frames)
        \/ UNCHANGED <<cur, frames>>
    BY <1>11 DEF Conflict, AnswerConflict, Out
  <2>3. cur' = Idle \/ (cur'.stage = "try" /\ cur'.dest = cur.dest /\ UNCHANGED frames)
    BY <1>1, <2>1, <2>2 DEF CurType
  <2>4. \E n \in Name : cur.dest = Append(Folders, n)
    BY <2>1 DEF Shape, CurPlaced
  <2> QED  BY <1>2, <1>3, <2>1, <2>3, <2>4 DEF SameFolders
<1>12. CASE AnswerRename
  <2>1. cur.stage = "try" /\ removing' = <<>> /\ UNCHANGED frames
    BY <1>1, <1>12 DEF AnswerRename, Control, NoQuestion
  <2>2. PICK n \in NewNames : cur' = [cur EXCEPT !.dest = Append(Folders, n)]
    BY <1>12 DEF AnswerRename, Rename
  <2>3. cur'.stage = "try" /\ cur'.dest = Append(Folders, n) /\ n \in Name
    BY <1>1, <2>1, <2>2, NameAssumption DEF CurType
  <2> QED  BY <1>3, <2>1, <2>3 DEF SameFolders
<1>13. ASSUME UNCHANGED <<cur, frames, removing, dest>> PROVE CurPlaced'
  BY <1>2, <1>4, <1>13
<1>14. CASE Succeed \/ PutOff \/ Stop \/ AnswerError \/ AnswerMake
  BY <1>2, <1>14 DEF Succeed, PutOff, Stop, AnswerError, AnswerMake, NotMade, Out
<1>15. CASE Empty
  <2>1. /\ cur # Idle /\ cur.stage = "try" /\ cur.over /\ cur.file \notin Folder
        /\ cur.dest \in Path /\ removing' = <<cur.dest>> /\ UNCHANGED <<cur, frames>>
    BY <1>15, CurIs DEF Empty, Result, Trying, Attempt, IsDir
  <2>2. \A i \in DOMAIN removing' : IsPrefix(cur.dest, removing'[i])
    BY <2>1, PrefixSelf
  <2>3. \E n \in Name : cur.dest = Append(Folders, n)
    BY <2>1 DEF Shape, CurPlaced
  <2>4. Folders' = Folders
    BY <2>1 DEF Folders
  <2> QED  BY <2>1, <2>2, <2>3, <2>4 DEF CurPlaced
<1>16. CASE Recurse
  <2>1. cur' = Idle \/ (cur' = [cur EXCEPT !.stage = IF cur.over THEN "drop" ELSE "make"]
                        /\ Result("recurse") /\ UNCHANGED frames)
    BY <1>16 DEF Recurse, Enter
  <2>2. CASE /\ cur' = [cur EXCEPT !.stage = IF cur.over THEN "drop" ELSE "make"]
             /\ Result("recurse") /\ UNCHANGED frames
    <3>1. /\ cur.file \in Folder /\ cur # Idle /\ removing = <<>> /\ removing' = <<>> /\ dest' = dest
          /\ ~IsDir(cur.dest) /\ (cur.dest \in DOMAIN dest => cur.over)
      BY <1>16, <2>2 DEF Recurse, Result, Trying, Attempt, fileVars
    <3>2. /\ cur'.dest = cur.dest /\ cur'.over = cur.over
          /\ cur'.stage = IF cur.over THEN "drop" ELSE "make"
      BY <1>1, <2>2 DEF CurType
    <3>3. \E n \in Name : cur.dest = Append(Folders, n)
      BY <3>1 DEF Shape, CurPlaced
    <3>4. Folders' = Folders /\ ~IsDir(cur.dest)'
      BY <2>2, <3>1, <3>2 DEF Folders, IsDir
    <3> QED  BY <3>1, <3>2, <3>3, <3>4 DEF CurPlaced
  <2> QED  BY <1>2, <2>1, <2>2
<1>17. CASE Fail
  <2>1. /\ cur # Idle /\ cur.stage = "try" /\ removing' = <<>>
        /\ cur' = Idle \/ UNCHANGED <<cur, frames>>
    BY <1>17 DEF Fail, Trying, Trouble, Out
  <2>2. \E n \in Name : cur.dest = Append(Folders, n)
    BY <2>1 DEF Shape, CurPlaced
  <2> QED  BY <1>2, <1>3, <2>1, <2>2 DEF SameFolders
<1>18. CASE RemoveTarget
  <2>1. /\ cur # Idle /\ cur.stage = "try" /\ removing # <<>> /\ removing \in Seq(Path)
        /\ cur.dest \in Path /\ \E n \in Name : cur.dest = Append(Folders, n)
        /\ cur.over /\ cur.file \notin Folder
        /\ \A i \in DOMAIN removing : IsPrefix(cur.dest, removing[i])
    BY <1>1, <1>18 DEF RemoveTarget, Control, Shape, CurPlaced, TypeOK
  <2>2. CASE cur' = Idle
    BY <1>2, <2>2
  <2>3. CASE UNCHANGED <<cur, frames>>
    <3>1. \A i \in DOMAIN removing' : IsPrefix(cur.dest, removing'[i])
      <4>1. CASE removing' = <<>>
        BY <4>1
      <4>2. CASE removing' = Tail(removing)
        <5>1. \A i \in DOMAIN Tail(removing) : i + 1 \in DOMAIN removing
                                              /\ Tail(removing)[i] = removing[i + 1]
          BY <2>1
        <5> QED  BY <2>1, <4>2, <5>1
      <4>3. ASSUME NEW q \in Within(Head(removing)), removing' = <<q>> \o removing
            PROVE  \A i \in DOMAIN removing' : IsPrefix(cur.dest, removing'[i])
        <5>1. 1 \in DOMAIN removing /\ Head(removing) = removing[1] /\ removing[1] \in Path
          BY <2>1
        <5>2. q \in Path /\ IsPrefix(Head(removing), q)
          BY <1>1, <4>3, DestPaths DEF Within, Below
        <5>3. IsPrefix(cur.dest, q)
          BY <2>1, <5>1, <5>2, PrefixTrans
        <5>4. /\ <<q>> \o removing \in Seq(Path) /\ Len(<<q>> \o removing) = Len(removing) + 1
              /\ \A k \in 1 .. Len(removing) + 1 :
                   (<<q>> \o removing)[k] = IF k = 1 THEN q ELSE removing[k - 1]
          BY <2>1, <5>2, HeadAdded
        <5>5. \A i \in DOMAIN removing' :
                \/ i = 1 /\ removing'[i] = q
                \/ i - 1 \in DOMAIN removing /\ removing'[i] = removing[i - 1]
          <6> DEFINE t == <<q>> \o removing
          <6>1. removing' = t /\ DOMAIN t = 1 .. Len(removing) + 1 /\ Len(removing) \in Nat
                /\ DOMAIN removing = 1 .. Len(removing)
            BY <2>1, <4>3, <5>4
          <6>2. \A k \in 1 .. Len(removing) + 1 : t[k] = IF k = 1 THEN q ELSE removing[k - 1]
            BY <5>4
          <6> HIDE DEF t
          <6>3. \A i \in DOMAIN t :
                  \/ i = 1 /\ t[i] = q
                  \/ i - 1 \in DOMAIN removing /\ t[i] = removing[i - 1]
            BY <6>1, <6>2
          <6> QED  BY <6>1, <6>3
        <5> QED  BY <2>1, <5>3, <5>5
      <4> QED  BY <1>18, <4>1, <4>2, <4>3 DEF RemoveTarget
    <3>2. Folders' = Folders
      BY <2>3 DEF Folders
    <3> QED  BY <2>1, <2>3, <3>1, <3>2 DEF CurPlaced
  <2> QED  BY <1>18, <2>2, <2>3 DEF RemoveTarget, Trouble, Out
<1>19. CASE DropOld
  <2>1. /\ cur # Idle /\ removing = <<>> /\ removing' = <<>>
    BY <1>1, <1>19, IdleIs DEF DropOld, Control
  <2>2. CASE Gone(cur.dest) /\ cur' = [cur EXCEPT !.stage = "make"] /\ UNCHANGED frames
    <3>1. cur'.dest = cur.dest /\ cur'.stage = "make"
      BY <1>1, <2>2 DEF CurType
    <3>2. DOMAIN dest' = DOMAIN dest \ {cur.dest}
      BY <2>2 DEF Gone
    <3>3. Folders' = Folders
      BY <2>2 DEF Folders
    <3>4. \E n \in Name : cur.dest = Append(Folders, n)
      BY <2>1 DEF Shape, CurPlaced
    <3> QED  BY <2>1, <3>1, <3>2, <3>3, <3>4 DEF CurPlaced
  <2>3. CASE Trouble("old", cur.file) /\ UNCHANGED fileVars
    BY <1>6, <1>19, <2>1, <2>3 DEF DropOld, fileVars
  <2> QED  BY <1>19, <2>2, <2>3 DEF DropOld
<1>20. CASE MakeFolder
  <2> DEFINE new == Append(Folders, Safe[NameOf(cur.file)])
  <2>1. cur.file \in File /\ cur # Idle /\ removing' = <<>>
    BY <1>1, <1>20, IdleIs, FileAssumption DEF MakeFolder, Control
  <2>2. \/ cur' = Idle
        \/ UNCHANGED <<cur, frames, dest, removing>>
        \/ /\ LearnFs(frames) /\ UNCHANGED <<dest, removing>>
           /\ cur' = [cur EXCEPT !.dest = new, !.handled = TRUE, !.stage = "try"] \/ UNCHANGED cur
    BY <1>20 DEF MakeFolder, Enter, fileVars
  <2>3. CASE LearnFs(frames) /\ UNCHANGED <<cur, dest, removing>>
    <3>1. Folders' = Folders
      BY <1>1, <2>3, LearnSame, FoldersSame
    <3>2. IsDir(cur.dest)' = IsDir(cur.dest)
      BY <2>3 DEF IsDir
    <3> QED  BY <2>1, <2>3, <3>1, <3>2 DEF Shape, CurPlaced
  <2>4. CASE /\ LearnFs(frames) /\ UNCHANGED <<dest, removing>>
             /\ cur' = [cur EXCEPT !.dest = new, !.handled = TRUE, !.stage = "try"]
    <3>1. \E n \in Name : new = Append(Folders, n)
      BY <1>1, <2>1, SafePlaced
    <3> HIDE DEF new
    <3>2. cur'.stage = "try" /\ cur'.dest = new
      BY <1>1, <2>4 DEF CurType
    <3>3. SameFolders
      BY <1>1, <2>4, LearnSame
    <3> QED  BY <1>3, <2>1, <3>1, <3>2, <3>3
  <2> QED  BY <1>2, <1>13, <2>2, <2>3, <2>4
<1>21. CASE OpenDir \/ CloseDir \/ EndDir \/ LeaveDir \/ AnswerFolder \/ AnswerSource
  <2>1. cur' = Idle
    BY <1>1, <1>21 DEF OpenDir, CloseDir, EndDir, LeaveDir, AnswerFolder, AnswerSource, InFolder, Control
  <2> QED  BY <1>2, <2>1
<1>22. CASE \/ Aborted \/ Done \/ Verify \/ Scan \/ ListDone \/ AnswerDestination \/ Retry \/ Cancel
            \/ UNCHANGED vars
  BY <1>13, <1>22 DEF Aborted, Done, Verify, Scan, ListDone, AnswerDestination, Retry, Cancel, vars,
    fileVars
<1> QED
  BY <1>7, <1>8, <1>9, <1>10, <1>11, <1>12, <1>14, <1>15, <1>16, <1>17, <1>18, <1>19, <1>20, <1>21,
     <1>22 DEF Next, Thread, Answer

LEMMA InitShape == Init => Shape
<1> SUFFICES ASSUME Init PROVE Shape
  OBVIOUS
<1>1. job \in Jobs /\ dest = job.old /\ shown = DOMAIN job.old /\ cur = Idle /\ frames = <<>> /\ src = File
  BY DEF Init
<1>2. IsTree
  BY <1>1, JobAssumption DEF IsTree, IsDir
<1>3. Nested /\ Emptied
  BY <1>1, FileAssumption DEF Nested, Emptied
<1>4. CurPlaced /\ Reported /\ LeftOwned
  BY <1>1 DEF Init, CurPlaced, Reported, LeftOwned
<1> QED  BY <1>2, <1>3, <1>4, InitTyped, InitControl DEF Shape

LEMMA SameJob == [Next]_vars => UNCHANGED job
  BY DEF Next, Thread, Answer, vars, lists, Aborted, Done, Verify, Scan, TakeNext, ListDone, Succeed,
    Respell, NextName, Conflict, PutOff, Empty, Recurse, Stop, Fail, RemoveTarget, DropOld,
    MakeFolder, OpenDir, CopyChild, CloseDir, EndDir, LeaveDir, AnswerDestination, AnswerConflict,
    AnswerError, AnswerMake, AnswerFolder, AnswerSource, AnswerRename, Retry, Cancel

LEMMA NextTyped == TypeOK /\ Control /\ [Next]_vars => TypeOK'
  BY NextCalls, NextAsks, NextLists, NextData, NextSaid, TypePartsNext

LEMMA NextShape == Shape /\ [Next]_vars => Shape'
<1> SUFFICES ASSUME Shape, [Next]_vars PROVE Shape'
  OBVIOUS
<1>1. TypeOK /\ Control
  BY DEF Shape
<1>2. DataStep
  BY <1>1, DataSteps
<1>3. TypeOK' /\ Control' /\ Nested' /\ CurPlaced'
  BY <1>1, NextTyped, NextControl, NextNested, NextPlaced
<1>4. IsTree' /\ Reported' /\ LeftOwned' /\ Emptied'
  BY <1>2, DataShape, NextLeftOwned, NextEmptied, SameJob
<1> QED  BY <1>3, <1>4 DEF Shape

LEMMA ShapeHolds == Spec => []Shape
  BY InitShape, NextShape, PTL DEF Spec

\* Each variable has its type, in every state.
THEOREM TypeCorrect == Spec => []TypeOK
<1>1. Shape => TypeOK
  BY DEF Shape
<1> QED  BY <1>1, ShapeHolds, PTL

\* The changes put in the queue leave the views with what is in the destination,
\* after every step: also in a folder that is replaced, emptied or merged, and
\* whatever fails in between; except for the places where an attempt failed and
\* left something all the same, and of each of these the user knows.
THEOREM ReportedRight == Spec => []ReportedTrue
<1>1. Shape => ReportedTrue
  BY DEF Shape, Reported, LeftOwned, Owned, ReportedTrue, KnowsOf
<1> QED  BY <1>1, ShapeHolds, PTL

-----------------------------------------------------------------------------
(* What is replaced *)

\* What the overwrite flag stands for: the user agreed, or a folder is merged.
MayReplace(p, f) == Given(p) \/ (f \in Folder /\ IsDir(p))

\* The place of a file of the list under its own name.
Own(f, fs) == <<IF fs THEN Safe[NameOf(f)] ELSE NameOf(f)>>

\* A file is put off with its overwrite flag, but not with the name it had: the flag
\* has to hold for the name move_files will give it, spelled in either way.
EntryOk(z) ==
  z.over => /\ IsMove
            /\ topFs \/ NameOf(z.file) \notin job.invalid
            /\ \A fs \in BOOLEAN : (topFs => fs) => MayReplace(Own(z.file, fs), z.file)
ListsOk == /\ \A i \in DOMAIN list : EntryOk(list[i])
           /\ \A i \in DOMAIN fallbacks : EntryOk(fallbacks[i])

\* No name is in the destination that its file system rejects.
ValidNames == ~Native => \A p \in DOMAIN dest : Last(p) \notin job.invalid

CurOk ==
  cur # Idle =>
    /\ cur.handled => FsKnown
    /\ cur.stage = "try" => cur.handled = FsKnown
    /\ cur.over => /\ MayReplace(cur.dest, cur.file)
                   /\ cur.handled \/ Last(cur.dest) \notin job.invalid
    /\ pc = "prepare" =>
         \/ cur.dest = Own(cur.file, cur.handled)
         \/ /\ Own(cur.file, cur.handled) \in renamed
            /\ cur.handled \/ NameOf(cur.file) \notin job.invalid
    /\ question.kind = "conflict" => ~cur.over /\ Last(cur.dest) \notin job.invalid

Grants == Shape /\ ListsOk /\ ValidNames /\ CurOk

LEMMA SaidGrows ==
  [Next]_vars => agreed \subseteq agreed' /\ renamed \subseteq renamed' /\ record \subseteq record'
<1> SUFFICES ASSUME [Next]_vars
             PROVE  agreed \subseteq agreed' /\ renamed \subseteq renamed' /\ record \subseteq record'
  OBVIOUS
<1>1. agreed \subseteq agreed'
  <2>1. CASE Conflict \/ AnswerConflict
    BY <2>1 DEF Conflict, AnswerConflict, Agree, said
  <2>2. CASE \/ Aborted \/ Done \/ Verify \/ Scan \/ TakeNext \/ ListDone \/ Succeed \/ Respell
             \/ NextName \/ PutOff \/ Empty \/ Recurse \/ Stop \/ Fail \/ RemoveTarget
    BY <2>2 DEF Aborted, Done, Verify, Scan, TakeNext, ListDone, Succeed, Respell, NextName, PutOff,
      Empty, Recurse, Stop, Fail, RemoveTarget, said
  <2>3. CASE \/ DropOld \/ MakeFolder \/ OpenDir \/ (\E f \in File : CopyChild(f)) \/ CloseDir
             \/ EndDir \/ LeaveDir
    BY <2>3 DEF DropOld, MakeFolder, OpenDir, CopyChild, CloseDir, EndDir, LeaveDir, said
  <2>4. CASE \/ AnswerDestination \/ AnswerError \/ AnswerMake \/ AnswerFolder \/ AnswerSource
             \/ AnswerRename \/ Retry \/ Cancel \/ UNCHANGED vars
    BY <2>4 DEF AnswerDestination, AnswerError, AnswerMake, AnswerFolder, AnswerSource, AnswerRename,
      Retry, Cancel, vars, said
  <2> QED  BY <2>1, <2>2, <2>3, <2>4 DEF Next, Thread, Answer
<1>2. renamed \subseteq renamed'
  <2>1. CASE AnswerRename
    BY <2>1 DEF AnswerRename
  <2>2. CASE \/ Aborted \/ Done \/ Verify \/ Scan \/ TakeNext \/ ListDone \/ Succeed \/ Respell
             \/ NextName \/ Conflict \/ PutOff \/ Empty \/ Recurse \/ Stop \/ Fail \/ RemoveTarget
    BY <2>2 DEF Aborted, Done, Verify, Scan, TakeNext, ListDone, Succeed, Respell, NextName, Conflict,
      PutOff, Empty, Recurse, Stop, Fail, RemoveTarget, said
  <2>3. CASE \/ DropOld \/ MakeFolder \/ OpenDir \/ (\E f \in File : CopyChild(f)) \/ CloseDir
             \/ EndDir \/ LeaveDir
    BY <2>3 DEF DropOld, MakeFolder, OpenDir, CopyChild, CloseDir, EndDir, LeaveDir, said
  <2>4. CASE \/ AnswerDestination \/ AnswerConflict \/ AnswerError \/ AnswerMake \/ AnswerFolder
             \/ AnswerSource \/ Retry \/ Cancel \/ UNCHANGED vars
    BY <2>4 DEF AnswerDestination, AnswerConflict, AnswerError, AnswerMake, AnswerFolder,
      AnswerSource, Retry, Cancel, vars, said
  <2> QED  BY <2>1, <2>2, <2>3, <2>4 DEF Next, Thread, Answer
<1>3. record \subseteq record'
  <2>1. CASE Succeed \/ MakeFolder
    BY <2>1 DEF Succeed, MakeFolder, Record, fileVars
  <2>2. CASE \/ Aborted \/ Done \/ Verify \/ Scan \/ TakeNext \/ ListDone \/ Respell
             \/ NextName \/ Conflict \/ PutOff \/ Empty \/ Recurse \/ Stop \/ Fail \/ RemoveTarget
    BY <2>2 DEF Aborted, Done, Verify, Scan, TakeNext, ListDone, Respell, NextName, Conflict,
      PutOff, Empty, Recurse, Stop, Fail, RemoveTarget, fileVars
  <2>3. CASE \/ DropOld \/ OpenDir \/ (\E f \in File : CopyChild(f)) \/ CloseDir
             \/ EndDir \/ LeaveDir
    BY <2>3 DEF DropOld, OpenDir, CopyChild, CloseDir, EndDir, LeaveDir, fileVars
  <2>4. CASE \/ AnswerDestination \/ AnswerConflict \/ AnswerError \/ AnswerMake \/ AnswerFolder
             \/ AnswerSource \/ AnswerRename \/ Retry \/ Cancel \/ UNCHANGED vars
    BY <2>4 DEF AnswerDestination, AnswerConflict, AnswerError, AnswerMake, AnswerFolder,
      AnswerSource, AnswerRename, Retry, Cancel, vars, fileVars
  <2> QED  BY <2>1, <2>2, <2>3, <2>4 DEF Next, Thread, Answer
<1> QED  BY <1>1, <1>2, <1>3

LEMMA GivenStays ==
  ASSUME [Next]_vars, NEW p, Given(p)
  PROVE  Given(p)'
<1>1. agreed \subseteq agreed' /\ renamed \subseteq renamed' /\ job' = job
  BY SaidGrows, SameJob
<1> QED  BY <1>1 DEF Given, Agreed, Mistaken, Respelt, IsMove

LEMMA GivenBelow ==
  ASSUME TypeOK, NEW p \in Path, NEW q \in Path, IsPrefix(p, q), Given(p)
  PROVE  Given(q)
<1>1. agreed \subseteq Path /\ renamed \subseteq Path
  BY TypeParts DEF SaidTyped
<1>2. Respelt \subseteq Path
  <2>1. \A n \in Name : <<Safe[n]>> \in Path
    BY NameAssumption DEF Path
  <2> QED  BY <2>1 DEF Respelt
<1>3. \A r \in agreed \cup renamed \cup Respelt : IsPrefix(r, p) => IsPrefix(r, q)
  BY <1>1, <1>2, PrefixTrans
<1> QED  BY <1>3 DEF Given, Agreed, Mistaken

\* A step takes away nothing that it may not replace.
LEMMA TouchedGiven ==
  ASSUME Shape, CurOk, DataStep, cur # Idle, NEW w \in DOMAIN dest, IsPrefix(cur.dest, w)
  PROVE  UNCHANGED dest \/ Given(w)
<1>1. cur.dest \in Path /\ cur.dest # <<>> /\ w \in Path /\ TypeOK /\ IsTree
  BY CurIs, DestPaths DEF Shape
<1>2. cur.dest \in DOMAIN dest
  <2>1. w = cur.dest \/ w \in Within(cur.dest)
    BY DEF Within, Below
  <2> QED  BY <1>1, <2>1, BelowTree DEF IsDir
<1>3. ASSUME cur.over, cur.file \in Folder => ~IsDir(cur.dest) PROVE Given(w)
  <2>1. Given(cur.dest)
    BY <1>3 DEF CurOk, MayReplace
  <2> QED  BY <1>1, <2>1, GivenBelow
<1>4. CASE Succeed
  BY <1>2, <1>3, <1>4 DEF Succeed, Result, Attempt
<1>5. CASE Makes
  BY <1>2, <1>5 DEF Makes, Shape, CurPlaced
<1>6. CASE Removes
  BY <1>3, <1>6 DEF Removes, Shape, CurPlaced
<1>7. CASE Drops
  BY <1>3, <1>7 DEF Drops, Shape, CurPlaced
<1>8. CASE Still \/ Deletes
  BY <1>8 DEF Still, Deletes
<1>9. CASE Spills
  BY <1>2, <1>3, <1>9 DEF Spills, Attempt
<1> QED  BY <1>4, <1>5, <1>6, <1>7, <1>8, <1>9 DEF DataStep

LEMMA NothingLost ==
  ASSUME Shape, CurOk, [Next]_vars, NEW w, NEW g, Kept(w, g) \/ Given(w)
  PROVE  (Kept(w, g) \/ Given(w))'
<1>1. CASE Given(w)
  BY <1>1, GivenStays
<1>2. CASE Kept(w, g)
  <2>1. DataStep /\ (UNCHANGED dest \/ (cur # Idle /\ Around(cur.dest)))
    BY DataSteps, DataShape DEF Shape
  <2>2. CASE UNCHANGED dest
    BY <1>2, <2>2 DEF Kept
  <2>3. CASE cur # Idle /\ Around(cur.dest) /\ IsPrefix(cur.dest, w)
    <3>1. UNCHANGED dest \/ Given(w)
      BY <1>2, <2>1, <2>3, TouchedGiven DEF Kept
    <3> QED  BY <2>2, <3>1, GivenStays
  <2>4. CASE Around(cur.dest) /\ ~IsPrefix(cur.dest, w)
    BY <1>2, <2>4 DEF Around, Kept
  <2> QED  BY <2>1, <2>2, <2>3, <2>4
<1> QED  BY <1>1, <1>2

LEMMA MayStays ==
  ASSUME Shape, CurOk, [Next]_vars, NEW p, NEW f, MayReplace(p, f)
  PROVE  MayReplace(p, f)'
<1>1. CASE Given(p)
  BY <1>1, GivenStays DEF MayReplace
<1>2. CASE f \in Folder /\ IsDir(p)
  <2>1. Kept(p, dest[p]) /\ dest[p] \in Folder \cup {OldFolder}
    BY <1>2 DEF Kept, IsDir
  <2>2. PICK g : g = dest[p]
    OBVIOUS
  <2>3. Kept(p, g) /\ g \in Folder \cup {OldFolder}
    BY <2>1, <2>2
  <2>4. (Kept(p, g) \/ Given(p))'
    BY <2>3, NothingLost
  <2> QED  BY <1>2, <2>3, <2>4 DEF Kept, MayReplace, IsDir
<1> QED  BY <1>1, <1>2 DEF MayReplace

LEMMA NextValid ==
  ASSUME Grants, [Next]_vars
  PROVE  ValidNames'
<1>1. Shape /\ ValidNames /\ TypeOK /\ Control /\ DataStep /\ job' = job
  BY DataSteps, SameJob DEF Grants, Shape
<1> SUFFICES ASSUME ~Native, NEW p \in DOMAIN dest' PROVE Last(p) \notin job.invalid
  BY <1>1 DEF ValidNames, Native, IsMove
<1>2. CASE p \in DOMAIN dest
  BY <1>1, <1>2 DEF ValidNames
<1>3. CASE p \notin DOMAIN dest
  <2>1. ~Still /\ ~Deletes
    BY <1>3 DEF Still, Deletes
  <2>2. ~Removes /\ ~Drops
    BY <1>3 DEF Removes, Drops, Gone
  <2>3. ASSUME NEW f \in File, NEW q \in Path, Put(f, q, {f}) PROVE p = q
    <3>1. {f} \subseteq Under(f) /\ Place(f, q, f) = q
      BY UnderSelf, PlaceSelf
    <3>2. DOMAIN dest' = (DOMAIN dest \ Below(q)) \cup Places(f, q, {f})
      BY <2>3, <3>1, PutIs
    <3> QED  BY <1>3, <3>1, <3>2 DEF Places
  <2>4. cur.dest \in Path /\ cur.file \in File \cup {NoFile}
    BY <1>1 DEF TypeOK
  <2>5. PICK q, f : q = cur.dest /\ f = cur.file
    OBVIOUS
  <2>6. CASE Makes
    <3>1. f \in File /\ Put(f, q, {f}) /\ Last(q) \notin job.invalid
      BY <2>5, <2>6, FileAssumption DEF Makes
    <3> QED  BY <2>3, <2>4, <2>5, <3>1
  <2>7. CASE Succeed
    <3>1. /\ f \in File /\ f \in src /\ f \notin Folder /\ Last(q) \notin job.invalid
          /\ Put(f, q, Under(f) \cap src)
      BY <1>1, <2>5, <2>7 DEF Succeed, Result, Trying, Attempt, Control
    <3>2. Under(f) \cap src = {f}
      BY <3>1, OnlyFoldersHold, UnderSelf
    <3> QED  BY <2>3, <2>4, <2>5, <3>1, <3>2
  <2>8. CASE Spills
    <3>1. f \in File /\ f \in src /\ f \notin Folder /\ Last(q) \notin job.invalid
      BY <1>1, <2>4, <2>5, <2>8 DEF Spills, Attempt, TypeOK
    <3>2. PICK files \in Parts(f) : Put(f, q, files)
      BY <2>5, <2>8 DEF Spills
    <3>3. Under(f) \cap src = {f}
      BY <3>1, OnlyFoldersHold, UnderSelf
    <3>4. CASE files = {f}
      BY <2>3, <2>4, <2>5, <3>1, <3>2, <3>4
    <3>5. CASE files = {}
      <4>1. f \in File /\ q \in Path /\ files \subseteq Under(f) /\ Put(f, q, files)
        BY <2>4, <2>5, <3>1, <3>2, <3>5
      <4>2. DOMAIN dest' = (DOMAIN dest \ Below(q)) \cup Places(f, q, files)
        BY <4>1, PutIs
      <4> QED  BY <1>3, <3>5, <4>2 DEF Places
    <3> QED  BY <3>2, <3>3, <3>4, <3>5 DEF Parts
  <2> QED  BY <1>1, <2>1, <2>2, <2>6, <2>7, <2>8 DEF DataStep
<1> QED  BY <1>2, <1>3

LEMMA TopStays ==
  TypeOK /\ [Next]_vars /\ topFs => topFs'
<1> SUFFICES ASSUME TypeOK, [Next]_vars, topFs PROVE topFs'
  OBVIOUS
<1>1. CASE Respell \/ MakeFolder
  <2>1. LearnFs(frames) \/ UNCHANGED topFs
    BY <1>1 DEF Respell, MakeFolder
  <2> QED  BY <2>1, LearnTyped
<1>2. CASE \/ Aborted \/ Done \/ Verify \/ Scan \/ TakeNext \/ ListDone \/ Succeed
           \/ NextName \/ Conflict \/ PutOff \/ Empty \/ Recurse \/ Stop \/ Fail \/ RemoveTarget
  BY <1>2 DEF Aborted, Done, Verify, Scan, TakeNext, ListDone, Succeed, NextName, Conflict,
    PutOff, Empty, Recurse, Stop, Fail, RemoveTarget
<1>3. CASE DropOld \/ OpenDir \/ (\E f \in File : CopyChild(f)) \/ CloseDir \/ EndDir \/ LeaveDir
  BY <1>3 DEF DropOld, OpenDir, CopyChild, CloseDir, EndDir, LeaveDir
<1>4. CASE \/ AnswerDestination \/ AnswerConflict \/ AnswerError \/ AnswerMake \/ AnswerFolder
           \/ AnswerSource \/ AnswerRename \/ Retry \/ Cancel \/ UNCHANGED vars
  BY <1>4 DEF AnswerDestination, AnswerConflict, AnswerError, AnswerMake, AnswerFolder,
    AnswerSource, AnswerRename, Retry, Cancel, vars
<1> QED  BY <1>1, <1>2, <1>3, <1>4 DEF Next, Thread, Answer

LEMMA EntryStays ==
  ASSUME Grants, [Next]_vars, NEW z, EntryOk(z)
  PROVE  EntryOk(z)'
<1>1. Shape /\ CurOk /\ TypeOK /\ (topFs => topFs') /\ job' = job /\ topFs \in BOOLEAN /\ topFs' \in BOOLEAN
  BY TopStays, SameJob, NextSaid DEF Grants, Shape, TypeOK, RestTyped
<1> SUFFICES ASSUME z.over
             PROVE  /\ IsMove' /\ (topFs' \/ NameOf(z.file) \notin job'.invalid)
                    /\ \A fs \in BOOLEAN : (topFs' => fs) => MayReplace(Own(z.file, fs), z.file)'
  BY DEF EntryOk
<1>2. IsMove' /\ (topFs' \/ NameOf(z.file) \notin job'.invalid)
  BY <1>1 DEF EntryOk, IsMove
<1>3. ASSUME NEW fs \in BOOLEAN, topFs' => fs PROVE MayReplace(Own(z.file, fs), z.file)'
  <2>1. MayReplace(Own(z.file, fs), z.file)
    BY <1>1, <1>3 DEF EntryOk
  <2> QED  BY <1>1, <2>1, MayStays
<1> QED  BY <1>2, <1>3

\* A file put off may be replaced under its own name, whatever its name is now.
LEMMA PutOffOk ==
  ASSUME Grants, PutOff
  PROVE  EntryOk([file |-> cur.file, over |-> cur.over])
<1> DEFINE f == cur.file  z == [file |-> f, over |-> cur.over]
<1>1. /\ pc = "prepare" /\ cur # Idle /\ cur.stage = "try" /\ frames = <<>> /\ IsMove
      /\ f \in File /\ TypeOK /\ cur.over \in BOOLEAN /\ cur.handled \in BOOLEAN
  <2>1. TypeOK
    BY DEF Grants, Shape
  <2> QED  BY <2>1 DEF PutOff, Trying, Control, Grants, Shape, TypeOK
<1>2. cur.handled = topFs
  BY <1>1 DEF Grants, CurOk, FsKnown
<1>3. NameOf(f) \in Name /\ Last(<<NameOf(f)>>) = NameOf(f)
  BY <1>1, NameTyped DEF Last
<1> SUFFICES ASSUME cur.over
             PROVE  /\ topFs \/ NameOf(f) \notin job.invalid
                    /\ \A fs \in BOOLEAN : (topFs => fs) => MayReplace(Own(f, fs), f)
  BY <1>1 DEF EntryOk
<1>4. /\ MayReplace(cur.dest, f)
      /\ cur.handled \/ Last(cur.dest) \notin job.invalid
      /\ \/ cur.dest = Own(f, cur.handled)
         \/ /\ Own(f, cur.handled) \in renamed
            /\ cur.handled \/ NameOf(f) \notin job.invalid
  BY <1>1 DEF Grants, CurOk
<1> HIDE DEF f, z
<1>5. topFs \/ NameOf(f) \notin job.invalid
  BY <1>2, <1>3, <1>4 DEF Own
<1>6. MayReplace(Own(f, topFs), f)
  <2>1. CASE Own(f, topFs) \in renamed
    <3>1. IsPrefix(Own(f, topFs), Own(f, topFs))
      BY <1>1, <2>1, PrefixSelf, TypeParts DEF SaidTyped
    <3> QED  BY <1>1, <2>1, <3>1 DEF MayReplace, Given, Mistaken
  <2> QED  BY <1>2, <1>4, <2>1
<1>7. MayReplace(Own(f, TRUE), f)
  <2>1. CASE topFs \/ Safe[NameOf(f)] = NameOf(f)
    BY <1>1, <1>6, <2>1 DEF Own, TypeOK
  <2>2. CASE ~topFs /\ Safe[NameOf(f)] # NameOf(f)
    <3>1. Own(f, TRUE) \in Respelt
      BY <1>3, <1>5, <2>2 DEF Own, Respelt
    <3>2. Own(f, TRUE) \in Path
      BY <1>3, NameAssumption DEF Own, Path
    <3> QED  BY <1>1, <3>1, <3>2, PrefixSelf DEF MayReplace, Given, Mistaken
  <2> QED  BY <2>1, <2>2
<1>8. ASSUME NEW fs \in BOOLEAN, topFs => fs PROVE MayReplace(Own(f, fs), f)
  <2>1. CASE fs = TRUE
    BY <1>7, <2>1
  <2>2. CASE fs = FALSE
    <3>1. topFs = FALSE
      BY <1>1, <1>8, <2>2 DEF TypeOK
    <3> QED  BY <1>6, <2>2, <3>1
  <2> QED  BY <2>1, <2>2
<1> QED  BY <1>5, <1>8

LEMMA NextListsOk ==
  ASSUME Grants, [Next]_vars
  PROVE  ListsOk'
<1>1. TypeOK /\ Control /\ list \in Seq(Entry) /\ fallbacks \in Seq(Entry) /\ ListsOk
  BY TypeParts DEF Grants, Shape, ListTyped
<1>2. ASSUME NEW z, EntryOk(z) PROVE EntryOk(z)'
  BY <1>2, EntryStays
<1>3. ASSUME NEW i \in DOMAIN list', list'[i] \in Range(list) \cup Range(fallbacks)
      PROVE  EntryOk(list[i])'
  <2>1. PICK z : z = list'[i]
    OBVIOUS
  <2>2. EntryOk(z)
    BY <1>1, <1>3, <2>1 DEF ListsOk, Range
  <2>3. EntryOk(z)'
    BY <1>2, <2>2
  <2> QED  BY <2>1, <2>3 DEF EntryOk
<1>4. ASSUME NEW i \in DOMAIN fallbacks', fallbacks'[i] \in Range(fallbacks)
      PROVE  EntryOk(fallbacks[i])'
  <2>1. PICK z : z = fallbacks'[i]
    OBVIOUS
  <2>2. EntryOk(z)
    BY <1>1, <1>4, <2>1 DEF ListsOk, Range
  <2>3. EntryOk(z)'
    BY <1>2, <2>2
  <2> QED  BY <2>1, <2>3 DEF EntryOk
<1>5. \A i \in DOMAIN list' : list'[i] \in Range(list) \cup Range(fallbacks)
  <2>1. CASE UNCHANGED list
    BY <2>1 DEF Range
  <2>2. CASE list' = fallbacks
    BY <2>2 DEF Range
  <2>3. CASE list # <<>> /\ list' = Tail(list)
    <3>1. \A i \in DOMAIN Tail(list) : i + 1 \in DOMAIN list /\ Tail(list)[i] = list[i + 1]
      BY <1>1, <2>3
    <3> QED  BY <2>3, <3>1 DEF Range
  <2>4. UNCHANGED list \/ list' = fallbacks \/ (list # <<>> /\ list' = Tail(list))
    BY DEF Next, Thread, Answer, vars, lists, Aborted, Done, Verify, Scan, TakeNext, ListDone,
      Succeed, Respell, NextName, Conflict, PutOff, Empty, Recurse, Stop, Fail, RemoveTarget,
      DropOld, MakeFolder, OpenDir, CopyChild, CloseDir, EndDir, LeaveDir, AnswerDestination,
      AnswerConflict, AnswerError, AnswerMake, AnswerFolder, AnswerSource, AnswerRename, Retry,
      Cancel
  <2> QED  BY <2>1, <2>2, <2>3, <2>4
<1>6. \A i \in DOMAIN fallbacks' : EntryOk(fallbacks[i])'
  <2>1. CASE UNCHANGED fallbacks
    <3>1. \A i \in DOMAIN fallbacks' : fallbacks'[i] \in Range(fallbacks)
      BY <2>1 DEF Range
    <3> QED  BY <1>4, <3>1
  <2>2. CASE PutOff
    <3>1. PICK z : z = [file |-> cur.file, over |-> cur.over]
      OBVIOUS
    <3>2. EntryOk(z)
      BY <2>2, <3>1, PutOffOk
    <3>3. EntryOk(z)'
      BY <1>2, <3>2
    <3>4. fallbacks' = Append(fallbacks, z)
      BY <2>2, <3>1 DEF PutOff, PutOnList
    <3>5. \A i \in DOMAIN fallbacks' : fallbacks'[i] = z \/ fallbacks'[i] \in Range(fallbacks)
      BY <1>1, <3>4 DEF Range
    <3>6. ASSUME NEW i \in DOMAIN fallbacks', fallbacks'[i] = z PROVE EntryOk(fallbacks[i])'
      BY <3>3, <3>6 DEF EntryOk
    <3> QED  BY <1>4, <3>5, <3>6
  <2>3. UNCHANGED fallbacks \/ PutOff
    BY DEF Next, Thread, Answer, vars, lists, Aborted, Done, Verify, Scan, TakeNext, ListDone,
      Succeed, Respell, NextName, Conflict, Empty, Recurse, Stop, Fail, RemoveTarget,
      DropOld, MakeFolder, OpenDir, CopyChild, CloseDir, EndDir, LeaveDir, AnswerDestination,
      AnswerConflict, AnswerError, AnswerMake, AnswerFolder, AnswerSource, AnswerRename, Retry,
      Cancel
  <2> QED  BY <2>1, <2>2, <2>3
<1> QED  BY <1>3, <1>5, <1>6 DEF ListsOk

\* FsKnown is for good, as long as the thread stays in the folder.
LEMMA LearntIs ==
  ASSUME TypeOK, LearnFs(frames)
  PROVE  FsKnown' = TRUE
<1>1. /\ frames' \in Seq(Level) /\ topFs' \in BOOLEAN /\ Len(frames') = Len(frames)
      /\ frames \in Seq(Level)
      /\ frames = <<>> => topFs'
      /\ frames # <<>> => frames'[1].fs
  BY LearnTyped DEF TypeOK
<1>2. CASE frames = <<>>
  BY <1>1, <1>2 DEF FsKnown
<1>3. CASE frames # <<>>
  <2>1. frames' # <<>> /\ Head(frames') = frames'[1] /\ frames'[1] \in Level
    BY <1>1, <1>3
  <2>2. frames'[1].fs = TRUE
    BY <1>1, <1>3, <2>1 DEF Level
  <2> QED  BY <2>1, <2>2 DEF FsKnown
<1> QED  BY <1>2, <1>3

\* Where a file of the list is first put, and where it is put when its name was
\* rejected.
LEMMA TopTarget ==
  ASSUME frames = <<>>, IsMove, NEW f \in File, NEW nth, NEW fs \in BOOLEAN
  PROVE  Target(f, nth, fs) = Own(f, fs)
<1>1. ~Unique /\ Folders = <<>>
  BY DEF IsMove, Unique, Folders
<1> QED  BY <1>1 DEF Target, Own

\* No conflict is about a name that the file system rejects.
LEMMA ConflictNamed ==
  ASSUME Grants, Result("exists")
  PROVE  ~cur.over /\ Last(cur.dest) \notin job.invalid
<1>1. cur.dest \in DOMAIN dest /\ ~cur.over
  BY DEF Result, Attempt
<1>2. ~(Last(cur.dest) \in job.invalid /\ (cur.file \in Folder => Native))
  BY DEF Result, Attempt
<1> QED  BY <1>1, <1>2 DEF Grants, ValidNames

LEMMA NextCurOk ==
  ASSUME Grants, [Next]_vars
  PROVE  CurOk'
<1> DEFINE Ok(c) ==
      /\ c.handled => FsKnown'
      /\ c.stage = "try" => c.handled = FsKnown'
      /\ c.over => /\ MayReplace(c.dest, c.file)'
                   /\ c.handled \/ Last(c.dest) \notin job.invalid
      /\ pc' = "prepare" =>
           \/ c.dest = Own(c.file, c.handled)
           \/ /\ Own(c.file, c.handled) \in renamed'
              /\ c.handled \/ NameOf(c.file) \notin job.invalid
      /\ question'.kind = "conflict" => ~c.over /\ Last(c.dest) \notin job.invalid
<1>1. /\ Shape /\ CurOk /\ ValidNames /\ ListsOk /\ TypeOK /\ Control /\ job' = job
      /\ renamed \subseteq renamed' /\ cur \in CurType /\ FsKnown \in BOOLEAN
  BY SaidGrows, SameJob, FoldersTyped, TypeParts DEF Grants, Shape, CallTyped
<1>2. cur' = Idle => CurOk'
  BY DEF CurOk
<1>3. ASSUME NEW c, cur' = c, Ok(c) PROVE CurOk'
  <2>1. c.over => MayReplace(cur.dest, cur.file)'
    BY <1>3 DEF MayReplace, Given, Agreed, Mistaken, IsDir
  <2> QED  BY <1>1, <1>3, <2>1 DEF CurOk, Own
<1>4. ASSUME cur # Idle, cur.over PROVE MayReplace(cur.dest, cur.file)
  BY <1>1, <1>4 DEF CurOk
<1>5. ASSUME NEW p, NEW f, MayReplace(p, f) PROVE MayReplace(p, f)'
  BY <1>1, <1>5, MayStays
<1>6. ASSUME NEW c, c = cur, cur # Idle, c.over PROVE MayReplace(c.dest, c.file)'
  <2>1. MayReplace(c.dest, c.file)
    BY <1>4, <1>6
  <2>2. PICK p, f : p = c.dest /\ f = c.file
    OBVIOUS
  <2> QED  BY <1>5, <2>1, <2>2
<1>7. ASSUME UNCHANGED <<cur, pc, frames, topFs>>,
             question' = question \/ question'.kind # "conflict"
      PROVE  CurOk'
  <2>1. CASE cur = Idle
    BY <1>2, <1>7, <2>1
  <2>2. CASE cur # Idle
    <3>1. PICK c : c = cur
      OBVIOUS
    <3>2. FsKnown' = FsKnown
      BY <1>7 DEF FsKnown
    <3>3. Ok(c)
      BY <1>1, <1>6, <1>7, <2>2, <3>1, <3>2 DEF CurOk
    <3> HIDE DEF Ok
    <3> QED  BY <1>3, <1>7, <3>1, <3>3
  <2> QED  BY <2>1, <2>2
<1>8. ASSUME NEW k \in Errors, NEW f \in File, Trouble(k, f), UNCHANGED <<pc, topFs>> PROVE CurOk'
  <2>1. Out \/ (question'.kind = k /\ UNCHANGED <<cur, frames>>)
    BY <1>1, <1>8, TroubleIs
  <2>2. k # "conflict"
    BY DEF Errors
  <2> QED  BY <1>2, <1>7, <1>8, <2>1, <2>2 DEF Out
<1> HIDE DEF Ok
<1>9. CASE TakeNext
  <2> DEFINE f == Head(list).file
             d == [Idle EXCEPT !.file = f, !.dest = Target(f, 1, FsKnown), !.over = Head(list).over,
                               !.handled = FsKnown, !.nth = 2]
  <2>1. /\ f \in File /\ Head(list).over \in BOOLEAN /\ Head(list) = list[1] /\ 1 \in DOMAIN list
        /\ cur = Idle /\ frames = <<>> /\ UNCHANGED <<pc, topFs>> /\ question = NoQuestion
        /\ FsKnown = topFs
    BY <1>1, <1>9, EntriesTyped, TypeParts DEF TakeNext, ListTyped, Going, FsKnown
  <2>2. \/ cur' = Idle
        \/ Trouble("itself", f)
        \/ cur' = d /\ UNCHANGED <<question, frames>>
    BY <1>9 DEF TakeNext, Begin, Out
  <2>3. CASE cur' = d /\ UNCHANGED <<question, frames>>
    <3>1. PICK c : c = d
      OBVIOUS
    <3>2. /\ c.file = f /\ c.dest = Target(f, 1, FsKnown) /\ c.over = Head(list).over
          /\ c.handled = FsKnown /\ c.stage = "try"
      BY <3>1 DEF Idle
    <3> HIDE DEF d, f
    <3>3. FsKnown' = FsKnown
      BY <2>1, <2>3 DEF FsKnown
    <3>4. IsMove => c.dest = Own(f, FsKnown)
      BY <1>1, <2>1, <3>2, TopTarget
    <3>5. ASSUME c.over
          PROVE  MayReplace(c.dest, c.file)' /\ (c.handled \/ Last(c.dest) \notin job.invalid)
      <4>1. EntryOk(list[1])
        BY <1>1, <2>1 DEF ListsOk
      <4>2. /\ IsMove /\ (topFs \/ NameOf(f) \notin job.invalid)
            /\ \A fs \in BOOLEAN : (topFs => fs) => MayReplace(Own(f, fs), f)
        BY <2>1, <3>2, <3>5, <4>1 DEF EntryOk, f
      <4>3. MayReplace(c.dest, c.file)
        BY <1>1, <2>1, <3>2, <3>4, <4>2
      <4>4. PICK p, g : p = c.dest /\ g = c.file
        OBVIOUS
      <4>5. MayReplace(p, g)'
        BY <1>5, <4>3, <4>4
      <4>6. c.handled \/ Last(c.dest) \notin job.invalid
        <5>1. ~FsKnown => Own(f, FsKnown) = <<NameOf(f)>> /\ Last(<<NameOf(f)>>) = NameOf(f)
          BY DEF Own, Last
        <5> QED  BY <2>1, <3>2, <3>4, <4>2, <5>1
      <4> QED  BY <4>4, <4>5, <4>6
    <3>6. question'.kind # "conflict"
      BY <2>1, <2>3 DEF NoQuestion
    <3>7. pc' = "prepare" => IsMove
      BY <1>1, <2>1 DEF Control
    <3>8. Ok(c)
      BY <3>2, <3>3, <3>4, <3>5, <3>6, <3>7 DEF Ok
    <3> QED  BY <1>3, <2>3, <3>1, <3>8
  <2>4. "itself" \in Errors
    BY DEF Errors
  <2> QED  BY <1>2, <1>8, <2>1, <2>2, <2>3, <2>4
<1>10. ASSUME NEW f \in File, CopyChild(f) PROVE CurOk'
  <2> DEFINE d == [Idle EXCEPT !.file = f, !.dest = Target(f, 1, FsKnown), !.over = FALSE,
                               !.handled = FsKnown, !.nth = 2]
             r == [Call EXCEPT !.left = Call.left \ {f}]
  <2>1. /\ frames # <<>> /\ cur = Idle /\ pc = "copy" /\ pc' = pc /\ question' = NoQuestion
        /\ frames \in Seq(Level) /\ Call = frames[1]
    BY <1>1, <1>10, CallTypes DEF CopyChild, InFolder, Control, Going, TypeOK
  <2>2. cur' = Idle \/ (cur' = d /\ frames' = <<r>> \o Tail(frames))
    BY <1>10, <2>1 DEF CopyChild
  <2>3. CASE cur' = d /\ frames' = <<r>> \o Tail(frames)
    <3>1. PICK c : c = d
      OBVIOUS
    <3>2. c.over = FALSE /\ c.handled = FsKnown /\ c.stage = "try"
      BY <3>1 DEF Idle
    <3>3. r \in Level /\ r.fs = Call.fs
      BY <1>1, <2>1, CallTypes DEF Level
    <3> HIDE DEF r
    <3>4. frames' # <<>> /\ Head(frames') = r
      BY <2>1, <2>3, <3>3, HeadReplaced
    <3>5. FsKnown' = FsKnown
      BY <2>1, <3>3, <3>4 DEF FsKnown
    <3>6. Ok(c)
      BY <2>1, <3>2, <3>5 DEF Ok, NoQuestion
    <3> HIDE DEF d
    <3> QED  BY <1>3, <2>3, <3>1, <3>6
  <2> QED  BY <1>2, <2>2, <2>3
<1>11. CASE Respell
  <2> DEFINE new == Target(cur.file, cur.nth, TRUE)
             d == [cur EXCEPT !.dest = new, !.handled = TRUE]
             e == [cur EXCEPT !.handled = TRUE]
  <2>1. /\ cur.file \in File /\ cur # Idle /\ cur.stage = "try" /\ ~cur.handled
        /\ Last(cur.dest) \in job.invalid /\ question' = NoQuestion /\ pc' = pc
        /\ pc = "prepare" => frames = <<>> /\ IsMove
    BY <1>1, <1>11 DEF Respell, Result, Trying, Attempt, Control
  <2>2. ~cur.over
    BY <1>1, <2>1 DEF CurOk
  <2>3. FsKnown' = TRUE
    BY <1>1, <1>11, LearntIs DEF Respell
  <2>4. cur' = d \/ cur' = Idle \/ (cur' = e /\ pc # "prepare")
    BY <1>11 DEF Respell
  <2>5. CASE cur' = d
    <3>1. PICK c : c = d
      OBVIOUS
    <3>2. c.file = cur.file /\ c.dest = new /\ c.handled = TRUE /\ c.over = cur.over
      BY <1>1, <3>1 DEF CurType
    <3>3. pc = "prepare" => c.dest = Own(c.file, TRUE)
      BY <1>1, <2>1, <3>2, TopTarget
    <3> HIDE DEF d, new
    <3>4. Ok(c)
      BY <2>1, <2>2, <2>3, <3>2, <3>3 DEF Ok, NoQuestion
    <3> QED  BY <1>3, <2>5, <3>1, <3>4
  <2>6. CASE cur' = e /\ pc # "prepare"
    <3>1. PICK c : c = e
      OBVIOUS
    <3>2. c.handled = TRUE /\ c.over = cur.over
      BY <1>1, <3>1 DEF CurType
    <3> HIDE DEF e
    <3>3. Ok(c)
      BY <2>1, <2>2, <2>3, <2>6, <3>2 DEF Ok, NoQuestion
    <3> QED  BY <1>3, <2>6, <3>1, <3>3
  <2> QED  BY <1>2, <2>4, <2>5, <2>6
<1>12. CASE NextName
  <2> DEFINE new == Target(cur.file, cur.nth, FsKnown)  m == cur.nth + 1
             d == [cur EXCEPT !.dest = new, !.nth = m]
  <2>1. /\ cur # Idle /\ cur.stage = "try" /\ ~cur.over /\ question' = NoQuestion /\ pc' = pc
        /\ pc # "prepare" /\ UNCHANGED <<frames, topFs>> /\ cur' = d
    BY <1>1, <1>12 DEF NextName, Result, Trying, Attempt, Control, Unique, IsMove
  <2>2. PICK c : c = d
    OBVIOUS
  <2> HIDE DEF new, m
  <2>3. c.handled = cur.handled /\ c.over = cur.over /\ c.stage = cur.stage
    BY <1>1, <2>2 DEF CurType
  <2>4. FsKnown' = FsKnown
    BY <2>1 DEF FsKnown
  <2>5. Ok(c)
    BY <1>1, <2>1, <2>3, <2>4 DEF Ok, CurOk, NoQuestion
  <2> HIDE DEF d
  <2> QED  BY <1>3, <2>1, <2>2, <2>5
<1>13. ASSUME cur # Idle, cur.stage = "try", ~cur.over, Last(cur.dest) \notin job.invalid,
              cur' = [cur EXCEPT !.over = TRUE], Merging \/ cur.dest \in agreed',
              question' = NoQuestion, UNCHANGED <<pc, frames, topFs>>
       PROVE  CurOk'
  <2>1. PICK c : c = [cur EXCEPT !.over = TRUE]
    OBVIOUS
  <2>2. /\ c.handled = cur.handled /\ c.stage = cur.stage /\ c.dest = cur.dest
        /\ c.file = cur.file
    BY <1>1, <2>1 DEF CurType
  <2>3. FsKnown' = FsKnown
    BY <1>13 DEF FsKnown
  <2>4. PICK p, f : p = c.dest /\ f = c.file
    OBVIOUS
  <2>5. MayReplace(p, f)'
    <3>1. CASE Merging
      <4>1. MayReplace(p, f)
        BY <2>2, <2>4, <3>1 DEF Merging, MayReplace
      <4> QED  BY <1>5, <4>1
    <3>2. CASE cur.dest \in agreed'
      <4>1. p \in agreed' /\ IsPrefix(p, p)
        BY <1>1, <1>13, <2>2, <2>4, <3>2, CurIs, PrefixSelf
      <4> QED  BY <4>1 DEF MayReplace, Given, Agreed
    <3> QED  BY <1>13, <3>1, <3>2
  <2>6. Ok(c)
    BY <1>1, <1>13, <2>2, <2>3, <2>4, <2>5 DEF Ok, CurOk, NoQuestion
  <2> QED  BY <1>3, <1>13, <2>1, <2>6
<1>14. CASE Conflict
  <2>1. /\ cur # Idle /\ cur.stage = "try" /\ question = NoQuestion
        /\ ~cur.over /\ Last(cur.dest) \notin job.invalid /\ UNCHANGED <<pc, topFs>>
    <3>1. Result("exists")
      BY <1>14 DEF Conflict
    <3> QED  BY <1>14, <3>1, ConflictNamed DEF Conflict, Result, Trying
  <2>2. CASE /\ Covered /\ cur' = [cur EXCEPT !.over = TRUE] /\ Agree(common.replaceAll)
             /\ UNCHANGED <<question, frames>>
    <3>1. Merging \/ cur.dest \in agreed'
      BY <2>2 DEF Covered, Agree
    <3> QED  BY <1>13, <2>1, <2>2, <3>1
  <2>3. CASE Ask("conflict", cur.file) /\ UNCHANGED <<cur, frames>>
    <3>1. PICK c : c = cur
      OBVIOUS
    <3>2. FsKnown' = FsKnown
      BY <2>1, <2>3 DEF FsKnown
    <3>3. Ok(c)
      BY <1>1, <2>1, <2>3, <3>1, <3>2 DEF Ok, CurOk
    <3> QED  BY <1>3, <2>3, <3>1, <3>3
  <2>4. CASE cur' = Idle
    BY <1>2, <2>4
  <2> QED  BY <1>14, <2>2, <2>3, <2>4 DEF Conflict, Out
<1>15. CASE AnswerConflict
  <2>1. /\ cur # Idle /\ cur.stage = "try" /\ question' = NoQuestion
        /\ ~cur.over /\ Last(cur.dest) \notin job.invalid /\ UNCHANGED <<pc, topFs>>
    <3>1. question.kind = "conflict"
      BY <1>15 DEF AnswerConflict
    <3>2. cur # Idle /\ cur.stage = "try"
      BY <1>1, <3>1 DEF Control, CurQuestions
    <3> QED  BY <1>1, <1>15, <3>1, <3>2 DEF AnswerConflict, CurOk
  <2>2. cur' = Idle \/ (cur' = [cur EXCEPT !.over = TRUE] /\ Agree(TRUE) /\ UNCHANGED frames)
    BY <1>15 DEF AnswerConflict, Out
  <2>3. Agree(TRUE) => Merging \/ cur.dest \in agreed'
    BY DEF Agree
  <2> QED  BY <1>2, <1>13, <2>1, <2>2, <2>3
<1>16. CASE AnswerRename
  <2>1. /\ cur # Idle /\ cur.stage = "try" /\ question' = NoQuestion /\ cur.file \in File
        /\ ~cur.over /\ Last(cur.dest) \notin job.invalid /\ UNCHANGED <<pc, frames, topFs>>
        /\ cur.handled \in BOOLEAN
    <3>1. question.kind = "conflict"
      BY <1>16 DEF AnswerRename
    <3>2. cur # Idle /\ cur.stage = "try"
      BY <1>1, <3>1 DEF Control, CurQuestions
    <3> QED  BY <1>1, <1>16, <3>1, <3>2 DEF AnswerRename, CurOk, Control, CurType
  <2>2. PICK n \in NewNames : cur' = [cur EXCEPT !.dest = Append(Folders, n)]
    BY <1>16 DEF AnswerRename, Rename
  <2>3. PICK c : c = [cur EXCEPT !.dest = Append(Folders, n)]
    OBVIOUS
  <2>4. /\ c.handled = cur.handled /\ c.stage = cur.stage /\ c.over = cur.over
        /\ c.file = cur.file
    BY <1>1, <2>3 DEF CurType
  <2>5. FsKnown' = FsKnown
    BY <2>1 DEF FsKnown
  <2>6. ASSUME pc = "prepare"
        PROVE  /\ Own(c.file, c.handled) \in renamed'
               /\ c.handled \/ NameOf(c.file) \notin job.invalid
    <3>1. cur.dest \in renamed'
      BY <1>16, <2>6 DEF AnswerRename
    <3>2. CASE cur.dest = Own(cur.file, cur.handled)
      <4>1. ~cur.handled => Last(cur.dest) = NameOf(cur.file)
        BY <3>2 DEF Own, Last
      <4> QED  BY <2>1, <2>4, <3>1, <3>2, <4>1
    <3> QED  BY <1>1, <2>1, <2>4, <2>6, <3>2 DEF CurOk
  <2>7. Ok(c)
    BY <1>1, <2>1, <2>4, <2>5, <2>6 DEF Ok, CurOk, NoQuestion
  <2> QED  BY <1>3, <2>2, <2>3, <2>7
\* The same call in another stage.
<1>17. ASSUME NEW s \in {"drop", "make"}, cur # Idle, pc = "copy", cur' = [cur EXCEPT !.stage = s],
              question' = NoQuestion, UNCHANGED <<pc, frames, topFs>>
       PROVE  CurOk'
  <2>1. PICK c, d : d = cur /\ c = [cur EXCEPT !.stage = s]
    OBVIOUS
  <2>2. /\ c.handled = cur.handled /\ c.stage = s /\ c.dest = d.dest /\ c.file = d.file
        /\ c.over = d.over
    BY <1>1, <2>1 DEF CurType
  <2>3. FsKnown' = FsKnown
    BY <1>17 DEF FsKnown
  <2>4. c.over => MayReplace(c.dest, c.file)'
    <3>1. PICK p, f : p = c.dest /\ f = c.file
      OBVIOUS
    <3>2. c.over => MayReplace(p, f)
      BY <1>4, <1>17, <2>1, <2>2, <3>1
    <3>3. c.over => MayReplace(p, f)'
      BY <1>5, <3>2
    <3> QED  BY <3>1, <3>3
  <2>5. Ok(c)
    BY <1>1, <1>17, <2>1, <2>2, <2>3, <2>4 DEF Ok, CurOk, NoQuestion
  <2> QED  BY <1>3, <1>17, <2>1, <2>5
<1>18. CASE Recurse
  <2>1. cur # Idle /\ pc = "copy" /\ question' = NoQuestion /\ UNCHANGED <<pc, topFs>>
    BY <1>18 DEF Recurse, Result, Trying
  <2>2. CASE cur' = [cur EXCEPT !.stage = IF cur.over THEN "drop" ELSE "make"] /\ UNCHANGED frames
    BY <1>17, <2>1, <2>2
  <2> QED  BY <1>2, <1>18, <2>2 DEF Recurse, Enter
<1>19. CASE DropOld
  <2>1. /\ cur # Idle /\ pc = "copy" /\ question = NoQuestion /\ cur.file \in File
        /\ UNCHANGED <<pc, topFs>>
    BY <1>1, <1>19, IdleIs DEF DropOld, Control, Going
  <2>2. CASE cur' = [cur EXCEPT !.stage = "make"] /\ UNCHANGED <<question, frames>>
    BY <1>17, <2>1, <2>2
  <2>3. CASE Trouble("old", cur.file)
    <3>1. "old" \in Errors
      BY DEF Errors
    <3> QED  BY <1>8, <2>1, <2>3, <3>1
  <2> QED  BY <1>19, <2>2, <2>3 DEF DropOld
<1>20. CASE MakeFolder
  <2> DEFINE new == Append(Folders, Safe[NameOf(cur.file)])
             d == [cur EXCEPT !.dest = new, !.handled = TRUE, !.stage = "try"]
  <2>1. /\ cur # Idle /\ cur.stage = "make" /\ pc = "copy" /\ pc' = pc /\ question = NoQuestion
    BY <1>1, <1>20, IdleIs DEF MakeFolder, Control, Going
  <2>2. \/ cur' = Idle
        \/ /\ LearnFs(frames) /\ Last(cur.dest) \in job.invalid /\ ~FsKnown
           /\ (cur' = d /\ UNCHANGED question) \/ (UNCHANGED cur /\ question'.kind = "make")
        \/ UNCHANGED <<cur, frames, topFs>> /\ question'.kind = "make"
    <3>1. \/ Enter(TRUE)
          \/ /\ LearnFs(frames) /\ Last(cur.dest) \in job.invalid /\ ~FsKnown
             /\ (cur' = d /\ UNCHANGED question) \/ (UNCHANGED cur /\ Ask("make", cur.file))
          \/ UNCHANGED <<cur, frames, topFs>> /\ Ask("make", cur.file)
      BY <1>20 DEF MakeFolder
    <3> QED  BY <3>1 DEF Enter, Ask
  <2>3. ASSUME LearnFs(frames), Last(cur.dest) \in job.invalid, ~FsKnown
        PROVE  FsKnown' = TRUE /\ ~cur.over
    BY <1>1, <2>1, <2>3, LearntIs DEF CurOk
  <2>4. CASE /\ LearnFs(frames) /\ Last(cur.dest) \in job.invalid /\ ~FsKnown
             /\ cur' = d /\ UNCHANGED question
    <3>1. PICK c : c = d
      OBVIOUS
    <3> HIDE DEF new
    <3>2. c.handled = TRUE /\ c.over = cur.over
      BY <1>1, <3>1 DEF CurType
    <3> HIDE DEF d
    <3>3. Ok(c)
      BY <2>1, <2>3, <2>4, <3>2 DEF Ok, NoQuestion
    <3> QED  BY <1>3, <2>4, <3>1, <3>3
  <2>5. CASE /\ LearnFs(frames) /\ Last(cur.dest) \in job.invalid /\ ~FsKnown
             /\ UNCHANGED cur /\ question'.kind = "make"
    <3>1. PICK c : c = cur
      OBVIOUS
    <3>2. Ok(c)
      BY <2>1, <2>3, <2>5, <3>1 DEF Ok
    <3> QED  BY <1>3, <2>5, <3>1, <3>2
  <2>6. CASE UNCHANGED <<cur, frames, topFs>> /\ question'.kind = "make"
    BY <1>7, <2>1, <2>6
  <2> QED  BY <1>2, <2>2, <2>4, <2>5, <2>6
<1>21. CASE Fail
  <2>1. cur.file \in File /\ UNCHANGED <<pc, topFs>> /\ "failed" \in Errors
    BY <1>1, <1>21 DEF Fail, Trying, Control, Errors
  <2> QED  BY <1>8, <1>21, <2>1 DEF Fail
<1>22. CASE RemoveTarget
  <2>1. /\ cur.file \in File /\ "target" \in Errors /\ UNCHANGED <<pc, topFs>>
    BY <1>1, <1>22 DEF RemoveTarget, Control, Errors
  <2> QED  BY <1>7, <1>8, <1>22, <2>1 DEF RemoveTarget, fileVars
<1>23. CASE Succeed \/ PutOff \/ Stop \/ AnswerError \/ AnswerMake
  BY <1>2, <1>23 DEF Succeed, PutOff, Stop, AnswerError, AnswerMake, NotMade, Out
<1>24. CASE OpenDir \/ CloseDir \/ EndDir \/ LeaveDir \/ AnswerFolder \/ AnswerSource
  <2>1. cur' = Idle
    BY <1>1, <1>24 DEF OpenDir, CloseDir, EndDir, LeaveDir, AnswerFolder, AnswerSource, InFolder,
      Control
  <2> QED  BY <1>2, <2>1
<1>25. CASE Aborted \/ Done \/ Verify \/ Scan \/ ListDone \/ AnswerDestination
  <2>1. cur = Idle
    BY <1>1, <1>25 DEF Aborted, Done, Verify, Scan, ListDone, AnswerDestination, Control
  <2>2. cur' = cur
    BY <1>25 DEF Aborted, Done, Verify, Scan, ListDone, AnswerDestination
  <2> QED  BY <1>2, <2>1, <2>2
<1>26. CASE Retry \/ Cancel \/ Empty \/ UNCHANGED vars
  <2>1. UNCHANGED <<cur, pc, frames, topFs>> /\ (question' = question \/ question'.kind # "conflict")
    BY <1>26 DEF Retry, Cancel, Empty, vars, NoQuestion
  <2> QED  BY <1>7, <2>1
<1> QED
  BY <1>9, <1>10, <1>11, <1>12, <1>14, <1>15, <1>16, <1>18, <1>19, <1>20, <1>21, <1>22, <1>23,
     <1>24, <1>25, <1>26 DEF Next, Thread, Answer

LEMMA InitGrants == Init => Grants
<1> SUFFICES ASSUME Init PROVE Grants
  OBVIOUS
<1>1. /\ job \in Jobs /\ dest = job.old /\ cur = Idle /\ fallbacks = <<>>
      /\ list = [i \in DOMAIN job.top |-> [file |-> job.top[i], over |-> FALSE]]
  BY DEF Init
<1>2. ListsOk
  BY <1>1 DEF ListsOk, EntryOk
<1>3. ValidNames
  BY <1>1, JobAssumption DEF ValidNames
<1>4. CurOk
  BY <1>1 DEF CurOk
<1> QED  BY <1>2, <1>3, <1>4, InitShape DEF Grants

LEMMA NextGrants == Grants /\ [Next]_vars => Grants'
<1> SUFFICES ASSUME Grants, [Next]_vars PROVE Grants'
  OBVIOUS
<1>1. Shape'
  BY NextShape DEF Grants
<1> QED  BY <1>1, NextListsOk, NextValid, NextCurOk DEF Grants

LEMMA GrantsHold == Spec => []Grants
  BY InitGrants, NextGrants, PTL DEF Spec

\* Nothing in the destination is lost, in a folder that is merged or in one that
\* is replaced, unless the user chose to replace it: whatever is renamed, put
\* off, tried again under another spelling or answered for all.  Except where
\* move_files puts what move_file_prepare has put off (see Mistaken).
THEOREM NothingReplacedUnasked == Spec => []OnlyAgreedReplaced
<1> DEFINE Inv == Grants /\ OnlyAgreedReplaced
<1>1. Init => Inv
  <2>1. Init => OnlyAgreedReplaced
    BY DEF Init, OnlyAgreedReplaced, Kept
  <2> QED  BY <2>1, InitGrants
<1>2. Inv /\ [Next]_vars => Inv'
  <2> SUFFICES ASSUME Inv, [Next]_vars PROVE OnlyAgreedReplaced'
    BY NextGrants
  <2>1. job' = job /\ Shape /\ CurOk
    BY SameJob DEF Grants
  <2>2. ASSUME NEW p \in DOMAIN job.old PROVE (Kept(p, job.old[p]) \/ Given(p))'
    <3>1. PICK g : g = job.old[p]
      OBVIOUS
    <3>2. Kept(p, g) \/ Given(p)
      BY <2>2, <3>1 DEF OnlyAgreedReplaced
    <3>3. (Kept(p, g) \/ Given(p))'
      BY <2>1, <3>2, NothingLost
    <3> QED  BY <2>1, <3>1, <3>3 DEF Kept
  <2> QED  BY <2>1, <2>2 DEF OnlyAgreedReplaced
<1>3. Inv => OnlyAgreedReplaced
  OBVIOUS
<1> QED  BY <1>1, <1>2, <1>3, PTL DEF Spec

\* The file that comes to be in the destination, with all that comes with it.
LEMMA PutKept ==
  ASSUME NEW f \in File, NEW p \in Path, NEW files, files \subseteq Under(f), NEW g \in files,
         Put(f, p, files)
  PROVE  Kept(Place(f, p, g), g)'
<1>1. /\ DOMAIN dest' = (DOMAIN dest \ Below(p)) \cup Places(f, p, files)
      /\ \A h \in files : dest'[Place(f, p, h)] = h
  BY PutIs
<1>2. PICK q : q = Place(f, p, g)
  OBVIOUS
<1>3. q \in DOMAIN dest' /\ dest'[q] = g
  BY <1>1, <1>2 DEF Places
<1> QED  BY <1>2, <1>3 DEF Kept, Place, PathIn

\* What a step adds to the undo record.
LEMMA RecordSteps ==
  ASSUME Shape, [Next]_vars
  PROVE  \/ UNCHANGED record
         \/ /\ cur # Idle /\ cur.file \in File /\ cur.dest \in Path
            /\ record' = record \cup {<<cur.file, cur.dest>>}
            /\ \E files \in SUBSET Under(cur.file) :
                 cur.file \in files /\ Put(cur.file, cur.dest, files)
<1>1. TypeOK /\ Control /\ DataStep
  BY DataSteps DEF Shape
<1>2. CASE Succeed
  <2>1. cur # Idle /\ cur.file \in File /\ cur.file \in src
    BY <1>1, <1>2 DEF Succeed, Result, Trying, Attempt, Control
  <2>2. cur.file \in Under(cur.file) \cap src
    BY <2>1, UnderSelf
  <2> QED  BY <1>2, <2>1, <2>2, CurIs DEF Succeed, Record
<1>3. CASE Makes
  <2>1. cur # Idle /\ cur.file \in File
    BY <1>3, FileAssumption, IdleIs DEF Makes
  <2>2. {cur.file} \subseteq Under(cur.file)
    BY <2>1, UnderSelf
  <2> QED  BY <1>3, <2>1, <2>2, CurIs DEF Makes, Record
<1>4. CASE Still \/ Removes \/ Drops \/ Deletes \/ Spills
  BY <1>4 DEF Still, Removes, Drops, Deletes, Spills
<1> QED  BY <1>1, <1>2, <1>3, <1>4 DEF DataStep

\* Undo finds what it would move back or delete, or what replaced it: no later
\* file of the job takes the place of one that is in the undo record, nor empties
\* a folder it is in, unless that was agreed to.
THEOREM RecordRight == Spec => []RecordTrue
<1> DEFINE Inv == Grants /\ RecordTrue
<1>1. Init => Inv
  <2>1. Init => RecordTrue
    BY DEF Init, RecordTrue
  <2> QED  BY <2>1, InitGrants
<1>2. Inv /\ [Next]_vars => Inv'
  <2> SUFFICES ASSUME Inv, [Next]_vars PROVE RecordTrue'
    BY NextGrants
  <2>1. Shape /\ CurOk
    BY DEF Grants
  <2>2. ASSUME NEW r \in record PROVE Kept(r[2], r[1])' \/ Given(r[2])'
    <3>1. PICK p, g : p = r[2] /\ g = r[1]
      OBVIOUS
    <3>2. Kept(p, g) \/ Given(p)
      BY <3>1 DEF RecordTrue
    <3>3. (Kept(p, g) \/ Given(p))'
      BY <2>1, <3>2, NothingLost
    <3> QED  BY <3>1, <3>3
  <2>3. ASSUME NEW r, cur # Idle, cur.file \in File, cur.dest \in Path, r = <<cur.file, cur.dest>>,
               NEW files \in SUBSET Under(cur.file), cur.file \in files,
               Put(cur.file, cur.dest, files)
        PROVE  Kept(r[2], r[1])'
    <3>1. PICK p, f : p = r[2] /\ f = r[1]
      OBVIOUS
    <3>2. p \in DOMAIN dest' /\ dest'[p] = f
      BY <2>3, <3>1, PutSelf
    <3> QED  BY <3>1, <3>2 DEF Kept
  <2> QED  BY <2>1, <2>2, <2>3, RecordSteps DEF RecordTrue
<1>3. Inv => RecordTrue
  OBVIOUS
<1> QED  BY <1>1, <1>2, <1>3, PTL DEF Spec

\* The first part of NoSourceLost.
MovedHere ==
  \A f \in File \ src : f \notin Folder =>
    \E r \in record :
      f \in Under(r[1]) /\ LET p == r[2] \o PathIn(r[1], f) IN Kept(p, f) \/ Given(p)

LEMMA NextMoved == Grants /\ MovedHere /\ [Next]_vars => MovedHere'
<1> SUFFICES ASSUME Grants, MovedHere, [Next]_vars, NEW f \in File, f \notin src', f \notin Folder
             PROVE  \E r \in record' :
                      /\ f \in Under(r[1])
                      /\ LET p == r[2] \o PathIn(r[1], f) IN (Kept(p, f) \/ Given(p))'
  BY DEF MovedHere
<1>1. Shape /\ CurOk /\ TypeOK /\ Control /\ DataStep /\ record \subseteq record'
  BY DataSteps, SaidGrows DEF Grants, Shape
<1>2. CASE f \notin src
  <2>1. PICK r \in record :
          f \in Under(r[1]) /\ LET p == r[2] \o PathIn(r[1], f) IN Kept(p, f) \/ Given(p)
    BY <1>2 DEF MovedHere
  <2>2. PICK p : p = r[2] \o PathIn(r[1], f)
    OBVIOUS
  <2>3. (Kept(p, f) \/ Given(p))'
    BY <1>1, <2>1, <2>2, NothingLost
  <2> QED  BY <1>1, <2>1, <2>2, <2>3
<1>3. CASE f \in src
  <2>1. Succeed /\ f \in Under(cur.file) \cap src /\ IsMove
    BY <1>1, <1>3, CallTypes
       DEF DataStep, Still, Succeed, Makes, Removes, Drops, Deletes, Spills, InFolder
  <2>2. cur # Idle /\ cur.file \in File
    BY <1>1, <2>1 DEF Succeed, Result, Trying, Control
  <2>3. PICK g, q, r : g = cur.file /\ q = cur.dest /\ r = <<g, q>>
    OBVIOUS
  <2>4. /\ g \in File /\ q \in Path /\ f \in Under(g) \cap src /\ r \in record'
        /\ Put(g, q, Under(g) \cap src)
    BY <1>1, <2>1, <2>2, <2>3, CurIs DEF Succeed, Record
  <2>5. Kept(Place(g, q, f), f)'
    BY <2>4, PutKept
  <2>6. Place(g, q, f) = r[2] \o PathIn(r[1], f)
    BY <2>3 DEF Place
  <2> QED  BY <2>3, <2>4, <2>5, <2>6
<1> QED  BY <1>2, <1>3

-----------------------------------------------------------------------------
(* What the user knows of *)

\* What is known of f for good.
Known(f) ==
  \/ common.cancelled
  \/ f \in told \cup common.skipFiles \cup merged
  \/ \E r \in record : r[1] = f
  \/ IsMove /\ Safe[NameOf(f)] \in job.invalid

\* Where a selected file is that is still to be done.
InList(f) == \E i \in DOMAIN list : list[i].file = f
InFallbacks(f) == pc \in {"query", "prepare"} /\ \E i \in DOMAIN fallbacks : fallbacks[i].file = f
Asked(f) == question.kind = "itself" /\ question.file = f
Waits(f) == InList(f) \/ InFallbacks(f) \/ cur.file = f \/ Asked(f)

Accounted ==
  /\ \A f \in TopFiles : Known(f) \/ Waits(f)
  /\ pc \in {"query", "prepare", "scan"} => common.skipFiles = {}
  /\ pc \in {"notify", "over"} => common.cancelled \/ list = <<>>

\* Nothing the user knows is taken back, as the files are scanned once.
LEMMA CommonGrows ==
  ASSUME Shape, Accounted, [Next]_vars
  PROVE  /\ common.cancelled => common'.cancelled
         /\ common.skipFiles \subseteq common'.skipFiles
         /\ ~Scan => common'.skipFiles = common.skipFiles
<1>1. common \in CommonType
  BY TypeParts DEF Shape, AskTyped
<1>2. CASE UNCHANGED common
  BY <1>2
<1>3. CASE Abort \/ common' = [common EXCEPT !.skipAll = TRUE]
  BY <1>1, <1>3 DEF Abort, CommonType
<1>4. CASE \/ common' = [common EXCEPT !.skipConflicts = TRUE]
           \/ common' = [common EXCEPT !.mergeAll = TRUE]
           \/ common' = [common EXCEPT !.replaceAll = TRUE]
  BY <1>1, <1>4 DEF CommonType
<1>5. CASE Scan
  <2>1. ~common.cancelled /\ common.skipFiles = {}
    BY <1>5 DEF Scan, Going, Accounted
  <2> QED  BY <1>5, <2>1
<1>6. \/ UNCHANGED common \/ Abort \/ common' = [common EXCEPT !.skipAll = TRUE] \/ Scan
      \/ common' = [common EXCEPT !.skipConflicts = TRUE]
      \/ common' = [common EXCEPT !.mergeAll = TRUE]
      \/ common' = [common EXCEPT !.replaceAll = TRUE]
  <2>1. CASE \/ Aborted \/ Done \/ Verify \/ Scan \/ TakeNext \/ ListDone \/ Succeed \/ Respell
             \/ NextName \/ Conflict \/ PutOff \/ Empty \/ Recurse \/ Stop \/ Fail \/ RemoveTarget
    BY <2>1 DEF Aborted, Done, Verify, TakeNext, ListDone, Succeed, Respell, NextName, Conflict,
      PutOff, Empty, Recurse, Stop, Fail, RemoveTarget
  <2>2. CASE \/ DropOld \/ MakeFolder \/ OpenDir \/ (\E f \in File : CopyChild(f)) \/ CloseDir
             \/ EndDir \/ LeaveDir
    BY <2>2 DEF DropOld, MakeFolder, OpenDir, CopyChild, CloseDir, EndDir, LeaveDir
  <2>3. CASE \/ AnswerDestination \/ AnswerConflict \/ AnswerError \/ AnswerMake \/ AnswerFolder
             \/ AnswerSource \/ AnswerRename \/ Retry \/ Cancel \/ UNCHANGED vars
    BY <2>3 DEF AnswerDestination, AnswerConflict, AnswerError, AnswerMake, AnswerFolder,
      AnswerSource, AnswerRename, Retry, Cancel, Abort, vars
  <2> QED  BY <2>1, <2>2, <2>3 DEF Next, Thread, Answer
<1> QED  BY <1>2, <1>3, <1>4, <1>5, <1>6

LEMMA KnownStays ==
  ASSUME Shape, Accounted, [Next]_vars, NEW f, Known(f)
  PROVE  Known(f)'
<1>1. /\ common.cancelled => common'.cancelled
      /\ common.skipFiles \subseteq common'.skipFiles
      /\ told \subseteq told' /\ merged \subseteq merged' /\ record \subseteq record' /\ job' = job
  BY CommonGrows, ToldGrows, SaidGrows, SameJob
<1> QED  BY <1>1 DEF Known, IsMove, NameOf

\* The next of the list: it is skipped, asked about or begun.
LEMMA ListWaits ==
  ASSUME Shape, [Next]_vars, NEW f \in File, InList(f)
  PROVE  Known(f)' \/ Waits(f)'
<1>1. TypeOK /\ list \in Seq(Entry)
  BY TypeParts DEF Shape, ListTyped
<1>2. CASE UNCHANGED list
  BY <1>2 DEF InList, Waits
<1>3. CASE TakeNext
  <2>1. PICK i \in DOMAIN list : list[i].file = f
    BY DEF InList
  <2>2. CASE i # 1
    <3>1. i - 1 \in DOMAIN Tail(list) /\ Tail(list)[i - 1] = list[i]
      BY <1>1, <2>2
    <3> QED  BY <1>3, <2>1, <3>1 DEF TakeNext, InList, Waits
  <2>3. CASE i = 1
    <3>1. Head(list).file = f /\ Begin(f, Head(list).over) /\ UNCHANGED common
      BY <1>1, <1>3, <2>1, <2>3 DEF TakeNext
    <3>2. CASE f \in common.skipFiles
      BY <3>1, <3>2 DEF Known
    <3>3. CASE Trouble("itself", f)
      <4>1. "itself" \in Errors
        BY DEF Errors
      <4>2. f \in told' \/ (question'.kind = "itself" /\ question'.file = f)
        BY <1>1, <3>3, <4>1, TroubleIs
      <4> QED  BY <4>2 DEF Known, Waits, Asked
    <3>4. CASE cur' = [Idle EXCEPT !.file = f, !.dest = Target(f, 1, FsKnown),
                                   !.over = Head(list).over, !.handled = FsKnown, !.nth = 2]
      <4>1. cur'.file = f
        BY <3>4 DEF Idle
      <4> QED  BY <4>1 DEF Waits
    <3> QED  BY <3>1, <3>2, <3>3, <3>4 DEF Begin
  <2> QED  BY <2>2, <2>3
<1>4. ~ListDone
  BY DEF InList, ListDone
<1>5. UNCHANGED list \/ TakeNext \/ ListDone
  BY DEF Next, Thread, Answer, vars, lists, Aborted, Done, Verify, Scan,
    Succeed, Respell, NextName, Conflict, PutOff, Empty, Recurse, Stop, Fail, RemoveTarget,
    DropOld, MakeFolder, OpenDir, CopyChild, CloseDir, EndDir, LeaveDir, AnswerDestination,
    AnswerConflict, AnswerError, AnswerMake, AnswerFolder, AnswerSource, AnswerRename, Retry,
    Cancel
<1> QED  BY <1>2, <1>3, <1>4, <1>5

LEMMA PcSteps ==
  [Next]_vars =>
    UNCHANGED pc \/ Aborted \/ Done \/ Verify \/ Scan \/ ListDone \/ AnswerDestination
  BY DEF Next, Thread, Answer, vars, TakeNext, Succeed, Respell, NextName, Conflict, PutOff, Empty,
    Recurse, Stop, Fail, RemoveTarget, DropOld, MakeFolder, OpenDir, CopyChild, CloseDir, EndDir,
    LeaveDir, AnswerConflict, AnswerError, AnswerMake, AnswerFolder, AnswerSource, AnswerRename,
    Retry, Cancel

LEMMA FallbacksWait ==
  ASSUME Shape, [Next]_vars, NEW f \in File, InFallbacks(f)
  PROVE  Known(f)' \/ Waits(f)'
<1>1. TypeOK /\ list \in Seq(Entry) /\ fallbacks \in Seq(Entry)
  BY TypeParts DEF Shape, ListTyped
<1>2. PICK i \in DOMAIN fallbacks : fallbacks[i].file = f
  BY DEF InFallbacks
<1>3. i \in DOMAIN fallbacks' /\ fallbacks'[i].file = f
  <2>1. CASE UNCHANGED fallbacks
    BY <1>2, <2>1
  <2>2. CASE PutOff
    <3>1. PICK z : z = [file |-> cur.file, over |-> cur.over]
      OBVIOUS
    <3>2. fallbacks' = Append(fallbacks, z)
      BY <2>2, <3>1 DEF PutOff, PutOnList
    <3> QED  BY <1>1, <1>2, <3>2
  <2>3. UNCHANGED fallbacks \/ PutOff
    BY DEF Next, Thread, Answer, vars, lists, Aborted, Done, Verify, Scan, TakeNext, ListDone,
      Succeed, Respell, NextName, Conflict, Empty, Recurse, Stop, Fail, RemoveTarget,
      DropOld, MakeFolder, OpenDir, CopyChild, CloseDir, EndDir, LeaveDir, AnswerDestination,
      AnswerConflict, AnswerError, AnswerMake, AnswerFolder, AnswerSource, AnswerRename, Retry,
      Cancel
  <2> QED  BY <2>1, <2>2, <2>3
<1>4. CASE pc' \in {"query", "prepare"}
  BY <1>3, <1>4 DEF InFallbacks, Waits
<1>5. CASE Aborted
  BY <1>5 DEF Aborted, Known
<1>6. CASE ListDone /\ pc = "prepare"
  BY <1>2, <1>6 DEF ListDone, InList, Waits
<1>7. pc \in {"query", "prepare"}
  BY DEF InFallbacks
<1>8. pc' \in {"query", "prepare"} \/ Aborted \/ (ListDone /\ pc = "prepare")
  <2>1. UNCHANGED pc \/ Aborted \/ Done \/ Verify \/ Scan \/ ListDone \/ AnswerDestination
    BY PcSteps
  <2>2. CASE Verify \/ AnswerDestination
    <3>1. pc' = pc \/ pc' = AfterVerify
      BY <2>2 DEF Verify, AnswerDestination
    <3>2. pc = "prepare" => pc' = pc
      BY <2>2 DEF Verify, AnswerDestination, Shape, Control
    <3> QED  BY <1>7, <3>1, <3>2 DEF AfterVerify
  <2>3. ~Done /\ ~Scan
    BY <1>7 DEF Done, Scan
  <2> QED  BY <1>7, <2>1, <2>2, <2>3 DEF ListDone
<1> QED  BY <1>4, <1>5, <1>6, <1>8

LEMMA AskedWaits ==
  ASSUME Shape, [Next]_vars, NEW f \in File, Asked(f)
  PROVE  Known(f)' \/ Waits(f)'
<1>1. question.kind = "itself" /\ question.file = f /\ question # NoQuestion /\ cur = Idle
  BY DEF Asked, Shape, Control, NoQuestion
<1>2. CASE UNCHANGED question
  BY <1>1, <1>2 DEF Asked, Waits
<1>3. CASE AnswerError
  BY <1>1, <1>3 DEF AnswerError, Abort, Known, Shape, TypeOK
<1>4. UNCHANGED question \/ AnswerError
  BY <1>1 DEF Next, Thread, Answer, vars, Aborted, Done, Verify, Scan, TakeNext, ListDone, Going,
    Succeed, Respell, NextName, Conflict, PutOff, Empty, Recurse, Stop, Fail, RemoveTarget,
    Result, Trying, DropOld, MakeFolder, OpenDir, CopyChild, CloseDir, EndDir, LeaveDir,
    AnswerDestination, AnswerConflict, AnswerMake, AnswerFolder, AnswerSource, AnswerRename,
    Retry, Cancel
<1> QED  BY <1>2, <1>3, <1>4

LEMMA CurWaits ==
  ASSUME Shape, [Next]_vars, NEW f \in File, cur.file = f
  PROVE  Known(f)' \/ Waits(f)'
<1>1. /\ cur # Idle /\ TypeOK /\ Control /\ cur \in CurType /\ job' = job
  BY IdleIs, SameJob, TypeParts DEF Shape, CallTyped
<1>2. ASSUME cur'.file = f PROVE Known(f)' \/ Waits(f)'
  BY <1>2 DEF Waits
<1>3. ASSUME f \in told' PROVE Known(f)' \/ Waits(f)'
  BY <1>3 DEF Known
<1>4. ASSUME common'.cancelled PROVE Known(f)' \/ Waits(f)'
  BY <1>4 DEF Known
<1>5. ASSUME Abort PROVE Known(f)' \/ Waits(f)'
  BY <1>1, <1>4, <1>5 DEF Abort, TypeOK
<1>6. ASSUME NEW k \in Errors, Trouble(k, f) PROVE Known(f)' \/ Waits(f)'
  BY <1>1, <1>2, <1>3, <1>6, TroubleIs
<1>7. CASE Succeed \/ MakeFolder
  <2>1. CASE <<f, cur.dest>> \in record'
    BY <2>1 DEF Known
  <2>2. CASE cur'.file = f
    BY <1>2, <2>2
  <2>3. <<f, cur.dest>> \in record' \/ cur'.file = f
    <3>1. CASE Succeed
      BY <3>1 DEF Succeed, Record
    <3>2. CASE MakeFolder
      <4>1. \/ Record(cur.file, cur.dest)
            \/ UNCHANGED cur
            \/ \E q : cur' = [cur EXCEPT !.dest = q, !.handled = TRUE, !.stage = "try"]
        BY <3>2 DEF MakeFolder
      <4> QED  BY <1>1, <4>1 DEF Record, CurType
    <3> QED  BY <1>7, <3>1, <3>2
  <2> QED  BY <2>1, <2>2, <2>3
<1>8. CASE Respell
  <2> DEFINE new == Target(f, cur.nth, TRUE)
  <2>1. CASE cur' = Idle /\ pc = "prepare" /\ new = cur.dest
    <3>1. IsMove /\ frames = <<>> /\ Last(cur.dest) \in job.invalid
      BY <1>1, <1>8, <2>1 DEF Respell, Result, Attempt, Control
    <3>2. new = Own(f, TRUE)
      BY <3>1, TopTarget
    <3>3. Last(Own(f, TRUE)) = Safe[NameOf(f)]
      BY DEF Own, Last
    <3> QED  BY <1>1, <2>1, <3>1, <3>2, <3>3 DEF Known, IsMove
  <2>2. CASE cur' = [cur EXCEPT !.dest = new, !.handled = TRUE]
    BY <1>1, <1>2, <2>2 DEF CurType
  <2>3. CASE cur' = [cur EXCEPT !.handled = TRUE]
    BY <1>1, <1>2, <2>3 DEF CurType
  <2> QED  BY <1>8, <2>1, <2>2, <2>3 DEF Respell
<1>9. CASE NextName \/ AnswerRename
  <2>1. \/ \E q, m : cur' = [cur EXCEPT !.dest = q, !.nth = m]
        \/ \E q : cur' = [cur EXCEPT !.dest = q]
    BY <1>9 DEF NextName, AnswerRename, Rename
  <2> QED  BY <1>1, <1>2, <2>1 DEF CurType
<1>10. CASE Conflict
  <2>1. UNCHANGED cur \/ f \in told' \/ cur' = [cur EXCEPT !.over = TRUE]
    BY <1>10 DEF Conflict
  <2> QED  BY <1>1, <1>2, <1>3, <2>1 DEF CurType
<1>11. CASE AnswerConflict
  <2>1. Abort \/ f \in told' \/ cur' = [cur EXCEPT !.over = TRUE]
    BY <1>11 DEF AnswerConflict
  <2> QED  BY <1>1, <1>2, <1>3, <1>5, <2>1 DEF CurType
<1>12. CASE PutOff
  <2>1. PICK z : z = [file |-> f, over |-> cur.over]
    OBVIOUS
  <2>2. fallbacks' = Append(fallbacks, z) /\ fallbacks \in Seq(Entry) /\ pc' = "prepare" /\ z.file = f
    BY <1>1, <1>12, <2>1, TypeParts DEF PutOff, PutOnList, ListTyped
  <2>3. Len(fallbacks) + 1 \in DOMAIN fallbacks' /\ fallbacks'[Len(fallbacks) + 1] = z
    BY <2>2
  <2> QED  BY <2>2, <2>3 DEF InFallbacks, Waits
<1>13. CASE Recurse
  <2>1. f \in merged' \/ \E s \in {"drop", "make"} : cur' = [cur EXCEPT !.stage = s]
    BY <1>13 DEF Recurse, Enter
  <2> QED  BY <1>1, <1>2, <2>1 DEF CurType, Known
<1>14. CASE Stop
  BY <1>4, <1>14 DEF Stop
<1>15. CASE Fail \/ RemoveTarget \/ DropOld
  <2>1. \/ UNCHANGED cur
        \/ cur' = [cur EXCEPT !.stage = "make"]
        \/ \E k \in Errors : Trouble(k, f)
    BY <1>15 DEF Fail, RemoveTarget, DropOld, Errors
  <2> QED  BY <1>1, <1>2, <1>6, <2>1 DEF CurType
<1>16. CASE AnswerError \/ AnswerMake
  <2>1. question.file = f
    BY <1>1, <1>16 DEF AnswerError, AnswerMake, Control, CurQuestions, Errors
  <2> QED  BY <1>3, <1>5, <1>16, <2>1 DEF AnswerError, AnswerMake
<1>17. CASE Cancel \/ Retry \/ Empty \/ UNCHANGED vars
  BY <1>2, <1>17 DEF Cancel, Retry, Empty, vars
<1>18. CASE \/ Aborted \/ Done \/ Verify \/ Scan \/ TakeNext \/ ListDone \/ AnswerDestination
            \/ OpenDir \/ (\E g \in File : CopyChild(g)) \/ CloseDir \/ EndDir \/ LeaveDir
            \/ AnswerFolder \/ AnswerSource
  <2>1. cur = Idle
    <3>1. CASE Aborted \/ Done \/ Verify \/ Scan \/ TakeNext \/ ListDone \/ AnswerDestination
      BY <1>1, <3>1 DEF Aborted, Done, Verify, Scan, TakeNext, ListDone, AnswerDestination, Control
    <3>2. CASE \/ OpenDir \/ (\E g \in File : CopyChild(g)) \/ CloseDir \/ EndDir \/ LeaveDir
               \/ AnswerFolder \/ AnswerSource
      BY <1>1, <3>2 DEF OpenDir, CopyChild, CloseDir, EndDir, LeaveDir, AnswerFolder, AnswerSource,
        InFolder, Control
    <3> QED  BY <1>18, <3>1, <3>2
  <2> QED  BY <1>1, <2>1
<1> QED
  BY <1>7, <1>8, <1>9, <1>10, <1>11, <1>12, <1>13, <1>14, <1>15, <1>16, <1>17, <1>18
     DEF Next, Thread, Answer

LEMMA NextAccounted == Shape /\ Accounted /\ [Next]_vars => Accounted'
<1> SUFFICES ASSUME Shape, Accounted, [Next]_vars PROVE Accounted'
  OBVIOUS
<1>1. TypeOK /\ Control /\ job' = job /\ TopFiles' = TopFiles /\ TopFiles \subseteq File
  <2>1. TypeOK /\ Control /\ job' = job
    BY SameJob DEF Shape
  <2>2. job.top \in Seq(File)
    BY <2>1, JobAssumption DEF TypeOK
  <2>3. Range(job.top) \subseteq File
    BY <2>2 DEF Range
  <2> QED  BY <2>1, <2>3 DEF TopFiles
<1>2. ASSUME NEW f \in TopFiles PROVE Known(f)' \/ Waits(f)'
  <2>1. CASE Known(f)
    BY <2>1, KnownStays
  <2>2. CASE Waits(f)
    BY <1>1, <2>2, ListWaits, FallbacksWait, AskedWaits, CurWaits DEF Waits
  <2> QED  BY <2>1, <2>2 DEF Accounted
<1>3. pc' \in {"query", "prepare", "scan"} => common'.skipFiles = {}
  <2>1. ASSUME Scan \/ Verify \/ AnswerDestination \/ Aborted \/ Done \/ ListDone,
               pc' \in {"query", "prepare", "scan"}
        PROVE  pc \in {"query", "prepare", "scan"} /\ ~Scan
    BY <1>1, <2>1 DEF Scan, Verify, AnswerDestination, AfterVerify, Aborted, Done, ListDone, Control
  <2>2. pc' \in {"query", "prepare", "scan"} => pc \in {"query", "prepare", "scan"} /\ ~Scan
    BY <2>1, PcSteps DEF Scan
  <2> QED  BY <2>2, CommonGrows DEF Accounted
<1>4. pc' \in {"notify", "over"} => common'.cancelled \/ list' = <<>>
  <2>1. common.cancelled => common'.cancelled
    BY CommonGrows
  <2>2. CASE UNCHANGED pc
    <3>1. pc \in {"notify", "over"} => UNCHANGED list \/ TakeNext \/ ListDone
      BY DEF Next, Thread, Answer, vars, lists, Aborted, Done, Verify, Scan,
        Succeed, Respell, NextName, Conflict, PutOff, Empty, Recurse, Stop, Fail, RemoveTarget,
        DropOld, MakeFolder, OpenDir, CopyChild, CloseDir, EndDir, LeaveDir, AnswerDestination,
        AnswerConflict, AnswerError, AnswerMake, AnswerFolder, AnswerSource, AnswerRename, Retry,
        Cancel
    <3>2. pc \in {"notify", "over"} => UNCHANGED list
      BY <3>1 DEF TakeNext, ListDone
    <3> QED  BY <2>1, <2>2, <3>2 DEF Accounted
  <2>3. CASE Aborted \/ Done
    BY <2>1, <2>3 DEF Aborted, Done, Accounted, lists
  <2>4. CASE ListDone
    BY <2>4 DEF ListDone
  <2>5. CASE Verify \/ Scan \/ AnswerDestination
    <3>1. pc' \in {pc, "prepare", "copy", "verify"} /\ pc \in {"query", "verify", "scan"}
      BY <1>1, <2>5 DEF Verify, Scan, AnswerDestination, AfterVerify, Control
    <3> QED  BY <3>1
  <2> QED  BY <2>2, <2>3, <2>4, <2>5, PcSteps
<1> QED  BY <1>1, <1>2, <1>3, <1>4 DEF Accounted

\* At the end of a job that was not cancelled the user knows of every selected
\* file that was neither copied nor moved, nor merged into a folder, whatever it
\* was tried with and however often it was put off; except for a name that has
\* no valid spelling, of which move_file_prepare says nothing.
THEOREM NoFileForgotten == Spec => []AllAccounted
<1> DEFINE Inv == Shape /\ Accounted
<1>1. Init => Inv
  <2> SUFFICES ASSUME Init PROVE Accounted
    BY InitShape
  <2>1. ASSUME NEW f \in TopFiles PROVE InList(f)
    <3>1. PICK i \in DOMAIN job.top : job.top[i] = f
      BY DEF TopFiles, Range
    <3> QED  BY <3>1 DEF Init, InList
  <2> QED  BY <2>1 DEF Init, Accounted, Waits
<1>2. Inv /\ [Next]_vars => Inv'
  BY NextShape, NextAccounted
<1>3. Inv => AllAccounted
  <2> SUFFICES ASSUME Inv, pc = "over", ~common.cancelled,
                      NEW f \in TopFiles \ (told \cup common.skipFiles \cup merged)
               PROVE  \/ f \in {r[1] : r \in record}
                      \/ IsMove /\ Safe[NameOf(f)] \in job.invalid
    BY DEF AllAccounted
  <2>1. f \in File
    <3>1. job.top \in Seq(File)
      BY JobAssumption DEF Shape, TypeOK
    <3> QED  BY <3>1 DEF TopFiles, Range
  <2>2. list = <<>>
    BY DEF Accounted
  <2>3. ~Waits(f)
    BY <2>1, <2>2, IdleIs DEF Waits, InList, InFallbacks, Asked, Shape, Control
  <2> QED  BY <2>3 DEF Accounted, Known
<1> QED  BY <1>1, <1>2, <1>3, PTL DEF Spec

-----------------------------------------------------------------------------
(* What the user skipped *)

Files(l) == {l[i].file : i \in DOMAIN l}
Distinct(l) == \A i, k \in DOMAIN l : l[i].file = l[k].file => i = k

\* The files a job may still do something with, and those it may not any more.
Listed == Files(list)
PutAway == IF pc \in {"query", "prepare"} THEN Files(fallbacks) ELSE {}
Later == Listed \cup PutAway
AtHand == {f \in File : f = cur.file \/ Asked(f)}
Left == {f \in File : \E k \in DOMAIN frames : f \in frames[k].left}
Pending == Later \cup AtHand \cup Left \cup told

\* Each of them is in one place.
ListsApart == Distinct(list) /\ Distinct(fallbacks) /\ Listed \cap PutAway = {}
LeftsApart == \A i, k \in DOMAIN frames : i # k => frames[i].left \cap frames[k].left = {}
Sorted ==
  /\ ListsApart /\ LeftsApart
  /\ AtHand \cap (Later \cup Left \cup told) = {}
  /\ Later \cap (Left \cup told) = {} /\ Left \cap told = {}

\* Nothing of f has been touched, and nothing of it is in the destination but
\* what an attempt on f itself has left.
Whole(f) ==
  /\ Under(f) \subseteq src
  /\ \A p \in DOMAIN dest :
       dest[p] \in Under(f) => \E l \in left : l[1] = f /\ IsPrefix(l[2], p)
Untouched == \A f \in Pending : Whole(f) /\ \A g \in Pending : f # g => f \notin Under(g)

\* The folders that are being copied are in none of them; nor is one of them
\* in a folder that has not been read.
Entered == \A k \in DOMAIN frames : \A f \in Pending : frames[k].dir \notin Under(f)
Unread(dir) ==
  /\ Under(dir) \subseteq src /\ (Under(dir) \ {dir}) \cap Range(dest) = {}
  /\ Pending \cap Under(dir) = {}
  /\ \A k \in DOMAIN frames : k # 1 => frames[k].dir \notin Under(dir)
Reading ==
  /\ \A k \in DOMAIN frames : k # 1 => frames[k].stage # "open"
  /\ frames # <<>> =>
       /\ cur # Idle => Call.stage # "open"
       /\ Call.stage = "open" => Unread(Call.dir)

Tidy == Sorted /\ Untouched /\ Entered /\ Reading

\* What a step does to the folders that are being copied: nothing that matters,
\* or the innermost one goes on, is read, is entered or left.
SameLevels ==
  /\ Len(frames') = Len(frames)
  /\ \A k \in DOMAIN frames : SameLevel(frames'[k], frames[k])
OthersSame ==
  /\ frames # <<>> /\ cur = Idle /\ Len(frames') = Len(frames)
  /\ frames'[1].dir = Call.dir /\ frames'[1].stage # "open"
  /\ \A k \in DOMAIN frames : k # 1 => SameLevel(frames'[k], frames[k])
Turns == OthersSame /\ frames'[1].left \subseteq Call.left
Opens == OthersSame /\ OpenDir /\ frames'[1].left \subseteq Present(Call.dir)

LEMMA CallsOthers ==
  ASSUME TypeOK, frames # <<>>, NEW c \in Level, Calls(c)
  PROVE  /\ Len(frames') = Len(frames) /\ frames'[1] = c
         /\ \A k \in DOMAIN frames : k # 1 => SameLevel(frames'[k], frames[k])
<1>1. frames' = <<c>> \o Tail(frames) /\ frames \in Seq(Level)
  BY DEF Calls, TypeOK
<1>2. /\ Len(frames') = Len(frames) /\ Len(frames) \in Nat /\ Len(frames) > 0
      /\ \A k \in 1 .. Len(frames) : frames'[k] = IF k = 1 THEN c ELSE frames[k]
  BY <1>1, HeadReplaced
<1> QED  BY <1>1, <1>2 DEF SameLevel

LEMMA LevelSteps ==
  ASSUME TypeOK, Control, [Next]_vars
  PROVE  SameLevels \/ Turns \/ Opens \/ Enters \/ Leaves
<1>0. frames \in Seq(Level)
  BY DEF TypeOK
<1>1. ASSUME UNCHANGED frames PROVE SameLevels
  BY <1>1 DEF SameLevels, SameLevel
<1>2. ASSUME Out PROVE SameLevels
  BY <1>0, <1>2, MarkTyped DEF Out, SameLevels
<1>3. ASSUME NEW k, NEW f, Trouble(k, f) PROVE SameLevels
  BY <1>1, <1>2, <1>3 DEF Trouble
<1>4. ASSUME LearnFs(frames) PROVE SameLevels
  BY <1>0, <1>4, LearnTyped DEF SameLevels
<1>5. CASE TakeNext
  <2>1. Out \/ UNCHANGED frames \/ Trouble("itself", Head(list).file)
    BY <1>5 DEF TakeNext, Begin
  <2> QED  BY <1>1, <1>2, <1>3, <2>1
<1>6. CASE Conflict \/ AnswerConflict
  <2>1. Out \/ UNCHANGED frames
    BY <1>6 DEF Conflict, AnswerConflict
  <2> QED  BY <1>1, <1>2, <2>1
<1>7. CASE Recurse \/ MakeFolder
  <2>1. UNCHANGED frames \/ LearnFs(frames) \/ Enter(TRUE) \/ Enter(FALSE)
    BY <1>7 DEF Recurse, MakeFolder
  <2>2. ASSUME NEW c \in BOOLEAN, Enter(c) PROVE Enters
    <3>1. SameFolders \/ Enters \/ Leaves
      BY FrameSteps
    <3>2. Frame(c) \in Level
      <4>1. cur.file \in Folder /\ cur.dest \in Path
        BY <1>7, <2>2 DEF Recurse, MakeFolder, Result, Trying, Attempt, Enter, Control, TypeOK
      <4> QED  BY <4>1, <2>2 DEF Frame, Level
    <3>3. Len(frames') = Len(frames) + 1 /\ Len(frames) \in Nat
      BY <1>0, <2>2, <3>2, HeadAdded DEF Enter
    <3> QED  BY <3>1, <3>3, LeavesIs DEF SameFolders
  <2> QED  BY <1>1, <1>4, <2>1, <2>2
<1>8. CASE Respell
  BY <1>4, <1>8 DEF Respell
<1>9. CASE Stop \/ AnswerError \/ AnswerMake
  BY <1>2, <1>9 DEF Stop, AnswerError, AnswerMake, NotMade
<1>10. CASE Fail \/ RemoveTarget \/ DropOld
  <2>1. UNCHANGED frames \/ \E k, f : Trouble(k, f)
    BY <1>10 DEF Fail, RemoveTarget, DropOld
  <2> QED  BY <1>1, <1>3, <2>1
<1>11. ASSUME frames # <<>>, cur = Idle, NEW c \in Level, Calls(c), c.dir = Call.dir,
              c.stage # "open"
       PROVE  OthersSame /\ frames'[1] = c
  BY <1>11, CallsOthers DEF OthersSame
<1>12. CASE OpenDir
  <2>1. /\ frames # <<>> /\ cur = Idle /\ Call \in Level
        /\ Present(Call.dir) \subseteq File
    BY <1>12, CallTypes DEF OpenDir, InFolder, Present, Kids, Under
  <2>2. ASSUME NEW seen \in SUBSET Present(Call.dir), NEW b \in BOOLEAN,
               Calls([Call EXCEPT !.stage = "list", !.left = seen, !.broken = b])
        PROVE  Opens
    <3> DEFINE c == [Call EXCEPT !.stage = "list", !.left = seen, !.broken = b]
    <3>1. c \in Level /\ c.dir = Call.dir /\ c.stage # "open" /\ c.left = seen
      BY <2>1 DEF Level
    <3> HIDE DEF c
    <3>2. OthersSame /\ frames'[1] = c
      BY <1>11, <2>1, <2>2, <3>1 DEF c
    <3> QED  BY <1>12, <3>1, <3>2 DEF Opens
  <2>3. ASSUME Calls([Call EXCEPT !.stage = "list", !.left = Present(Call.dir)])
        PROVE  Opens
    <3> DEFINE c == [Call EXCEPT !.stage = "list", !.left = Present(Call.dir)]
    <3>1. c \in Level /\ c.dir = Call.dir /\ c.stage # "open" /\ c.left = Present(Call.dir)
      BY <2>1 DEF Level
    <3> HIDE DEF c
    <3>2. OthersSame /\ frames'[1] = c
      BY <1>11, <2>1, <2>3, <3>1 DEF c
    <3> QED  BY <1>12, <3>1, <3>2 DEF Opens
  <2>4. \/ UNCHANGED frames
        \/ Calls([Call EXCEPT !.stage = "list", !.left = Present(Call.dir)])
        \/ \E seen \in SUBSET Present(Call.dir), b \in BOOLEAN :
             Calls([Call EXCEPT !.stage = "list", !.left = seen, !.broken = b])
    BY <1>12 DEF OpenDir
  <2> QED  BY <1>1, <2>2, <2>3, <2>4
<1>13. CASE CloseDir \/ AnswerFolder
  <2>1. /\ frames # <<>> /\ cur = Idle /\ Call \in Level
        /\ (CloseDir => Call.stage = "list")
        /\ (AnswerFolder => Call.stage = "open" \/ Call.stage = "list")
    BY <1>13, CallTypes DEF CloseDir, AnswerFolder, InFolder, Control
  <2>2. \A c \in {[Call EXCEPT !.stage = "end"], [Call EXCEPT !.skip = TRUE, !.stage = "end"],
                  [Call EXCEPT !.skip = TRUE, !.stage = "list"]} :
          c \in Level /\ c.dir = Call.dir /\ c.stage # "open" /\ c.left = Call.left
    BY <2>1 DEF Level
  <2>3. [Call EXCEPT !.broken = FALSE] \in Level /\ [Call EXCEPT !.broken = FALSE].dir = Call.dir
        /\ [Call EXCEPT !.broken = FALSE].stage = Call.stage
        /\ [Call EXCEPT !.broken = FALSE].left = Call.left
    BY <2>1 DEF Level
  <2>4. \/ UNCHANGED frames
        \/ CloseDir /\ Calls([Call EXCEPT !.broken = FALSE])
        \/ \E c \in {[Call EXCEPT !.stage = "end"], [Call EXCEPT !.skip = TRUE, !.stage = "end"],
                     [Call EXCEPT !.skip = TRUE, !.stage = "list"]} : Calls(c)
    BY <1>13 DEF CloseDir, AnswerFolder
  <2>5. ASSUME NEW c \in Level, c.dir = Call.dir, c.stage # "open", c.left = Call.left, Calls(c)
        PROVE  Turns
    BY <1>11, <2>1, <2>5 DEF Turns
  <2> QED  BY <1>1, <2>1, <2>2, <2>3, <2>4, <2>5
<1>14. ASSUME NEW f \in File, CopyChild(f) PROVE Turns
  <2> DEFINE c == [Call EXCEPT !.left = Call.left \ {f}]
             rest == <<c>> \o Tail(frames)
  <2>1. frames # <<>> /\ cur = Idle /\ Call = frames[1] /\ Call \in Level /\ Call.stage = "list"
    BY <1>14, CallTypes DEF CopyChild, InFolder
  <2>2. /\ c \in Level /\ c.dir = Call.dir /\ c.left = Call.left \ {f} /\ c.stage = "list"
    BY <2>1 DEF Level
  <2>3. frames' = rest \/ frames' = MarkIn(rest)
    BY <1>14 DEF CopyChild
  <2> HIDE DEF c
  <2>4. /\ rest \in Seq(Level) /\ Len(rest) = Len(frames)
        /\ \A k \in 1 .. Len(frames) : rest[k] = IF k = 1 THEN c ELSE frames[k]
        /\ Len(frames) \in Nat /\ Len(frames) > 0
    BY <1>0, <2>1, <2>2, HeadReplaced
  <2> HIDE DEF rest
  <2>5. /\ Len(frames') = Len(rest)
        /\ \A k \in 1 .. Len(rest) : SameLevel(frames'[k], rest[k])
    BY <2>3, <2>4, MarkTyped DEF SameLevel
  <2>6. \A k \in 1 .. Len(frames) : k # 1 => SameLevel(frames'[k], frames[k])
    BY <2>4, <2>5
  <2>7. SameLevel(frames'[1], c)
    BY <2>4, <2>5
  <2> QED  BY <1>0, <2>1, <2>2, <2>4, <2>5, <2>6, <2>7 DEF Turns, OthersSame, SameLevel
<1>15. CASE EndDir \/ LeaveDir \/ AnswerSource
  <2>1. frames # <<>> /\ cur = Idle /\ cur' = Idle
    BY <1>15 DEF EndDir, LeaveDir, AnswerSource, InFolder, Control
  <2>2. Call.skip \in BOOLEAN
    BY <2>1, CallTypes DEF Level
  <2>3. UNCHANGED frames \/ \E skip \in BOOLEAN : Return(skip)
    BY <1>15, <2>2 DEF EndDir, LeaveDir, AnswerSource
  <2> QED  BY <1>1, <2>1, <2>3 DEF Leaves
<1>16. CASE \/ Aborted \/ Done \/ Verify \/ Scan \/ ListDone \/ Succeed \/ NextName \/ PutOff
            \/ Empty \/ AnswerDestination \/ AnswerRename \/ Retry \/ Cancel \/ UNCHANGED vars
  BY <1>1, <1>16 DEF Aborted, Done, Verify, Scan, ListDone, Succeed, NextName, PutOff, Empty,
    AnswerDestination, AnswerRename, Retry, Cancel, vars
<1> QED
  BY <1>5, <1>6, <1>7, <1>8, <1>9, <1>10, <1>12, <1>13, <1>14, <1>15, <1>16
     DEF Next, Thread, Answer

LEMMA EntersIs ==
  ASSUME TypeOK, Control, Enters
  PROVE  /\ cur.file \in Folder /\ cur.file \in File /\ Len(frames') = Len(frames) + 1
         /\ frames' \in Seq(Level) /\ frames \in Seq(Level)
         /\ frames'[1].dir = cur.file /\ frames'[1].left = {} /\ frames'[1].stage = "open"
         /\ \A k \in DOMAIN frames' : k # 1 => /\ k - 1 \in DOMAIN frames
                                              /\ frames'[k] = frames[k - 1]
<1>1. PICK created \in BOOLEAN : frames' = <<Frame(created)>> \o frames
  BY DEF Enters
<1>2. cur.file \in Folder /\ cur.file \in File /\ cur.dest \in Path /\ frames \in Seq(Level)
  BY FileAssumption DEF Enters, TypeOK
<1> DEFINE c == Frame(created)
<1>3. /\ c \in Level /\ c.dir = cur.file /\ c.left = {} /\ c.stage = "open"
  BY <1>2 DEF Frame, Level
<1> HIDE DEF c
<1>4. /\ <<c>> \o frames \in Seq(Level) /\ Len(<<c>> \o frames) = Len(frames) + 1
      /\ \A k \in 1 .. Len(frames) + 1 : (<<c>> \o frames)[k] = IF k = 1 THEN c ELSE frames[k - 1]
  BY <1>2, <1>3, HeadAdded
<1>5. frames' = <<c>> \o frames
  BY <1>1 DEF c
<1> DEFINE fs == <<c>> \o frames
<1> HIDE DEF fs
<1>6. /\ fs \in Seq(Level) /\ Len(fs) = Len(frames) + 1 /\ Len(frames) \in Nat
      /\ \A k \in 1 .. Len(frames) + 1 : fs[k] = IF k = 1 THEN c ELSE frames[k - 1]
  BY <1>2, <1>4 DEF fs
<1>7. \A k \in DOMAIN fs : k # 1 => k - 1 \in DOMAIN frames /\ fs[k] = frames[k - 1]
  BY <1>2, <1>6
<1> QED  BY <1>2, <1>3, <1>5, <1>6, <1>7 DEF fs

\* The children that are left are in one place only.
LEMMA NextLefts ==
  ASSUME Shape, LeftsApart, [Next]_vars
  PROVE  \/ Left' \subseteq Left /\ LeftsApart'
         \/ /\ Opens /\ Left' \subseteq Left \cup Present(Call.dir)
            /\ Left \cap Present(Call.dir) = {} => LeftsApart'
<1>1. TypeOK /\ Control /\ frames \in Seq(Level) /\ frames' \in Seq(Level)
  BY NextCalls, TypeParts DEF Shape, CallTyped
<1>2. ASSUME NEW i \in DOMAIN frames, NEW f \in frames[i].left PROVE f \in Left
  BY <1>1, <1>2, LevelsTyped DEF Left
<1>3. ASSUME \A k \in DOMAIN frames' : k \in DOMAIN frames /\ frames'[k].left \subseteq frames[k].left
      PROVE  Left' \subseteq Left /\ LeftsApart'
  <2>1. LeftsApart'
    BY <1>3 DEF LeftsApart
  <2>2. ASSUME NEW f \in Left' PROVE f \in Left
    <3>1. PICK k \in DOMAIN frames' : f \in frames'[k].left
      BY DEF Left
    <3> QED  BY <1>2, <1>3, <3>1
  <2> QED  BY <2>1, <2>2
<1>4. CASE SameLevels
  BY <1>1, <1>3, <1>4 DEF SameLevels, SameLevel
<1>5. ASSUME OthersSame
      PROVE  /\ DOMAIN frames' = DOMAIN frames /\ 1 \in DOMAIN frames /\ Call = frames[1]
             /\ \A k \in DOMAIN frames : k # 1 => frames'[k].left = frames[k].left
  BY <1>1, <1>5, CallTypes DEF OthersSame, SameLevel
<1>6. CASE Turns
  BY <1>3, <1>5, <1>6 DEF Turns
<1>7. CASE Opens
  <2>1. /\ DOMAIN frames' = DOMAIN frames /\ 1 \in DOMAIN frames /\ Call = frames[1]
        /\ \A k \in DOMAIN frames : k # 1 => frames'[k].left = frames[k].left
        /\ frames'[1].left \subseteq Present(Call.dir)
    BY <1>5, <1>7 DEF Opens
  <2>2. ASSUME NEW f \in Left' PROVE f \in Left \cup Present(Call.dir)
    <3>1. PICK k \in DOMAIN frames' : f \in frames'[k].left
      BY DEF Left
    <3> QED  BY <1>2, <2>1, <3>1
  <2>3. ASSUME Left \cap Present(Call.dir) = {} PROVE LeftsApart'
    <3>1. \A k \in DOMAIN frames : k # 1 => frames'[k].left \cap frames'[1].left = {}
      BY <1>2, <2>1, <2>3
    <3> QED  BY <2>1, <3>1 DEF LeftsApart
  <2> QED  BY <1>7, <2>2, <2>3
<1>8. CASE Enters
  <2>1. /\ \A k \in DOMAIN frames' : k # 1 => k - 1 \in DOMAIN frames /\ frames'[k] = frames[k - 1]
        /\ frames'[1].left = {}
    BY <1>1, <1>8, EntersIs
  <2>2. ASSUME NEW f \in Left' PROVE f \in Left
    <3>1. PICK k \in DOMAIN frames' : f \in frames'[k].left
      BY DEF Left
    <3> QED  BY <1>2, <2>1, <3>1
  <2>3. ASSUME NEW i \in DOMAIN frames', NEW k \in DOMAIN frames', i # k
        PROVE  frames'[i].left \cap frames'[k].left = {}
    <3>1. CASE i = 1 \/ k = 1
      BY <2>1, <3>1
    <3>2. CASE i # 1 /\ k # 1
      <4>1. i - 1 # k - 1
        BY <1>1, <2>3
      <4> QED  BY <2>1, <3>2, <4>1 DEF LeftsApart
    <3> QED  BY <3>1, <3>2
  <2> QED  BY <2>2, <2>3 DEF LeftsApart
<1>9. CASE Leaves
  <2>1. \A k \in DOMAIN frames' : k + 1 \in DOMAIN frames /\ frames'[k].left = frames[k + 1].left
    BY <1>1, <1>9, LeavesIs DEF SameLevel
  <2>2. ASSUME NEW f \in Left' PROVE f \in Left
    <3>1. PICK k \in DOMAIN frames' : f \in frames'[k].left
      BY DEF Left
    <3> QED  BY <1>2, <2>1, <3>1
  <2>3. ASSUME NEW i \in DOMAIN frames', NEW k \in DOMAIN frames', i # k
        PROVE  frames'[i].left \cap frames'[k].left = {}
    <3>1. i + 1 # k + 1
      BY <1>1, <2>3
    <3> QED  BY <2>1, <3>1 DEF LeftsApart
  <2> QED  BY <2>2, <2>3 DEF LeftsApart
<1> QED  BY <1>1, <1>4, <1>6, <1>7, <1>8, <1>9, LevelSteps

\* A child that is begun, or skipped as the scan skipped it, is left no more.
LEMMA ChildTaken ==
  ASSUME Shape, LeftsApart, NEW f \in File, CopyChild(f)
  PROVE  f \in Left /\ Left' \subseteq Left \ {f} /\ LeftsApart'
<1>1. TypeOK /\ Control /\ frames \in Seq(Level)
  BY DEF Shape, TypeOK
<1> DEFINE c == [Call EXCEPT !.left = Call.left \ {f}]
           rest == <<c>> \o Tail(frames)
<1>2. frames # <<>> /\ Call = frames[1] /\ Call \in Level /\ f \in Call.left
  BY <1>1, CallTypes DEF CopyChild, InFolder
<1>3. c \in Level /\ c.left = Call.left \ {f}
  BY <1>2 DEF Level
<1>4. frames' = rest \/ frames' = MarkIn(rest)
  BY DEF CopyChild
<1> HIDE DEF c
<1>5. /\ rest \in Seq(Level) /\ Len(rest) = Len(frames)
      /\ \A k \in 1 .. Len(frames) : rest[k] = IF k = 1 THEN c ELSE frames[k]
      /\ Len(frames) \in Nat /\ Len(frames) > 0
  BY <1>1, <1>2, <1>3, HeadReplaced
<1> HIDE DEF rest
<1>6. frames' \in Seq(Level) /\ Len(frames') = Len(rest)
      /\ \A k \in 1 .. Len(rest) : frames'[k].left = rest[k].left
  BY <1>4, <1>5, MarkTyped DEF SameLevel
<1>7. /\ DOMAIN frames' = DOMAIN frames /\ 1 \in DOMAIN frames
      /\ \A k \in DOMAIN frames : frames'[k].left = IF k = 1 THEN frames[1].left \ {f}
                                                             ELSE frames[k].left
  <2>1. DOMAIN frames' = 1 .. Len(frames) /\ DOMAIN frames = 1 .. Len(frames)
    BY <1>1, <1>5, <1>6
  <2>2. \A k \in 1 .. Len(frames) : frames'[k].left = rest[k].left
    BY <1>5, <1>6
  <2>3. rest[1].left = frames[1].left \ {f}
    BY <1>2, <1>3, <1>5
  <2>4. \A k \in 1 .. Len(frames) : k # 1 => rest[k].left = frames[k].left
    BY <1>5
  <2>5. 1 \in DOMAIN frames
    BY <1>5, <2>1
  <2>6. ASSUME NEW k \in DOMAIN frames
        PROVE  frames'[k].left = IF k = 1 THEN frames[1].left \ {f} ELSE frames[k].left
    <3>1. frames'[k].left = rest[k].left
      BY <2>1, <2>2
    <3>2. CASE k = 1
      BY <2>3, <3>1, <3>2
    <3>3. CASE k # 1
      BY <2>1, <2>4, <3>1, <3>3
    <3> QED  BY <3>2, <3>3
  <2> QED  BY <2>1, <2>5, <2>6
<1>8. \A k \in DOMAIN frames : k # 1 => f \notin frames[k].left
  BY <1>2, <1>7 DEF LeftsApart
<1>9. \A k \in DOMAIN frames : f \notin frames'[k].left /\ frames'[k].left \subseteq frames[k].left
  BY <1>7, <1>8
<1>10. LeftsApart'
  BY <1>7, <1>9 DEF LeftsApart
<1>11. ASSUME NEW g \in Left' PROVE g \in Left \ {f}
  <2>1. g \in File /\ \E k \in DOMAIN frames' : g \in frames'[k].left
    BY DEF Left
  <2> QED  BY <1>7, <1>9, <2>1 DEF Left
<1> QED  BY <1>2, <1>7, <1>10, <1>11 DEF Left

LEMMA FilesOfTail ==
  ASSUME NEW l \in Seq(Entry), l # <<>>, Distinct(l)
  PROVE  /\ Distinct(Tail(l)) /\ Head(l).file \in Files(l)
         /\ Files(Tail(l)) \subseteq Files(l) \ {Head(l).file}
<1> DEFINE t == Tail(l)
<1>1. /\ 1 \in DOMAIN l /\ Head(l) = l[1]
      /\ \A i \in DOMAIN t : i \in Nat /\ i >= 1 /\ i + 1 \in DOMAIN l /\ t[i] = l[i + 1]
  OBVIOUS
<1> HIDE DEF t
<1>2. \A i \in DOMAIN t : t[i].file # l[1].file
  BY <1>1 DEF Distinct
<1>3. Files(t) \subseteq Files(l) \ {Head(l).file}
  BY <1>1, <1>2 DEF Files
<1>4. Distinct(t)
  <2> SUFFICES ASSUME NEW i \in DOMAIN t, NEW k \in DOMAIN t, t[i].file = t[k].file PROVE i = k
    BY DEF Distinct
  <2>1. i + 1 = k + 1
    BY <1>1 DEF Distinct
  <2> QED  BY <1>1, <2>1
<1> QED  BY <1>1, <1>3, <1>4 DEF Files, t

LEMMA FilesOfAppend ==
  ASSUME NEW l \in Seq(Entry), NEW z, Distinct(l), z.file \notin Files(l)
  PROVE  Distinct(Append(l, z)) /\ Files(Append(l, z)) = Files(l) \cup {z.file}
<1> DEFINE m == Append(l, z)  n == Len(l)
<1>1. /\ n \in Nat /\ DOMAIN l = 1 .. n /\ DOMAIN m = 1 .. n + 1
      /\ m[n + 1] = z /\ \A i \in 1 .. n : m[i] = l[i]
  OBVIOUS
<1> HIDE DEF m, n
<1>2. \A i \in DOMAIN l : l[i].file # z.file
  BY DEF Files
<1>3. \A i \in DOMAIN m : i = n + 1 \/ i \in DOMAIN l
  BY <1>1
<1>4. Distinct(m)
  BY <1>1, <1>2, <1>3 DEF Distinct
<1>5. Files(m) = Files(l) \cup {z.file}
  <2>1. \A i \in DOMAIN m : m[i].file \in Files(l) \cup {z.file}
    BY <1>1, <1>3 DEF Files
  <2>2. n + 1 \in DOMAIN m /\ DOMAIN l \subseteq DOMAIN m
    BY <1>1
  <2>3. Files(l) \cup {z.file} \subseteq Files(m)
    BY <1>1, <2>2 DEF Files
  <2> QED  BY <2>1, <2>3 DEF Files
<1> QED  BY <1>4, <1>5 DEF m

LEMMA ListSteps ==
  [Next]_vars => UNCHANGED <<list, fallbacks>> \/ TakeNext \/ ListDone \/ PutOff
  BY DEF Next, Thread, Answer, vars, lists, Aborted, Done, Verify, Scan,
    Succeed, Respell, NextName, Conflict, Empty, Recurse, Stop, Fail, RemoveTarget,
    DropOld, MakeFolder, OpenDir, CopyChild, CloseDir, EndDir, LeaveDir, AnswerDestination,
    AnswerConflict, AnswerError, AnswerMake, AnswerFolder, AnswerSource, AnswerRename, Retry,
    Cancel

\* The files still to be begun: the list gets shorter, what is put off is put
\* off once, and the list that follows is what was put off.
LEMMA NextLater ==
  ASSUME Shape, ListsApart, [Next]_vars, PutOff => cur.file \notin Later
  PROVE  /\ ListsApart'
         /\ Later' \subseteq Later \cup (IF PutOff THEN {cur.file} ELSE {})
         /\ TakeNext => Head(list).file \in Later \ Later'
<1>1. /\ TypeOK /\ list \in Seq(Entry) /\ fallbacks \in Seq(Entry)
      /\ Distinct(list) /\ Distinct(fallbacks) /\ Listed \cap PutAway = {} /\ Control
  BY TypeParts DEF Shape, ListTyped, ListsApart
<1> DEFINE Early == pc \in {"query", "prepare"}
<1>2. Early' => Early
  <2>1. CASE UNCHANGED pc
    BY <2>1
  <2>2. CASE Aborted \/ Done \/ Scan \/ ListDone
    BY <2>2 DEF Aborted, Done, Scan, ListDone
  <2>3. CASE Verify \/ AnswerDestination
    <3>1. pc' = pc \/ pc' = AfterVerify
      BY <2>3 DEF Verify, AnswerDestination
    <3> QED  BY <3>1 DEF AfterVerify
  <2> QED  BY <2>1, <2>2, <2>3, PcSteps
<1>3. CASE UNCHANGED <<list, fallbacks>> /\ ~TakeNext /\ ~PutOff
  <2>1. Listed' = Listed /\ Distinct(list)' /\ Distinct(fallbacks)'
    BY <1>1, <1>3 DEF Listed, Files, Distinct
  <2>2. PutAway' \subseteq PutAway
    BY <1>2, <1>3 DEF PutAway, Files
  <2> QED  BY <1>1, <1>3, <2>1, <2>2 DEF ListsApart, Later
<1>4. CASE TakeNext
  <2>1. list # <<>> /\ list' = Tail(list) /\ UNCHANGED <<fallbacks, pc>>
    BY <1>4 DEF TakeNext
  <2> DEFINE h == Head(list).file
  <2>2. Distinct(list)' /\ h \in Listed /\ Listed' \subseteq Listed \ {h}
    BY <1>1, <2>1, FilesOfTail DEF Listed, Files, Distinct
  <2>3. PutAway' = PutAway /\ Distinct(fallbacks)'
    BY <1>1, <2>1 DEF PutAway, Files, Distinct
  <2> HIDE DEF h
  <2>4. h \in Later /\ h \notin Later' /\ Later' \subseteq Later
    BY <1>1, <2>2, <2>3 DEF Later
  <2>5. ListsApart'
    BY <1>1, <2>2, <2>3 DEF ListsApart
  <2> QED  BY <2>4, <2>5 DEF h
<1>5. CASE ListDone
  <2>1. UNCHANGED fallbacks /\ list = <<>>
    BY <1>5 DEF ListDone
  <2>2. CASE pc = "prepare"
    <3>1. pc' = "scan" /\ list' = fallbacks
      BY <1>5, <2>2 DEF ListDone
    <3>2. Listed' = PutAway /\ PutAway' = {} /\ Distinct(list)' /\ Distinct(fallbacks)'
      BY <1>1, <2>1, <2>2, <3>1 DEF Listed, PutAway, Files, Distinct
    <3> QED  BY <3>2, <1>5 DEF ListsApart, Later, TakeNext, ListDone
  <2>3. CASE pc # "prepare"
    <3>1. pc' = "notify" /\ UNCHANGED list
      BY <1>5, <2>3 DEF ListDone
    <3>2. Listed' = Listed /\ PutAway' = {} /\ Distinct(list)' /\ Distinct(fallbacks)'
      BY <1>1, <2>1, <3>1 DEF Listed, PutAway, Files, Distinct
    <3> QED  BY <3>2, <1>5 DEF ListsApart, Later, TakeNext, ListDone
  <2> QED  BY <2>2, <2>3
<1>6. CASE PutOff
  <2>1. pc = "prepare" /\ UNCHANGED <<pc, list>> /\ ~TakeNext
    BY <1>6 DEF PutOff, Trying, TakeNext
  <2>2. PICK z : z = [file |-> cur.file, over |-> cur.over]
    OBVIOUS
  <2>3. fallbacks' = Append(fallbacks, z) /\ z.file = cur.file
    BY <1>6, <2>2 DEF PutOff, PutOnList
  <2>4. PutAway = Files(fallbacks) /\ cur.file \notin Listed /\ cur.file \notin PutAway
    BY <1>6, <2>1 DEF PutAway, Later
  <2>5. /\ Distinct(Append(fallbacks, z))
        /\ Files(Append(fallbacks, z)) = Files(fallbacks) \cup {cur.file}
    BY <1>1, <2>3, <2>4, FilesOfAppend
  <2>6. PutAway' = PutAway \cup {cur.file} /\ Distinct(fallbacks)'
    BY <2>1, <2>3, <2>4, <2>5 DEF PutAway, Files, Distinct
  <2>7. Listed' = Listed /\ Distinct(list)'
    BY <1>1, <2>1 DEF Listed, Files, Distinct
  <2> QED  BY <1>1, <1>6, <2>1, <2>4, <2>6, <2>7 DEF ListsApart, Later
<1> QED  BY <1>3, <1>4, <1>5, <1>6, ListSteps

\* Only the loop over the list asks about a file itself, or begins one.
LEMMA AskSteps ==
  ASSUME [Next]_vars, ~TakeNext
  PROVE  UNCHANGED question \/ question'.kind # "itself"
<1>1. ASSUME NEW k, NEW f, Ask(k, f), k # "itself" PROVE question'.kind # "itself"
  BY <1>1 DEF Ask
<1>2. ASSUME NEW k, NEW f, Trouble(k, f), k # "itself"
      PROVE  UNCHANGED question \/ question'.kind # "itself"
  BY <1>1, <1>2 DEF Trouble
<1>3. question' = NoQuestion => question'.kind # "itself"
  BY DEF NoQuestion
<1>4. CASE \/ Aborted \/ Done \/ Verify \/ Scan \/ ListDone \/ Succeed \/ Respell
           \/ NextName \/ PutOff \/ Empty \/ Recurse \/ Stop
  BY <1>1, <1>4 DEF Aborted, Done, Verify, Scan, ListDone, Succeed, Respell, NextName, PutOff,
    Empty, Recurse, Stop
<1>5. CASE Conflict \/ Fail \/ RemoveTarget \/ DropOld \/ MakeFolder
  <2>1. \/ UNCHANGED question
        \/ \E k \in {"conflict", "make"} : \E f : Ask(k, f)
        \/ \E k \in {"failed", "target", "old"} : \E f : Trouble(k, f)
    BY <1>5 DEF Conflict, Fail, RemoveTarget, DropOld, MakeFolder
  <2> QED  BY <1>1, <1>2, <2>1
<1>6. CASE OpenDir \/ (\E f \in File : CopyChild(f)) \/ CloseDir \/ EndDir \/ LeaveDir
  BY <1>1, <1>6 DEF OpenDir, CopyChild, CloseDir, EndDir, LeaveDir
<1>7. CASE \/ AnswerDestination \/ AnswerConflict \/ AnswerError \/ AnswerMake \/ AnswerFolder
           \/ AnswerSource \/ AnswerRename \/ Retry \/ Cancel \/ UNCHANGED vars
  BY <1>3, <1>7 DEF AnswerDestination, AnswerConflict, AnswerError, AnswerMake, AnswerFolder,
    AnswerSource, AnswerRename, Retry, Cancel, vars
<1> QED  BY <1>4, <1>5, <1>6, <1>7 DEF Next, Thread, Answer

LEMMA CurSteps ==
  ASSUME TypeOK, Control, [Next]_vars, ~TakeNext, \A f \in File : ~CopyChild(f)
  PROVE  cur' = Idle \/ cur'.file = cur.file
<1>1. cur \in CurType
  BY TypeParts DEF CallTyped
<1>2. ASSUME NEW k, NEW f, Trouble(k, f) PROVE cur' = Idle \/ cur'.file = cur.file
  BY <1>2 DEF Trouble, Out
<1>3. ASSUME \/ \E q, m : cur' = [cur EXCEPT !.dest = q, !.nth = m]
             \/ \E q : cur' = [cur EXCEPT !.dest = q]
             \/ \E q, s : cur' = [cur EXCEPT !.dest = q, !.handled = TRUE, !.stage = s]
             \/ \E q : cur' = [cur EXCEPT !.dest = q, !.handled = TRUE]
             \/ cur' = [cur EXCEPT !.handled = TRUE]
             \/ cur' = [cur EXCEPT !.over = TRUE]
             \/ \E s : cur' = [cur EXCEPT !.stage = s]
      PROVE  cur'.file = cur.file
  BY <1>1, <1>3 DEF CurType
<1>4. CASE \/ Aborted \/ Done \/ Verify \/ Scan \/ ListDone \/ Succeed \/ PutOff \/ Empty \/ Stop
  BY <1>4 DEF Aborted, Done, Verify, Scan, ListDone, Succeed, PutOff, Empty, Stop, Out
<1>5. CASE Respell
  <2>1. \/ cur' = Idle
        \/ \E q : cur' = [cur EXCEPT !.dest = q, !.handled = TRUE]
        \/ cur' = [cur EXCEPT !.handled = TRUE]
    BY <1>5 DEF Respell
  <2> QED  BY <1>3, <2>1
<1>6. CASE NextName
  <2>1. \E q, m : cur' = [cur EXCEPT !.dest = q, !.nth = m]
    BY <1>6 DEF NextName
  <2> QED  BY <1>3, <2>1
<1>7. CASE Conflict \/ AnswerConflict
  <2>1. cur' = Idle \/ UNCHANGED cur \/ cur' = [cur EXCEPT !.over = TRUE]
    BY <1>7 DEF Conflict, AnswerConflict, Out
  <2> QED  BY <1>3, <2>1
<1>8. CASE AnswerRename
  <2>1. \E q : cur' = [cur EXCEPT !.dest = q]
    BY <1>8 DEF AnswerRename, Rename
  <2> QED  BY <1>3, <2>1
<1>9. CASE Recurse \/ DropOld \/ Fail \/ RemoveTarget
  <2>1. \/ cur' = Idle \/ UNCHANGED cur \/ (\E s : cur' = [cur EXCEPT !.stage = s])
        \/ \E k, f : Trouble(k, f)
    BY <1>9 DEF Recurse, DropOld, Fail, RemoveTarget, Enter
  <2> QED  BY <1>2, <1>3, <2>1
<1>10. CASE MakeFolder
  <2>1. \/ cur' = Idle \/ UNCHANGED cur
        \/ \E q, s : cur' = [cur EXCEPT !.dest = q, !.handled = TRUE, !.stage = s]
    BY <1>10 DEF MakeFolder, Enter
  <2> QED  BY <1>3, <2>1
<1>11. CASE OpenDir \/ CloseDir \/ EndDir \/ LeaveDir
  BY <1>11 DEF OpenDir, CloseDir, EndDir, LeaveDir
<1>12. CASE \/ AnswerDestination \/ AnswerError \/ AnswerMake \/ AnswerFolder \/ AnswerSource
            \/ Retry \/ Cancel \/ UNCHANGED vars
  BY <1>12 DEF AnswerDestination, AnswerError, AnswerMake, NotMade, AnswerFolder, AnswerSource,
    Retry, Cancel, vars, Out
<1> QED
  BY <1>4, <1>5, <1>6, <1>7, <1>8, <1>9, <1>10, <1>11, <1>12 DEF Next, Thread, Answer

\* The file at hand is let go when it is skipped.
LEMMA HandSteps ==
  ASSUME Shape, [Next]_vars, ~TakeNext, \A f \in File : ~CopyChild(f)
  PROVE  /\ AtHand' \subseteq AtHand
         /\ cur # Idle /\ cur' = Idle => AtHand' = {}
         /\ \/ told' = told
            \/ told' \subseteq told \cup AtHand /\ AtHand' = {}
<1>1. /\ TypeOK /\ Control /\ (cur' = Idle \/ cur'.file = cur.file)
      /\ UNCHANGED question \/ question'.kind # "itself"
  BY AskSteps, CurSteps DEF Shape
<1>2. \A f \in File : Asked(f)' => Asked(f)
  BY <1>1 DEF Asked
<1>3. AtHand' \subseteq AtHand
  BY <1>1, <1>2, IdleIs DEF AtHand, Asked
<1>4. ASSUME cur' = Idle, \A f \in File : ~Asked(f)' PROVE AtHand' = {}
  BY <1>4, IdleIs DEF AtHand, Asked
<1>5. cur # Idle => \A f \in File : ~Asked(f)
  BY <1>1 DEF Asked, Control
<1>6. cur # Idle /\ cur' = Idle => AtHand' = {}
  BY <1>2, <1>4, <1>5
<1>7. ASSUME cur # Idle PROVE cur.file \in AtHand
  BY <1>1, <1>7 DEF Control, AtHand
<1>8. ASSUME NEW k, Trouble(k, cur.file), cur # Idle
      PROVE  told' = told \/ (told' \subseteq told \cup AtHand /\ AtHand' = {})
  BY <1>6, <1>7, <1>8 DEF Trouble, Out
<1>9. CASE Fail \/ RemoveTarget \/ DropOld
  <2>1. cur # Idle
    BY <1>1, <1>9, IdleIs DEF Fail, Trying, RemoveTarget, DropOld, Control
  <2>2. told' = told \/ \E k : Trouble(k, cur.file)
    BY <1>9 DEF Fail, RemoveTarget, DropOld
  <2> QED  BY <1>3, <1>6, <1>8, <2>1, <2>2
<1>10. CASE Conflict \/ AnswerConflict
  <2>1. cur # Idle
    BY <1>1, <1>10 DEF Conflict, Result, Trying, AnswerConflict, Control, CurQuestions
  <2>2. told' = told \/ (told' = told \cup {cur.file} /\ cur' = Idle)
    BY <1>10 DEF Conflict, AnswerConflict, Out, said
  <2> QED  BY <1>3, <1>6, <1>7, <2>1, <2>2
<1>11. CASE AnswerError \/ AnswerMake
  <2>1. question' = NoQuestion /\ cur' = Idle
    BY <1>11 DEF AnswerError, AnswerMake, NotMade, Out
  <2>2. AtHand' = {}
    BY <1>4, <2>1 DEF Asked, NoQuestion
  <2>3. question.file \in AtHand
    <3>1. CASE question.kind = "itself"
      BY <1>1, <3>1 DEF AtHand, Asked, Control
    <3>2. CASE question.kind # "itself"
      BY <1>1, <1>7, <1>11, <3>2 DEF AnswerError, AnswerMake, Errors, Control, CurQuestions
    <3> QED  BY <3>1, <3>2
  <2> QED  BY <1>3, <1>6, <1>11, <2>2, <2>3 DEF AnswerError, AnswerMake
<1>12. CASE \/ Aborted \/ Done \/ Verify \/ Scan \/ ListDone \/ Succeed \/ Respell \/ NextName
            \/ PutOff \/ Empty \/ Recurse \/ Stop \/ MakeFolder \/ OpenDir \/ CloseDir \/ EndDir
            \/ LeaveDir \/ AnswerDestination \/ AnswerFolder \/ AnswerSource \/ AnswerRename
            \/ Retry \/ Cancel \/ UNCHANGED vars
  <2>1. told' = told
    BY <1>12 DEF Aborted, Done, Verify, Scan, ListDone, Succeed, Respell, NextName, PutOff, Empty,
      Recurse, Stop, MakeFolder, OpenDir, CloseDir, EndDir, LeaveDir, AnswerDestination,
      AnswerFolder, AnswerSource, AnswerRename, Retry, Cancel, vars, said
  <2> QED  BY <1>3, <1>6, <2>1
<1> QED  BY <1>3, <1>6, <1>9, <1>10, <1>11, <1>12 DEF Next, Thread, Answer

\* The file taken from the list is begun, or asked about, or it was skipped.
LEMMA FirstTaken ==
  ASSUME TypeOK, TakeNext
  PROVE  /\ AtHand = {} /\ Left = {} /\ Left' = {} /\ LeftsApart'
         /\ \/ AtHand' \subseteq {Head(list).file} /\ told' = told
            \/ AtHand' = {} /\ told' = told \cup {Head(list).file}
<1> DEFINE h == Head(list).file
<1>1. cur = Idle /\ frames = <<>> /\ question = NoQuestion /\ h \in File
  BY EntriesTyped, TypeParts DEF TakeNext, Going, ListTyped
<1>2. ASSUME Out \/ UNCHANGED frames PROVE frames' = <<>>
  BY <1>1, <1>2 DEF Out, MarkIn
<1>3. ASSUME Trouble("itself", h) PROVE frames' = <<>>
  BY <1>2, <1>3 DEF Trouble
<1>4. Out \/ UNCHANGED frames \/ Trouble("itself", h)
  BY DEF TakeNext, Begin
<1>5. frames' = <<>>
  BY <1>2, <1>3, <1>4
<1>6. Left = {} /\ Left' = {} /\ LeftsApart'
  BY <1>1, <1>5 DEF Left, LeftsApart
<1>7. AtHand = {}
  BY <1>1, IdleIs DEF AtHand, Asked, NoQuestion
<1>8. ASSUME cur' = Idle, UNCHANGED question PROVE AtHand' = {}
  BY <1>1, <1>8, IdleIs DEF AtHand, Asked, NoQuestion
<1>9. \/ AtHand' \subseteq {h} /\ told' = told
      \/ AtHand' = {} /\ told' = told \cup {h}
  <2>1. CASE Out /\ UNCHANGED <<question, told>>
    BY <1>8, <2>1 DEF Out
  <2>2. CASE Trouble("itself", h)
    <3>1. CASE Out /\ told' = told \cup {h} /\ UNCHANGED question
      BY <1>8, <3>1 DEF Out
    <3>2. CASE Ask("itself", h) /\ UNCHANGED <<cur, frames, told>>
      BY <1>1, <3>2, IdleIs DEF AtHand, Asked, Ask
    <3> QED  BY <2>2, <3>1, <3>2 DEF Trouble
  <2>3. CASE /\ cur' = [Idle EXCEPT !.file = h, !.dest = Target(h, 1, FsKnown),
                                    !.over = Head(list).over, !.handled = FsKnown, !.nth = 2]
             /\ UNCHANGED <<question, frames, told>>
    <3>1. cur'.file = h
      BY <2>3 DEF Idle
    <3> QED  BY <1>1, <2>3, <3>1 DEF AtHand, Asked, NoQuestion
  <2> QED  BY <2>1, <2>2, <2>3 DEF TakeNext, Begin
<1> QED  BY <1>6, <1>7, <1>9

LEMMA ChildBegun ==
  ASSUME NEW f \in File, CopyChild(f)
  PROVE  AtHand' \subseteq {f} /\ told' = told /\ ~PutOff /\ cur = Idle /\ ~TakeNext
<1>1. cur = Idle /\ frames # <<>> /\ UNCHANGED <<question, told>> /\ question = NoQuestion
  BY DEF CopyChild, InFolder, Going, said
<1>2. cur' = cur \/ cur'.file = f
  BY DEF CopyChild, Idle
<1> QED  BY <1>1, <1>2, IdleIs DEF AtHand, Asked, NoQuestion, PutOff, Trying, TakeNext

\* No file may be done something with twice; what is let go is done with.
LEMMA NextSorted ==
  ASSUME Shape, Sorted, Reading, [Next]_vars
  PROVE  /\ Sorted'
         /\ \/ Pending' \subseteq Pending
            \/ /\ Opens /\ Pending' \subseteq Pending \cup Present(Call.dir)
               /\ Unread(Call.dir)
         /\ cur # Idle /\ cur' = Idle /\ told' = told /\ ~PutOff => cur.file \notin Pending'
<1>1. TypeOK /\ Control /\ ListsApart /\ LeftsApart
  BY DEF Shape, Sorted
<1>2. cur # Idle => cur.file \in AtHand
  BY <1>1 DEF AtHand, Control
<1>3. PutOff => cur # Idle /\ cur.file \notin Later
  BY <1>2 DEF PutOff, Trying, Sorted
<1>4. /\ ListsApart'
      /\ Later' \subseteq Later \cup (IF PutOff THEN {cur.file} ELSE {})
      /\ TakeNext => Head(list).file \in Later \ Later'
  BY <1>1, <1>3, NextLater
<1>5. CASE TakeNext
  <2>1. ~PutOff /\ cur = Idle
    BY <1>5 DEF TakeNext, PutOff, Trying
  <2>2. /\ Left' = {} /\ LeftsApart' /\ Later' \subseteq Later /\ Left = {} /\ AtHand = {}
    BY <1>1, <1>4, <1>5, <2>1, FirstTaken
  <2>3. PICK h : h = Head(list).file
    OBVIOUS
  <2>4. h \in Later /\ h \notin Later' /\ h \notin told
    BY <1>4, <1>5, <2>3 DEF Sorted
  <2>5. \/ AtHand' \subseteq {h} /\ told' = told
        \/ AtHand' = {} /\ told' = told \cup {h}
    BY <1>1, <1>5, <2>3, FirstTaken
  <2>6. Sorted'
    BY <1>4, <2>2, <2>4, <2>5 DEF Sorted
  <2>7. Pending' \subseteq Pending
    BY <2>2, <2>4, <2>5 DEF Pending
  <2> QED  BY <2>1, <2>6, <2>7
<1>6. ASSUME NEW f \in File, CopyChild(f)
      PROVE  Sorted' /\ Pending' \subseteq Pending /\ cur = Idle
  <2>1. AtHand' \subseteq {f} /\ told' = told /\ ~PutOff /\ cur = Idle
    BY <1>6, ChildBegun
  <2>2. f \in Left /\ Left' \subseteq Left \ {f} /\ LeftsApart'
    BY <1>1, <1>6, ChildTaken
  <2>3. Later' \subseteq Later
    BY <1>4, <2>1
  <2>4. Sorted'
    BY <1>4, <2>1, <2>2, <2>3 DEF Sorted
  <2>5. Pending' \subseteq Pending
    BY <2>1, <2>2, <2>3 DEF Pending
  <2> QED  BY <2>1, <2>4, <2>5
<1>7. CASE ~TakeNext /\ \A f \in File : ~CopyChild(f)
  <2>1. /\ AtHand' \subseteq AtHand
        /\ cur # Idle /\ cur' = Idle => AtHand' = {}
        /\ \/ told' = told
           \/ told' \subseteq told \cup AtHand /\ AtHand' = {}
    BY <1>7, HandSteps
  <2>2. PutOff => cur' = Idle /\ told' = told
    BY DEF PutOff, said
  <2>3. AtHand \cap (Later \cup Left \cup told) = {} /\ Later \cap (Left \cup told) = {}
        /\ Left \cap told = {}
    BY DEF Sorted
  <2>4. CASE Left' \subseteq Left /\ LeftsApart'
    <3>1. CASE PutOff
      <4>1. cur.file \in AtHand /\ AtHand' = {} /\ told' = told /\ Later' \subseteq Later \cup {cur.file}
        BY <1>2, <1>3, <1>4, <2>1, <2>2, <3>1
      <4>2. Sorted'
        BY <1>4, <2>3, <2>4, <4>1 DEF Sorted
      <4>3. Pending' \subseteq Pending
        BY <2>4, <4>1 DEF Pending
      <4> QED  BY <3>1, <4>2, <4>3
    <3>2. CASE ~PutOff
      <4>1. Later' \subseteq Later
        BY <1>4, <3>2
      <4>2. Sorted'
        BY <1>4, <2>1, <2>3, <2>4, <4>1 DEF Sorted
      <4>3. Pending' \subseteq Pending
        BY <2>1, <2>4, <4>1 DEF Pending
      <4>4. cur # Idle /\ cur' = Idle /\ told' = told => cur.file \notin Pending'
        BY <1>2, <2>1, <2>3, <2>4, <4>1 DEF Pending
      <4> QED  BY <4>2, <4>3, <4>4
    <3> QED  BY <3>1, <3>2
  <2>5. CASE /\ Opens /\ Left' \subseteq Left \cup Present(Call.dir)
             /\ Left \cap Present(Call.dir) = {} => LeftsApart'
    <3>1. /\ Call.stage = "open" /\ frames # <<>> /\ cur = Idle /\ told' = told
          /\ question = NoQuestion
      BY <2>5 DEF Opens, OpenDir, InFolder, Going, said
    <3>2. ~PutOff /\ AtHand = {}
      BY <3>1, IdleIs DEF PutOff, Trying, AtHand, Asked, NoQuestion
    <3>3. Unread(Call.dir)
      BY <3>1 DEF Reading
    <3>4. Present(Call.dir) \subseteq Under(Call.dir)
      BY DEF Present, Kids
    <3>5. Present(Call.dir) \cap Pending = {}
      BY <3>3, <3>4 DEF Unread
    <3> DEFINE K == Present(Call.dir)
    <3> HIDE DEF K
    <3>6. K \cap Later = {} /\ K \cap Left = {} /\ K \cap told = {} /\ Left' \subseteq Left \cup K
      BY <2>5, <3>5 DEF Pending, K
    <3>7. LeftsApart' /\ Later' \subseteq Later /\ AtHand' = {}
      BY <1>4, <2>1, <2>5, <3>2, <3>6 DEF K
    <3>8. Sorted'
      BY <1>4, <2>3, <3>1, <3>6, <3>7 DEF Sorted
    <3>9. Pending' \subseteq Pending \cup K
      BY <3>1, <3>6, <3>7 DEF Pending
    <3> QED  BY <2>5, <3>1, <3>3, <3>8, <3>9 DEF K
  <2> QED  BY <1>1, <2>4, <2>5, NextLefts
<1> QED  BY <1>5, <1>6, <1>7

\* What a step does to the files that are in neither place yet.
\* Nothing new is in the destination but what is in files.
Adds(files) ==
  \A p \in DOMAIN dest' : (p \in DOMAIN dest /\ dest'[p] = dest[p]) \/ dest'[p] \in files

\* Nor anywhere but at p and below.
AddsAt(f, p) ==
  \A q \in DOMAIN dest' : \/ q \in DOMAIN dest /\ dest'[q] = dest[q]
                          \/ dest'[q] \in Under(f) /\ IsPrefix(p, q)

LEMMA PutAdds ==
  ASSUME NEW f \in File, NEW p \in Path, NEW files, files \subseteq Under(f), Put(f, p, files)
  PROVE  \A q \in DOMAIN dest' : \/ q \in DOMAIN dest /\ dest'[q] = dest[q]
                                 \/ dest'[q] \in files /\ IsPrefix(p, q)
<1>1. /\ DOMAIN dest' = (DOMAIN dest \ Below(p)) \cup Places(f, p, files)
      /\ \A g \in files : dest'[Place(f, p, g)] = g
      /\ \A q \in DOMAIN dest \ Below(p) : dest'[q] = dest[q]
  BY PutIs
<1>2. \A g \in files : IsPrefix(p, Place(f, p, g))
  BY PlaceIs
<1> QED  BY <1>1, <1>2 DEF Places

LEMMA DataTouches ==
  ASSUME Shape, DataStep
  PROVE  /\ left \subseteq left'
         /\ \/ src' = src /\ Adds({})
            \/ Makes /\ src' = src /\ Adds({cur.file})
            \/ Succeed /\ src \ Under(cur.file) \subseteq src' /\ Adds(Under(cur.file))
            \/ Deletes /\ src' = src \ {Call.dir} /\ dest' = dest
            \/ /\ Spills /\ src' = src /\ cur.file \in File
               /\ <<cur.file, cur.dest>> \in left' /\ AddsAt(cur.file, cur.dest)
<1>1. TypeOK /\ Control
  BY DEF Shape
<1>2. left \subseteq left'
  BY DEF DataStep, Still, Succeed, Makes, Removes, Drops, Deletes, Spills
<1>3. ASSUME NEW p, Gone(p) PROVE Adds({})
  <2>1. DOMAIN dest' = DOMAIN dest \ {p} /\ \A q \in DOMAIN dest' : dest'[q] = dest[q]
    BY <1>1, <1>3, GoneIs
  <2> QED  BY <2>1 DEF Adds
<1>4. CASE Still
  BY <1>2, <1>4 DEF Still, Adds
<1>5. CASE Removes \/ Drops
  BY <1>2, <1>3, <1>5 DEF Removes, Drops
<1>6. CASE Deletes
  BY <1>2, <1>6 DEF Deletes
<1>7. CASE Makes
  <2>1. cur # Idle /\ cur.file \in File
    BY <1>7, FileAssumption, IdleIs DEF Makes
  <2>2. {cur.file} \subseteq Under(cur.file) /\ cur.dest \in Path
    BY <2>1, UnderSelf, CurIs
  <2>3. Adds({cur.file})
    BY <1>7, <2>1, <2>2, PutAdds DEF Makes, Adds
  <2> QED  BY <1>2, <1>7, <2>3 DEF Makes
<1>8. CASE Succeed
  <2>1. cur # Idle /\ cur.file \in File
    BY <1>1, <1>8 DEF Succeed, Result, Trying, Control
  <2>2. Under(cur.file) \cap src \subseteq Under(cur.file) /\ cur.dest \in Path
    BY <2>1, CurIs
  <2>3. Put(cur.file, cur.dest, Under(cur.file) \cap src)
    BY <1>8 DEF Succeed
  <2>4. Adds(Under(cur.file))
    BY <2>1, <2>2, <2>3, PutAdds DEF Adds
  <2>5. src \ Under(cur.file) \subseteq src'
    BY <1>8 DEF Succeed
  <2> QED  BY <1>2, <1>8, <2>4, <2>5
<1>9. CASE Spills
  <2>1. /\ cur # Idle /\ cur.file \in src /\ src' = src
        /\ left' = left \cup {<<cur.file, cur.dest>>}
    BY <1>9 DEF Spills
  <2>2. PICK files \in Parts(cur.file) : Put(cur.file, cur.dest, files)
    BY <1>9 DEF Spills
  <2>3. cur.file \in File /\ files \subseteq Under(cur.file) /\ cur.dest \in Path
    BY <1>1, <2>1, PartsUnder, CurIs
  <2>4. AddsAt(cur.file, cur.dest)
    <3>1. PICK f, p : f = cur.file /\ p = cur.dest
      OBVIOUS
    <3>2. f \in File /\ p \in Path /\ files \subseteq Under(f) /\ Put(f, p, files)
      BY <2>2, <2>3, <3>1
    <3>3. \A q \in DOMAIN dest' : \/ q \in DOMAIN dest /\ dest'[q] = dest[q]
                                  \/ dest'[q] \in files /\ IsPrefix(p, q)
      BY <3>2, PutAdds
    <3>4. \A q \in DOMAIN dest' : \/ q \in DOMAIN dest /\ dest'[q] = dest[q]
                                  \/ dest'[q] \in Under(f) /\ IsPrefix(p, q)
      BY <3>2, <3>3
    <3>5. AddsAt(f, p)
      BY <3>4, Zenon DEF AddsAt
    <3> QED  BY <3>1, <3>5, Zenon
  <2>5. <<cur.file, cur.dest>> \in left' /\ src' = src /\ cur.file \in File
    BY <2>1, <2>3
  <2> QED  BY <1>2, <1>9, <2>4, <2>5
<1> QED  BY <1>4, <1>5, <1>6, <1>7, <1>8, <1>9 DEF DataStep

\* What is done with is not asked about, not put off, and not in the lists.
LEMMA LetGo ==
  ASSUME Shape, Sorted, Reading, [Next]_vars, Succeed \/ Enters
  PROVE  cur.file \in File /\ cur.file \in Pending /\ cur.file \notin Pending'
<1>1. TypeOK /\ Control /\ list \in Seq(Entry) /\ fallbacks \in Seq(Entry)
  BY TypeParts DEF Shape, ListTyped
<1>2. cur # Idle /\ cur' = Idle /\ told' = told
  BY DEF Succeed, Enters, Result, Trying, said
<1>3. ~PutOff
  <2>1. CASE Succeed
    <3>1. fallbacks' = fallbacks
      BY <2>1 DEF Succeed, lists
    <3>2. \A z : Append(fallbacks, z) # fallbacks
      <4> SUFFICES ASSUME NEW z, Append(fallbacks, z) = fallbacks PROVE FALSE
        OBVIOUS
      <4>1. Len(Append(fallbacks, z)) = Len(fallbacks) + 1 /\ Len(fallbacks) \in Nat
        BY <1>1
      <4> QED  BY <4>1
    <3> QED  BY <3>1, <3>2 DEF PutOff, PutOnList
  <2>2. CASE Enters
    <3>1. Len(frames') = Len(frames) + 1 /\ frames \in Seq(Level)
      BY <1>1, <2>2, EntersIs
    <3>2. Len(frames) \in Nat
      BY <3>1
    <3> QED  BY <3>1, <3>2 DEF PutOff
  <2> QED  BY <2>1, <2>2
<1>4. cur.file \in File /\ cur.file \in Pending
  BY <1>1, <1>2 DEF Control, Pending, AtHand
<1> QED  BY <1>2, <1>3, <1>4, NextSorted

LEMMA PendingFiles == TypeOK => Pending \subseteq File
<1> SUFFICES ASSUME TypeOK PROVE Pending \subseteq File
  OBVIOUS
<1>1. list \in Seq(Entry) /\ fallbacks \in Seq(Entry) /\ told \subseteq File
  BY TypeParts DEF ListTyped, SaidTyped
<1>2. Files(list) \subseteq File /\ Files(fallbacks) \subseteq File
  BY <1>1, EntriesTyped DEF Files
<1> QED  BY <1>1, <1>2 DEF Pending, Later, Listed, PutAway, AtHand, Left

\* What waits or was skipped stays whole.
LEMMA NextWhole ==
  ASSUME Shape, Tidy, [Next]_vars, NEW f \in Pending, f \in Pending'
  PROVE  Whole(f)'
<1>1. TypeOK /\ Control /\ DataStep /\ f \in File /\ Sorted /\ Reading /\ left \subseteq left'
  BY DataSteps, DataTouches, PendingFiles DEF Shape, Tidy
<1>2. /\ Under(f) \subseteq src
      /\ \A p \in DOMAIN dest :
           dest[p] \in Under(f) => \E l \in left : l[1] = f /\ IsPrefix(l[2], p)
  BY DEF Tidy, Untouched, Whole
<1>3. ASSUME cur.file \in File, cur.file \in Pending, cur.file # f
      PROVE  Under(f) \cap Under(cur.file) = {} /\ cur.file \notin Under(f)
  <2>1. f \notin Under(cur.file) /\ cur.file \notin Under(f)
    BY <1>3 DEF Tidy, Untouched
  <2> QED  BY <1>1, <1>3, <2>1, CommonUnder
<1>4. ASSUME NEW files, Adds(files), Under(f) \cap files = {}, Under(f) \subseteq src'
      PROVE  Whole(f)'
  BY <1>1, <1>2, <1>4 DEF Adds, Whole, Under
<1>5. CASE src' = src /\ Adds({})
  BY <1>2, <1>4, <1>5
<1>6. CASE Makes /\ src' = src /\ Adds({cur.file})
  <2>1. Enters
    BY <1>1, <1>6, IdleIs, FileAssumption DEF Makes, Enter, Enters
  <2>2. cur.file \notin Under(f)
    BY <1>1, <1>3, <2>1, LetGo
  <2> QED  BY <1>2, <1>4, <1>6, <2>2
<1>7. CASE Succeed /\ src \ Under(cur.file) \subseteq src' /\ Adds(Under(cur.file))
  <2>1. Under(f) \cap Under(cur.file) = {}
    BY <1>1, <1>3, <1>7, LetGo
  <2>2. Under(f) \subseteq src'
    BY <1>2, <1>7, <2>1
  <2> QED  BY <1>4, <1>7, <2>1, <2>2
<1>8. CASE Deletes /\ src' = src \ {Call.dir} /\ dest' = dest
  <2>1. Call = frames[1] /\ 1 \in DOMAIN frames
    BY <1>1, <1>8, CallTypes DEF Deletes, InFolder, TypeOK
  <2>2. Call.dir \notin Under(f)
    BY <2>1 DEF Tidy, Entered
  <2>3. Under(f) \subseteq src' /\ Adds({})
    BY <1>2, <1>8, <2>2 DEF Adds
  <2> QED  BY <1>4, <2>3
<1>9. CASE /\ Spills /\ src' = src /\ cur.file \in File
           /\ <<cur.file, cur.dest>> \in left' /\ AddsAt(cur.file, cur.dest)
  <2>1. cur.file \in Pending
    BY <1>9 DEF Pending, AtHand
  <2>2. CASE cur.file # f
    <3>1. Adds(Under(cur.file))
      BY <1>9 DEF Adds, AddsAt
    <3> QED  BY <1>2, <1>3, <1>4, <1>9, <2>1, <2>2, <3>1
  <2>3. CASE cur.file = f
    <3>1. PICK p : p = cur.dest
      OBVIOUS
    <3>2. PICK l : l \in left' /\ l = <<f, p>>
      BY <1>9, <2>3, <3>1
    <3>3. l[1] = f /\ l[2] = p
      BY <3>2
    <3>4. ASSUME NEW q \in DOMAIN dest', dest'[q] \in Under(f)
          PROVE  \E k \in left' : k[1] = f /\ IsPrefix(k[2], q)
      BY <1>1, <1>2, <1>9, <2>3, <3>1, <3>2, <3>3, <3>4 DEF AddsAt
    <3> QED  BY <1>2, <1>9, <3>4 DEF Whole, Under
  <2> QED  BY <2>2, <2>3
<1> QED  BY <1>1, <1>5, <1>6, <1>7, <1>8, <1>9, DataTouches

\* The children of a folder that is read are apart from all else.
LEMMA KidsFresh ==
  ASSUME Shape, Tidy, Opens, Unread(Call.dir), NEW f \in Present(Call.dir)
  PROVE  /\ f \in File /\ Whole(f)' /\ UNCHANGED <<src, dest>>
         /\ \A g \in Pending : f # g => f \notin Under(g) /\ g \notin Under(f)
         /\ \A g \in Present(Call.dir) : f # g => f \notin Under(g)
         /\ \A k \in DOMAIN frames : frames[k].dir \notin Under(f)
<1>1. TypeOK /\ Control /\ UNCHANGED <<src, dest>> /\ frames # <<>>
  BY DEF Shape, Opens, OpenDir, InFolder, fileVars
<1>2. PICK d : d = Call.dir
  OBVIOUS
<1>3. d \in File /\ f \in Kids(d) /\ 1 \in DOMAIN frames /\ frames[1].dir = d
  BY <1>1, <1>2, CallTypes DEF Present, TypeOK
<1>4. /\ f \in File /\ f \in Under(d) /\ f # d /\ d \notin Under(f)
      /\ \A h \in Kids(d) : h # f => h \notin Under(f)
  BY <1>3, KidsApart
<1>5. Under(f) \subseteq Under(d) \ {d}
  BY <1>3, <1>4, UnderSelf
<1>6. /\ Under(d) \subseteq src /\ (Under(d) \ {d}) \cap Range(dest) = {}
      /\ Pending \cap Under(d) = {}
      /\ \A k \in DOMAIN frames : k # 1 => frames[k].dir \notin Under(d)
  BY <1>2 DEF Unread
<1>7. Whole(f)'
  <2>1. Under(f) \subseteq src /\ \A p \in DOMAIN dest : dest[p] \notin Under(f)
    BY <1>5, <1>6 DEF Range
  <2> QED  BY <1>1, <2>1 DEF Whole, Under
<1>8. ASSUME NEW g \in Pending PROVE f \notin Under(g) /\ g \notin Under(f)
  <2>1. g \notin Under(d) /\ g \notin Under(f) /\ g \in File
    BY <1>1, <1>5, <1>6, <1>8, PendingFiles
  <2>2. d \notin Under(g)
    BY <1>3, <1>8 DEF Tidy, Entered
  <2> QED  BY <1>3, <1>4, <2>1, <2>2, CommonUnder
<1>9. ASSUME NEW g \in Present(Call.dir), f # g PROVE f \notin Under(g)
  <2>1. g \in Kids(d)
    BY <1>2, <1>9 DEF Present
  <2> QED  BY <1>3, <1>9, <2>1, KidsApart
<1>10. ASSUME NEW k \in DOMAIN frames PROVE frames[k].dir \notin Under(f)
  <2>1. CASE k = 1
    BY <1>3, <1>4, <2>1
  <2>2. CASE k # 1
    BY <1>5, <1>6, <2>2
  <2> QED  BY <2>1, <2>2
<1> QED  BY <1>1, <1>4, <1>7, <1>8, <1>9, <1>10

LEMMA NextUntouched ==
  ASSUME Shape, Tidy, [Next]_vars
  PROVE  Untouched'
<1>1. /\ Shape /\ Sorted /\ Reading
      /\ \A f, g \in Pending : f # g => f \notin Under(g)
  BY DEF Tidy, Untouched
<1>2. \A f : (Under(f))' = Under(f)
  BY DEF Under
<1>3. CASE Pending' \subseteq Pending
  <2>1. ASSUME NEW f \in Pending' PROVE Whole(f)'
    BY <1>3, <2>1, NextWhole
  <2> QED  BY <1>1, <1>3, <2>1 DEF Untouched, Under
<1>4. CASE Opens /\ Pending' \subseteq Pending \cup Present(Call.dir) /\ Unread(Call.dir)
  <2>1. ASSUME NEW f \in Pending' PROVE Whole(f)'
    <3>1. CASE f \in Pending
      BY <2>1, <3>1, NextWhole
    <3>2. CASE f \in Present(Call.dir)
      BY <1>4, <3>2, KidsFresh
    <3> QED  BY <1>4, <2>1, <3>1, <3>2
  <2>2. ASSUME NEW f \in Pending', NEW g \in Pending', f # g PROVE f \notin Under(g)
    <3>1. CASE f \in Pending /\ g \in Pending
      BY <1>1, <2>2, <3>1
    <3>2. CASE f \in Present(Call.dir)
      BY <1>4, <2>2, <3>2, KidsFresh
    <3>3. CASE f \in Pending /\ g \in Present(Call.dir)
      BY <1>4, <2>2, <3>3, KidsFresh
    <3> QED  BY <1>4, <2>2, <3>1, <3>2, <3>3
  <2> QED  BY <2>1, <2>2 DEF Untouched, Under
<1> QED  BY <1>1, <1>3, <1>4, NextSorted

LEMMA NextEntered ==
  ASSUME Shape, Tidy, [Next]_vars
  PROVE  Entered'
<1>1. /\ TypeOK /\ Control /\ Shape /\ Sorted /\ Reading /\ Entered
      /\ frames \in Seq(Level) /\ frames' \in Seq(Level)
  BY NextCalls, TypeParts DEF Shape, Tidy, CallTyped
<1>2. \/ Pending' \subseteq Pending
      \/ Opens /\ Pending' \subseteq Pending \cup Present(Call.dir) /\ Unread(Call.dir)
  BY <1>1, NextSorted
<1> SUFFICES ASSUME NEW k \in DOMAIN frames', NEW f \in Pending'
             PROVE  frames'[k].dir \notin Under(f)
  BY DEF Entered, Under
<1>3. CASE Opens
  <2>1. k \in DOMAIN frames /\ frames'[k].dir = frames[k].dir
    <3>1. DOMAIN frames' = DOMAIN frames /\ Call = frames[1]
      BY <1>1, <1>3, CallTypes DEF Opens, OthersSame
    <3> QED  BY <1>3, <3>1 DEF Opens, OthersSame, SameLevel
  <2>2. CASE f \in Pending
    BY <1>1, <2>1, <2>2 DEF Entered
  <2>3. CASE f \notin Pending
    <3>1. f \in Present(Call.dir) /\ Unread(Call.dir)
      BY <1>2, <2>3
    <3> QED  BY <1>3, <2>1, <3>1, KidsFresh
  <2> QED  BY <2>2, <2>3
<1>4. CASE ~Opens
  <2>1. f \in Pending
    BY <1>2, <1>4
  <2>2. ASSUME NEW i \in DOMAIN frames, frames'[k].dir = frames[i].dir
        PROVE  frames'[k].dir \notin Under(f)
    BY <1>1, <2>1, <2>2 DEF Entered
  <2>3. CASE SameLevels
    BY <1>1, <2>2, <2>3 DEF SameLevels, SameLevel
  <2>4. CASE Turns
    <3>1. DOMAIN frames' = DOMAIN frames /\ Call = frames[1]
      BY <1>1, <2>4, CallTypes DEF Turns, OthersSame
    <3>2. frames'[k].dir = frames[k].dir
      BY <2>4, <3>1 DEF Turns, OthersSame, SameLevel
    <3> QED  BY <2>2, <3>1, <3>2
  <2>5. CASE Enters
    <3>1. CASE k = 1
      <4>1. frames'[1].dir = cur.file
        BY <1>1, <2>5, EntersIs
      <4>2. cur.file \in Pending /\ cur.file \notin Pending'
        BY <1>1, <2>5, LetGo
      <4> QED  BY <2>1, <3>1, <4>1, <4>2 DEF Tidy, Untouched
    <3>2. CASE k # 1
      <4>1. k - 1 \in DOMAIN frames /\ frames'[k] = frames[k - 1]
        BY <1>1, <2>5, <3>2, EntersIs
      <4> QED  BY <2>2, <4>1
    <3> QED  BY <3>1, <3>2
  <2>6. CASE Leaves
    <3>1. k + 1 \in DOMAIN frames /\ frames'[k].dir = frames[k + 1].dir
      BY <1>1, <2>6, LeavesIs DEF SameLevel
    <3> QED  BY <2>2, <3>1
  <2> QED  BY <1>1, <1>4, <2>3, <2>4, <2>5, <2>6, LevelSteps
<1> QED  BY <1>3, <1>4

\* Nothing is touched in a folder that was entered, until it is read.
LEMMA NextReading ==
  ASSUME Shape, Tidy, [Next]_vars
  PROVE  Reading'
<1>1. /\ TypeOK /\ Control /\ Shape /\ Sorted /\ Reading /\ Entered /\ DataStep
      /\ frames \in Seq(Level) /\ frames' \in Seq(Level) /\ Control'
  BY NextCalls, NextControl, TypeParts, DataSteps DEF Shape, Tidy, CallTyped
<1>2. \A k \in DOMAIN frames : k # 1 => frames[k].stage # "open"
  BY <1>1 DEF Reading
<1>3. frames # <<>> => /\ 1 \in DOMAIN frames /\ Call = frames[1]
                       /\ cur # Idle => frames[1].stage # "open"
                       /\ frames[1].stage = "open" => Unread(frames[1].dir)
  BY <1>1, CallTypes DEF Reading
<1>4. frames' # <<>> => 1 \in DOMAIN frames' /\ Head(frames') = frames'[1]
  BY <1>1
<1>5. ASSUME \A k \in DOMAIN frames' : k # 1 => frames'[k].stage # "open",
             frames' # <<>> => \/ frames'[1].stage # "open"
                               \/ cur' = Idle /\ \E d : frames'[1].dir = d /\ Unread(d)'
      PROVE  Reading'
  <2>1. CASE frames' = <<>>
    BY <1>5, <2>1 DEF Reading
  <2>2. CASE frames' # <<>>
    <3>1. Call' = frames'[1]
      BY <1>4, <2>2 DEF Call
    <3>2. cur' # Idle => frames'[1].stage # "open"
      BY <1>5, <2>2
    <3>3. ASSUME frames'[1].stage = "open" PROVE Unread(Call.dir)'
      <4>1. PICK d : frames'[1].dir = d /\ Unread(d)'
        BY <1>5, <2>2, <3>3
      <4>2. (Under(d))' = Under(d) /\ (Under(Call.dir))' = Under(d)
        BY <3>1, <4>1 DEF Under
      <4> QED  BY <3>1, <4>1, <4>2 DEF Unread
    <3> QED  BY <1>5, <3>1, <3>2, <3>3 DEF Reading
  <2> QED  BY <2>1, <2>2
<1>6. CASE SameLevels
  <2>1. DOMAIN frames' = DOMAIN frames
    BY <1>1, <1>6 DEF SameLevels
  <2>2. \A k \in DOMAIN frames : /\ frames'[k].stage = frames[k].stage
                                 /\ frames'[k].dir = frames[k].dir
    BY <1>6 DEF SameLevels, SameLevel
  <2>3. ASSUME frames' # <<>>, frames'[1].stage = "open"
        PROVE  cur' = Idle /\ \E d : frames'[1].dir = d /\ Unread(d)'
    <3>1. frames # <<>> /\ frames[1].stage = "open"
      BY <1>4, <2>1, <2>2, <2>3
    <3>2. cur = Idle /\ Unread(frames[1].dir) /\ Call.stage = "open"
      BY <1>3, <3>1
    <3>3. ~TakeNext /\ \A f \in File : ~CopyChild(f)
      BY <3>1, <3>2 DEF TakeNext, CopyChild, InFolder
    <3>4. cur' = Idle
      <4>1. cur' = Idle \/ cur'.file = cur.file
        BY <1>1, <3>3, CurSteps
      <4> QED  BY <1>1, <3>2, <4>1, IdleIs DEF Control
    <3>5. src' = src /\ dest' = dest
      <4>1. ~Succeed /\ ~Makes /\ ~Drops /\ ~Spills
        BY <3>2, IdleIs DEF Succeed, Result, Trying, Makes, Drops, Spills
      <4>2. ~Removes
        BY <1>1, <3>2 DEF Removes, Control
      <4>3. ~Deletes
        BY <3>2 DEF Deletes, InFolder
      <4> QED  BY <1>1, <4>1, <4>2, <4>3 DEF DataStep, Still
    <3>6. ~Opens
      BY <2>3 DEF Opens, OthersSame
    <3>7. Pending' \subseteq Pending
      BY <1>1, <3>6, NextSorted
    <3>8. PICK d : d = frames[1].dir
      OBVIOUS
    <3>9. frames'[1].dir = d
      BY <1>3, <2>2, <3>1, <3>8
    <3>10. Unread(d)'
      <4>1. /\ Under(d) \subseteq src /\ (Under(d) \ {d}) \cap Range(dest) = {}
            /\ Pending \cap Under(d) = {}
            /\ \A k \in DOMAIN frames : k # 1 => frames[k].dir \notin Under(d)
        BY <3>2, <3>8 DEF Unread
      <4>2. \A k \in DOMAIN frames' : k # 1 => frames'[k].dir \notin Under(d)
        BY <2>1, <2>2, <4>1
      <4>3. Under(d)' = Under(d)
        BY DEF Under
      <4> QED  BY <3>5, <3>7, <4>1, <4>2, <4>3 DEF Unread
    <3> QED  BY <3>4, <3>9, <3>10
  <2> QED  BY <1>2, <1>5, <2>1, <2>2, <2>3
<1>7. CASE Turns \/ Opens
  <2>1. DOMAIN frames' = DOMAIN frames /\ frames'[1].stage # "open"
    BY <1>1, <1>7 DEF Turns, Opens, OthersSame
  <2>2. \A k \in DOMAIN frames : k # 1 => frames'[k].stage = frames[k].stage
    BY <1>7 DEF Turns, Opens, OthersSame, SameLevel
  <2> QED  BY <1>2, <1>5, <2>1, <2>2
<1>8. CASE Enters
  <2>1. PICK d : d = cur.file
    OBVIOUS
  <2>2. /\ d \in File /\ frames'[1].dir = d
        /\ \A k \in DOMAIN frames' : k # 1 => k - 1 \in DOMAIN frames /\ frames'[k] = frames[k - 1]
    BY <1>1, <1>8, <2>1, EntersIs
  <2>3. cur # Idle /\ cur' = Idle
    BY <1>8 DEF Enters
  <2>4. \A k \in DOMAIN frames : frames[k].stage # "open"
    BY <1>2, <1>3, <2>3
  <2>5. d \in Pending /\ d \notin Pending'
    BY <1>1, <1>8, <2>1, LetGo
  <2>6. Under(d) \subseteq src /\ \A p \in DOMAIN dest : dest[p] \notin Under(d)
    <3>1. question = NoQuestion /\ ~common.cancelled
      BY <1>8 DEF Enters, Makes, Going, Result, Trying
    <3>2. d \notin told
      BY <1>1, <2>1, <2>2 DEF Sorted, AtHand
    <3>3. \A l \in left : l[1] # d
      BY <1>1, <3>1, <3>2 DEF Shape, LeftOwned, Owned, NoQuestion
    <3> QED  BY <2>5, <3>3 DEF Tidy, Untouched, Whole
  <2>7. src' = src /\ Adds({d})
    <3>1. CASE Makes
      <4>1. ~Succeed /\ ~Deletes /\ ~Spills
        BY <2>3, <3>1 DEF Succeed, Result, Trying, Makes, Deletes, InFolder, Spills
      <4> QED  BY <1>1, <2>1, <4>1, DataTouches DEF Adds
    <3>2. CASE Result("merge") /\ UNCHANGED dest
      <4>1. ~Succeed /\ ~Deletes /\ ~Makes /\ ~Spills
        BY <2>3, <3>2 DEF Succeed, Result, Trying, Makes, Deletes, InFolder, Spills
      <4> QED  BY <1>1, <3>2, <4>1, DataTouches DEF Adds
    <3> QED  BY <1>8, <3>1, <3>2 DEF Enters
  <2>8. Pending' \subseteq Pending
    BY <1>1, <2>3, NextSorted DEF Opens, OthersSame
  <2>9. \A f \in Pending' : f \notin Under(d)
    BY <2>5, <2>8 DEF Tidy, Untouched
  <2>10. \A k \in DOMAIN frames' : k # 1 => frames'[k].dir \notin Under(d)
    BY <1>1, <2>2, <2>5 DEF Entered
  <2>11. Unread(d)'
    <3>1. Under(d) \subseteq src' /\ (Under(d) \ {d}) \cap Range(dest') = {}
          /\ Pending' \cap Under(d) = {}
      BY <2>6, <2>7, <2>9 DEF Adds, Range
    <3>2. Under(d)' = Under(d)
      BY DEF Under
    <3> QED  BY <2>10, <3>1, <3>2 DEF Unread
  <2> QED  BY <1>5, <2>2, <2>3, <2>4, <2>11
<1>9. CASE Leaves
  <2>1. \A k \in DOMAIN frames' : /\ k >= 1 /\ k \in Nat /\ k + 1 \in DOMAIN frames
                                  /\ frames'[k].stage = frames[k + 1].stage
    BY <1>1, <1>9, LeavesIs DEF SameLevel
  <2>2. \A k \in DOMAIN frames' : frames'[k].stage # "open"
    BY <1>2, <2>1
  <2> QED  BY <1>4, <1>5, <2>2
<1> QED  BY <1>1, <1>6, <1>7, <1>8, <1>9, LevelSteps

LEMMA InitTidy == Init /\ Apart => Tidy
<1> SUFFICES ASSUME Init, Apart PROVE Tidy
  OBVIOUS
<1>1. /\ job \in Jobs /\ list = [i \in DOMAIN job.top |-> [file |-> job.top[i], over |-> FALSE]]
      /\ fallbacks = <<>> /\ cur = Idle /\ question = NoQuestion /\ frames = <<>>
      /\ src = File /\ dest = job.old /\ told = {}
  BY DEF Init
<1>2. /\ job.top \in Seq(File) /\ \A i, k \in DOMAIN job.top : job.top[i] = job.top[k] => i = k
      /\ \A p \in DOMAIN job.old : job.old[p] \in {OldFile, OldFolder}
  BY <1>1, JobAssumption
<1>3. Distinct(list) /\ Listed = TopFiles
  <2>1. DOMAIN list = DOMAIN job.top /\ \A i \in DOMAIN job.top : list[i].file = job.top[i]
    BY <1>1
  <2> QED  BY <1>2, <2>1 DEF Distinct, Listed, Files, TopFiles, Range
<1>4. Files(fallbacks) = {} /\ Distinct(fallbacks)
  BY <1>1 DEF Files, Distinct
<1>5. AtHand = {} /\ Left = {} /\ LeftsApart
  BY <1>1, IdleIs DEF AtHand, Asked, NoQuestion, Left, LeftsApart
<1>6. ListsApart /\ Later = TopFiles
  BY <1>3, <1>4 DEF ListsApart, Later, PutAway
<1>7. Sorted /\ Pending = TopFiles
  BY <1>1, <1>5, <1>6 DEF Sorted, Pending
<1>8. TopFiles \subseteq File
  BY <1>2 DEF TopFiles, Range
<1>9. File \cap Range(dest) = {}
  BY <1>1, <1>2, FileAssumption DEF Range
<1>10. \A f \in File : Whole(f)
  BY <1>1, <1>9, UnderSelf DEF Whole, Range
<1>11. Untouched
  BY <1>7, <1>8, <1>10 DEF Untouched, Apart
<1>12. Entered /\ Reading
  BY <1>1 DEF Entered, Reading
<1> QED  BY <1>7, <1>11, <1>12 DEF Tidy

LEMMA NextTidy == Shape /\ Tidy /\ [Next]_vars => Tidy'
<1> SUFFICES ASSUME Shape, Tidy, [Next]_vars PROVE Tidy'
  OBVIOUS
<1>1. Sorted'
  BY NextSorted DEF Tidy
<1> QED  BY <1>1, NextUntouched, NextEntered, NextReading DEF Tidy

\* No file is lost on the way: one that is no longer in its place is where the
\* undo record says, alone or with its folder, or the user agreed to lose what is
\* there; and what the user was told is skipped is, with all that is in it, in
\* its place, and nowhere else but where the attempt on it that failed has left
\* something, though the job goes on with the files around it.
THEOREM NothingLostOnTheWay == Spec => []NoSourceLost
<1> DEFINE Inv == Grants /\ MovedHere /\ (Apart => Tidy)
<1>1. Init => Inv
  <2>1. Init => MovedHere
    BY DEF Init, MovedHere
  <2> QED  BY <2>1, InitGrants, InitTidy
<1>2. Inv /\ [Next]_vars => Inv'
  <2> SUFFICES ASSUME Inv, [Next]_vars PROVE Inv'
    OBVIOUS
  <2>1. Grants' /\ MovedHere'
    BY NextGrants, NextMoved
  <2>2. Apart' => Apart
    BY SameJob DEF Apart, TopFiles, Under
  <2>3. Apart' => Tidy'
    BY <2>2, NextTidy DEF Grants
  <2> QED  BY <2>1, <2>3
<1>3. Inv => NoSourceLost
  <2> SUFFICES ASSUME Inv PROVE NoSourceLost
    OBVIOUS
  <2>1. Apart => \A f \in told : Whole(f)
    BY DEF Tidy, Untouched, Pending
  <2> QED  BY <2>1 DEF NoSourceLost, MovedHere, Whole
<1> QED  BY <1>1, <1>2, <1>3, PTL DEF Spec

=============================================================================
