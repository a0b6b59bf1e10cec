-------------------------- MODULE Localizer_proofs --------------------------
(***************************************************************************)
(* Proofs about the votes of a frame, for any spots, boxes and confidences:*)
(* the filters take no box that none beats, whatever they skip, a vehicle  *)
(* that covers most of a spot is seen there, and a vote has its vehicle.   *)
(***************************************************************************)
EXTENDS Localizer, FiniteSetTheorems, TLAPS

-----------------------------------------------------------------------------
(***************************************************************************)
(* Products of natural numbers.                                            *)
(***************************************************************************)
LEMMA ProductGrows ==
    ASSUME NEW a \in Nat, NEW b \in Nat, NEW c \in Nat, NEW d \in Nat,
           a <= b, c <= d
    PROVE  a * c <= b * d
<1>1. b = a + (b - a) /\ b - a \in Nat
  OBVIOUS
<1>2. d = c + (d - c) /\ d - c \in Nat
  OBVIOUS
<1>3. b * d = a * c + a * (d - c) + (b - a) * d
  BY <1>1, <1>2
<1>4. a * (d - c) \in Nat /\ (b - a) * d \in Nat /\ a * c \in Nat
  BY <1>1, <1>2
<1> QED
  BY <1>3, <1>4

LEMMA ProductPositive ==
    ASSUME NEW a \in Nat, NEW b \in Nat
    PROVE  /\ a * b \in Nat
           /\ a * b > 0 <=> a > 0 /\ b > 0
<1>1. a * b \in Nat
  OBVIOUS
<1>2. ASSUME a > 0, b > 0 PROVE a * b > 0
  <2>1. 1 * 1 <= a * b
    BY <1>2, ProductGrows
  <2> QED
    BY <1>1, <2>1
<1>3. ASSUME ~(a > 0 /\ b > 0) PROVE a * b = 0
  <2>1. a = 0 \/ b = 0
    BY <1>3
  <2> QED
    BY <2>1
<1> QED
  BY <1>1, <1>2, <1>3

-----------------------------------------------------------------------------
(***************************************************************************)
(* Geometry.                                                               *)
(***************************************************************************)
LEMMA BoxType ==
    ASSUME NEW b \in Boxes
    PROVE  /\ b.x \in Nat \X Nat /\ b.x[1] <= b.x[2]
           /\ b.y \in Nat \X Nat /\ b.y[1] <= b.y[2]
           /\ b.conf \in Nat
BY LocalizerAssumption DEF Boxes, IsLine

LEMMA LineIntersection ==
    ASSUME NEW l \in Nat \X Nat, NEW m \in Nat \X Nat
    PROVE  /\ line_intersection(l, m) \in Nat
           /\ line_intersection(l, m) = line_intersection(m, l)
BY DEF line_intersection, Least, Greatest

LEMMA AreaType ==
    ASSUME NEW b \in Boxes PROVE area(b) \in Nat
<1>1. length(b.x) \in Nat /\ length(b.y) \in Nat
  BY BoxType DEF length
<1> QED
  BY <1>1, ProductPositive DEF area

\* Two boxes overlap each other or neither does (intersection_over_union,
\* intersection_over_small).
LEMMA OverlapIsMutual ==
    ASSUME NEW a \in Boxes, NEW b \in Boxes
    PROVE  /\ rect_iou(a, b) <=> rect_iou(b, a)
           /\ rect_ios(a, b) <=> rect_ios(b, a)
<1>1. /\ line_intersection(a.x, b.x) = line_intersection(b.x, a.x)
      /\ line_intersection(a.y, b.y) = line_intersection(b.y, a.y)
      /\ line_intersection(a.x, b.x) \in Nat
      /\ line_intersection(a.y, b.y) \in Nat
  BY BoxType, LineIntersection
<1>2. /\ rect_intersection(a, b) = rect_intersection(b, a)
      /\ rect_intersection(a, b) \in Nat
  BY <1>1, ProductPositive DEF rect_intersection
<1>3. area(a) \in Nat /\ area(b) \in Nat
  BY AreaType
<1>4. area(a) + area(b) = area(b) + area(a)
  BY <1>3
<1>5. Least(area(a), area(b)) = Least(area(b), area(a))
  BY <1>3 DEF Least
<1>6. rect_iou(a, b) <=> rect_iou(b, a)
  BY <1>2, <1>3, <1>4 DEF rect_iou
<1>7. rect_ios(a, b) <=> rect_ios(b, a)
  BY <1>2, <1>3, <1>5 DEF rect_ios
<1> QED
  BY <1>6, <1>7

\* What xline and yline return, against the part of the spot's line from r, rw
\* long, that the car's line from c, cw long, covers: never less, unless both
\* begin together; and no more, unless one has the other inside it.
LEMMA ExtentIsCover ==
    ASSUME NEW r \in Nat, NEW rw \in Nat \ {0},
           NEW c \in Nat, NEW d \in Nat, c <= d
    PROVE  LET cw      == d - c + 1
               covered == line_intersection(<<c, d>>, <<r, r + rw - 1>>)
           IN  /\ Extent(r, rw, c, cw) \in Nat
               /\ covered \in Nat
               /\ c # r => covered <= Extent(r, rw, c, cw)
               /\ Extent(r, rw, c, cw) > 0 =>
                     /\ covered > 0
                     /\ covered = Extent(r, rw, c, cw) \/ Nested(r, rw, c, cw)
<1> DEFINE cw == d - c + 1
<1>1. cw \in Nat /\ c + cw = d + 1
  OBVIOUS
<1>2. CASE c < r
  <2>1. Extent(r, rw, c, cw) = IF r < c + cw THEN c + cw - r ELSE 0
    BY <1>1, <1>2 DEF Extent
  <2> QED
    BY <1>1, <1>2, <2>1 DEF line_intersection, Least, Greatest, Nested
<1>3. CASE r < c
  <2>1. Extent(r, rw, c, cw) = IF c < r + rw THEN r + rw - c ELSE 0
    BY <1>1, <1>3 DEF Extent
  <2> QED
    BY <1>1, <1>3, <2>1 DEF line_intersection, Least, Greatest, Nested
<1>4. CASE c = r
  <2>1. Extent(r, rw, c, cw) = 0
    BY <1>1, <1>4 DEF Extent
  <2> QED
    BY <1>1, <1>4, <2>1 DEF line_intersection, Least, Greatest
<1> QED
  BY <1>2, <1>3, <1>4

-----------------------------------------------------------------------------
(***************************************************************************)
(* Lists of boxes.                                                         *)
(***************************************************************************)

\* What is removed from a list is at most the element at one place.
LEMMA RemoveOne ==
    ASSUME NEW s \in Seq(Boxes), NEW i \in 1..Len(s)
    PROVE  /\ RemoveAt(s, i) \in Seq(Boxes)
           /\ Len(RemoveAt(s, i)) = Len(s) - 1
           /\ ToSet(RemoveAt(s, i)) \subseteq ToSet(s)
           /\ \A j \in 1..Len(s) : j # i => s[j] \in ToSet(RemoveAt(s, i))
<1> DEFINE u == SubSeq(s, 1, i - 1)
           v == SubSeq(s, i + 1, Len(s))
           t == RemoveAt(s, i)
<1>0. t = u \o v
  BY DEF RemoveAt
<1>6. /\ u \in Seq(Boxes) /\ Len(u) = i - 1
      /\ \A k \in 1..(i - 1) : u[k] = s[k]
  OBVIOUS
<1>7. /\ v \in Seq(Boxes) /\ Len(v) = Len(s) - i
      /\ \A k \in 1..(Len(s) - i) : v[k] = s[k + i]
  OBVIOUS
<1> HIDE DEF t, u, v
<1>1. t \in Seq(Boxes) /\ Len(t) = Len(s) - 1
  BY <1>0, <1>6, <1>7
<1>2. \A k \in 1..Len(t) : t[k] = IF k < i THEN s[k] ELSE s[k + 1]
  <2> SUFFICES ASSUME NEW k \in 1..Len(t)
               PROVE  t[k] = IF k < i THEN s[k] ELSE s[k + 1]
    OBVIOUS
  <2>1. CASE k < i
    BY <1>0, <1>1, <1>6, <1>7, <2>1
  <2>2. CASE k >= i
    <3> DEFINE m == k - (i - 1)
    <3>1. m \in 1..(Len(s) - i) /\ m + i = k + 1
      BY <1>1, <2>2
    <3>2. k \in 1..(Len(u) + Len(v)) /\ k > Len(u) /\ m = k - Len(u)
      BY <1>1, <1>6, <1>7, <2>2
    <3>3. (u \o v)[k] = v[k - Len(u)]
      BY <1>6, <1>7, <3>2
    <3>4. t[k] = v[m]
      BY <1>0, <3>2, <3>3
    <3> HIDE DEF m
    <3>5. v[m] = s[k + 1]
      BY <1>7, <3>1
    <3>6. ~(k < i)
      BY <2>2
    <3> QED
      BY <3>4, <3>5, <3>6
  <2> QED
    BY <2>1, <2>2
<1>3. DOMAIN t = 1..Len(t) /\ DOMAIN s = 1..Len(s)
  BY <1>1
<1>4. ToSet(t) \subseteq ToSet(s)
  <2> SUFFICES ASSUME NEW k \in 1..Len(t) PROVE t[k] \in ToSet(s)
    BY <1>3 DEF ToSet
  <2>1. k \in 1..Len(s) /\ k + 1 \in 1..Len(s)
    BY <1>1
  <2> QED
    BY <1>2, <1>3, <2>1 DEF ToSet
<1>5. ASSUME NEW j \in 1..Len(s), j # i PROVE s[j] \in ToSet(t)
  <2>1. CASE j < i
    <3>1. j \in 1..Len(t) /\ t[j] = s[j]
      BY <1>1, <1>2, <2>1
    <3> QED
      BY <1>3, <3>1 DEF ToSet
  <2>2. CASE j > i
    <3>1. j - 1 \in 1..Len(t) /\ t[j - 1] = s[j]
      BY <1>1, <1>2, <2>2
    <3> QED
      BY <1>3, <3>1 DEF ToSet
  <2> QED
    BY <1>5, <2>1, <2>2
<1> QED
  BY <1>1, <1>4, <1>5 DEF t

\* Those that come no later than the box at place i.
UpTo(s, i) == {j \in DOMAIN s : \/ s[j].x[1] < s[i].x[1]
                                \/ s[j].x[1] = s[i].x[1] /\ j <= i}

\* Each place of a list has one box of that rank.
LEMMA RankIsPlace ==
    ASSUME NEW s \in Seq(Boxes)
    PROVE  /\ \A i \in DOMAIN s : Rank(s, i) \in DOMAIN s
           /\ \A i, j \in DOMAIN s : Rank(s, i) = Rank(s, j) => i = j
           /\ \A k \in DOMAIN s : \E i \in DOMAIN s : Rank(s, i) = k
<1>1. /\ DOMAIN s = 1..Len(s) /\ Len(s) \in Nat
      /\ IsFiniteSet(1..Len(s)) /\ Cardinality(1..Len(s)) = Len(s)
  <2>1. DOMAIN s = 1..Len(s) /\ Len(s) \in Nat
    OBVIOUS
  <2>2. IsFiniteSet(1..Len(s)) /\ Cardinality(1..Len(s)) = Len(s)
    BY <2>1, FS_Interval
  <2> QED
    BY <2>1, <2>2
<1>2. ASSUME NEW i \in DOMAIN s PROVE s[i].x[1] \in Nat
  <2>1. s[i] \in Boxes
    BY <1>1
  <2> QED
    BY <2>1, BoxType
<1>3. \A i : Rank(s, i) = Cardinality(UpTo(s, i))
             /\ UpTo(s, i) \in SUBSET DOMAIN s
  BY DEF Rank, UpTo
<1>4. \A i \in DOMAIN s : IsFiniteSet(UpTo(s, i)) /\ Rank(s, i) <= Len(s)
  BY <1>1, <1>3, FS_Subset
<1>5. \A i \in DOMAIN s : i \in UpTo(s, i)
  BY <1>1, <1>2 DEF UpTo
<1>6. ASSUME NEW i \in DOMAIN s PROVE Rank(s, i) \in DOMAIN s
  <2>1. Rank(s, i) \in Nat
    BY <1>3, <1>4, FS_CardinalityType
  <2>2. Rank(s, i) # 0
    BY <1>3, <1>4, <1>5, FS_EmptySet
  <2> QED
    BY <1>1, <1>4, <2>1, <2>2
<1>7. ASSUME NEW i \in DOMAIN s, NEW j \in DOMAIN s,
             \/ s[i].x[1] < s[j].x[1]
             \/ s[i].x[1] = s[j].x[1] /\ i < j
      PROVE  Rank(s, i) # Rank(s, j)
  <2>1. UpTo(s, i) \in SUBSET UpTo(s, j)
    BY <1>1, <1>2, <1>7 DEF UpTo
  <2>2. j \notin UpTo(s, i)
    BY <1>1, <1>2, <1>7 DEF UpTo
  <2>3. UpTo(s, i) # UpTo(s, j)
    BY <1>5, <2>2
  <2> QED
    BY <1>3, <1>4, <2>1, <2>3, FS_Subset
<1>8. ASSUME NEW i \in DOMAIN s, NEW j \in DOMAIN s, Rank(s, i) = Rank(s, j)
      PROVE  i = j
  BY <1>1, <1>2, <1>7, <1>8
<1> DEFINE f == [i \in DOMAIN s |-> Rank(s, i)]
<1>9. f \in Injection(DOMAIN s, DOMAIN s)
  BY <1>6, <1>8 DEF Injection, IsInjective
<1>10. f \in Surjection(DOMAIN s, DOMAIN s)
  BY <1>1, <1>9, FS_Injection
<1>11. \A k \in DOMAIN s : \E i \in DOMAIN s : Rank(s, i) = k
  BY <1>10 DEF Surjection
<1> QED
  BY <1>6, <1>8, <1>11

\* Sorting keeps the boxes.
LEMMA SortedKeeps ==
    ASSUME NEW s \in Seq(Boxes)
    PROVE  /\ Sorted(s) \in Seq(Boxes)
           /\ Len(Sorted(s)) = Len(s)
           /\ ToSet(Sorted(s)) = ToSet(s)
<1> DEFINE At(k) == CHOOSE i \in DOMAIN s : Rank(s, i) = k
           t     == Sorted(s)
<1>1. \A k \in DOMAIN s : At(k) \in DOMAIN s /\ Rank(s, At(k)) = k
  BY RankIsPlace
<1>2. DOMAIN t = DOMAIN s /\ \A k \in DOMAIN s : t[k] = s[At(k)]
  BY DEF Sorted
<1> HIDE DEF At, t
<1>3. DOMAIN s = 1..Len(s) /\ Len(s) \in Nat /\ \A i \in DOMAIN s : s[i] \in Boxes
  OBVIOUS
<1>4. t = [k \in 1..Len(s) |-> t[k]]
  BY <1>3 DEF t, Sorted
<1>5. \A k \in 1..Len(s) : t[k] \in Boxes
  BY <1>1, <1>2, <1>3
<1>6. t \in [1..Len(s) -> Boxes]
  BY <1>4, <1>5
<1>7. t \in Seq(Boxes) /\ Len(t) = Len(s)
  BY <1>3, <1>6
<1>8. \A i \in DOMAIN s : t[Rank(s, i)] = s[i] /\ Rank(s, i) \in DOMAIN s
  BY <1>1, <1>2, RankIsPlace
<1>9. ToSet(t) = ToSet(s)
  BY <1>1, <1>2, <1>8 DEF ToSet
<1> QED
  BY <1>7, <1>9 DEF t

-----------------------------------------------------------------------------
\* The two places that are compared differ, and lie in the list.
ListInv ==
    /\ TypeOK
    /\ Len(boxes) <= MaxBoxes
    /\ left_idx < right_idx

LEMMA SceneType ==
    ASSUME NEW s \in Scenes
    PROVE  s \in Seq(Boxes) /\ Len(s) <= MaxBoxes
<1>1. PICK n \in 0..MaxBoxes : s \in [1..n -> Boxes]
  BY DEF Scenes
<1>2. n \in Nat /\ n <= MaxBoxes
  BY <1>1, LocalizerAssumption
<1>3. s \in Seq(Boxes) /\ Len(s) = n
  BY <1>1, <1>2
<1> QED
  BY <1>2, <1>3

\* The loops of filter_bbox_iou and filter_bbox_ios never compare a box with
\* itself or with a place beyond the list they shorten.
THEOREM ListCorrect == Spec => []ListInv
<1> USE LocalizerAssumption DEF ListInv, TypeOK
<1>0. <<>> \in Seq(Boxes) /\ Len(<<>>) <= MaxBoxes
  OBVIOUS
<1>1. Init => ListInv
  <2> SUFFICES ASSUME Init PROVE ListInv
    OBVIOUS
  <2>1. left_idx \in 1..MaxBoxes /\ right_idx \in 2..(MaxBoxes + 1)
    BY DEF Init
  <2>2. scene \in Seq(Boxes) /\ boxes \in Seq(Boxes) /\ Len(boxes) <= MaxBoxes
    BY <1>0 DEF Init
  <2>3. left_idx < right_idx
    BY DEF Init
  <2> QED
    BY <2>1, <2>2, <2>3 DEF Init
<1>2. ListInv /\ [Next]_vars => ListInv'
  <2> SUFFICES ASSUME ListInv, [Next]_vars PROVE ListInv'
    OBVIOUS
  <2>1. CASE create_detector
    <3>1. loaded' \in BOOLEAN
      BY <2>1 DEF create_detector
    <3> QED
      BY <2>1, <3>1 DEF create_detector
  <2>2. CASE Detect
    <3>1. scene' \in Seq(Boxes) /\ Len(scene') <= MaxBoxes
      BY <2>2, SceneType DEF Detect
    <3>2. boxes' \in Seq(Boxes) /\ Len(boxes') <= MaxBoxes
      BY <2>2, <3>1, SortedKeeps DEF Detect
    <3> QED
      BY <2>2, <3>1, <3>2 DEF Detect
  <2>3. CASE DetectFails
    BY <2>3 DEF DetectFails
  <2>4. CASE KeepBoth
    BY <2>4 DEF KeepBoth, Comparing
  <2>5. CASE DropLeft \/ DropRight
    <3>1. /\ left_idx \in 1..Len(boxes) /\ right_idx \in 1..Len(boxes)
          /\ left_idx + 1 \in 1..MaxBoxes
      BY <2>5 DEF DropLeft, DropRight, Comparing, Filtering
    <3>2. \E i \in 1..Len(boxes) : boxes' = RemoveAt(boxes, i)
      BY <2>5, <3>1 DEF DropLeft, DropRight
    <3>3. boxes' \in Seq(Boxes) /\ Len(boxes') <= MaxBoxes
      BY <3>2, RemoveOne
    <3> QED
      BY <2>5, <3>1, <3>3 DEF DropLeft, DropRight
  <2>6. CASE NextLeft
    BY <2>6 DEF NextLeft, Filtering
  <2>7. CASE FilterEnd
    <3>1. boxes' \in Seq(Boxes) /\ Len(boxes') <= MaxBoxes
      BY <2>7, SortedKeeps DEF FilterEnd
    <3> QED
      BY <2>7, <3>1 DEF FilterEnd
  <2>8. CASE Vote \/ NextFrame
    <3>1. CASE Vote
      BY <3>1 DEF Vote
    <3>2. CASE NextFrame
      BY <1>0, <3>2 DEF NextFrame
    <3> QED
      BY <2>8, <3>1, <3>2
  <2>9. CASE UNCHANGED vars
    BY <2>9 DEF vars
  <2> QED
    BY <2>1, <2>2, <2>3, <2>4, <2>5, <2>6, <2>7, <2>8, <2>9
       DEF Next, FilterStep
<1> QED
  BY <1>1, <1>2, PTL DEF Spec

\* The lists are lists of boxes and the loops' places lie in them
\* (filter_bbox_iou, filter_bbox_ios).
THEOREM TypeCorrect == Spec => []TypeOK
<1>1. ListInv => TypeOK
  BY DEF ListInv
<1> QED
  BY <1>1, ListCorrect, PTL

-----------------------------------------------------------------------------
\* What is left is the network's, and what is gone was beaten by a box of the
\* network, be that one still there or not.
BeatenInv ==
    /\ ToSet(boxes) \subseteq ToSet(scene)
    /\ RemovedWasBeaten

\* One box goes for one that stays.
LEMMA BeatenStep ==
    ASSUME ListInv, BeatenInv, Comparing,
           NEW i \in 1..Len(boxes), NEW o \in 1..Len(boxes), i # o,
           boxes' = RemoveAt(boxes, i), scene' = scene,
           Collide(boxes[o], boxes[i]), Stronger(boxes[o], boxes[i])
    PROVE  BeatenInv'
<1> DEFINE lost == boxes[i]
           winner == boxes[o]
<1>1. boxes \in Seq(Boxes)
  BY DEF ListInv, TypeOK
<1>2. /\ ToSet(boxes') \subseteq ToSet(boxes)
      /\ \A j \in 1..Len(boxes) : j # i => boxes[j] \in ToSet(boxes')
  BY <1>1, RemoveOne
<1>3. winner \in ToSet(boxes')
  BY <1>2
<1>4. \A b \in ToSet(boxes) \ ToSet(boxes') : b = lost
  BY <1>1, <1>2 DEF ToSet
<1>5. winner \in ToSet(scene)
  BY <1>2, <1>3 DEF BeatenInv
<1> HIDE DEF lost, winner
<1>6. Collide(winner, lost) /\ Stronger(winner, lost)
  BY DEF winner, lost
<1>7. ASSUME NEW b \in ToSet(scene) \ ToSet(boxes')
      PROVE  \E w \in ToSet(scene) \ {b} : Collide(w, b) /\ Stronger(w, b)
  <2>1. CASE b \notin ToSet(boxes)
    BY <1>7, <2>1 DEF BeatenInv, RemovedWasBeaten
  <2>2. CASE b \in ToSet(boxes)
    <3>1. b = lost /\ winner # b
      BY <1>3, <1>4, <1>7, <2>2
    <3> QED
      BY <1>5, <1>6, <3>1
  <2> QED
    BY <2>1, <2>2
<1> QED
  BY <1>2, <1>7 DEF BeatenInv, RemovedWasBeaten

\* Of two boxes that overlap the weaker one goes (max_box_index and min_box_index
\* of the filters).
LEMMA WeakerGoes ==
    ASSUME NEW a \in Boxes, NEW b \in Boxes, Overlap(a, b)
    PROVE  /\ Collide(a, b) /\ Collide(b, a)
           /\ LeftLoses(a, b) => Stronger(b, a)
           /\ ~LeftLoses(a, b) => Stronger(a, b)
<1>1. Collide(a, b) /\ Collide(b, a)
  BY OverlapIsMutual DEF Overlap, Collide
<1>2. /\ area(a) \in Nat /\ area(b) \in Nat
      /\ a.conf \in Nat /\ b.conf \in Nat
  BY AreaType, BoxType
<1> QED
  BY <1>1, <1>2 DEF LeftLoses, Stronger

\* The filters only take boxes away, and none that was not beaten.
THEOREM BeatenCorrect == Spec => []BeatenInv
<1>1. Init => BeatenInv
  BY DEF Init, BeatenInv, RemovedWasBeaten, ToSet
<1>2. ListInv /\ BeatenInv /\ [Next]_vars => BeatenInv'
  <2> SUFFICES ASSUME ListInv, BeatenInv, [Next]_vars PROVE BeatenInv'
    OBVIOUS
  <2>1. ASSUME UNCHANGED scene, ToSet(boxes') = ToSet(boxes) PROVE BeatenInv'
    BY <2>1 DEF BeatenInv, RemovedWasBeaten
  <2>2. ASSUME ToSet(boxes') = ToSet(scene') PROVE BeatenInv'
    BY <2>2 DEF BeatenInv, RemovedWasBeaten
  <2>3. CASE Detect
    <3>1. scene' \in Seq(Boxes)
      BY <2>3, SceneType DEF Detect
    <3> QED
      BY <2>2, <2>3, <3>1, SortedKeeps DEF Detect
  <2>4. CASE NextFrame
    BY <2>2, <2>4 DEF NextFrame
  <2>5. CASE FilterEnd
    <3>1. boxes \in Seq(Boxes)
      BY DEF ListInv, TypeOK
    <3> QED
      BY <2>1, <2>5, <3>1, SortedKeeps DEF FilterEnd
  <2>6. CASE DropLeft \/ DropRight
    <3>1. /\ boxes \in Seq(Boxes) /\ left_idx # right_idx
          /\ left_idx \in 1..Len(boxes) /\ right_idx \in 1..Len(boxes)
      BY <2>6 DEF DropLeft, DropRight, Comparing, Filtering, ListInv, TypeOK
    <3>2. Left \in Boxes /\ Right \in Boxes
      BY <3>1 DEF Left, Right
    <3>3. Comparing /\ Overlap(Left, Right) /\ scene' = scene
      BY <2>6 DEF DropLeft, DropRight
    <3>4. CASE DropLeft
      <4>1. boxes' = RemoveAt(boxes, left_idx) /\ LeftLoses(Left, Right)
        BY <3>4 DEF DropLeft
      <4>2. Collide(Right, Left) /\ Stronger(Right, Left)
        BY <3>2, <3>3, <4>1, WeakerGoes
      <4> QED
        BY <3>1, <3>3, <4>1, <4>2, BeatenStep DEF Left, Right
    <3>5. CASE DropRight
      <4>1. boxes' = RemoveAt(boxes, right_idx) /\ ~LeftLoses(Left, Right)
        BY <3>5 DEF DropRight
      <4>2. Collide(Left, Right) /\ Stronger(Left, Right)
        BY <3>2, <3>3, <4>1, WeakerGoes
      <4> QED
        BY <3>1, <3>3, <4>1, <4>2, BeatenStep DEF Left, Right
    <3> QED
      BY <2>6, <3>4, <3>5
  <2>7. CASE create_detector \/ DetectFails \/ KeepBoth \/ NextLeft \/ Vote
             \/ UNCHANGED vars
    BY <2>1, <2>7 DEF create_detector, DetectFails, KeepBoth, NextLeft, Vote,
                      vars
  <2> QED
    BY <2>3, <2>4, <2>5, <2>6, <2>7 DEF Next, FilterStep
<1> QED
  BY <1>1, <1>2, ListCorrect, PTL DEF Spec

\* The filters take a box only for another one of the network that overlaps it
\* and is as strong (filter_bbox_iou, filter_bbox_ios).
THEOREM RemovedWasBeatenCorrect == Spec => []RemovedWasBeaten
<1>1. BeatenInv => RemovedWasBeaten
  BY DEF BeatenInv
<1> QED
  BY <1>1, BeatenCorrect, PTL

-----------------------------------------------------------------------------
\* The votes are those of the boxes that the filters left.
VotesInv ==
    votes = IF pc = "voted"
            THEN {s \in DOMAIN ROI : localizer_detect(Cars, ROI[s])}
            ELSE {}

\* localizer_detect is asked about the boxes that the filters left.
THEOREM VotesCorrect == Spec => []VotesInv
<1>1. Init => VotesInv
  BY DEF Init, VotesInv
<1>2. VotesInv /\ [Next]_vars => VotesInv'
  <2> SUFFICES ASSUME VotesInv, [Next]_vars PROVE VotesInv'
    OBVIOUS
  <2>1. CASE Vote
    <3>1. Cars' = Cars
      BY <2>1 DEF Vote, Cars
    <3> QED
      BY <2>1, <3>1 DEF Vote, VotesInv
  <2>2. CASE NextFrame
    BY <2>2 DEF NextFrame, VotesInv
  <2>3. CASE create_detector \/ Detect \/ DetectFails
    BY <2>3 DEF create_detector, Detect, DetectFails, VotesInv
  <2>4. CASE FilterStep
    BY <2>4 DEF FilterStep, KeepBoth, DropLeft, DropRight, NextLeft, FilterEnd,
                Comparing, Filtering, VotesInv
  <2>5. CASE UNCHANGED vars
    <3>1. Cars' = Cars /\ UNCHANGED <<pc, votes>>
      BY <2>5 DEF vars, Cars
    <3> QED
      BY <3>1 DEF VotesInv
  <2> QED
    BY <2>1, <2>2, <2>3, <2>4, <2>5 DEF Next
<1> QED
  BY <1>1, <1>2, PTL DEF Spec

-----------------------------------------------------------------------------
\* The spot's and the box's measures.
LEMMA SpotType ==
    ASSUME NEW s \in DOMAIN ROI
    PROVE  /\ ROI[s].x \in Nat /\ ROI[s].width \in Nat \ {0}
           /\ ROI[s].y \in Nat /\ ROI[s].height \in Nat \ {0}
           /\ Area(ROI[s]) \in Nat
<1>1. /\ ROI[s].x \in Nat /\ ROI[s].width \in Nat \ {0}
      /\ ROI[s].y \in Nat /\ ROI[s].height \in Nat \ {0}
  BY LocalizerAssumption
<1> QED
  BY <1>1, ProductPositive DEF Area

\* What localizer_detect counts of a spot, against what the box covers of it:
\* never less, unless their borders agree, and no more, unless one has the
\* other inside it on some axis.
LEMMA InterIsCover ==
    ASSUME NEW s \in DOMAIN ROI, NEW b \in Boxes
    PROVE  /\ size_inter(roi(b), ROI[s]) \in Nat
           /\ Covered(b, ROI[s]) \in Nat
           /\ roi(b).x # ROI[s].x /\ roi(b).y # ROI[s].y =>
                 Covered(b, ROI[s]) <= size_inter(roi(b), ROI[s])
           /\ size_inter(roi(b), ROI[s]) > 0 =>
                 /\ Covered(b, ROI[s]) > 0
                 /\ \/ Covered(b, ROI[s]) = size_inter(roi(b), ROI[s])
                    \/ Nested(ROI[s].x, ROI[s].width, roi(b).x, roi(b).width)
                    \/ Nested(ROI[s].y, ROI[s].height, roi(b).y, roi(b).height)
<1> DEFINE ex == Extent(ROI[s].x, ROI[s].width, roi(b).x, roi(b).width)
           ey == Extent(ROI[s].y, ROI[s].height, roi(b).y, roi(b).height)
           cx == line_intersection(b.x, <<ROI[s].x, ROI[s].x + ROI[s].width - 1>>)
           cy == line_intersection(b.y, <<ROI[s].y, ROI[s].y + ROI[s].height - 1>>)
           nx == Nested(ROI[s].x, ROI[s].width, roi(b).x, roi(b).width)
           ny == Nested(ROI[s].y, ROI[s].height, roi(b).y, roi(b).height)
<1>1. /\ roi(b).x = b.x[1] /\ roi(b).width = b.x[2] - b.x[1] + 1
      /\ roi(b).y = b.y[1] /\ roi(b).height = b.y[2] - b.y[1] + 1
  BY DEF roi, length
<1>2. /\ b.x = <<b.x[1], b.x[2]>> /\ b.x[1] \in Nat /\ b.x[2] \in Nat
      /\ b.y = <<b.y[1], b.y[2]>> /\ b.y[1] \in Nat /\ b.y[2] \in Nat
      /\ b.x[1] <= b.x[2] /\ b.y[1] <= b.y[2]
  BY BoxType
<1>3. /\ ex \in Nat /\ cx \in Nat
      /\ roi(b).x # ROI[s].x => cx <= ex
      /\ ex > 0 => cx > 0 /\ (cx = ex \/ nx)
  <2>1. LET c == b.x[1]
            d == b.x[2]
            r == ROI[s].x
            rw == ROI[s].width
            cw == d - c + 1
            covered == line_intersection(<<c, d>>, <<r, r + rw - 1>>)
        IN  /\ Extent(r, rw, c, cw) \in Nat
            /\ covered \in Nat
            /\ c # r => covered <= Extent(r, rw, c, cw)
            /\ Extent(r, rw, c, cw) > 0 =>
                  /\ covered > 0
                  /\ covered = Extent(r, rw, c, cw) \/ Nested(r, rw, c, cw)
    BY <1>2, SpotType, ExtentIsCover
  <2> QED
    BY <1>1, <1>2, <2>1
<1>4. /\ ey \in Nat /\ cy \in Nat
      /\ roi(b).y # ROI[s].y => cy <= ey
      /\ ey > 0 => cy > 0 /\ (cy = ey \/ ny)
  <2>1. LET c == b.y[1]
            d == b.y[2]
            r == ROI[s].y
            rw == ROI[s].height
            cw == d - c + 1
            covered == line_intersection(<<c, d>>, <<r, r + rw - 1>>)
        IN  /\ Extent(r, rw, c, cw) \in Nat
            /\ covered \in Nat
            /\ c # r => covered <= Extent(r, rw, c, cw)
            /\ Extent(r, rw, c, cw) > 0 =>
                  /\ covered > 0
                  /\ covered = Extent(r, rw, c, cw) \/ Nested(r, rw, c, cw)
    BY <1>2, SpotType, ExtentIsCover
  <2> QED
    BY <1>1, <1>2, <2>1
<1>5. size_inter(roi(b), ROI[s]) = ex * ey /\ Covered(b, ROI[s]) = cx * cy
  BY DEF size_inter, Covered
<1> HIDE DEF ex, ey, cx, cy, nx, ny
<1>6. ex * ey \in Nat /\ cx * cy \in Nat
  BY <1>3, <1>4, ProductPositive
<1>7. roi(b).x # ROI[s].x /\ roi(b).y # ROI[s].y => cx * cy <= ex * ey
  BY <1>3, <1>4, ProductGrows
<1>8. ex * ey > 0 => cx * cy > 0 /\ (cx * cy = ex * ey \/ nx \/ ny)
  <2> SUFFICES ASSUME ex * ey > 0
               PROVE  cx * cy > 0 /\ (cx * cy = ex * ey \/ nx \/ ny)
    OBVIOUS
  <2>1. ex > 0 /\ ey > 0
    BY <1>3, <1>4, ProductPositive
  <2>2. cx > 0 /\ cy > 0 /\ (cx = ex \/ nx) /\ (cy = ey \/ ny)
    BY <1>3, <1>4, <2>1
  <2>3. cx * cy > 0
    BY <1>3, <1>4, <2>2, ProductPositive
  <2> QED
    BY <2>2, <2>3
<1> QED
  BY <1>5, <1>6, <1>7, <1>8 DEF nx, ny

\* A vehicle that covers most of a spot, of about its size, is seen there,
\* unless a box as strong overlaps it or it shares the spot's left or upper
\* border (localizer_detect after the filters).
THEOREM VehicleIsSeenCorrect == Spec => []VehicleIsSeen
<1>1. ListInv /\ BeatenInv /\ VotesInv => VehicleIsSeen
  <2> SUFFICES ASSUME ListInv, BeatenInv, VotesInv, pc = "voted",
                      NEW s \in DOMAIN ROI \ votes, NEW b \in ToSet(scene),
                      SizeFits(roi(b), ROI[s]),
                      ~(2 * Covered(b, ROI[s]) <= Area(ROI[s])),
                      roi(b).x # ROI[s].x, roi(b).y # ROI[s].y
               PROVE  \E o \in ToSet(scene) \ {b} :
                         Collide(o, b) /\ Stronger(o, b)
    BY DEF VehicleIsSeen
  <2>1. b \in Boxes
    BY DEF ListInv, TypeOK, ToSet
  <2>2. 2 * size_inter(roi(b), ROI[s]) > Area(ROI[s])
    BY <2>1, InterIsCover, SpotType
  <2>3. ~localizer_detect(Cars, ROI[s])
    BY DEF VotesInv
  <2>4. roi(b) \notin Cars
    BY <2>2, <2>3 DEF localizer_detect
  <2>5. b \notin ToSet(boxes)
    BY <2>4 DEF Cars
  <2> QED
    BY <2>5 DEF BeatenInv, RemovedWasBeaten
<1> QED
  BY <1>1, ListCorrect, BeatenCorrect, VotesCorrect, PTL

\* A spot found occupied has a vehicle in it (localizer_detect, xline, yline).
THEOREM VoteIsDeservedCorrect == Spec => []VoteIsDeserved
<1>1. ListInv /\ BeatenInv /\ VotesInv => VoteIsDeserved
  <2> SUFFICES ASSUME ListInv, BeatenInv, VotesInv, NEW s \in votes
               PROVE  \E b \in ToSet(scene) :
                         /\ Covered(b, ROI[s]) > 0
                         /\ \/ 2 * Covered(b, ROI[s]) > Area(ROI[s])
                            \/ Nested(ROI[s].x, ROI[s].width,
                                      roi(b).x, roi(b).width)
                            \/ Nested(ROI[s].y, ROI[s].height,
                                      roi(b).y, roi(b).height)
    BY DEF VoteIsDeserved
  <2>1. s \in DOMAIN ROI /\ localizer_detect(Cars, ROI[s])
    BY DEF VotesInv
  <2>2. PICK b \in ToSet(boxes) :
           2 * size_inter(roi(b), ROI[s]) > Area(ROI[s])
    BY <2>1 DEF localizer_detect, Cars
  <2>3. b \in ToSet(scene) /\ b \in Boxes
    <3>1. b \in ToSet(scene)
      BY <2>2 DEF BeatenInv
    <3>2. scene \in Seq(Boxes)
      BY DEF ListInv, TypeOK
    <3> QED
      BY <3>1, <3>2 DEF ToSet
  <2>4. size_inter(roi(b), ROI[s]) > 0
    BY <2>1, <2>2, <2>3, InterIsCover, SpotType
  <2>5. /\ Covered(b, ROI[s]) > 0
        /\ \/ Covered(b, ROI[s]) = size_inter(roi(b), ROI[s])
           \/ Nested(ROI[s].x, ROI[s].width, roi(b).x, roi(b).width)
           \/ Nested(ROI[s].y, ROI[s].height, roi(b).y, roi(b).height)
    BY <2>1, <2>3, <2>4, InterIsCover
  <2> QED
    BY <2>2, <2>3, <2>5
<1> QED
  BY <1>1, ListCorrect, BeatenCorrect, VotesCorrect, PTL
=============================================================================
