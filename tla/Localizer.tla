----------------------------- MODULE Localizer -----------------------------
(***************************************************************************)
(* From a frame to the votes of the parking spots: the network's boxes     *)
(* (detector.py, _predict), the two filters that take the weaker of two    *)
(* boxes that overlap (tfutils.py, geo.py), and localizer_detect, which    *)
(* compares what is left with each spot's rectangle.                       *)
(*                                                                         *)
(* Boxes have inclusive borders, as geo.Line.  The confidences are those   *)
(* above the network's threshold of 0.3.                                   *)
(***************************************************************************)
EXTENDS Integers, Sequences, FiniteSets, SequencesExt

CONSTANTS
    ROI,         \* id of a parking spot -> its rectangle
    XLines,      \* horizontal extents of boxes, <<low, high>>
    YLines,      \* vertical extents of boxes
    Confs,       \* confidences
    Faults,      \* what may happen besides, out of AllFaults
    MaxBoxes     \* bound: boxes in a frame

\* python: an import, the model's file or a call fails.
AllFaults == {"python"}

IsLine(l) == l \in Nat \X Nat /\ l[1] <= l[2]

ASSUME LocalizerAssumption ==
    /\ \A s \in DOMAIN ROI : /\ ROI[s] \in [x : Nat, y : Nat, width : Nat, height : Nat]
                             /\ ROI[s].width > 0 /\ ROI[s].height > 0
    /\ \A l \in XLines \cup YLines : IsLine(l)
    /\ Confs \subseteq Nat
    /\ Faults \subseteq AllFaults
    /\ MaxBoxes \in Nat \ {0}

Boxes == [x : XLines, y : YLines, conf : Confs]

VARIABLES
    pc,        \* where the main loop is in updateSpots
    loaded,    \* the Python modules and the detector are there
    scene,     \* history: the network's boxes
    boxes,     \* the boxes being filtered
    left_idx,
    right_idx,
    votes      \* spots found occupied

vars == <<pc, loaded, scene, boxes, left_idx, right_idx, votes>>

TypeOK ==
    /\ pc \in {"load", "detect", "iou", "ios", "vote", "voted", "crashed"}
    /\ loaded \in BOOLEAN
    /\ scene \in Seq(Boxes)
    /\ boxes \in Seq(Boxes)
    /\ left_idx \in 1..MaxBoxes
    /\ right_idx \in 2..(MaxBoxes + 1)
    /\ votes \subseteq DOMAIN ROI

Init ==
    /\ pc = "load"
    /\ loaded = FALSE
    /\ scene = <<>>
    /\ boxes = <<>>
    /\ left_idx = 1
    /\ right_idx = 2
    /\ votes = {}

-----------------------------------------------------------------------------
(***************************************************************************)
(* Geometry (geo.py, boundbox.py).                                         *)
(***************************************************************************)
Least(a, b)    == IF a < b THEN a ELSE b
Greatest(a, b) == IF a < b THEN b ELSE a

length(l) == l[2] - l[1] + 1

\* 0 when the lines do not meet.
line_intersection(l, m) ==
    Greatest(0, Least(l[2], m[2]) - Greatest(l[1], m[1]) + 1)

area(b) == length(b.x) * length(b.y)

rect_intersection(a, b) ==
    line_intersection(a.x, b.x) * line_intersection(a.y, b.y)

\* Intersection over union at least 0.1, and over the smaller box at least
\* 0.3: the thresholds of call_localizer_vehicle.
rect_iou(a, b) ==
    10 * rect_intersection(a, b) >= area(a) + area(b) - rect_intersection(a, b)

rect_ios(a, b) ==
    10 * rect_intersection(a, b) >= 3 * Least(area(a), area(b))

Overlap(a, b) == IF pc = "iou" THEN rect_iou(a, b) ELSE rect_ios(a, b)

\* Mutant: max() for min().
LeftWins(left, right) ==
    IF left.conf = right.conf THEN area(left) > area(right)
                              ELSE left.conf > right.conf

\* Of two boxes that overlap the left one goes: it is less confident, or as
\* confident and not larger.
LeftLoses(left, right) ==
    IF left.conf = right.conf THEN area(left) <= area(right)
                              ELSE left.conf < right.conf

\* Sorted by the left border; boxes with the same one keep their order.
Rank(s, i) ==
    Cardinality({j \in DOMAIN s : \/ s[j].x[1] < s[i].x[1]
                                  \/ s[j].x[1] = s[i].x[1] /\ j <= i})

Sorted(s) ==
    [k \in DOMAIN s |-> s[CHOOSE i \in DOMAIN s : Rank(s, i) = k]]

-----------------------------------------------------------------------------
(***************************************************************************)
(* The start, and the network.                                             *)
(***************************************************************************)

\* create_detector and the modules' imports; a failure is logged, no more.
\* The result of the first inference is not looked at.
create_detector ==
    /\ pc = "load"
    /\ loaded' \in {TRUE} \cup (IF "python" \in Faults THEN {FALSE} ELSE {})
    /\ pc' = "detect"
    /\ UNCHANGED <<scene, boxes, left_idx, right_idx, votes>>

\* The network's boxes come by falling confidence.
Scenes ==
    UNION {{s \in [1..n -> Boxes] :
               \A i \in 2..n : s[i].conf <= s[i - 1].conf} : n \in 0..MaxBoxes}

Detect ==
    /\ pc = "detect"
    /\ loaded
    /\ scene' \in Scenes
    /\ boxes' = Sorted(scene')
    /\ left_idx' = 1
    /\ right_idx' = 2
    /\ pc' = "iou"
    /\ UNCHANGED <<loaded, votes>>

\* call_localizer_Vehicle returns a null pointer, which is parsed.
DetectFails ==
    /\ pc = "detect"
    /\ "python" \in Faults \/ ~loaded
    /\ pc' = "crashed"
    /\ UNCHANGED <<loaded, scene, boxes, left_idx, right_idx, votes>>

-----------------------------------------------------------------------------
(***************************************************************************)
(* filter_bbox_iou, then filter_bbox_ios: two nested loops over the list   *)
(* that they shorten.                                                      *)
(***************************************************************************)
Filtering == pc \in {"iou", "ios"} /\ left_idx < Len(boxes)

Comparing == Filtering /\ right_idx <= Len(boxes)

Left  == boxes[left_idx]
Right == boxes[right_idx]

\* Mutant: `continue' without the increment.
KeepComparing ==
    /\ Comparing
    /\ ~Overlap(Left, Right)
    /\ UNCHANGED vars

KeepBoth ==
    /\ Comparing
    /\ ~Overlap(Left, Right)
    /\ right_idx' = right_idx + 1
    /\ UNCHANGED <<pc, loaded, scene, boxes, left_idx, votes>>

\* The box that moves to the place of the one removed is skipped: the outer
\* loop goes on behind it.
DropLeft ==
    /\ Comparing
    /\ Overlap(Left, Right)
    /\ LeftLoses(Left, Right)
    /\ boxes' = RemoveAt(boxes, left_idx)
    /\ left_idx' = left_idx + 1
    /\ right_idx' = left_idx + 2
    /\ UNCHANGED <<pc, loaded, scene, votes>>

DropRight ==
    /\ Comparing
    /\ Overlap(Left, Right)
    /\ ~LeftLoses(Left, Right)
    /\ boxes' = RemoveAt(boxes, right_idx)
    /\ UNCHANGED <<pc, loaded, scene, left_idx, right_idx, votes>>

\* Mutant: the outer loop goes on where the inner one ended.
NextIsRight ==
    /\ Filtering
    /\ right_idx > Len(boxes)
    /\ left_idx' = right_idx
    /\ right_idx' = left_idx + 2
    /\ UNCHANGED <<pc, loaded, scene, boxes, votes>>

NextLeft ==
    /\ Filtering
    /\ right_idx > Len(boxes)
    /\ left_idx' = left_idx + 1
    /\ right_idx' = left_idx + 2
    /\ UNCHANGED <<pc, loaded, scene, boxes, votes>>

\* The list is sorted again, which changes nothing in it.
FilterEnd ==
    /\ pc \in {"iou", "ios"}
    /\ left_idx >= Len(boxes)
    /\ pc' = IF pc = "iou" THEN "ios" ELSE "vote"
    /\ boxes' = Sorted(boxes)
    /\ left_idx' = 1
    /\ right_idx' = 2
    /\ UNCHANGED <<loaded, scene, votes>>

-----------------------------------------------------------------------------
(***************************************************************************)
(* localizer_detect.                                                       *)
(***************************************************************************)

\* Rect.roi, as a cv::Rect.
roi(b) == [x |-> b.x[1], y |-> b.y[1], width |-> length(b.x), height |-> length(b.y)]

Area(r) == r.width * r.height

\* Between 0.4 and 1.5 times as large as the spot.
SizeFits(car, spot) ==
    4 * Area(spot) <= 10 * Area(car) /\ 10 * Area(car) <= 15 * Area(spot)

\* Mutant: only a car that begins before the spot.
ExtentFromBefore(r, rw, c, cw) ==
    IF c < r /\ r < c + cw THEN c + cw - r ELSE 0

\* xline and yline: the line from c, w long, over the spot's line from r.  The
\* branches for a line inside the other come too late, one of the first two
\* has been taken; with the same origin there is no branch, and the car is
\* left out.
Extent(r, rw, c, cw) ==
    CASE c < r /\ r < c + cw -> c + cw - r
      [] r < c /\ c < r + rw -> r + rw - c
      [] OTHER               -> 0

size_inter(car, spot) ==
    Extent(spot.x, spot.width, car.x, car.width)
        * Extent(spot.y, spot.height, car.y, car.height)

\* Mutant: half of the car, not of the spot.
DetectHalfCar(cars, spot) ==
    \E car \in cars : SizeFits(car, spot) /\ 2 * size_inter(car, spot) > Area(car)

\* The largest intersection counts, so any car that suffices decides.  The car
\* is erased from a copy: the next spot sees it again.
localizer_detect(cars, spot) ==
    \E car \in cars : SizeFits(car, spot) /\ 2 * size_inter(car, spot) > Area(spot)

Cars == {roi(b) : b \in ToSet(boxes)}

Vote ==
    /\ pc = "vote"
    /\ votes' = {s \in DOMAIN ROI : localizer_detect(Cars, ROI[s])}
    /\ pc' = "voted"
    /\ UNCHANGED <<loaded, scene, boxes, left_idx, right_idx>>

\* The votes are given to the spots; the next frame.
NextFrame ==
    /\ pc = "voted"
    /\ pc' = "detect"
    /\ scene' = <<>>
    /\ boxes' = <<>>
    /\ votes' = {}
    /\ UNCHANGED <<loaded, left_idx, right_idx>>

FilterStep ==
    \/ KeepBoth
    \/ DropLeft
    \/ DropRight
    \/ NextLeft
    \/ FilterEnd

Next ==
    \/ create_detector
    \/ Detect
    \/ DetectFails
    \/ FilterStep
    \/ Vote
    \/ NextFrame

Spec == Init /\ [][Next]_vars

\* Python and the main loop go on.
Fairness == WF_vars(FilterStep) /\ WF_vars(Vote)

FairSpec == Spec /\ Fairness

-----------------------------------------------------------------------------
(***************************************************************************)
(* Properties.                                                             *)
(***************************************************************************)
Collide(a, b)  == rect_iou(a, b) \/ rect_ios(a, b)
Stronger(a, b) == \/ a.conf > b.conf
                  \/ a.conf = b.conf /\ area(a) >= area(b)

\* Pixels of the spot that the box covers.
Covered(b, spot) ==
    line_intersection(b.x, <<spot.x, spot.x + spot.width - 1>>)
        * line_intersection(b.y, <<spot.y, spot.y + spot.height - 1>>)

\* One line has the other strictly inside it.
Nested(r, rw, c, cw) ==
    \/ c < r /\ r + rw < c + cw
    \/ r < c /\ c + cw < r + rw

\* The filters, whatever they skip, take a box only for another one of the
\* network that overlaps it and is as strong: no vehicle vanishes alone.
RemovedWasBeaten ==
    \A b \in ToSet(scene) \ ToSet(boxes) :
        \E o \in ToSet(scene) \ {b} : Collide(o, b) /\ Stronger(o, b)

\* A vehicle that covers most of a spot, of about its size, is seen there,
\* unless a box as strong overlaps it or it shares the spot's left or upper
\* border.
VehicleIsSeen ==
    pc = "voted" =>
        \A s \in DOMAIN ROI \ votes, b \in ToSet(scene) :
            \/ ~SizeFits(roi(b), ROI[s])
            \/ 2 * Covered(b, ROI[s]) <= Area(ROI[s])
            \/ roi(b).x = ROI[s].x
            \/ roi(b).y = ROI[s].y
            \/ \E o \in ToSet(scene) \ {b} : Collide(o, b) /\ Stronger(o, b)

\* A spot found occupied has a vehicle in it: one of the boxes covers part of
\* it, and most of it unless one of the two lies inside the other's borders
\* on some axis.
VoteIsDeserved ==
    \A s \in votes :
        \E b \in ToSet(scene) :
            /\ Covered(b, ROI[s]) > 0
            /\ \/ 2 * Covered(b, ROI[s]) > Area(ROI[s])
               \/ Nested(ROI[s].x, ROI[s].width, roi(b).x, roi(b).width)
               \/ Nested(ROI[s].y, ROI[s].height, roi(b).y, roi(b).height)

\* The loops end, though they shorten the list they run over.
FilterEnds == pc = "iou" ~> pc = "voted"
=============================================================================
