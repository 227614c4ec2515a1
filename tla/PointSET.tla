------------------------------ MODULE PointSET ------------------------------
(***************************************************************************)
(* PA5/kdtree/PointSET.java: a set of points that answers every query by   *)
(* looking at all of them.                                                 *)
(***************************************************************************)
EXTENDS Integers

CONSTANT Side  \* points have coordinates in 0..Side

VARIABLES data,
          answer  \* what has just been asked, and the points that have been returned

Points == (0..Side) \X (0..Side)

\* RectHV: <<xmin, ymin, xmax, ymax>>.
Rectangles == {r \in (0..Side) \X (0..Side) \X (0..Side) \X (0..Side) :
                 r[1] <= r[3] /\ r[2] <= r[4]}
Contains(rect, p) == p[1] \in rect[1]..rect[3] /\ p[2] \in rect[2]..rect[4]

DistanceSquared(p, q) == (p[1] - q[1]) * (p[1] - q[1]) + (p[2] - q[2]) * (p[2] - q[2])

NoAnswer == [asks |-> "nothing"]

Insert(p) == data' = data \cup {p} /\ UNCHANGED answer

\* The caller has taken the answer.
Taken == answer' = NoAnswer /\ UNCHANGED data

Range(rect) == /\ answer' = [asks |-> "range", of |-> rect,
                              found |-> {p \in data : Contains(rect, p)}]
               /\ UNCHANGED data

\* Of several points at the least distance, any.
Nearest(p) == /\ data # {}
              /\ \E q \in data :
                   /\ \A r \in data : DistanceSquared(p, q) <= DistanceSquared(p, r)
                   /\ answer' = [asks |-> "nearest", of |-> p, found |-> {q}]
              /\ UNCHANGED data

Init == data = {} /\ answer = NoAnswer
Next == \/ \E p \in Points : Insert(p) \/ Nearest(p)
        \/ \E rect \in Rectangles : Range(rect)
        \/ Taken
Spec == Init /\ [][Next]_<<data, answer>>
=============================================================================
