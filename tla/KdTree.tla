------------------------------- MODULE KdTree -------------------------------
(***************************************************************************)
(* PA5/kdtree/KdTree.java: points in a binary tree that splits by x and by *)
(* y in turn.  A query visits nodes breadth first and leaves out those     *)
(* whose rectangle shows that they cannot matter.  A node is known by its  *)
(* point; coordinates are multiples of 1/Side in the unit square.          *)
(***************************************************************************)
EXTENDS Integers, Sequences, FiniteSets

CONSTANTS Side,
          MaxPoints  \* bound: points in the tree

VARIABLES root,
          tree,    \* tree[p]: the node of point p
          query    \* the query under way: what it asks, the queue of nodes and what it has found

vars == <<root, tree, query>>

Points == (0..Side) \X (0..Side)
Rectangles == {r \in (0..Side) \X (0..Side) \X (0..Side) \X (0..Side) :
                 r[1] <= r[3] /\ r[2] <= r[4]}
null == <<>>
NoQuery == [asks |-> "nothing"]
count == Cardinality(DOMAIN tree)

Init == /\ root = null
        /\ tree = <<>>
        /\ query = NoQuery

\* compare(p, level) < 0: by x if level is true, by y otherwise.
Right(n, p, level) == IF level THEN n[1] < p[1] ELSE n[2] < p[2]

\* Where the way to point p goes on from node n.
Child(n, p, level) == IF Right(n, p, level) THEN tree[n].right ELSE tree[n].left

\* The nodes on the way to point p, down to its own or to null.
Descent(p) ==
  LET way[k \in 0..count] ==
        IF k = 0 THEN root
        ELSE LET n == way[k - 1]
             IN IF n \in {null, p} THEN n ELSE Child(n, p, k % 2 = 1)
  IN way

\* contains(p).
Has(p) == p # null /\ Descent(p)[count] = p

\* Mutant of ParentLevel: the new node splits the other way than its parent.
OwnLevel(k) == k % 2 = 1

\* Whether the k-th node of a way, from 0, splits by x.
ParentLevel(k) == k % 2 = 0

\* The part of node n's rectangle on point p's side of it.
Part(n, p, level) ==
  CASE level /\ ~Right(n, p, level)  -> [tree[n].rect EXCEPT ![3] = n[1]]
    [] level /\ Right(n, p, level)   -> [tree[n].rect EXCEPT ![1] = n[1]]
    [] ~level /\ ~Right(n, p, level) -> [tree[n].rect EXCEPT ![4] = n[2]]
    [] ~level /\ Right(n, p, level)  -> [tree[n].rect EXCEPT ![2] = n[2]]

\* The tree with a node for p in the rectangle rect, and node n's link to it.
Leaf(rect) == [left |-> null, right |-> null, rect |-> rect]
Hung(n, p, level) ==
  [q \in DOMAIN tree \cup {p} |->
     IF q = p THEN Leaf(Part(n, p, level))
     ELSE IF q # n THEN tree[q]
     ELSE IF Right(n, p, level) THEN [tree[q] EXCEPT !.right = p]
     ELSE [tree[q] EXCEPT !.left = p]]

\* insert(p): nothing happens if the way leads to p.
Insert(p) ==
  /\ query = NoQuery
  /\ count < MaxPoints
  /\ ~Has(p)
  /\ IF root = null
     THEN /\ root' = p
          /\ tree' = [q \in {p} |-> Leaf(<<0, 0, Side, Side>>)]
     ELSE /\ \E k \in 0..(count - 1) :
               /\ Descent(p)[k] # null /\ Descent(p)[k + 1] = null
               /\ tree' = Hung(Descent(p)[k], p, ParentLevel(k))
          /\ UNCHANGED root
  /\ UNCHANGED query

Contains(rect, p) == p[1] \in rect[1]..rect[3] /\ p[2] \in rect[2]..rect[4]
Intersects(r, s) == r[3] >= s[1] /\ r[4] >= s[2] /\ s[3] >= r[1] /\ s[4] >= r[2]

DistanceSquared(p, q) == (p[1] - q[1]) * (p[1] - q[1]) + (p[2] - q[2]) * (p[2] - q[2])

\* RectHV.distanceSquaredTo: the distance to the point of the rectangle that is
\* nearest to p.
Clamp(x, low, high) == IF x < low THEN low ELSE IF x > high THEN high ELSE x
RectDistance(r, p) == DistanceSquared(p, <<Clamp(p[1], r[1], r[3]), Clamp(p[2], r[2], r[4])>>)
Far == 2 * Side * Side + 1  \* Double.MAX_VALUE

\* range(rect) and nearest(p) of a tree that is not empty.
Ask == /\ query = NoQuery
       /\ root # null
       /\ query' \in [asks : {"range"}, of : Rectangles, queue : {<<root>>}, found : {{}}]
                \cup [asks : {"nearest"}, of : Points, queue : {<<root>>}, found : {{}}]
       /\ UNCHANGED <<root, tree>>

\* One round of the loop of range().
VisitInRange ==
  /\ query.asks = "range"
  /\ query.queue # <<>>
  /\ LET n == Head(query.queue)
         Matters(m) == m # null /\ Intersects(query.of, tree[m].rect)
         Link(m) == IF Matters(m) THEN <<m>> ELSE <<>>
     IN query' = [query EXCEPT
                    !.queue = Tail(@) \o Link(tree[n].left) \o Link(tree[n].right),
                    !.found = IF Contains(query.of, n) THEN @ \cup {n} ELSE @]
  /\ UNCHANGED <<root, tree>>

\* dMin, for a result or for none.
Least(p, found) == IF found = {} THEN Far ELSE DistanceSquared(p, CHOOSE q \in found : TRUE)

ChildDistance(m, p) == IF m = null THEN Far ELSE RectDistance(tree[m].rect, p)

\* Mutant of Enqueued: the child farther away is never looked at.
NearerOnly(n, p, dMin) ==
  LET l == tree[n].left
      r == tree[n].right
  IN IF ChildDistance(l, p) < ChildDistance(r, p) THEN <<l>>
     ELSE IF r # null THEN <<r>> ELSE <<>>

\* The children that are looked at, the nearer one first: of two the nearer one
\* in any case, another one if its rectangle is nearer than dMin.
Enqueued(n, p, dMin) ==
  LET l == tree[n].left
      r == tree[n].right
      Near(m) == IF ChildDistance(m, p) < dMin THEN <<m>> ELSE <<>>
  IN IF null \in {l, r} THEN Near(l) \o Near(r)
     ELSE IF ChildDistance(l, p) < ChildDistance(r, p) THEN <<l>> \o Near(r)
     ELSE <<r>> \o Near(l)

\* One round of the loop of breadth().
VisitNearest ==
  /\ query.asks = "nearest"
  /\ query.queue # <<>>
  /\ LET n == Head(query.queue)
         p == query.of
         found == IF DistanceSquared(p, n) < Least(p, query.found) THEN {n} ELSE query.found
         dMin == Least(p, found)
     IN query' = IF RectDistance(tree[n].rect, p) > Least(p, query.found)
                 THEN [query EXCEPT !.queue = Tail(@)]
                 ELSE [query EXCEPT
                         !.queue = IF dMin = 0 THEN <<>> ELSE Tail(@) \o Enqueued(n, p, dMin),
                         !.found = found]
  /\ UNCHANGED <<root, tree>>

\* The queue is empty: what has been found is returned.
Return == /\ query # NoQuery
          /\ query.queue = <<>>
          /\ query' = NoQuery
          /\ UNCHANGED <<root, tree>>

Next == \/ \E p \in Points : Insert(p)
        \/ Ask \/ VisitInRange \/ VisitNearest \/ Return

Spec == Init /\ [][Next]_vars

-----------------------------------------------------------------------------
TypeOK == /\ root \in DOMAIN tree \cup {null}
          /\ DOMAIN tree \subseteq Points
          /\ \A p \in DOMAIN tree : /\ {tree[p].left, tree[p].right} \subseteq DOMAIN tree \cup {null}
                                    /\ tree[p].rect \in Rectangles
          /\ query # NoQuery => query.found \subseteq DOMAIN tree

\* The points of the subtree of node n.
Subtree(n) ==
  LET upTo[k \in 0..count] ==
        IF k = 0 THEN {n}
        ELSE LET above == upTo[k - 1]
             IN above \cup UNION {{tree[m].left, tree[m].right} : m \in above \ {null}}
  IN upTo[count] \ {null}

\* What makes it right to leave a node out: all points below it are in its
\* rectangle, equal coordinates on dividing lines included.
RectsEnclose == \A n \in DOMAIN tree : \A p \in Subtree(n) : Contains(tree[n].rect, p)

\* The tree is the set of its points, found by contains(), and every query
\* returns what the set that looks at all of its points would return.
Answer == IF query # NoQuery /\ query.queue = <<>>
          THEN [asks |-> query.asks, of |-> query.of, found |-> query.found]
          ELSE NoQuery
PointSet == INSTANCE PointSET WITH data <- {p \in Points : Has(p)}, answer <- Answer
ImplementsPointSET == PointSet!Spec
=============================================================================
