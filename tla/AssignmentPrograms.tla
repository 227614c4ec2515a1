------------------------- MODULE AssignmentPrograms -------------------------
(***************************************************************************)
(* The data structures and searches of the algorithms course, and the heap *)
(* of an interview assignment, each against what it promises.  They are    *)
(* sequential; what is explored is every sequence of calls within bounds.  *)
(* Init picks a program, whose steps are then the only ones; the variables *)
(* are that program's, under names they share, and 0 where it has none.    *)
(***************************************************************************)
EXTENDS Naturals

CONSTANTS Items, MaxNodes,                            \* deque
          initialCapacity, MaxCount,                  \* randomized queue
          Sizes,                                      \* percolation
          TopN, Amounts, Customers, MaxTransactions,  \* top transactions
          Dim, Within,                                \* 8 puzzle
          Side, MaxPoints,                            \* kd-tree
          MaxN                                        \* collinear points

ASSUME AssignmentAssumption ==
  /\ {"null", "none"} \cap Items = {}
  /\ initialCapacity \in Nat \ {0} /\ {MaxNodes, MaxCount} \subseteq Nat
  /\ Sizes \subseteq Nat
  /\ TopN \in Nat \ {0} /\ Amounts \subseteq Nat
  /\ {Dim, Side, MaxN} \subseteq Nat \ {0, 1} /\ {Within, MaxPoints} \subseteq Nat

VARIABLES program,  \* the program that runs
          data,     \* what it keeps: nodes, an array, the open sites...
          first, last,
          size,
          cursor,   \* where it is
          pending,  \* what it has still to come back to
          result

vars == <<program, data, first, last, size, cursor, pending, result>>

\* Three lines of four and five points that meet.
CollinearPoints == ((0..4) \X {0}) \cup ({0} \X (1..3)) \cup {<<2, 1>>, <<1, 2>>}

ADeque  == INSTANCE Deque WITH nodes <- data, begin <- first, end <- last, N <- size,
                               current <- cursor, owed <- pending
AQueue  == INSTANCE RandomizedQueue WITH array <- data, lastIndex <- last, count <- size,
                                         emptySites <- pending
AGrid   == INSTANCE Percolation WITH grid <- data, uf <- first, bwuf <- last
ATop    == INSTANCE TopTransactions WITH topN <- data, pq <- pending, history <- result
ASolver == INSTANCE Solver WITH initial <- first, queue <- pending, next <- cursor,
                                verdict <- result
ATree   == INSTANCE KdTree WITH tree <- data, root <- first, query <- cursor
AFast   == INSTANCE Fast WITH arr <- data, index <- cursor, slopes <- pending,
                              printed <- result, Points <- CollinearPoints

Init == \/ program = "deque" /\ ADeque!Init
        \/ program = "randomizedQueue" /\ AQueue!Init /\ first = 0 /\ cursor = 0
        \/ program = "percolation" /\ AGrid!Init /\ cursor = 0 /\ pending = 0 /\ result = 0
        \/ program = "topTransactions" /\ ATop!Init
             /\ first = 0 /\ last = 0 /\ cursor = 0
        \/ program = "solver" /\ ASolver!Init /\ data = 0 /\ last = 0 /\ size = 0
        \/ program = "kdTree" /\ ATree!Init
             /\ last = 0 /\ size = 0 /\ pending = 0 /\ result = 0
        \/ program = "fast" /\ AFast!Init /\ first = 0 /\ last = 0 /\ size = 0

Next == /\ \/ program = "deque" /\ ADeque!Next
           \/ program = "randomizedQueue" /\ AQueue!Next /\ UNCHANGED <<first, cursor>>
           \/ program = "percolation" /\ AGrid!Next /\ UNCHANGED <<cursor, pending, result>>
           \/ program = "topTransactions" /\ ATop!Next /\ UNCHANGED <<first, last, cursor>>
           \/ program = "solver" /\ ASolver!Next /\ UNCHANGED <<data, last, size>>
           \/ program = "kdTree" /\ ATree!Next /\ UNCHANGED <<last, size, pending, result>>
           \/ program = "fast" /\ AFast!Search /\ UNCHANGED <<first, last, size>>
        /\ UNCHANGED program

Spec == Init /\ [][Next]_vars

-----------------------------------------------------------------------------
\* Every program stays within its types: no index leaves its array and no link
\* its list, and the rectangle of a node of the kd-tree has all points below it.
TypeOK == \/ program = "deque" /\ ADeque!TypeOK
          \/ program = "randomizedQueue" /\ AQueue!TypeOK
          \/ program = "percolation" /\ AGrid!TypeOK
          \/ program = "topTransactions" /\ ATop!TypeOK
          \/ program = "solver" /\ ASolver!TypeOK
          \/ program = "kdTree" /\ ATree!TypeOK /\ ATree!RectsEnclose
          \/ program = "fast" /\ AFast!TypeOK

\* Deque: read from either end the list is the same, and an iterator misses nothing
\* that has been there all the time, even if the node it is on has been removed.
NothingSkipped == program = "deque" => ADeque!LinksMirror /\ ADeque!NothingSkipped

\* Deque: it is a sequence of items.
ADequeOrEmpty == INSTANCE ItemSequence
                   WITH items <- IF program = "deque" THEN ADeque!Contents ELSE <<>>,
                        result <- IF program = "deque" THEN result ELSE "none"
ImplementsSequence == ADequeOrEmpty!Spec

\* Randomized queue: the holes, the count and the array agree after every
\* sequence of calls, compactions and growth included.
SitesAgree == program = "randomizedQueue" => AQueue!SitesAgree

\* Percolation: a site is full exactly if an open path leads to it from the top, and
\* the grid percolates exactly if such a path reaches the bottom.
FullIsWet == program = "percolation" => AGrid!FullIsWet /\ AGrid!PercolatesByPath

\* Top transactions: the amounts kept are the largest of all that have come, with
\* all their transactions, and the heap and the map have the same ones.
LargestKept == program = "topTransactions" => ATop!LargestKept /\ ATop!KeysAgree

\* 8 puzzle: the distances computed move by move are those of the board.
DistancesRight == program = "solver" => ASolver!DistancesRight

\* 8 puzzle: the verdict is right, a solution is a shortest one, and the search ends,
\* because the board or its twin has a solution and no node is taken out of the
\* queue that is worse than it.
ShortestFound == program = "solver" => ASolver!ShortestFound /\ ASolver!NoDetour

\* Kd-tree: it answers as the set does that looks at all points.
ATreeOrEmpty == INSTANCE PointSET
                  WITH data <- IF program = "kdTree" THEN {p \in ATree!Points : ATree!Has(p)}
                               ELSE {},
                       answer <- IF program = "kdTree" THEN ATree!Answer ELSE ATree!NoQuery
ImplementsPointSET == ATreeOrEmpty!Spec

\* Collinear points, by slopes: every line is printed once and whole.
LinesOnce == program = "fast" => AFast!LinesOnce

=============================================================================
