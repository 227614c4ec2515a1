------------------------------- MODULE Solver -------------------------------
(***************************************************************************)
(* PA4/8puzzle/Board.java and Solver.java: A* on a board and a twin of it  *)
(* in one priority queue, with the Hamming and Manhattan distances of a    *)
(* board computed from those of the board it was reached from.             *)
(*                                                                         *)
(* A board is the sequence of its tiles, row by row, with 0 for the empty  *)
(* square; a search node is the boards from its root to it, with the       *)
(* distances of the last one.  Nodes of equal priority leave the queue in  *)
(* any order.                                                              *)
(***************************************************************************)
EXTENDS Integers, Sequences, FiniteSets, FiniteSetsExt, SequencesExt

CONSTANTS Dim,     \* the dimension of the boards
          Within   \* bound: boards at most so many moves from a root of the search

VARIABLES initial,
          queue,    \* the nodes in the priority queue
          next,     \* the node that has been taken out of it
          verdict   \* "searching", or whether the board is "solvable"

vars == <<initial, queue, next, verdict>>

Squares == 1..(Dim * Dim)
RowOf(s) == (s - 1) \div Dim
ColOf(s) == (s - 1) % Dim
Diff(a, b) == IF a > b THEN a - b ELSE b - a
Distance(s, t) == Diff(RowOf(s), RowOf(t)) + Diff(ColOf(s), ColOf(t))

EmptySquare(board) == CHOOSE s \in Squares : board[s] = 0
Goal == [s \in Squares |-> IF s = Dim * Dim THEN 0 ELSE s]

\* exchange(): the tiles of two squares change places.
Exchanged(board, s, t) == [board EXCEPT ![s] = board[t], ![t] = board[s]]

\* The distances as the public constructor counts them.
Misplaced(board) == {s \in Squares : board[s] \notin {0, s}}
Hamming(board) == Cardinality(Misplaced(board))
Manhattan(board) == MapThenSumSet(LAMBDA s : Distance(s, board[s]), Misplaced(board))

Node(path) == [path |-> path,
               hamming |-> Hamming(Last(path)), manhattan |-> Manhattan(Last(path))]

\* twin(): two tiles next to each other in a row that is drawn change places, or
\* those above or below them, if one of them is the empty square.
Twins(board) ==
  {LET beside == IF ColOf(s) < Dim - 1 THEN s + 1 ELSE s - 1
       row == IF 0 \notin {board[s], board[beside]} THEN 0
              ELSE IF RowOf(s) > 0 THEN 0 - Dim ELSE Dim
   IN Exchanged(board, s + row, beside + row) : s \in Squares}

\* The boards one move away from a board.
Neighbours(board) == {Exchanged(board, EmptySquare(board), s) :
                        s \in {t \in Squares : Distance(t, EmptySquare(board)) = 1}}

\* The boards that some moves lead to from a set of boards, by number of moves.
Levels(boards) ==
  LET level[k \in 0..Within] ==
        IF k = 0 THEN boards
        ELSE LET before == level[k - 1]
             IN before \cup UNION {Neighbours(b) : b \in before}
  IN level

\* Boards near the goal, or near a twin of the goal, which has no solution.
Initials == Levels({Goal})[Within] \cup Levels(Twins(Goal))[Within]

\* The private constructor, for the board after tile t has gone from square z to
\* square s: only that tile's part of the distances changes.
ChangedHamming(hamming, t, s, z) == IF z = t THEN hamming + 1
                                    ELSE IF s = t THEN hamming - 1
                                    ELSE hamming

\* Mutant of ChangedManhattan: the code that is commented out in Board.java, one
\* off when a tile leaves or reaches its square and nothing otherwise.
OneOff(manhattan, t, s, z) == ChangedHamming(manhattan, t, s, z)

ChangedManhattan(manhattan, t, s, z) == manhattan - Distance(z, t) + Distance(s, t)

\* The nodes that a node is expanded to: all neighbours but the board before it.
Successors(node) ==
  LET board == Last(node.path)
      s == EmptySquare(board)
      before == IF Len(node.path) = 1 THEN <<>> ELSE node.path[Len(node.path) - 1]
  IN {[path |-> Append(node.path, Exchanged(board, s, z)),
       hamming |-> ChangedHamming(node.hamming, board[z], s, z),
       manhattan |-> ChangedManhattan(node.manhattan, board[z], s, z)] :
        z \in {t \in Squares : Distance(t, s) = 1 /\ Exchanged(board, s, t) # before}}

Priority(node) == node.manhattan + Len(node.path) - 1

\* delMin().
DelMin(nodes) == /\ next' \in {n \in nodes : \A m \in nodes : Priority(n) <= Priority(m)}
                 /\ queue' = nodes \ {next'}

\* Mutant of Roots: the board is searched alone.
NoTwin(board, twin) == {Node(<<board>>)}

Roots(board, twin) == {Node(<<board>>), Node(<<twin>>)}

\* The constructor, up to the first delMin().
Init == /\ initial \in Initials
        /\ \E twin \in Twins(initial) : \E first \in Roots(initial, twin) :
             /\ \A root \in Roots(initial, twin) : Priority(first) <= Priority(root)
             /\ next = first
             /\ queue = Roots(initial, twin) \ {first}
        /\ verdict = "searching"

Expand == /\ verdict = "searching"
          /\ next.hamming # 0
          /\ DelMin(queue \cup Successors(next))
          /\ UNCHANGED <<initial, verdict>>

\* Mutant of RootOf: a solution of the twin is taken for one.
GoalOf(node) == initial

\* The board at the end of the way back.
RootOf(node) == Head(node.path)

Finish == /\ verdict = "searching"
          /\ next.hamming = 0
          /\ verdict' = IF RootOf(next) = initial THEN "solvable" ELSE "unsolvable"
          /\ UNCHANGED <<initial, queue, next>>

Next == Expand \/ Finish

Spec == Init /\ [][Next]_vars

-----------------------------------------------------------------------------
IsNode(n) == /\ n.path # <<>>
             /\ \A i \in DOMAIN n.path : ToSet(n.path[i]) = 0..(Dim * Dim - 1)
             /\ {n.hamming, n.manhattan} \subseteq Nat

TypeOK == /\ initial \in Initials
          /\ \A n \in queue \cup {next} : IsNode(n)
          /\ verdict \in {"searching", "solvable", "unsolvable"}

\* The distances carried along every path, tile by tile, are those of the board.
DistancesRight ==
  \A n \in queue \cup {next} : /\ n.hamming = Hamming(Last(n.path))
                               /\ n.manhattan = Manhattan(Last(n.path))

\* A board has a solution exactly if it can be reached from the goal, and what is
\* found is a shortest one: no node that leaves the queue before the goal, on
\* either side, makes it longer.
ShortestFound ==
  /\ verdict = "unsolvable" => initial \notin Levels({Goal})[Within]
  /\ verdict = "solvable" =>
       LET moves == Len(next.path) - 1
       IN /\ initial \in Levels({Goal})[moves]
          /\ moves > 0 => initial \notin Levels({Goal})[moves - 1]

\* The search ends for every board: one of the board and its twin has a solution,
\* and no node that is taken out of the queue is worse than the shortest one.
NoDetour == \E node \in queue \cup {next}, shortest \in 0..Within :
              /\ RootOf(node) \in Levels({Goal})[shortest]
              /\ shortest > 0 => RootOf(node) \notin Levels({Goal})[shortest - 1]
              /\ Priority(next) <= shortest
=============================================================================
