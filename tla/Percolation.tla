---------------------------- MODULE Percolation -----------------------------
(***************************************************************************)
(* PA1/percolation/Percolation.java: a grid whose open sites are joined in *)
(* two union-find structures, one with a virtual site at the top and one   *)
(* at the bottom, the other without the bottom, so that a site that hangs  *)
(* from the bottom only is not taken for full.                             *)
(***************************************************************************)
EXTENDS Naturals

CONSTANT Sizes  \* the sizes of the grids to look at

VARIABLES size,
          grid,  \* the open sites
          uf,    \* partition of the sites, the virtual top and the virtual bottom
          bwuf   \* partition of the sites and the virtual top

vars == <<size, grid, uf, bwuf>>

xyTo1D(i, j) == (i - 1) * size + j - 1
virtualTop == size * size
virtualBottom == size * size + 1

\* WeightedQuickUnionUF.
Singletons(n) == {{s} : s \in 0..(n - 1)}
Connected(p, s, t) == \E class \in p : {s, t} \subseteq class

\* A partition after the unions of s with each site of a set.
UnionAll(p, s, sites) == LET joined == {class \in p : s \in class \/ class \cap sites # {}}
                         IN (p \ joined) \cup {UNION joined}

Row(n, i) == {(i - 1) * n + j - 1 : j \in 1..n}

\* The constructor: the first row hangs from the top, the last one from the
\* bottom, open or not.
Init == \E n \in Sizes :
          /\ size = n
          /\ grid = {}
          /\ uf = UnionAll(UnionAll(Singletons(n * n + 2), n * n, Row(n, 1)),
                           n * n + 1, Row(n, n))
          /\ bwuf = UnionAll(Singletons(n * n + 1), n * n, Row(n, 1))

\* isConnectedNeighbour, on all four sides.
Neighbours(i, j) == {s \in (1..size) \X (1..size) :
                       \/ s[1] = i /\ (s[2] = j + 1 \/ s[2] + 1 = j)
                       \/ s[2] = j /\ (s[1] = i + 1 \/ s[1] + 1 = i)}
OpenNeighbours(i, j) == {xyTo1D(s[1], s[2]) : s \in Neighbours(i, j) \cap grid}

\* open(i, j), of a site that is already open as well.
Open(i, j) == /\ grid' = grid \cup {<<i, j>>}
              /\ uf' = UnionAll(uf, xyTo1D(i, j), OpenNeighbours(i, j))
              /\ bwuf' = UnionAll(bwuf, xyTo1D(i, j), OpenNeighbours(i, j))
              /\ UNCHANGED size

IsOpen(i, j) == <<i, j>> \in grid

\* Mutant of IsFull: asked of the structure with the virtual bottom.
IsFullByUf(i, j) == IsOpen(i, j) /\ Connected(uf, xyTo1D(i, j), virtualTop)

IsFull(i, j) == IsOpen(i, j) /\ Connected(bwuf, xyTo1D(i, j), virtualTop)

\* Mutant of Percolates: the grid of one site is not treated apart.
PercolatesAtOnce == Connected(uf, virtualTop, virtualBottom)

Percolates == /\ ~(size = 1 /\ ~IsOpen(1, 1))
              /\ Connected(uf, virtualTop, virtualBottom)

Next == \E i, j \in 1..size : Open(i, j)

Spec == Init /\ [][Next]_vars

-----------------------------------------------------------------------------
TypeOK == /\ size \in Sizes
          /\ grid \subseteq (1..size) \X (1..size)
          /\ UNION uf = 0..virtualBottom
          /\ UNION bwuf = 0..virtualTop
          /\ \A p \in {uf, bwuf} : \A c, d \in p : c = d \/ c \cap d = {}

\* The open sites that an open path joins to the first row: those in every set that
\* has the open sites of that row and, with a site, its open neighbours.
HoldsWater(w) == \A s \in grid : (s[1] = 1 \/ Neighbours(s[1], s[2]) \cap w # {}) => s \in w
Wet == {s \in grid : \A w \in SUBSET grid : HoldsWater(w) => s \in w}

\* A site is full exactly if an open path leads to it from the first row, in
\* whichever order the sites have been opened, and when the grid already
\* percolates elsewhere.
FullIsWet == LET wet == Wet
             IN \A i, j \in 1..size : IsFull(i, j) <=> <<i, j>> \in wet

\* The grid percolates exactly if such a path reaches the last row.
PercolatesByPath == Percolates <=> \E s \in Wet : s[1] = size
=============================================================================
