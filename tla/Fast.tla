-------------------------------- MODULE Fast --------------------------------
(***************************************************************************)
(* PA3/collinear/Fast.java: every point sorts those after it by slope; a   *)
(* line is a run of equal slopes, and its points keep the slope so that    *)
(* none of them finds a part of the line again.  The order of points and   *)
(* the slopes between them are Point.java's.                               *)
(***************************************************************************)
EXTENDS Integers, Sequences, FiniteSets, SequencesExt

CONSTANTS Points,
          MaxN    \* bound: points in the input

VARIABLES arr,
          index,   \* the point whose turn it is
          slopes,  \* slopes[p]: the slopes of the lines through p that have been found
          printed  \* the lines, in the order in which they are plotted

vars == <<arr, index, slopes, printed>>

-----------------------------------------------------------------------------
\* Points, slopes and lines.
Abs(k) == IF k < 0 THEN -k ELSE k
Gcd(a, b) == CHOOSE d \in 1..(a + b) :
               /\ a % d = 0 /\ b % d = 0
               /\ \A e \in (d + 1)..(a + b) : a % e # 0 \/ b % e # 0

\* slopeTo: dy/dx in lowest terms, with 1/0 for a vertical line and -1/0 for the
\* slope of a point to itself.
Slope(p, q) ==
  LET dx == q[1] - p[1]
      dy == q[2] - p[2]
      g == Gcd(Abs(dx), Abs(dy))
  IN CASE p = q             -> <<-1, 0>>
       [] p # q /\ dx = 0   -> <<1, 0>>
       [] dx > 0            -> <<dy \div g, dx \div g>>
       [] dx < 0            -> <<(-dy) \div g, (-dx) \div g>>

SteeperThan(s, t) == IF s[2] = 0 /\ t[2] = 0 THEN s[1] > t[1] ELSE s[1] * t[2] > t[1] * s[2]

\* compareTo < 0: by y, and by x in a row.
Before(p, q) == p[2] < q[2] \/ (p[2] = q[2] /\ p[1] < q[1])

\* The members of a set in order.
Ranked(set, Less(_, _)) ==
  [k \in 1..Cardinality(set) |->
     CHOOSE x \in set : Cardinality({y \in set : Less(y, x)}) = k - 1]
Sorted(points) == Ranked(points, Before)

\* All points of a set that are on the line of two of them.
LineThrough(points, p, q) == {p, q} \cup {r \in points \ {p, q} : Slope(p, r) = Slope(p, q)}

\* The lines of at least four points.
Lines(points) == {line \in {LineThrough(points, s[1], s[2]) :
                              s \in {t \in points \X points : t[1] # t[2]}} :
                    Cardinality(line) >= 4}

-----------------------------------------------------------------------------
\* main(), for an input of at least four points, up to the sort.
Init == /\ \E s \in SUBSET Points : Cardinality(s) \in 4..MaxN /\ arr = Sorted(s)
        /\ index = 1
        /\ slopes = [p \in ToSet(arr) |-> {}]
        /\ printed = <<>>

n == arr[index]

\* The points that are left, by slope to n; the sort is stable.
BySlope ==
  LET FlatterFirst(i, j) == \/ SteeperThan(Slope(n, arr[j]), Slope(n, arr[i]))
                            \/ Slope(n, arr[i]) = Slope(n, arr[j]) /\ i < j
      order == Ranked(index..Len(arr), FlatterFirst)
  IN [k \in DOMAIN order |-> arr[order[k]]]

\* Mutant of Known: no slope is remembered.
KnownNever(p) == FALSE

\* The points that the array loses: n has found their line before.
Known(p) == Slope(n, p) \in slopes[n]

\* The runs of equal slopes in an array that are long enough.
Runs(sub) ==
  {r \in (DOMAIN sub) \X (DOMAIN sub) :
     LET Same(j) == ~Known(sub[j]) /\ Slope(n, sub[j]) = Slope(n, sub[r[1]])
     IN /\ r[2] >= r[1] + 2
        /\ \A j \in r[1]..r[2] : Same(j)
        /\ r[1] - 1 \in DOMAIN sub => ~Same(r[1] - 1)
        /\ r[2] + 1 \in DOMAIN sub => ~Same(r[2] + 1)}

\* One round of the loop of collinear(), with the calls of plot(), which marks the
\* points of a run with its slope.
Search ==
  /\ index <= Len(arr)
  /\ LET sub == BySlope
         runs == Ranked(Runs(sub), LAMBDA r, s : r[1] < s[1])
     IN /\ printed' = printed \o [k \in DOMAIN runs |->
                                    <<n>> \o SubSeq(sub, runs[k][1], runs[k][2])]
        /\ slopes' = [p \in ToSet(arr) |->
                        IF \E r \in Runs(sub) : \E j \in r[1]..r[2] : sub[j] = p
                        THEN slopes[p] \cup {Slope(n, p)} ELSE slopes[p]]
  /\ index' = index + 1
  /\ UNCHANGED arr

Spec == Init /\ [][Search]_vars

-----------------------------------------------------------------------------
TypeOK == /\ index \in 1..(Len(arr) + 1)
          /\ ToSet(arr) \subseteq Points
          /\ slopes \in [ToSet(arr) -> SUBSET (Int \X Int)]
          /\ \A k \in DOMAIN printed : ToSet(printed[k]) \subseteq ToSet(arr)

\* Every line of four or more points is printed once and whole, and no part of
\* it ever, although each of its points comes to look for lines.
LinesOnce ==
  LET found == [k \in DOMAIN printed |-> ToSet(printed[k])]
  IN /\ IsInjective(found)
     /\ ToSet(found) \subseteq Lines(ToSet(arr))
     /\ index > Len(arr) => ToSet(found) = Lines(ToSet(arr))
=============================================================================
