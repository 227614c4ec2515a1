---------------------- MODULE AssignmentProgramsProofs ----------------------
(***************************************************************************)
(* What AssignmentPrograms promises of the queue of random items, the heap *)
(* of transactions, the percolation grid, the deque, the distances of the  *)
(* 8 puzzle and the kd-tree, for all sizes of their data, and of the lines *)
(* of the collinear points.  Each program has an inductive invariant of    *)
(* its own, which says nothing of the others; the type invariant of the    *)
(* programs follows from all of them.                                      *)
(***************************************************************************)
EXTENDS AssignmentPrograms, FiniteSetTheorems, SequenceTheorems, WellFoundedInduction, TLAPS

-----------------------------------------------------------------------------
(* Numbers.  The orderings of the library are well founded, which is what  *)
(* induction needs.                                                        *)

\* A set of numbers has a least one.
LEMMA LeastNumber ==
  ASSUME NEW T \in SUBSET Nat, T # {}
  PROVE  \E x \in T : \A y \in T : x <= y
<1> DEFINE Below == {1..x : x \in T}
<1>1. Below # {} /\ Below \subseteq FiniteSubsetsOf(Nat)
  <2>1. ASSUME NEW x \in T PROVE IsFiniteSet(1..x) /\ 1..x \subseteq Nat
    BY FS_Interval
  <2>2. QED
    BY <2>1 DEF FiniteSubsetsOf
<1>2. PICK b \in Below : \A c \in Below : <<c, b>> \notin StrictSubsetOrdering(Nat)
  BY <1>1, FS_StrictSubsetOrderingWellFounded, WFMin
<1>3. PICK x \in T : b = 1..x
  OBVIOUS
<1>4. ASSUME NEW y \in T, y < x PROVE FALSE
  <2>1. 1..y \subseteq 1..x /\ x \in 1..x /\ x \notin 1..y
    BY <1>4
  <2>2. <<1..y, b>> \in StrictSubsetOrdering(Nat)
    BY <1>3, <2>1 DEF StrictSubsetOrdering
  <2>3. QED
    BY <1>2, <2>2
<1>5. QED
  BY <1>4

\* What holds of 0 and passes from n to n + 1 holds of every number.
LEMMA Induction ==
  ASSUME NEW S \in SUBSET Nat, 0 \in S, \A n \in S : n + 1 \in S
  PROVE  S = Nat
<1>1. SUFFICES ASSUME Nat \ S # {} PROVE FALSE
  OBVIOUS
<1>2. PICK x \in Nat \ S : \A y \in Nat \ S : x <= y
  BY <1>1, LeastNumber
<1>3. x - 1 \in S
  BY <1>2
<1>4. QED
  BY <1>2, <1>3

\* In a finite set of numbers, i of them lie below the one of rank i.
LEMMA RankExists ==
  ASSUME NEW S \in SUBSET Nat, IsFiniteSet(S), NEW i \in Nat, i < Cardinality(S)
  PROVE  \E s \in S : Cardinality({r \in S : r < s}) = i
<1> DEFINE Below(s) == {r \in S : r < s}
           Ranked == {k \in Nat : k < Cardinality(S) => \E s \in S : Cardinality(Below(s)) = k}
<1>b. \A s \in S : Below(s) \in SUBSET S /\ \A r \in S : r \in Below(s) <=> r < s
  OBVIOUS
<1> HIDE DEF Below
<1>1. 0 \in Ranked
  <2>1. SUFFICES ASSUME 0 < Cardinality(S) PROVE \E s \in S : Cardinality(Below(s)) = 0
    OBVIOUS
  <2>2. S # {}
    BY <2>1, FS_EmptySet
  <2>3. PICK s \in S : \A r \in S : s <= r
    BY <2>2, LeastNumber
  <2>4. Below(s) = {}
    <3>1. ASSUME NEW r \in Below(s) PROVE FALSE
      <4>1. r \in S /\ r < s /\ s <= r
        BY <1>b, <2>3
      <4>2. QED
        BY <4>1
    <3>2. QED
      BY <3>1
  <2>5. Cardinality({}) = 0
    BY FS_EmptySet
  <2>6. QED
    BY <2>4, <2>5
<1>2. ASSUME NEW k \in Ranked PROVE k + 1 \in Ranked
  <2>1. SUFFICES ASSUME k + 1 < Cardinality(S) PROVE \E s \in S : Cardinality(Below(s)) = k + 1
    OBVIOUS
  <2>2. Cardinality(S) \in Nat
    BY FS_CardinalityType
  <2>3. PICK s \in S : Cardinality(Below(s)) = k
    BY <2>1, <2>2
  <2>4. IsFiniteSet(Below(s)) /\ s \notin Below(s)
    BY <1>b, FS_Subset
  <2>5. Cardinality(Below(s) \cup {s}) = k + 1
    BY <2>3, <2>4, FS_AddElement
  <2>6. Below(s) \cup {s} # S
    BY <2>1, <2>5
  <2>7. S \ (Below(s) \cup {s}) # {}
    BY <1>b, <2>6
  <2>8. PICK u \in S \ (Below(s) \cup {s}) : \A r \in S \ (Below(s) \cup {s}) : u <= r
    BY <2>7, LeastNumber
  <2>9. s < u /\ \A r \in S : r < u <=> r \in Below(s) \cup {s}
    BY <1>b, <2>8
  <2>10. Below(u) = Below(s) \cup {s}
    BY <1>b, <2>9
  <2>11. QED
    BY <2>5, <2>8, <2>10
<1>3. Ranked = Nat
  <2> HIDE DEF Ranked
  <2>1. Ranked \in SUBSET Nat
    BY DEF Ranked
  <2>2. QED
    BY <1>1, <1>2, <2>1, Induction
<1>4. QED
  BY <1>3 DEF Below

-----------------------------------------------------------------------------
(* RandomizedQueue.java: an array with holes.                              *)

Item == Items \cup {AQueue!null}
Sites(e) == {e[k] : k \in 1..Len(e)}
Holes(a, l) == {i \in 0..(l - 1) : a[i] = AQueue!null}
ItemsIn(a, n) == {i \in 0..(n - 1) : a[i] # AQueue!null}

\* SitesAgree and the types, of an array a with n places, the index l, the count
\* c and the list e of holes.
Sane(a, n, l, c, e) ==
  /\ n \in Nat \ {0} /\ a \in [0..(n - 1) -> Item]
  /\ l \in 0..n
  /\ e \in Seq(0..(n - 1))
  /\ Sites(e) = Holes(a, l)
  /\ \A j, k \in 1..Len(e) : e[j] = e[k] => j = k
  /\ \A i \in l..(n - 1) : a[i] = AQueue!null
  /\ c = Cardinality(ItemsIn(a, n))

QueueInv == /\ \E n \in Nat : Sane(data, n, last, size, pending)
            /\ size \in 0..MaxCount
            /\ result \in Items \cup {"none"}

\* The operators of the queue's module are the library's.
LEMMA QueueCounts == \A S : AQueue!Cardinality(S) = Cardinality(S)
BY DEF AQueue!Cardinality, Cardinality

\* The length of an array that is indexed from 0.
LEMMA QueueLength ==
  ASSUME NEW n \in Nat \ {0}, DOMAIN data = 0..(n - 1)
  PROVE  AQueue!length = n
<1>1. Cardinality(0..(n - 1)) = n
  BY FS_Interval
<1>2. QED
  BY <1>1, QueueCounts DEF AQueue!length

\* The array is as long as it has items at least.
LEMMA SaneCount ==
  ASSUME NEW a, NEW n, NEW l, NEW c, NEW e, Sane(a, n, l, c, e)
  PROVE  /\ IsFiniteSet(ItemsIn(a, n)) /\ c \in 0..l
         /\ e = <<>> => c = l
<1>1. IsFiniteSet(0..(l - 1)) /\ Cardinality(0..(l - 1)) = l
  <2>1. l \in Nat
    BY DEF Sane
  <2>2. QED
    BY <2>1, FS_Interval
<1>2. ItemsIn(a, n) \subseteq 0..(l - 1)
  BY DEF Sane, ItemsIn
<1>3. /\ IsFiniteSet(ItemsIn(a, n)) /\ Cardinality(ItemsIn(a, n)) <= l
      /\ Cardinality(ItemsIn(a, n)) \in Nat
  BY <1>1, <1>2, FS_Subset, FS_CardinalityType
<1>4. ASSUME e = <<>> PROVE c = l
  <2>1. Holes(a, l) = {}
    BY <1>4 DEF Sane, Sites
  <2>2. 0..(l - 1) \subseteq ItemsIn(a, n)
    BY <2>1 DEF Sane, Holes, ItemsIn
  <2>3. QED
    BY <1>1, <1>2, <2>2 DEF Sane
<1>5. QED
  BY <1>3, <1>4 DEF Sane

\* dequeue: a hole more.
LEMMA SaneHole ==
  ASSUME NEW a, NEW n, NEW l, NEW c, NEW e, Sane(a, n, l, c, e),
         NEW i \in 0..(l - 1), a[i] # AQueue!null
  PROVE  Sane([a EXCEPT ![i] = AQueue!null], n, l, c - 1, <<i>> \o e)
<1> DEFINE b == [a EXCEPT ![i] = AQueue!null]
           f == <<i>> \o e
<1>1. b \in [0..(n - 1) -> Item] /\ i \in 0..(n - 1)
  BY DEF Sane, Item
<1>2. /\ f \in Seq(0..(n - 1)) /\ Len(f) = Len(e) + 1 /\ Len(e) \in Nat
      /\ f[1] = i /\ \A k \in 1..Len(e) : f[k + 1] = e[k]
      /\ \A k \in 2..Len(f) : f[k] = e[k - 1] /\ k - 1 \in 1..Len(e)
  BY <1>1 DEF Sane
<1>3. i \notin Holes(a, l) /\ Holes(b, l) = Holes(a, l) \cup {i}
  BY <1>1 DEF Sane, Holes
<1> HIDE DEF f
<1>4. Sites(f) = Sites(e) \cup {i}
  <2>1. ASSUME NEW k \in 1..Len(f) PROVE f[k] \in Sites(e) \cup {i}
    <3>1. k = 1 \/ k \in 2..Len(f)
      BY <1>2
    <3>2. QED
      BY <1>2, <3>1 DEF Sites
  <2>2. ASSUME NEW k \in 1..Len(e) PROVE e[k] \in Sites(f)
    <3>1. k + 1 \in 1..Len(f) /\ f[k + 1] = e[k]
      BY <1>2
    <3>2. QED
      BY <3>1 DEF Sites
  <2>3. i \in Sites(f)
    <3>1. 1 \in 1..Len(f)
      BY <1>2
    <3>2. QED
      BY <1>2, <3>1 DEF Sites
  <2>4. QED
    BY <2>1, <2>2, <2>3 DEF Sites
<1>5. \A k \in 1..Len(e) : e[k] # i
  BY <1>3 DEF Sane, Sites
<1>6. ASSUME NEW j \in 1..Len(f), NEW k \in 1..Len(f), f[j] = f[k] PROVE j = k
  <2>1. \A m \in 1..Len(f) : m = 1 \/ m \in 2..Len(f)
    BY <1>2
  <2>2. CASE j = 1
    BY <1>2, <1>5, <1>6, <2>1, <2>2
  <2>3. CASE k = 1
    BY <1>2, <1>5, <1>6, <2>1, <2>3
  <2>4. CASE j \in 2..Len(f) /\ k \in 2..Len(f)
    <3>1. j - 1 \in 1..Len(e) /\ k - 1 \in 1..Len(e) /\ e[j - 1] = e[k - 1]
      BY <1>2, <1>6, <2>4
    <3>2. j - 1 = k - 1
      BY <3>1 DEF Sane
    <3>3. QED
      BY <3>2
  <2>5. QED
    BY <2>1, <2>2, <2>3, <2>4
<1>7. ItemsIn(b, n) = ItemsIn(a, n) \ {i} /\ i \in ItemsIn(a, n)
  BY <1>1 DEF Sane, ItemsIn
<1>8. Cardinality(ItemsIn(b, n)) = c - 1
  <2>1. IsFiniteSet(ItemsIn(a, n))
    BY SaneCount
  <2>2. Cardinality(ItemsIn(a, n)) = c
    BY DEF Sane
  <2>3. QED
    BY <1>7, <2>1, <2>2, FS_RemoveElement
<1>9. \A k \in l..(n - 1) : b[k] = AQueue!null
  BY DEF Sane
<1>10. Sites(f) = Holes(b, l)
  BY <1>3, <1>4 DEF Sane
<1>11. QED
  BY <1>1, <1>2, <1>6, <1>8, <1>9, <1>10 DEF Sane, f

\* enqueue into the latest hole.
LEMMA SaneFill ==
  ASSUME NEW a, NEW n, NEW l, NEW c, NEW e, Sane(a, n, l, c, e), e # <<>>, NEW item \in Items
  PROVE  Sane([a EXCEPT ![Head(e)] = item], n, l, c + 1, Tail(e))
<1> DEFINE i == Head(e)
           b == [a EXCEPT ![i] = item]
           f == Tail(e)
<1>1. /\ Len(e) \in Nat \ {0} /\ i = e[1] /\ i \in 0..(n - 1)
      /\ f \in Seq(0..(n - 1)) /\ Len(f) = Len(e) - 1
      /\ \A k \in 1..Len(f) : f[k] = e[k + 1] /\ k + 1 \in 1..Len(e)
  BY DEF Sane
<1>2. i \in Holes(a, l) /\ i \in 0..(l - 1) /\ a[i] = AQueue!null
  BY <1>1 DEF Sane, Sites, Holes
<1> HIDE DEF i, f
<1>3. item # AQueue!null /\ b \in [0..(n - 1) -> Item]
  BY AssignmentAssumption, <1>1 DEF Sane, Item, AQueue!null
<1>4. Holes(b, l) = Holes(a, l) \ {i}
  BY <1>1, <1>2, <1>3 DEF Sane, Holes
<1>5. Sites(f) = Sites(e) \ {i}
  <2>1. Sites(f) \subseteq Sites(e) \ {i}
    <3>1. ASSUME NEW k \in 1..Len(f) PROVE f[k] \in Sites(e) \ {i}
      <4>1. k + 1 \in 1..Len(e) /\ 1 \in 1..Len(e) /\ f[k] = e[k + 1] /\ k + 1 # 1
        BY <1>1
      <4>2. e[k + 1] # e[1]
        BY <4>1 DEF Sane
      <4>3. QED
        BY <1>1, <4>1, <4>2 DEF Sites
    <3>2. QED
      BY <3>1 DEF Sites
  <2>2. ASSUME NEW k \in 1..Len(e), e[k] # i PROVE e[k] \in Sites(f)
    <3>1. k - 1 \in 1..Len(f) /\ f[k - 1] = e[k]
      BY <1>1, <2>2
    <3>2. QED
      BY <3>1 DEF Sites
  <2>3. QED
    BY <2>1, <2>2 DEF Sites
<1>6. ASSUME NEW j \in 1..Len(f), NEW k \in 1..Len(f), f[j] = f[k] PROVE j = k
  <2>a. j + 1 \in 1..Len(e) /\ k + 1 \in 1..Len(e) /\ e[j + 1] = e[k + 1]
    BY <1>1, <1>6
  <2>1. j + 1 = k + 1
    BY <2>a DEF Sane
  <2>2. QED
    BY <1>1, <2>1
<1>7. ItemsIn(b, n) = ItemsIn(a, n) \cup {i} /\ i \notin ItemsIn(a, n)
  BY <1>1, <1>2, <1>3 DEF Sane, ItemsIn
<1>8. Cardinality(ItemsIn(b, n)) = c + 1
  BY <1>7, SaneCount, FS_AddElement DEF Sane
<1>9. \A k \in l..(n - 1) : b[k] = AQueue!null
  BY <1>2 DEF Sane
<1>10. Sites(f) = Holes(b, l)
  BY <1>4, <1>5 DEF Sane
<1>11. QED
  BY <1>1, <1>3, <1>6, <1>8, <1>9, <1>10 DEF Sane, f, i

\* enqueue behind the last item.
LEMMA SaneAppend ==
  ASSUME NEW a, NEW n, NEW l, NEW c, Sane(a, n, l, c, <<>>), l < n, NEW item \in Items
  PROVE  Sane([a EXCEPT ![l] = item], n, l + 1, c + 1, <<>>)
<1> DEFINE b == [a EXCEPT ![l] = item]
<1>1. l \in 0..(n - 1) /\ item # AQueue!null /\ b \in [0..(n - 1) -> Item]
  BY AssignmentAssumption DEF Sane, Item, AQueue!null
<1>2. Holes(a, l) = {} /\ Sites(<<>>) = {}
  BY DEF Sane, Sites
<1>3. Holes(b, l + 1) = {}
  BY <1>1, <1>2 DEF Sane, Holes
<1>4. ItemsIn(b, n) = ItemsIn(a, n) \cup {l} /\ l \notin ItemsIn(a, n)
  BY <1>1 DEF Sane, ItemsIn
<1>5. Cardinality(ItemsIn(b, n)) = c + 1
  <2>1. IsFiniteSet(ItemsIn(a, n))
    BY SaneCount
  <2>2. Cardinality(ItemsIn(a, n)) = c
    BY DEF Sane
  <2>3. QED
    BY <1>4, <2>1, <2>2, FS_AddElement
<1>6. \A k \in (l + 1)..(n - 1) : b[k] = AQueue!null
  BY <1>1 DEF Sane
<1>7. n \in Nat \ {0} /\ l + 1 \in 0..n /\ <<>> \in Seq(0..(n - 1)) /\ Len(<<>>) = 0
  BY <1>1 DEF Sane
<1> HIDE DEF b
<1>8. QED
  BY <1>1, <1>2, <1>3, <1>5, <1>6, <1>7 DEF Sane, b

\* resize(): the same items in an array of twice the length.
LEMMA SaneGrow ==
  ASSUME NEW a, NEW n, NEW l, NEW c, NEW e, Sane(a, n, l, c, e)
  PROVE  Sane([i \in 0..(2 * n - 1) |-> IF i < n THEN a[i] ELSE AQueue!null], 2 * n, l, c, e)
<1> DEFINE b == [i \in 0..(2 * n - 1) |-> IF i < n THEN a[i] ELSE AQueue!null]
<1>1. n \in Nat \ {0} /\ 2 * n \in Nat \ {0} /\ 0..(n - 1) \subseteq 0..(2 * n - 1) /\ l \in 0..(2 * n)
  BY DEF Sane
<1>2. b \in [0..(2 * n - 1) -> Item]
  BY DEF Sane, Item
<1>3. e \in Seq(0..(2 * n - 1))
  BY <1>1 DEF Sane
<1>4. Holes(b, l) = Holes(a, l)
  BY <1>1 DEF Sane, Holes
<1>5. ItemsIn(b, 2 * n) = ItemsIn(a, n)
  BY <1>1 DEF Sane, ItemsIn
<1>6. \A i \in l..(2 * n - 1) : b[i] = AQueue!null
  BY <1>1 DEF Sane
<1> HIDE DEF b
<1>7. QED
  BY <1>1, <1>2, <1>3, <1>4, <1>5, <1>6 DEF Sane, b

\* compact(): the same items in the first places of an array of half the length.
LEMMA SaneCompact ==
  ASSUME QueueInv, AQueue!TooEmpty
  PROVE  \E n \in Nat : Sane(AQueue!Compacted, n, size, size, <<>>)
<1>1. PICK m \in Nat : Sane(data, m, last, size, pending)
  BY DEF QueueInv
<1> DEFINE n == m \div 2
           S == ItemsIn(data, m)
           pick(i) == CHOOSE s \in S : AQueue!Cardinality({r \in S : r < s}) = i
           a == AQueue!Compacted
<1>2. m \in Nat \ {0} /\ DOMAIN data = 0..(m - 1) /\ AQueue!length = m
  BY <1>1, QueueLength DEF Sane
<1>3. n \in Nat \ {0} /\ size < n
  BY <1>2, AssignmentAssumption DEF AQueue!TooEmpty
<1>4. AQueue!Filled = S
  BY <1>2 DEF AQueue!Filled, ItemsIn
<1>5. a = [i \in 0..(n - 1) |-> IF i < size THEN data[pick(i)] ELSE AQueue!null]
  BY <1>2, <1>4 DEF AQueue!Compacted
<1>6. S \in SUBSET Nat /\ IsFiniteSet(S) /\ Cardinality(S) = size /\ size \in Nat
  BY <1>1, SaneCount DEF Sane, ItemsIn, QueueInv
<1>7. ASSUME NEW i \in 0..(size - 1) PROVE pick(i) \in S
  <2>a. i \in Nat /\ i < Cardinality(S)
    BY <1>6
  <2>1. \E s \in S : Cardinality({r \in S : r < s}) = i
    BY <1>6, <2>a, RankExists, Zenon
  <2>2. \E s \in S : AQueue!Cardinality({r \in S : r < s}) = i
    BY <2>1, QueueCounts
  <2>3. QED
    BY <2>2
<1>8. \A s \in S : data[s] # AQueue!null /\ data[s] \in Item
  BY <1>1 DEF Sane, ItemsIn
<1>9. DOMAIN a = 0..(n - 1) /\ a = [i \in 0..(n - 1) |-> a[i]]
  BY <1>5
<1>10. ASSUME NEW i \in 0..(n - 1) PROVE a[i] \in Item /\ (a[i] # AQueue!null <=> i < size)
  <2>1. a[i] = IF i < size THEN data[pick(i)] ELSE AQueue!null
    BY <1>5
  <2> HIDE DEF a, S, n, pick
  <2>2. CASE i < size
    <3>1. i \in 0..(size - 1)
      BY <1>3, <1>6, <2>2
    <3>2. pick(i) \in S
      BY <1>7, <3>1
    <3>3. QED
      BY <1>8, <2>1, <2>2, <3>2
  <2>3. CASE ~(i < size)
    BY <2>1, <2>3 DEF Item
  <2>4. QED
    BY <2>2, <2>3
<1> HIDE DEF a, n, S, pick
<1>11. ItemsIn(a, n) = 0..(size - 1) /\ Holes(a, size) = {}
  BY <1>3, <1>6, <1>10 DEF ItemsIn, Holes
<1>12. Cardinality(0..(size - 1)) = size
  BY <1>6, FS_Interval
<1>13. <<>> \in Seq(0..(n - 1)) /\ Len(<<>>) = 0 /\ Sites(<<>>) = {}
  BY DEF Sites
<1>14. \A i \in size..(n - 1) : a[i] = AQueue!null
  BY <1>3, <1>6, <1>10
<1>15. a \in [0..(n - 1) -> Item]
  BY <1>9, <1>10
<1>16. Sane(a, n, size, size, <<>>)
  BY <1>3, <1>6, <1>11, <1>12, <1>13, <1>14, <1>15 DEF Sane
<1>17. QED
  BY <1>3, <1>16 DEF a

\* What a draw starts from is sane.
LEMMA SaneDrawn ==
  ASSUME QueueInv
  PROVE  \E n \in Nat : Sane(AQueue!Drawn.array, n, AQueue!Drawn.lastIndex, size, AQueue!Drawn.emptySites)
<1>1. CASE AQueue!TooEmpty
  BY <1>1, SaneCompact DEF AQueue!Drawn, AQueue!NoSites
<1>2. CASE ~AQueue!TooEmpty
  BY <1>2 DEF AQueue!Drawn, QueueInv
<1>3. QED
  BY <1>1, <1>2

\* An empty queue in an array of null is sane.
LEMMA QueueInit == AQueue!Init => QueueInv
<1> SUFFICES ASSUME AQueue!Init PROVE QueueInv
  OBVIOUS
<1> DEFINE n == initialCapacity
<1>1. n \in Nat \ {0} /\ MaxCount \in Nat
  BY AssignmentAssumption
<1>2. data = [i \in 0..(n - 1) |-> AQueue!null] /\ last = 0 /\ size = 0 /\ pending = <<>> /\ result = "none"
  BY DEF AQueue!Init, AQueue!Empty
<1>3. ItemsIn(data, n) = {} /\ Holes(data, 0) = {} /\ Sites(<<>>) = {}
  BY <1>2 DEF ItemsIn, Holes, Sites
<1>4. Cardinality({}) = 0
  BY FS_EmptySet
<1>5. data \in [0..(n - 1) -> Item] /\ \A i \in 0..(n - 1) : data[i] = AQueue!null
  BY <1>2 DEF Item
<1>6. Sane(data, n, 0, 0, <<>>)
  BY <1>1, <1>3, <1>4, <1>5 DEF Sane
<1>7. QED
  BY <1>1, <1>2, <1>6 DEF QueueInv

\* Every step of the randomized queue keeps its invariant.
LEMMA QueueKeepsInv ==
  ASSUME QueueInv, AQueue!Next \/ UNCHANGED <<data, last, size, pending, result>>
  PROVE  QueueInv'
<1>1. PICK n \in Nat : Sane(data, n, last, size, pending)
  BY DEF QueueInv
<1>2. n \in Nat \ {0} /\ DOMAIN data = 0..(n - 1) /\ AQueue!length = n
  BY <1>1, QueueLength DEF Sane
<1>3. size \in 0..MaxCount /\ MaxCount \in Nat /\ result \in Items \cup {"none"}
  BY AssignmentAssumption DEF QueueInv
<1>4. ASSUME NEW item \in Items, AQueue!Enqueue(item)
      PROVE  QueueInv'
  <2>1. size' = size + 1 /\ size' \in 0..MaxCount /\ result' = result
    BY <1>3, <1>4 DEF AQueue!Enqueue
  <2>2. CASE pending # <<>>
    <3>1. data' = [data EXCEPT ![Head(pending)] = item] /\ pending' = Tail(pending) /\ last' = last
      BY <1>4, <2>2 DEF AQueue!Enqueue
    <3>2. Sane(data', n, last', size', pending')
      BY <1>1, <2>1, <2>2, <3>1, SaneFill
    <3>3. QED
      BY <1>3, <2>1, <3>2 DEF QueueInv
  <2>3. CASE pending = <<>>
    <3>1. data' = [AQueue!Resized EXCEPT ![last] = item] /\ pending' = <<>> /\ last' = last + 1
      BY <1>4, <2>3 DEF AQueue!Enqueue
    <3>2. size = last /\ last \in 0..n
      BY <1>1, <2>3, SaneCount DEF Sane
    <3>3. \E m \in Nat : Sane(AQueue!Resized, m, last, size, <<>>) /\ last < m
      <4>1. CASE size = n
        <5>1. AQueue!Resized = [i \in 0..(2 * n - 1) |-> IF i < n THEN data[i] ELSE AQueue!null]
          BY <1>2, <4>1 DEF AQueue!Resized
        <5>2. 2 * n \in Nat /\ last < 2 * n
          BY <1>2, <3>2
        <5>3. QED
          BY <1>1, <2>3, <5>1, <5>2, SaneGrow
      <4>2. CASE size # n
        <5>1. AQueue!Resized = data /\ last < n
          BY <1>2, <3>2, <4>2 DEF AQueue!Resized
        <5>2. QED
          BY <1>1, <2>3, <5>1
      <4>3. QED
        BY <4>1, <4>2
    <3>4. \E m \in Nat : Sane(data', m, last', size', pending')
      BY <2>1, <3>1, <3>3, SaneAppend
    <3>5. QED
      BY <1>3, <2>1, <3>4 DEF QueueInv
  <2>4. QED
    BY <2>2, <2>3
<1>5. ASSUME NEW i, AQueue!Dequeue(i) \/ AQueue!Sample(i), i \in DOMAIN data
      PROVE  QueueInv'
  <2>1. PICK m \in Nat : Sane(AQueue!Drawn.array, m, AQueue!Drawn.lastIndex, size, AQueue!Drawn.emptySites)
    BY SaneDrawn
  <2>2. /\ i \in 0..(AQueue!Drawn.lastIndex - 1) /\ AQueue!Drawn.array[i] # AQueue!null
        /\ AQueue!Drawn.array[i] \in Items
    <3>1. i \in Nat
      BY <1>2, <1>5
    <3>2. AQueue!Drawn.lastIndex \in 0..m /\ AQueue!Drawn.array \in [0..(m - 1) -> Item]
      BY <2>1 DEF Sane
    <3>3. i < AQueue!Drawn.lastIndex /\ AQueue!Drawn.array[i] # AQueue!null
      BY <1>5 DEF AQueue!Dequeue, AQueue!Sample, AQueue!Drawable
    <3>4. QED
      BY <3>1, <3>2, <3>3 DEF Item
  <2>3. CASE AQueue!Dequeue(i)
    <3>1. /\ data' = [AQueue!Drawn.array EXCEPT ![i] = AQueue!null]
          /\ pending' = <<i>> \o AQueue!Drawn.emptySites /\ last' = AQueue!Drawn.lastIndex
          /\ size' = size - 1 /\ size > 0 /\ result' = AQueue!Drawn.array[i]
      BY <2>3 DEF AQueue!Dequeue
    <3>2. Sane(data', m, last', size', pending')
      BY <2>1, <2>2, <3>1, SaneHole
    <3>3. size' \in 0..MaxCount /\ result' \in Items
      BY <1>3, <2>2, <3>1
    <3>4. QED
      BY <3>2, <3>3 DEF QueueInv
  <2>4. CASE AQueue!Sample(i)
    <3>1. /\ data' = AQueue!Drawn.array /\ pending' = AQueue!Drawn.emptySites
          /\ last' = AQueue!Drawn.lastIndex /\ size' = size /\ result' = AQueue!Drawn.array[i]
      BY <2>4 DEF AQueue!Sample
    <3>2. QED
      BY <1>3, <2>1, <2>2, <3>1 DEF QueueInv
  <2>5. QED
    BY <1>5, <2>3, <2>4
<1>6. CASE UNCHANGED <<data, last, size, pending, result>>
  BY <1>6 DEF QueueInv
<1>7. QED
  BY <1>4, <1>5, <1>6 DEF AQueue!Next

\* The invariant is what the queue's module states, in its own words.
LEMMA QueueAgrees == QueueInv => AQueue!TypeOK /\ AQueue!SitesAgree
<1> SUFFICES ASSUME QueueInv PROVE AQueue!TypeOK /\ AQueue!SitesAgree
  OBVIOUS
<1>1. PICK n \in Nat : Sane(data, n, last, size, pending)
  BY DEF QueueInv
<1>2. n \in Nat \ {0} /\ DOMAIN data = 0..(n - 1) /\ AQueue!length = n
  BY <1>1, QueueLength DEF Sane
<1>3. AQueue!TypeOK
  <2>1. /\ data \in [0..(AQueue!length - 1) -> Items \cup {AQueue!null}]
        /\ last \in 0..AQueue!length
    BY <1>1, <1>2 DEF Sane, Item
  <2>2. pending \in Seq(DOMAIN data)
    BY <1>1, <1>2 DEF Sane
  <2>3. size \in 0..MaxCount /\ result \in Items \cup {"none"}
    BY DEF QueueInv
  <2>4. QED
    BY <2>1, <2>2, <2>3 DEF AQueue!TypeOK
<1>4. AQueue!Range(pending) = Sites(pending) /\ DOMAIN pending = 1..Len(pending)
  <2>1. pending \in Seq(0..(n - 1))
    BY <1>1 DEF Sane
  <2>2. DOMAIN pending = 1..Len(pending)
    BY <2>1
  <2>3. QED
    BY <2>2, Zenon DEF AQueue!Range, Sites
<1>5. AQueue!IsInjective(pending)
  BY <1>1, <1>4 DEF Sane, AQueue!IsInjective
<1>6. AQueue!Filled = ItemsIn(data, n)
  BY <1>2 DEF AQueue!Filled, ItemsIn
<1>7. \A i \in DOMAIN data : i >= last => data[i] = AQueue!null
  BY <1>1, <1>2 DEF Sane
<1>8. QED
  BY <1>1, <1>3, <1>4, <1>5, <1>6, <1>7, QueueCounts DEF AQueue!SitesAgree, Sane, Holes

\* The queue's invariant holds of the program, whatever calls are made.
THEOREM QueueInvariance == Spec => [](program = "randomizedQueue" => QueueInv)
<1> DEFINE Inv == program = "randomizedQueue" => QueueInv
<1>1. Init => Inv
  BY QueueInit DEF Init
<1>2. ASSUME Inv, [Next]_vars PROVE Inv'
  <2>1. SUFFICES ASSUME program' = "randomizedQueue" PROVE QueueInv'
    OBVIOUS
  <2>2. program = "randomizedQueue" /\ QueueInv
    BY <1>2, <2>1 DEF Next, vars
  <2>3. AQueue!Next \/ UNCHANGED <<data, last, size, pending, result>>
    BY <1>2, <2>2 DEF Next, vars
  <2>4. QED
    BY <2>2, <2>3, QueueKeepsInv
<1>3. QED
  BY <1>1, <1>2, PTL DEF Spec

\* The holes, the count and the array of RandomizedQueue.java agree after every
\* sequence of enqueue, dequeue and sample, however often the array has grown and
\* been compacted.
THEOREM SitesSafe == Spec => []SitesAgree
<1>1. (program = "randomizedQueue" => QueueInv) => SitesAgree
  BY QueueAgrees DEF SitesAgree
<1>2. QED
  BY <1>1, QueueInvariance, PTL

-----------------------------------------------------------------------------
(* TopTransactions.java: the largest amounts of a stream.                  *)

\* The amounts that have come, the transactions of a customer and an amount, and the
\* list of an amount's customers.
Came(h) == {h[i][2] : i \in 1..Len(h)}
Of(h, c, a) == {i \in 1..Len(h) : h[i] = <<c, a>>}
Listed(s, h, a) == \A c \in Customers : s[c] = Cardinality(Of(h, c, a))

\* What has come and is not kept is below all that is, which says more than that
\* the largest are kept: it tells what may be thrown out.
HeapInv ==
  /\ pending = [a \in Amounts |-> IF a \in DOMAIN data THEN 1 ELSE 0]
  /\ result \in Seq(Customers \X Amounts)
  /\ IsFiniteSet(DOMAIN data) /\ DOMAIN data \subseteq Came(result)
  /\ size = Cardinality(DOMAIN data) /\ size <= TopN
  /\ size < TopN => DOMAIN data = Came(result)
  /\ \A a \in DOMAIN data, b \in Came(result) \ DOMAIN data : b < a
  /\ data \in [DOMAIN data -> [Customers -> Nat]]
  /\ \A a \in DOMAIN data : Listed(data[a], result, a)

\* The heap's module counts as the library does.
LEMMA TopCounts == \A S : ATop!Cardinality(S) = Cardinality(S)
BY DEF ATop!Cardinality, Cardinality

\* The transactions t are the transactions h and one of customer c and amount a.
OneMore(h, c, a, t) ==
  /\ t \in Seq(Customers \X Amounts) /\ Came(t) = Came(h) \cup {a}
  /\ \A d \in Customers, b \in Amounts :
       Cardinality(Of(t, d, b)) = Cardinality(Of(h, d, b)) + IF d = c /\ b = a THEN 1 ELSE 0
  /\ \A d \in Customers, b \in Amounts \ Came(h) : Cardinality(Of(h, d, b)) = 0
  /\ \A d \in Customers, b \in Amounts : Cardinality(Of(h, d, b)) \in Nat

\* To append a transaction is to have one more.
LEMMA AppendIsOneMore ==
  ASSUME NEW h \in Seq(Customers \X Amounts), NEW c \in Customers, NEW a \in Amounts
  PROVE  OneMore(h, c, a, Append(h, <<c, a>>))
<1> DEFINE t == Append(h, <<c, a>>)
<1>1. /\ t \in Seq(Customers \X Amounts) /\ Len(h) \in Nat
      /\ Len(t) = Len(h) + 1 /\ t[Len(h) + 1] = <<c, a>>
      /\ \A i \in 1..Len(h) : t[i] = h[i]
  OBVIOUS
<1>2. t[Len(h) + 1][2] = a /\ 1..(Len(h) + 1) = 1..Len(h) \cup {Len(h) + 1}
  BY <1>1
<1> HIDE DEF t
<1>3. 1..Len(t) = 1..Len(h) \cup {Len(h) + 1}
  BY <1>1, <1>2
<1>4. \A i \in 1..Len(h) : t[i][2] = h[i][2]
  BY <1>1
<1>5. Came(t) = Came(h) \cup {a}
  <2>1. ASSUME NEW x \in Came(t) PROVE x \in Came(h) \cup {a}
    <3>1. PICK i \in 1..Len(t) : x = t[i][2]
      BY Zenon DEF Came
    <3>2. QED
      BY <1>2, <1>3, <1>4, <3>1, Zenon DEF Came
  <2>2. ASSUME NEW x \in Came(h) PROVE x \in Came(t)
    <3>1. PICK i \in 1..Len(h) : x = h[i][2]
      BY Zenon DEF Came
    <3>2. i \in 1..Len(t) /\ x = t[i][2]
      BY <1>3, <1>4, <3>1
    <3>3. QED
      BY <3>2, Zenon DEF Came
  <2>3. Len(h) + 1 \in 1..Len(t) /\ t[Len(h) + 1][2] = a
    BY <1>2, <1>3
  <2>4. a \in Came(t)
    BY <2>3, Zenon DEF Came
  <2>5. QED
    BY <2>1, <2>2, <2>4
<1>6. ASSUME NEW d \in Customers, NEW b \in Amounts
      PROVE  IsFiniteSet(Of(h, d, b)) /\ Cardinality(Of(h, d, b)) \in Nat
  <2> DEFINE n == Len(h)
  <2>n. n \in Int
    BY <1>1
  <2> HIDE DEF n
  <2>m. IsFiniteSet(1..n)
    BY ONLY <2>n, FS_Interval
  <2>1. IsFiniteSet(1..Len(h))
    BY <2>m DEF n
  <2>2. Of(h, d, b) \in SUBSET (1..Len(h))
    BY DEF Of
  <2>3. QED
    BY <2>1, <2>2, FS_Subset, FS_CardinalityType
<1>7. ASSUME NEW d \in Customers, NEW b \in Amounts
      PROVE  Cardinality(Of(t, d, b))
               = Cardinality(Of(h, d, b)) + IF d = c /\ b = a THEN 1 ELSE 0
  <2>1. ASSUME NEW i
        PROVE  i \in Of(t, d, b) <=> i \in Of(h, d, b) \/ (i = Len(h) + 1 /\ d = c /\ b = a)
    <3>1. Len(h) + 1 \notin 1..Len(h)
      BY <1>1
    <3>2. i \in Of(t, d, b) <=> i \in 1..Len(t) /\ t[i] = <<d, b>>
      BY DEF Of
    <3>3. i \in Of(h, d, b) <=> i \in 1..Len(h) /\ h[i] = <<d, b>>
      BY DEF Of
    <3>4. <<c, a>> = <<d, b>> <=> d = c /\ b = a
      OBVIOUS
    <3>5. CASE i \in 1..Len(h)
      BY <1>1, <1>3, <3>1, <3>2, <3>3, <3>5
    <3>6. CASE i = Len(h) + 1
      BY <1>1, <1>3, <3>1, <3>2, <3>3, <3>4, <3>6
    <3>7. QED
      BY <1>3, <3>2, <3>3, <3>5, <3>6
  <2>2. Len(h) + 1 \notin Of(h, d, b)
    BY <1>1 DEF Of
  <2>3. CASE d = c /\ b = a
    <3>1. Of(t, d, b) = Of(h, d, b) \cup {Len(h) + 1}
      BY <2>1, <2>3
    <3>2. Cardinality(Of(h, d, b) \cup {Len(h) + 1}) = Cardinality(Of(h, d, b)) + 1
      BY ONLY <1>6, <2>2, FS_AddElement
    <3>3. QED
      BY <2>3, <3>1, <3>2
  <2>4. CASE ~(d = c /\ b = a)
    <3>1. Of(t, d, b) = Of(h, d, b)
      BY <2>1, <2>4
    <3>2. QED
      BY <1>6, <2>4, <3>1
  <2>5. QED
    BY <2>3, <2>4
<1>8. ASSUME NEW d \in Customers, NEW b \in Amounts \ Came(h)
      PROVE  Cardinality(Of(h, d, b)) = 0
  <2>1. ASSUME NEW i \in Of(h, d, b) PROVE FALSE
    <3>1. i \in 1..Len(h) /\ h[i] = <<d, b>>
      BY <2>1 DEF Of
    <3>2. h[i][2] = b
      BY <3>1
    <3>3. QED
      BY <3>1, <3>2 DEF Came
  <2>2. Of(h, d, b) = {}
    BY <2>1
  <2>3. QED
    BY <2>2, FS_EmptySet
<1>9. QED
  BY <1>1, <1>5, <1>6, <1>7, <1>8 DEF OneMore, t

\* add() of an amount that is there: its list has the customer once more.
LEMMA ListedGrows ==
  ASSUME NEW h, NEW c \in Customers, NEW a \in Amounts, NEW t, OneMore(h, c, a, t),
         NEW s \in [Customers -> Nat], Listed(s, h, a)
  PROVE  Listed([s EXCEPT ![c] = @ + 1], t, a)
<1> SUFFICES ASSUME NEW d \in Customers
             PROVE  [s EXCEPT ![c] = @ + 1][d] = Cardinality(Of(t, d, a))
  BY DEF Listed
<1>1. s[d] = Cardinality(Of(h, d, a)) /\ s[d] \in Nat
  BY DEF Listed
<1>2. Cardinality(Of(t, d, a)) = Cardinality(Of(h, d, a)) + IF d = c /\ a = a THEN 1 ELSE 0
  BY DEF OneMore
<1>3. QED
  BY <1>1, <1>2

\* The lists of the other amounts stay as they are, and the first customer of an
\* amount has a list alone.
LEMMA ListedElse ==
  ASSUME NEW h, NEW c \in Customers, NEW a \in Amounts, NEW t, OneMore(h, c, a, t)
  PROVE  /\ \A b \in Amounts \ {a} : \A s : Listed(s, h, b) => Listed(s, t, b)
         /\ a \notin Came(h) => Listed([d \in Customers |-> IF d = c THEN 1 ELSE 0], t, a)
<1>1. ASSUME NEW b \in Amounts \ {a}, NEW s, Listed(s, h, b), NEW d \in Customers
      PROVE  s[d] = Cardinality(Of(t, d, b))
  <2>1. /\ Cardinality(Of(t, d, b)) = Cardinality(Of(h, d, b)) + IF d = c /\ b = a THEN 1 ELSE 0
        /\ Cardinality(Of(h, d, b)) \in Nat
    BY DEF OneMore
  <2>2. s[d] = Cardinality(Of(h, d, b))
    BY <1>1 DEF Listed
  <2>3. QED
    BY <2>1, <2>2
<1>2. ASSUME a \notin Came(h), NEW d \in Customers
      PROVE  Cardinality(Of(t, d, a)) = IF d = c THEN 1 ELSE 0
  <2>1. /\ Cardinality(Of(t, d, a)) = Cardinality(Of(h, d, a)) + IF d = c /\ a = a THEN 1 ELSE 0
        /\ Cardinality(Of(h, d, a)) = 0
    BY <1>2 DEF OneMore
  <2>2. QED
    BY <2>1
<1>3. QED
  BY <1>1, <1>2 DEF Listed

\* No transaction, nothing kept.
LEMMA HeapInit == ATop!Init => HeapInv
<1> SUFFICES ASSUME ATop!Init PROVE HeapInv
  OBVIOUS
<1>1. data = <<>> /\ pending = [a \in Amounts |-> 0] /\ size = 0 /\ result = <<>>
  BY DEF ATop!Init
<1>2. DOMAIN data = {} /\ data \in [DOMAIN data -> [Customers -> Nat]]
  BY <1>1
<1>3. Came(result) = {} /\ result \in Seq(Customers \X Amounts)
  BY <1>1 DEF Came
<1>4. IsFiniteSet({}) /\ Cardinality({}) = 0 /\ size <= TopN
  BY <1>1, FS_EmptySet, AssignmentAssumption
<1>5. pending = [a \in Amounts |-> IF a \in DOMAIN data THEN 1 ELSE 0]
  BY <1>1, <1>2
<1>6. QED
  BY <1>1, <1>2, <1>3, <1>4, <1>5 DEF HeapInv

\* add() throws out the least amount, and only when the heap is full.
LEMMA PeekIsLeast ==
  ASSUME HeapInv
  PROVE  /\ ATop!Full => ATop!Peek \in DOMAIN data /\ \A a \in DOMAIN data : ATop!Peek <= a
         /\ DOMAIN data \subseteq Amounts /\ Came(result) \subseteq Amounts
<1>1. Came(result) \subseteq Amounts
  <2>1. ASSUME NEW i \in 1..Len(result) PROVE result[i][2] \in Amounts
    BY DEF HeapInv
  <2>2. QED
    BY <2>1 DEF Came
<1>2. DOMAIN data \subseteq Amounts
  BY <1>1 DEF HeapInv
<1>3. {a \in Amounts : pending[a] > 0} = DOMAIN data
  <2>1. \A a \in Amounts : pending[a] = IF a \in DOMAIN data THEN 1 ELSE 0
    BY DEF HeapInv
  <2>2. \A a \in Amounts : pending[a] > 0 <=> a \in DOMAIN data
    BY <2>1
  <2>3. QED
    BY <1>2, <2>2
<1>4. ASSUME ATop!Full
      PROVE  ATop!Peek \in DOMAIN data /\ \A a \in DOMAIN data : ATop!Peek <= a
  <2>1. DOMAIN data # {}
    BY <1>4, AssignmentAssumption, FS_EmptySet DEF HeapInv, ATop!Full
  <2>2. \E x \in DOMAIN data : \A y \in DOMAIN data : x <= y
    BY <1>2, <2>1, LeastNumber, AssignmentAssumption
  <2>3. ATop!Peek = CHOOSE x \in DOMAIN data : \A y \in DOMAIN data : x <= y
    BY <1>3 DEF ATop!Peek, ATop!Least
  <2>4. QED
    BY <2>2, <2>3
<1>5. QED
  BY <1>1, <1>2, <1>4

\* Every transaction keeps the invariant.
LEMMA HeapKeepsInv ==
  ASSUME HeapInv, ATop!Next \/ UNCHANGED <<data, pending, size, result>>
  PROVE  HeapInv'
<1> DEFINE D == DOMAIN data
<1>1. SUFFICES ASSUME NEW c \in Customers, NEW a \in Amounts, ATop!Add(c, a) PROVE HeapInv'
  <2>1. CASE UNCHANGED <<data, pending, size, result>>
    BY <2>1 DEF HeapInv
  <2>2. QED
    BY <1>1, <2>1 DEF ATop!Next
<1>2. /\ pending = [x \in Amounts |-> IF x \in D THEN 1 ELSE 0]
      /\ result \in Seq(Customers \X Amounts)
      /\ IsFiniteSet(D) /\ D \subseteq Came(result)
      /\ size = Cardinality(D) /\ size <= TopN
      /\ size < TopN => D = Came(result)
      /\ \A x \in D, y \in Came(result) \ D : y < x
      /\ data \in [D -> [Customers -> Nat]]
      /\ \A x \in D : Listed(data[x], result, x)
  BY DEF HeapInv
<1>3. D \subseteq Amounts /\ Came(result) \subseteq Amounts /\ Amounts \subseteq Nat
  BY PeekIsLeast, AssignmentAssumption
<1>4. TopN \in Nat /\ size \in Nat
  BY <1>2, AssignmentAssumption, FS_CardinalityType
<1>5. result' = Append(result, <<c, a>>) /\ OneMore(result, c, a, result')
  BY <1>1, <1>2, AppendIsOneMore DEF ATop!Add
<1>6. result' \in Seq(Customers \X Amounts) /\ Came(result') = Came(result) \cup {a}
  BY <1>5 DEF OneMore
<1>7. \A x \in Amounts \ {a} : \A s : Listed(s, result, x) => Listed(s, result', x)
  BY <1>2, <1>5, ListedElse
<1> HIDE DEF D
<1>8. CASE a \in D
  <2>1. data' = [data EXCEPT ![a][c] = @ + 1] /\ pending' = pending /\ size' = size
    BY <1>1, <1>8 DEF ATop!Add, D
  <2>2. /\ data' \in [D -> [Customers -> Nat]] /\ DOMAIN data' = D
        /\ data'[a] = [data[a] EXCEPT ![c] = @ + 1]
    BY <1>2, <1>8, <2>1
  <2>3. \A x \in D \ {a} : data'[x] = data[x]
    BY <1>2, <2>1
  <2>4. Listed(data'[a], result', a)
    <3>1. data[a] \in [Customers -> Nat] /\ Listed(data[a], result, a)
      BY <1>2, <1>8
    <3>2. Listed([data[a] EXCEPT ![c] = @ + 1], result', a)
      BY <1>5, <3>1, ListedGrows
    <3>3. QED
      BY <2>2, <3>2
  <2>5. \A x \in D : Listed(data'[x], result', x)
    BY <1>2, <1>3, <1>7, <2>3, <2>4
  <2>6. Came(result') = Came(result)
    BY <1>2, <1>6, <1>8
  <2>7. QED
    BY <1>2, <1>6, <2>1, <2>2, <2>5, <2>6 DEF HeapInv
<1>9. CASE a \notin D /\ ATop!Ignored(a)
  <2>1. data' = data /\ pending' = pending /\ size' = size
    BY <1>1, <1>9 DEF ATop!Add, D
  <2>2. size = TopN /\ \A x \in D : a < x
    <3>1. size = TopN /\ ATop!Full /\ a < ATop!Peek
      BY <1>9 DEF ATop!Ignored, ATop!Full
    <3>2. ATop!Peek \in D /\ \A x \in D : ATop!Peek <= x
      BY <3>1, PeekIsLeast DEF D
    <3>3. QED
      BY <1>3, <3>1, <3>2
  <2>3. \A x \in D : Listed(data[x], result', x)
    BY <1>2, <1>3, <1>7, <1>9
  <2>4. \A x \in D, y \in Came(result') \ D : y < x
    BY <1>2, <1>6, <2>2
  <2>5. QED
    BY <1>2, <1>4, <1>6, <2>1, <2>2, <2>3, <2>4 DEF HeapInv, D
<1>10. CASE a \notin D /\ ~ATop!Ignored(a)
  <2> DEFINE out == IF ATop!Full THEN {ATop!Peek} ELSE {}
             E == D \ out
  <2> DEFINE alone == [d \in Customers |-> IF d = c THEN 1 ELSE 0]
  <2>1. /\ data' = [x \in DOMAIN ATop!Kept \cup {a} |-> IF x = a THEN alone ELSE ATop!Kept[x]]
        /\ pending' = [ATop!Polled EXCEPT ![a] = @ + 1]
        /\ size' = IF ATop!Full THEN size ELSE size + 1
    BY <1>1, <1>10 DEF ATop!Add, D
  <2>2. DOMAIN ATop!Kept = E /\ \A x \in E : ATop!Kept[x] = data[x]
    BY <1>2 DEF ATop!Kept, ATop!Restrict, D
  <2>3. /\ ATop!Full <=> size = TopN
        /\ ATop!Full => ATop!Peek \in D /\ ATop!Peek < a /\ \A x \in D : ATop!Peek <= x
    <3>1. ATop!Full => ATop!Peek \in D /\ \A x \in D : ATop!Peek <= x
      BY PeekIsLeast DEF D
    <3>2. ATop!Full => ~(a < ATop!Peek) /\ ATop!Peek # a
      BY <1>10, <3>1 DEF ATop!Ignored
    <3>3. ATop!Full => a \in Nat /\ ATop!Peek \in Nat
      BY <1>3, <3>1
    <3>4. ATop!Full => ATop!Peek < a
      BY <3>2, <3>3
    <3>5. QED
      BY <3>1, <3>4 DEF ATop!Full
  <2>4. a \notin Came(result)
    <3>1. SUFFICES ASSUME a \in Came(result) PROVE FALSE
      OBVIOUS
    <3>2. ATop!Full
      BY <1>2, <1>4, <1>10, <2>3, <3>1
    <3>3. a < ATop!Peek /\ ATop!Peek < a
      BY <1>2, <1>10, <2>3, <3>1, <3>2
    <3>4. a \in Nat /\ ATop!Peek \in Nat
      BY <1>3, <2>3, <3>2
    <3>5. QED
      BY <3>3, <3>4
  <2>5. \A x \in E : x \in D
    OBVIOUS
  <2>6. pending' = [x \in Amounts |-> IF x \in E \cup {a} THEN 1 ELSE 0]
    <3>1. ATop!Polled = [x \in Amounts |-> IF x \in E THEN 1 ELSE 0]
      <4>1. CASE ATop!Full
        <5>1. ATop!Polled = [pending EXCEPT ![ATop!Peek] = @ - 1]
          BY <4>1 DEF ATop!Polled
        <5>2. ATop!Peek \in Amounts /\ pending[ATop!Peek] = 1
          BY <1>2, <1>3, <2>3, <4>1
        <5>3. ASSUME NEW x \in Amounts
              PROVE  ATop!Polled[x] = IF x \in E THEN 1 ELSE 0
          BY <1>2, <2>3, <4>1, <5>1, <5>2
        <5>4. ATop!Polled = [x \in Amounts |-> ATop!Polled[x]]
          BY <1>2, <5>1
        <5> HIDE DEF E
        <5>5. QED
          BY <5>3, <5>4
      <4>2. CASE ~ATop!Full
        <5>1. ATop!Polled = pending /\ E = D
          BY <4>2 DEF ATop!Polled
        <5>2. QED
          BY <1>2, <5>1
      <4>3. QED
        BY <4>1, <4>2
    <3>2. a \notin E
      BY <1>10
    <3> HIDE DEF E
    <3>3. QED
      BY <2>1, <3>1, <3>2
  <2>7. /\ IsFiniteSet(E \cup {a})
        /\ Cardinality(E \cup {a}) = size'
    <3>1. CASE ATop!Full
      <4>1. IsFiniteSet(E) /\ Cardinality(E) = size - 1
        BY <1>2, <2>3, <3>1, FS_RemoveElement
      <4>2. a \notin E
        BY <1>10
      <4>3. IsFiniteSet(E \cup {a}) /\ Cardinality(E \cup {a}) = Cardinality(E) + 1
        BY <4>1, <4>2, FS_AddElement, Zenon
      <4>4. size' = size
        BY <2>1, <3>1
      <4>5. QED
        BY <1>4, <4>1, <4>3, <4>4
    <3>2. CASE ~ATop!Full
      <4>1. E = D
        BY <3>2
      <4>2. QED
        BY <1>2, <1>10, <2>1, <3>2, <4>1, FS_AddElement
    <3>3. QED
      BY <3>1, <3>2
  <2>8. size' <= TopN /\ (size' < TopN => E \cup {a} = Came(result'))
    BY <1>2, <1>4, <1>6, <2>1, <2>3
  <2>9. ASSUME NEW x \in E \cup {a}, NEW y \in Came(result') \ (E \cup {a}) PROVE y < x
    <3>1. y \in Came(result) /\ (y \in D => ATop!Full /\ y = ATop!Peek)
      BY <1>6, <2>9
    <3>2. x \in Nat /\ y \in Nat
      BY <1>3, <3>1
    <3>3. CASE y \in D
      BY <1>3, <2>3, <2>9, <3>1, <3>2, <3>3
    <3>4. CASE y \notin D /\ x \in E
      BY <1>2, <3>1, <3>4
    <3>5. CASE y \notin D /\ x = a
      <4>1. ATop!Full
        BY <1>2, <1>4, <2>3, <3>1, <3>5
      <4>2. y < ATop!Peek /\ ATop!Peek < a /\ ATop!Peek \in Nat
        BY <1>2, <1>3, <2>3, <3>1, <3>5, <4>1
      <4>3. QED
        BY <1>3, <3>2, <3>5, <4>2
    <3>6. QED
      BY <3>3, <3>4, <3>5
  <2>10. E \cup {a} \subseteq Came(result')
    BY <1>2, <1>6
  <2>11. ASSUME NEW x \in E \cup {a}
         PROVE  data'[x] \in [Customers -> Nat] /\ Listed(data'[x], result', x)
    <3>1. CASE x = a
      <4>1. data'[x] = alone /\ alone \in [Customers -> Nat]
        BY <2>1, <2>2, <3>1
      <4>2. QED
        BY <1>2, <1>5, <2>4, <3>1, <4>1, ListedElse
    <3>2. CASE x \in E /\ x # a
      <4>1. data'[x] = data[x] /\ x \in D /\ x \in Amounts \ {a}
        BY <1>3, <2>1, <2>2, <3>2
      <4>2. QED
        BY <1>2, <1>7, <4>1
    <3>3. QED
      BY <1>10, <3>1, <3>2
  <2>12. DOMAIN data' = E \cup {a} /\ data' = [x \in E \cup {a} |-> data'[x]]
    BY <2>1, <2>2
  <2> HIDE DEF E
  <2>13. data' \in [E \cup {a} -> [Customers -> Nat]]
    BY <2>11, <2>12
  <2>14. QED
    BY <1>6, <2>6, <2>7, <2>8, <2>9, <2>10, <2>11, <2>12, <2>13 DEF HeapInv
<1>11. QED
  BY <1>8, <1>9, <1>10

\* The invariant implies what is claimed of the heap.
LEMMA HeapAgrees == HeapInv => ATop!TypeOK /\ ATop!LargestKept /\ ATop!KeysAgree
<1> SUFFICES ASSUME HeapInv PROVE ATop!TypeOK /\ ATop!LargestKept /\ ATop!KeysAgree
  OBVIOUS
<1> DEFINE D == DOMAIN data
           Above(a) == {b \in Came(result) : b > a}
<1>1. D \subseteq Amounts /\ Came(result) \subseteq Amounts /\ Amounts \subseteq Nat
  BY PeekIsLeast, AssignmentAssumption
<1>2. /\ TopN \in Nat /\ size \in Nat /\ size = Cardinality(D) /\ size <= TopN
      /\ IsFiniteSet(D) /\ D \subseteq Came(result)
  BY AssignmentAssumption, FS_CardinalityType DEF HeapInv
<1>3. result \in Seq(Customers \X Amounts) /\ ATop!Seen = Came(result)
  <2>1. result \in Seq(Customers \X Amounts)
    BY DEF HeapInv
  <2>2. DOMAIN result = 1..Len(result)
    BY <2>1
  <2>3. QED
    BY <2>1, <2>2, Zenon DEF ATop!Seen, Came
<1>4. ATop!KeysAgree
  <2>1. \A a \in Amounts : pending[a] = IF a \in D THEN 1 ELSE 0
    BY DEF HeapInv
  <2>2. size = ATop!Cardinality(D)
    BY <1>2, TopCounts
  <2>3. QED
    BY <2>1, <2>2 DEF ATop!KeysAgree
<1>5. ATop!TypeOK
  <2>1. pending \in [Amounts -> Nat]
    BY DEF HeapInv
  <2>2. QED
    BY <1>1, <1>2, <2>1 DEF HeapInv, ATop!TypeOK
<1>6. ASSUME NEW a \in D
      PROVE  a \in Came(result) /\ Cardinality(Above(a)) < TopN
  <2>1. Above(a) \subseteq D \ {a}
    <3>1. ASSUME NEW b \in Above(a) PROVE b \in D /\ b # a
      <4>1. b \in Came(result) /\ b > a /\ a \in Nat /\ b \in Nat
        BY <1>1
      <4>2. b \in D
        BY <4>1 DEF HeapInv
      <4>3. QED
        BY <4>1, <4>2
    <3>2. QED
      BY <3>1
  <2>2. IsFiniteSet(D \ {a}) /\ Cardinality(D \ {a}) = size - 1
    BY <1>2, FS_RemoveElement
  <2> HIDE DEF Above
  <2>3. Cardinality(Above(a)) <= size - 1 /\ Cardinality(Above(a)) \in Nat
    BY <2>1, <2>2, FS_Subset, FS_CardinalityType
  <2>4. QED
    BY <1>2, <2>3
<1>7. IsFiniteSet(Came(result))
  <2> DEFINE n == Len(result)
             f == [i \in 1..n |-> result[i][2]]
  <2>1. n \in Nat /\ IsFiniteSet(1..n)
    BY <1>3, FS_Interval
  <2>2. f \in Surjection(1..n, Came(result))
    BY DEF Surjection, Came
  <2>3. QED
    BY <2>1, <2>2, FS_Surjection
<1>8. ASSUME NEW a \in Came(result) \ D
      PROVE  ~(Cardinality(Above(a)) < TopN)
  <2>1. size = TopN
    BY <1>2 DEF HeapInv
  <2>2. D \subseteq Above(a)
    <3>1. \A x \in D : a < x
      BY DEF HeapInv
    <3>2. QED
      BY <1>1, <1>2, <3>1
  <2>3. IsFiniteSet(Above(a))
    <3>1. Above(a) \in SUBSET Came(result)
      OBVIOUS
    <3>2. QED
      BY <1>7, <3>1, FS_Subset
  <2> HIDE DEF Above
  <2>4. size <= Cardinality(Above(a)) /\ Cardinality(Above(a)) \in Nat
    BY <1>2, <2>2, <2>3, FS_Subset, FS_CardinalityType
  <2>5. QED
    BY <1>2, <2>1, <2>4
<1>9. D = {a \in ATop!Seen : ATop!Cardinality({b \in ATop!Seen : b > a}) < TopN}
  <2>1. \A a : ATop!Cardinality({b \in ATop!Seen : b > a}) = Cardinality(Above(a))
    BY <1>3, TopCounts
  <2> HIDE DEF D, Above
  <2>2. QED
    BY <1>2, <1>3, <1>6, <1>8, <2>1
<1>10. ASSUME NEW a \in D, NEW c \in Customers
       PROVE  data[a][c] = ATop!Cardinality({i \in DOMAIN result : result[i] = <<c, a>>})
  <2>1. Listed(data[a], result, a)
    BY DEF HeapInv
  <2>2. {i \in DOMAIN result : result[i] = <<c, a>>} = Of(result, c, a)
    BY <1>3 DEF Of
  <2>3. QED
    BY <2>1, <2>2, TopCounts DEF Listed
<1>11. ATop!LargestKept
  BY <1>9, <1>10 DEF ATop!LargestKept
<1>12. QED
  BY <1>4, <1>5, <1>11

\* The heap's invariant holds of the program, whatever transactions come.
THEOREM HeapInvariance == Spec => [](program = "topTransactions" => HeapInv)
<1> DEFINE Inv == program = "topTransactions" => HeapInv
<1>1. Init => Inv
  BY HeapInit DEF Init
<1>2. ASSUME Inv, [Next]_vars PROVE Inv'
  <2>1. SUFFICES ASSUME program' = "topTransactions" PROVE HeapInv'
    OBVIOUS
  <2>2. program = "topTransactions" /\ HeapInv
    BY <1>2, <2>1 DEF Next, vars
  <2>3. ATop!Next \/ UNCHANGED <<data, pending, size, result>>
    BY <1>2, <2>2 DEF Next, vars
  <2>4. QED
    BY <2>2, <2>3, HeapKeepsInv
<1>3. QED
  BY <1>1, <1>2, PTL DEF Spec

\* TopTransactions.java keeps the N largest amounts of all that have come, each with
\* every customer as often as in the transactions, and the heap has the keys of the
\* map, for any N, however often add() throws an amount out or turns one away.
THEOREM LargestSafe == Spec => []LargestKept
<1>1. (program = "topTransactions" => HeapInv) => LargestKept
  BY HeapAgrees DEF LargestKept
<1>2. QED
  BY <1>1, HeapInvariance, PTL

-----------------------------------------------------------------------------
(* Percolation.java: two partitions of the sites.                          *)

\* A set of sites that no link leaves or enters.
Closed(C, E) == \A e \in E : e[1] \in C <=> e[2] \in C

\* p is the partition of V into what the links E connect: linked sites share a
\* class, and no class is cut by a set that no link leaves.
Connects(p, V, E) ==
  /\ UNION p = V
  /\ \A c, d \in p : c = d \/ c \cap d = {}
  /\ \A e \in E : \E c \in p : e[1] \in c /\ e[2] \in c
  /\ \A C \in SUBSET V : Closed(C, E) => \A c \in p : c \subseteq C \/ c \cap C = {}

\* A new structure connects nothing.
LEMMA SingletonsConnect ==
  ASSUME NEW n \in Nat
  PROVE  Connects(AGrid!Singletons(n), 0..(n - 1), {})
<1> DEFINE p == AGrid!Singletons(n)
<1>1. p = {{s} : s \in 0..(n - 1)}
  BY DEF AGrid!Singletons
<1>2. UNION p = 0..(n - 1)
  BY <1>1
<1>3. \A c, d \in p : c = d \/ c \cap d = {}
  BY <1>1
<1>4. \A C \in SUBSET (0..(n - 1)) : \A c \in p : c \subseteq C \/ c \cap C = {}
  BY <1>1
<1>5. QED
  BY <1>2, <1>3, <1>4 DEF Connects

\* Unions add links.
Linked(E, s, T) == E \cup {<<s, t>> : t \in T}

\* The components are then those of the longer list of links.
LEMMA UnionsConnect ==
  ASSUME NEW p, NEW V, NEW E, Connects(p, V, E), NEW s \in V, NEW T \in SUBSET V
  PROVE  Connects(AGrid!UnionAll(p, s, T), V, Linked(E, s, T))
<1> DEFINE joined == {c \in p : s \in c \/ c \cap T # {}}
           all == UNION joined
           q == (p \ joined) \cup {all}
           star == {<<s, t>> : t \in T}
<1>1. AGrid!UnionAll(p, s, T) = q
  BY DEF AGrid!UnionAll
<1>2. /\ UNION p = V
      /\ \A c, d \in p : c = d \/ c \cap d = {}
      /\ \A e \in E : \E c \in p : e[1] \in c /\ e[2] \in c
      /\ \A C \in SUBSET V : Closed(C, E) => \A c \in p : c \subseteq C \/ c \cap C = {}
  BY DEF Connects
<1>3. UNION q = V
  <2>1. ASSUME NEW x \in V PROVE \E c \in q : x \in c
    <3>1. PICK c \in p : x \in c
      BY <1>2
    <3>2. QED
      BY <3>1
  <2>2. ASSUME NEW c \in q, NEW x \in c PROVE x \in V
    BY <1>2
  <2>3. QED
    BY <2>1, <2>2
<1>4. ASSUME NEW c \in q, NEW d \in q PROVE c = d \/ c \cap d = {}
  <2>1. ASSUME NEW e \in p \ joined PROVE e \cap all = {}
    BY <1>2
  <2>2. \A e \in q : e = all \/ e \in p \ joined
    OBVIOUS
  <2> HIDE DEF q, all, joined
  <2>3. CASE c = all \/ d = all
    BY <2>1, <2>2, <2>3
  <2>4. CASE c # all /\ d # all
    BY <1>2, <2>2, <2>4
  <2>5. QED
    BY <2>3, <2>4
<1>5. s \in all /\ T \subseteq all
  <2>1. ASSUME NEW x \in V PROVE \E c \in p : x \in c
    BY <1>2
  <2>2. QED
    BY <2>1
<1>6. ASSUME NEW e \in E \cup star PROVE \E c \in q : e[1] \in c /\ e[2] \in c
  <2>1. CASE e \in E
    <3>1. PICK c \in p : e[1] \in c /\ e[2] \in c
      BY <1>2, <2>1
    <3>2. c \in q \/ c \subseteq all
      OBVIOUS
    <3>3. QED
      BY <3>1, <3>2
  <2>2. CASE e \in star
    <3>1. PICK t \in T : e = <<s, t>>
      BY <2>2
    <3>2. e[1] = s /\ e[2] = t
      BY <3>1
    <3>3. e[1] \in all /\ e[2] \in all /\ all \in q
      BY <1>5, <3>2
    <3>4. QED
      BY <3>3
  <2>3. QED
    BY <2>1, <2>2
<1>7. ASSUME NEW C \in SUBSET V, Closed(C, E \cup star), NEW c \in q
      PROVE  c \subseteq C \/ c \cap C = {}
  <2>1. Closed(C, E)
    BY <1>7 DEF Closed
  <2>2. \A d \in p : d \subseteq C \/ d \cap C = {}
    BY <1>2, <2>1
  <2>3. ASSUME NEW t \in T PROVE s \in C <=> t \in C
    <3>1. <<s, t>> \in E \cup star
      OBVIOUS
    <3>2. <<s, t>>[1] = s /\ <<s, t>>[2] = t
      OBVIOUS
    <3>3. QED
      BY <1>7, <3>1, <3>2, Zenon DEF Closed
  <2>4. CASE s \in C
    <3>1. ASSUME NEW d \in joined PROVE d \subseteq C
      BY <2>2, <2>3, <2>4
    <3>2. QED
      BY <2>2, <3>1
  <2>5. CASE s \notin C
    <3>1. ASSUME NEW d \in joined PROVE d \cap C = {}
      BY <2>2, <2>3, <2>5
    <3>2. QED
      BY <2>2, <3>1
  <2>6. QED
    BY <2>4, <2>5
<1> HIDE DEF q, star
<1>8. Connects(q, V, E \cup star)
  BY <1>3, <1>4, <1>6, <1>7 DEF Connects
<1>9. QED
  BY <1>1, <1>8 DEF star, Linked

\* It does not matter which way a link is written.
LEMMA LinksTurned ==
  ASSUME NEW p, NEW V, NEW E, NEW F, Connects(p, V, E),
         \A e \in F : \E d \in E : (d[1] = e[1] /\ d[2] = e[2]) \/ (d[1] = e[2] /\ d[2] = e[1]),
         \A d \in E : \E e \in F : (d[1] = e[1] /\ d[2] = e[2]) \/ (d[1] = e[2] /\ d[2] = e[1])
  PROVE  Connects(p, V, F)
<1>1. \A e \in F : \E c \in p : e[1] \in c /\ e[2] \in c
  <2>1. \A d \in E : \E c \in p : d[1] \in c /\ d[2] \in c
    BY DEF Connects
  <2>2. QED
    BY <2>1
<1>2. ASSUME NEW C, Closed(C, F) PROVE Closed(C, E)
  BY <1>2 DEF Closed
<1>3. QED
  BY <1>1, <1>2, Zenon DEF Connects

\* The sites of a grid, their numbers and the links between them.
Cells(n) == (1..n) \X (1..n)
Id(n, s) == (s[1] - 1) * n + s[2] - 1
Beside(s, t) == \/ s[1] = t[1] /\ (t[2] = s[2] + 1 \/ t[2] + 1 = s[2])
                \/ s[2] = t[2] /\ (t[1] = s[1] + 1 \/ t[1] + 1 = s[1])
Joined(n, g) == {<<Id(n, p[1]), Id(n, p[2])>> : p \in {q \in g \X g : Beside(q[1], q[2])}}
Hung(n, v, i) == {<<v, t>> : t \in AGrid!Row(n, i)}
FromTop(n, g) == Hung(n, n * n, 1) \cup Joined(n, g)
FromBoth(n, g) == Hung(n, n * n, 1) \cup Hung(n, n * n + 1, n) \cup Joined(n, g)

\* Each structure connects what it should: uf the sites, the top and the bottom, and
\* bwuf the sites and the top.
GridInv ==
  /\ size \in Sizes /\ data \subseteq Cells(size)
  /\ Connects(first, 0..(size * size + 1), FromBoth(size, data))
  /\ Connects(last, 0..(size * size), FromTop(size, data))

\* Sites have numbers of their own, below those of the virtual sites.
LEMMA Numbers ==
  ASSUME NEW n \in Nat
  PROVE  /\ n * n \in Nat
         /\ \A s \in Cells(n) : Id(n, s) \in 0..(n * n - 1)
         /\ \A s, t \in Cells(n) : Id(n, s) = Id(n, t) => s = t
<1>1. n * n \in Nat
  OBVIOUS
<1>2. ASSUME NEW i \in 1..n, NEW j \in 1..n
      PROVE  (i - 1) * n + j - 1 \in 0..(n * n - 1)
  OBVIOUS
<1>3. ASSUME NEW i \in 1..n, NEW j \in 1..n, NEW k \in 1..n, NEW l \in 1..n,
             (i - 1) * n + j - 1 = (k - 1) * n + l - 1
      PROVE  i = k /\ j = l
  BY <1>3
<1>4. ASSUME NEW s \in Cells(n) PROVE Id(n, s) \in 0..(n * n - 1)
  BY <1>2 DEF Cells, Id
<1>5. ASSUME NEW s \in Cells(n), NEW t \in Cells(n), Id(n, s) = Id(n, t) PROVE s = t
  <2>1. s[1] \in 1..n /\ s[2] \in 1..n /\ t[1] \in 1..n /\ t[2] \in 1..n
    BY DEF Cells
  <2>2. s[1] = t[1] /\ s[2] = t[2]
    <3>1. (s[1] - 1) * n + s[2] - 1 = (t[1] - 1) * n + t[2] - 1
      BY <1>5 DEF Id
    <3>2. PICK i \in 1..n, j \in 1..n, k \in 1..n, l \in 1..n :
            i = s[1] /\ j = s[2] /\ k = t[1] /\ l = t[2]
      BY <2>1
    <3>3. (i - 1) * n + j - 1 = (k - 1) * n + l - 1
      BY <3>1, <3>2
    <3>4. i = k /\ j = l
      BY <1>3, <3>3
    <3>5. QED
      BY <3>2, <3>4
  <2>3. QED
    BY <2>2 DEF Cells
<1>6. QED
  BY <1>1, <1>4, <1>5

\* The first row, and every other, in numbers.
LEMMA RowNumbers ==
  ASSUME NEW n \in Nat, NEW i \in 1..n
  PROVE  /\ AGrid!Row(n, i) = {Id(n, s) : s \in {t \in Cells(n) : t[1] = i}}
         /\ AGrid!Row(n, i) \subseteq 0..(n * n - 1)
<1>1. ASSUME NEW x \in AGrid!Row(n, i) PROVE \E s \in Cells(n) : s[1] = i /\ x = Id(n, s)
  <2>1. PICK j \in 1..n : x = (i - 1) * n + j - 1
    BY DEF AGrid!Row
  <2>2. <<i, j>> \in Cells(n) /\ <<i, j>>[1] = i /\ <<i, j>>[2] = j
    BY DEF Cells
  <2>3. QED
    BY <2>1, <2>2 DEF Id
<1>2. ASSUME NEW s \in Cells(n), s[1] = i PROVE Id(n, s) \in AGrid!Row(n, i)
  <2>1. s[2] \in 1..n /\ Id(n, s) = (i - 1) * n + s[2] - 1
    BY <1>2 DEF Cells, Id
  <2>2. QED
    BY <2>1 DEF AGrid!Row
<1>3. \A s \in Cells(n) : Id(n, s) \in 0..(n * n - 1)
  BY Numbers
<1>4. QED
  BY <1>1, <1>2, <1>3

\* The open sites next to a site.
LEMMA OpenBeside ==
  ASSUME size \in Nat, data \subseteq Cells(size), NEW i \in 1..size, NEW j \in 1..size
  PROVE  /\ \A s \in Cells(size) : s \in AGrid!Neighbours(i, j) <=> Beside(<<i, j>>, s)
         /\ AGrid!OpenNeighbours(i, j) = {Id(size, s) : s \in {t \in data : Beside(<<i, j>>, t)}}
         /\ AGrid!xyTo1D(i, j) = Id(size, <<i, j>>)
<1>1. <<i, j>>[1] = i /\ <<i, j>>[2] = j
  OBVIOUS
<1>2. ASSUME NEW s \in Cells(size)
      PROVE  s \in AGrid!Neighbours(i, j) <=> Beside(<<i, j>>, s)
  <2>1. s[1] \in 1..size /\ s[2] \in 1..size /\ s \in (1..size) \X (1..size)
    BY DEF Cells
  <2> DEFINE near == \/ s[1] = i /\ (s[2] = j + 1 \/ s[2] + 1 = j)
                     \/ s[2] = j /\ (s[1] = i + 1 \/ s[1] + 1 = i)
  <2>2. s \in AGrid!Neighbours(i, j) <=> near
    BY <2>1 DEF AGrid!Neighbours
  <2>3. QED
    BY <1>1, <2>1, <2>2 DEF Beside
<1>3. AGrid!Neighbours(i, j) \cap data = {t \in data : Beside(<<i, j>>, t)}
  BY <1>2
<1>4. \A s : AGrid!xyTo1D(s[1], s[2]) = Id(size, s)
  BY DEF AGrid!xyTo1D, Id
<1>5. AGrid!OpenNeighbours(i, j) = {Id(size, s) : s \in {t \in data : Beside(<<i, j>>, t)}}
  BY <1>3, <1>4 DEF AGrid!OpenNeighbours
<1>6. QED
  BY <1>1, <1>2, <1>4, <1>5

\* An empty grid is connected to the top and the bottom only.
LEMMA GridInit == AGrid!Init => GridInv
<1> SUFFICES ASSUME AGrid!Init PROVE GridInv
  OBVIOUS
<1> DEFINE n == size
           p == AGrid!UnionAll(AGrid!Singletons(n * n + 2), n * n, AGrid!Row(n, 1))
<1>1. /\ n \in Sizes /\ n \in Nat /\ data = {}
      /\ first = AGrid!UnionAll(p, n * n + 1, AGrid!Row(n, n))
      /\ last = AGrid!UnionAll(AGrid!Singletons(n * n + 1), n * n, AGrid!Row(n, 1))
  BY AssignmentAssumption DEF AGrid!Init
<1>2. n * n \in Nat /\ Joined(n, {}) = {}
  BY <1>1, Numbers DEF Joined
<1>3. \A i \in {1, n} : AGrid!Row(n, i) \subseteq 0..(n * n - 1)
  <2>1. CASE n = 0
    BY <2>1 DEF AGrid!Row
  <2>2. CASE n # 0
    BY <1>1, <2>2, RowNumbers
  <2>3. QED
    BY <2>1, <2>2
<1>4. Connects(AGrid!Singletons(n * n + 2), 0..(n * n + 1), {})
  <2>1. n * n + 2 \in Nat /\ (n * n + 2) - 1 = n * n + 1
    BY <1>2
  <2>2. QED
    BY <2>1, SingletonsConnect
<1>5. Connects(AGrid!Singletons(n * n + 1), 0..(n * n), {})
  <2>1. n * n + 1 \in Nat /\ (n * n + 1) - 1 = n * n
    BY <1>2
  <2>2. QED
    BY <2>1, SingletonsConnect
<1>6. /\ n * n \in 0..(n * n) /\ n * n \in 0..(n * n + 1) /\ n * n + 1 \in 0..(n * n + 1)
      /\ \A i \in {1, n} : AGrid!Row(n, i) \subseteq 0..(n * n)
      /\ \A i \in {1, n} : AGrid!Row(n, i) \subseteq 0..(n * n + 1)
  BY <1>2, <1>3
<1> DEFINE E == Linked({}, n * n, AGrid!Row(n, 1))
<1>7. Connects(last, 0..(n * n), E)
  <2>1. AGrid!Row(n, 1) \in SUBSET (0..(n * n))
    BY <1>6
  <2>2. QED
    BY <1>1, <1>5, <1>6, <2>1, UnionsConnect
<1>8. Connects(p, 0..(n * n + 1), E)
  <2>1. AGrid!Row(n, 1) \in SUBSET (0..(n * n + 1))
    BY <1>6
  <2>2. QED
    BY <1>4, <1>6, <2>1, UnionsConnect
<1> HIDE DEF p, E
<1>9. Connects(first, 0..(n * n + 1), Linked(E, n * n + 1, AGrid!Row(n, n)))
  <2>1. AGrid!Row(n, n) \in SUBSET (0..(n * n + 1))
    BY <1>6
  <2>2. QED
    BY <1>1, <1>6, <1>8, <2>1, UnionsConnect
<1>10. E = FromTop(n, data) /\ Linked(E, n * n + 1, AGrid!Row(n, n)) = FromBoth(n, data)
  BY <1>1, <1>2 DEF FromTop, FromBoth, Hung, Linked, E
<1>11. QED
  BY <1>1, <1>7, <1>9, <1>10 DEF GridInv

\* open() links a site to the open ones beside it, in both structures.
LEMMA GridKeepsInv ==
  ASSUME GridInv, AGrid!Next \/ UNCHANGED <<size, data, first, last>>
  PROVE  GridInv'
<1>1. CASE UNCHANGED <<size, data, first, last>>
  BY <1>1 DEF GridInv
<1>2. ASSUME NEW i \in 1..size, NEW j \in 1..size, AGrid!Open(i, j) PROVE GridInv'
  <2> DEFINE x == <<i, j>>
             T == {Id(size, s) : s \in {t \in data : Beside(x, t)}}
             g == data \cup {x}
  <2>1. size \in Nat /\ size \in Sizes /\ data \subseteq Cells(size) /\ x \in Cells(size)
    BY AssignmentAssumption DEF GridInv, Cells
  <2>2. /\ size' = size /\ data' = g
        /\ first' = AGrid!UnionAll(first, Id(size, x), T)
        /\ last' = AGrid!UnionAll(last, Id(size, x), T)
    BY <1>2, <2>1, OpenBeside DEF AGrid!Open
  <2>3. /\ size * size \in Nat
        /\ Id(size, x) \in 0..(size * size - 1) /\ T \subseteq 0..(size * size - 1)
    BY <2>1, Numbers
  <2>4. /\ Id(size, x) \in 0..(size * size) /\ T \in SUBSET (0..(size * size))
        /\ Id(size, x) \in 0..(size * size + 1) /\ T \in SUBSET (0..(size * size + 1))
    BY <2>3
  <2>5. /\ Connects(last', 0..(size * size), Linked(FromTop(size, data), Id(size, x), T))
        /\ Connects(first', 0..(size * size + 1), Linked(FromBoth(size, data), Id(size, x), T))
    <3> HIDE DEF T, x
    <3>1. /\ Connects(first, 0..(size * size + 1), FromBoth(size, data))
          /\ Connects(last, 0..(size * size), FromTop(size, data))
      BY DEF GridInv
    <3>2. QED
      BY <2>2, <2>4, <3>1, UnionsConnect
  <2>6. ASSUME NEW e \in Joined(size, g)
        PROVE  \E d \in Linked(Joined(size, data), Id(size, x), T) :
                 (d[1] = e[1] /\ d[2] = e[2]) \/ (d[1] = e[2] /\ d[2] = e[1])
    <3>1. PICK s \in g, t \in g : Beside(s, t) /\ e = <<Id(size, s), Id(size, t)>>
      BY DEF Joined
    <3>2. Beside(t, s) /\ s # t
      <4>1. s[1] \in Nat /\ s[2] \in Nat /\ t[1] \in Nat /\ t[2] \in Nat
        BY <2>1 DEF Cells
      <4>2. QED
        BY <3>1, <4>1 DEF Beside
    <3>3. CASE s \in data /\ t \in data
      <4>1. e \in Joined(size, data)
        <5>1. <<s, t>> \in data \X data /\ <<s, t>>[1] = s /\ <<s, t>>[2] = t
          BY <3>3
        <5>2. QED
          BY <3>1, <5>1 DEF Joined
      <4>2. QED
        BY <4>1 DEF Linked
    <3>4. CASE s = x /\ t \in data
      <4>1. e \in Linked(Joined(size, data), Id(size, x), T)
        BY <3>1, <3>4 DEF Linked
      <4>2. QED
        BY <4>1
    <3>5. CASE t = x /\ s \in data
      <4>1. <<Id(size, t), Id(size, s)>> \in Linked(Joined(size, data), Id(size, x), T)
        <5>1. Id(size, s) \in T
          BY <3>2, <3>5
        <5> HIDE DEF T, x
        <5>2. QED
          BY <3>5, <5>1 DEF Linked
      <4>2. QED
        BY <3>1, <4>1
    <3>6. QED
      BY <3>2, <3>3, <3>4, <3>5
  <2>7. Linked(Joined(size, data), Id(size, x), T) \subseteq Joined(size, g)
    <3>1. ASSUME NEW s \in data, Beside(x, s) PROVE <<Id(size, x), Id(size, s)>> \in Joined(size, g)
      <4>1. <<x, s>> \in g \X g /\ <<x, s>>[1] = x /\ <<x, s>>[2] = s
        OBVIOUS
      <4>2. QED
        BY <3>1, <4>1 DEF Joined
    <3>2. Joined(size, data) \subseteq Joined(size, g)
      BY DEF Joined
    <3>3. QED
      BY <3>1, <3>2 DEF Linked
  <2>8. Connects(last', 0..(size * size), FromTop(size, g))
    <3> DEFINE E == Linked(FromTop(size, data), Id(size, x), T)
               F == FromTop(size, g)
    <3>1. \A d \in E : d \in Hung(size, size * size, 1) \/ d \in Linked(Joined(size, data), Id(size, x), T)
      BY DEF FromTop, Linked
    <3>2. E \subseteq F
      BY <2>7, <3>1 DEF FromTop
    <3>3. Hung(size, size * size, 1) \cup Linked(Joined(size, data), Id(size, x), T) \subseteq E
      BY DEF FromTop, Linked
    <3>4. F = Hung(size, size * size, 1) \cup Joined(size, g)
      BY DEF FromTop
    <3> HIDE DEF E, F, T, x, g
    <3>5. \A e \in F : \E d \in E : (d[1] = e[1] /\ d[2] = e[2]) \/ (d[1] = e[2] /\ d[2] = e[1])
      BY <2>6, <3>3, <3>4
    <3>6. \A d \in E : \E e \in F : (d[1] = e[1] /\ d[2] = e[2]) \/ (d[1] = e[2] /\ d[2] = e[1])
      BY <3>2
    <3>7. Connects(last', 0..(size * size), E)
      BY <2>5 DEF E
    <3>8. Connects(last', 0..(size * size), F)
      BY <3>5, <3>6, <3>7, LinksTurned, Zenon
    <3>9. QED
      BY <3>8 DEF F
  <2>9. Connects(first', 0..(size * size + 1), FromBoth(size, g))
    <3> DEFINE E == Linked(FromBoth(size, data), Id(size, x), T)
               F == FromBoth(size, g)
               H == Hung(size, size * size, 1) \cup Hung(size, size * size + 1, size)
    <3>1. \A d \in E : d \in H \/ d \in Linked(Joined(size, data), Id(size, x), T)
      BY DEF FromBoth, Linked
    <3>2. E \subseteq F
      BY <2>7, <3>1 DEF FromBoth
    <3>3. H \cup Linked(Joined(size, data), Id(size, x), T) \subseteq E
      BY DEF FromBoth, Linked
    <3>4. F = H \cup Joined(size, g)
      BY DEF FromBoth
    <3> HIDE DEF E, F, H, T, x, g
    <3>5. \A e \in F : \E d \in E : (d[1] = e[1] /\ d[2] = e[2]) \/ (d[1] = e[2] /\ d[2] = e[1])
      BY <2>6, <3>3, <3>4
    <3>6. \A d \in E : \E e \in F : (d[1] = e[1] /\ d[2] = e[2]) \/ (d[1] = e[2] /\ d[2] = e[1])
      BY <3>2
    <3>7. Connects(first', 0..(size * size + 1), E)
      BY <2>5 DEF E
    <3>8. Connects(first', 0..(size * size + 1), F)
      BY <3>5, <3>6, <3>7, LinksTurned, Zenon
    <3>9. QED
      BY <3>8 DEF F
  <2>10. g \subseteq Cells(size)
    BY <2>1
  <2>11. QED
    BY <2>1, <2>2, <2>8, <2>9, <2>10 DEF GridInv
<1>3. QED
  BY <1>1, <1>2 DEF AGrid!Next

\* The wet sites hold water: they have the open ones of the first row, and the open
\* ones beside them.
LEMMA WetIsClosed ==
  ASSUME size \in Nat, data \subseteq Cells(size)
  PROVE  /\ AGrid!Wet \subseteq data
         /\ \A s \in data : s[1] = 1 => s \in AGrid!Wet
         /\ \A s, t \in data : Beside(s, t) => (s \in AGrid!Wet <=> t \in AGrid!Wet)
<1>1. AGrid!Wet \subseteq data
  BY DEF AGrid!Wet
<1>2. ASSUME NEW s \in data, s[1] = 1 PROVE s \in AGrid!Wet
  BY <1>2 DEF AGrid!Wet, AGrid!HoldsWater
<1>3. ASSUME NEW s \in data, NEW t \in data, Beside(s, t), s \in AGrid!Wet PROVE t \in AGrid!Wet
  <2>1. s \in AGrid!Neighbours(t[1], t[2])
    <3>1. /\ s \in Cells(size) /\ t[1] \in 1..size /\ t[2] \in 1..size /\ t = <<t[1], t[2]>>
          /\ s[1] \in 1..size /\ s[2] \in 1..size
      BY DEF Cells
    <3>2. Beside(t, s)
      BY <1>3, <3>1 DEF Beside
    <3>3. QED
      BY <3>1, <3>2, OpenBeside
  <2>2. ASSUME NEW w \in SUBSET data, AGrid!HoldsWater(w) PROVE t \in w
    <3>1. s \in w
      BY <1>3, <2>2 DEF AGrid!Wet
    <3>2. QED
      BY <2>1, <2>2, <3>1 DEF AGrid!HoldsWater
  <2>3. QED
    BY <2>2 DEF AGrid!Wet
<1>4. ASSUME NEW s \in data, NEW t \in data, Beside(s, t) PROVE Beside(t, s)
  <2>1. s[1] \in Nat /\ s[2] \in Nat /\ t[1] \in Nat /\ t[2] \in Nat
    BY DEF Cells
  <2>2. QED
    BY <1>4, <2>1 DEF Beside
<1>5. QED
  BY <1>1, <1>2, <1>3, <1>4

\* A structure that links the first row with the top joins the wet sites with it.
LEMMA WetHangs ==
  ASSUME size \in Nat, data \subseteq Cells(size), NEW p, NEW V, NEW E, Connects(p, V, E),
         size * size \in V, FromTop(size, data) \subseteq E, NEW s \in AGrid!Wet
  PROVE  AGrid!Connected(p, Id(size, s), size * size)
<1>1. PICK K \in p : size * size \in K
  BY DEF Connects
<1> DEFINE w == {t \in data : Id(size, t) \in K}
<1>2. ASSUME NEW e \in E, e[1] \in K \/ e[2] \in K PROVE e[1] \in K /\ e[2] \in K
  <2>1. PICK c \in p : e[1] \in c /\ e[2] \in c
    BY DEF Connects
  <2>2. c = K
    BY <1>2, <2>1 DEF Connects
  <2>3. QED
    BY <2>1, <2>2
<1>3. ASSUME NEW t \in data, t[1] = 1 PROVE t \in w
  <2>1. 1 \in 1..size /\ t \in Cells(size)
    BY <1>3 DEF Cells
  <2>2. Id(size, t) \in AGrid!Row(size, 1)
    BY <1>3, <2>1, RowNumbers
  <2>3. <<size * size, Id(size, t)>> \in E
    BY <2>2 DEF FromTop, Hung
  <2>4. QED
    BY <1>1, <1>2, <2>3
<1>4. ASSUME NEW t \in data, NEW u \in AGrid!Neighbours(t[1], t[2]), u \in w PROVE t \in w
  <2>1. t[1] \in 1..size /\ t[2] \in 1..size /\ t = <<t[1], t[2]>> /\ u \in Cells(size)
    BY <1>4 DEF Cells
  <2>2. Beside(t, u)
    BY <2>1, OpenBeside
  <2>3. <<t, u>> \in data \X data /\ <<t, u>>[1] = t /\ <<t, u>>[2] = u
    BY <1>4
  <2>4. <<Id(size, t), Id(size, u)>> \in Joined(size, data)
    BY <2>2, <2>3 DEF Joined
  <2>5. <<Id(size, t), Id(size, u)>> \in E
    BY <2>4 DEF FromTop
  <2>6. QED
    BY <1>2, <1>4, <2>5
<1>5. w \in SUBSET data /\ AGrid!HoldsWater(w)
  BY <1>3, <1>4 DEF AGrid!HoldsWater
<1> HIDE DEF w
<1>6. s \in w
  BY <1>5 DEF AGrid!Wet
<1>7. QED
  BY <1>1, <1>6 DEF AGrid!Connected, w

\* What the top, the first row and the wet sites are: no link leaves them.
Wetness(n) == {n * n} \cup AGrid!Row(n, 1) \cup {Id(n, s) : s \in AGrid!Wet}

\* By what Wet is: water goes on to every open neighbour.
LEMMA WetnessIsClosed ==
  ASSUME size \in Nat, data \subseteq Cells(size)
  PROVE  /\ Wetness(size) \subseteq 0..(size * size)
         /\ \A s \in data : Id(size, s) \in Wetness(size) <=> s \in AGrid!Wet
         /\ Closed(Wetness(size), FromTop(size, data))
<1> DEFINE C == Wetness(size)
<1>1. /\ AGrid!Wet \subseteq data
      /\ \A s \in data : s[1] = 1 => s \in AGrid!Wet
      /\ \A s, t \in data : Beside(s, t) => (s \in AGrid!Wet <=> t \in AGrid!Wet)
  BY WetIsClosed
<1>2. /\ size * size \in Nat
      /\ \A s \in Cells(size) : Id(size, s) \in 0..(size * size - 1)
      /\ \A s, t \in Cells(size) : Id(size, s) = Id(size, t) => s = t
  BY Numbers
<1>3. AGrid!Row(size, 1) = {Id(size, s) : s \in {t \in Cells(size) : t[1] = 1}}
  <2>1. CASE size = 0
    BY <2>1 DEF AGrid!Row, Cells
  <2>2. CASE size # 0
    BY <2>2, RowNumbers
  <2>3. QED
    BY <2>1, <2>2
<1>4. C = {size * size} \cup {Id(size, s) : s \in {t \in Cells(size) : t[1] = 1}}
                        \cup {Id(size, s) : s \in AGrid!Wet}
  BY <1>3 DEF Wetness
<1> HIDE DEF C
<1>5. C \subseteq 0..(size * size)
  BY <1>1, <1>2, <1>4
<1>6. ASSUME NEW s \in data PROVE Id(size, s) \in C <=> s \in AGrid!Wet
  <2>1. ASSUME Id(size, s) \in C PROVE s \in AGrid!Wet
    <3>1. Id(size, s) # size * size
      BY <1>2
    <3>2. \/ \E t \in Cells(size) : t[1] = 1 /\ Id(size, s) = Id(size, t)
          \/ \E t \in AGrid!Wet : Id(size, s) = Id(size, t)
      BY <1>4, <2>1, <3>1
    <3>3. QED
      BY <1>1, <1>2, <3>2
  <2>2. QED
    BY <1>4, <2>1
<1>7. ASSUME NEW e \in FromTop(size, data) PROVE e[1] \in C <=> e[2] \in C
  <2>1. CASE e \in Hung(size, size * size, 1)
    <3>1. PICK t \in AGrid!Row(size, 1) : e = <<size * size, t>>
      BY <2>1 DEF Hung
    <3>2. size * size \in C /\ t \in C
      BY <1>3, <1>4
    <3>3. QED
      BY <3>1, <3>2
  <2>2. CASE e \in Joined(size, data)
    <3>1. PICK s \in data, t \in data : Beside(s, t) /\ e = <<Id(size, s), Id(size, t)>>
      BY <2>2 DEF Joined
    <3>2. QED
      BY <1>1, <1>6, <3>1
  <2>3. QED
    BY <2>1, <2>2 DEF FromTop
<1>8. QED
  BY <1>5, <1>6, <1>7 DEF Closed, C

\* A class is within every set that no link leaves and that it meets, so what hangs
\* from the top is wet.
LEMMA GridAgrees ==
  ASSUME GridInv
  PROVE  AGrid!TypeOK /\ AGrid!FullIsWet /\ AGrid!PercolatesByPath
<1> DEFINE n == size
           C == Wetness(n)
<1>1. /\ n \in Sizes /\ n \in Nat /\ n * n \in Nat /\ data \subseteq Cells(n)
      /\ Connects(first, 0..(n * n + 1), FromBoth(n, data))
      /\ Connects(last, 0..(n * n), FromTop(n, data))
  BY AssignmentAssumption, Numbers DEF GridInv
<1>2. n * n \in 0..(n * n) /\ n * n \in 0..(n * n + 1) /\ n * n + 1 \in 0..(n * n + 1)
  BY <1>1
<1>3. AGrid!TypeOK
  BY <1>1 DEF AGrid!TypeOK, AGrid!virtualTop, AGrid!virtualBottom, Connects, Cells
<1>4. /\ C \in SUBSET (0..(n * n)) /\ Closed(C, FromTop(n, data))
      /\ \A s \in data : Id(n, s) \in C <=> s \in AGrid!Wet
  BY <1>1, WetnessIsClosed
<1>5. n * n \in C
  BY DEF Wetness
<1>6. AGrid!Wet \subseteq data
  BY <1>1, WetIsClosed
<1> HIDE DEF C
<1>7. ASSUME NEW i \in 1..n, NEW j \in 1..n
      PROVE  AGrid!IsFull(i, j) <=> <<i, j>> \in AGrid!Wet
  <2>1. AGrid!IsFull(i, j) <=> <<i, j>> \in data /\ AGrid!Connected(last, Id(n, <<i, j>>), n * n)
    BY <1>1, OpenBeside DEF AGrid!IsFull, AGrid!IsOpen, AGrid!virtualTop
  <2>2. ASSUME <<i, j>> \in data, AGrid!Connected(last, Id(n, <<i, j>>), n * n)
        PROVE  <<i, j>> \in AGrid!Wet
    <3>1. Id(n, <<i, j>>) \in C
      <4>1. PICK c \in last : Id(n, <<i, j>>) \in c /\ n * n \in c
        BY <2>2 DEF AGrid!Connected
      <4>2. c \subseteq C \/ c \cap C = {}
        BY <1>1, <1>4, Zenon DEF Connects
      <4>3. QED
        BY <1>5, <4>1, <4>2
    <3>2. QED
      BY <1>4, <2>2, <3>1
  <2>3. ASSUME <<i, j>> \in AGrid!Wet
        PROVE  <<i, j>> \in data /\ AGrid!Connected(last, Id(n, <<i, j>>), n * n)
    BY <1>1, <1>2, <1>6, <2>3, WetHangs
  <2>4. QED
    BY <2>1, <2>2, <2>3
<1>8. ASSUME NEW s \in AGrid!Wet, s[1] = n PROVE AGrid!Percolates
  <2>1. n \in 1..n /\ s \in Cells(n)
    BY <1>1, <1>6, <1>8 DEF Cells
  <2>2. n = 1 => AGrid!IsOpen(1, 1)
    <3>1. n = 1 => s = <<1, 1>>
      BY <2>1 DEF Cells
    <3>2. QED
      BY <1>6, <3>1 DEF AGrid!IsOpen
  <2>3. FromTop(n, data) \subseteq FromBoth(n, data)
    BY DEF FromTop, FromBoth
  <2>4. AGrid!Connected(first, Id(n, s), n * n)
    BY <1>1, <1>2, <2>3, WetHangs
  <2>5. Id(n, s) \in AGrid!Row(n, n)
    BY <1>1, <1>8, <2>1, RowNumbers
  <2>6. <<n * n + 1, Id(n, s)>> \in FromBoth(n, data)
    BY <2>5 DEF FromBoth, Hung
  <2>7. AGrid!Connected(first, n * n, n * n + 1)
    <3>1. PICK c \in first : {Id(n, s), n * n} \subseteq c
      BY <2>4 DEF AGrid!Connected
    <3>2. \E d \in first : n * n + 1 \in d /\ Id(n, s) \in d
      BY <1>1, <2>6, Zenon DEF Connects
    <3>3. PICK d \in first : n * n + 1 \in d /\ Id(n, s) \in d
      BY <3>2
    <3>4. c = d
      BY <1>1, <3>1, <3>3 DEF Connects
    <3>5. QED
      BY <3>1, <3>3, <3>4 DEF AGrid!Connected
  <2>8. QED
    BY <2>2, <2>7 DEF AGrid!Percolates, AGrid!virtualTop, AGrid!virtualBottom
<1>9. ASSUME AGrid!Percolates, \A s \in AGrid!Wet : s[1] # n PROVE FALSE
  <2>1. /\ ~(n = 1 /\ ~(<<1, 1>> \in data))
        /\ AGrid!Connected(first, n * n, n * n + 1)
    BY <1>9 DEF AGrid!Percolates, AGrid!IsOpen, AGrid!virtualTop, AGrid!virtualBottom
  <2>2. n # 1
    <3>1. ASSUME n = 1 PROVE FALSE
      <4>1. <<1, 1>> \in data /\ <<1, 1>>[1] = 1
        BY <2>1, <3>1
      <4>2. <<1, 1>> \in AGrid!Wet
        BY <1>1, <4>1, WetIsClosed
      <4>3. QED
        BY <1>9, <3>1, <4>1, <4>2
    <3>2. QED
      BY <3>1
  <2>3. ASSUME NEW s \in Cells(n), s[1] = n PROVE Id(n, s) \notin C
    <3>1. 1 \in 1..n /\ Id(n, s) \in 0..(n * n - 1)
      BY <1>1, <2>3, Numbers DEF Cells
    <3>2. Id(n, s) # n * n
      BY <1>1, <3>1
    <3>3. \A t \in Cells(n) : Id(n, s) = Id(n, t) => s = t
      BY <1>1, Numbers
    <3>4. Id(n, s) \notin AGrid!Row(n, 1)
      <4>1. AGrid!Row(n, 1) = {Id(n, t) : t \in {u \in Cells(n) : u[1] = 1}}
        BY <1>1, <3>1, RowNumbers
      <4>2. QED
        BY <2>2, <2>3, <3>3, <4>1
    <3>5. Id(n, s) \notin {Id(n, t) : t \in AGrid!Wet}
      BY <1>1, <1>6, <1>9, <2>3, <3>3
    <3>6. QED
      BY <3>2, <3>4, <3>5 DEF C, Wetness
  <2>4. n * n + 1 \notin C
    BY <1>1, <1>4
  <2>5. ASSUME NEW e \in FromBoth(n, data) PROVE e[1] \in C <=> e[2] \in C
    <3>1. CASE e \in FromTop(n, data)
      BY <1>4, <3>1 DEF Closed
    <3>2. CASE e \in Hung(n, n * n + 1, n)
      <4>1. PICK t \in AGrid!Row(n, n) : e = <<n * n + 1, t>>
        BY <3>2 DEF Hung
      <4>2. t \notin C
        <5>1. CASE n = 0
          BY <5>1 DEF AGrid!Row
        <5>2. CASE n # 0
          <6>1. AGrid!Row(n, n) = {Id(n, s) : s \in {u \in Cells(n) : u[1] = n}}
            BY <1>1, <5>2, RowNumbers
          <6>2. QED
            BY <2>3, <6>1
        <5>3. QED
          BY <5>1, <5>2
      <4>3. QED
        BY <2>4, <4>1, <4>2
    <3>3. QED
      BY <3>1, <3>2 DEF FromBoth, FromTop
  <2>6. C \in SUBSET (0..(n * n + 1)) /\ Closed(C, FromBoth(n, data))
    <3>1. 0..(n * n) \subseteq 0..(n * n + 1)
      BY <1>1
    <3>2. QED
      BY <1>4, <2>5, <3>1 DEF Closed
  <2>7. AGrid!Connected(first, n * n + 1, n * n)
    BY <2>1 DEF AGrid!Connected
  <2>8. n * n + 1 \in C
    <3>1. PICK c \in first : n * n + 1 \in c /\ n * n \in c
      BY <2>7 DEF AGrid!Connected
    <3>2. c \subseteq C \/ c \cap C = {}
      BY <1>1, <2>6, Zenon DEF Connects
    <3>3. QED
      BY <1>5, <3>1, <3>2
  <2>9. QED
    BY <2>4, <2>8
<1>10. AGrid!FullIsWet
  BY <1>7 DEF AGrid!FullIsWet
<1>11. AGrid!PercolatesByPath
  BY <1>8, <1>9 DEF AGrid!PercolatesByPath
<1>12. QED
  BY <1>3, <1>10, <1>11

\* The invariant of the two structures holds of the program.
THEOREM GridInvariance == Spec => [](program = "percolation" => GridInv)
<1> DEFINE Inv == program = "percolation" => GridInv
<1>1. Init => Inv
  BY GridInit DEF Init
<1>2. ASSUME Inv, [Next]_vars PROVE Inv'
  <2>1. SUFFICES ASSUME program' = "percolation" PROVE GridInv'
    OBVIOUS
  <2>2. program = "percolation" /\ GridInv
    BY <1>2, <2>1 DEF Next, vars
  <2>3. AGrid!Next \/ UNCHANGED <<size, data, first, last>>
    BY <1>2, <2>2 DEF Next, vars
  <2>4. QED
    BY <2>2, <2>3, GridKeepsInv
<1>3. QED
  BY <1>1, <1>2, PTL DEF Spec

\* Percolation.java: in a grid of any size, a site is full exactly if an open path
\* leads to it from the first row, and the grid percolates exactly if one reaches
\* the last row, although open() marks no site and joins sets only.
THEOREM FullSafe == Spec => []FullIsWet
<1>1. (program = "percolation" => GridInv) => FullIsWet
  BY GridAgrees DEF FullIsWet
<1>2. QED
  BY <1>1, GridInvariance, PTL

-----------------------------------------------------------------------------
(* Deque.java: a doubly linked list with an iterator.                      *)

Node == [item : Items, next : 0..MaxNodes, previous : 0..MaxNodes]

\* Walk, from what the nodes are.
WalkOf(ns, n, f, k) ==
  LET w[i \in 1..k] == IF i = 1 THEN n
                       ELSE IF w[i - 1] = 0 THEN 0
                       ELSE ns[w[i - 1]][f]
  IN w

\* g is the walk step by step, and so it is the walk.
Steps(ns, n, f, k, g) ==
  /\ g = [i \in 1..k |-> g[i]]
  /\ 1 \in 1..k => g[1] = n
  /\ \A i \in 2..k : g[i] = IF g[i - 1] = 0 THEN 0 ELSE ns[g[i - 1]][f]

\* A walk is determined by its steps.
LEMMA WalkIs ==
  ASSUME NEW ns, NEW k \in Nat, NEW n, NEW f, NEW g, Steps(ns, n, f, k, g)
  PROVE  WalkOf(ns, n, f, k) = g
<1>0. /\ g = [i \in 1..k |-> g[i]]
      /\ 1 \in 1..k => g[1] = n
      /\ \A i \in 2..k : g[i] = IF g[i - 1] = 0 THEN 0 ELSE ns[g[i - 1]][f]
  BY DEF Steps
<1> DEFINE P(w) == w = [i \in 1..k |-> IF i = 1 THEN n
                                       ELSE IF w[i - 1] = 0 THEN 0
                                       ELSE ns[w[i - 1]][f]]
           w0 == WalkOf(ns, n, f, k)
<1>1. P(g)
  <2>1. \A i \in 1..k : g[i] = IF i = 1 THEN n
                               ELSE IF g[i - 1] = 0 THEN 0 ELSE ns[g[i - 1]][f]
    <3> SUFFICES ASSUME NEW i \in 1..k
                 PROVE  g[i] = IF i = 1 THEN n
                               ELSE IF g[i - 1] = 0 THEN 0 ELSE ns[g[i - 1]][f]
      OBVIOUS
    <3>1. i = 1 \/ i \in 2..k
      OBVIOUS
    <3>2. QED
      BY <1>0, <3>1
  <2>2. QED
    BY <1>0, <2>1
<1>2. w0 = CHOOSE w : P(w)
  BY DEF WalkOf
<1>3. P(w0)
  <2> HIDE DEF P
  <2>1. P(CHOOSE w : P(w))
    BY <1>1
  <2>2. QED
    BY <1>2, <2>1
<1>4. w0 = [i \in 1..k |-> w0[i]]
      /\ \A i \in 1..k : w0[i] = IF i = 1 THEN n
                               ELSE IF w0[i - 1] = 0 THEN 0 ELSE ns[w0[i - 1]][f]
  <2> HIDE DEF w0
  <2>1. w0 = [i \in 1..k |-> IF i = 1 THEN n
                             ELSE IF w0[i - 1] = 0 THEN 0 ELSE ns[w0[i - 1]][f]]
    BY <1>3
  <2>2. QED
    BY <2>1
<1> HIDE DEF w0, P
<1>5. \A i \in 1..k : w0[i] = g[i]
  <2> DEFINE T == {i \in 1..k : w0[i] # g[i]}
  <2>1. SUFFICES ASSUME T # {} PROVE FALSE
    OBVIOUS
  <2>2. PICK i \in T : \A j \in T : i <= j
    <3>1. T \in SUBSET Nat
      OBVIOUS
    <3>2. QED
      BY <2>1, <3>1, LeastNumber
  <2>3. i \in 1..k /\ w0[i] # g[i]
    BY <2>2
  <2>4. i # 1
    BY <1>0, <1>4, <2>3
  <2>5. i \in 2..k /\ i - 1 \in 1..k
    BY <2>3, <2>4
  <2>6. i - 1 \notin T
    BY <2>2, <2>3, <2>5
  <2>7. w0[i - 1] = g[i - 1]
    BY <2>5, <2>6
  <2>8. QED
    BY <1>0, <1>4, <2>3, <2>4, <2>5, <2>7
<1>6. w0 = g
  BY <1>0, <1>4, <1>5
<1>7. QED
  BY <1>6 DEF w0

\* There are no more places than nodes.
LEMMA NoMorePlaces ==
  ASSUME NEW k \in Nat, NEW l \in Nat, NEW p \in [1..k -> 1..l],
         \A i, j \in 1..k : p[i] = p[j] => i = j
  PROVE  k <= l
<1>1. p \in Injection(1..k, 1..l)
  BY DEF Injection, IsInjective
<1>2. Cardinality(1..k) = k /\ Cardinality(1..l) = l /\ IsFiniteSet(1..l)
  BY FS_Interval
<1>3. Cardinality(1..k) <= Cardinality(1..l)
  BY <1>1, <1>2, FS_Injection
<1>4. QED
  BY <1>2, <1>3

\* ns2 are the nodes ns, with node n's link f to m.
Relinked(ns, ns2, n, f, m) ==
  /\ ns2 \in Seq(Node) /\ Len(ns2) = Len(ns)
  /\ \A i \in 1..Len(ns) :
       /\ ns2[i].item = ns[i].item
       /\ \A h \in {"next", "previous"} : ns2[i][h] = IF i = n /\ h = f THEN m ELSE ns[i][h]

\* Linked() relinks nothing but that.
LEMMA LinkedNodes ==
  ASSUME NEW ns \in Seq(Node), NEW n \in 1..Len(ns), NEW m \in 0..MaxNodes,
         NEW f \in {"next", "previous"}
  PROVE  Relinked(ns, ADeque!Linked(ns, n, f, m), n, f, m)
<1>1. ns[n] \in Node
  BY ElementOfSeq
<1> DEFINE x == IF f = "next" THEN [ns[n] EXCEPT !.next = m] ELSE [ns[n] EXCEPT !.previous = m]
           ns2 == ADeque!Linked(ns, n, f, m)
<1>2. /\ x \in Node /\ x.item = ns[n].item
      /\ x["next"] = IF "next" = f THEN m ELSE ns[n]["next"]
      /\ x["previous"] = IF "previous" = f THEN m ELSE ns[n]["previous"]
  BY <1>1 DEF Node
<1>3. ns2 = [ns EXCEPT ![n] = x]
  BY DEF ADeque!Linked
<1> HIDE DEF x, ns2
<1>4. ns2 \in Seq(Node) /\ Len(ns2) = Len(ns)
      /\ \A i \in 1..Len(ns) : ns2[i] = IF i = n THEN x ELSE ns[i]
  BY <1>2, <1>3
<1>5. \A h \in {"next", "previous"} : x[h] = IF h = f THEN m ELSE ns[n][h]
  BY <1>2
<1>6. QED
  BY <1>2, <1>4, <1>5 DEF ns2, Relinked

\* m are the n nodes of the deque from its end b to its end e, in the order of
\* their links f, which their links g mirror.
Chain(m, n, ns, b, e, f, g) ==
  /\ n \in Nat
  /\ m \in [1..n -> 1..Len(ns)]
  /\ \A i, j \in 1..n : m[i] = m[j] => i = j
  /\ IF n = 0 THEN b = 0 /\ e = 0 ELSE b = m[1] /\ e = m[n]
  /\ \A i \in 1..n : /\ ns[m[i]][f] = IF i = n THEN 0 ELSE m[i + 1]
                     /\ ns[m[i]][g] = IF i = 1 THEN 0 ELSE m[i - 1]

Back(m, n) == [i \in 1..n |-> m[n + 1 - i]]

\* Read from the other end it is a chain as well.
LEMMA ChainTurned ==
  ASSUME NEW m, NEW n, NEW ns, NEW b, NEW e, NEW f, NEW g, Len(ns) \in Nat,
         Chain(m, n, ns, b, e, f, g)
  PROVE  Chain(Back(m, n), n, ns, e, b, g, f)
<1>1. /\ n \in Nat /\ m \in [1..n -> 1..Len(ns)]
      /\ \A i, j \in 1..n : m[i] = m[j] => i = j
      /\ IF n = 0 THEN b = 0 /\ e = 0 ELSE b = m[1] /\ e = m[n]
      /\ \A i \in 1..n : /\ ns[m[i]][f] = IF i = n THEN 0 ELSE m[i + 1]
                         /\ ns[m[i]][g] = IF i = 1 THEN 0 ELSE m[i - 1]
  BY DEF Chain
<1> DEFINE w == Back(m, n)
<1>2. \A i \in 1..n : n + 1 - i \in 1..n /\ w[i] = m[n + 1 - i] /\ w[i] \in 1..Len(ns)
  BY <1>1 DEF Back
<1>3. w \in [1..n -> 1..Len(ns)]
  BY <1>1, <1>2 DEF Back
<1> HIDE DEF w
<1>4. ASSUME NEW i \in 1..n, NEW j \in 1..n, w[i] = w[j] PROVE i = j
  <2>1. n + 1 - i = n + 1 - j
    BY <1>1, <1>2, <1>4
  <2>2. QED
    BY <1>1, <2>1
<1>5. IF n = 0 THEN e = 0 /\ b = 0 ELSE e = w[1] /\ b = w[n]
  <2>1. n # 0 => 1 \in 1..n /\ n \in 1..n /\ n + 1 - 1 = n /\ n + 1 - n = 1
    BY <1>1
  <2>2. QED
    BY <1>1, <1>2, <2>1
<1>6. ASSUME NEW i \in 1..n
      PROVE  /\ ns[w[i]][g] = IF i = n THEN 0 ELSE w[i + 1]
             /\ ns[w[i]][f] = IF i = 1 THEN 0 ELSE w[i - 1]
  <2>1. /\ n + 1 - i \in 1..n /\ w[i] = m[n + 1 - i]
        /\ n + 1 - i = 1 <=> i = n
        /\ n + 1 - i = n <=> i = 1
    BY <1>1, <1>2
  <2>2. i # n => w[i + 1] = m[(n + 1 - i) - 1]
    <3>1. i # n => i + 1 \in 1..n /\ n + 1 - (i + 1) = (n + 1 - i) - 1
      BY <1>1
    <3>2. QED
      BY <1>2, <3>1
  <2>3. i # 1 => w[i - 1] = m[(n + 1 - i) + 1]
    <3>1. i # 1 => i - 1 \in 1..n /\ n + 1 - (i - 1) = (n + 1 - i) + 1
      BY <1>1
    <3>2. QED
      BY <1>2, <3>1
  <2>4. /\ ns[m[n + 1 - i]][f] = IF n + 1 - i = n THEN 0 ELSE m[(n + 1 - i) + 1]
        /\ ns[m[n + 1 - i]][g] = IF n + 1 - i = 1 THEN 0 ELSE m[(n + 1 - i) - 1]
    BY <1>1, <2>1
  <2>5. ns[w[i]][g] = IF i = n THEN 0 ELSE w[i + 1]
    BY <2>1, <2>2, <2>4
  <2>6. ns[w[i]][f] = IF i = 1 THEN 0 ELSE w[i - 1]
    BY <2>1, <2>3, <2>4
  <2>7. QED
    BY <2>5, <2>6
<1>7. QED
  BY <1>1, <1>3, <1>4, <1>5, <1>6 DEF Chain, w

\* m2 are the n places m with x before them, and without the first of them.
Longer(m, n, x, m2) == /\ m2 \in [1..(n + 1) -> 1..x]
                       /\ m2[1] = x
                       /\ \A i \in 1..n : m2[i + 1] = m[i]

Shorter(m, n, l, m2) == /\ m2 \in [1..(n - 1) -> 1..l]
                        /\ \A i \in 1..(n - 1) : m2[i] = m[i + 1]

\* ns2 are ns with a node linked to the node b, whose link g it has set, and ns with
\* the node after b no longer linked to it.
Grown(ns, ns2, n, b, f, g) ==
  /\ Len(ns2) = Len(ns) + 1
  /\ \A i \in 1..Len(ns) : /\ ns2[i][f] = ns[i][f]
                           /\ ns2[i][g] = IF n # 0 /\ i = b THEN Len(ns) + 1 ELSE ns[i][g]
  /\ ns2[Len(ns) + 1][f] = b /\ ns2[Len(ns) + 1][g] = 0

Cut(ns, ns2, b, f, g) ==
  /\ Len(ns2) = Len(ns)
  /\ \A i \in 1..Len(ns) : /\ ns2[i][f] = ns[i][f]
                           /\ ns2[i][g] = IF i = ns[b][f] THEN 0 ELSE ns[i][g]

\* A node linked before the chain makes a longer one.
LEMMA ChainGrows ==
  ASSUME NEW m, NEW n, NEW ns, NEW b, NEW e, NEW f, NEW g, Len(ns) \in Nat,
         Chain(m, n, ns, b, e, f, g),
         NEW ns2, Grown(ns, ns2, n, b, f, g), NEW m2, Longer(m, n, Len(ns) + 1, m2)
  PROVE  Chain(m2, n + 1, ns2, Len(ns) + 1, IF n = 0 THEN Len(ns) + 1 ELSE e, f, g)
<1> DEFINE x == Len(ns) + 1
<1>a. /\ Len(ns2) = x
      /\ \A i \in 1..Len(ns) : /\ ns2[i][f] = ns[i][f]
                               /\ ns2[i][g] = IF n # 0 /\ i = b THEN x ELSE ns[i][g]
      /\ ns2[x][f] = b /\ ns2[x][g] = 0
  BY DEF Grown
<1>b. m2 \in [1..(n + 1) -> 1..x] /\ m2[1] = x /\ \A i \in 1..n : m2[i + 1] = m[i]
  BY DEF Longer
<1>c. x \in Nat /\ x \notin 1..Len(ns)
  OBVIOUS
<1> HIDE DEF x
<1>1. /\ n \in Nat /\ m \in [1..n -> 1..Len(ns)]
      /\ \A i, j \in 1..n : m[i] = m[j] => i = j
      /\ IF n = 0 THEN b = 0 /\ e = 0 ELSE b = m[1] /\ e = m[n]
      /\ \A i \in 1..n : /\ ns[m[i]][f] = IF i = n THEN 0 ELSE m[i + 1]
                         /\ ns[m[i]][g] = IF i = 1 THEN 0 ELSE m[i - 1]
  BY DEF Chain
<1>2. /\ m2[1] = x /\ x \notin 1..Len(ns)
      /\ \A i \in 2..(n + 1) : i - 1 \in 1..n /\ m2[i] = m[i - 1] /\ m2[i] \in 1..Len(ns)
  <2>1. \A i \in 2..(n + 1) : i - 1 \in 1..n /\ (i - 1) + 1 = i
    BY <1>1
  <2>2. \A i \in 2..(n + 1) : m2[i] = m[i - 1]
    BY <1>b, <2>1
  <2>3. QED
    BY <1>1, <1>b, <1>c, <2>1, <2>2
<1>3. \A i \in 1..(n + 1) : i = 1 \/ i \in 2..(n + 1)
  BY <1>1
<1>4. ASSUME NEW i \in 1..(n + 1), NEW j \in 1..(n + 1), m2[i] = m2[j] PROVE i = j
  <2>1. CASE i = 1 \/ j = 1
    BY <1>2, <1>3, <1>4, <2>1
  <2>2. CASE i # 1 /\ j # 1
    <3>1. i \in 2..(n + 1) /\ j \in 2..(n + 1)
      BY <1>3, <2>2
    <3>2. i - 1 = j - 1
      BY <1>1, <1>2, <1>4, <3>1
    <3>3. QED
      BY <3>2
  <2>3. QED
    BY <2>1, <2>2
<1>5. x = m2[1] /\ (IF n = 0 THEN x ELSE e) = m2[n + 1] /\ n + 1 # 0 /\ n + 1 \in Nat
  <2>1. n # 0 => n + 1 \in 2..(n + 1) /\ (n + 1) - 1 = n
    BY <1>1
  <2>2. QED
    BY <1>1, <1>2, <2>1
<1>6. /\ ns2[m2[1]][f] = IF 1 = n + 1 THEN 0 ELSE m2[1 + 1]
      /\ ns2[m2[1]][g] = 0
  <2>1. CASE n = 0
    BY <1>1, <1>2, <1>a, <2>1
  <2>2. CASE n # 0
    <3>1. 2 \in 2..(n + 1) /\ 1 \in 1..n /\ 1 # n + 1
      BY <1>1, <2>2
    <3>2. m2[2] = m[1]
      BY <1>2, <3>1
    <3>3. QED
      BY <1>1, <1>2, <1>a, <2>2, <3>1, <3>2
  <2>3. QED
    BY <2>1, <2>2
<1>7. ASSUME NEW i \in 2..(n + 1)
      PROVE  /\ ns2[m2[i]][f] = IF i = n + 1 THEN 0 ELSE m2[i + 1]
             /\ ns2[m2[i]][g] = m2[i - 1]
  <2>1. i - 1 \in 1..n /\ m2[i] = m[i - 1] /\ m2[i] \in 1..Len(ns) /\ n # 0
    BY <1>1, <1>2
  <2>2. /\ ns2[m2[i]][f] = ns[m[i - 1]][f]
        /\ ns2[m2[i]][g] = IF m[i - 1] = b THEN x ELSE ns[m[i - 1]][g]
    BY <1>a, <2>1
  <2>3. ns[m[i - 1]][f] = IF i - 1 = n THEN 0 ELSE m[(i - 1) + 1]
    BY <1>1, <2>1
  <2>4. i # n + 1 => m2[i + 1] = m[i]
    <3>1. i # n + 1 => i + 1 \in 2..(n + 1) /\ (i + 1) - 1 = i
      BY <1>1
    <3>2. QED
      BY <1>2, <3>1
  <2>5. (i - 1 = n <=> i = n + 1) /\ (i - 1) + 1 = i
    BY <1>1
  <2>6. ns2[m2[i]][f] = IF i = n + 1 THEN 0 ELSE m2[i + 1]
    BY <2>2, <2>3, <2>4, <2>5
  <2>7. CASE i = 2
    BY <1>1, <1>2, <2>1, <2>2, <2>6, <2>7
  <2>8. CASE i # 2
    <3>1. i - 1 # 1 /\ i - 1 \in 2..(n + 1) /\ 1 \in 1..n
      BY <1>1, <2>1, <2>8
    <3>2. m[i - 1] # b /\ ns[m[i - 1]][g] = m[(i - 1) - 1]
      BY <1>1, <2>1, <3>1
    <3>3. m2[i - 1] = m[(i - 1) - 1]
      BY <1>2, <3>1
    <3>4. QED
      BY <2>2, <2>6, <3>2, <3>3
  <2>9. QED
    BY <2>7, <2>8
<1>8. ASSUME NEW i \in 1..(n + 1)
      PROVE  /\ ns2[m2[i]][f] = IF i = n + 1 THEN 0 ELSE m2[i + 1]
             /\ ns2[m2[i]][g] = IF i = 1 THEN 0 ELSE m2[i - 1]
  <2>1. CASE i = 1
    BY <1>6, <2>1
  <2>2. CASE i # 1
    BY <1>3, <1>7, <2>2
  <2>3. QED
    BY <2>1, <2>2
<1>9. QED
  BY <1>4, <1>5, <1>8, <1>a, <1>b DEF Chain, x

\* Without its first node, the second having lost its link, it is one as well.
LEMMA ChainShrinks ==
  ASSUME NEW m, NEW n, NEW ns, NEW b, NEW e, NEW f, NEW g, Len(ns) \in Nat,
         Chain(m, n, ns, b, e, f, g), n \notin {0, 1},
         NEW ns2, Cut(ns, ns2, b, f, g), NEW m2, Shorter(m, n, Len(ns), m2)
  PROVE  /\ ns[b][f] = m[2] /\ ns[b][f] \in 1..Len(ns)
         /\ Chain(m2, n - 1, ns2, ns[b][f], e, f, g)
<1>a. /\ Len(ns2) = Len(ns)
      /\ \A i \in 1..Len(ns) : /\ ns2[i][f] = ns[i][f]
                               /\ ns2[i][g] = IF i = ns[b][f] THEN 0 ELSE ns[i][g]
  BY DEF Cut
<1>b. m2 \in [1..(n - 1) -> 1..Len(ns)] /\ \A i \in 1..(n - 1) : m2[i] = m[i + 1]
  BY DEF Shorter
<1>1. /\ n \in Nat /\ m \in [1..n -> 1..Len(ns)]
      /\ \A i, j \in 1..n : m[i] = m[j] => i = j
      /\ b = m[1] /\ e = m[n]
      /\ \A i \in 1..n : /\ ns[m[i]][f] = IF i = n THEN 0 ELSE m[i + 1]
                         /\ ns[m[i]][g] = IF i = 1 THEN 0 ELSE m[i - 1]
  BY DEF Chain
<1>2. /\ n - 1 \in Nat /\ n - 1 # 0 /\ 1 \in 1..n /\ 2 \in 1..n /\ n \in 1..n /\ n # 1
      /\ \A i \in 1..(n - 1) : i + 1 \in 1..n /\ i + 1 # 1 /\ (i + 1 = n <=> i = n - 1)
                               /\ i \in 1..n /\ (i + 1 = 2 <=> i = 1) /\ (i + 1) - 1 = i
      /\ 1 \in 1..(n - 1) /\ n - 1 \in 1..(n - 1) /\ (n - 1) + 1 = n
  BY <1>1
<1>3. ns[b][f] = m[2] /\ m[2] \in 1..Len(ns)
  BY <1>1, <1>2
<1>4. ASSUME NEW i \in 1..(n - 1), NEW j \in 1..(n - 1), m2[i] = m2[j] PROVE i = j
  <2>1. i + 1 = j + 1
    BY <1>1, <1>2, <1>4, <1>b
  <2>2. QED
    BY <1>2, <2>1
<1>5. m[2] = m2[1] /\ e = m2[n - 1]
  <2>1. m2[1] = m[1 + 1] /\ m2[n - 1] = m[(n - 1) + 1]
    BY <1>2, <1>b
  <2>2. QED
    BY <1>1, <1>2, <2>1
<1>6. ASSUME NEW i \in 1..(n - 1)
      PROVE  /\ ns2[m2[i]][f] = IF i = n - 1 THEN 0 ELSE m2[i + 1]
             /\ ns2[m2[i]][g] = IF i = 1 THEN 0 ELSE m2[i - 1]
  <2>1. /\ m2[i] = m[i + 1] /\ m2[i] \in 1..Len(ns)
        /\ ns[m[i + 1]][f] = IF i + 1 = n THEN 0 ELSE m[(i + 1) + 1]
        /\ ns[m[i + 1]][g] = m[i]
    BY <1>1, <1>2, <1>b
  <2>2. /\ ns2[m2[i]][f] = ns[m[i + 1]][f]
        /\ ns2[m2[i]][g] = IF m[i + 1] = m[2] THEN 0 ELSE ns[m[i + 1]][g]
    BY <1>3, <1>a, <2>1
  <2>3. i # n - 1 => m2[i + 1] = m[(i + 1) + 1]
    <3>1. i # n - 1 => i + 1 \in 1..(n - 1)
      BY <1>2
    <3>2. QED
      BY <1>b, <3>1
  <2>4. i # 1 => m2[i - 1] = m[i]
    <3>1. i # 1 => i - 1 \in 1..(n - 1) /\ (i - 1) + 1 = i
      BY <1>2
    <3>2. QED
      BY <1>b, <3>1
  <2>5. m[i + 1] = m[2] <=> i = 1
    BY <1>1, <1>2
  <2>6. QED
    BY <1>2, <2>1, <2>2, <2>3, <2>4, <2>5
<1>7. m2 \in [1..(n - 1) -> 1..Len(ns2)]
  BY <1>a, <1>b
<1>8. QED
  BY <1>2, <1>3, <1>4, <1>5, <1>6, <1>7 DEF Chain

\* The nodes ns and a new one, to which the link h of the node b is set, if there is
\* a node; what that changes.
With(ns, node, n, b, h) ==
  IF n = 0 THEN Append(ns, node) ELSE ADeque!Linked(Append(ns, node), b, h, Len(ns) + 1)

Added(ns, ns2, node, n, b, h) ==
  /\ ns2 \in Seq(Node) /\ Len(ns2) = Len(ns) + 1 /\ Len(ns2) <= MaxNodes
  /\ \A i \in 1..Len(ns) :
       /\ ns2[i].item = ns[i].item
       /\ \A k \in {"next", "previous"} :
            ns2[i][k] = IF n # 0 /\ i = b /\ k = h THEN Len(ns) + 1 ELSE ns[i][k]
  /\ ns2[Len(ns) + 1].item = node.item
  /\ \A k \in {"next", "previous"} : ns2[Len(ns) + 1][k] = node[k]

\* A node added is a node and, if there is a neighbour, one link to it.
LEMMA NodeAdded ==
  ASSUME NEW ns \in Seq(Node), Len(ns) < MaxNodes, NEW node \in Node, NEW n, NEW b,
         n # 0 => b \in 1..Len(ns), NEW h \in {"next", "previous"}
  PROVE  Added(ns, With(ns, node, n, b, h), node, n, b, h)
<1> DEFINE ns2 == With(ns, node, n, b, h)
<1> DEFINE made == Append(ns, node)
           x == Len(ns) + 1
<1>1. Len(ns) \in Nat /\ MaxNodes \in Nat
  BY AssignmentAssumption
<1>2. /\ x \in 0..MaxNodes /\ x <= MaxNodes /\ x \in 1..x /\ x \notin 1..Len(ns)
      /\ \A i \in 1..Len(ns) : i \in 1..x
  BY <1>1
<1>3. /\ made \in Seq(Node) /\ Len(made) = x /\ made[x] = node
      /\ \A i \in 1..Len(ns) : made[i] = ns[i]
  OBVIOUS
<1> HIDE DEF made, x, ns2
<1>4. CASE n = 0
  BY <1>2, <1>3, <1>4 DEF made, x, ns2, With, Added
<1>5. CASE n # 0
  <2>1. b \in 1..Len(made) /\ b # x
    BY <1>2, <1>3, <1>5
  <2>2. ns2 = ADeque!Linked(made, b, h, x)
    BY <1>5 DEF made, x, ns2, With
  <2>3. /\ ns2 \in Seq(Node) /\ Len(ns2) = x
        /\ \A i \in 1..x : /\ ns2[i].item = made[i].item
                           /\ \A k \in {"next", "previous"} :
                                ns2[i][k] = IF i = b /\ k = h THEN x ELSE made[i][k]
    <3>1. made \in Seq(Node) /\ b \in 1..Len(made) /\ x \in 0..MaxNodes
      BY <1>2, <1>3, <2>1
    <3>2. Relinked(made, ADeque!Linked(made, b, h, x), b, h, x)
      BY <3>1, LinkedNodes
    <3>3. QED
      BY <1>3, <2>2, <3>2 DEF Relinked
  <2>4. \A i \in 1..Len(ns) : /\ ns2[i].item = ns[i].item
                              /\ \A k \in {"next", "previous"} :
                                   ns2[i][k] = IF i = b /\ k = h THEN x ELSE ns[i][k]
    BY <1>2, <1>3, <2>3
  <2>5. /\ ns2[x].item = node.item
        /\ \A k \in {"next", "previous"} : ns2[x][k] = node[k]
    BY <1>2, <1>3, <2>1, <2>3
  <2>6. QED
    BY <1>2, <1>5, <2>3, <2>4, <2>5 DEF x, ns2, Added
<1>6. QED
  BY <1>4, <1>5

\* p are k nodes on the way from c, the last q of which are the last of the deque;
\* no node of the deque before these is owed.
OnWay(m, n, ns, c, ow, k, q, p) ==
  /\ k \in Nat \ {0} /\ q \in 1..n /\ q <= k
  /\ p \in [1..k -> 1..Len(ns)] /\ p[1] = c
  /\ \A i, j \in 1..k : p[i] = p[j] => i = j
  /\ \A i \in 1..(k - 1) : ns[p[i]]["next"] = p[i + 1]
  /\ \A i \in 1..q : p[k - q + i] = m[n - q + i]
  /\ \A j \in 1..n : m[j] \in ow => j > n - q

\* No node of the deque is owed, or c leads to all that are.
Ahead(m, n, ns, c, ow) ==
  \/ \A i \in 1..n : m[i] \notin ow
  \/ \E k, q, p : OnWay(m, n, ns, c, ow, k, q, p)

\* A chain in front of which a node is linked.
LEMMA AheadAddedFirst ==
  ASSUME NEW n \in Nat, NEW ns, Len(ns) \in Nat, NEW m \in [1..n -> 1..Len(ns)],
         NEW c, NEW ow \in SUBSET (1..Len(ns)), Ahead(m, n, ns, c, ow),
         NEW ns2, Len(ns2) = Len(ns) + 1,
         \A i \in 1..Len(ns) : ns2[i]["next"] = ns[i]["next"],
         NEW m2, Longer(m, n, Len(ns) + 1, m2)
  PROVE  Ahead(m2, n + 1, ns2, c, ow)
<1>1. /\ m2[1] = Len(ns) + 1 /\ m2[1] \notin ow
      /\ \A i \in 1..n : m2[i + 1] = m[i]
  BY DEF Longer
<1>2. \A j \in 1..(n + 1) : j = 1 \/ (j - 1 \in 1..n /\ (j - 1) + 1 = j)
  OBVIOUS
<1>3. \A j \in 1..(n + 1) : j # 1 => m2[j] = m[j - 1]
  BY <1>1, <1>2
<1>4. CASE \A i \in 1..n : m[i] \notin ow
  BY <1>1, <1>2, <1>3, <1>4 DEF Ahead
<1>5. CASE \E k, q, p : OnWay(m, n, ns, c, ow, k, q, p)
  <2>1. PICK k, q, p : OnWay(m, n, ns, c, ow, k, q, p)
    BY <1>5
  <2>2. /\ k \in Nat \ {0} /\ q \in 1..n /\ q <= k
        /\ p \in [1..k -> 1..Len(ns)] /\ p[1] = c
        /\ \A i, j \in 1..k : p[i] = p[j] => i = j
        /\ \A i \in 1..(k - 1) : ns[p[i]]["next"] = p[i + 1]
        /\ \A i \in 1..q : p[k - q + i] = m[n - q + i]
        /\ \A j \in 1..n : m[j] \in ow => j > n - q
    BY <2>1 DEF OnWay
  <2>3. q \in 1..(n + 1) /\ p \in [1..k -> 1..Len(ns2)]
    BY <2>2
  <2>4. \A i \in 1..(k - 1) : ns2[p[i]]["next"] = p[i + 1]
    <3>1. \A i \in 1..(k - 1) : i \in 1..k
      BY <2>2
    <3>2. QED
      BY <2>2, <3>1
  <2>5. ASSUME NEW i \in 1..q PROVE p[k - q + i] = m2[(n + 1) - q + i]
    <3>1. n - q + i \in 1..n /\ (n + 1) - q + i = (n - q + i) + 1
      BY <2>2
    <3>2. QED
      BY <1>1, <2>2, <3>1
  <2>6. ASSUME NEW j \in 1..(n + 1), m2[j] \in ow PROVE j > (n + 1) - q
    <3>1. j - 1 \in 1..n /\ m[j - 1] \in ow
      BY <1>1, <1>2, <1>3, <2>6
    <3>2. j - 1 > n - q
      BY <2>2, <3>1
    <3>3. QED
      BY <2>2, <3>2
  <2>7. OnWay(m2, n + 1, ns2, c, ow, k, q, p)
    BY <2>2, <2>3, <2>4, <2>5, <2>6 DEF OnWay
  <2>8. QED
    BY <2>7 DEF Ahead
<1>6. QED
  BY <1>4, <1>5 DEF Ahead

\* A chain behind which a node is linked: m2 are the n places m and x.
Extended(m, n, x, m2) == m2[n + 1] = x /\ \A i \in 1..n : m2[i] = m[i]

LastLinked(m, n, ns, ns2) ==
  /\ Len(ns2) = Len(ns) + 1
  /\ \A i \in 1..Len(ns) : ns2[i]["next"] = IF n # 0 /\ i = m[n] THEN Len(ns) + 1
                                             ELSE ns[i]["next"]

\* An iterator is as far from the end of the longer list, by the new node.
LEMMA AheadAddedLast ==
  ASSUME NEW n \in Nat, NEW ns, Len(ns) \in Nat, NEW m \in [1..n -> 1..Len(ns)],
         NEW c, NEW ow \in SUBSET (1..Len(ns)), Ahead(m, n, ns, c, ow),
         NEW ns2, LastLinked(m, n, ns, ns2), NEW m2, Extended(m, n, Len(ns) + 1, m2)
  PROVE  Ahead(m2, n + 1, ns2, c, ow)
<1> DEFINE x == Len(ns) + 1
<1>a. /\ Len(ns2) = x /\ m2[n + 1] = x /\ \A i \in 1..n : m2[i] = m[i]
      /\ \A i \in 1..Len(ns) :
           ns2[i]["next"] = IF n # 0 /\ i = m[n] THEN x ELSE ns[i]["next"]
  BY DEF LastLinked, Extended
<1>b. x \in 1..x /\ x \notin 1..Len(ns) /\ \A i \in 1..Len(ns) : i \in 1..x
  OBVIOUS
<1> HIDE DEF x
<1>1. m2[n + 1] \notin ow
  BY <1>a, <1>b
<1>2. \A j \in 1..(n + 1) : j = n + 1 \/ (j \in 1..n /\ j # n + 1)
  OBVIOUS
<1>4. CASE \A i \in 1..n : m[i] \notin ow
  BY <1>1, <1>2, <1>4, <1>a DEF Ahead
<1>5. CASE \E k, q, p : OnWay(m, n, ns, c, ow, k, q, p)
  <2>1. PICK k, q, p : OnWay(m, n, ns, c, ow, k, q, p)
    BY <1>5
  <2>2. /\ k \in Nat \ {0} /\ q \in 1..n /\ q <= k
        /\ p \in [1..k -> 1..Len(ns)] /\ p[1] = c
        /\ \A i, j \in 1..k : p[i] = p[j] => i = j
        /\ \A i \in 1..(k - 1) : ns[p[i]]["next"] = p[i + 1]
        /\ \A i \in 1..q : p[k - q + i] = m[n - q + i]
        /\ \A j \in 1..n : m[j] \in ow => j > n - q
    BY <2>1 DEF OnWay
  <2> DEFINE p2 == [i \in 1..(k + 1) |-> IF i = k + 1 THEN x ELSE p[i]]
  <2>a. \A i \in 1..(k + 1) : i = k + 1 \/ (i \in 1..k /\ i # k + 1)
    BY <2>2
  <2>b. p2[k + 1] = x /\ \A i \in 1..k : p2[i] = p[i] /\ i # k + 1
    BY <2>2
  <2>c. p2 \in [1..(k + 1) -> 1..Len(ns2)]
    BY <1>a, <1>b, <2>2, <2>a
  <2> HIDE DEF p2
  <2>d. p[k] = m[n] /\ n # 0 /\ k \in 1..k
    <3>1. q \in 1..q /\ k - q + q = k /\ n - q + q = n /\ n # 0 /\ k \in 1..k
      BY <2>2
    <3>2. p[k - q + q] = m[n - q + q]
      BY <2>2, <3>1
    <3>3. QED
      BY <3>1, <3>2
  <2>3. q + 1 \in 1..(n + 1) /\ q + 1 <= k + 1 /\ k + 1 \in Nat \ {0}
    BY <2>2
  <2>4. p2[1] = c
    BY <2>2, <2>b
  <2>5. ASSUME NEW i \in 1..(k + 1), NEW j \in 1..(k + 1), p2[i] = p2[j] PROVE i = j
    <3>1. \A l \in 1..k : p2[l] # x
      <4>1. \A l \in 1..k : p2[l] \in 1..Len(ns)
        BY <2>2, <2>b
      <4>2. QED
        BY <1>b, <4>1
    <3>2. CASE i \in 1..k /\ j \in 1..k
      BY <2>2, <2>5, <2>b, <3>2
    <3>3. CASE i \notin 1..k \/ j \notin 1..k
      BY <2>5, <2>a, <2>b, <3>1, <3>3
    <3>4. QED
      BY <3>2, <3>3
  <2>6. ASSUME NEW i \in 1..((k + 1) - 1) PROVE ns2[p2[i]]["next"] = p2[i + 1]
    <3>1. i \in 1..k /\ p2[i] = p[i] /\ p[i] \in 1..Len(ns)
      BY <2>2, <2>b
    <3>2. CASE i = k
      BY <1>a, <2>b, <2>d, <3>1, <3>2
    <3>3. CASE i # k
      <4>1. i \in 1..(k - 1) /\ i + 1 \in 1..k
        BY <2>2, <3>1, <3>3
      <4>2. p[i] # m[n]
        BY <2>2, <2>d, <3>1, <3>3
      <4>3. ns2[p[i]]["next"] = ns[p[i]]["next"]
        BY <1>a, <3>1, <4>2
      <4>4. QED
        BY <2>2, <2>b, <3>1, <4>1, <4>3
    <3>4. QED
      BY <3>2, <3>3
  <2>7. ASSUME NEW i \in 1..(q + 1) PROVE p2[(k + 1) - (q + 1) + i] = m2[(n + 1) - (q + 1) + i]
    <3>1. /\ (k + 1) - (q + 1) + i = k - q + i /\ (n + 1) - (q + 1) + i = n - q + i
          /\ i = q + 1 => k - q + i = k + 1 /\ n - q + i = n + 1
          /\ i # q + 1 => i \in 1..q /\ k - q + i \in 1..k /\ n - q + i \in 1..n
      BY <2>2
    <3>2. CASE i = q + 1
      BY <1>a, <2>b, <3>1, <3>2
    <3>3. CASE i # q + 1
      <4>1. p2[k - q + i] = p[k - q + i] /\ m2[n - q + i] = m[n - q + i]
        BY <1>a, <2>b, <3>1, <3>3
      <4>2. p[k - q + i] = m[n - q + i]
        BY <2>2, <3>1, <3>3
      <4>3. QED
        BY <3>1, <4>1, <4>2
    <3>4. QED
      BY <3>2, <3>3
  <2>8. ASSUME NEW j \in 1..(n + 1), m2[j] \in ow PROVE j > (n + 1) - (q + 1)
    <3>1. j \in 1..n /\ m[j] \in ow
      BY <1>1, <1>2, <1>a, <2>8
    <3>2. j > n - q
      BY <2>2, <3>1
    <3>3. QED
      BY <2>2, <3>2
  <2>9. OnWay(m2, n + 1, ns2, c, ow, k + 1, q + 1, p2)
    BY <2>3, <2>4, <2>5, <2>6, <2>7, <2>8, <2>c DEF OnWay
  <2>10. QED
    BY <2>9 DEF Ahead
<1>6. QED
  BY <1>4, <1>5 DEF Ahead

\* A chain without its first node, which keeps its link.
LEMMA AheadRemovedFirst ==
  ASSUME NEW n \in Nat \ {0, 1}, NEW ns, Len(ns) \in Nat, NEW m \in [1..n -> 1..Len(ns)],
         NEW c, NEW ow, Ahead(m, n, ns, c, ow),
         NEW ns2, Len(ns2) = Len(ns),
         \A i \in 1..Len(ns) : ns2[i]["next"] = ns[i]["next"],
         NEW m2, Shorter(m, n, Len(ns), m2)
  PROVE  Ahead(m2, n - 1, ns2, c, ow)
<1>a. \A i \in 1..(n - 1) : m2[i] = m[i + 1]
  BY DEF Shorter
<1>1. \A i \in 1..(n - 1) : i + 1 \in 1..n
  OBVIOUS
<1>4. CASE \A i \in 1..n : m[i] \notin ow
  BY <1>1, <1>4, <1>a DEF Ahead
<1>5. CASE \E k, q, p : OnWay(m, n, ns, c, ow, k, q, p)
  <2>1. PICK k, q, p : OnWay(m, n, ns, c, ow, k, q, p)
    BY <1>5
  <2>2. /\ k \in Nat \ {0} /\ q \in 1..n /\ q <= k
        /\ p \in [1..k -> 1..Len(ns)] /\ p[1] = c
        /\ \A i, j \in 1..k : p[i] = p[j] => i = j
        /\ \A i \in 1..(k - 1) : ns[p[i]]["next"] = p[i + 1]
        /\ \A i \in 1..q : p[k - q + i] = m[n - q + i]
        /\ \A j \in 1..n : m[j] \in ow => j > n - q
    BY <2>1 DEF OnWay
  <2> DEFINE q2 == IF q = n THEN n - 1 ELSE q
  <2>3. q2 \in 1..(n - 1) /\ q2 <= k /\ q2 <= q /\ q2 \in Nat /\ (q2 = q \/ (q2 = q - 1 /\ q = n))
    BY <2>2
  <2> HIDE DEF q2
  <2>4. ASSUME NEW i \in 1..(k - 1) PROVE ns2[p[i]]["next"] = p[i + 1]
    <3>1. i \in 1..k
      BY <2>2
    <3>2. p[i] \in 1..Len(ns)
      BY <2>2, <3>1
    <3>3. QED
      BY <2>2, <3>2
  <2>5. ASSUME NEW i \in 1..q2 PROVE p[k - q2 + i] = m2[(n - 1) - q2 + i]
    <3>1. (n - 1) - q2 + i \in 1..(n - 1)
      BY <2>2, <2>3
    <3>2. ((n - 1) - q2 + i) + 1 = n - q2 + i
      BY <2>2, <2>3
    <3>3. p[k - q2 + i] = m[n - q2 + i]
      <4>1. CASE q2 = q
        BY <2>2, <4>1
      <4>2. CASE q2 = q - 1
        <5>1. i + 1 \in 1..q /\ k - q2 + i = k - q + (i + 1) /\ n - q2 + i = n - q + (i + 1)
          BY <2>2, <2>3, <4>2
        <5>2. QED
          BY <2>2, <5>1
      <4>3. QED
        BY <2>3, <4>1, <4>2
    <3>4. QED
      BY <1>a, <3>1, <3>2, <3>3
  <2>6. ASSUME NEW j \in 1..(n - 1), m2[j] \in ow PROVE j > (n - 1) - q2
    <3>1. j + 1 \in 1..n /\ m[j + 1] \in ow
      BY <1>1, <1>a, <2>6
    <3>2. j + 1 > n - q
      BY <2>2, <3>1
    <3>3. QED
      BY <2>2, <2>3, <3>2
  <2>7. OnWay(m2, n - 1, ns2, c, ow, k, q2, p)
    BY <2>2, <2>3, <2>4, <2>5, <2>6 DEF OnWay
  <2>8. QED
    BY <2>7 DEF Ahead
<1>6. QED
  BY <1>4, <1>5 DEF Ahead

\* A chain without its last node, to which the one before it has lost its link.
LEMMA AheadRemovedLast ==
  ASSUME NEW n \in Nat \ {0, 1}, NEW ns, Len(ns) \in Nat, NEW m \in [1..n -> 1..Len(ns)],
         NEW c, NEW ow, Ahead(m, n, ns, c, ow),
         NEW ns2, Len(ns2) = Len(ns),
         \A i \in 1..Len(ns) : ns2[i]["next"] = IF i = m[n - 1] THEN 0 ELSE ns[i]["next"],
         NEW m2, \A i \in 1..(n - 1) : m2[i] = m[i]
  PROVE  Ahead(m2, n - 1, ns2, c, ow)
<1>1. \A i \in 1..(n - 1) : i \in 1..n
  OBVIOUS
<1>4. CASE \A i \in 1..n : m[i] \notin ow
  BY <1>1, <1>4 DEF Ahead
<1>5. CASE \E k, q, p : OnWay(m, n, ns, c, ow, k, q, p)
  <2>1. PICK k, q, p : OnWay(m, n, ns, c, ow, k, q, p)
    BY <1>5
  <2>2. /\ k \in Nat \ {0} /\ q \in 1..n /\ q <= k
        /\ p \in [1..k -> 1..Len(ns)] /\ p[1] = c
        /\ \A i, j \in 1..k : p[i] = p[j] => i = j
        /\ \A i \in 1..(k - 1) : ns[p[i]]["next"] = p[i + 1]
        /\ \A i \in 1..q : p[k - q + i] = m[n - q + i]
        /\ \A j \in 1..n : m[j] \in ow => j > n - q
    BY <2>1 DEF OnWay
  <2>3. CASE q = 1
    <3>1. ASSUME NEW i \in 1..(n - 1), m2[i] \in ow PROVE FALSE
      <4>1. i \in 1..n /\ m[i] \in ow
        BY <1>1, <3>1
      <4>2. i > n - 1
        BY <2>2, <2>3, <4>1
      <4>3. QED
        BY <4>2
    <3>2. QED
      BY <3>1 DEF Ahead
  <2>4. CASE q # 1
    <3> DEFINE p2 == [i \in 1..(k - 1) |-> p[i]]
    <3>1. /\ q - 1 \in 1..(n - 1) /\ q - 1 <= k - 1 /\ k - 1 \in Nat \ {0}
          /\ 1 \in 1..(k - 1) /\ k - 1 \in 1..k
          /\ \A i \in 1..(k - 1) : i \in 1..k
      BY <2>2, <2>4
    <3>2. /\ \A i \in 1..(k - 1) : p2[i] = p[i]
          /\ p2 \in [1..(k - 1) -> 1..Len(ns2)]
      BY <2>2, <3>1
    <3> HIDE DEF p2
    <3>3. p2[1] = c /\ \A i, j \in 1..(k - 1) : p2[i] = p2[j] => i = j
      BY <2>2, <3>1, <3>2
    <3>4. p[k - 1] = m[n - 1]
      <4>1. q - 1 \in 1..q /\ k - q + (q - 1) = k - 1 /\ n - q + (q - 1) = n - 1
        BY <2>2, <2>4
      <4>2. QED
        BY <2>2, <4>1
    <3>5. ASSUME NEW i \in 1..((k - 1) - 1) PROVE ns2[p2[i]]["next"] = p2[i + 1]
      <4>1. i \in 1..(k - 1) /\ i + 1 \in 1..(k - 1) /\ i \in 1..k /\ i # k - 1
        BY <2>2
      <4>2. p[i] # m[n - 1] /\ p[i] \in 1..Len(ns)
        BY <2>2, <3>1, <3>4, <4>1
      <4>3. p2[i] = p[i] /\ p2[i + 1] = p[i + 1]
        BY <3>2, <4>1
      <4>4. ns2[p[i]]["next"] = ns[p[i]]["next"]
        BY <4>2
      <4>5. ns[p[i]]["next"] = p[i + 1]
        <5>1. i \in 1..(k - 1)
          BY <4>1
        <5>2. QED
          BY <2>2, <5>1
      <4>6. QED
        BY <4>3, <4>4, <4>5
    <3>6. ASSUME NEW i \in 1..(q - 1)
          PROVE  p2[(k - 1) - (q - 1) + i] = m2[(n - 1) - (q - 1) + i]
      <4>1. /\ (k - 1) - (q - 1) + i = k - q + i /\ (n - 1) - (q - 1) + i = n - q + i
            /\ i \in 1..q /\ k - q + i \in 1..(k - 1) /\ n - q + i \in 1..(n - 1)
        BY <2>2, <2>4
      <4>2. QED
        BY <2>2, <3>2, <4>1
    <3>7. ASSUME NEW j \in 1..(n - 1), m2[j] \in ow PROVE j > (n - 1) - (q - 1)
      <4>1. j \in 1..n /\ m[j] \in ow
        BY <1>1, <3>7
      <4>2. j > n - q
        BY <2>2, <4>1
      <4>3. QED
        BY <2>2, <4>2
    <3>8. OnWay(m2, n - 1, ns2, c, ow, k - 1, q - 1, p2)
      BY <3>1, <3>2, <3>3, <3>5, <3>6, <3>7 DEF OnWay
    <3>9. QED
      BY <3>8 DEF Ahead
  <2>5. QED
    BY <2>3, <2>4
<1>6. QED
  BY <1>4, <1>5 DEF Ahead

\* A step of the iterator.
LEMMA AheadNext ==
  ASSUME NEW n \in Nat, NEW ns, Len(ns) \in Nat, NEW m \in [1..n -> 1..Len(ns)],
         NEW c, NEW ow, Ahead(m, n, ns, c, ow)
  PROVE  Ahead(m, n, ns, ns[c]["next"], ow \ {c})
<1>4. CASE \A i \in 1..n : m[i] \notin ow
  BY <1>4 DEF Ahead
<1>5. CASE \E k, q, p : OnWay(m, n, ns, c, ow, k, q, p)
  <2>1. PICK k, q, p : OnWay(m, n, ns, c, ow, k, q, p)
    BY <1>5
  <2>2. /\ k \in Nat \ {0} /\ q \in 1..n /\ q <= k
        /\ p \in [1..k -> 1..Len(ns)] /\ p[1] = c
        /\ \A i, j \in 1..k : p[i] = p[j] => i = j
        /\ \A i \in 1..(k - 1) : ns[p[i]]["next"] = p[i + 1]
        /\ \A i \in 1..q : p[k - q + i] = m[n - q + i]
        /\ \A j \in 1..n : m[j] \in ow => j > n - q
    BY <2>1 DEF OnWay
  <2>3. q = k => m[n - q + 1] = c
    <3>1. 1 \in 1..q /\ (q = k => k - q + 1 = 1)
      BY <2>2
    <3>2. QED
      BY <2>2, <3>1
  <2>4. CASE k = 1
    <3>1. q = 1 /\ q = k
      BY <2>2, <2>4
    <3>2. ASSUME NEW i \in 1..n, m[i] \in ow \ {c} PROVE FALSE
      <4>1. i > n - 1 /\ i = n /\ n - 1 + 1 = n
        BY <2>2, <3>1, <3>2
      <4>2. QED
        BY <2>3, <3>1, <3>2, <4>1
    <3>3. QED
      BY <3>2 DEF Ahead
  <2>5. CASE k # 1
    <3> DEFINE p2 == [i \in 1..(k - 1) |-> p[i + 1]]
               q2 == IF q = k THEN q - 1 ELSE q
    <3>1. /\ k - 1 \in Nat \ {0} /\ 1 \in 1..(k - 1)
          /\ \A i \in 1..(k - 1) : i + 1 \in 1..k
      BY <2>2, <2>5
    <3>a. q2 \in 1..n /\ q2 \in Nat /\ q2 <= k - 1 /\ (q2 = q \/ (q2 = q - 1 /\ q = k))
      BY <2>2, <2>5
    <3>2. /\ \A i \in 1..(k - 1) : p2[i] = p[i + 1]
          /\ p2 \in [1..(k - 1) -> 1..Len(ns)]
      BY <2>2, <3>1
    <3> HIDE DEF p2, q2
    <3>3. p2[1] = ns[c]["next"]
      BY <2>2, <3>1, <3>2
    <3>4. ASSUME NEW i \in 1..(k - 1), NEW j \in 1..(k - 1), p2[i] = p2[j] PROVE i = j
      <4>1. i + 1 = j + 1
        BY <2>2, <3>1, <3>2, <3>4
      <4>2. QED
        BY <4>1
    <3>5. ASSUME NEW i \in 1..((k - 1) - 1) PROVE ns[p2[i]]["next"] = p2[i + 1]
      <4>1. i \in 1..(k - 1) /\ i + 1 \in 1..(k - 1)
        BY <2>2
      <4>2. QED
        BY <2>2, <3>2, <4>1
    <3>6. ASSUME NEW i \in 1..q2 PROVE p2[(k - 1) - q2 + i] = m[n - q2 + i]
      <4>1. (k - 1) - q2 + i \in 1..(k - 1) /\ ((k - 1) - q2 + i) + 1 = k - q2 + i
        BY <2>2, <3>a
      <4>2. p[k - q2 + i] = m[n - q2 + i]
        <5>1. CASE q2 = q
          BY <2>2, <5>1
        <5>2. CASE q2 = q - 1
          <6>1. i + 1 \in 1..q /\ k - q2 + i = k - q + (i + 1) /\ n - q2 + i = n - q + (i + 1)
            BY <2>2, <5>2
          <6>2. QED
            BY <2>2, <6>1
        <5>3. QED
          BY <3>a, <5>1, <5>2
      <4>3. QED
        BY <3>2, <4>1, <4>2
    <3>7. ASSUME NEW j \in 1..n, m[j] \in ow \ {c} PROVE j > n - q2
      <4>1. j > n - q
        BY <2>2, <3>7
      <4>2. q = k => j # n - q + 1
        BY <2>3, <3>7
      <4>3. QED
        BY <2>2, <3>a, <4>1, <4>2
    <3>8. OnWay(m, n, ns, ns[c]["next"], ow \ {c}, k - 1, q2, p2)
      BY <3>1, <3>2, <3>3, <3>4, <3>5, <3>6, <3>7, <3>a DEF OnWay
    <3>9. QED
      BY <3>8 DEF Ahead
  <2>6. QED
    BY <2>4, <2>5
<1>6. QED
  BY <1>4, <1>5 DEF Ahead

\* p are k nodes linked from n on, and nothing comes after them; the way along them,
\* and beyond them.
Along(ns, n, f, k, p) ==
  /\ k \in Nat /\ Len(ns) \in Nat
  /\ p \in [1..k -> 1..Len(ns)]
  /\ n = IF k = 0 THEN 0 ELSE p[1]
  /\ \A i \in 1..k : ns[p[i]][f] = IF i = k THEN 0 ELSE p[i + 1]

\* Longer walks stay at null.
LEMMA WalkAlong ==
  ASSUME NEW k, NEW l \in Nat, k <= l, NEW ns, NEW n, NEW f, NEW p, Along(ns, n, f, k, p)
  PROVE  WalkOf(ns, n, f, l) = [i \in 1..l |-> IF i <= k THEN p[i] ELSE 0]
<1>0. /\ k \in Nat /\ Len(ns) \in Nat
      /\ p \in [1..k -> 1..Len(ns)]
      /\ n = IF k = 0 THEN 0 ELSE p[1]
      /\ \A i \in 1..k : ns[p[i]][f] = IF i = k THEN 0 ELSE p[i + 1]
  BY DEF Along
<1> DEFINE g == [i \in 1..l |-> IF i <= k THEN p[i] ELSE 0]
<1>1. \A i \in 1..l : /\ i <= k => g[i] = p[i] /\ i \in 1..k
                      /\ i > k => g[i] = 0
  BY <1>0
<1>2. g = [i \in 1..l |-> g[i]]
  OBVIOUS
<1> HIDE DEF g
<1>3. 1 \in 1..l => g[1] = n
  BY <1>0, <1>1
<1>4. ASSUME NEW i \in 2..l
      PROVE  g[i] = IF g[i - 1] = 0 THEN 0 ELSE ns[g[i - 1]][f]
  <2>1. i \in 1..l /\ i - 1 \in 1..l
    OBVIOUS
  <2>2. CASE i - 1 <= k
    <3>1. i - 1 \in 1..k /\ g[i - 1] = p[i - 1]
      BY <1>0, <1>1, <2>1, <2>2
    <3>2. g[i - 1] \in 1..Len(ns)
      BY <1>0, <3>1
    <3>3. g[i - 1] # 0
      BY <1>0, <3>2
    <3>4. ns[p[i - 1]][f] = IF i - 1 = k THEN 0 ELSE p[(i - 1) + 1]
      BY <1>0, <3>1
    <3>5. g[i] = IF i - 1 = k THEN 0 ELSE p[i]
      <4>1. i - 1 = k => i > k
        BY <1>0
      <4>2. i - 1 # k => i <= k
        BY <1>0, <2>2
      <4>3. QED
        BY <1>1, <2>1, <4>1, <4>2
    <3>6. (i - 1) + 1 = i
      OBVIOUS
    <3>7. QED
      BY <3>1, <3>3, <3>4, <3>5, <3>6
  <2>3. CASE i - 1 > k
    <3>1. i > k
      BY <1>0, <2>3
    <3>2. QED
      BY <1>0, <1>1, <2>1, <2>3, <3>1
  <2>4. QED
    BY <1>0, <2>2, <2>3
<1>5. WalkOf(ns, n, f, l) = g
  <2>1. Steps(ns, n, f, l, g)
    BY <1>2, <1>3, <1>4 DEF Steps
  <2>2. QED
    BY <2>1, WalkIs
<1>6. QED
  BY <1>5 DEF g

\* A walk of as many steps is that path.
LEMMA WalkExactly ==
  ASSUME NEW k, NEW ns, NEW n, NEW f, NEW p, Along(ns, n, f, k, p)
  PROVE  WalkOf(ns, n, f, k) = p
<1>1. k \in Nat /\ k <= k /\ p = [i \in 1..k |-> p[i]] /\ \A i \in 1..k : i <= k
  BY DEF Along
<1>2. WalkOf(ns, n, f, k) = [i \in 1..k |-> IF i <= k THEN p[i] ELSE 0]
  BY <1>1, WalkAlong
<1>3. QED
  BY <1>1, <1>2

DequeTyped == /\ data \in Seq(Node) /\ Len(data) <= MaxNodes
              /\ \A i \in 1..Len(data) : data[i]["next"] \in 0..Len(data)
              /\ {first, last, cursor} \subseteq 0..Len(data)
              /\ pending \subseteq 1..Len(data)
              /\ result \in Items \cup {"none"}

\* The deque is a chain, and what the iterator owes lies on its way.
Ordered(m) == /\ Chain(m, size, data, first, last, "next", "previous")
              /\ Ahead(m, size, data, cursor, pending)

DequeInv == DequeTyped /\ \E m : Ordered(m)

\* The items at the n places m.
ItemsAt(ns, m, n) == [i \in 1..n |-> ns[m[i]].item]

\* Where the nodes of the list are, and what is in them.
LEMMA ItemsTyped ==
  ASSUME DequeTyped, NEW m, Ordered(m)
  PROVE  /\ size \in Nat /\ Len(data) \in Nat /\ MaxNodes \in Nat
         /\ m \in [1..size -> 1..Len(data)]
         /\ IF size = 0 THEN first = 0 /\ last = 0 ELSE first = m[1] /\ last = m[size]
         /\ ItemsAt(data, m, size) \in Seq(Items) /\ Len(ItemsAt(data, m, size)) = size
         /\ \A i \in 1..size : /\ m[i] \in 1..Len(data)
                               /\ ItemsAt(data, m, size)[i] = data[m[i]].item
                               /\ data[m[i]].item \in Items
<1>1. Len(data) \in Nat /\ MaxNodes \in Nat
  BY AssignmentAssumption DEF DequeTyped
<1>2. /\ size \in Nat /\ m \in [1..size -> 1..Len(data)]
      /\ IF size = 0 THEN first = 0 /\ last = 0 ELSE first = m[1] /\ last = m[size]
  BY DEF Ordered, Chain
<1>3. \A i \in 1..Len(data) : data[i].item \in Items
  <2>1. \A i \in 1..Len(data) : data[i] \in Node
    BY ElementOfSeq DEF DequeTyped
  <2>2. QED
    BY <2>1 DEF Node
<1>4. \A i \in 1..size : m[i] \in 1..Len(data) /\ data[m[i]].item \in Items
  BY <1>2, <1>3
<1>5. ItemsAt(data, m, size) \in [1..size -> Items]
  BY <1>4 DEF ItemsAt
<1>6. QED
  BY <1>1, <1>2, <1>4, <1>5 DEF ItemsAt

\* A sequence is a function on its indices.
LEMMA SequenceIs ==
  ASSUME NEW S, NEW s \in Seq(S), NEW n, Len(s) = n
  PROVE  s = [i \in 1..n |-> s[i]]
OBVIOUS

\* addFirst.
LEMMA AddsFirst ==
  ASSUME DequeTyped, NEW m, Ordered(m), NEW item \in Items, ADeque!AddFirst(item)
  PROVE  /\ DequeTyped'
         /\ \E m2 : /\ Ordered(m2)'
                    /\ ItemsAt(data, m2, size)' = <<item>> \o ItemsAt(data, m, size)
         /\ result' = result
<1> DEFINE x == Len(data) + 1
           node == [item |-> item, next |-> first, previous |-> 0]
           m2 == [i \in 1..(size + 1) |-> IF i = 1 THEN x ELSE m[i - 1]]
<1>1. /\ size \in Nat /\ Len(data) \in Nat /\ MaxNodes \in Nat
      /\ m \in [1..size -> 1..Len(data)]
      /\ IF size = 0 THEN first = 0 /\ last = 0 ELSE first = m[1] /\ last = m[size]
      /\ ItemsAt(data, m, size) \in Seq(Items) /\ Len(ItemsAt(data, m, size)) = size
      /\ \A i \in 1..size : m[i] \in 1..Len(data) /\ ItemsAt(data, m, size)[i] = data[m[i]].item
  BY ItemsTyped
<1>2. data \in Seq(Node) /\ Len(data) < MaxNodes /\ first \in 0..Len(data)
      /\ \A i \in 1..Len(data) : data[i]["next"] \in 0..Len(data)
  BY DEF ADeque!AddFirst, DequeTyped
<1>3. node \in Node
  BY <1>1, <1>2 DEF Node
<1>4. size # 0 => first \in 1..Len(data)
  BY <1>1
<1>5. data' = With(data, node, size, first, "previous")
  BY DEF ADeque!AddFirst, ADeque!null, ADeque!NewNode, With
<1>6. /\ data' \in Seq(Node) /\ Len(data') = x /\ x <= MaxNodes
      /\ \A i \in 1..Len(data) :
           /\ data'[i].item = data[i].item
           /\ \A k \in {"next", "previous"} :
                data'[i][k] = IF size # 0 /\ i = first /\ k = "previous" THEN x ELSE data[i][k]
      /\ data'[x].item = item /\ data'[x]["next"] = first /\ data'[x]["previous"] = 0
  <2>1. node.item = item /\ node["next"] = first /\ node["previous"] = 0
    OBVIOUS
  <2> HIDE DEF node
  <2>2. "previous" \in {"next", "previous"}
    OBVIOUS
  <2>3. Added(data, data', node, size, first, "previous")
    BY <1>2, <1>3, <1>4, <1>5, <2>2, NodeAdded
  <2>4. QED
    BY <2>1, <2>3 DEF Added
<1>7. /\ first' = x /\ last' = (IF size = 0 THEN x ELSE last) /\ size' = size + 1
      /\ UNCHANGED <<cursor, pending, result>>
  BY DEF ADeque!AddFirst, ADeque!NewNode
<1> HIDE DEF node
<1>8. /\ m2 \in [1..(size + 1) -> 1..x] /\ m2[1] = x
      /\ \A i \in 1..size : m2[i + 1] = m[i]
  <2>1. \A i \in 1..size : i + 1 \in 1..(size + 1) /\ i + 1 # 1 /\ (i + 1) - 1 = i
    BY <1>1
  <2>2. \A i \in 1..(size + 1) : i = 1 \/ i - 1 \in 1..size
    BY <1>1
  <2>3. \A i \in 1..Len(data) : i \in 1..x
    BY <1>1
  <2>4. 1 \in 1..(size + 1) /\ x \in 1..x
    BY <1>1
  <2>5. QED
    BY <1>1, <2>1, <2>2, <2>3, <2>4
<1> HIDE DEF m2
<1>9. Longer(m, size, x, m2)
  BY <1>8 DEF Longer
<1>10. Chain(m2, size', data', first', last', "next", "previous")
  <2>1. Chain(m, size, data, first, last, "next", "previous")
    BY DEF Ordered
  <2>2. Grown(data, data', size, first, "next", "previous")
    BY <1>6 DEF Grown
  <2>3. Chain(m2, size + 1, data', x, IF size = 0 THEN x ELSE last, "next", "previous")
    BY <1>1, <1>9, <2>1, <2>2, ChainGrows
  <2>4. QED
    BY <1>7, <2>3
<1>11. Ahead(m2, size', data', cursor', pending')
  <2>1. Ahead(m, size, data, cursor, pending) /\ pending \in SUBSET (1..Len(data))
    BY DEF Ordered, DequeTyped
  <2>2. \A i \in 1..Len(data) : data'[i]["next"] = data[i]["next"]
    BY <1>6
  <2>3. Ahead(m2, size + 1, data', cursor, pending)
    BY <1>1, <1>6, <1>9, <2>1, <2>2, AheadAddedFirst
  <2>4. QED
    BY <1>7, <2>3
<1>12. DequeTyped'
  <2>1. \A i \in 1..x : data'[i]["next"] \in 0..x
    <3>1. \A i \in 1..x : i = x \/ i \in 1..Len(data)
      BY <1>1
    <3>2. \A i \in 1..Len(data) : data'[i]["next"] = data[i]["next"]
      BY <1>6
    <3>3. \A i \in 0..Len(data) : i \in 0..x
      BY <1>1
    <3>4. data'[x]["next"] \in 0..x
      BY <1>2, <1>6, <3>3
    <3>5. \A i \in 1..Len(data) : data'[i]["next"] \in 0..x
      BY <1>2, <3>2, <3>3
    <3>6. QED
      BY <3>1, <3>4, <3>5
  <2>2. {first', last', cursor'} \subseteq 0..x /\ pending' \subseteq 1..x
    BY <1>1, <1>7 DEF DequeTyped
  <2>3. QED
    BY <1>6, <1>7, <2>1, <2>2 DEF DequeTyped
<1>13. ItemsAt(data', m2, size') = <<item>> \o ItemsAt(data, m, size)
  <2> DEFINE s == ItemsAt(data, m, size)
             t == ItemsAt(data', m2, size')
  <2>1. /\ t = [i \in 1..(size + 1) |-> t[i]]
        /\ \A i \in 1..(size + 1) : t[i] = data'[m2[i]].item
    BY <1>7 DEF ItemsAt
  <2>2. /\ s \in Seq(Items) /\ Len(s) = size
        /\ \A i \in 1..size : s[i] = data[m[i]].item
    BY <1>1
  <2> HIDE DEF s, t
  <2>3. t[1] = item
    <3>1. 1 \in 1..(size + 1)
      BY <1>1
    <3>2. QED
      BY <1>6, <1>8, <2>1, <3>1
  <2>4. ASSUME NEW i \in 2..(size + 1) PROVE t[i] = s[i - 1]
    <3>1. i \in 1..(size + 1) /\ i - 1 \in 1..size /\ (i - 1) + 1 = i
      BY <1>1
    <3>2. m2[i] = m[i - 1] /\ m[i - 1] \in 1..Len(data)
      BY <1>1, <1>8, <3>1
    <3>3. t[i] = data'[m[i - 1]].item
      BY <2>1, <3>1, <3>2
    <3>4. data'[m[i - 1]].item = data[m[i - 1]].item
      BY <1>6, <3>2
    <3>5. s[i - 1] = data[m[i - 1]].item
      BY <2>2, <3>1
    <3>6. QED
      BY <3>3, <3>4, <3>5
  <2>5. /\ <<item>> \o s \in Seq(Items) /\ Len(<<item>> \o s) = size + 1
        /\ (<<item>> \o s)[1] = item
        /\ \A i \in 2..(size + 1) : (<<item>> \o s)[i] = s[i - 1]
    BY <1>1, <2>2
  <2>6. \A i \in 1..(size + 1) : t[i] = (<<item>> \o s)[i]
    <3>1. \A i \in 1..(size + 1) : i = 1 \/ i \in 2..(size + 1)
      BY <1>1
    <3>2. QED
      BY <2>3, <2>4, <2>5, <3>1
  <2>7. <<item>> \o s = [i \in 1..(size + 1) |-> (<<item>> \o s)[i]]
    BY <2>5, SequenceIs
  <2>8. t = <<item>> \o s
    BY <2>1, <2>6, <2>7
  <2>9. QED
    BY <2>8 DEF s, t
<1>14. QED
  BY <1>7, <1>10, <1>11, <1>12, <1>13 DEF Ordered

\* Turned twice, it is the chain.
LEMMA BackAgain ==
  ASSUME NEW n \in Nat, NEW S, NEW m \in [1..n -> S]
  PROVE  Back(Back(m, n), n) = m
<1>1. \A i \in 1..n : n + 1 - i \in 1..n /\ n + 1 - (n + 1 - i) = i
  OBVIOUS
<1>2. \A i \in 1..n : Back(m, n)[i] = m[n + 1 - i]
  BY DEF Back
<1>3. \A i \in 1..n : Back(Back(m, n), n)[i] = m[i]
  BY <1>1, <1>2 DEF Back
<1>4. Back(Back(m, n), n) = [i \in 1..n |-> Back(Back(m, n), n)[i]]
  BY DEF Back
<1>5. QED
  BY <1>3, <1>4

\* addLast, which is addFirst read from the other end.
LEMMA AddsLast ==
  ASSUME DequeTyped, NEW m, Ordered(m), NEW item \in Items, ADeque!AddLast(item)
  PROVE  /\ DequeTyped'
         /\ \E m2 : /\ Ordered(m2)'
                    /\ ItemsAt(data, m2, size)' = Append(ItemsAt(data, m, size), item)
         /\ result' = result
<1> DEFINE x == Len(data) + 1
           node == [item |-> item, next |-> 0, previous |-> last]
           m2 == [i \in 1..(size + 1) |-> IF i = size + 1 THEN x ELSE m[i]]
<1>1. /\ size \in Nat /\ Len(data) \in Nat /\ MaxNodes \in Nat
      /\ m \in [1..size -> 1..Len(data)]
      /\ IF size = 0 THEN first = 0 /\ last = 0 ELSE first = m[1] /\ last = m[size]
      /\ ItemsAt(data, m, size) \in Seq(Items) /\ Len(ItemsAt(data, m, size)) = size
      /\ \A i \in 1..size : m[i] \in 1..Len(data) /\ ItemsAt(data, m, size)[i] = data[m[i]].item
  BY ItemsTyped
<1>2. data \in Seq(Node) /\ Len(data) < MaxNodes /\ last \in 0..Len(data)
      /\ \A i \in 1..Len(data) : data[i]["next"] \in 0..Len(data)
  BY DEF ADeque!AddLast, DequeTyped
<1>3. node \in Node
  BY <1>1, <1>2 DEF Node
<1>4. size # 0 => last \in 1..Len(data)
  BY <1>1
<1>5. data' = With(data, node, size, last, "next")
  BY DEF ADeque!AddLast, ADeque!null, ADeque!NewNode, With
<1>6. /\ data' \in Seq(Node) /\ Len(data') = x /\ x <= MaxNodes
      /\ \A i \in 1..Len(data) :
           /\ data'[i].item = data[i].item
           /\ \A k \in {"next", "previous"} :
                data'[i][k] = IF size # 0 /\ i = last /\ k = "next" THEN x ELSE data[i][k]
      /\ data'[x].item = item /\ data'[x]["next"] = 0 /\ data'[x]["previous"] = last
  <2>1. node.item = item /\ node["next"] = 0 /\ node["previous"] = last
    OBVIOUS
  <2> HIDE DEF node
  <2>2. "next" \in {"next", "previous"}
    OBVIOUS
  <2>3. Added(data, data', node, size, last, "next")
    BY <1>2, <1>3, <1>4, <1>5, <2>2, NodeAdded
  <2>4. QED
    BY <2>1, <2>3 DEF Added
<1>7. /\ first' = (IF size = 0 THEN x ELSE first) /\ last' = x /\ size' = size + 1
      /\ UNCHANGED <<cursor, pending, result>>
  BY DEF ADeque!AddLast, ADeque!NewNode
<1> HIDE DEF node
<1>8. /\ m2 \in [1..(size + 1) -> 1..x] /\ m2[size + 1] = x
      /\ \A i \in 1..size : m2[i] = m[i]
  <2>1. \A i \in 1..size : i \in 1..(size + 1) /\ i # size + 1
    BY <1>1
  <2>2. \A i \in 1..(size + 1) : i = size + 1 \/ i \in 1..size
    BY <1>1
  <2>3. \A i \in 1..Len(data) : i \in 1..x
    BY <1>1
  <2>4. size + 1 \in 1..(size + 1) /\ x \in 1..x
    BY <1>1
  <2>5. QED
    BY <1>1, <2>1, <2>2, <2>3, <2>4
<1> HIDE DEF m2
<1>9. Longer(Back(m, size), size, x, Back(m2, size + 1))
  <2>1. /\ \A i \in 1..(size + 1) : (size + 1) + 1 - i \in 1..(size + 1)
        /\ \A i \in 1..size : /\ i + 1 \in 1..(size + 1) /\ size + 1 - i \in 1..size
                              /\ (size + 1) + 1 - (i + 1) = size + 1 - i
        /\ 1 \in 1..(size + 1) /\ (size + 1) + 1 - 1 = size + 1
    BY <1>1
  <2>2. \A i \in 1..(size + 1) : Back(m2, size + 1)[i] = m2[(size + 1) + 1 - i]
    BY DEF Back
  <2>3. \A i \in 1..size : Back(m, size)[i] = m[size + 1 - i]
    BY DEF Back
  <2>4. Back(m2, size + 1) \in [1..(size + 1) -> 1..x]
    BY <1>8, <2>1 DEF Back
  <2>5. Back(m2, size + 1)[1] = x
    BY <1>8, <2>1, <2>2
  <2>6. ASSUME NEW i \in 1..size PROVE Back(m2, size + 1)[i + 1] = Back(m, size)[i]
    <3>1. Back(m2, size + 1)[i + 1] = m2[(size + 1) + 1 - (i + 1)]
      BY <2>1, <2>2
    <3>2. m2[size + 1 - i] = m[size + 1 - i]
      BY <1>8, <2>1
    <3>3. QED
      BY <2>1, <2>3, <3>1, <3>2
  <2>7. QED
    BY <2>4, <2>5, <2>6 DEF Longer
<1>10. Chain(m2, size', data', first', last', "next", "previous")
  <2>1. Chain(Back(m, size), size, data, last, first, "previous", "next")
    BY <1>1, ChainTurned DEF Ordered
  <2>2. Grown(data, data', size, last, "previous", "next")
    BY <1>6 DEF Grown
  <2>3. Chain(Back(m2, size + 1), size + 1, data', x, IF size = 0 THEN x ELSE first,
              "previous", "next")
    BY <1>1, <1>9, <2>1, <2>2, ChainGrows
  <2>4. Len(data') \in Nat
    BY <1>1, <1>6
  <2>5. Chain(Back(Back(m2, size + 1), size + 1), size + 1, data',
              IF size = 0 THEN x ELSE first, x, "next", "previous")
    BY <2>3, <2>4, ChainTurned
  <2>6. Back(Back(m2, size + 1), size + 1) = m2
    <3>1. size + 1 \in Nat
      BY <1>1
    <3>2. QED
      BY <1>8, <3>1, BackAgain
  <2>7. QED
    BY <1>7, <2>5, <2>6
<1>11. Ahead(m2, size', data', cursor', pending')
  <2>1. Ahead(m, size, data, cursor, pending) /\ pending \in SUBSET (1..Len(data))
    BY DEF Ordered, DequeTyped
  <2>2. LastLinked(m, size, data, data') /\ Extended(m, size, x, m2)
    BY <1>1, <1>6, <1>8 DEF LastLinked, Extended
  <2>3. Ahead(m2, size + 1, data', cursor, pending)
    BY <1>1, <2>1, <2>2, AheadAddedLast
  <2>4. QED
    BY <1>7, <2>3
<1>12. DequeTyped'
  <2>1. \A i \in 1..x : data'[i]["next"] \in 0..x
    <3>1. \A i \in 1..x : i = x \/ i \in 1..Len(data)
      BY <1>1
    <3>2. \A i \in 1..Len(data) : data'[i]["next"] \in {x, data[i]["next"]}
      BY <1>6
    <3>3. 0 \in 0..x /\ x \in 0..x /\ \A i \in 0..Len(data) : i \in 0..x
      BY <1>1
    <3>4. QED
      BY <1>2, <1>6, <3>1, <3>2, <3>3
  <2>2. {first', last', cursor'} \subseteq 0..x /\ pending' \subseteq 1..x
    BY <1>1, <1>7 DEF DequeTyped
  <2>3. QED
    BY <1>6, <1>7, <2>1, <2>2 DEF DequeTyped
<1>13. ItemsAt(data', m2, size') = Append(ItemsAt(data, m, size), item)
  <2> DEFINE s == ItemsAt(data, m, size)
             t == ItemsAt(data', m2, size')
  <2>1. /\ t = [i \in 1..(size + 1) |-> t[i]]
        /\ \A i \in 1..(size + 1) : t[i] = data'[m2[i]].item
    BY <1>7 DEF ItemsAt
  <2>2. /\ s \in Seq(Items) /\ Len(s) = size
        /\ \A i \in 1..size : s[i] = data[m[i]].item
    BY <1>1
  <2> HIDE DEF s, t
  <2>3. t[size + 1] = item
    <3>1. size + 1 \in 1..(size + 1)
      BY <1>1
    <3>2. QED
      BY <1>6, <1>8, <2>1, <3>1
  <2>4. ASSUME NEW i \in 1..size PROVE t[i] = s[i]
    <3>1. i \in 1..(size + 1)
      BY <1>1
    <3>2. m2[i] = m[i] /\ m[i] \in 1..Len(data)
      BY <1>1, <1>8
    <3>3. QED
      BY <1>6, <2>1, <2>2, <3>1, <3>2
  <2>5. /\ Append(s, item) \in Seq(Items) /\ Len(Append(s, item)) = size + 1
        /\ Append(s, item)[size + 1] = item
        /\ \A i \in 1..size : Append(s, item)[i] = s[i]
    BY <1>1, <2>2
  <2>6. \A i \in 1..(size + 1) : t[i] = Append(s, item)[i]
    <3>1. \A i \in 1..(size + 1) : i = size + 1 \/ i \in 1..size
      BY <1>1
    <3>2. QED
      BY <2>3, <2>4, <2>5, <3>1
  <2>7. Append(s, item) = [i \in 1..(size + 1) |-> Append(s, item)[i]]
    BY <2>5, SequenceIs
  <2>8. t = Append(s, item)
    BY <2>1, <2>6, <2>7
  <2>9. QED
    BY <2>8 DEF s, t
<1>14. QED
  BY <1>7, <1>10, <1>11, <1>12, <1>13 DEF Ordered

\* An empty deque is in order.
LEMMA EmptyChain ==
  ASSUME NEW m, NEW ns, NEW c, NEW ow
  PROVE  /\ Chain([i \in 1..0 |-> m[i]], 0, ns, 0, 0, "next", "previous")
         /\ Ahead([i \in 1..0 |-> m[i]], 0, ns, c, ow)
         /\ ItemsAt(ns, [i \in 1..0 |-> m[i]], 0) = <<>>
<1>1. 1..0 = {}
  OBVIOUS
<1>2. Chain([i \in 1..0 |-> m[i]], 0, ns, 0, 0, "next", "previous")
  BY <1>1 DEF Chain
<1>3. Ahead([i \in 1..0 |-> m[i]], 0, ns, c, ow)
  BY <1>1 DEF Ahead
<1>4. ItemsAt(ns, [i \in 1..0 |-> m[i]], 0) = <<>>
  BY <1>1 DEF ItemsAt
<1>5. QED
  BY <1>2, <1>3, <1>4

\* removeFirst.
LEMMA RemovesFirst ==
  ASSUME DequeTyped, NEW m, Ordered(m), ADeque!RemoveFirst
  PROVE  /\ DequeTyped'
         /\ \E m2 : /\ Ordered(m2)'
                    /\ ItemsAt(data, m2, size)' = Tail(ItemsAt(data, m, size))
         /\ ItemsAt(data, m, size) # <<>> /\ result' = Head(ItemsAt(data, m, size))
<1> DEFINE s == ItemsAt(data, m, size)
<1>1. /\ size \in Nat /\ Len(data) \in Nat /\ MaxNodes \in Nat
      /\ m \in [1..size -> 1..Len(data)]
      /\ size # 0 => first = m[1] /\ last = m[size]
      /\ s \in Seq(Items) /\ Len(s) = size
      /\ \A i \in 1..size : /\ m[i] \in 1..Len(data) /\ s[i] = data[m[i]].item
                            /\ data[m[i]].item \in Items
  BY ItemsTyped
<1> HIDE DEF s
<1>2. size # 0 /\ size' = size - 1 /\ UNCHANGED <<cursor, pending>>
  BY DEF ADeque!RemoveFirst
<1>3. s # <<>> /\ result' = Head(s) /\ result' \in Items
  <2>1. 1 \in 1..size
    BY <1>1, <1>2
  <2>2. result' = data[m[1]].item
    BY <1>1, <1>2 DEF ADeque!RemoveFirst, ADeque!FirstItem
  <2>3. QED
    BY <1>1, <1>2, <2>1, <2>2
<1>4. CASE size = 1
  <2>1. data' = data /\ first' = 0 /\ last' = 0 /\ size' = 0
    BY <1>2, <1>4 DEF ADeque!RemoveFirst, ADeque!null
  <2>2. DequeTyped'
    <3>1. {first', last', cursor'} \subseteq 0..Len(data)
      BY <1>1, <1>2, <2>1 DEF DequeTyped
    <3>2. QED
      BY <1>2, <1>3, <2>1, <3>1 DEF DequeTyped
  <2>3. \E m2 : Ordered(m2)' /\ ItemsAt(data', m2, size') = <<>>
    BY <2>1, EmptyChain DEF Ordered
  <2>4. Tail(s) = <<>>
    <3>1. Tail(s) \in Seq(Items) /\ Len(Tail(s)) = 0
      BY <1>1, <1>3, <1>4
    <3>2. QED
      BY <3>1
  <2>5. QED
    BY <1>3, <2>2, <2>3, <2>4 DEF s
<1>5. CASE size # 1
  <2> DEFINE m2 == [i \in 1..(size - 1) |-> m[i + 1]]
  <2>1. \A i \in 1..(size - 1) : i + 1 \in 1..size
    BY <1>1
  <2>2. m2 \in [1..(size - 1) -> 1..Len(data)] /\ \A i \in 1..(size - 1) : m2[i] = m[i + 1]
    BY <1>1, <2>1
  <2> HIDE DEF m2
  <2>3. Shorter(m, size, Len(data), m2) /\ size \notin {0, 1} /\ size \in Nat \ {0, 1}
    BY <1>1, <1>2, <1>5, <2>2 DEF Shorter
  <2>4. Chain(m, size, data, first, last, "next", "previous")
    BY DEF Ordered
  <2>5. data[first]["next"] \in 1..Len(data)
    <3>1. 1 \in 1..size /\ 1 # size /\ 1 + 1 \in 1..size
      BY <1>1, <1>2, <1>5
    <3>2. data[m[1]]["next"] = m[1 + 1]
      BY <2>4, <3>1 DEF Chain
    <3>3. QED
      BY <1>1, <1>2, <3>1, <3>2
  <2>6. /\ data' = ADeque!Linked(data, data[first]["next"], "previous", 0)
        /\ first' = data[first]["next"] /\ last' = last
    BY <1>2, <1>5 DEF ADeque!RemoveFirst, ADeque!Front, ADeque!null
  <2>7. /\ data' \in Seq(Node) /\ Len(data') = Len(data)
        /\ \A i \in 1..Len(data) :
             /\ data'[i].item = data[i].item
             /\ data'[i]["next"] = data[i]["next"]
             /\ data'[i]["previous"] = IF i = data[first]["next"] THEN 0
                                       ELSE data[i]["previous"]
    <3>1. data \in Seq(Node) /\ 0 \in 0..MaxNodes /\ "previous" \in {"next", "previous"}
      BY <1>1 DEF DequeTyped
    <3>2. Relinked(data, data', data[first]["next"], "previous", 0)
      BY <2>5, <2>6, <3>1, LinkedNodes
    <3>3. QED
      BY <3>2 DEF Relinked
  <2>8. Chain(m2, size', data', first', last', "next", "previous")
    <3>1. Cut(data, data', first, "next", "previous")
      BY <2>7 DEF Cut
    <3>2. Chain(m2, size - 1, data', data[first]["next"], last, "next", "previous")
      BY <1>1, <2>3, <2>4, <3>1, ChainShrinks
    <3>3. QED
      BY <1>2, <2>6, <3>2
  <2>9. Ahead(m2, size', data', cursor', pending')
    <3>1. Ahead(m, size, data, cursor, pending)
      BY DEF Ordered
    <3>2. Ahead(m2, size - 1, data', cursor, pending)
      BY <1>1, <2>3, <2>7, <3>1, AheadRemovedFirst
    <3>3. QED
      BY <1>2, <3>2
  <2>10. DequeTyped'
    <3>1. {first', last', cursor'} \subseteq 0..Len(data)
      BY <1>1, <1>2, <2>5, <2>6 DEF DequeTyped
    <3>2. QED
      BY <1>2, <1>3, <2>7, <3>1 DEF DequeTyped
  <2>11. ItemsAt(data', m2, size') = Tail(s)
    <3> DEFINE t == ItemsAt(data', m2, size')
    <3>1. /\ t = [i \in 1..(size - 1) |-> t[i]]
          /\ \A i \in 1..(size - 1) : t[i] = data'[m2[i]].item
      BY <1>2 DEF ItemsAt
    <3> HIDE DEF t
    <3>2. ASSUME NEW i \in 1..(size - 1) PROVE t[i] = s[i + 1]
      <4>1. m2[i] = m[i + 1] /\ i + 1 \in 1..size /\ m[i + 1] \in 1..Len(data)
        BY <1>1, <2>1, <2>2
      <4>2. t[i] = data[m[i + 1]].item
        BY <2>7, <3>1, <4>1
      <4>3. QED
        BY <1>1, <4>1, <4>2
    <3>3. /\ Tail(s) \in Seq(Items) /\ Len(Tail(s)) = size - 1
          /\ \A i \in 1..(size - 1) : Tail(s)[i] = s[i + 1]
      BY <1>1, <1>2, <1>3
    <3>4. Tail(s) = [i \in 1..(size - 1) |-> Tail(s)[i]]
      BY <3>3, SequenceIs
    <3>5. t = Tail(s)
      BY <3>1, <3>2, <3>3, <3>4
    <3>6. QED
      BY <3>5 DEF t
  <2>12. QED
    BY <1>3, <2>8, <2>9, <2>10, <2>11 DEF Ordered, s
<1>6. QED
  BY <1>4, <1>5

\* removeLast, which is removeFirst read from the other end.
LEMMA RemovesLast ==
  ASSUME DequeTyped, NEW m, Ordered(m), ADeque!RemoveLast
  PROVE  /\ DequeTyped'
         /\ \E m2 : /\ Ordered(m2)'
                    /\ ItemsAt(data, m2, size)' = SubSeq(ItemsAt(data, m, size), 1, size - 1)
         /\ ItemsAt(data, m, size) # <<>> /\ Len(ItemsAt(data, m, size)) = size
         /\ result' = ItemsAt(data, m, size)[size]
<1> DEFINE s == ItemsAt(data, m, size)
<1>1. /\ size \in Nat /\ Len(data) \in Nat /\ MaxNodes \in Nat
      /\ m \in [1..size -> 1..Len(data)]
      /\ size # 0 => first = m[1] /\ last = m[size]
      /\ s \in Seq(Items) /\ Len(s) = size
      /\ \A i \in 1..size : /\ m[i] \in 1..Len(data) /\ s[i] = data[m[i]].item
                            /\ data[m[i]].item \in Items
  BY ItemsTyped
<1> HIDE DEF s
<1>2. size # 0 /\ size' = size - 1 /\ UNCHANGED <<cursor, pending>>
  BY DEF ADeque!RemoveLast
<1>3. s # <<>> /\ result' = s[size] /\ result' \in Items
  <2>1. size \in 1..size
    BY <1>1, <1>2
  <2>2. result' = data[m[size]].item
    BY <1>1, <1>2 DEF ADeque!RemoveLast
  <2>3. QED
    BY <1>1, <1>2, <2>1, <2>2
<1>4. CASE size = 1
  <2>1. data' = data /\ first' = 0 /\ last' = 0 /\ size' = 0
    BY <1>2, <1>4 DEF ADeque!RemoveLast, ADeque!null
  <2>2. DequeTyped'
    <3>1. {first', last', cursor'} \subseteq 0..Len(data)
      BY <1>1, <1>2, <2>1 DEF DequeTyped
    <3>2. QED
      BY <1>2, <1>3, <2>1, <3>1 DEF DequeTyped
  <2>3. \E m2 : Ordered(m2)' /\ ItemsAt(data', m2, size') = <<>>
    BY <2>1, EmptyChain DEF Ordered
  <2>4. SubSeq(s, 1, size - 1) = <<>>
    BY <1>1, <1>4
  <2>5. QED
    BY <1>1, <1>3, <2>2, <2>3, <2>4 DEF s
<1>5. CASE size # 1
  <2> DEFINE m2 == [i \in 1..(size - 1) |-> m[i]]
  <2>1. \A i \in 1..(size - 1) : i \in 1..size
    BY <1>1
  <2>2. m2 \in [1..(size - 1) -> 1..Len(data)] /\ \A i \in 1..(size - 1) : m2[i] = m[i]
    BY <1>1, <2>1
  <2> HIDE DEF m2
  <2>3. size \notin {0, 1} /\ size \in Nat \ {0, 1} /\ size - 1 \in Nat
    BY <1>1, <1>2, <1>5
  <2>4. Chain(m, size, data, first, last, "next", "previous")
    BY DEF Ordered
  <2>5. data[last]["previous"] = m[size - 1] /\ data[last]["previous"] \in 1..Len(data)
    <3>1. size \in 1..size /\ size # 1 /\ size - 1 \in 1..size
      BY <1>1, <1>2, <1>5
    <3>2. data[m[size]]["previous"] = m[size - 1]
      BY <2>4, <3>1 DEF Chain
    <3>3. QED
      BY <1>1, <1>2, <3>1, <3>2
  <2>6. /\ data' = ADeque!Linked(data, data[last]["previous"], "next", 0)
        /\ last' = data[last]["previous"] /\ first' = first
    BY <1>2, <1>5 DEF ADeque!RemoveLast, ADeque!Back, ADeque!null
  <2>7. /\ data' \in Seq(Node) /\ Len(data') = Len(data)
        /\ \A i \in 1..Len(data) :
             /\ data'[i].item = data[i].item
             /\ data'[i]["previous"] = data[i]["previous"]
             /\ data'[i]["next"] = IF i = data[last]["previous"] THEN 0
                                   ELSE data[i]["next"]
    <3>1. data \in Seq(Node) /\ 0 \in 0..MaxNodes /\ "next" \in {"next", "previous"}
      BY <1>1 DEF DequeTyped
    <3>2. Relinked(data, data', data[last]["previous"], "next", 0)
      BY <2>5, <2>6, <3>1, LinkedNodes
    <3>3. QED
      BY <3>2 DEF Relinked
  <2>8. Chain(m2, size', data', first', last', "next", "previous")
    <3>1. Chain(Back(m, size), size, data, last, first, "previous", "next")
      BY <1>1, <2>4, ChainTurned
    <3>2. Shorter(Back(m, size), size, Len(data), Back(m2, size - 1))
      <4>1. \A i \in 1..(size - 1) : /\ (size - 1) + 1 - i \in 1..(size - 1)
                                     /\ i + 1 \in 1..size
                                     /\ size + 1 - (i + 1) = (size - 1) + 1 - i
        BY <1>1
      <4>2. /\ \A i \in 1..(size - 1) : Back(m2, size - 1)[i] = m2[(size - 1) + 1 - i]
            /\ \A i \in 1..size : Back(m, size)[i] = m[size + 1 - i]
        BY DEF Back
      <4>3. Back(m2, size - 1) \in [1..(size - 1) -> 1..Len(data)]
        BY <2>2, <4>1 DEF Back
      <4>4. ASSUME NEW i \in 1..(size - 1) PROVE Back(m2, size - 1)[i] = Back(m, size)[i + 1]
        <5>1. Back(m, size)[i + 1] = m[size + 1 - (i + 1)]
          BY <4>1, <4>2
        <5>2. m2[(size - 1) + 1 - i] = m[(size - 1) + 1 - i]
          BY <2>2, <4>1
        <5>3. QED
          BY <4>1, <4>2, <5>1, <5>2
      <4>5. QED
        BY <4>3, <4>4 DEF Shorter
    <3>3. Cut(data, data', last, "previous", "next")
      BY <2>7 DEF Cut
    <3>4. Chain(Back(m2, size - 1), size - 1, data', data[last]["previous"], first,
                "previous", "next")
      BY <1>1, <2>3, <3>1, <3>2, <3>3, ChainShrinks
    <3>5. Len(data') \in Nat
      BY <1>1, <2>7
    <3>6. Chain(Back(Back(m2, size - 1), size - 1), size - 1, data', first,
                data[last]["previous"], "next", "previous")
      BY <3>4, <3>5, ChainTurned
    <3>7. Back(Back(m2, size - 1), size - 1) = m2
      BY <2>2, <2>3, BackAgain
    <3>8. QED
      BY <1>2, <2>6, <3>6, <3>7
  <2>9. Ahead(m2, size', data', cursor', pending')
    <3>1. Ahead(m, size, data, cursor, pending)
      BY DEF Ordered
    <3>2. \A i \in 1..Len(data) : data'[i]["next"] = IF i = m[size - 1] THEN 0
                                                     ELSE data[i]["next"]
      BY <2>5, <2>7
    <3>3. size \in Nat \ {0, 1} /\ Len(data) \in Nat /\ m \in [1..size -> 1..Len(data)]
      BY <1>1, <2>3
    <3>4. Len(data') = Len(data) /\ \A i \in 1..(size - 1) : m2[i] = m[i]
      BY <2>2, <2>7
    <3>5. Ahead(m2, size - 1, data', cursor, pending)
      BY <3>1, <3>2, <3>3, <3>4, AheadRemovedLast
    <3>6. QED
      BY <1>2, <3>5
  <2>10. DequeTyped'
    <3>1. {first', last', cursor'} \subseteq 0..Len(data)
      BY <1>1, <1>2, <2>5, <2>6 DEF DequeTyped
    <3>2. \A i \in 1..Len(data) : data'[i]["next"] \in 0..Len(data)
      <4>1. \A i \in 1..Len(data) : data'[i]["next"] \in {0, data[i]["next"]}
        BY <2>7
      <4>2. 0 \in 0..Len(data) /\ \A i \in 1..Len(data) : data[i]["next"] \in 0..Len(data)
        BY <1>1 DEF DequeTyped
      <4>3. QED
        BY <4>1, <4>2
    <3>3. QED
      BY <1>2, <1>3, <2>7, <3>1, <3>2 DEF DequeTyped
  <2>11. ItemsAt(data', m2, size') = SubSeq(s, 1, size - 1)
    <3> DEFINE t == ItemsAt(data', m2, size')
    <3>1. /\ t = [i \in 1..(size - 1) |-> t[i]]
          /\ \A i \in 1..(size - 1) : t[i] = data'[m2[i]].item
      BY <1>2 DEF ItemsAt
    <3> HIDE DEF t
    <3>2. \A i \in 1..(size - 1) : t[i] = s[i]
      <4>1. ASSUME NEW i \in 1..(size - 1) PROVE t[i] = s[i]
        <5>1. t[i] = data'[m[i]].item /\ i \in 1..size
          BY <2>1, <2>2, <3>1
        <5>2. m[i] \in 1..Len(data) /\ s[i] = data[m[i]].item
          BY <1>1, <5>1
        <5>3. QED
          BY <2>7, <5>1, <5>2
      <4>2. QED
        BY <4>1
    <3>3. SubSeq(s, 1, size - 1) = [i \in 1..(size - 1) |-> s[i]]
      <4>1. SubSeq(s, 1, size - 1) \in Seq(Items) /\ Len(SubSeq(s, 1, size - 1)) = size - 1
            /\ \A i \in 1..(size - 1) : SubSeq(s, 1, size - 1)[i] = s[i]
        BY <1>1, <2>3
      <4>2. QED
        BY <4>1
    <3>4. t = SubSeq(s, 1, size - 1)
      BY <3>1, <3>2, <3>3
    <3>5. QED
      BY <3>4 DEF t
  <2>12. QED
    BY <1>1, <1>3, <2>8, <2>9, <2>10, <2>11 DEF Ordered, s
<1>6. QED
  BY <1>4, <1>5

\* The iterator starts at the first node, with all nodes ahead.
LEMMA IteratorStarts ==
  ASSUME DequeTyped, NEW m, Ordered(m), ADeque!StartIterator
  PROVE  DequeTyped' /\ Ordered(m)' /\ UNCHANGED <<data, size, result>>
<1>1. UNCHANGED <<data, first, last, size, result>> /\ cursor' = first
      /\ pending' = ADeque!Members
  BY DEF ADeque!StartIterator
<1>2. Chain(m, size, data, first, last, "next", "previous")
  BY DEF Ordered
<1>3. /\ size \in Nat /\ Len(data) \in Nat /\ m \in [1..size -> 1..Len(data)]
      /\ \A i, j \in 1..size : m[i] = m[j] => i = j
      /\ IF size = 0 THEN first = 0 ELSE first = m[1]
      /\ \A i \in 1..size : data[m[i]]["next"] = IF i = size THEN 0 ELSE m[i + 1]
  BY <1>2, ItemsTyped DEF Chain
<1>4. pending' \subseteq 1..Len(data)
  <2>1. WalkOf(data, first, "next", size) = m
    <3>1. Along(data, first, "next", size, m)
      BY <1>3 DEF Along
    <3>2. QED
      BY <3>1, WalkExactly
  <2>2. ADeque!Walk(first, "next", size) = WalkOf(data, first, "next", size)
    BY DEF ADeque!Walk, ADeque!null, WalkOf
  <2>3. QED
    BY <1>1, <1>3, <2>1, <2>2 DEF ADeque!Members, ADeque!Range
<1>5. DequeTyped'
  BY <1>1, <1>4 DEF DequeTyped
<1>6. Ahead(m, size, data, first, pending')
  <2>1. CASE size = 0
    <3>1. 1..size = {}
      BY <2>1
    <3>2. QED
      BY <3>1 DEF Ahead
  <2>2. CASE size # 0
    <3>1. size \in Nat \ {0} /\ size \in 1..size /\ size <= size /\ size - size = 0
      BY <1>3, <2>2
    <3>2. \A i \in 1..(size - 1) : data[m[i]]["next"] = m[i + 1]
      <4>1. \A i \in 1..(size - 1) : i \in 1..size /\ i # size
        BY <1>3
      <4>2. QED
        BY <1>3, <4>1
    <3>3. \A i \in 1..size : m[size - size + i] = m[size - size + i] /\ i > size - size
      BY <3>1
    <3>4. OnWay(m, size, data, first, pending', size, size, m)
      BY <1>3, <2>2, <3>1, <3>2, <3>3 DEF OnWay
    <3>5. QED
      BY <3>4 DEF Ahead
  <2>3. QED
    BY <2>1, <2>2
<1>7. QED
  BY <1>1, <1>2, <1>5, <1>6 DEF Ordered

\* The iterator goes on.
LEMMA IteratorGoesOn ==
  ASSUME DequeTyped, NEW m, Ordered(m), ADeque!NextItem
  PROVE  DequeTyped' /\ Ordered(m)' /\ UNCHANGED <<data, size, result>>
<1>1. UNCHANGED <<data, first, last, size, result>> /\ cursor # 0
      /\ cursor' = data[cursor]["next"] /\ pending' = pending \ {cursor}
  BY DEF ADeque!NextItem, ADeque!null
<1>2. size \in Nat /\ Len(data) \in Nat /\ m \in [1..size -> 1..Len(data)]
  BY ItemsTyped
<1>3. cursor' \in 0..Len(data)
  <2>1. cursor \in 1..Len(data)
    BY <1>1, <1>2 DEF DequeTyped
  <2>2. QED
    BY <1>1, <2>1 DEF DequeTyped
<1>4. DequeTyped'
  BY <1>1, <1>3 DEF DequeTyped
<1>5. Chain(m, size, data, first, last, "next", "previous")
      /\ Ahead(m, size, data, cursor, pending)
  BY DEF Ordered
<1>6. Ahead(m, size, data, data[cursor]["next"], pending \ {cursor})
  BY <1>2, <1>5, AheadNext
<1>7. QED
  BY <1>1, <1>4, <1>5, <1>6 DEF Ordered

\* The deque begins empty,
LEMMA DequeInit == ADeque!Init => DequeInv /\ ADeque!Contents = <<>>
<1> SUFFICES ASSUME ADeque!Init PROVE DequeInv /\ ADeque!Contents = <<>>
  OBVIOUS
<1>1. /\ data = <<>> /\ first = 0 /\ last = 0 /\ size = 0 /\ cursor = 0 /\ pending = {}
      /\ result = "none"
  BY DEF ADeque!Init, ADeque!null
<1>2. DequeTyped
  <2>1. data \in Seq(Node) /\ Len(data) = 0
    BY <1>1
  <2>2. Len(data) <= MaxNodes
    BY <2>1, AssignmentAssumption
  <2>3. \A i \in 1..Len(data) : FALSE
    BY <2>1
  <2>4. QED
    BY <1>1, <2>1, <2>2, <2>3 DEF DequeTyped
<1>3. \E m : Ordered(m)
  BY <1>1, EmptyChain DEF Ordered
<1>4. ADeque!Contents = <<>>
  BY <1>1 DEF ADeque!Contents
<1>5. QED
  BY <1>2, <1>3, <1>4 DEF DequeInv

\* and all its operations keep the invariant.
LEMMA DequeKeepsInv ==
  ASSUME DequeInv, ADeque!Next \/ UNCHANGED <<data, first, last, size, cursor, pending, result>>
  PROVE  DequeInv'
<1>1. PICK m : DequeTyped /\ Ordered(m)
  BY DEF DequeInv
<1>2. ASSUME NEW item \in Items, ADeque!AddFirst(item) PROVE DequeInv'
  BY <1>1, <1>2, AddsFirst DEF DequeInv
<1>3. ASSUME NEW item \in Items, ADeque!AddLast(item) PROVE DequeInv'
  BY <1>1, <1>3, AddsLast DEF DequeInv
<1>4. CASE ADeque!RemoveFirst
  BY <1>1, <1>4, RemovesFirst DEF DequeInv
<1>5. CASE ADeque!RemoveLast
  BY <1>1, <1>5, RemovesLast DEF DequeInv
<1>6. CASE ADeque!StartIterator
  BY <1>1, <1>6, IteratorStarts DEF DequeInv
<1>7. CASE ADeque!NextItem
  BY <1>1, <1>7, IteratorGoesOn DEF DequeInv
<1>8. CASE UNCHANGED <<data, first, last, size, cursor, pending, result>>
  BY <1>1, <1>8 DEF DequeInv, DequeTyped, Ordered
<1>9. QED
  BY <1>2, <1>3, <1>4, <1>5, <1>6, <1>7, <1>8 DEF ADeque!Next

LeadsTo(ns, c, x) == LET w == WalkOf(ns, c, "next", Len(ns)) IN \E i \in DOMAIN w : w[i] = x

\* The way of the iterator leads to all that is owed and still there.
LEMMA WayReaches ==
  ASSUME NEW m, NEW n, NEW ns, NEW b, NEW e, NEW c, NEW ow, Len(ns) \in Nat,
         Chain(m, n, ns, b, e, "next", "previous"), Ahead(m, n, ns, c, ow)
  PROVE  \A j \in 1..n : m[j] \in ow => LeadsTo(ns, c, m[j])
<1>1. SUFFICES ASSUME NEW j \in 1..n, m[j] \in ow
               PROVE  LeadsTo(ns, c, m[j])
  OBVIOUS
<1>2. PICK k, q, p : OnWay(m, n, ns, c, ow, k, q, p)
  BY <1>1 DEF Ahead
<1>3. /\ k \in Nat \ {0} /\ q \in 1..n /\ q <= k
      /\ p \in [1..k -> 1..Len(ns)] /\ p[1] = c
      /\ \A i, l \in 1..k : p[i] = p[l] => i = l
      /\ \A i \in 1..(k - 1) : ns[p[i]]["next"] = p[i + 1]
      /\ \A i \in 1..q : p[k - q + i] = m[n - q + i]
      /\ j > n - q
  BY <1>1, <1>2 DEF OnWay
<1>4. /\ n \in Nat
      /\ \A i \in 1..n : ns[m[i]]["next"] = IF i = n THEN 0 ELSE m[i + 1]
  BY DEF Chain
<1>5. k <= Len(ns) /\ k \in Nat
  BY <1>3, NoMorePlaces
<1>6. ns[p[k]]["next"] = 0
  <2>1. q \in 1..q /\ k - q + q = k /\ n - q + q = n /\ n \in 1..n
    BY <1>3, <1>4
  <2>2. p[k] = m[n]
    BY <1>3, <2>1
  <2>3. QED
    BY <1>4, <2>1, <2>2
<1>7. \A i \in 1..k : ns[p[i]]["next"] = IF i = k THEN 0 ELSE p[i + 1]
  <2>1. \A i \in 1..k : i = k \/ i \in 1..(k - 1)
    BY <1>5
  <2>2. QED
    BY <1>3, <1>6, <2>1
<1>8. WalkOf(ns, c, "next", Len(ns)) = [i \in 1..Len(ns) |-> IF i <= k THEN p[i] ELSE 0]
  <2>1. Along(ns, c, "next", k, p)
    BY <1>3, <1>5, <1>7 DEF Along
  <2>2. QED
    BY <1>5, <2>1, WalkAlong
<1>9. PICK i \in 1..q : n - q + i = j
  <2>1. j - (n - q) \in 1..q /\ n - q + (j - (n - q)) = j
    BY <1>1, <1>3, <1>4
  <2>2. QED
    BY <2>1
<1>10. k - q + i \in 1..Len(ns) /\ k - q + i <= k /\ p[k - q + i] = m[j]
  <2>1. k - q + i \in 1..Len(ns) /\ k - q + i <= k
    BY <1>3, <1>5
  <2>2. QED
    BY <1>3, <1>9, <2>1
<1>11. QED
  BY <1>8, <1>10 DEF LeadsTo

\* What the invariant says.
LEMMA DequeAgrees ==
  ASSUME DequeInv
  PROVE  ADeque!TypeOK /\ ADeque!LinksMirror /\ ADeque!NothingSkipped
<1>1. PICK m : DequeTyped /\ Ordered(m)
  BY DEF DequeInv
<1>2. /\ size \in Nat /\ Len(data) \in Nat /\ m \in [1..size -> 1..Len(data)]
      /\ \A i, j \in 1..size : m[i] = m[j] => i = j
      /\ IF size = 0 THEN first = 0 /\ last = 0 ELSE first = m[1] /\ last = m[size]
      /\ \A i \in 1..size : /\ data[m[i]]["next"] = IF i = size THEN 0 ELSE m[i + 1]
                            /\ data[m[i]]["previous"] = IF i = 1 THEN 0 ELSE m[i - 1]
  BY <1>1, ItemsTyped DEF Ordered, Chain
<1>w. \A n, f, k : ADeque!Walk(n, f, k) = WalkOf(data, n, f, k)
  BY DEF ADeque!Walk, ADeque!null, WalkOf
<1>3. size \in 0..Len(data)
  <2>1. size <= Len(data)
    BY <1>2, NoMorePlaces
  <2>2. QED
    BY <1>2, <2>1
<1>4. ADeque!TypeOK
  BY <1>1, <1>3 DEF DequeTyped, ADeque!TypeOK, ADeque!null, Node
<1>5. size + 1 \in Nat /\ size <= size + 1 /\ size + 1 \in 1..(size + 1)
      /\ ~(size + 1 <= size)
  BY <1>2
<1>a. Along(data, first, "next", size, m)
  BY <1>2 DEF Along
<1>6. ADeque!LinksMirror
  <2>1. WalkOf(data, first, "next", size + 1)
          = [i \in 1..(size + 1) |-> IF i <= size THEN m[i] ELSE 0]
    BY <1>5, <1>a, WalkAlong
  <2> DEFINE r == Back(m, size)
  <2>2. /\ Chain(r, size, data, last, first, "previous", "next")
        /\ r \in [1..size -> 1..Len(data)]
    <3>1. Chain(m, size, data, first, last, "next", "previous")
      BY <1>1 DEF Ordered
    <3>2. Chain(r, size, data, last, first, "previous", "next")
      BY <1>2, <3>1, ChainTurned
    <3>3. QED
      BY <3>2 DEF Chain
  <2>3. \A i \in 1..size : r[i] = m[size + 1 - i]
    BY DEF Back
  <2> HIDE DEF r
  <2>4. WalkOf(data, last, "previous", size + 1)
          = [i \in 1..(size + 1) |-> IF i <= size THEN r[i] ELSE 0]
    <3>1. \A i \in 1..size : data[r[i]]["previous"] = IF i = size THEN 0 ELSE r[i + 1]
      BY <2>2 DEF Chain
    <3>2. last = IF size = 0 THEN 0 ELSE r[1]
      BY <2>2 DEF Chain
    <3>3. Along(data, last, "previous", size, r)
      BY <1>2, <2>2, <3>1, <3>2 DEF Along
    <3>4. QED
      BY <1>5, <3>3, WalkAlong
  <2>5. ASSUME NEW i \in 1..size
        PROVE  /\ WalkOf(data, first, "next", size + 1)[i] # 0
               /\ WalkOf(data, first, "next", size + 1)[i]
                    = WalkOf(data, last, "previous", size + 1)[size + 1 - i]
    <3>1. /\ i \in 1..(size + 1) /\ i <= size /\ size + 1 - i \in 1..size
          /\ size + 1 - i \in 1..(size + 1) /\ size + 1 - i <= size
          /\ size + 1 - (size + 1 - i) = i
      BY <1>2
    <3>2. m[i] \in 1..Len(data)
      BY <1>2
    <3>3. m[i] # 0
      BY <3>2
    <3>4. WalkOf(data, first, "next", size + 1)[i] = m[i]
      BY <2>1, <3>1
    <3>5. WalkOf(data, last, "previous", size + 1)[size + 1 - i] = r[size + 1 - i]
      BY <2>4, <3>1
    <3>6. r[size + 1 - i] = m[i]
      BY <2>3, <3>1
    <3>7. QED
      BY <3>3, <3>4, <3>5, <3>6
  <2>6. WalkOf(data, first, "next", size + 1)[size + 1] = 0
        /\ WalkOf(data, last, "previous", size + 1)[size + 1] = 0
    BY <1>5, <2>1, <2>4
  <2>7. QED
    BY <1>w, <2>5, <2>6 DEF ADeque!LinksMirror, ADeque!null
<1>7. ADeque!Members = {m[i] : i \in 1..size}
  <2>1. WalkOf(data, first, "next", size) = m
    BY <1>a, WalkExactly
  <2>2. QED
    BY <1>2, <1>w, <2>1 DEF ADeque!Members, ADeque!Range
<1>8. ADeque!NothingSkipped
  <2> DEFINE w == WalkOf(data, cursor, "next", Len(data))
  <2>1. \A j \in 1..size : m[j] \in pending => LeadsTo(data, cursor, m[j])
    <3>1. /\ Chain(m, size, data, first, last, "next", "previous")
          /\ Ahead(m, size, data, cursor, pending)
      BY <1>1 DEF Ordered
    <3>2. QED
      BY <1>2, <3>1, WayReaches
  <2>2. ADeque!Walk(cursor, "next", Len(data)) = w
    BY <1>w
  <2> HIDE DEF w
  <2>3. pending \cap ADeque!Members \subseteq ADeque!Range(w)
    BY <1>7, <2>1 DEF ADeque!Range, LeadsTo, w
  <2>4. QED
    BY <2>2, <2>3 DEF ADeque!NothingSkipped
<1>9. QED
  BY <1>4, <1>6, <1>8

ContentsOf(ns, b, n) == [i \in 1..n |-> IF WalkOf(ns, b, "next", n)[i] = 0 THEN "none"
                                        ELSE ns[WalkOf(ns, b, "next", n)[i]].item]

\* The contents are the items of the nodes in order.
LEMMA ContentsAre ==
  ASSUME NEW m, NEW n, NEW ns, NEW b, NEW e, Len(ns) \in Nat,
         Chain(m, n, ns, b, e, "next", "previous")
  PROVE  ContentsOf(ns, b, n) = ItemsAt(ns, m, n)
<1>1. /\ n \in Nat /\ m \in [1..n -> 1..Len(ns)]
      /\ IF n = 0 THEN b = 0 ELSE b = m[1]
      /\ \A i \in 1..n : ns[m[i]]["next"] = IF i = n THEN 0 ELSE m[i + 1]
  BY DEF Chain
<1>2. Along(ns, b, "next", n, m)
  BY <1>1 DEF Along
<1>3. WalkOf(ns, b, "next", n) = m
  BY <1>2, WalkExactly
<1>4. \A i \in 1..n : m[i] # 0
  <2>1. \A i \in 1..n : m[i] \in 1..Len(ns)
    BY <1>1
  <2>2. QED
    BY <2>1
<1>5. QED
  BY <1>3, <1>4 DEF ContentsOf, ItemsAt

\* A step of the deque is one of the sequence, or none that it sees.
LEMMA DequeIsSequence ==
  ASSUME DequeInv, ADeque!Next \/ UNCHANGED <<data, first, last, size, cursor, pending, result>>
  PROVE  \/ ADeque!Sequence!Next
         \/ UNCHANGED <<ADeque!Contents, result>>
<1>1. PICK m : DequeTyped /\ Ordered(m)
  BY DEF DequeInv
<1>2. ADeque!Contents = ContentsOf(data, first, size)
  BY DEF ADeque!Contents, ADeque!Walk, ADeque!null, ContentsOf, WalkOf
<1>3. ADeque!Contents' = ContentsOf(data', first', size')
  BY DEF ADeque!Contents, ADeque!Walk, ADeque!null, ContentsOf, WalkOf
<1>4. ADeque!Contents = ItemsAt(data, m, size)
  <2>1. Chain(m, size, data, first, last, "next", "previous") /\ Len(data) \in Nat
    BY <1>1, ItemsTyped DEF Ordered
  <2>2. QED
    BY <1>2, <2>1, ContentsAre
<1>5. ASSUME NEW m2, DequeTyped', Ordered(m2)'
      PROVE  ADeque!Contents' = ItemsAt(data, m2, size)'
  <2>1. Chain(m2, size', data', first', last', "next", "previous")
    BY <1>5 DEF Ordered
  <2>2. Len(data') \in Nat
    BY <1>5 DEF DequeTyped
  <2>3. QED
    BY <1>3, <2>1, <2>2, ContentsAre
<1>6. ASSUME NEW item \in Items, ADeque!AddFirst(item) PROVE ADeque!Sequence!AddFirst(item)
  <2>1. /\ DequeTyped' /\ result' = result
        /\ \E m2 : Ordered(m2)' /\ ItemsAt(data, m2, size)' = <<item>> \o ItemsAt(data, m, size)
    BY <1>1, <1>6, AddsFirst
  <2>2. ADeque!Contents' = <<item>> \o ADeque!Contents
    BY <1>4, <1>5, <2>1
  <2>3. QED
    BY <2>1, <2>2 DEF ADeque!Sequence!AddFirst
<1>7. ASSUME NEW item \in Items, ADeque!AddLast(item) PROVE ADeque!Sequence!AddLast(item)
  <2>1. /\ DequeTyped' /\ result' = result
        /\ \E m2 : Ordered(m2)' /\ ItemsAt(data, m2, size)' = Append(ItemsAt(data, m, size), item)
    BY <1>1, <1>7, AddsLast
  <2>2. ADeque!Contents' = Append(ADeque!Contents, item)
    BY <1>4, <1>5, <2>1
  <2>3. QED
    BY <2>1, <2>2 DEF ADeque!Sequence!AddLast
<1>8. ASSUME ADeque!RemoveFirst PROVE ADeque!Sequence!RemoveFirst
  <2>1. /\ DequeTyped'
        /\ \E m2 : Ordered(m2)' /\ ItemsAt(data, m2, size)' = Tail(ItemsAt(data, m, size))
        /\ ItemsAt(data, m, size) # <<>> /\ result' = Head(ItemsAt(data, m, size))
    BY <1>1, <1>8, RemovesFirst
  <2>2. ADeque!Contents' = Tail(ADeque!Contents)
    BY <1>4, <1>5, <2>1
  <2>3. QED
    BY <1>4, <2>1, <2>2 DEF ADeque!Sequence!RemoveFirst
<1>9. ASSUME ADeque!RemoveLast PROVE ADeque!Sequence!RemoveLast
  <2>1. /\ DequeTyped'
        /\ \E m2 : /\ Ordered(m2)'
                   /\ ItemsAt(data, m2, size)' = SubSeq(ItemsAt(data, m, size), 1, size - 1)
        /\ ItemsAt(data, m, size) # <<>> /\ Len(ItemsAt(data, m, size)) = size
        /\ result' = ItemsAt(data, m, size)[size]
    BY <1>1, <1>9, RemovesLast
  <2>2. ADeque!Contents' = SubSeq(ADeque!Contents, 1, size - 1)
    BY <1>4, <1>5, <2>1
  <2>3. QED
    BY <1>4, <2>1, <2>2 DEF ADeque!Sequence!RemoveLast
<1>10. ASSUME ADeque!StartIterator \/ ADeque!NextItem
       PROVE  UNCHANGED <<ADeque!Contents, result>>
  <2>1. DequeTyped' /\ Ordered(m)' /\ UNCHANGED <<data, size, result>>
    BY <1>1, <1>10, IteratorStarts, IteratorGoesOn
  <2>2. ADeque!Contents' = ItemsAt(data', m, size')
    BY <1>5, <2>1
  <2>3. QED
    BY <1>4, <2>1, <2>2
<1>11. CASE UNCHANGED <<data, first, last, size, cursor, pending, result>>
  BY <1>2, <1>3, <1>11
<1>12. QED
  BY <1>6, <1>7, <1>8, <1>9, <1>10, <1>11 DEF ADeque!Next, ADeque!Sequence!Next

\* The invariant of the deque holds of the program.
THEOREM DequeInvariance == Spec => [](program = "deque" => DequeInv)
<1> DEFINE Inv == program = "deque" => DequeInv
<1>1. Init => Inv
  BY DequeInit DEF Init
<1>2. ASSUME Inv, [Next]_vars PROVE Inv'
  <2>1. SUFFICES ASSUME program' = "deque" PROVE DequeInv'
    OBVIOUS
  <2>2. program = "deque" /\ DequeInv
    BY <1>2, <2>1 DEF Next, vars
  <2>3. ADeque!Next \/ UNCHANGED <<data, first, last, size, cursor, pending, result>>
    BY <1>2, <2>2 DEF Next, vars
  <2>4. QED
    BY <2>2, <2>3, DequeKeepsInv
<1>3. QED
  BY <1>1, <1>2, PTL DEF Spec

\* Deque.java: however additions and removals at the two ends alternate, the list is
\* the same read from either end, and an iterator misses no node that has been in the
\* deque all the time, even one that stands on a node that has been removed.
THEOREM NothingSafe == Spec => []NothingSkipped
<1>1. (program = "deque" => DequeInv) => NothingSkipped
  BY DequeAgrees DEF NothingSkipped
<1>2. QED
  BY <1>1, DequeInvariance, PTL

\* Deque.java implements a sequence of items: what is added at an end is there, and
\* what is removed from an end is what was there.
THEOREM DequeImplementation == Spec => ImplementsSequence
<1> DEFINE Inv == program = "deque" => DequeInv
           items == IF program = "deque" THEN ADeque!Contents ELSE <<>>
           removed == IF program = "deque" THEN result ELSE "none"
<1>1. Init => ADequeOrEmpty!Init
  <2>1. SUFFICES ASSUME Init PROVE items = <<>> /\ removed = "none"
    BY DEF ADequeOrEmpty!Init
  <2>2. program = "deque" => ADeque!Init
    BY <2>1 DEF Init
  <2>3. ADeque!Init => result = "none"
    BY DEF ADeque!Init
  <2>4. QED
    BY <2>2, <2>3, DequeInit
<1>2. ASSUME Inv, [Next]_vars
      PROVE  ADequeOrEmpty!Next \/ UNCHANGED <<items, removed>>
  <2>1. program' = program
    BY <1>2 DEF Next, vars
  <2>2. CASE program # "deque"
    BY <2>1, <2>2
  <2>3. CASE program = "deque"
    <3>1. ADeque!Next \/ UNCHANGED <<data, first, last, size, cursor, pending, result>>
      BY <1>2, <2>3 DEF Next, vars
    <3>2. ADeque!Sequence!Next \/ UNCHANGED <<ADeque!Contents, result>>
      BY <1>2, <2>3, <3>1, DequeIsSequence
    <3>3. /\ items = ADeque!Contents /\ items' = ADeque!Contents'
          /\ removed = result /\ removed' = result'
      BY <2>1, <2>3
    <3>4. CASE UNCHANGED <<ADeque!Contents, result>>
      BY <3>3, <3>4
    <3>5. CASE ADeque!Sequence!Next
      <4>1. ASSUME NEW i \in Items, ADeque!Sequence!AddFirst(i) PROVE ADequeOrEmpty!AddFirst(i)
        <5>1. ADeque!Contents' = <<i>> \o ADeque!Contents /\ result' = result
          BY <4>1 DEF ADeque!Sequence!AddFirst
        <5>2. items' = <<i>> \o items /\ removed' = removed
          BY <3>3, <5>1
        <5>3. QED
          BY <5>2 DEF ADequeOrEmpty!AddFirst
      <4>2. ASSUME NEW i \in Items, ADeque!Sequence!AddLast(i) PROVE ADequeOrEmpty!AddLast(i)
        <5>1. ADeque!Contents' = Append(ADeque!Contents, i) /\ result' = result
          BY <4>2 DEF ADeque!Sequence!AddLast
        <5>2. items' = Append(items, i) /\ removed' = removed
          BY <3>3, <5>1
        <5>3. QED
          BY <5>2 DEF ADequeOrEmpty!AddLast
      <4>3. ASSUME ADeque!Sequence!RemoveFirst PROVE ADequeOrEmpty!RemoveFirst
        <5>1. /\ ADeque!Contents # <<>> /\ ADeque!Contents' = Tail(ADeque!Contents)
              /\ result' = Head(ADeque!Contents)
          BY <4>3 DEF ADeque!Sequence!RemoveFirst
        <5>2. items # <<>> /\ items' = Tail(items) /\ removed' = Head(items)
          BY <3>3, <5>1
        <5>3. QED
          BY <5>2 DEF ADequeOrEmpty!RemoveFirst
      <4>4. ASSUME ADeque!Sequence!RemoveLast PROVE ADequeOrEmpty!RemoveLast
        <5>1. /\ ADeque!Contents # <<>>
              /\ ADeque!Contents' = SubSeq(ADeque!Contents, 1, Len(ADeque!Contents) - 1)
              /\ result' = ADeque!Contents[Len(ADeque!Contents)]
          BY <4>4 DEF ADeque!Sequence!RemoveLast
        <5>2. /\ items # <<>> /\ items' = SubSeq(items, 1, Len(items) - 1)
              /\ removed' = items[Len(items)]
          BY <3>3, <5>1
        <5>3. QED
          BY <5>2 DEF ADequeOrEmpty!RemoveLast
      <4>5. QED
        BY <3>5, <4>1, <4>2, <4>3, <4>4 DEF ADeque!Sequence!Next, ADequeOrEmpty!Next
    <3>6. QED
      BY <3>2, <3>4, <3>5
  <2>4. QED
    BY <2>2, <2>3
<1>3. QED
  BY <1>1, <1>2, DequeInvariance, PTL DEF Spec, ImplementsSequence, ADequeOrEmpty!Spec

-----------------------------------------------------------------------------
(* The 8 puzzle.  Its Manhattan distance is a sum over a set, which the    *)
(* library takes element by element in an order of its own: what a sum is  *)
(* must not depend on that order.                                          *)

Picked(s) == CHOOSE x \in s : TRUE

\* f is the sum of the weights w, for all subsets of S.
Sums(f, w, S) ==
  f = [s \in SUBSET S |-> IF s = {} THEN 0 ELSE w[Picked(s)] + f[s \ {Picked(s)}]]

\* What is left when an element of a finite set has been picked.
LEMMA OneLess ==
  ASSUME NEW s, IsFiniteSet(s), NEW x \in s
  PROVE  /\ IsFiniteSet(s \ {x}) /\ Cardinality(s) \in Nat
         /\ Cardinality(s \ {x}) \in Nat
         /\ Cardinality(s \ {x}) = Cardinality(s) - 1
         /\ Cardinality(s) > 0
<1>1. Cardinality(s) \in Nat
  BY FS_CardinalityType
<1>2. IsFiniteSet(s \ {x}) /\ Cardinality(s \ {x}) = Cardinality(s) - 1
  BY FS_RemoveElement
<1>3. Cardinality(s \ {x}) \in Nat
  BY <1>2, FS_CardinalityType
<1>4. QED
  BY <1>1, <1>2, <1>3

\* One is picked from what is not empty.
LEMMA PickedIsIn == \A s : s # {} => Picked(s) \in s
BY DEF Picked

\* There are sums over every finite set.
LEMMA SumsExist ==
  ASSUME NEW S, IsFiniteSet(S), NEW w
  PROVE  \E f : Sums(f, w, S)
<1> DEFINE Upto(n) == {s \in SUBSET S : Cardinality(s) <= n}
           IsSum(f, n) == f = [s \in Upto(n) |-> IF s = {} THEN 0
                                                 ELSE w[Picked(s)] + f[s \ {Picked(s)}]]
           N == {n \in Nat : \E f : IsSum(f, n)}
<1>1. \A s \in SUBSET S : IsFiniteSet(s) /\ Cardinality(s) \in Nat
      /\ Cardinality(s) <= Cardinality(S)
  BY FS_Subset, FS_CardinalityType
<1>2. \A s \in SUBSET S : s # {} => /\ s \ {Picked(s)} \in SUBSET S
                                   /\ Cardinality(s \ {Picked(s)}) = Cardinality(s) - 1
                                   /\ Cardinality(s) > 0
  BY <1>1, OneLess, PickedIsIn
<1>3. Cardinality({}) = 0
  BY FS_EmptySet
<1>4. 0 \in N
  <2> DEFINE f == [s \in Upto(0) |-> 0]
  <2>1. ASSUME NEW s \in Upto(0), s # {} PROVE FALSE
    <3>1. s \in SUBSET S /\ Cardinality(s) <= 0
      OBVIOUS
    <3>2. Cardinality(s) > 0 /\ Cardinality(s) \in Nat
      BY <1>1, <1>2, <2>1, <3>1
    <3>3. QED
      BY <3>1, <3>2
  <2>2. IsSum(f, 0)
    BY <2>1
  <2>3. QED
    BY <2>2
<1>5. ASSUME NEW n \in N PROVE n + 1 \in N
  <2>1. PICK f : IsSum(f, n)
    OBVIOUS
  <2> DEFINE g == [s \in Upto(n + 1) |-> IF s \in Upto(n) THEN f[s]
                                         ELSE w[Picked(s)] + f[s \ {Picked(s)}]]
  <2>2. n \in Nat
    OBVIOUS
  <2>3. Upto(n) \subseteq Upto(n + 1)
    BY <1>1, <2>2
  <2>4. ASSUME NEW s \in Upto(n + 1), s # {} PROVE s \ {Picked(s)} \in Upto(n)
    <3>1. s \in SUBSET S /\ Cardinality(s) <= n + 1
      OBVIOUS
    <3>2. /\ s \ {Picked(s)} \in SUBSET S /\ Cardinality(s) \in Nat
          /\ Cardinality(s \ {Picked(s)}) = Cardinality(s) - 1
      BY <1>1, <1>2, <2>4, <3>1
    <3>3. Cardinality(s \ {Picked(s)}) <= n
      BY <2>2, <3>1, <3>2
    <3>4. QED
      BY <3>2, <3>3
  <2>5. {} \in Upto(n)
    BY <1>3, <2>2
  <2>6. \A s \in Upto(n) : f[s] = IF s = {} THEN 0 ELSE w[Picked(s)] + f[s \ {Picked(s)}]
    <3> HIDE DEF Upto
    <3>1. f = [s \in Upto(n) |-> IF s = {} THEN 0 ELSE w[Picked(s)] + f[s \ {Picked(s)}]]
      BY <2>1
    <3>2. QED
      BY <3>1
  <2> HIDE DEF Upto
  <2>7. \A s \in Upto(n + 1) : g[s] = IF s \in Upto(n) THEN f[s]
                                      ELSE w[Picked(s)] + f[s \ {Picked(s)}]
    OBVIOUS
  <2>8. \A s \in Upto(n + 1) : s # {} => g[s \ {Picked(s)}] = f[s \ {Picked(s)}]
    BY <2>3, <2>4, <2>7
  <2>9. \A s \in Upto(n + 1) : g[s] = IF s = {} THEN 0
                                      ELSE w[Picked(s)] + g[s \ {Picked(s)}]
    BY <2>5, <2>6, <2>7, <2>8
  <2>10. g = [s \in Upto(n + 1) |-> g[s]]
    OBVIOUS
  <2> HIDE DEF g
  <2>11. IsSum(g, n + 1)
    BY <2>9, <2>10
  <2>12. n + 1 \in Nat
    BY <2>2
  <2> HIDE DEF IsSum
  <2>13. QED
    BY <2>11, <2>12
<1>6. N = Nat
  <2>1. N \in SUBSET Nat
    OBVIOUS
  <2> HIDE DEF N
  <2>2. QED
    BY <1>4, <1>5, <2>1, Induction
<1>7. Cardinality(S) \in Nat
  BY FS_CardinalityType
<1>8. PICK f : IsSum(f, Cardinality(S))
  BY <1>6, <1>7
<1>9. Upto(Cardinality(S)) = SUBSET S
  BY <1>1
<1>10. Sums(f, w, S)
  <2> HIDE DEF Upto
  <2>1. QED
    BY <1>8, <1>9 DEF Sums
<1>11. QED
  BY <1>10

\* One step of a sum.
LEMMA SumStep ==
  ASSUME NEW f, NEW w, NEW S, Sums(f, w, S), NEW s \in SUBSET S
  PROVE  f[s] = IF s = {} THEN 0 ELSE w[Picked(s)] + f[s \ {Picked(s)}]
BY DEF Sums

\* A sum takes its elements in any order, and it is a number.
LEMMA AnyOrder ==
  ASSUME NEW f, NEW w, NEW S, IsFiniteSet(S), Sums(f, w, S),
         \A x \in S : w[x] \in Nat
  PROVE  \A s \in SUBSET S : f[s] \in Nat /\ \A x \in s : f[s] = w[x] + f[s \ {x}]
<1> DEFINE Fine(s) == f[s] \in Nat /\ \A x \in s : f[s] = w[x] + f[s \ {x}]
           N == {n \in Nat : \A s \in SUBSET S : Cardinality(s) <= n => Fine(s)}
<1>1. \A s \in SUBSET S : IsFiniteSet(s) /\ Cardinality(s) \in Nat
  BY FS_Subset, FS_CardinalityType
<1>2. 0 \in N
  <2>1. SUFFICES ASSUME NEW s \in SUBSET S, Cardinality(s) <= 0 PROVE Fine(s)
    OBVIOUS
  <2>2. s = {}
    BY <1>1, <2>1, FS_EmptySet
  <2>3. f[s] = 0
    BY <2>2, SumStep
  <2>4. QED
    BY <2>2, <2>3
<1>3. ASSUME NEW n \in N PROVE n + 1 \in N
  <2>1. n \in Nat /\ \A t \in SUBSET S : Cardinality(t) <= n => Fine(t)
    OBVIOUS
  <2>2. Fine({})
    <3>1. f[{}] = 0
      BY SumStep
    <3>2. QED
      BY <3>1
  <2>3. ASSUME NEW s \in SUBSET S, Cardinality(s) <= n + 1, s # {}
        PROVE  Fine(s)
    <3> DEFINE c == Picked(s)
    <3>1. c \in s /\ f[s] = w[c] + f[s \ {c}]
      BY <2>3, PickedIsIn, SumStep
    <3> HIDE DEF c
    <3>2. \A x \in s : s \ {x} \in SUBSET S /\ Cardinality(s \ {x}) <= n
      BY <1>1, <2>1, <2>3, OneLess
    <3>3. \A x \in s : Fine(s \ {x})
      BY <2>1, <3>2
    <3>4. f[s \ {c}] \in Nat /\ w[c] \in Nat /\ f[s] \in Nat
      <4>1. Fine(s \ {c})
        BY <3>1, <3>3
      <4>2. f[s \ {c}] \in Nat
        BY <4>1
      <4>3. w[c] \in Nat
        BY <2>3, <3>1
      <4>4. QED
        BY <3>1, <4>2, <4>3
    <3>5. ASSUME NEW x \in s, x # c PROVE f[s] = w[x] + f[s \ {x}]
      <4> DEFINE rest == (s \ {x}) \ {c}
      <4>1. x \in s \ {c} /\ c \in s \ {x} /\ (s \ {c}) \ {x} = rest
        BY <3>1, <3>5
      <4>2. f[s \ {c}] = w[x] + f[rest]
        BY <3>1, <3>3, <4>1
      <4>3. f[s \ {x}] = w[c] + f[rest]
        BY <3>3, <4>1
      <4>4. f[rest] \in Nat
        <5>1. c \in s \ {x} /\ s \ {x} \in SUBSET S /\ Cardinality(s \ {x}) <= n
          BY <3>2, <4>1
        <5>2. rest \in SUBSET S /\ Cardinality(rest) <= n
          <6>1. IsFiniteSet(s \ {x})
            BY <1>1, <5>1
          <6>2. Cardinality(rest) = Cardinality(s \ {x}) - 1 /\ Cardinality(s \ {x}) \in Nat
            BY <5>1, <6>1, OneLess
          <6>3. QED
            BY <2>1, <5>1, <6>2
        <5>3. QED
          BY <2>1, <5>2
      <4>5. w[x] \in Nat /\ w[c] \in Nat
        BY <3>1
      <4> HIDE DEF rest
      <4>6. QED
        BY <3>1, <4>2, <4>3, <4>4, <4>5
    <3>6. QED
      BY <3>1, <3>4, <3>5
  <2>4. \A s \in SUBSET S : Cardinality(s) <= n + 1 => Fine(s)
    BY <2>2, <2>3
  <2>5. n + 1 \in Nat
    BY <2>1
  <2> HIDE DEF Fine
  <2>6. QED
    BY <2>4, <2>5
<1>4. N = Nat
  <2>1. N \in SUBSET Nat
    OBVIOUS
  <2> HIDE DEF N
  <2>2. QED
    BY <1>2, <1>3, <2>1, Induction
<1>5. QED
  BY <1>1, <1>4

\* Two sums are the same on a set where their weights are.
LEMMA SameSums ==
  ASSUME NEW f, NEW w, NEW S, IsFiniteSet(S), Sums(f, w, S),
         NEW g, NEW v, NEW T, Sums(g, v, T)
  PROVE  \A s \in SUBSET (S \cap T) : (\A x \in s : w[x] = v[x]) => f[s] = g[s]
<1> DEFINE Fine(s) == (\A x \in s : w[x] = v[x]) => f[s] = g[s]
           N == {n \in Nat : \A s \in SUBSET (S \cap T) : Cardinality(s) <= n => Fine(s)}
<1>0. /\ \A s \in SUBSET S : s # {} => f[s] = w[Picked(s)] + f[s \ {Picked(s)}]
      /\ \A s \in SUBSET T : s # {} => g[s] = v[Picked(s)] + g[s \ {Picked(s)}]
  BY DEF Sums
<1>1. \A s \in SUBSET S : IsFiniteSet(s) /\ Cardinality(s) \in Nat
  BY FS_Subset, FS_CardinalityType
<1>2. Fine({})
  <2>1. f[{}] = 0 /\ g[{}] = 0
    BY SumStep
  <2>2. QED
    BY <2>1
<1>3. 0 \in N
  <2>1. ASSUME NEW s \in SUBSET (S \cap T), Cardinality(s) <= 0 PROVE Fine(s)
    <3>1. Cardinality(s) = 0
      BY <1>1, <2>1
    <3>2. s = {}
      BY <1>1, <3>1, FS_EmptySet
    <3>3. QED
      BY <1>2, <3>2
  <2> HIDE DEF Fine
  <2>2. QED
    BY <2>1
<1>4. ASSUME NEW n \in N PROVE n + 1 \in N
  <2>1. n \in Nat /\ \A s \in SUBSET (S \cap T) : Cardinality(s) <= n => Fine(s)
    OBVIOUS
  <2>2. ASSUME NEW s \in SUBSET (S \cap T), Cardinality(s) <= n + 1, s # {},
               \A x \in s : w[x] = v[x]
        PROVE  f[s] = g[s]
    <3> DEFINE c == Picked(s)
    <3>1. c \in s /\ f[s] = w[c] + f[s \ {c}] /\ g[s] = v[c] + g[s \ {c}]
      <4>1. c \in s
        BY <2>2, PickedIsIn
      <4>2. s \in SUBSET S /\ s \in SUBSET T
        BY <2>2
      <4>3. f[s] = w[c] + f[s \ {c}]
        BY <1>0, <2>2, <4>2
      <4>4. g[s] = v[c] + g[s \ {c}]
        BY <1>0, <2>2, <4>2
      <4>5. QED
        BY <4>1, <4>3, <4>4
    <3> HIDE DEF c
    <3>2. s \ {c} \in SUBSET (S \cap T) /\ Cardinality(s \ {c}) <= n
      <4>1. Cardinality(s \ {c}) = Cardinality(s) - 1 /\ Cardinality(s) \in Nat
        BY <1>1, <3>1, OneLess
      <4>2. Cardinality(s \ {c}) <= n
        BY <2>1, <2>2, <4>1
      <4>3. QED
        BY <4>2
    <3>3. f[s \ {c}] = g[s \ {c}]
      BY <2>1, <2>2, <3>2
    <3>4. QED
      BY <2>2, <3>1, <3>3
  <2>3. \A s \in SUBSET (S \cap T) : Cardinality(s) <= n + 1 => Fine(s)
    BY <1>2, <2>2
  <2>4. n + 1 \in Nat
    BY <2>1
  <2> HIDE DEF Fine
  <2>5. QED
    BY <2>3, <2>4
<1>5. N = Nat
  <2>1. N \in SUBSET Nat
    OBVIOUS
  <2> HIDE DEF N
  <2>2. QED
    BY <1>3, <1>4, <2>1, Induction
<1>6. QED
  BY <1>1, <1>5

-----------------------------------------------------------------------------
(* The boards of the 8 puzzle. *)

\* Every tile is on one square.
Boards == {b \in [ASolver!Squares -> 0..(Dim * Dim - 1)] :
             /\ \A t \in 0..(Dim * Dim - 1) : \E s \in ASolver!Squares : b[s] = t
             /\ \A r, s \in ASolver!Squares : b[r] = b[s] => r = s}

\* There are finitely many squares.
LEMMA SquaresFinite ==
  IsFiniteSet(ASolver!Squares) /\ Dim \in Nat /\ Dim * Dim \in Nat /\ Dim * Dim > 2
<1>1. Dim \in Nat /\ Dim > 1
  BY AssignmentAssumption DEF AssignmentAssumption
<1>2. Dim * Dim \in Nat /\ Dim * Dim >= Dim + Dim
  BY <1>1, SMTT(20)
<1>3. IsFiniteSet(ASolver!Squares)
  BY <1>2, FS_Interval DEF ASolver!Squares
<1>4. QED
  BY <1>1, <1>2, <1>3

\* Distances are numbers.
LEMMA DistanceType ==
  ASSUME NEW s \in ASolver!Squares, NEW t \in ASolver!Squares
  PROVE  /\ ASolver!Distance(s, t) \in Nat
         /\ s = t => ASolver!Distance(s, t) = 0
<1> DEFINE Q(x) == (x - 1) \div Dim
           R(x) == (x - 1) % Dim
<1>1. Dim \in Nat \ {0} /\ s \in Nat \ {0} /\ t \in Nat \ {0}
  BY SquaresFinite, AssignmentAssumption DEF ASolver!Squares, AssignmentAssumption
<1>2. Q(s) \in Int /\ Q(t) \in Int /\ R(s) \in Int /\ R(t) \in Int
  BY <1>1
<1> HIDE DEF Q, R
<1>3. ASolver!Distance(s, t) = ASolver!Diff(Q(s), Q(t)) + ASolver!Diff(R(s), R(t))
  BY DEF ASolver!Distance, ASolver!RowOf, ASolver!ColOf, Q, R
<1>4. QED
  BY <1>2, <1>3 DEF ASolver!Diff

\* The tiles that are out of place are on squares of the board.
LEMMA MisplacedSquares ==
  ASSUME NEW board \in Boards
  PROVE  /\ ASolver!Misplaced(board) \in SUBSET ASolver!Squares
         /\ IsFiniteSet(ASolver!Misplaced(board))
         /\ \A s \in ASolver!Misplaced(board) : board[s] \in ASolver!Squares
<1>1. ASolver!Misplaced(board) \in SUBSET ASolver!Squares
  BY DEF ASolver!Misplaced
<1>2. IsFiniteSet(ASolver!Misplaced(board))
  BY <1>1, SquaresFinite, FS_Subset
<1>3. ASSUME NEW s \in ASolver!Squares, board[s] # 0 PROVE board[s] \in ASolver!Squares
  BY <1>3, SquaresFinite DEF Boards, ASolver!Squares
<1>4. QED
  BY <1>1, <1>2, <1>3 DEF ASolver!Misplaced

\* What each tile is away, whichever square it is on.
Away(board) == [s \in ASolver!Squares |-> ASolver!Distance(s, board[s])]

\* Manhattan is a sum of what each tile that is out of place is away.
LEMMA ManhattanIs ==
  ASSUME NEW board \in Boards
  PROVE  \E f : /\ Sums(f, Away(board), ASolver!Misplaced(board))
                /\ ASolver!Manhattan(board) = f[ASolver!Misplaced(board)]
<1> DEFINE M == ASolver!Misplaced(board)
           Sum(f) == f = [s \in SUBSET M |-> IF s = {} THEN 0
                            ELSE LET x == CHOOSE x \in s : TRUE
                                 IN ASolver!Distance(x, board[x]) + f[s \ {x}]]
           g == CHOOSE f : Sum(f)
<1>1. ASolver!Manhattan(board) = g[M]
  BY DEF ASolver!Manhattan, ASolver!MapThenSumSet, ASolver!MapThenFoldSet
<1>2. M \in SUBSET ASolver!Squares /\ IsFiniteSet(M)
  BY MisplacedSquares
<1> HIDE DEF M
<1>3. ASSUME NEW f PROVE Sum(f) <=> Sums(f, Away(board), M)
  <2>1. \A s \in SUBSET M : s # {} =>
          Away(board)[Picked(s)] = ASolver!Distance(Picked(s), board[Picked(s)])
    BY <1>2, PickedIsIn DEF Away
  <2>2. Sum(f) <=> f = [s \in SUBSET M |-> IF s = {} THEN 0
                          ELSE ASolver!Distance(Picked(s), board[Picked(s)])
                                 + f[s \ {Picked(s)}]]
    BY DEF Picked
  <2>3. QED
    BY <2>1, <2>2 DEF Sums
<1>4. PICK f : Sums(f, Away(board), M)
  BY <1>2, SumsExist
<1>5. Sum(f)
  BY <1>3, <1>4
<1> HIDE DEF Sum
<1>6. Sum(g)
  BY <1>5
<1>7. Sums(g, Away(board), M)
  BY <1>3, <1>6
<1>8. QED
  BY <1>1, <1>7 DEF M

\* f is the sum that is Manhattan, a number that takes its squares in any order.
Total(f, board) ==
  /\ Sums(f, Away(board), ASolver!Misplaced(board))
  /\ ASolver!Manhattan(board) = f[ASolver!Misplaced(board)]
  /\ \A s \in SUBSET ASolver!Misplaced(board) :
       f[s] \in Nat /\ \A x \in s : f[s] = Away(board)[x] + f[s \ {x}]

\* There is one.
LEMMA ManhattanSum ==
  ASSUME NEW board \in Boards
  PROVE  \E f : Total(f, board)
<1> DEFINE M == ASolver!Misplaced(board)
           w == Away(board)
<1>1. PICK f : Sums(f, w, M) /\ ASolver!Manhattan(board) = f[M]
  BY ManhattanIs
<1>2. IsFiniteSet(M) /\ \A x \in M : w[x] \in Nat
  BY MisplacedSquares, DistanceType DEF Away
<1> HIDE DEF M, w
<1>3. \A s \in SUBSET M :
        f[s] \in Nat /\ \A x \in s : f[s] = w[x] + f[s \ {x}]
  BY <1>1, <1>2, AnyOrder
<1>4. Total(f, board)
  BY <1>1, <1>3 DEF Total, M, w
<1>5. QED
  BY <1>4

\* The empty square is the one that has no tile.
LEMMA EmptyIs ==
  ASSUME NEW board \in Boards
  PROVE  /\ ASolver!EmptySquare(board) \in ASolver!Squares
         /\ board[ASolver!EmptySquare(board)] = 0
<1>1. \E s \in ASolver!Squares : board[s] = 0
  BY SquaresFinite DEF Boards
<1>2. QED
  BY <1>1 DEF ASolver!EmptySquare

\* Two tiles that change places leave every tile on one square.
LEMMA ExchangedBoard ==
  ASSUME NEW board \in Boards, NEW s \in ASolver!Squares, NEW t \in ASolver!Squares
  PROVE  /\ ASolver!Exchanged(board, s, t) \in Boards
         /\ ASolver!Exchanged(board, s, t)
              = [x \in ASolver!Squares |-> IF x = t THEN board[s]
                                           ELSE IF x = s THEN board[t] ELSE board[x]]
<1> DEFINE e == [x \in ASolver!Squares |-> IF x = t THEN board[s]
                                           ELSE IF x = s THEN board[t] ELSE board[x]]
           T == 0..(Dim * Dim - 1)
<1>1. board \in [ASolver!Squares -> T]
  BY DEF Boards
<1>2. ASolver!Exchanged(board, s, t) = e
  BY <1>1 DEF ASolver!Exchanged
<1>3. /\ \A x \in T : \E r \in ASolver!Squares : board[r] = x
      /\ \A r, x \in ASolver!Squares : board[r] = board[x] => r = x
  BY DEF Boards
<1> HIDE DEF T
<1>4. e \in [ASolver!Squares -> T]
  BY <1>1
<1>5. ASSUME NEW x \in T PROVE \E r \in ASolver!Squares : e[r] = x
  <2>1. PICK r \in ASolver!Squares : board[r] = x
    BY <1>3
  <2>2. /\ r = s => e[t] = x
        /\ r = t /\ r # s => e[s] = x
        /\ r # s /\ r # t => e[r] = x
    BY <2>1
  <2> HIDE DEF e
  <2>3. QED
    BY <2>1, <2>2
<1>6. \A r, x \in ASolver!Squares : e[r] = e[x] => r = x
  BY <1>3
<1> HIDE DEF e, T
<1>7. e \in Boards
  BY <1>4, <1>5, <1>6 DEF Boards, T
<1>8. QED
  BY <1>2, <1>7 DEF e

\* The tiles out of place before and after tile t has gone from square z to s.
LEMMA MisplacedMoved ==
  ASSUME NEW board \in Boards, NEW z \in ASolver!Squares,
         NEW s, s = ASolver!EmptySquare(board), z # s
  PROVE  /\ board[z] \in ASolver!Squares
         /\ ASolver!Misplaced(board) = IF board[z] = z THEN ASolver!Misplaced(board) \ {z}
                                       ELSE (ASolver!Misplaced(board) \ {z}) \cup {z}
         /\ ASolver!Misplaced(ASolver!Exchanged(board, s, z))
              = IF board[z] = s THEN ASolver!Misplaced(board) \ {z}
                ELSE (ASolver!Misplaced(board) \ {z}) \cup {s}
         /\ s \in ASolver!Squares /\ s \notin ASolver!Misplaced(board)
<1> DEFINE e == ASolver!Exchanged(board, s, z)
           M == ASolver!Misplaced(board)
<1>1. s \in ASolver!Squares /\ board[s] = 0
  BY EmptyIs
<1>2. board[z] # 0
  BY <1>1 DEF Boards
<1>3. board[z] \in ASolver!Squares
  BY <1>2, SquaresFinite DEF Boards, ASolver!Squares
<1>4. e = [x \in ASolver!Squares |-> IF x = z THEN board[s]
                                     ELSE IF x = s THEN board[z] ELSE board[x]]
  BY <1>1, ExchangedBoard
<1>5. M = {x \in ASolver!Squares : board[x] # 0 /\ board[x] # x}
  BY DEF ASolver!Misplaced
<1>6. ASolver!Misplaced(e) = {x \in ASolver!Squares : e[x] # 0 /\ e[x] # x}
  BY DEF ASolver!Misplaced
<1> HIDE DEF e, M
<1>7. M = IF board[z] = z THEN M \ {z} ELSE (M \ {z}) \cup {z}
  BY <1>2, <1>5
<1>8. \A x \in ASolver!Squares : /\ e[z] = 0 /\ e[s] = board[z]
                                 /\ x # z /\ x # s => e[x] = board[x]
  BY <1>1, <1>4
<1>9. ASolver!Misplaced(e) = IF board[z] = s THEN M \ {z} ELSE (M \ {z}) \cup {s}
  BY <1>1, <1>2, <1>5, <1>6, <1>8
<1>10. s \notin M
  BY <1>1, <1>5
<1>11. QED
  BY <1>1, <1>3, <1>7, <1>9, <1>10 DEF e, M

\* The count of tiles that are out of place changes as the private constructor says.
LEMMA HammingMoved ==
  ASSUME NEW board \in Boards, NEW z \in ASolver!Squares,
         NEW s, s = ASolver!EmptySquare(board), z # s
  PROVE  ASolver!Hamming(ASolver!Exchanged(board, s, z))
           = ASolver!ChangedHamming(ASolver!Hamming(board), board[z], s, z)
<1> DEFINE M == ASolver!Misplaced(board)
           R == M \ {z}
           W == ASolver!Misplaced(ASolver!Exchanged(board, s, z))
<1>1. IsFiniteSet(M) /\ IsFiniteSet(R)
  BY MisplacedSquares, FS_Subset
<1>2. Cardinality(R) \in Nat
  BY <1>1, FS_CardinalityType
<1>3. Cardinality(R \cup {s}) = Cardinality(R) + 1
  BY <1>1, MisplacedMoved, FS_AddElement
<1>4. Cardinality(R \cup {z}) = Cardinality(R) + 1
  BY <1>1, FS_AddElement
<1>5. /\ M = IF board[z] = z THEN R ELSE R \cup {z}
      /\ W = IF board[z] = s THEN R ELSE R \cup {s}
  BY MisplacedMoved
<1>6. ASolver!Hamming(board) = Cardinality(M)
      /\ ASolver!Hamming(ASolver!Exchanged(board, s, z)) = Cardinality(W)
  BY DEF ASolver!Hamming, ASolver!Cardinality, Cardinality
<1> HIDE DEF M, R, W
<1>7. QED
  BY <1>2, <1>3, <1>4, <1>5, <1>6 DEF ASolver!ChangedHamming

\* And so does the sum of the tiles' distances.
LEMMA ManhattanMoved ==
  ASSUME NEW board \in Boards, NEW z \in ASolver!Squares,
         NEW s, s = ASolver!EmptySquare(board), z # s
  PROVE  ASolver!Manhattan(ASolver!Exchanged(board, s, z))
           = ASolver!ChangedManhattan(ASolver!Manhattan(board), board[z], s, z)
<1> DEFINE e == ASolver!Exchanged(board, s, z)
           M == ASolver!Misplaced(board)
           R == M \ {z}
           W == ASolver!Misplaced(e)
           before == Away(board)
           after == Away(e)
<1>1. /\ s \in ASolver!Squares /\ s \notin M /\ board[z] \in ASolver!Squares
      /\ M = IF board[z] = z THEN R ELSE R \cup {z}
      /\ W = IF board[z] = s THEN R ELSE R \cup {s}
  BY MisplacedMoved
<1>2. e \in Boards
      /\ e = [x \in ASolver!Squares |-> IF x = z THEN board[s]
                                        ELSE IF x = s THEN board[z] ELSE board[x]]
  BY <1>1, ExchangedBoard
<1>3. M \in SUBSET ASolver!Squares /\ IsFiniteSet(M)
  BY MisplacedSquares
<1>4. /\ before[z] = ASolver!Distance(z, board[z])
      /\ after[s] = ASolver!Distance(s, board[z])
      /\ \A x \in R : before[x] = after[x]
  <2> HIDE DEF M
  <2>1. \A x \in R : x \in ASolver!Squares /\ e[x] = board[x]
    BY <1>1, <1>2, <1>3
  <2>2. e[s] = board[z]
    BY <1>1, <1>2
  <2>3. QED
    BY <1>1, <2>1, <2>2 DEF Away
<1>5. /\ ASolver!Distance(z, board[z]) \in Nat /\ ASolver!Distance(s, board[z]) \in Nat
      /\ z = board[z] => ASolver!Distance(z, board[z]) = 0
      /\ s = board[z] => ASolver!Distance(s, board[z]) = 0
  BY <1>1, DistanceType
<1> HIDE DEF e, M, R, W, before, after
<1>6a. PICK f : Total(f, board)
  BY ManhattanSum
<1>6. /\ Sums(f, before, M) /\ ASolver!Manhattan(board) = f[M]
      /\ \A x \in SUBSET M :
           f[x] \in Nat /\ \A y \in x : f[x] = before[y] + f[x \ {y}]
  BY <1>6a DEF Total, before, M
<1>7a. PICK g : Total(g, e)
  BY <1>2, ManhattanSum
<1>7. /\ Sums(g, after, W) /\ ASolver!Manhattan(e) = g[W]
      /\ \A x \in SUBSET W :
           g[x] \in Nat /\ \A y \in x : g[x] = after[y] + g[x \ {y}]
  BY <1>7a DEF Total, after, W
<1>8. R \in SUBSET M /\ R \in SUBSET W /\ R \in SUBSET (M \cap W)
  BY <1>1 DEF R
<1>9. f[R] = g[R] /\ f[R] \in Nat
  BY <1>3, <1>4, <1>6, <1>7, <1>8, SameSums
<1>10. f[M] = ASolver!Distance(z, board[z]) + f[R]
  <2>1. CASE board[z] = z
    BY <1>1, <1>5, <1>9, <2>1
  <2>2. CASE board[z] # z
    <3>1. z \in M /\ M \ {z} = R
      BY <1>1, <2>2 DEF R
    <3>2. QED
      BY <1>4, <1>6, <3>1
  <2>3. QED
    BY <2>1, <2>2
<1>11. g[W] = ASolver!Distance(s, board[z]) + g[R]
  <2>1. CASE board[z] = s
    BY <1>1, <1>5, <1>9, <2>1
  <2>2. CASE board[z] # s
    <3>1. s \in W /\ W \ {s} = R
      BY <1>1, <2>2 DEF R
    <3>2. QED
      BY <1>4, <1>7, <3>1
  <2>3. QED
    BY <2>1, <2>2
<1>12. g[W] = f[M] - ASolver!Distance(z, board[z]) + ASolver!Distance(s, board[z])
  BY <1>5, <1>9, <1>10, <1>11
<1>13. QED
  BY <1>6, <1>7, <1>12 DEF e, ASolver!ChangedManhattan

\* A square by its row and column, from 0.
LEMMA RowAndColumn ==
  ASSUME NEW s \in ASolver!Squares
  PROVE  /\ ASolver!RowOf(s) \in 0..(Dim - 1) /\ ASolver!ColOf(s) \in 0..(Dim - 1)
         /\ s = ASolver!RowOf(s) * Dim + ASolver!ColOf(s) + 1
<1> DEFINE q == (s - 1) \div Dim
           r == (s - 1) % Dim
<1>1. Dim \in Nat \ {0} /\ s \in Nat \ {0} /\ s <= Dim * Dim
  BY SquaresFinite, AssignmentAssumption DEF ASolver!Squares, AssignmentAssumption
<1>2. q \in Nat /\ r \in 0..(Dim - 1) /\ s - 1 = Dim * q + r
  BY <1>1, SMTT(20)
<1> HIDE DEF q, r
<1>3. q < Dim
  BY <1>1, <1>2, SMTT(20)
<1>4. s = q * Dim + r + 1
  BY <1>1, <1>2, SMTT(20)
<1>5. ASolver!RowOf(s) = q /\ ASolver!ColOf(s) = r
  BY DEF ASolver!RowOf, ASolver!ColOf, q, r
<1>6. QED
  BY <1>1, <1>2, <1>3, <1>4, <1>5

\* twin() exchanges two tiles that are on the board.
LEMMA TwinsAreBoards ==
  ASSUME NEW board \in Boards
  PROVE  ASolver!Twins(board) \subseteq Boards
<1> DEFINE beside(s) == IF ASolver!ColOf(s) < Dim - 1 THEN s + 1 ELSE s - 1
           row(s) == IF 0 \notin {board[s], board[beside(s)]} THEN 0
                     ELSE IF ASolver!RowOf(s) > 0 THEN 0 - Dim ELSE Dim
<1>1. SUFFICES ASSUME NEW s \in ASolver!Squares
               PROVE  ASolver!Exchanged(board, s + row(s), beside(s) + row(s)) \in Boards
  BY DEF ASolver!Twins
<1> DEFINE q == ASolver!RowOf(s)
           c == ASolver!ColOf(s)
<1>2. /\ Dim \in Nat /\ Dim > 1 /\ s \in Nat /\ Dim * Dim \in Nat
      /\ \A x \in Int : x \in ASolver!Squares <=> (1 <= x /\ x <= Dim * Dim)
  BY SquaresFinite, AssignmentAssumption DEF ASolver!Squares, AssignmentAssumption
<1>3. q \in Nat /\ q <= Dim - 1 /\ c \in Nat /\ c <= Dim - 1 /\ s = q * Dim + c + 1
  BY <1>2, RowAndColumn
<1> HIDE DEF q, c
<1>4. q * Dim \in Nat /\ q * Dim + Dim <= Dim * Dim /\ (q > 0 => q * Dim >= Dim)
  BY <1>2, <1>3, SMTT(20)
<1>5. q = 0 => q * Dim + 2 * Dim <= Dim * Dim
  BY <1>2, <1>3, SMTT(20)
<1>6. /\ beside(s) = IF c < Dim - 1 THEN s + 1 ELSE s - 1
      /\ row(s) = 0 \/ (q > 0 /\ row(s) = 0 - Dim) \/ (q = 0 /\ row(s) = Dim)
  BY <1>3 DEF q, c
<1> HIDE DEF beside, row
<1>7. /\ 1 <= s + row(s) /\ s + row(s) <= Dim * Dim /\ s + row(s) \in Int
      /\ 1 <= beside(s) + row(s) /\ beside(s) + row(s) <= Dim * Dim
      /\ beside(s) + row(s) \in Int
  BY <1>2, <1>3, <1>4, <1>5, <1>6
<1>8. s + row(s) \in ASolver!Squares /\ beside(s) + row(s) \in ASolver!Squares
  BY <1>2, <1>7
<1>9. QED
  BY <1>8, ExchangedBoard

\* So does a move.
LEMMA NeighboursAreBoards ==
  ASSUME NEW board \in Boards
  PROVE  ASolver!Neighbours(board) \subseteq Boards
BY EmptyIs, ExchangedBoard DEF ASolver!Neighbours

\* The goal is a board.
LEMMA GoalIsBoard == ASolver!Goal \in Boards
<1> DEFINE g == ASolver!Goal
           n == Dim * Dim
<1>1. n \in Nat /\ n > 2
  BY SquaresFinite
<1>2. g = [s \in 1..n |-> IF s = n THEN 0 ELSE s] /\ ASolver!Squares = 1..n
  BY DEF ASolver!Goal, ASolver!Squares
<1> HIDE DEF n, g
<1>3. g \in [1..n -> 0..(n - 1)]
  BY <1>1, <1>2
<1>4. ASSUME NEW t \in 0..(n - 1) PROVE \E s \in 1..n : g[s] = t
  <2>1. CASE t = 0
    <3>1. n \in 1..n /\ g[n] = 0
      BY <1>1, <1>2
    <3>2. QED
      BY <2>1, <3>1
  <2>2. CASE t # 0
    <3>1. t \in 1..n /\ t # n
      BY <1>1, <2>2
    <3>2. g[t] = t
      BY <1>2, <3>1
    <3>3. QED
      BY <3>1, <3>2
  <2>3. QED
    BY <2>1, <2>2
<1>5. \A r, s \in 1..n : g[r] = g[s] => r = s
  BY <1>1, <1>2
<1>6. QED
  BY <1>2, <1>3, <1>4, <1>5 DEF Boards, n, g

-----------------------------------------------------------------------------
(* Boards by number of moves. *)

\* A function that is one step after another is there for every number of steps.
Reached(B) == B \cup UNION {ASolver!Neighbours(b) : b \in B}
LevelsTo(f, boards, n) ==
  f = [k \in 0..n |-> IF k = 0 THEN boards ELSE Reached(f[k - 1])]

\* By adding one step at a time.
LEMMA LevelsExist ==
  ASSUME NEW boards
  PROVE  \A n \in Nat : \E f : LevelsTo(f, boards, n)
<1> DEFINE N == {n \in Nat : \E f : LevelsTo(f, boards, n)}
<1>1. 0 \in N
  <2> DEFINE f == [k \in 0..0 |-> boards]
  <2>1. LevelsTo(f, boards, 0)
    BY DEF LevelsTo
  <2>2. QED
    BY <2>1
<1>2. ASSUME NEW n \in N PROVE n + 1 \in N
  <2>1. n \in Nat
    OBVIOUS
  <2>2. PICK f : LevelsTo(f, boards, n)
    OBVIOUS
  <2> DEFINE g == [k \in 0..(n + 1) |-> IF k <= n THEN f[k] ELSE Reached(f[n])]
  <2>3. \A k \in 0..n : f[k] = IF k = 0 THEN boards ELSE Reached(f[k - 1])
    BY <2>2 DEF LevelsTo
  <2>4. \A k \in 0..(n + 1) : g[k] = IF k = 0 THEN boards ELSE Reached(g[k - 1])
    BY <2>1, <2>3
  <2>5. g = [k \in 0..(n + 1) |-> g[k]]
    OBVIOUS
  <2> HIDE DEF g
  <2>6. LevelsTo(g, boards, n + 1)
    BY <2>4, <2>5 DEF LevelsTo
  <2>7. n + 1 \in Nat
    BY <2>1
  <2>8. QED
    BY <2>6, <2>7
<1>3. N = Nat
  <2>1. N \in SUBSET Nat
    OBVIOUS
  <2> HIDE DEF N
  <2>2. QED
    BY <1>1, <1>2, <2>1, Induction
<1>4. QED
  BY <1>3

\* Levels of the module is that function.
LEMMA LevelsAre ==
  ASSUME NEW boards
  PROVE  /\ ASolver!Levels(boards)[0] = boards
         /\ \A k \in 1..Within :
              ASolver!Levels(boards)[k] = Reached(ASolver!Levels(boards)[k - 1])
<1>1. Within \in Nat
  BY AssignmentAssumption DEF AssignmentAssumption
<1> DEFINE Level(f) == f = [k \in 0..Within |->
                              IF k = 0 THEN boards
                              ELSE LET before == f[k - 1]
                                   IN before \cup UNION {ASolver!Neighbours(b) : b \in before}]
           g == CHOOSE f : Level(f)
<1>2. ASolver!Levels(boards) = g
  BY DEF ASolver!Levels
<1>3. \A f : Level(f) <=> LevelsTo(f, boards, Within)
  BY DEF LevelsTo, Reached
<1>4. PICK f : Level(f)
  BY <1>1, <1>3, LevelsExist
<1> HIDE DEF Level
<1>5. Level(g)
  BY <1>4
<1>6. LevelsTo(g, boards, Within)
  BY <1>3, <1>5
<1> HIDE DEF g
<1>7. g[0] = boards /\ \A k \in 1..Within : g[k] = Reached(g[k - 1])
  BY <1>1, <1>6 DEF LevelsTo
<1>8. QED
  BY <1>2, <1>7

\* What moves lead to from boards is boards.
LEMMA LevelsAreBoards ==
  ASSUME NEW boards \in SUBSET Boards
  PROVE  \A k \in 0..Within : ASolver!Levels(boards)[k] \subseteq Boards
<1> DEFINE L == ASolver!Levels(boards)
           N == {n \in Nat : n <= Within => L[n] \subseteq Boards}
<1>1. Within \in Nat
  BY AssignmentAssumption DEF AssignmentAssumption
<1>2. L[0] = boards /\ \A k \in 1..Within : L[k] = Reached(L[k - 1])
  BY LevelsAre
<1> HIDE DEF L
<1>3. 0 \in N
  BY <1>2
<1>4. ASSUME NEW n \in N PROVE n + 1 \in N
  <2>1. n \in Nat /\ n + 1 \in Nat /\ (n <= Within => L[n] \subseteq Boards)
    OBVIOUS
  <2>2. ASSUME n + 1 <= Within PROVE L[n + 1] \subseteq Boards
    <3>1. n + 1 \in 1..Within /\ n <= Within /\ (n + 1) - 1 = n
      BY <1>1, <2>1, <2>2
    <3>2. L[n + 1] = Reached(L[n])
      BY <1>2, <3>1
    <3>3. QED
      BY <2>1, <3>1, <3>2, NeighboursAreBoards DEF Reached
  <2>3. QED
    BY <2>1, <2>2
<1>5. N = Nat
  <2>1. N \in SUBSET Nat
    OBVIOUS
  <2> HIDE DEF N
  <2>2. QED
    BY <1>3, <1>4, <2>1, Induction
<1>6. QED
  BY <1>1, <1>5 DEF L

\* The boards the program is given are boards.
LEMMA InitialsAreBoards == ASolver!Initials \subseteq Boards
<1>1. Within \in 0..Within
  BY AssignmentAssumption DEF AssignmentAssumption
<1>2. {ASolver!Goal} \in SUBSET Boards /\ ASolver!Twins(ASolver!Goal) \in SUBSET Boards
  BY GoalIsBoard, TwinsAreBoards
<1>3. QED
  BY <1>1, <1>2, LevelsAreBoards DEF ASolver!Initials

-----------------------------------------------------------------------------
(* The search. *)

\* A node: a way of boards, and the distances of the last one.
SearchNode(n) == /\ n.path \in Seq(Boards) /\ n.path # <<>>
                 /\ n.hamming = ASolver!Hamming(n.path[Len(n.path)])
                 /\ n.manhattan = ASolver!Manhattan(n.path[Len(n.path)])

SolverInv == /\ first \in ASolver!Initials
             /\ \A n \in pending \cup {cursor} : SearchNode(n)
             /\ result \in {"searching", "solvable", "unsolvable"}

\* The public constructor counts all tiles.
LEMMA RootNode ==
  ASSUME NEW board \in Boards
  PROVE  SearchNode(ASolver!Node(<<board>>))
<1> DEFINE way == <<board>>
<1>1. way \in Seq(Boards) /\ way # <<>> /\ Len(way) = 1 /\ way[1] = board
  OBVIOUS
<1> HIDE DEF way
<1>2. ASolver!Node(way).path = way
      /\ ASolver!Node(way).hamming = ASolver!Hamming(way[Len(way)])
      /\ ASolver!Node(way).manhattan = ASolver!Manhattan(way[Len(way)])
  BY DEF ASolver!Node, ASolver!Last
<1>3. SearchNode(ASolver!Node(way))
  BY <1>1, <1>2 DEF SearchNode
<1>4. QED
  BY <1>3 DEF way

\* The private constructor changes the part of the distances of one tile.
LEMMA SuccessorNode ==
  ASSUME NEW node, SearchNode(node), NEW n \in ASolver!Successors(node)
  PROVE  SearchNode(n)
<1> DEFINE board == ASolver!Last(node.path)
           s == ASolver!EmptySquare(board)
           e(z) == ASolver!Exchanged(board, s, z)
           next(z) == [path |-> Append(node.path, e(z)),
                       hamming |-> ASolver!ChangedHamming(node.hamming, board[z], s, z),
                       manhattan |-> ASolver!ChangedManhattan(node.manhattan, board[z], s, z)]
<1>1. PICK z \in ASolver!Squares : ASolver!Distance(z, s) = 1 /\ n = next(z)
  BY DEF ASolver!Successors
<1>2. /\ node.path \in Seq(Boards) /\ node.path # <<>> /\ board = node.path[Len(node.path)]
      /\ node.hamming = ASolver!Hamming(board) /\ node.manhattan = ASolver!Manhattan(board)
  BY DEF SearchNode, ASolver!Last
<1>3. board \in Boards
  BY <1>2
<1> HIDE DEF board
<1>4. s \in ASolver!Squares
  BY <1>3, EmptyIs
<1>5. z # s
  BY <1>1, <1>4, DistanceType
<1>6. /\ ASolver!Hamming(e(z)) = ASolver!ChangedHamming(node.hamming, board[z], s, z)
      /\ ASolver!Manhattan(e(z)) = ASolver!ChangedManhattan(node.manhattan, board[z], s, z)
  BY <1>2, <1>3, <1>5, HammingMoved, ManhattanMoved
<1>7. e(z) \in Boards
  BY <1>3, <1>4, ExchangedBoard
<1>8. /\ n.path = Append(node.path, e(z))
      /\ n.hamming = ASolver!Hamming(e(z)) /\ n.manhattan = ASolver!Manhattan(e(z))
  BY <1>1, <1>6
<1> HIDE DEF s, e, next
<1>9. n.path \in Seq(Boards) /\ n.path # <<>> /\ n.path[Len(n.path)] = e(z)
  BY <1>2, <1>7, <1>8
<1>10. QED
  BY <1>8, <1>9 DEF SearchNode

\* It starts with the board and its twin.
LEMMA SolverInit == ASolver!Init => SolverInv
<1> SUFFICES ASSUME ASolver!Init PROVE SolverInv
  OBVIOUS
<1>1. first \in ASolver!Initials /\ first \in Boards
  BY InitialsAreBoards DEF ASolver!Init
<1>2. PICK twin \in ASolver!Twins(first) : \E r \in ASolver!Roots(first, twin) :
        cursor = r /\ pending = ASolver!Roots(first, twin) \ {r}
  BY DEF ASolver!Init
<1>3. twin \in Boards
  BY <1>1, TwinsAreBoards
<1>4. \A n \in ASolver!Roots(first, twin) : SearchNode(n)
  BY <1>1, <1>3, RootNode DEF ASolver!Roots
<1>5. \A n \in pending \cup {cursor} : SearchNode(n)
  BY <1>2, <1>4
<1>6. result = "searching"
  BY DEF ASolver!Init
<1>7. QED
  BY <1>1, <1>5, <1>6 DEF SolverInv

\* Its steps keep the invariant.
LEMMA SolverKeepsInv ==
  ASSUME SolverInv, ASolver!Next \/ UNCHANGED <<first, pending, cursor, result>>
  PROVE  SolverInv'
<1>1. CASE ASolver!Expand
  <2>1. UNCHANGED <<first, result>>
    BY <1>1 DEF ASolver!Expand
  <2>2. ASolver!DelMin(pending \cup ASolver!Successors(cursor))
    BY <1>1 DEF ASolver!Expand
  <2>3. pending' \cup {cursor'} \subseteq pending \cup ASolver!Successors(cursor)
    BY <2>2 DEF ASolver!DelMin
  <2>4. SearchNode(cursor) /\ \A n \in pending : SearchNode(n)
    BY DEF SolverInv
  <2>5. \A n \in pending' \cup {cursor'} : SearchNode(n)
    BY <2>3, <2>4, SuccessorNode
  <2>6. QED
    BY <2>1, <2>5 DEF SolverInv
<1>2. CASE ASolver!Finish
  BY <1>2 DEF ASolver!Finish, SolverInv
<1>3. CASE UNCHANGED <<first, pending, cursor, result>>
  BY <1>3 DEF SolverInv
<1>4. QED
  BY <1>1, <1>2, <1>3 DEF ASolver!Next

\* The invariant implies what is claimed of the search.
LEMMA SolverAgrees == SolverInv => ASolver!TypeOK /\ ASolver!DistancesRight
<1> SUFFICES ASSUME SolverInv PROVE ASolver!TypeOK /\ ASolver!DistancesRight
  OBVIOUS
<1>1. ASolver!DistancesRight
  BY DEF SolverInv, SearchNode, ASolver!DistancesRight, ASolver!Last
<1>2. ASSUME NEW board \in Boards
      PROVE  /\ ASolver!ToSet(board) = 0..(Dim * Dim - 1)
             /\ ASolver!Hamming(board) \in Nat /\ ASolver!Manhattan(board) \in Nat
  <2>1. ASolver!ToSet(board) = {board[s] : s \in ASolver!Squares}
    BY DEF ASolver!ToSet, Boards
  <2>2. {board[s] : s \in ASolver!Squares} = 0..(Dim * Dim - 1)
    <3> DEFINE T == 0..(Dim * Dim - 1)
    <3>1. /\ board \in [ASolver!Squares -> T]
          /\ \A t \in T : \E s \in ASolver!Squares : board[s] = t
      BY DEF Boards
    <3> HIDE DEF T
    <3>2. {board[s] : s \in ASolver!Squares} = T
      BY <3>1
    <3>3. QED
      BY <3>2 DEF T
  <2>3. ASolver!Hamming(board) \in Nat
    BY MisplacedSquares, FS_CardinalityType
    DEF ASolver!Hamming, ASolver!Cardinality, Cardinality
  <2>4. PICK f : Total(f, board)
    BY ManhattanSum
  <2>5. ASolver!Manhattan(board) \in Nat
    BY <2>4 DEF Total
  <2>6. QED
    BY <2>1, <2>2, <2>3, <2>5
<1>3. ASSUME NEW n, SearchNode(n) PROVE ASolver!IsNode(n)
  <2>1. n.path \in Seq(Boards) /\ n.path # <<>>
    BY <1>3 DEF SearchNode
  <2>2. \A i \in DOMAIN n.path : n.path[i] \in Boards
    BY <2>1
  <2>3. n.path[Len(n.path)] \in Boards
    BY <2>1
  <2>4. {n.hamming, n.manhattan} \subseteq Nat
    BY <1>2, <1>3, <2>3 DEF SearchNode
  <2>5. QED
    BY <1>2, <2>1, <2>2, <2>4 DEF ASolver!IsNode
<1>4. ASolver!TypeOK
  BY <1>3 DEF SolverInv, ASolver!TypeOK
<1>5. QED
  BY <1>1, <1>4

\* The invariant of the search holds of the program.
THEOREM SolverInvariance == Spec => [](program = "solver" => SolverInv)
<1> DEFINE Inv == program = "solver" => SolverInv
<1>1. Init => Inv
  BY SolverInit DEF Init
<1>2. ASSUME Inv, [Next]_vars PROVE Inv'
  <2>1. SUFFICES ASSUME program' = "solver" PROVE SolverInv'
    OBVIOUS
  <2>2. program = "solver" /\ SolverInv
    BY <1>2, <2>1 DEF Next, vars
  <2>3. ASolver!Next \/ UNCHANGED <<first, pending, cursor, result>>
    BY <1>2, <2>2 DEF Next, vars
  <2>4. QED
    BY <2>2, <2>3, SolverKeepsInv
<1>3. QED
  BY <1>1, <1>2, PTL DEF Spec

\* Board.java's private constructor: for boards of every size, the distances computed
\* from those of the board before, by the one tile that has moved, are those that the
\* public constructor would count, on every way the search takes.
THEOREM DistancesSafe == Spec => []DistancesRight
<1>1. (program = "solver" => SolverInv) => DistancesRight
  BY SolverAgrees DEF DistancesRight
<1>2. QED
  BY <1>1, SolverInvariance, PTL

-----------------------------------------------------------------------------
(* The kd-tree.  The way to a point is a recursion over a tree that grows: *)
(* it is known here by its two equations, for any tree t with root r.      *)

KNull == ATree!null
KPoints == ATree!Points

\* One step of the way to point p; and the ways of n steps, and of any number.
Onward(t, n, p, k) == IF n \in {KNull, p} THEN n
                      ELSE IF ATree!Right(n, p, k % 2 = 1) THEN t[n].right ELSE t[n].left

WayUpto(w, t, r, p, n) == w = [k \in 0..n |-> IF k = 0 THEN r ELSE Onward(t, w[k - 1], p, k)]
IsWay(w, t, r, p) == w = [k \in Nat |-> IF k = 0 THEN r ELSE Onward(t, w[k - 1], p, k)]
Way(t, r, p) == CHOOSE w : IsWay(w, t, r, p)

\* A way of any length is there,
LEMMA WaysUpto ==
  ASSUME NEW t, NEW r, NEW p
  PROVE  \A n \in Nat : \E w : WayUpto(w, t, r, p, n)
<1> DEFINE N == {n \in Nat : \E w : WayUpto(w, t, r, p, n)}
<1>1. 0 \in N
  <2> DEFINE w == [k \in 0..0 |-> r]
  <2>1. WayUpto(w, t, r, p, 0)
    BY DEF WayUpto
  <2>2. QED
    BY <2>1
<1>2. ASSUME NEW n \in N PROVE n + 1 \in N
  <2>1. n \in Nat
    OBVIOUS
  <2>2. PICK w : WayUpto(w, t, r, p, n)
    OBVIOUS
  <2> DEFINE v == [k \in 0..(n + 1) |-> IF k <= n THEN w[k] ELSE Onward(t, w[n], p, n + 1)]
  <2>3. \A k \in 0..n : w[k] = IF k = 0 THEN r ELSE Onward(t, w[k - 1], p, k)
    BY <2>2 DEF WayUpto
  <2>4. \A k \in 0..(n + 1) : v[k] = IF k = 0 THEN r ELSE Onward(t, v[k - 1], p, k)
    BY <2>1, <2>3
  <2>5. v = [k \in 0..(n + 1) |-> v[k]]
    OBVIOUS
  <2> HIDE DEF v
  <2>6. WayUpto(v, t, r, p, n + 1)
    BY <2>4, <2>5 DEF WayUpto
  <2>7. n + 1 \in Nat
    BY <2>1
  <2>8. QED
    BY <2>6, <2>7
<1>3. N = Nat
  <2>1. N \in SUBSET Nat
    OBVIOUS
  <2> HIDE DEF N
  <2>2. QED
    BY <1>1, <1>2, <2>1, Induction
<1>4. QED
  BY <1>3

\* and two of them agree as far as both go.
LEMMA WaysAgree ==
  ASSUME NEW t, NEW r, NEW p, NEW n \in Nat, NEW m \in Nat, NEW w, NEW v,
         WayUpto(w, t, r, p, n), WayUpto(v, t, r, p, m)
  PROVE  \A k \in Nat : k <= n /\ k <= m => w[k] = v[k]
<1> DEFINE N == {k \in Nat : k <= n /\ k <= m => w[k] = v[k]}
<1>1. /\ \A k \in 0..n : w[k] = IF k = 0 THEN r ELSE Onward(t, w[k - 1], p, k)
      /\ \A k \in 0..m : v[k] = IF k = 0 THEN r ELSE Onward(t, v[k - 1], p, k)
  BY DEF WayUpto
<1>2. 0 \in N
  BY <1>1
<1>3. ASSUME NEW k \in N PROVE k + 1 \in N
  <2>1. k \in Nat /\ k + 1 \in Nat /\ (k <= n /\ k <= m => w[k] = v[k])
    OBVIOUS
  <2>2. ASSUME k + 1 <= n, k + 1 <= m PROVE w[k + 1] = v[k + 1]
    <3>1. k + 1 \in 0..n /\ k + 1 \in 0..m /\ (k + 1) - 1 = k /\ k + 1 # 0
          /\ k <= n /\ k <= m
      BY <2>1, <2>2
    <3>2. w[k + 1] = Onward(t, w[k], p, k + 1) /\ v[k + 1] = Onward(t, v[k], p, k + 1)
      BY <1>1, <3>1
    <3>3. QED
      BY <2>1, <3>1, <3>2
  <2>3. QED
    BY <2>1, <2>2
<1>4. N = Nat
  <2>1. N \in SUBSET Nat
    OBVIOUS
  <2> HIDE DEF N
  <2>2. QED
    BY <1>2, <1>3, <2>1, Induction
<1>5. QED
  BY <1>4

\* So there is a way without an end.
LEMMA WayExists ==
  ASSUME NEW t, NEW r, NEW p
  PROVE  /\ Way(t, r, p)[0] = r
         /\ \A k \in Nat : Way(t, r, p)[k + 1] = Onward(t, Way(t, r, p)[k], p, k + 1)
<1> DEFINE upto(n) == CHOOSE w : WayUpto(w, t, r, p, n)
           w == [n \in Nat |-> upto(n)[n]]
<1>1. \A n \in Nat : WayUpto(upto(n), t, r, p, n)
  BY WaysUpto
<1> HIDE DEF upto
<1>2. w[0] = r
  <2>1. WayUpto(upto(0), t, r, p, 0)
    BY <1>1
  <2>2. upto(0)[0] = r
    BY <2>1 DEF WayUpto
  <2>3. QED
    BY <2>2
<1>3. ASSUME NEW k \in Nat PROVE w[k + 1] = Onward(t, w[k], p, k + 1)
  <2>1. k + 1 \in Nat /\ (k + 1) - 1 = k /\ k + 1 # 0 /\ k + 1 \in 0..(k + 1)
        /\ k <= k /\ k <= k + 1
    OBVIOUS
  <2>2. WayUpto(upto(k + 1), t, r, p, k + 1) /\ WayUpto(upto(k), t, r, p, k)
    BY <1>1, <2>1
  <2>3. upto(k + 1)[k + 1] = Onward(t, upto(k + 1)[k], p, k + 1)
    BY <2>1, <2>2 DEF WayUpto
  <2>4. upto(k + 1)[k] = upto(k)[k]
    BY <2>1, <2>2, WaysAgree
  <2>5. w[k + 1] = upto(k + 1)[k + 1] /\ w[k] = upto(k)[k]
    BY <2>1
  <2>6. QED
    BY <2>3, <2>4, <2>5
<1>4. w = [n \in Nat |-> w[n]]
  OBVIOUS
<1> HIDE DEF w
<1>5. \A k \in Nat : w[k] = IF k = 0 THEN r ELSE Onward(t, w[k - 1], p, k)
  <2>1. ASSUME NEW k \in Nat, k # 0 PROVE w[k] = Onward(t, w[k - 1], p, k)
    <3>1. k - 1 \in Nat /\ (k - 1) + 1 = k
      BY <2>1
    <3>2. QED
      BY <1>3, <3>1
  <2>2. QED
    BY <1>2, <2>1
<1>6. IsWay(w, t, r, p)
  BY <1>4, <1>5 DEF IsWay
<1>7. IsWay(Way(t, r, p), t, r, p)
  BY <1>6 DEF Way
<1> DEFINE v == Way(t, r, p)
<1> HIDE DEF v
<1>8. \A k \in Nat : v[k] = IF k = 0 THEN r ELSE Onward(t, v[k - 1], p, k)
  BY <1>7 DEF IsWay, v
<1>9. v[0] = r
  BY <1>8
<1>10. ASSUME NEW k \in Nat PROVE v[k + 1] = Onward(t, v[k], p, k + 1)
  <2>1. k + 1 \in Nat /\ k + 1 # 0 /\ (k + 1) - 1 = k
    OBVIOUS
  <2>2. QED
    BY <1>8, <2>1
<1>11. QED
  BY <1>9, <1>10 DEF v

\* The way of the program, as far as there are nodes.
Descent(t, r, p, c) ==
  LET way[k \in 0..c] == IF k = 0 THEN r ELSE Onward(t, way[k - 1], p, k) IN way

\* It is the way, to the last step that it takes.
LEMMA DescentIsWay ==
  ASSUME NEW t, NEW r, NEW p, NEW c \in Nat
  PROVE  \A k \in 0..c : Descent(t, r, p, c)[k] = Way(t, r, p)[k]
<1> DEFINE Is(w) == w = [k \in 0..c |-> IF k = 0 THEN r ELSE Onward(t, w[k - 1], p, k)]
           d == CHOOSE w : Is(w)
           v == [k \in 0..c |-> Way(t, r, p)[k]]
<1>1. Descent(t, r, p, c) = d
  BY DEF Descent
<1>2. \A w : Is(w) <=> WayUpto(w, t, r, p, c)
  BY DEF WayUpto
<1>3. PICK w : Is(w)
  BY <1>2, WaysUpto
<1> HIDE DEF Is
<1>4. Is(d)
  BY <1>3
<1>5. WayUpto(d, t, r, p, c)
  BY <1>2, <1>4
<1> HIDE DEF d
<1>6. \A k \in 0..c : v[k] = IF k = 0 THEN r ELSE Onward(t, v[k - 1], p, k)
  <2>1. v[0] = r
    BY WayExists
  <2>2. ASSUME NEW k \in 0..c, k # 0 PROVE v[k] = Onward(t, v[k - 1], p, k)
    <3>1. k - 1 \in Nat /\ k - 1 \in 0..c /\ (k - 1) + 1 = k
      BY <2>2
    <3>2. QED
      BY <3>1, WayExists
  <2>3. QED
    BY <2>1, <2>2
<1>7. v = [k \in 0..c |-> v[k]]
  OBVIOUS
<1>8. \A k \in 0..c : v[k] = Way(t, r, p)[k]
  OBVIOUS
<1> HIDE DEF v
<1>9. WayUpto(v, t, r, p, c)
  BY <1>6, <1>7 DEF WayUpto
<1>10. \A k \in 0..c : d[k] = v[k]
  BY <1>5, <1>9, WaysAgree
<1>11. QED
  BY <1>1, <1>8, <1>10

-----------------------------------------------------------------------------
(* What a tree t with root r is: every node has a depth d, at which its    *)
(* own way finds it and below which it is on the way of its children; a    *)
(* child is on its side of the node, in a rectangle that is that part of   *)
(* the node's.                                                             *)

Box == <<0, 0, Side, Side>>
Splits(k) == k % 2 = 0
\* The part of n's rectangle rect on point p's side, as in Part.
RectPart(rect, n, p, level) ==
  CASE level /\ ~ATree!Right(n, p, level)  -> [rect EXCEPT ![3] = n[1]]
    [] level /\ ATree!Right(n, p, level)   -> [rect EXCEPT ![1] = n[1]]
    [] ~level /\ ~ATree!Right(n, p, level) -> [rect EXCEPT ![4] = n[2]]
    [] ~level /\ ATree!Right(n, p, level)  -> [rect EXCEPT ![2] = n[2]]

\* Links lead to nodes or nowhere, and an empty tree has no root.
TreeTyped(t, r) ==
  /\ DOMAIN t \in SUBSET KPoints
  /\ t \in [DOMAIN t -> [left : DOMAIN t \cup {KNull}, right : DOMAIN t \cup {KNull},
                         rect : ATree!Rectangles]]
  /\ r \in DOMAIN t \cup {KNull}
  /\ r = KNull => DOMAIN t = {}

\* Node c hangs on node n.
ChildOf(t, r, d, n, c) ==
  /\ d[c] = d[n] + 1
  /\ t[c].rect = RectPart(t[n].rect, n, c, Splits(d[n]))
  /\ \A i \in 0..d[n] : Way(t, r, c)[i] = Way(t, r, n)[i]

\* The tree is one that insertions have grown; d gives the depths.
TreeGrown(t, r, d) ==
  /\ TreeTyped(t, r)
  /\ d \in [DOMAIN t -> Nat]
  /\ \A p \in DOMAIN t : d[p] < Cardinality(DOMAIN t)
  /\ r # KNull => d[r] = 0 /\ t[r].rect = Box
  /\ \A p \in DOMAIN t : Way(t, r, p)[d[p]] = p
  /\ \A n \in DOMAIN t :
       /\ t[n].left # KNull => /\ ChildOf(t, r, d, n, t[n].left)
                               /\ ~ATree!Right(n, t[n].left, Splits(d[n]))
       /\ t[n].right # KNull => /\ ChildOf(t, r, d, n, t[n].right)
                                /\ ATree!Right(n, t[n].right, Splits(d[n]))

\* No point is null.
LEMMA PointsArePoints ==
  /\ KNull \notin KPoints /\ IsFiniteSet(KPoints)
  /\ \A p \in KPoints : p[1] \in 0..Side /\ p[2] \in 0..Side
  /\ Side \in Nat
<1>1. Side \in Nat
  BY AssignmentAssumption DEF AssignmentAssumption
<1>2. KPoints = (0..Side) \X (0..Side)
  BY DEF KPoints, ATree!Points
<1>3. IsFiniteSet(0..Side)
  BY <1>1, FS_Interval
<1>4. IsFiniteSet(KPoints)
  BY <1>2, <1>3, FS_Product
<1>5. KNull = <<>>
  BY DEF KNull, ATree!null
<1>6. \A p \in KPoints : p = <<p[1], p[2]>> /\ p[1] \in 0..Side /\ p[2] \in 0..Side
  BY <1>2
<1>7. ASSUME NEW a, NEW b PROVE <<>> # <<a, b>>
  <2>1. Len(<<>>) = 0 /\ Len(<<a, b>>) = 2
    OBVIOUS
  <2>2. QED
    BY <2>1
<1>8. KNull \notin KPoints
  BY <1>5, <1>6, <1>7
<1>9. QED
  BY <1>1, <1>4, <1>6, <1>8

\* Levels split by x and by y in turn.
LEMMA LevelsAlternate == \A k \in Nat : ((k + 1) % 2 = 1) <=> Splits(k)
  BY DEF Splits

\* One step of a way, from a node it does not end at.
LEMMA WayGoesOn ==
  ASSUME NEW t, NEW r, NEW p, NEW k \in Nat,
         Way(t, r, p)[k] \notin {KNull, p}
  PROVE  Way(t, r, p)[k + 1]
           = IF ATree!Right(Way(t, r, p)[k], p, Splits(k)) THEN t[Way(t, r, p)[k]].right
             ELSE t[Way(t, r, p)[k]].left
<1>1. Way(t, r, p)[k + 1] = Onward(t, Way(t, r, p)[k], p, k + 1)
  BY WayExists
<1>2. ((k + 1) % 2 = 1) = Splits(k)
  BY LevelsAlternate DEF Splits
<1> DEFINE n == Way(t, r, p)[k]
<1> HIDE DEF n
<1>3. n \notin {KNull, p} /\ Way(t, r, p)[k + 1] = Onward(t, n, p, k + 1)
  BY <1>1 DEF n
<1>4. Onward(t, n, p, k + 1) = IF ATree!Right(n, p, Splits(k)) THEN t[n].right ELSE t[n].left
  BY <1>2, <1>3 DEF Onward
<1>5. QED
  BY <1>3, <1>4 DEF n

\* A way that has ended stays where it is.
LEMMA WayStays ==
  ASSUME NEW t, NEW r, NEW p, NEW k \in Nat, Way(t, r, p)[k] \in {KNull, p}
  PROVE  \A i \in Nat : k <= i => Way(t, r, p)[i] = Way(t, r, p)[k]
<1> DEFINE w == Way(t, r, p)
           N == {i \in Nat : w[k + i] = w[k]}
<1>1. \A i \in Nat : w[i + 1] = Onward(t, w[i], p, i + 1)
  BY WayExists
<1>2. w[k] \in {KNull, p}
  OBVIOUS
<1> HIDE DEF w
<1>3. 0 \in N
  OBVIOUS
<1>4. ASSUME NEW i \in N PROVE i + 1 \in N
  <2>1. i \in Nat /\ w[k + i] = w[k] /\ k + i \in Nat /\ i + 1 \in Nat
        /\ (k + i) + 1 = k + (i + 1)
    OBVIOUS
  <2>2. w[(k + i) + 1] = Onward(t, w[k + i], p, (k + i) + 1)
    BY <1>1, <2>1
  <2>3. w[(k + i) + 1] = w[k]
    BY <1>2, <2>1, <2>2 DEF Onward
  <2>4. w[k + (i + 1)] = w[k]
    BY <2>1, <2>3
  <2>5. QED
    BY <2>1, <2>4
<1>5. N = Nat
  <2>1. N \in SUBSET Nat
    OBVIOUS
  <2> HIDE DEF N
  <2>2. QED
    BY <1>3, <1>4, <2>1, Induction
<1>6. ASSUME NEW i \in Nat, k <= i PROVE w[i] = w[k]
  <2>1. i - k \in Nat /\ k + (i - k) = i
    BY <1>6
  <2>2. w[k + (i - k)] = w[k]
    BY <1>5, <2>1
  <2>3. QED
    BY <2>1, <2>2
<1>7. QED
  BY <1>6 DEF w

\* A way leads along nodes,
LEMMA WayNodes ==
  ASSUME NEW t, NEW r, TreeTyped(t, r), NEW q
  PROVE  \A k \in Nat : Way(t, r, q)[k] \in DOMAIN t \cup {KNull}
<1> DEFINE w == Way(t, r, q)
           D == DOMAIN t \cup {KNull}
           N == {k \in Nat : w[k] \in D}
<1>1. w[0] = r /\ \A k \in Nat : w[k + 1] = Onward(t, w[k], q, k + 1)
  BY WayExists
<1>2. r \in D /\ \A n \in DOMAIN t : t[n].left \in D /\ t[n].right \in D
  BY DEF TreeTyped
<1> HIDE DEF w
<1>3. 0 \in N
  BY <1>1, <1>2
<1>4. ASSUME NEW k \in N PROVE k + 1 \in N
  <2>1. k \in Nat /\ k + 1 \in Nat /\ w[k] \in D /\ w[k + 1] = Onward(t, w[k], q, k + 1)
    BY <1>1
  <2>2. w[k + 1] \in D
    BY <1>2, <2>1 DEF Onward
  <2>3. QED
    BY <2>1, <2>2
<1>5. N = Nat
  <2>1. N \in SUBSET Nat
    OBVIOUS
  <2> HIDE DEF N
  <2>2. QED
    BY <1>3, <1>4, <2>1, Induction
<1>6. QED
  BY <1>5 DEF w

\* as long as it has met neither its point nor null.
Under(t, r, q, k) == /\ Way(t, r, q)[k] # KNull
                     /\ \A i \in Nat : i < k => Way(t, r, q)[i] # q

\* Then it has not met them a step before either.
LEMMA UnderBefore ==
  ASSUME NEW t, NEW r, NEW q, NEW k \in Nat, Under(t, r, q, k + 1)
  PROVE  Under(t, r, q, k) /\ Way(t, r, q)[k] \notin {KNull, q}
<1>1. k < k + 1 /\ k <= k + 1 /\ k + 1 \in Nat
  OBVIOUS
<1>2. Way(t, r, q)[k] # q /\ Way(t, r, q)[k + 1] # KNull
      /\ \A i \in Nat : i < k => Way(t, r, q)[i] # q
  BY <1>1 DEF Under
<1>3. Way(t, r, q)[k] # KNull
  <2>1. SUFFICES ASSUME Way(t, r, q)[k] = KNull PROVE FALSE
    OBVIOUS
  <2>2. Way(t, r, q)[k + 1] = Way(t, r, q)[k]
    BY <1>1, <2>1, WayStays
  <2>3. QED
    BY <1>2, <2>1, <2>2
<1>4. QED
  BY <1>2, <1>3 DEF Under

\* The node a way leads to is the child of the one before, on the point's side.
ChildAt(t, r, d, q, k) ==
  LET n == Way(t, r, q)[k]
      c == Way(t, r, q)[k + 1]
  IN /\ n \in DOMAIN t /\ c \in DOMAIN t
     /\ ChildOf(t, r, d, n, c)
     /\ ATree!Right(n, c, Splits(d[n])) <=> ATree!Right(n, q, Splits(k))

\* A step of such a way leads to a child, on the side on which the point is.
LEMMA WayToChild ==
  ASSUME NEW t, NEW r, NEW d, TreeGrown(t, r, d), NEW q, NEW k \in Nat,
         Under(t, r, q, k + 1), d[Way(t, r, q)[k]] = k
  PROVE  ChildAt(t, r, d, q, k)
<1> DEFINE n == Way(t, r, q)[k]
           c == Way(t, r, q)[k + 1]
<1>1. n \notin {KNull, q} /\ c # KNull
  BY UnderBefore DEF Under
<1>2. n \in DOMAIN t /\ c \in DOMAIN t
  BY <1>1, WayNodes DEF TreeGrown
<1>3. c = IF ATree!Right(n, q, Splits(k)) THEN t[n].right ELSE t[n].left
  BY <1>1, WayGoesOn
<1>4. d[n] = k
  OBVIOUS
<1>5. /\ t[n].left # KNull => /\ ChildOf(t, r, d, n, t[n].left)
                              /\ ~ATree!Right(n, t[n].left, Splits(d[n]))
      /\ t[n].right # KNull => /\ ChildOf(t, r, d, n, t[n].right)
                               /\ ATree!Right(n, t[n].right, Splits(d[n]))
  BY <1>2 DEF TreeGrown
<1>6. ChildAt(t, r, d, q, k) <=>
        /\ n \in DOMAIN t /\ c \in DOMAIN t
        /\ ChildOf(t, r, d, n, c)
        /\ ATree!Right(n, c, Splits(d[n])) <=> ATree!Right(n, q, Splits(k))
  BY DEF ChildAt
<1> HIDE DEF n, c
<1>7. CASE ATree!Right(n, q, Splits(k))
  BY <1>1, <1>2, <1>3, <1>4, <1>5, <1>6, <1>7
<1>8. CASE ~ATree!Right(n, q, Splits(k))
  BY <1>1, <1>2, <1>3, <1>4, <1>5, <1>6, <1>8
<1>9. QED
  BY <1>7, <1>8

\* So the depth of a node is that of the way, which is the node's own way so far.
AtDepth(t, r, d, q, k) ==
  /\ d[Way(t, r, q)[k]] = k
  /\ \A i \in 0..k : Way(t, r, Way(t, r, q)[k])[i] = Way(t, r, q)[i]

\* By induction along the way.
LEMMA WayDepth ==
  ASSUME NEW t, NEW r, NEW d, TreeGrown(t, r, d), NEW q
  PROVE  \A k \in Nat : Under(t, r, q, k) => AtDepth(t, r, d, q, k)
<1> DEFINE N == {k \in Nat : Under(t, r, q, k) => AtDepth(t, r, d, q, k)}
           w == Way(t, r, q)
<1>1. 0 \in N
  <2>1. w[0] = r /\ Way(t, r, w[0])[0] = r
    BY WayExists
  <2>2. w[0] # KNull => d[w[0]] = 0
    BY <2>1 DEF TreeGrown
  <2>3. Under(t, r, q, 0) => AtDepth(t, r, d, q, 0)
    BY <2>1, <2>2 DEF Under, AtDepth
  <2>4. QED
    BY <2>3
<1>2. ASSUME NEW k \in N PROVE k + 1 \in N
  <2>1. k \in Nat /\ k + 1 \in Nat /\ (Under(t, r, q, k) => AtDepth(t, r, d, q, k))
    OBVIOUS
  <2>2. ASSUME Under(t, r, q, k + 1) PROVE AtDepth(t, r, d, q, k + 1)
    <3> DEFINE n == w[k]
               c == w[k + 1]
    <3>1. d[n] = k /\ \A i \in 0..k : Way(t, r, n)[i] = w[i]
      BY <2>1, <2>2, UnderBefore DEF AtDepth
    <3>2. ChildAt(t, r, d, q, k)
      BY <2>1, <2>2, <3>1, WayToChild
    <3>3. c \in DOMAIN t /\ d[c] = d[n] + 1
          /\ \A i \in 0..d[n] : Way(t, r, c)[i] = Way(t, r, n)[i]
      BY <3>2 DEF ChildAt, ChildOf
    <3>4. Way(t, r, c)[d[c]] = c
      BY <3>3 DEF TreeGrown
    <3>5. AtDepth(t, r, d, q, k + 1) <=> /\ d[c] = k + 1
                                         /\ \A i \in 0..(k + 1) : Way(t, r, c)[i] = w[i]
      BY DEF AtDepth
    <3>6. c = w[k + 1]
      OBVIOUS
    <3> HIDE DEF n, c, w
    <3>7. \A i \in 0..k : Way(t, r, c)[i] = w[i]
      BY <3>1, <3>3
    <3>8. Way(t, r, c)[k + 1] = w[k + 1] /\ d[c] = k + 1
      BY <3>1, <3>3, <3>4, <3>6
    <3>9. \A i \in 0..(k + 1) : i \in 0..k \/ i = k + 1
      BY <2>1
    <3>10. QED
      BY <3>5, <3>7, <3>8, <3>9
  <2>3. QED
    BY <2>1, <2>2
<1>3. N = Nat
  <2>1. N \in SUBSET Nat
    OBVIOUS
  <2> HIDE DEF N
  <2>2. QED
    BY <1>1, <1>2, <2>1, Induction
<1>4. QED
  BY <1>3

\* The way of a node meets it at its depth and not before.
LEMMA FoundAtDepth ==
  ASSUME NEW t, NEW r, NEW d, TreeGrown(t, r, d), NEW p \in DOMAIN t
  PROVE  \A k \in Nat : k <= d[p] => Under(t, r, p, k)
<1> DEFINE w == Way(t, r, p)
           T == {i \in Nat : i < d[p] /\ w[i] = p}
<1>1. d[p] \in Nat /\ w[d[p]] = p /\ p # KNull
  BY PointsArePoints DEF TreeGrown, TreeTyped
<1>2. ASSUME T # {} PROVE FALSE
  <2>1. T \in SUBSET Nat
    OBVIOUS
  <2>2. PICK k \in T : \A i \in T : k <= i
    BY <1>2, <2>1, LeastNumber
  <2>3. k \in Nat /\ k < d[p] /\ w[k] = p
    OBVIOUS
  <2>4. ASSUME NEW i \in Nat, i < k, w[i] = p PROVE FALSE
    <3>1. i \in T
      BY <1>1, <2>3, <2>4
    <3>2. QED
      BY <2>2, <2>3, <2>4, <3>1
  <2>5. Under(t, r, p, k)
    BY <1>1, <2>3, <2>4 DEF Under
  <2>6. d[p] = k
    BY <2>3, <2>5, WayDepth DEF AtDepth
  <2>7. QED
    BY <2>3, <2>6
<1>3. ASSUME NEW k \in Nat, k <= d[p] PROVE Under(t, r, p, k)
  <2>1. w[k] # KNull
    <3>1. SUFFICES ASSUME w[k] = KNull PROVE FALSE
      OBVIOUS
    <3>2. w[d[p]] = w[k]
      BY <1>1, <1>3, <3>1, WayStays
    <3>3. QED
      BY <1>1, <3>1, <3>2
  <2>2. \A i \in Nat : i < k => w[i] # p
    BY <1>1, <1>2, <1>3
  <2>3. QED
    BY <2>1, <2>2 DEF Under
<1>4. QED
  BY <1>3

\* The part of a rectangle on one side of a point.
LEMMA PartFields ==
  ASSUME NEW rect \in ATree!Rectangles, NEW n \in KPoints, NEW p, NEW level \in BOOLEAN
  PROVE  LET part == RectPart(rect, n, p, level)
         IN /\ ATree!Contains(rect, n) => part \in ATree!Rectangles
            /\ \A q \in KPoints :
                 /\ ATree!Contains(rect, q)
                 /\ ATree!Right(n, p, level) <=> ATree!Right(n, q, level)
                 => ATree!Contains(part, q)
<1> DEFINE S == 0..Side
           part == RectPart(rect, n, p, level)
<1>1. /\ Side \in Nat /\ n[1] \in S /\ n[2] \in S
      /\ \A q \in KPoints : q[1] \in S /\ q[2] \in S
  BY PointsArePoints
<1>2. /\ rect = <<rect[1], rect[2], rect[3], rect[4]>>
      /\ rect[1] \in S /\ rect[2] \in S /\ rect[3] \in S /\ rect[4] \in S
      /\ rect[1] <= rect[3] /\ rect[2] <= rect[4]
  BY DEF ATree!Rectangles
<1>3. \A a, b, c, e \in S :
        a <= c /\ b <= e => <<a, b, c, e>> \in ATree!Rectangles
  BY DEF ATree!Rectangles
<1>4. ASSUME NEW a, NEW b, NEW c, NEW e, NEW x
      PROVE  /\ [<<a, b, c, e>> EXCEPT ![1] = x] = <<x, b, c, e>>
             /\ [<<a, b, c, e>> EXCEPT ![2] = x] = <<a, x, c, e>>
             /\ [<<a, b, c, e>> EXCEPT ![3] = x] = <<a, b, x, e>>
             /\ [<<a, b, c, e>> EXCEPT ![4] = x] = <<a, b, c, x>>
  OBVIOUS
<1>5. ASSUME NEW q \in KPoints, NEW rr \in {rect, part}
      PROVE  ATree!Contains(rr, q) <=> q[1] \in rr[1]..rr[3] /\ q[2] \in rr[2]..rr[4]
  BY DEF ATree!Contains
<1>6. \/ /\ level /\ ~ATree!Right(n, p, level)
         /\ part = <<rect[1], rect[2], n[1], rect[4]>>
      \/ /\ level /\ ATree!Right(n, p, level)
         /\ part = <<n[1], rect[2], rect[3], rect[4]>>
      \/ /\ ~level /\ ~ATree!Right(n, p, level)
         /\ part = <<rect[1], rect[2], rect[3], n[2]>>
      \/ /\ ~level /\ ATree!Right(n, p, level)
         /\ part = <<rect[1], n[2], rect[3], rect[4]>>
  <2>1. /\ [rect EXCEPT ![1] = n[1]] = <<n[1], rect[2], rect[3], rect[4]>>
        /\ [rect EXCEPT ![2] = n[2]] = <<rect[1], n[2], rect[3], rect[4]>>
        /\ [rect EXCEPT ![3] = n[1]] = <<rect[1], rect[2], n[1], rect[4]>>
        /\ [rect EXCEPT ![4] = n[2]] = <<rect[1], rect[2], rect[3], n[2]>>
    BY <1>2, <1>4
  <2>2. QED
    BY <2>1 DEF RectPart
<1> HIDE DEF part
<1>7. ASSUME ATree!Contains(rect, n) PROVE part \in ATree!Rectangles
  <2>1. rect[1] <= n[1] /\ n[1] <= rect[3] /\ rect[2] <= n[2] /\ n[2] <= rect[4]
    BY <1>1, <1>2, <1>5, <1>7
  <2>2. QED
    BY <1>1, <1>2, <1>3, <1>6, <2>1
<1>8. ASSUME NEW q \in KPoints, ATree!Contains(rect, q),
             ATree!Right(n, p, level) <=> ATree!Right(n, q, level)
      PROVE  ATree!Contains(part, q)
  <2>1. /\ rect[1] <= q[1] /\ q[1] <= rect[3] /\ rect[2] <= q[2] /\ q[2] <= rect[4]
        /\ q[1] \in S /\ q[2] \in S
    BY <1>1, <1>2, <1>5, <1>8
  <2>2. ATree!Right(n, q, level) <=> IF level THEN n[1] < q[1] ELSE n[2] < q[2]
    BY DEF ATree!Right
  <2>3. q[1] \in part[1]..part[3] /\ q[2] \in part[2]..part[4]
    BY <1>1, <1>2, <1>6, <1>8, <2>1, <2>2
  <2>4. QED
    BY <1>5, <2>3
<1>9. QED
  BY <1>7, <1>8 DEF part

\* The rectangle of a node on the way to a point has the point in it.
LEMMA Enclosed ==
  ASSUME NEW t, NEW r, NEW d, TreeGrown(t, r, d), NEW q \in KPoints
  PROVE  \A k \in Nat : Under(t, r, q, k) =>
           ATree!Contains(t[Way(t, r, q)[k]].rect, q)
<1> DEFINE w == Way(t, r, q)
           N == {k \in Nat : Under(t, r, q, k) => ATree!Contains(t[w[k]].rect, q)}
<1>1. 0 \in N
  <2>1. w[0] = r
    BY WayExists
  <2>2. Under(t, r, q, 0) => t[w[0]].rect = Box
    BY <2>1 DEF Under, TreeGrown
  <2>3. ATree!Contains(Box, q)
    <3>1. Box[1] = 0 /\ Box[2] = 0 /\ Box[3] = Side /\ Box[4] = Side
      BY DEF Box
    <3>2. QED
      BY <3>1, PointsArePoints DEF ATree!Contains
  <2>4. QED
    BY <2>2, <2>3
<1>2. ASSUME NEW k \in N PROVE k + 1 \in N
  <2>1. /\ k \in Nat /\ k + 1 \in Nat
        /\ Under(t, r, q, k) => ATree!Contains(t[w[k]].rect, q)
    OBVIOUS
  <2>2. ASSUME Under(t, r, q, k + 1) PROVE ATree!Contains(t[w[k + 1]].rect, q)
    <3> DEFINE n == w[k]
               c == w[k + 1]
    <3>1. Under(t, r, q, k) /\ d[n] = k
      BY <2>1, <2>2, UnderBefore, WayDepth DEF AtDepth
    <3>2. ChildAt(t, r, d, q, k)
      BY <2>1, <2>2, <3>1, WayToChild
    <3>3. /\ n \in DOMAIN t
          /\ t[c].rect = RectPart(t[n].rect, n, c, Splits(k))
          /\ ATree!Right(n, c, Splits(k)) <=> ATree!Right(n, q, Splits(k))
      BY <3>1, <3>2 DEF ChildAt, ChildOf
    <3>4. ATree!Contains(t[n].rect, q)
      BY <2>1, <3>1
    <3> HIDE DEF n, c
    <3>5. t[n].rect \in ATree!Rectangles /\ n \in KPoints
      BY <3>3 DEF TreeGrown, TreeTyped
    <3>6. Splits(k) \in BOOLEAN
      BY DEF Splits
    <3>7. ATree!Contains(RectPart(t[n].rect, n, c, Splits(k)), q)
      BY <3>3, <3>4, <3>5, <3>6, PartFields
    <3>8. QED
      BY <3>3, <3>7 DEF c
  <2>3. QED
    BY <2>1, <2>2
<1>3. N = Nat
  <2>1. N \in SUBSET Nat
    OBVIOUS
  <2> HIDE DEF N
  <2>2. QED
    BY <1>1, <1>2, <2>1, Induction
<1>4. QED
  BY <1>3

-----------------------------------------------------------------------------
(* What is below a node: the nodes whose ways lead through it. *)

\* Those include the node.
Below(t, r, d, n) == {p \in DOMAIN t : Way(t, r, p)[d[n]] = n}

\* What is below a node is at least as deep, and in the node's rectangle.
LEMMA BelowEnclosed ==
  ASSUME NEW t, NEW r, NEW d, TreeGrown(t, r, d), NEW n \in DOMAIN t,
         NEW p \in Below(t, r, d, n)
  PROVE  /\ d[n] <= d[p] /\ d[n] \in Nat /\ d[p] \in Nat
         /\ ATree!Contains(t[n].rect, p)
<1>1. p \in DOMAIN t /\ Way(t, r, p)[d[n]] = n
  BY DEF Below
<1>2. d[n] \in Nat /\ d[p] \in Nat /\ Way(t, r, p)[d[p]] = p /\ p \in KPoints
  BY <1>1 DEF TreeGrown, TreeTyped
<1>3. d[n] <= d[p]
  <2>1. SUFFICES ASSUME d[p] < d[n] PROVE FALSE
    BY <1>2
  <2>2. Way(t, r, p)[d[n]] = Way(t, r, p)[d[p]]
    BY <1>2, <2>1, WayStays
  <2>3. n = p
    BY <1>1, <1>2, <2>2
  <2>4. QED
    BY <1>2, <2>1, <2>3
<1>4. Under(t, r, p, d[n])
  BY <1>1, <1>2, <1>3, FoundAtDepth
<1>5. QED
  BY <1>1, <1>2, <1>3, <1>4, Enclosed

\* It is the node itself or below one of its children.
LEMMA BelowSplit ==
  ASSUME NEW t, NEW r, NEW d, TreeGrown(t, r, d), NEW n \in DOMAIN t,
         NEW p \in Below(t, r, d, n),
         p # n
  PROVE  \E c \in {t[n].left, t[n].right} \cap DOMAIN t : p \in Below(t, r, d, c)
<1> DEFINE c == Way(t, r, p)[d[n] + 1]
<1>1. /\ p \in DOMAIN t /\ Way(t, r, p)[d[n]] = n /\ Way(t, r, p)[d[p]] = p
      /\ n # KNull
  BY PointsArePoints DEF Below, TreeGrown, TreeTyped
<1>2. d[n] \in Nat /\ d[n] + 1 \in Nat /\ d[p] \in Nat /\ d[n] + 1 <= d[p]
  BY <1>1, BelowEnclosed
<1>3. Under(t, r, p, d[n] + 1)
  BY <1>1, <1>2, FoundAtDepth
<1>4. d[Way(t, r, p)[d[n]]] = d[n]
  BY <1>1
<1>5. ChildAt(t, r, d, p, d[n])
  BY <1>2, <1>3, <1>4, WayToChild
<1>6. c \in DOMAIN t /\ d[c] = d[n] + 1
  BY <1>1, <1>5 DEF ChildAt, ChildOf
<1>7. c \in {t[n].left, t[n].right}
  BY <1>1, <1>2, WayGoesOn
<1>8. p \in Below(t, r, d, c)
  BY <1>1, <1>6 DEF Below
<1>9. QED
  BY <1>6, <1>7, <1>8

\* Everything is below the root,
LEMMA BelowRoot ==
  ASSUME NEW t, NEW r, NEW d, TreeGrown(t, r, d), r # KNull
  PROVE  r \in DOMAIN t /\ \A p \in DOMAIN t : p \in Below(t, r, d, r)
<1>1. r \in DOMAIN t /\ d[r] = 0
  BY DEF TreeGrown, TreeTyped
<1>2. \A p \in DOMAIN t : Way(t, r, p)[0] = r
  BY WayExists
<1>3. QED
  BY <1>1, <1>2 DEF Below

\* and the children of what is below a node are.
LEMMA BelowChild ==
  ASSUME NEW t, NEW r, NEW d, TreeGrown(t, r, d), NEW n \in DOMAIN t,
         NEW m \in Below(t, r, d, n),
         NEW c \in {t[m].left, t[m].right}, c # KNull
  PROVE  c \in Below(t, r, d, n)
<1>1. m \in DOMAIN t /\ Way(t, r, m)[d[n]] = n
  BY DEF Below
<1>2. c \in DOMAIN t
  BY <1>1 DEF TreeGrown, TreeTyped
<1>3. ChildOf(t, r, d, m, c)
  BY <1>1 DEF TreeGrown
<1>4. d[n] \in 0..d[m]
  BY BelowEnclosed
<1>5. Way(t, r, c)[d[n]] = Way(t, r, m)[d[n]]
  BY <1>3, <1>4 DEF ChildOf
<1>6. QED
  BY <1>1, <1>2, <1>5 DEF Below

\* What the links of a node lead to is below it.
Wider(t, S) == S \cup UNION {{t[m].left, t[m].right} : m \in S \ {KNull}}
WidenedUpto(f, t, S, k) == f = [i \in 0..k |-> IF i = 0 THEN S ELSE Wider(t, f[i - 1])]

\* There are as many such steps as one likes.
LEMMA WidenedExists ==
  ASSUME NEW t, NEW S
  PROVE  \A k \in Nat : \E f : WidenedUpto(f, t, S, k)
<1> DEFINE N == {k \in Nat : \E f : WidenedUpto(f, t, S, k)}
<1>1. 0 \in N
  <2> DEFINE f == [i \in 0..0 |-> S]
  <2>1. WidenedUpto(f, t, S, 0)
    BY DEF WidenedUpto
  <2>2. QED
    BY <2>1
<1>2. ASSUME NEW k \in N PROVE k + 1 \in N
  <2>1. k \in Nat
    OBVIOUS
  <2>2. PICK f : WidenedUpto(f, t, S, k)
    OBVIOUS
  <2> DEFINE g == [i \in 0..(k + 1) |-> IF i <= k THEN f[i] ELSE Wider(t, f[k])]
  <2>3. \A i \in 0..k : f[i] = IF i = 0 THEN S ELSE Wider(t, f[i - 1])
    BY <2>2 DEF WidenedUpto
  <2>4. \A i \in 0..(k + 1) : g[i] = IF i = 0 THEN S ELSE Wider(t, g[i - 1])
    BY <2>1, <2>3
  <2>5. g = [i \in 0..(k + 1) |-> g[i]]
    OBVIOUS
  <2> HIDE DEF g
  <2>6. WidenedUpto(g, t, S, k + 1)
    BY <2>4, <2>5 DEF WidenedUpto
  <2>7. k + 1 \in Nat
    BY <2>1
  <2>8. QED
    BY <2>6, <2>7
<1>3. N = Nat
  <2>1. N \in SUBSET Nat
    OBVIOUS
  <2> HIDE DEF N
  <2>2. QED
    BY <1>1, <1>2, <2>1, Induction
<1>4. QED
  BY <1>3

\* The subtree of a node, as RectsEnclose reads it, is below the node.
LEMMA SubtreeBelow ==
  ASSUME NEW d, TreeGrown(data, first, d), NEW n \in DOMAIN data, ATree!count \in Nat
  PROVE  ATree!Subtree(n) \subseteq Below(data, first, d, n)
<1> DEFINE B == Below(data, first, d, n)
           Is(f) == f = [k \in 0..ATree!count |->
                           IF k = 0 THEN {n}
                           ELSE LET above == f[k - 1]
                                IN above \cup UNION {{data[m].left, data[m].right} :
                                                       m \in above \ {KNull}}]
           g == CHOOSE f : Is(f)
<1>1. ATree!Subtree(n) = g[ATree!count] \ {KNull}
  BY DEF ATree!Subtree, KNull
<1>2. \A f : Is(f) <=> WidenedUpto(f, data, {n}, ATree!count)
  BY DEF WidenedUpto, Wider
<1>3. PICK f : Is(f)
  BY <1>2, WidenedExists
<1> HIDE DEF Is
<1>4. Is(g)
  BY <1>3
<1>5. WidenedUpto(g, data, {n}, ATree!count)
  BY <1>2, <1>4
<1> HIDE DEF g
<1> DEFINE c == ATree!count
<1> HIDE DEF c
<1>6. c \in Nat /\ \A k \in 0..c : g[k] = IF k = 0 THEN {n} ELSE Wider(data, g[k - 1])
  BY <1>5 DEF WidenedUpto, c
<1>7. n \in B
  BY DEF TreeGrown, Below
<1>8. \A m \in B : \A x \in {data[m].left, data[m].right} : x # KNull => x \in B
  BY BelowChild
<1> HIDE DEF B
<1> DEFINE N == {k \in Nat : k <= c => g[k] \ {KNull} \subseteq B}
<1>9. 0 \in N
  BY <1>6, <1>7
<1>10. ASSUME NEW k \in N PROVE k + 1 \in N
  <2>1. k \in Nat /\ k + 1 \in Nat /\ (k <= c => g[k] \ {KNull} \subseteq B)
    OBVIOUS
  <2>2. ASSUME k + 1 <= c PROVE g[k + 1] \ {KNull} \subseteq B
    <3>1. k + 1 \in 0..c /\ k + 1 # 0 /\ (k + 1) - 1 = k /\ k <= c
      BY <1>6, <2>1, <2>2
    <3>2. g[k + 1] = Wider(data, g[k])
      BY <1>6, <3>1
    <3>3. g[k] \ {KNull} \subseteq B
      BY <2>1, <3>1
    <3>4. QED
      BY <1>8, <3>2, <3>3 DEF Wider
  <2>3. QED
    BY <2>1, <2>2
<1>11. N = Nat
  <2>1. N \in SUBSET Nat
    OBVIOUS
  <2> HIDE DEF N
  <2>2. QED
    BY <1>9, <1>10, <2>1, Induction
<1>12. g[c] \ {KNull} \subseteq B
  BY <1>6, <1>11
<1>13. QED
  BY <1>1, <1>12 DEF B, c

-----------------------------------------------------------------------------
(* insert(p). *)

\* Two trees with the same links on a way have the same way.
LEMMA SameWay ==
  ASSUME NEW t, NEW u, NEW r, NEW p, NEW m \in Nat,
         \A i \in Nat : i < m =>
           Onward(u, Way(t, r, p)[i], p, i + 1) = Onward(t, Way(t, r, p)[i], p, i + 1)
  PROVE  \A i \in 0..m : Way(u, r, p)[i] = Way(t, r, p)[i]
<1> DEFINE w == Way(t, r, p)
           v == Way(u, r, p)
           N == {i \in Nat : i <= m => v[i] = w[i]}
<1>1. /\ w[0] = r /\ \A i \in Nat : w[i + 1] = Onward(t, w[i], p, i + 1)
      /\ v[0] = r /\ \A i \in Nat : v[i + 1] = Onward(u, v[i], p, i + 1)
      /\ \A i \in Nat : i < m => Onward(u, w[i], p, i + 1) = Onward(t, w[i], p, i + 1)
  BY WayExists
<1> HIDE DEF w, v
<1>2. 0 \in N
  BY <1>1
<1>3. ASSUME NEW i \in N PROVE i + 1 \in N
  <2>1. i \in Nat /\ i + 1 \in Nat /\ (i <= m => v[i] = w[i])
    OBVIOUS
  <2>2. ASSUME i + 1 <= m PROVE v[i + 1] = w[i + 1]
    <3>1. i <= m /\ i < m
      BY <2>1, <2>2
    <3>2. v[i] = w[i] /\ v[i + 1] = Onward(u, v[i], p, i + 1)
          /\ w[i + 1] = Onward(t, w[i], p, i + 1)
          /\ Onward(u, w[i], p, i + 1) = Onward(t, w[i], p, i + 1)
      BY <1>1, <2>1, <3>1
    <3>3. QED
      BY <3>2
  <2>3. QED
    BY <2>1, <2>2
<1>4. N = Nat
  <2>1. N \in SUBSET Nat
    OBVIOUS
  <2> HIDE DEF N
  <2>2. QED
    BY <1>2, <1>3, <2>1, Induction
<1>5. QED
  BY <1>4 DEF w, v

\* The tree in which p hangs on n, and the depths of its nodes.
HungOn(t, n, p, level) ==
  [q \in DOMAIN t \cup {p} |->
     IF q = p THEN ATree!Leaf(RectPart(t[n].rect, n, p, level))
     ELSE IF q # n THEN t[q]
     ELSE IF ATree!Right(n, p, level) THEN [t[q] EXCEPT !.right = p]
     ELSE [t[q] EXCEPT !.left = p]]
Deeper(t, d, p, k) == [q \in DOMAIN t \cup {p} |-> IF q = p THEN k + 1 ELSE d[q]]

\* Where a way ends in null, there is room for its point.
Ends(t, r, d, q, k, n) ==
  /\ n = Way(t, r, q)[k] /\ n \in DOMAIN t /\ n # q
  /\ d[n] = k
  /\ \A i \in 0..k : /\ Way(t, r, n)[i] = Way(t, r, q)[i]
                     /\ Way(t, r, q)[i] \in DOMAIN t
                     /\ d[Way(t, r, q)[i]] = i
  /\ IF ATree!Right(n, q, Splits(k)) THEN t[n].right = KNull ELSE t[n].left = KNull
  /\ ATree!Contains(t[n].rect, q) /\ ATree!Contains(t[n].rect, n)

\* There the way of a new point does end.
LEMMA EndsThere ==
  ASSUME NEW t, NEW r, NEW d, TreeGrown(t, r, d), NEW q \in KPoints, q \notin DOMAIN t,
         NEW k \in Nat, Way(t, r, q)[k] # KNull, Way(t, r, q)[k + 1] = KNull
  PROVE  Ends(t, r, d, q, k, Way(t, r, q)[k])
<1> DEFINE w == Way(t, r, q)
           n == w[k]
<1>1. q # KNull /\ \A i \in Nat : w[i] \in DOMAIN t \cup {KNull}
  BY PointsArePoints, WayNodes DEF TreeGrown
<1>2. \A i \in Nat : w[i] # q
  BY <1>1
<1>3. \A i \in 0..k : Under(t, r, q, i)
  <2>1. SUFFICES ASSUME NEW i \in 0..k, w[i] = KNull PROVE FALSE
    BY <1>2 DEF Under
  <2>2. w[k] = w[i]
    BY <2>1, WayStays
  <2>3. QED
    BY <2>1, <2>2
<1>4. \A i \in 0..k : AtDepth(t, r, d, q, i) /\ w[i] \in DOMAIN t
  BY <1>1, <1>3, WayDepth DEF Under
<1>5. n \in DOMAIN t /\ n # q /\ n # KNull
  BY <1>1, <1>2
<1>6. /\ d[n] = k
      /\ \A i \in 0..k : /\ Way(t, r, n)[i] = w[i]
                         /\ w[i] \in DOMAIN t
                         /\ d[w[i]] = i
  BY <1>4 DEF AtDepth
<1>7. IF ATree!Right(n, q, Splits(k)) THEN t[n].right = KNull ELSE t[n].left = KNull
  BY <1>5, WayGoesOn
<1>8. ATree!Contains(t[n].rect, q)
  BY <1>3, Enclosed
<1>9. ATree!Contains(t[n].rect, n)
  <2>1. n \in Below(t, r, d, n)
    BY <1>5 DEF Below, TreeGrown
  <2>2. QED
    BY <1>5, <2>1, BelowEnclosed
<1>10. QED
  BY <1>5, <1>6, <1>7, <1>8, <1>9 DEF Ends

\* What changes, and what does not.
HungWell(t, r, u, n, q, level) ==
  /\ TreeTyped(u, r) /\ DOMAIN u = DOMAIN t \cup {q}
  /\ u[q].left = KNull /\ u[q].right = KNull
  /\ u[q].rect = RectPart(t[n].rect, n, q, level)
  /\ \A a \in DOMAIN t : /\ a # n => u[a] = t[a]
                         /\ u[a].rect = t[a].rect
  /\ IF ATree!Right(n, q, level) THEN u[n].right = q /\ u[n].left = t[n].left
     ELSE u[n].left = q /\ u[n].right = t[n].right

\* The tree of insert() has it hung well.
LEMMA HungIs ==
  ASSUME NEW t, NEW r, TreeTyped(t, r), NEW q \in KPoints, q \notin DOMAIN t,
         NEW n \in DOMAIN t, NEW level \in BOOLEAN, ATree!Contains(t[n].rect, n),
         NEW u, u = HungOn(t, n, q, level)
  PROVE  HungWell(t, r, u, n, q, level)
<1> DEFINE E == DOMAIN t \cup {q}
           L == DOMAIN t \cup {KNull}
           part == RectPart(t[n].rect, n, q, level)
           old == [left : L, right : L, rect : ATree!Rectangles]
           new == [left : E \cup {KNull}, right : E \cup {KNull}, rect : ATree!Rectangles]
<1>1. DOMAIN u = E
  BY DEF HungOn
<1>2. t \in [DOMAIN t -> old] /\ DOMAIN t \in SUBSET KPoints /\ r \in L
      /\ (r = KNull => DOMAIN t = {})
  BY DEF TreeTyped
<1>3. part \in ATree!Rectangles
  BY <1>2, PartFields
<1> HIDE DEF part
<1>4. u[q] = [left |-> KNull, right |-> KNull, rect |-> part]
  BY DEF HungOn, ATree!Leaf, part, KNull
<1>5. \A a \in DOMAIN t : a # n => u[a] = t[a]
  BY DEF HungOn
<1>6. u[n] = IF ATree!Right(n, q, level) THEN [t[n] EXCEPT !.right = q]
             ELSE [t[n] EXCEPT !.left = q]
  BY DEF HungOn
<1>7. t[n] \in old
  BY <1>2
<1>8. /\ u[n] \in new /\ u[n].rect = t[n].rect
      /\ IF ATree!Right(n, q, level) THEN u[n].right = q /\ u[n].left = t[n].left
         ELSE u[n].left = q /\ u[n].right = t[n].right
  BY <1>6, <1>7
<1>9. u[q] \in new
  BY <1>3, <1>4
<1>10. ASSUME NEW a \in DOMAIN t, a # n PROVE u[a] \in new
  <2>1. t[a] \in old
    BY <1>2
  <2>2. QED
    BY <1>5, <1>10, <2>1
<1>11. \A a \in E : u[a] \in new
  BY <1>8, <1>9, <1>10
<1>12. u = [a \in E |-> u[a]]
  BY DEF HungOn
<1>13. u \in [E -> new]
  <2> HIDE DEF new, E
  <2>1. QED
    BY <1>11, <1>12
<1>14. r # KNull
  BY <1>2
<1>15. TreeTyped(u, r)
  BY <1>1, <1>2, <1>13, <1>14 DEF TreeTyped
<1>16. QED
  BY <1>1, <1>4, <1>5, <1>8, <1>15 DEF part, HungWell

\* The ways of the nodes that were there stay, and the new one's ends in it.
LEMMA HungWays ==
  ASSUME NEW t, NEW r, NEW d, TreeGrown(t, r, d), NEW q \in KPoints, q \notin DOMAIN t,
         NEW k \in Nat, NEW n, Ends(t, r, d, q, k, n),
         NEW u, u = HungOn(t, n, q, Splits(k))
  PROVE  /\ \A p \in DOMAIN t : \A i \in 0..d[p] : Way(u, r, p)[i] = Way(t, r, p)[i]
         /\ \A i \in 0..k : Way(u, r, q)[i] = Way(t, r, q)[i]
         /\ Way(u, r, q)[k + 1] = q
<1>1. /\ n \in DOMAIN t /\ d[n] = k /\ n = Way(t, r, q)[k]
      /\ ATree!Contains(t[n].rect, n) /\ Splits(k) \in BOOLEAN
  BY DEF Ends, Splits
<1>2. /\ \A a \in DOMAIN t : a # n => u[a] = t[a]
      /\ IF ATree!Right(n, q, Splits(k)) THEN u[n].right = q /\ u[n].left = t[n].left
         ELSE u[n].left = q /\ u[n].right = t[n].right
  <2>1. TreeTyped(t, r)
    BY DEF TreeGrown
  <2>2. HungWell(t, r, u, n, q, Splits(k))
    BY <1>1, <2>1, HungIs
  <2>3. QED
    BY <2>2 DEF HungWell
<1>3. IF ATree!Right(n, q, Splits(k)) THEN t[n].right = KNull ELSE t[n].left = KNull
  BY DEF Ends
<1>4. KNull \notin DOMAIN t /\ q # KNull
  BY PointsArePoints DEF TreeGrown, TreeTyped
<1>5. \A i \in Nat : ((i + 1) % 2 = 1) <=> Splits(i)
  BY LevelsAlternate
<1>6. ASSUME NEW p \in DOMAIN t
      PROVE  \A i \in 0..d[p] : Way(u, r, p)[i] = Way(t, r, p)[i]
  <2> DEFINE w == Way(t, r, p)
  <2>1. d[p] \in Nat /\ w[d[p]] = p
    BY DEF TreeGrown
  <2>2. ASSUME NEW i \in Nat, i < d[p]
        PROVE  Onward(u, w[i], p, i + 1) = Onward(t, w[i], p, i + 1)
    <3> DEFINE a == w[i]
    <3>1. i + 1 \in Nat /\ i + 1 <= d[p] /\ i <= d[p]
      BY <2>1, <2>2
    <3>2. Under(t, r, p, i + 1) /\ Under(t, r, p, i)
      BY <3>1, FoundAtDepth
    <3>3. a \notin {KNull, p} /\ w[i + 1] # KNull
      BY <3>2, UnderBefore DEF Under
    <3>4. a \in DOMAIN t /\ d[a] = i
      <4>1. TreeTyped(t, r)
        BY DEF TreeGrown
      <4>2. a \in DOMAIN t
        BY <2>2, <3>3, <4>1, WayNodes
      <4>3. AtDepth(t, r, d, p, i)
        BY <2>2, <3>2, WayDepth
      <4>4. QED
        BY <4>2, <4>3 DEF AtDepth
    <3>5. w[i + 1] = IF ATree!Right(a, p, Splits(i)) THEN t[a].right ELSE t[a].left
      BY <3>3, WayGoesOn
    <3>6. (i + 1) % 2 = 1 <=> Splits(i)
      BY <1>5
    <3> HIDE DEF a, w
    <3>7. ATree!Right(a, p, Splits(i)) => ATree!Right(a, p, (i + 1) % 2 = 1)
          /\ (~ATree!Right(a, p, Splits(i)) => ~ATree!Right(a, p, (i + 1) % 2 = 1))
      BY <3>6 DEF ATree!Right
    <3>8. CASE a # n
      <4>1. u[a] = t[a]
        BY <1>2, <3>4, <3>8
      <4>2. Onward(u, a, p, i + 1) = Onward(t, a, p, i + 1)
        BY <4>1 DEF Onward
      <4>3. QED
        BY <4>2 DEF a
    <3>9. CASE a = n
      <4>1. i = k
        BY <1>1, <3>4, <3>9
      <4>2. IF ATree!Right(a, p, Splits(i)) THEN t[a].right # KNull ELSE t[a].left # KNull
        BY <3>3, <3>5
      <4>3. IF ATree!Right(a, p, Splits(i)) THEN u[a].right = t[a].right
            ELSE u[a].left = t[a].left
        BY <1>2, <1>3, <3>9, <4>1, <4>2
      <4>4. ((i + 1) % 2 = 1) = Splits(i)
        BY <3>6 DEF Splits
      <4>5. Onward(u, a, p, i + 1) = Onward(t, a, p, i + 1)
        BY <3>3, <4>3, <4>4 DEF Onward
      <4>6. QED
        BY <4>5 DEF a
    <3>10. QED
      BY <3>8, <3>9
  <2> HIDE DEF w
  <2>3. \A i \in Nat : i < d[p] =>
          Onward(u, Way(t, r, p)[i], p, i + 1) = Onward(t, Way(t, r, p)[i], p, i + 1)
    BY <2>2 DEF w
  <2>4. QED
    BY <2>1, <2>3, SameWay
<1>7. \A i \in 0..k : Way(u, r, q)[i] = Way(t, r, q)[i]
  <2>1. ASSUME NEW i \in Nat, i < k
        PROVE  Onward(u, Way(t, r, q)[i], q, i + 1) = Onward(t, Way(t, r, q)[i], q, i + 1)
    <3> DEFINE a == Way(t, r, q)[i]
    <3>1. a \in DOMAIN t /\ d[a] = i
      BY <2>1 DEF Ends
    <3>2. u[a] = t[a]
      BY <1>1, <1>2, <2>1, <3>1
    <3> HIDE DEF a
    <3>3. Onward(u, a, q, i + 1) = Onward(t, a, q, i + 1)
      BY <3>2 DEF Onward
    <3>4. QED
      BY <3>3 DEF a
  <2>2. \A i \in Nat : i < k =>
          Onward(u, Way(t, r, q)[i], q, i + 1) = Onward(t, Way(t, r, q)[i], q, i + 1)
    BY <2>1
  <2>3. QED
    BY <2>2, SameWay
<1>8. Way(u, r, q)[k + 1] = q
  <2>1. Way(u, r, q)[k] = n
    BY <1>1, <1>7
  <2>2. n \notin {KNull, q}
    BY <1>1, <1>4
  <2>3. Way(u, r, q)[k + 1] = IF ATree!Right(n, q, Splits(k)) THEN u[n].right ELSE u[n].left
    BY <2>1, <2>2, WayGoesOn
  <2>4. QED
    BY <1>2, <2>3
<1>9. QED
  BY <1>6, <1>7, <1>8

\* u is the tree t with q in it, n's child at depth k + 1.
GrownBy(t, r, d, q, k, n, u) ==
  TreeGrown(u, r, Deeper(t, d, q, k)) /\ DOMAIN u = DOMAIN t \cup {q}

\* A tree on which a point is hung where its way ends is a tree.
LEMMA HungGrown ==
  ASSUME NEW t, NEW r, NEW d, TreeGrown(t, r, d), NEW q \in KPoints, q \notin DOMAIN t,
         NEW k \in Nat, NEW n, Ends(t, r, d, q, k, n),
         NEW u, u = HungOn(t, n, q, Splits(k))
  PROVE  GrownBy(t, r, d, q, k, n, u)
<1> DEFINE e == Deeper(t, d, q, k)
<1>1. /\ n \in DOMAIN t /\ d[n] = k /\ n = Way(t, r, q)[k] /\ n # q
      /\ ATree!Contains(t[n].rect, n) /\ Splits(k) \in BOOLEAN
      /\ \A i \in 0..k : Way(t, r, n)[i] = Way(t, r, q)[i]
  BY DEF Ends, Splits
<1>2. /\ TreeTyped(u, r) /\ DOMAIN u = DOMAIN t \cup {q}
      /\ u[q].left = KNull /\ u[q].right = KNull
      /\ u[q].rect = RectPart(t[n].rect, n, q, Splits(k))
      /\ \A a \in DOMAIN t : /\ a # n => u[a] = t[a]
                             /\ u[a].rect = t[a].rect
      /\ IF ATree!Right(n, q, Splits(k)) THEN u[n].right = q /\ u[n].left = t[n].left
         ELSE u[n].left = q /\ u[n].right = t[n].right
  <2>1. TreeTyped(t, r)
    BY DEF TreeGrown
  <2>2. HungWell(t, r, u, n, q, Splits(k))
    BY <1>1, <2>1, HungIs
  <2>3. QED
    BY <2>2 DEF HungWell
<1>3. /\ \A p \in DOMAIN t : \A i \in 0..d[p] : Way(u, r, p)[i] = Way(t, r, p)[i]
      /\ \A i \in 0..k : Way(u, r, q)[i] = Way(t, r, q)[i]
      /\ Way(u, r, q)[k + 1] = q
  BY HungWays
<1>4. /\ e \in [DOMAIN t \cup {q} -> Nat] /\ e[q] = k + 1
      /\ \A p \in DOMAIN t : e[p] = d[p] /\ d[p] \in Nat
  BY DEF Deeper, TreeGrown
<1> HIDE DEF e
<1>5. \A p \in DOMAIN u : e[p] < Cardinality(DOMAIN u)
  <2>1. IsFiniteSet(DOMAIN t)
    BY PointsArePoints, FS_Subset DEF TreeGrown, TreeTyped
  <2>2. Cardinality(DOMAIN u) = Cardinality(DOMAIN t) + 1 /\ Cardinality(DOMAIN t) \in Nat
    BY <1>2, <2>1, FS_AddElement, FS_CardinalityType
  <2>3. \A p \in DOMAIN t : d[p] < Cardinality(DOMAIN t)
    BY DEF TreeGrown
  <2>4. \A p \in DOMAIN u : p = q \/ p \in DOMAIN t
    BY <1>2
  <2>5. ASSUME NEW p \in DOMAIN u PROVE e[p] < Cardinality(DOMAIN u)
    <3>1. CASE p = q
      BY <1>1, <1>4, <2>2, <2>3, <3>1
    <3>2. CASE p \in DOMAIN t
      BY <1>4, <2>2, <2>3, <3>2
    <3>3. QED
      BY <2>4, <3>1, <3>2
  <2>6. QED
    BY <2>5
<1>6. r # KNull => e[r] = 0 /\ u[r].rect = Box
  <2>1. r # KNull => r \in DOMAIN t /\ d[r] = 0 /\ t[r].rect = Box
    BY DEF TreeGrown, TreeTyped
  <2>2. QED
    BY <1>2, <1>4, <2>1
<1>7. \A p \in DOMAIN u : Way(u, r, p)[e[p]] = p
  <2>1. ASSUME NEW p \in DOMAIN t PROVE Way(u, r, p)[e[p]] = p
    <3>1. Way(t, r, p)[d[p]] = p /\ d[p] \in 0..d[p]
      BY <1>4 DEF TreeGrown
    <3>2. QED
      BY <1>3, <1>4, <3>1
  <2>2. QED
    BY <1>2, <1>3, <1>4, <2>1
<1>8. ASSUME NEW a \in DOMAIN t, NEW c \in DOMAIN t, ChildOf(t, r, d, a, c)
      PROVE  ChildOf(u, r, e, a, c)
  <2>1. /\ d[c] = d[a] + 1 /\ t[c].rect = RectPart(t[a].rect, a, c, Splits(d[a]))
        /\ \A i \in 0..d[a] : Way(t, r, c)[i] = Way(t, r, a)[i]
    BY <1>8 DEF ChildOf
  <2>2. /\ e[c] = e[a] + 1 /\ u[c].rect = RectPart(u[a].rect, a, c, Splits(e[a]))
    BY <1>2, <1>4, <2>1
  <2>3. ASSUME NEW i \in 0..e[a] PROVE Way(u, r, c)[i] = Way(u, r, a)[i]
    <3>1. i \in 0..d[a] /\ i \in 0..d[c]
      BY <1>4, <2>1
    <3>2. Way(u, r, c)[i] = Way(t, r, c)[i] /\ Way(u, r, a)[i] = Way(t, r, a)[i]
      BY <1>3, <3>1
    <3>3. QED
      BY <2>1, <3>1, <3>2
  <2>4. QED
    BY <2>2, <2>3 DEF ChildOf
<1>9. ChildOf(u, r, e, n, q)
  <2>1. e[q] = e[n] + 1 /\ u[q].rect = RectPart(u[n].rect, n, q, Splits(e[n]))
    BY <1>1, <1>2, <1>4
  <2>2. ASSUME NEW i \in 0..e[n] PROVE Way(u, r, q)[i] = Way(u, r, n)[i]
    <3>1. i \in 0..k /\ i \in 0..d[n]
      BY <1>1, <1>4
    <3>2. Way(u, r, q)[i] = Way(t, r, q)[i] /\ Way(u, r, n)[i] = Way(t, r, n)[i]
      BY <1>1, <1>3, <3>1
    <3>3. QED
      BY <1>1, <3>1, <3>2
  <2>3. QED
    BY <2>1, <2>2 DEF ChildOf
<1>10. ASSUME NEW a \in DOMAIN u
       PROVE  /\ u[a].left # KNull => /\ ChildOf(u, r, e, a, u[a].left)
                                      /\ ~ATree!Right(a, u[a].left, Splits(e[a]))
              /\ u[a].right # KNull => /\ ChildOf(u, r, e, a, u[a].right)
                                       /\ ATree!Right(a, u[a].right, Splits(e[a]))
  <2>1. CASE a = q
    BY <1>2, <2>1
  <2>2. CASE a \in DOMAIN t
    <3>1. /\ t[a].left # KNull => /\ ChildOf(t, r, d, a, t[a].left)
                                  /\ ~ATree!Right(a, t[a].left, Splits(d[a]))
          /\ t[a].right # KNull => /\ ChildOf(t, r, d, a, t[a].right)
                                   /\ ATree!Right(a, t[a].right, Splits(d[a]))
          /\ t[a].left \in DOMAIN t \cup {KNull} /\ t[a].right \in DOMAIN t \cup {KNull}
      BY <2>2 DEF TreeGrown, TreeTyped
    <3>2. e[a] = d[a]
      BY <1>4, <2>2
    <3>3. /\ t[a].left # KNull => /\ ChildOf(u, r, e, a, t[a].left)
                                  /\ ~ATree!Right(a, t[a].left, Splits(e[a]))
          /\ t[a].right # KNull => /\ ChildOf(u, r, e, a, t[a].right)
                                   /\ ATree!Right(a, t[a].right, Splits(e[a]))
      BY <1>8, <2>2, <3>1, <3>2
    <3>4. CASE a # n
      <4>1. u[a] = t[a]
        BY <1>2, <2>2, <3>4
      <4>2. QED
        BY <3>3, <4>1
    <3>5. CASE a = n
      <4>1. e[n] = k
        BY <1>1, <1>4
      <4>2. CASE ATree!Right(n, q, Splits(k))
        BY <1>2, <1>9, <3>3, <3>5, <4>1, <4>2
      <4>3. CASE ~ATree!Right(n, q, Splits(k))
        BY <1>2, <1>9, <3>3, <3>5, <4>1, <4>3
      <4>4. QED
        BY <4>2, <4>3
    <3>6. QED
      BY <3>4, <3>5
  <2>3. QED
    BY <1>2, <2>1, <2>2
<1>11. TreeGrown(u, r, e)
  BY <1>2, <1>4, <1>5, <1>6, <1>7, <1>10 DEF TreeGrown
<1>12. QED
  BY <1>2, <1>11 DEF e, GrownBy

\* So is one node alone.
LEMMA RootGrown ==
  ASSUME NEW p \in KPoints, NEW t, t = [q \in {p} |-> ATree!Leaf(Box)]
  PROVE  TreeGrown(t, p, [q \in {p} |-> 0]) /\ DOMAIN t = {p}
<1> DEFINE d == [q \in {p} |-> 0]
           node == [left |-> KNull, right |-> KNull, rect |-> Box]
<1>1. DOMAIN t = {p} /\ t[p] = node
  BY DEF ATree!Leaf, KNull
<1>2. Box \in ATree!Rectangles
  BY PointsArePoints DEF Box, ATree!Rectangles
<1>3. TreeTyped(t, p)
  <2>1. node \in [left : {p} \cup {KNull}, right : {p} \cup {KNull}, rect : ATree!Rectangles]
    BY <1>2
  <2> HIDE DEF node
  <2>2. t = [q \in {p} |-> node]
    BY <1>1
  <2>3. QED
    BY <1>1, <2>1, <2>2, PointsArePoints DEF TreeTyped
<1>4. Cardinality(DOMAIN t) = 1
  BY <1>1, FS_Singleton
<1>5. d \in [DOMAIN t -> Nat] /\ d[p] = 0
  BY <1>1
<1>6. Way(t, p, p)[0] = p
  BY WayExists
<1>7. t[p].left = KNull /\ t[p].right = KNull /\ t[p].rect = Box
  BY <1>1
<1> HIDE DEF d, node
<1>8. TreeGrown(t, p, d)
  BY <1>1, <1>3, <1>4, <1>5, <1>6, <1>7 DEF TreeGrown
<1>9. QED
  BY <1>1, <1>8 DEF d

-----------------------------------------------------------------------------
(* Distances. *)

\* A longer leg has a larger square.
LEMMA Squared ==
  ASSUME NEW x \in Int, NEW y \in Int, (x <= y /\ -x <= y) \/ (x <= -y /\ -x <= -y)
  PROVE  x * x <= y * y /\ x * x \in Nat /\ y * y \in Nat
<1>1. ASSUME NEW a \in Nat, NEW b \in Nat, a <= b PROVE a * a <= b * b
  BY <1>1, SMTT(20)
<1>2. \A a \in Int : (-a) * (-a) = a * a
  BY SMTT(20)
<1>3. ASSUME NEW a \in Int PROVE a * a \in Nat
  <2>1. CASE a >= 0
    BY <2>1, SMTT(20)
  <2>2. CASE a < 0
    <3>1. -a \in Nat
      BY <2>2
    <3>2. (-a) * (-a) \in Nat
      BY <3>1, SMTT(20)
    <3>3. QED
      BY <1>2, <3>2
  <2>3. QED
    BY <2>1, <2>2
<1> DEFINE X == IF x >= 0 THEN x ELSE -x
           Y == IF y >= 0 THEN y ELSE -y
<1>4. X \in Nat /\ Y \in Nat /\ X <= Y
  OBVIOUS
<1>5. X * X = x * x /\ Y * Y = y * y
  BY <1>2
<1> HIDE DEF X, Y
<1>6. X * X <= Y * Y
  BY <1>1, <1>4
<1>7. QED
  BY <1>3, <1>5, <1>6

\* Every distance is less than Far, with which the search begins,
LEMMA DistanceBounds ==
  ASSUME NEW p \in KPoints, NEW q \in KPoints
  PROVE  /\ ATree!DistanceSquared(p, q) \in Nat
         /\ ATree!DistanceSquared(p, q) < ATree!Far
         /\ ATree!Far \in Nat
<1> DEFINE x == p[1] - q[1]
           y == p[2] - q[2]
<1>1. /\ Side \in Nat /\ p[1] \in 0..Side /\ p[2] \in 0..Side
      /\ q[1] \in 0..Side /\ q[2] \in 0..Side
  BY PointsArePoints
<1>2. /\ x \in Int /\ x <= Side /\ -x <= Side
      /\ y \in Int /\ y <= Side /\ -y <= Side
  BY <1>1
<1>3. ATree!DistanceSquared(p, q) = x * x + y * y
  BY DEF ATree!DistanceSquared
<1>4. ATree!Far = 2 * Side * Side + 1
  BY DEF ATree!Far
<1> HIDE DEF x, y
<1>5. Side \in Int
  BY <1>1
<1>6. x * x <= Side * Side /\ x * x \in Nat /\ Side * Side \in Nat
  BY <1>2, <1>5, Squared
<1>7. y * y <= Side * Side /\ y * y \in Nat
  BY <1>2, <1>5, Squared
<1>8. 2 * Side * Side = Side * Side + Side * Side
  BY <1>1, SMTT(20)
<1>9. QED
  BY <1>3, <1>4, <1>6, <1>7, <1>8

\* and a rectangle is as near as any point in it.
LEMMA RectNearer ==
  ASSUME NEW rect \in ATree!Rectangles, NEW p \in KPoints, NEW q \in KPoints,
         ATree!Contains(rect, q)
  PROVE  /\ ATree!RectDistance(rect, p) <= ATree!DistanceSquared(p, q)
         /\ ATree!RectDistance(rect, p) \in Nat
<1> DEFINE a == ATree!Clamp(p[1], rect[1], rect[3])
           b == ATree!Clamp(p[2], rect[2], rect[4])
           x == p[1] - a
           y == p[2] - b
           v == p[1] - q[1]
           w == p[2] - q[2]
<1>1. /\ Side \in Nat /\ p[1] \in 0..Side /\ p[2] \in 0..Side
      /\ q[1] \in 0..Side /\ q[2] \in 0..Side
  BY PointsArePoints
<1>2. /\ rect[1] \in 0..Side /\ rect[2] \in 0..Side /\ rect[3] \in 0..Side
      /\ rect[4] \in 0..Side
      /\ rect[1] <= rect[3] /\ rect[2] <= rect[4]
  BY DEF ATree!Rectangles
<1>3. q[1] \in rect[1]..rect[3] /\ q[2] \in rect[2]..rect[4]
  BY DEF ATree!Contains
<1>4. /\ a = IF p[1] < rect[1] THEN rect[1] ELSE IF p[1] > rect[3] THEN rect[3] ELSE p[1]
      /\ b = IF p[2] < rect[2] THEN rect[2] ELSE IF p[2] > rect[4] THEN rect[4] ELSE p[2]
  BY DEF ATree!Clamp
<1>5. ATree!RectDistance(rect, p) = x * x + y * y
  <2>1. ATree!RectDistance(rect, p) = ATree!DistanceSquared(p, <<a, b>>)
    BY DEF ATree!RectDistance
  <2>2. <<a, b>>[1] = a /\ <<a, b>>[2] = b
    OBVIOUS
  <2> HIDE DEF a, b
  <2>3. QED
    BY <2>1, <2>2 DEF ATree!DistanceSquared
<1>6. ATree!DistanceSquared(p, q) = v * v + w * w
  BY DEF ATree!DistanceSquared
<1> HIDE DEF a, b
<1>7. ASSUME NEW l \in Int, NEW h \in Int, NEW c \in Int, NEW m \in Int,
             c = IF m < l THEN l ELSE IF m > h THEN h ELSE m, NEW z \in l..h, l <= h
      PROVE  \/ m - c <= m - z /\ -(m - c) <= m - z
             \/ m - c <= -(m - z) /\ -(m - c) <= -(m - z)
  <2>1. z \in Int /\ l <= z /\ z <= h
    BY <1>7
  <2>2. CASE m < l
    BY <1>7, <2>1, <2>2
  <2>3. CASE m > h
    BY <1>7, <2>1, <2>3
  <2>4. CASE ~(m < l) /\ ~(m > h)
    BY <1>7, <2>1, <2>4
  <2>5. QED
    BY <2>2, <2>3, <2>4
<1>8. a \in Int /\ b \in Int
  BY <1>1, <1>2, <1>4
<1>9. \/ x <= v /\ -x <= v
      \/ x <= -v /\ -x <= -v
  BY <1>1, <1>2, <1>3, <1>4, <1>7, <1>8
<1>10. \/ y <= w /\ -y <= w
       \/ y <= -w /\ -y <= -w
  BY <1>1, <1>2, <1>3, <1>4, <1>7, <1>8
<1>11. x \in Int /\ v \in Int /\ y \in Int /\ w \in Int
  BY <1>1, <1>8
<1> HIDE DEF x, y, v, w
<1>12. x * x <= v * v /\ x * x \in Nat /\ v * v \in Nat
  BY <1>9, <1>11, Squared
<1>13. y * y <= w * w /\ y * y \in Nat /\ w * w \in Nat
  BY <1>10, <1>11, Squared
<1>14. QED
  BY <1>5, <1>6, <1>12, <1>13

\* The rectangle of a node has a point in it, its own.
LEMMA RectBounds ==
  ASSUME NEW t, NEW r, NEW d, TreeGrown(t, r, d), NEW n \in DOMAIN t, NEW p \in KPoints
  PROVE  /\ ATree!RectDistance(t[n].rect, p) \in Nat
         /\ ATree!RectDistance(t[n].rect, p) < ATree!Far
         /\ \A q \in Below(t, r, d, n) :
              ATree!RectDistance(t[n].rect, p) <= ATree!DistanceSquared(p, q)
<1>1. /\ t[n].rect \in ATree!Rectangles /\ n \in KPoints /\ n \in Below(t, r, d, n)
      /\ Below(t, r, d, n) \subseteq KPoints
  BY DEF TreeGrown, TreeTyped, Below
<1>2. \A q \in Below(t, r, d, n) : ATree!Contains(t[n].rect, q)
  BY BelowEnclosed
<1>3. ASSUME NEW q \in Below(t, r, d, n)
      PROVE  /\ ATree!RectDistance(t[n].rect, p) <= ATree!DistanceSquared(p, q)
             /\ ATree!RectDistance(t[n].rect, p) \in Nat
  <2>1. q \in KPoints /\ ATree!Contains(t[n].rect, q)
    BY <1>1, <1>2
  <2>2. QED
    BY <1>1, <2>1, RectNearer
<1>4. /\ ATree!DistanceSquared(p, n) < ATree!Far /\ ATree!Far \in Nat
      /\ ATree!DistanceSquared(p, n) \in Nat
  BY <1>1, DistanceBounds
<1>5. QED
  BY <1>1, <1>3, <1>4

-----------------------------------------------------------------------------
(* Queues of nodes. *)

\* What is in a queue.
Queued(s) == {s[i] : i \in DOMAIN s}

\* s is a queue of members of D that holds what is in a and in b.
PutTogether(D, a, b, s) == s \in Seq(D) /\ Queued(s) = Queued(a) \cup Queued(b)

\* Of two queues put together, what is in either.
LEMMA QueuedBoth ==
  ASSUME NEW D, NEW a \in Seq(D), NEW b \in Seq(D)
  PROVE  PutTogether(D, a, b, a \o b)
<1>1. /\ a \o b \in Seq(D) /\ Len(a \o b) = Len(a) + Len(b)
      /\ \A i \in 1..(Len(a) + Len(b)) :
           (a \o b)[i] = IF i <= Len(a) THEN a[i] ELSE b[i - Len(a)]
  BY ConcatProperties, Zenon
<1>2. /\ DOMAIN (a \o b) = 1..(Len(a) + Len(b)) /\ Len(a) \in Nat /\ Len(b) \in Nat
      /\ DOMAIN a = 1..Len(a) /\ DOMAIN b = 1..Len(b)
  BY <1>1
<1> DEFINE s == a \o b
<1> HIDE DEF s
<1>3. \A i \in 1..(Len(a) + Len(b)) : s[i] = IF i <= Len(a) THEN a[i] ELSE b[i - Len(a)]
  BY <1>1 DEF s
<1>4. DOMAIN s = 1..(Len(a) + Len(b))
  BY <1>2 DEF s
<1>5. ASSUME NEW i \in DOMAIN s PROVE s[i] \in Queued(a) \cup Queued(b)
  <2>1. CASE i <= Len(a)
    <3>1. i \in DOMAIN a /\ s[i] = a[i]
      BY <1>2, <1>3, <1>4, <2>1
    <3>2. QED
      BY <3>1 DEF Queued
  <2>2. CASE ~(i <= Len(a))
    <3>1. i - Len(a) \in DOMAIN b /\ s[i] = b[i - Len(a)]
      BY <1>2, <1>3, <1>4, <2>2
    <3>2. QED
      BY <3>1 DEF Queued
  <2>3. QED
    BY <2>1, <2>2
<1>6. ASSUME NEW i \in DOMAIN a PROVE a[i] \in Queued(s)
  <2>1. i \in DOMAIN s /\ s[i] = a[i]
    BY <1>2, <1>3, <1>4
  <2>2. QED
    BY <2>1 DEF Queued
<1>7. ASSUME NEW i \in DOMAIN b PROVE b[i] \in Queued(s)
  <2>1. Len(a) + i \in 1..(Len(a) + Len(b)) /\ ~(Len(a) + i <= Len(a))
        /\ (Len(a) + i) - Len(a) = i
    BY <1>2
  <2>2. Len(a) + i \in DOMAIN s /\ s[Len(a) + i] = b[i]
    BY <1>3, <1>4, <2>1
  <2>3. QED
    BY <2>2 DEF Queued
<1>8. Queued(s) = Queued(a) \cup Queued(b)
  BY <1>5, <1>6, <1>7 DEF Queued
<1>9. QED
  BY <1>1, <1>8 DEF s, PutTogether

\* Of a queue that is not empty, its head and what is in its tail.
LEMMA QueuedFirst ==
  ASSUME NEW D, NEW s \in Seq(D), s # <<>>
  PROVE  /\ Head(s) \in D /\ Tail(s) \in Seq(D)
         /\ Queued(s) = {Head(s)} \cup Queued(Tail(s))
         /\ Queued(s) \subseteq D
<1> DEFINE u == Tail(s)
<1>1. Head(s) \in D /\ u \in Seq(D) /\ Len(u) = Len(s) - 1 /\ Len(s) \in Nat
      /\ Len(s) > 0 /\ DOMAIN s = 1..Len(s) /\ DOMAIN u = 1..Len(u)
      /\ \A i \in 1..Len(u) : u[i] = s[i + 1]
  BY HeadTailProperties
<1>2. s[1] = Head(s) /\ \A i \in DOMAIN s : s[i] \in D
  OBVIOUS
<1> HIDE DEF u
<1>3. ASSUME NEW i \in DOMAIN s PROVE s[i] \in {Head(s)} \cup Queued(u)
  <2>1. CASE i = 1
    BY <1>2, <2>1
  <2>2. CASE i # 1
    <3>1. i - 1 \in 1..Len(u) /\ (i - 1) + 1 = i
      BY <1>1, <2>2
    <3>2. u[i - 1] = s[i]
      BY <1>1, <3>1
    <3>3. QED
      BY <1>1, <3>1, <3>2 DEF Queued
  <2>3. QED
    BY <2>1, <2>2
<1>4. ASSUME NEW i \in DOMAIN u PROVE u[i] \in Queued(s)
  <2>1. i + 1 \in DOMAIN s /\ u[i] = s[i + 1]
    BY <1>1
  <2>2. QED
    BY <2>1 DEF Queued
<1>5. Head(s) \in Queued(s)
  BY <1>1, <1>2 DEF Queued
<1>6. Queued(s) = {Head(s)} \cup Queued(u)
  BY <1>3, <1>4, <1>5 DEF Queued
<1>7. Queued(s) \subseteq D
  BY <1>2 DEF Queued
<1>8. QED
  BY <1>1, <1>6, <1>7 DEF u

\* Nothing is in the empty queue, and one node in the queue of one.
LEMMA QueuedFew ==
  ASSUME NEW D
  PROVE  /\ <<>> \in Seq(D) /\ Queued(<<>>) = {}
         /\ \A m \in D : <<m>> \in Seq(D) /\ Queued(<<m>>) = {m} /\ <<m>> # <<>>
<1>1. ASSUME NEW m \in D PROVE Queued(<<m>>) = {m} /\ <<m>> # <<>>
  <2>1. DOMAIN <<m>> = 1..1 /\ <<m>>[1] = m /\ Len(<<m>>) = 1
    OBVIOUS
  <2>2. QED
    BY <2>1 DEF Queued
<1>2. QED
  BY <1>1 DEF Queued

-----------------------------------------------------------------------------
(* range() and nearest(). *)

\* A point is still to be met if it is below a node in the queue.
Waiting(t, r, d, queue, p) == \E n \in Queued(queue) : p \in Below(t, r, d, n)

\* All that range() has found is in its rectangle, and all that it has not is waiting.
RangeFits(t, r, d, q) ==
  /\ q \in [asks : {"range"}, of : ATree!Rectangles, queue : Seq(DOMAIN t),
            found : SUBSET DOMAIN t]
  /\ \A p \in q.found : ATree!Contains(q.of, p)
  /\ \A p \in DOMAIN t :
       ATree!Contains(q.of, p) => p \in q.found \/ Waiting(t, r, d, q.queue, p)

\* What has been found is as near as all that is not waiting.
NearestFits(t, r, d, q) ==
  /\ q \in [asks : {"nearest"}, of : KPoints, queue : Seq(DOMAIN t), found : SUBSET DOMAIN t]
  /\ q.found = {} \/ \E n \in DOMAIN t : q.found = {n}
  /\ \A p \in DOMAIN t :
       \/ Waiting(t, r, d, q.queue, p)
       \/ /\ q.found # {}
          /\ ATree!Least(q.of, q.found) <= ATree!DistanceSquared(q.of, p)

QueryFits(t, r, d, q) ==
  q = ATree!NoQuery \/ (r # KNull /\ (RangeFits(t, r, d, q) \/ NearestFits(t, r, d, q)))

\* The invariant: the tree is grown, and the query misses nothing.
KdInv == \E d : TreeGrown(data, first, d) /\ QueryFits(data, first, d, cursor)

\* A query begins at the root, with everything below it.
LEMMA QueryStarts ==
  ASSUME NEW t, NEW r, NEW d, TreeGrown(t, r, d), r # KNull,
         NEW q \in [asks : {"range"}, of : ATree!Rectangles, queue : {<<r>>}, found : {{}}]
              \cup [asks : {"nearest"}, of : KPoints, queue : {<<r>>}, found : {{}}]
  PROVE  QueryFits(t, r, d, q) /\ q.queue # <<>>
<1>1. r \in DOMAIN t /\ \A p \in DOMAIN t : p \in Below(t, r, d, r)
  BY BelowRoot
<1>2. <<r>> \in Seq(DOMAIN t) /\ Queued(<<r>>) = {r} /\ <<r>> # <<>>
  BY <1>1, QueuedFew
<1>3. \A p \in DOMAIN t : Waiting(t, r, d, <<r>>, p)
  BY <1>1, <1>2 DEF Waiting
<1> DEFINE s == <<r>>
<1> HIDE DEF s
<1>4. CASE q \in [asks : {"range"}, of : ATree!Rectangles, queue : {s}, found : {{}}]
  <2>1. RangeFits(t, r, d, q)
    BY <1>2, <1>3, <1>4 DEF RangeFits, s
  <2>2. q.queue = s
    BY <1>4
  <2>3. QED
    BY <1>2, <2>1, <2>2 DEF QueryFits, s
<1>5. CASE q \in [asks : {"nearest"}, of : KPoints, queue : {s}, found : {{}}]
  <2>1. NearestFits(t, r, d, q)
    BY <1>2, <1>3, <1>5 DEF NearestFits, s
  <2>2. q.queue = s
    BY <1>5
  <2>3. QED
    BY <1>2, <2>1, <2>2 DEF QueryFits, s
<1>6. QED
  BY <1>4, <1>5 DEF s

\* The subtree of a node that does not touch the rectangle has nothing in it.
LEMMA ApartNothing ==
  ASSUME NEW a \in ATree!Rectangles, NEW b \in ATree!Rectangles, NEW p,
         ATree!Contains(a, p), ATree!Contains(b, p)
  PROVE  ATree!Intersects(a, b)
<1>1. /\ a[1] \in Int /\ a[2] \in Int /\ a[3] \in Int /\ a[4] \in Int
      /\ b[1] \in Int /\ b[2] \in Int /\ b[3] \in Int /\ b[4] \in Int
  BY PointsArePoints DEF ATree!Rectangles
<1>2. /\ p[1] \in a[1]..a[3] /\ p[2] \in a[2]..a[4]
      /\ p[1] \in b[1]..b[3] /\ p[2] \in b[2]..b[4]
  BY DEF ATree!Contains
<1>3. a[3] >= b[1] /\ a[4] >= b[2] /\ b[3] >= a[1] /\ b[4] >= a[2]
  BY <1>1, <1>2
<1>4. QED
  BY <1>3 DEF ATree!Intersects

\* One round of range(), where the rest of the queue, and the children that matter, are
\* in y.
LEMMA RangeGoesOn ==
  ASSUME NEW t, NEW r, NEW d, TreeGrown(t, r, d), NEW q, RangeFits(t, r, d, q),
         NEW s \in Seq(DOMAIN t), s = q.queue, s # <<>>, NEW n, n = Head(s),
         NEW y \in Seq(DOMAIN t), Queued(Tail(s)) \subseteq Queued(y),
         \A m \in {t[n].left, t[n].right} \cap DOMAIN t :
           ATree!Intersects(q.of, t[m].rect) => m \in Queued(y),
         NEW q2, q2 = [q EXCEPT
                         !.queue = y,
                         !.found = IF ATree!Contains(q.of, n) THEN q.found \cup {n}
                                   ELSE q.found]
  PROVE  RangeFits(t, r, d, q2)
<1> DEFINE found == IF ATree!Contains(q.of, n) THEN q.found \cup {n} ELSE q.found
<1>1. /\ q \in [asks : {"range"}, of : ATree!Rectangles, queue : Seq(DOMAIN t),
                found : SUBSET DOMAIN t]
      /\ \A p \in q.found : ATree!Contains(q.of, p)
      /\ \A p \in DOMAIN t :
           ATree!Contains(q.of, p) => p \in q.found \/ Waiting(t, r, d, s, p)
  BY DEF RangeFits
<1>2. n \in DOMAIN t /\ Tail(s) \in Seq(DOMAIN t) /\ Queued(s) = {n} \cup Queued(Tail(s))
  BY QueuedFirst
<1>4. /\ q2.of = q.of /\ q2.queue = y /\ q2.found = found
      /\ q2 \in [asks : {"range"}, of : ATree!Rectangles, queue : Seq(DOMAIN t),
                 found : SUBSET DOMAIN t]
  <2>1. q2 = [q EXCEPT !.queue = y, !.found = found]
    OBVIOUS
  <2>2. found \in SUBSET DOMAIN t
    BY <1>1, <1>2
  <2> HIDE DEF found
  <2>3. QED
    BY <1>1, <2>1, <2>2
<1>5. \A p \in found : ATree!Contains(q.of, p)
  BY <1>1
<1>6. ASSUME NEW p \in DOMAIN t, ATree!Contains(q.of, p), p \notin found
      PROVE  Waiting(t, r, d, y, p)
  <2>1. p \notin q.found /\ p # n
    BY <1>6
  <2>2. PICK m \in Queued(s) : p \in Below(t, r, d, m)
    BY <1>1, <1>6, <2>1 DEF Waiting
  <2>3. CASE m # n
    BY <1>2, <2>2, <2>3 DEF Waiting
  <2>4. CASE m = n
    <3>1. PICK c \in {t[n].left, t[n].right} \cap DOMAIN t : p \in Below(t, r, d, c)
      BY <1>2, <2>1, <2>2, <2>4, BelowSplit
    <3>2. c \in DOMAIN t /\ ATree!Contains(t[c].rect, p) /\ t[c].rect \in ATree!Rectangles
      BY <3>1, BelowEnclosed DEF TreeGrown, TreeTyped
    <3>3. ATree!Intersects(q.of, t[c].rect)
      BY <1>1, <1>6, <3>2, ApartNothing
    <3>4. c \in Queued(y)
      BY <3>1, <3>3
    <3>5. QED
      BY <3>1, <3>4 DEF Waiting
  <2>5. QED
    BY <2>3, <2>4
<1> HIDE DEF found
<1>7. QED
  BY <1>4, <1>5, <1>6 DEF RangeFits

\* The distance of the one that has been found.
LEMMA LeastIs ==
  ASSUME NEW p \in KPoints, NEW n \in KPoints
  PROVE  /\ ATree!Least(p, {n}) = ATree!DistanceSquared(p, n)
         /\ ATree!Least(p, {}) = ATree!Far
         /\ ATree!Least(p, {n}) \in Nat /\ ATree!Least(p, {n}) < ATree!Far
         /\ ATree!Far \in Nat
<1>1. {n} # {} /\ (CHOOSE q \in {n} : TRUE) = n
  OBVIOUS
<1>2. ATree!Least(p, {n}) = ATree!DistanceSquared(p, n)
  BY <1>1 DEF ATree!Least
<1>3. ATree!Least(p, {}) = ATree!Far
  BY DEF ATree!Least
<1>4. QED
  BY <1>2, <1>3, DistanceBounds

\* A round of nearest() that drops a node: all below it is too far.
LEMMA NearestDrops ==
  ASSUME NEW t, NEW r, NEW d, TreeGrown(t, r, d), NEW q, NearestFits(t, r, d, q),
         NEW s \in Seq(DOMAIN t), s = q.queue, s # <<>>, NEW n, n = Head(s),
         ATree!RectDistance(t[n].rect, q.of) > ATree!Least(q.of, q.found),
         NEW q2, q2 = [q EXCEPT !.queue = Tail(s)]
  PROVE  NearestFits(t, r, d, q2)
<1> DEFINE y == Tail(s)
<1>1. /\ q \in [asks : {"nearest"}, of : KPoints, queue : Seq(DOMAIN t),
                found : SUBSET DOMAIN t]
      /\ q.found = {} \/ \E m \in DOMAIN t : q.found = {m}
      /\ \A p \in DOMAIN t :
           \/ Waiting(t, r, d, s, p)
           \/ /\ q.found # {}
              /\ ATree!Least(q.of, q.found) <= ATree!DistanceSquared(q.of, p)
  BY DEF NearestFits
<1>2. n \in DOMAIN t /\ y \in Seq(DOMAIN t) /\ Queued(s) = {n} \cup Queued(y)
      /\ q.of \in KPoints /\ DOMAIN t \subseteq KPoints
  BY <1>1, QueuedFirst DEF TreeGrown, TreeTyped
<1> HIDE DEF y
<1>3. /\ q2.of = q.of /\ q2.queue = y /\ q2.found = q.found
      /\ q2 \in [asks : {"nearest"}, of : KPoints, queue : Seq(DOMAIN t),
                 found : SUBSET DOMAIN t]
  <2>1. q2 = [q EXCEPT !.queue = y]
    BY DEF y
  <2>2. QED
    BY <1>1, <1>2, <2>1
<1> DEFINE dist == ATree!RectDistance(t[n].rect, q.of)
           least == ATree!Least(q.of, q.found)
<1>4. dist \in Nat /\ dist < ATree!Far
      /\ \A p \in Below(t, r, d, n) : dist <= ATree!DistanceSquared(q.of, p)
  BY <1>2, RectBounds
<1>5. q.found # {} /\ least \in Nat
  <2>1. q.found # {}
    <3>1. SUFFICES ASSUME q.found = {} PROVE FALSE
      OBVIOUS
    <3>2. least = ATree!Far /\ ATree!Far \in Nat
      BY <1>2, <3>1, LeastIs
    <3>3. QED
      BY <1>4, <3>2
  <2>2. PICK m \in DOMAIN t : q.found = {m}
    BY <1>1, <2>1
  <2>3. QED
    BY <1>2, <2>1, <2>2, LeastIs
<1>6. ASSUME NEW p \in DOMAIN t
      PROVE  Waiting(t, r, d, y, p) \/ least <= ATree!DistanceSquared(q.of, p)
  <2>1. SUFFICES ASSUME Waiting(t, r, d, s, p)
                 PROVE  Waiting(t, r, d, y, p) \/ least <= ATree!DistanceSquared(q.of, p)
    BY <1>1
  <2>2. PICK m \in Queued(s) : p \in Below(t, r, d, m)
    BY <2>1 DEF Waiting
  <2>3. CASE m # n
    BY <1>2, <2>2, <2>3 DEF Waiting
  <2>4. CASE m = n
    <3>1. dist <= ATree!DistanceSquared(q.of, p)
      BY <1>4, <2>2, <2>4
    <3>2. ATree!DistanceSquared(q.of, p) \in Nat
      BY <1>2, DistanceBounds
    <3>3. least < dist
      BY <1>4, <1>5
    <3> HIDE DEF least, dist
    <3>4. QED
      BY <1>4, <1>5, <3>1, <3>2, <3>3
  <2>5. QED
    BY <2>3, <2>4
<1> HIDE DEF dist
<1>7. QED
  BY <1>1, <1>3, <1>5, <1>6 DEF NearestFits

\* A round that looks at a node: it is kept if it is nearer than what has been found,
\* and y, the queue after it, lacks no child that could have something nearer.
LEMMA NearestGoesOn ==
  ASSUME NEW t, NEW r, NEW d, TreeGrown(t, r, d), NEW q, NearestFits(t, r, d, q),
         NEW s \in Seq(DOMAIN t), s = q.queue, s # <<>>, NEW n, n = Head(s),
         NEW found, found = IF ATree!DistanceSquared(q.of, n) < ATree!Least(q.of, q.found)
                            THEN {n} ELSE q.found,
         NEW y \in Seq(DOMAIN t),
         \/ ATree!Least(q.of, found) = 0
         \/ /\ Queued(Tail(s)) \subseteq Queued(y)
            /\ \A m \in {t[n].left, t[n].right} \cap DOMAIN t :
                 m \in Queued(y)
                 \/ ATree!Least(q.of, found) <= ATree!RectDistance(t[m].rect, q.of),
         NEW q2, q2 = [q EXCEPT !.queue = y, !.found = found]
  PROVE  NearestFits(t, r, d, q2)
<1> DEFINE Dist(p) == ATree!DistanceSquared(q.of, p)
           old == ATree!Least(q.of, q.found)
           least == ATree!Least(q.of, found)
<1>1. /\ q \in [asks : {"nearest"}, of : KPoints, queue : Seq(DOMAIN t),
                found : SUBSET DOMAIN t]
      /\ q.found = {} \/ \E m \in DOMAIN t : q.found = {m}
      /\ \A p \in DOMAIN t :
           \/ Waiting(t, r, d, s, p)
           \/ /\ q.found # {}
              /\ ATree!Least(q.of, q.found) <= ATree!DistanceSquared(q.of, p)
  BY DEF NearestFits
<1>2. n \in DOMAIN t /\ Queued(s) = {n} \cup Queued(Tail(s))
      /\ q.of \in KPoints /\ DOMAIN t \subseteq KPoints
  BY <1>1, QueuedFirst DEF TreeGrown, TreeTyped
<1>3. \A p \in DOMAIN t : Dist(p) \in Nat /\ Dist(p) < ATree!Far /\ ATree!Far \in Nat
  BY <1>2, DistanceBounds
<1>4. /\ found # {} /\ \E m \in DOMAIN t : found = {m}
      /\ least \in Nat /\ least <= Dist(n)
      /\ q.found # {} => least <= old /\ old \in Nat
  <2>1. CASE q.found = {}
    <3>1. old = ATree!Far
      BY <1>2, <2>1, LeastIs
    <3>2. found = {n}
      BY <1>2, <1>3, <3>1
    <3>3. least = Dist(n)
      BY <1>2, <3>2, LeastIs
    <3>4. Dist(n) \in Nat
      BY <1>2, <1>3
    <3> HIDE DEF Dist, least
    <3>5. least \in Nat /\ least <= Dist(n)
      BY <3>3, <3>4
    <3>6. QED
      BY <1>2, <2>1, <3>2, <3>5
  <2>2. CASE q.found # {}
    <3>1. PICK m \in DOMAIN t : q.found = {m}
      BY <1>1, <2>2
    <3>2. old = Dist(m)
      BY <1>2, <3>1, LeastIs
    <3>3. CASE Dist(n) < old
      <4>1. found = {n} /\ least = Dist(n)
        BY <1>2, <3>3, LeastIs
      <4>2. QED
        BY <1>2, <1>3, <3>1, <3>2, <3>3, <4>1
    <3>4. CASE ~(Dist(n) < old)
      <4>1. found = {m} /\ least = old
        BY <3>1, <3>4
      <4>2. QED
        BY <1>2, <1>3, <3>1, <3>2, <3>4, <4>1
    <3>5. QED
      BY <3>3, <3>4
  <2>3. QED
    BY <2>1, <2>2
<1>5. /\ q2.of = q.of /\ q2.queue = y /\ q2.found = found
      /\ q2 \in [asks : {"nearest"}, of : KPoints, queue : Seq(DOMAIN t),
                 found : SUBSET DOMAIN t]
  <2>1. found \in SUBSET DOMAIN t
    BY <1>4
  <2>2. QED
    BY <1>1, <2>1
<1> HIDE DEF least, old
<1>6. ASSUME NEW p \in DOMAIN t PROVE Waiting(t, r, d, y, p) \/ least <= Dist(p)
  <2>1. CASE least = 0
    BY <1>3, <2>1
  <2>2. CASE ~Waiting(t, r, d, s, p)
    <3>1. q.found # {} /\ old <= Dist(p)
      BY <1>1, <2>2 DEF old
    <3>2. least <= old /\ old \in Nat /\ least \in Nat /\ Dist(p) \in Nat
      BY <1>3, <1>4, <3>1
    <3> HIDE DEF Dist
    <3>3. QED
      BY <3>1, <3>2
  <2>3. CASE p = n
    BY <1>4, <2>3
  <2>4. CASE least # 0 /\ Waiting(t, r, d, s, p) /\ p # n
    <3>1. /\ Queued(Tail(s)) \subseteq Queued(y)
          /\ \A m \in {t[n].left, t[n].right} \cap DOMAIN t :
               m \in Queued(y) \/ least <= ATree!RectDistance(t[m].rect, q.of)
      BY <2>4 DEF least
    <3>2. PICK m \in Queued(s) : p \in Below(t, r, d, m)
      BY <2>4 DEF Waiting
    <3>3. CASE m # n
      BY <1>2, <3>1, <3>2, <3>3 DEF Waiting
    <3>4. CASE m = n
      <4>1. PICK c \in {t[n].left, t[n].right} \cap DOMAIN t : p \in Below(t, r, d, c)
        BY <1>2, <2>4, <3>2, <3>4, BelowSplit
      <4>2. CASE c \in Queued(y)
        BY <4>1, <4>2 DEF Waiting
      <4>3. CASE c \notin Queued(y)
        <5>1. least <= ATree!RectDistance(t[c].rect, q.of) /\ c \in DOMAIN t
          BY <3>1, <4>1, <4>3
        <5>2. /\ ATree!RectDistance(t[c].rect, q.of) <= Dist(p)
              /\ ATree!RectDistance(t[c].rect, q.of) \in Nat
          BY <1>2, <4>1, <5>1, RectBounds
        <5>3. Dist(p) \in Nat
          BY <1>3
        <5> HIDE DEF Dist
        <5>4. QED
          BY <1>4, <5>1, <5>2, <5>3
      <4>4. QED
        BY <4>2, <4>3
    <3>5. QED
      BY <3>3, <3>4
  <2>5. QED
    BY <2>1, <2>2, <2>3, <2>4
<1>7. \A p \in DOMAIN t :
        \/ Waiting(t, r, d, q2.queue, p)
        \/ /\ q2.found # {}
           /\ ATree!Least(q2.of, q2.found) <= ATree!DistanceSquared(q2.of, p)
  BY <1>4, <1>5, <1>6 DEF least
<1>8. QED
  BY <1>4, <1>5, <1>7 DEF NearestFits

-----------------------------------------------------------------------------
(* The program. *)

\* contains(p): the way to a point ends at it exactly if there is a node for it.
HasIn(t, r, p) == LET c == Cardinality(DOMAIN t) IN p # KNull /\ Descent(t, r, p, c)[c] = p

\* For a grown tree that is whether the point is in it.
LEMMA HasNode ==
  ASSUME NEW t, NEW r, NEW d, TreeGrown(t, r, d), NEW p \in KPoints
  PROVE  HasIn(t, r, p) <=> p \in DOMAIN t
<1> DEFINE c == Cardinality(DOMAIN t)
<1>1. p # KNull /\ IsFiniteSet(DOMAIN t)
  BY PointsArePoints, FS_Subset DEF TreeGrown, TreeTyped
<1>2. c \in Nat
  BY <1>1, FS_CardinalityType
<1> HIDE DEF c
<1>3. c \in 0..c
  BY <1>2
<1>4. Descent(t, r, p, c)[c] = Way(t, r, p)[c]
  BY <1>2, <1>3, DescentIsWay
<1>5. HasIn(t, r, p) <=> Way(t, r, p)[c] = p
  BY <1>1, <1>4 DEF HasIn, c
<1>6. ASSUME p \in DOMAIN t PROVE Way(t, r, p)[c] = p
  <2>1. d[p] \in Nat /\ d[p] <= c /\ Way(t, r, p)[d[p]] = p
    <3>1. d[p] \in Nat /\ d[p] < c /\ Way(t, r, p)[d[p]] = p
      BY <1>6 DEF TreeGrown, c
    <3>2. QED
      BY <1>2, <3>1
  <2>2. QED
    BY <1>2, <2>1, WayStays
<1>7. Way(t, r, p)[c] \in DOMAIN t \cup {KNull}
  BY <1>2, WayNodes DEF TreeGrown
<1>8. QED
  BY <1>1, <1>5, <1>6, <1>7

\* It is the program's contains(), before a step and after it.
LEMMA HasIs ==
  ASSUME NEW p
  PROVE  /\ ATree!Has(p) <=> HasIn(data, first, p)
         /\ ATree!Has(p)' <=> HasIn(data', first', p)
<1>1. ATree!count = Cardinality(DOMAIN data) /\ ATree!count' = Cardinality(DOMAIN data')
  BY DEF ATree!count, ATree!Cardinality, Cardinality
<1>2. ATree!Descent(p) = Descent(data, first, p, ATree!count)
  BY DEF ATree!Descent, Descent, Onward, ATree!Child, KNull
<1>3. ATree!Descent(p)' = Descent(data', first', p, ATree!count')
  BY DEF ATree!Descent, Descent, Onward, ATree!Child, KNull
<1>4. ATree!Has(p) <=> p # KNull /\ ATree!Descent(p)[ATree!count] = p
  BY DEF ATree!Has, KNull
<1>5. ATree!Has(p)' <=> p # KNull /\ ATree!Descent(p)'[ATree!count'] = p
  BY DEF ATree!Has, KNull
<1>6. QED
  BY <1>1, <1>2, <1>3, <1>4, <1>5 DEF HasIn

\* insert(p) makes a tree with the point.
LEMMA InsertKeeps ==
  ASSUME KdInv, NEW p \in KPoints, ATree!Insert(p)
  PROVE  KdInv' /\ DOMAIN data' = DOMAIN data \cup {p} /\ cursor' = cursor
<1>1. PICK d : TreeGrown(data, first, d) /\ QueryFits(data, first, d, cursor)
  BY DEF KdInv
<1>2. cursor = ATree!NoQuery /\ cursor' = cursor /\ ~ATree!Has(p)
  BY DEF ATree!Insert
<1>3. p \notin DOMAIN data
  BY <1>1, <1>2, HasIs, HasNode
<1>4. \A e : QueryFits(data', first', e, cursor')
  BY <1>2 DEF QueryFits
<1>5. CASE first = KNull
  <2>1. first' = p /\ data' = [q \in {p} |-> ATree!Leaf(Box)]
    BY <1>5 DEF ATree!Insert, KNull, Box
  <2>2. TreeGrown(data', first', [q \in {p} |-> 0]) /\ DOMAIN data' = {p}
    BY <2>1, RootGrown
  <2>3. DOMAIN data = {}
    BY <1>1, <1>5 DEF TreeGrown, TreeTyped
  <2>4. KdInv'
    BY <1>4, <2>2 DEF KdInv
  <2>5. QED
    BY <1>2, <2>2, <2>3, <2>4
<1>6. CASE first # KNull
  <2>1. PICK k \in 0..(ATree!count - 1) :
          /\ ATree!Descent(p)[k] # KNull /\ ATree!Descent(p)[k + 1] = KNull
          /\ data' = ATree!Hung(ATree!Descent(p)[k], p, ATree!ParentLevel(k))
          /\ first' = first
    BY <1>6 DEF ATree!Insert, KNull
  <2>2. ATree!count \in Nat
    <3>1. IsFiniteSet(DOMAIN data)
      BY <1>1, PointsArePoints, FS_Subset DEF TreeGrown, TreeTyped
    <3>2. QED
      BY <3>1, FS_CardinalityType DEF ATree!count, ATree!Cardinality, Cardinality
  <2>3. k \in Nat /\ k \in 0..ATree!count /\ k + 1 \in 0..ATree!count
    BY <2>2
  <2>4. \A i \in 0..ATree!count : ATree!Descent(p)[i] = Way(data, first, p)[i]
    <3>1. ATree!Descent(p) = Descent(data, first, p, ATree!count)
      BY DEF ATree!Descent, Descent, Onward, ATree!Child, KNull
    <3>2. QED
      BY <2>2, <3>1, DescentIsWay
  <2> DEFINE n == Way(data, first, p)[k]
  <2>5. /\ n # KNull /\ Way(data, first, p)[k + 1] = KNull
        /\ data' = ATree!Hung(n, p, ATree!ParentLevel(k)) /\ first' = first
    BY <2>1, <2>3, <2>4
  <2>6. Ends(data, first, d, p, k, n)
    BY <1>1, <1>3, <2>3, <2>5, EndsThere
  <2> HIDE DEF n
  <2>7. data' = HungOn(data, n, p, Splits(k))
    <3>1. ATree!Part(n, p, Splits(k)) = RectPart(data[n].rect, n, p, Splits(k))
      BY Zenon DEF ATree!Part, RectPart
    <3>2. ATree!Hung(n, p, Splits(k)) = HungOn(data, n, p, Splits(k))
      BY <3>1, Zenon DEF ATree!Hung, HungOn
    <3>3. ATree!ParentLevel(k) = Splits(k)
      BY DEF ATree!ParentLevel, Splits
    <3>4. QED
      BY <2>5, <3>2, <3>3
  <2>8. /\ TreeGrown(data', first, Deeper(data, d, p, k))
        /\ DOMAIN data' = DOMAIN data \cup {p}
    <3>1. k \in Nat /\ TreeGrown(data, first, d)
      BY <1>1, <2>3
    <3>2. ASSUME NEW u, u = HungOn(data, n, p, Splits(k))
          PROVE  GrownBy(data, first, d, p, k, n, u)
      BY <1>3, <2>6, <3>1, <3>2, HungGrown
    <3>3. QED
      BY <2>7, <3>2, Zenon DEF GrownBy
  <2>9. KdInv'
    BY <1>4, <2>5, <2>8 DEF KdInv
  <2>10. QED
    BY <1>2, <2>8, <2>9
<1>7. QED
  BY <1>5, <1>6

\* What nearest() puts into the queue: of the children, all that can be nearer.
LEMMA EnqueuedFits ==
  ASSUME NEW d, TreeGrown(data, first, d), NEW n \in DOMAIN data, NEW p \in KPoints,
         NEW least \in Nat, least < ATree!Far, NEW x, x = ATree!Enqueued(n, p, least)
  PROVE  /\ x \in Seq(DOMAIN data)
         /\ \A m \in {data[n].left, data[n].right} \cap DOMAIN data :
              m \in Queued(x) \/ least <= ATree!RectDistance(data[m].rect, p)
<1> DEFINE D == DOMAIN data
           l == data[n].left
           r == data[n].right
           Off(m) == ATree!ChildDistance(m, p)
           Near(m) == IF Off(m) < least THEN <<m>> ELSE <<>>
<1>1. l \in D \cup {KNull} /\ r \in D \cup {KNull} /\ KNull \notin D
  BY PointsArePoints DEF TreeGrown, TreeTyped
<1>2. ASSUME NEW m \in D
      PROVE  Off(m) = ATree!RectDistance(data[m].rect, p) /\ Off(m) \in Nat
  <2>1. ATree!RectDistance(data[m].rect, p) \in Nat
    BY RectBounds
  <2>2. m # ATree!null
    BY <1>1 DEF KNull
  <2>3. QED
    BY <2>1, <2>2 DEF ATree!ChildDistance
<1>3. Off(KNull) = ATree!Far
  BY DEF ATree!ChildDistance, KNull
<1>4. x = IF KNull \in {l, r} THEN Near(l) \o Near(r)
          ELSE IF Off(l) < Off(r) THEN <<l>> \o Near(r)
          ELSE <<r>> \o Near(l)
  BY Zenon DEF ATree!Enqueued, KNull
<1>5. ATree!Far \in Nat
  BY DistanceBounds
<1> HIDE DEF Off, D
<1>6. ASSUME NEW m \in D \cup {KNull}
      PROVE  Near(m) \in Seq(D) /\ (m \in D => m \in Queued(Near(m)) \/ least <= Off(m))
  <2>1. CASE m = KNull
    <3>1. Near(m) = <<>>
      BY <1>3, <1>5, <2>1
    <3>2. QED
      BY <1>1, <2>1, <3>1, QueuedFew
  <2>2. CASE m \in D /\ Off(m) < least
    <3>1. Near(m) = <<m>>
      BY <2>2
    <3>2. <<m>> \in Seq(D) /\ Queued(<<m>>) = {m}
      BY <2>2, QueuedFew
    <3>3. QED
      BY <3>1, <3>2
  <2>3. CASE m \in D /\ ~(Off(m) < least)
    <3>1. Near(m) = <<>> /\ least <= Off(m)
      BY <1>2, <2>3
    <3>2. QED
      BY <3>1, QueuedFew
  <2>4. QED
    BY <2>1, <2>2, <2>3
<1> HIDE DEF Near
<1>7. ASSUME NEW a \in Seq(D), NEW b \in Seq(D), x = a \o b,
             \A m \in {l, r} \cap D : m \in Queued(a) \cup Queued(b) \/ least <= Off(m)
      PROVE  /\ x \in Seq(D)
             /\ \A m \in {l, r} \cap D : m \in Queued(x) \/ least <= Off(m)
  <2>1. PutTogether(D, a, b, a \o b)
    BY QueuedBoth, Zenon
  <2>2. PutTogether(D, a, b, x)
    BY <1>7, <2>1, Zenon
  <2>3. QED
    BY <1>7, <2>2 DEF PutTogether
<1> HIDE DEF l, r
<1>8. /\ x \in Seq(D)
      /\ \A m \in {l, r} \cap D : m \in Queued(x) \/ least <= Off(m)
  <2>1. CASE KNull \in {l, r}
    <3>1. x = Near(l) \o Near(r)
      BY <1>4, <2>1
    <3>2. \A m \in {l, r} \cap D :
            m \in Queued(Near(l)) \cup Queued(Near(r)) \/ least <= Off(m)
      BY <1>1, <1>6
    <3>3. QED
      BY <1>1, <1>6, <1>7, <3>1, <3>2
  <2>2. CASE KNull \notin {l, r} /\ Off(l) < Off(r)
    <3>1. x = <<l>> \o Near(r) /\ l \in D /\ r \in D
      BY <1>1, <1>4, <2>2
    <3>2. <<l>> \in Seq(D) /\ Queued(<<l>>) = {l}
      BY <3>1, QueuedFew
    <3>3. \A m \in {l, r} \cap D :
            m \in Queued(<<l>>) \cup Queued(Near(r)) \/ least <= Off(m)
      BY <1>6, <3>2
    <3>4. QED
      BY <1>6, <1>7, <3>1, <3>2, <3>3
  <2>3. CASE KNull \notin {l, r} /\ ~(Off(l) < Off(r))
    <3>1. x = <<r>> \o Near(l) /\ l \in D /\ r \in D
      BY <1>1, <1>4, <2>3
    <3>2. <<r>> \in Seq(D) /\ Queued(<<r>>) = {r}
      BY <3>1, QueuedFew
    <3>3. \A m \in {l, r} \cap D :
            m \in Queued(<<r>>) \cup Queued(Near(l)) \/ least <= Off(m)
      BY <1>6, <3>2
    <3>4. QED
      BY <1>6, <1>7, <3>1, <3>2, <3>3
  <2>4. QED
    BY <2>1, <2>2, <2>3
<1>9. QED
  BY <1>2, <1>8 DEF D, l, r

\* The queue of range() after a round: the rest of it, and the children that matter.
RestAndLinks(D, M, l, r, u, w) ==
  /\ w \in Seq(D) /\ Queued(u) \subseteq Queued(w)
  /\ \A m \in {l, r} \cap D : m \in M => m \in Queued(w)

\* It is those if it is put together as in the code.
LEMMA LinkedFits ==
  ASSUME NEW D, NEW u \in Seq(D), NEW l \in D \cup {KNull}, NEW r \in D \cup {KNull},
         NEW M, NEW x, NEW y,
         x = IF l # KNull /\ l \in M THEN <<l>> ELSE <<>>,
         y = IF r # KNull /\ r \in M THEN <<r>> ELSE <<>>,
         KNull \notin D
  PROVE  RestAndLinks(D, M, l, r, u, (u \o x) \o y)
<1>1. ASSUME NEW m \in D \cup {KNull}, NEW z, z = IF m # KNull /\ m \in M THEN <<m>> ELSE <<>>
      PROVE  z \in Seq(D) /\ (m \in D /\ m \in M => m \in Queued(z))
  <2>1. CASE m # KNull /\ m \in M
    <3>1. m \in D /\ z = <<m>>
      BY <1>1, <2>1
    <3>2. QED
      BY <3>1, QueuedFew
  <2>2. CASE ~(m # KNull /\ m \in M)
    <3>1. z = <<>>
      BY <1>1, <2>2
    <3>2. QED
      BY <2>2, <3>1, QueuedFew
  <2>3. QED
    BY <2>1, <2>2
<1>2. x \in Seq(D) /\ (l \in D /\ l \in M => l \in Queued(x))
  BY <1>1
<1>3. y \in Seq(D) /\ (r \in D /\ r \in M => r \in Queued(y))
  BY <1>1
<1>4. u \o x \in Seq(D) /\ Queued(u \o x) = Queued(u) \cup Queued(x)
  <2>1. PutTogether(D, u, x, u \o x)
    BY <1>2, QueuedBoth, Zenon
  <2>2. QED
    BY <2>1, Zenon DEF PutTogether
<1>5. ASSUME NEW v \in Seq(D), Queued(v) = Queued(u) \cup Queued(x)
      PROVE  /\ v \o y \in Seq(D) /\ Queued(u) \subseteq Queued(v \o y)
             /\ \A m \in {l, r} \cap D : m \in M => m \in Queued(v \o y)
  <2>1. v \o y \in Seq(D) /\ Queued(v \o y) = Queued(v) \cup Queued(y)
    <3>1. y \in Seq(D) /\ v \in Seq(D)
      BY <1>3, <1>5
    <3>2. PutTogether(D, v, y, v \o y)
      BY <3>1, QueuedBoth, Zenon
    <3>3. QED
      BY <3>2, Zenon DEF PutTogether
  <2>2. QED
    BY <1>2, <1>3, <1>5, <2>1
<1>6. QED
  BY <1>4, <1>5, Zenon DEF RestAndLinks

\* A query that goes on is of a tree that does not change.
LEMMA QueryKinds ==
  ASSUME NEW d, TreeGrown(data, first, d), QueryFits(data, first, d, cursor),
         cursor # ATree!NoQuery
  PROVE  /\ first # KNull
         /\ cursor.asks = "range" => RangeFits(data, first, d, cursor)
         /\ cursor.asks = "nearest" => NearestFits(data, first, d, cursor)
         /\ RangeFits(data, first, d, cursor) \/ NearestFits(data, first, d, cursor)
<1>1. /\ first # KNull
      /\ RangeFits(data, first, d, cursor) \/ NearestFits(data, first, d, cursor)
  BY DEF QueryFits
<1>2. RangeFits(data, first, d, cursor) => cursor.asks = "range"
  BY DEF RangeFits
<1>3. NearestFits(data, first, d, cursor) => cursor.asks = "nearest"
  BY DEF NearestFits
<1>4. QED
  BY <1>1, <1>2, <1>3

\* A round of range(),
LEMMA RangeRound ==
  ASSUME NEW d, TreeGrown(data, first, d), QueryFits(data, first, d, cursor),
         ATree!VisitInRange
  PROVE  QueryFits(data, first, d, cursor')
<1> DEFINE s == cursor.queue
           n == Head(s)
           M == {m \in DOMAIN data : ATree!Intersects(cursor.of, data[m].rect)}
           Link(m) == IF m # KNull /\ ATree!Intersects(cursor.of, data[m].rect) THEN <<m>>
                      ELSE <<>>
           found == IF ATree!Contains(cursor.of, n) THEN cursor.found \cup {n}
                    ELSE cursor.found
           x == Link(data[n].left)
           z == Link(data[n].right)
           y == (Tail(s) \o x) \o z
<1>1. cursor.asks = "range" /\ s # <<>>
  BY DEF ATree!VisitInRange
<1>2. cursor' = [cursor EXCEPT !.queue = y, !.found = found]
  BY Zenon DEF ATree!VisitInRange, KNull
<1>3. cursor # ATree!NoQuery
  BY <1>1 DEF ATree!NoQuery
<1>4. first # KNull /\ RangeFits(data, first, d, cursor)
  BY <1>1, <1>3, QueryKinds
<1>5. s \in Seq(DOMAIN data)
  BY <1>4 DEF RangeFits
<1>6. n \in DOMAIN data /\ Tail(s) \in Seq(DOMAIN data)
  BY <1>1, <1>5, QueuedFirst
<1>7. /\ data[n].left \in DOMAIN data \cup {KNull}
      /\ data[n].right \in DOMAIN data \cup {KNull}
      /\ KNull \notin DOMAIN data
  BY <1>6, PointsArePoints DEF TreeGrown, TreeTyped
<1>8. ASSUME NEW m \in DOMAIN data \cup {KNull}
      PROVE  Link(m) = IF m # KNull /\ m \in M THEN <<m>> ELSE <<>>
  BY <1>7
<1>9. /\ x = IF data[n].left # KNull /\ data[n].left \in M THEN <<data[n].left>> ELSE <<>>
      /\ z = IF data[n].right # KNull /\ data[n].right \in M THEN <<data[n].right>> ELSE <<>>
  BY <1>7, <1>8
<1> HIDE DEF Link, x, z
<1> HIDE DEF M, y, n, s
<1>10. RestAndLinks(DOMAIN data, M, data[n].left, data[n].right, Tail(s), y)
  BY <1>6, <1>7, <1>9, LinkedFits, Zenon DEF y
<1>11. \A m \in {data[n].left, data[n].right} \cap DOMAIN data :
         ATree!Intersects(cursor.of, data[m].rect) => m \in Queued(y)
  BY <1>10 DEF RestAndLinks, M
<1>12. RangeFits(data, first, d, cursor')
  <2>1. y \in Seq(DOMAIN data) /\ Queued(Tail(s)) \subseteq Queued(y)
    BY <1>10 DEF RestAndLinks
  <2>2. s = cursor.queue /\ n = Head(s) /\ s # <<>>
    BY <1>1 DEF s, n
  <2>3. QED
    BY <1>2, <1>4, <1>5, <1>11, <2>1, <2>2, RangeGoesOn
<1>13. QED
  BY <1>4, <1>12 DEF QueryFits

\* and one of nearest().
LEMMA NearestRound ==
  ASSUME NEW d, TreeGrown(data, first, d), QueryFits(data, first, d, cursor),
         ATree!VisitNearest
  PROVE  QueryFits(data, first, d, cursor')
<1> DEFINE s == cursor.queue
           n == Head(s)
           p == cursor.of
           found == IF ATree!DistanceSquared(p, n) < ATree!Least(p, cursor.found) THEN {n}
                    ELSE cursor.found
           least == ATree!Least(p, found)
           x == ATree!Enqueued(n, p, least)
           y == IF least = 0 THEN <<>> ELSE Tail(s) \o x
<1>1. cursor.asks = "nearest" /\ s # <<>>
  BY DEF ATree!VisitNearest
<1>2. cursor' = IF ATree!RectDistance(data[n].rect, p) > ATree!Least(p, cursor.found)
                THEN [cursor EXCEPT !.queue = Tail(s)]
                ELSE [cursor EXCEPT !.queue = y, !.found = found]
  BY Zenon DEF ATree!VisitNearest
<1>3. cursor # ATree!NoQuery
  BY <1>1 DEF ATree!NoQuery
<1>4. first # KNull /\ NearestFits(data, first, d, cursor)
  BY <1>1, <1>3, QueryKinds
<1>5. /\ s \in Seq(DOMAIN data) /\ p \in KPoints
      /\ cursor.found = {} \/ \E m \in DOMAIN data : cursor.found = {m}
      /\ DOMAIN data \subseteq KPoints
  BY <1>4 DEF NearestFits, TreeGrown, TreeTyped
<1>6. n \in DOMAIN data /\ Tail(s) \in Seq(DOMAIN data)
  BY <1>1, <1>5, QueuedFirst
<1>7. CASE ATree!RectDistance(data[n].rect, p) > ATree!Least(p, cursor.found)
  <2>1. cursor' = [cursor EXCEPT !.queue = Tail(s)]
    BY <1>2, <1>7
  <2>2. NearestFits(data, first, d, cursor')
    BY <1>1, <1>4, <1>5, <1>7, <2>1, NearestDrops
  <2>3. QED
    BY <1>4, <2>2 DEF QueryFits
<1>8. CASE ~(ATree!RectDistance(data[n].rect, p) > ATree!Least(p, cursor.found))
  <2>1. cursor' = [cursor EXCEPT !.queue = y, !.found = found]
    BY <1>2, <1>8
  <2>2. least \in Nat /\ least < ATree!Far
    <3>1. ATree!DistanceSquared(p, n) < ATree!Far
      BY <1>5, <1>6, DistanceBounds
    <3>2. CASE cursor.found = {}
      <4>1. ATree!Least(p, cursor.found) = ATree!Far
        BY <1>5, <1>6, <3>2, LeastIs
      <4>2. found = {n}
        BY <3>1, <4>1
      <4>3. QED
        BY <1>5, <1>6, <4>2, LeastIs
    <3>3. CASE cursor.found # {}
      <4>1. \E m \in DOMAIN data : found = {m}
        BY <1>5, <1>6, <3>3
      <4>2. QED
        BY <1>5, <4>1, LeastIs
    <3>4. QED
      BY <3>2, <3>3
  <2>3. /\ x \in Seq(DOMAIN data)
        /\ \A m \in {data[n].left, data[n].right} \cap DOMAIN data :
             m \in Queued(x) \/ least <= ATree!RectDistance(data[m].rect, p)
    <3> HIDE DEF least, n, p
    <3>1. QED
      BY <1>5, <1>6, <2>2, EnqueuedFits
  <2>4. /\ Tail(s) \o x \in Seq(DOMAIN data)
        /\ Queued(Tail(s) \o x) = Queued(Tail(s)) \cup Queued(x)
    <3> HIDE DEF x
    <3>1. x \in Seq(DOMAIN data) /\ Tail(s) \in Seq(DOMAIN data)
      BY <1>6, <2>3
    <3>2. PutTogether(DOMAIN data, Tail(s), x, Tail(s) \o x)
      BY <3>1, QueuedBoth, Zenon
    <3>3. QED
      BY <3>2, Zenon DEF PutTogether
  <2>5. /\ y \in Seq(DOMAIN data)
        /\ \/ least = 0
           \/ /\ Queued(Tail(s)) \subseteq Queued(y)
              /\ \A m \in {data[n].left, data[n].right} \cap DOMAIN data :
                   m \in Queued(y) \/ least <= ATree!RectDistance(data[m].rect, p)
    <3> HIDE DEF x, least
    <3>1. CASE least = 0
      BY <3>1, QueuedFew
    <3>2. CASE least # 0
      <4>1. y = Tail(s) \o x
        BY <3>2
      <4>2. QED
        BY <2>3, <2>4, <4>1
    <3>3. QED
      BY <3>1, <3>2
  <2>6. \/ ATree!Least(cursor.of, found) = 0
        \/ /\ Queued(Tail(s)) \subseteq Queued(y)
           /\ \A m \in {data[n].left, data[n].right} \cap DOMAIN data :
                \/ m \in Queued(y)
                \/ ATree!Least(cursor.of, found)
                     <= ATree!RectDistance(data[m].rect, cursor.of)
    BY <2>5
  <2>7. y \in Seq(DOMAIN data) /\ s = cursor.queue /\ n = Head(s)
    BY <2>5
  <2>8. found = IF ATree!DistanceSquared(cursor.of, n) < ATree!Least(cursor.of, cursor.found)
                THEN {n} ELSE cursor.found
    OBVIOUS
  <2> HIDE DEF y, found, n, s
  <2>9. NearestFits(data, first, d, cursor')
    BY <1>1, <1>4, <1>5, <2>1, <2>6, <2>7, <2>8, NearestGoesOn
  <2>10. QED
    BY <1>4, <2>9 DEF QueryFits
<1>9. QED
  BY <1>7, <1>8

\* It begins with an empty tree,
LEMMA KdInit == ATree!Init => KdInv /\ DOMAIN data = {}
<1> SUFFICES ASSUME ATree!Init PROVE KdInv /\ DOMAIN data = {}
  OBVIOUS
<1>1. first = KNull /\ data = <<>> /\ cursor = ATree!NoQuery
  BY DEF ATree!Init, KNull
<1>2. DOMAIN data = {}
  BY <1>1
<1> DEFINE d == [q \in {} |-> 0]
<1>3. TreeTyped(data, first)
  <2> DEFINE N == [left : DOMAIN data \cup {KNull}, right : DOMAIN data \cup {KNull},
                   rect : ATree!Rectangles]
  <2>1. data = [q \in DOMAIN data |-> data[q]]
    BY <1>1
  <2> HIDE DEF N
  <2>2. data \in [DOMAIN data -> N]
    BY <1>2, <2>1
  <2>3. QED
    BY <1>1, <1>2, <2>2 DEF TreeTyped, N
<1>4. d \in [DOMAIN data -> Nat]
  BY <1>2
<1>5. TreeGrown(data, first, d)
  BY <1>1, <1>2, <1>3, <1>4 DEF TreeGrown
<1>6. QED
  BY <1>1, <1>2, <1>5 DEF KdInv, QueryFits

\* and its steps keep the invariant.
LEMMA KdKeepsInv ==
  ASSUME KdInv, ATree!Next \/ UNCHANGED <<data, first, cursor>>
  PROVE  KdInv'
<1>1. PICK d : TreeGrown(data, first, d) /\ QueryFits(data, first, d, cursor)
  BY DEF KdInv
<1>2. ASSUME UNCHANGED <<data, first>>, QueryFits(data, first, d, cursor') PROVE KdInv'
  BY <1>1, <1>2 DEF KdInv
<1>3. CASE \E p \in KPoints : ATree!Insert(p)
  BY <1>3, InsertKeeps
<1>4. CASE ATree!Ask
  <2>1. /\ first # KNull /\ UNCHANGED <<data, first>>
        /\ cursor' \in
             [asks : {"range"}, of : ATree!Rectangles, queue : {<<first>>}, found : {{}}]
             \cup [asks : {"nearest"}, of : KPoints, queue : {<<first>>}, found : {{}}]
    BY <1>4 DEF ATree!Ask, KNull, KPoints
  <2>2. QueryFits(data, first, d, cursor')
    BY <1>1, <2>1, QueryStarts
  <2>3. QED
    BY <1>2, <2>1, <2>2
<1>5. CASE ATree!VisitInRange
  BY <1>1, <1>2, <1>5, RangeRound DEF ATree!VisitInRange
<1>6. CASE ATree!VisitNearest
  BY <1>1, <1>2, <1>6, NearestRound DEF ATree!VisitNearest
<1>7. CASE ATree!Return
  BY <1>2, <1>7 DEF ATree!Return, QueryFits
<1>8. CASE UNCHANGED <<data, first, cursor>>
  BY <1>1, <1>2, <1>8
<1>9. QED
  BY <1>3, <1>4, <1>5, <1>6, <1>7, <1>8 DEF ATree!Next, KPoints

\* The invariant implies what is claimed of the tree.
LEMMA KdAgrees == KdInv => ATree!TypeOK /\ ATree!RectsEnclose
<1> SUFFICES ASSUME KdInv PROVE ATree!TypeOK /\ ATree!RectsEnclose
  OBVIOUS
<1>1. PICK d : TreeGrown(data, first, d) /\ QueryFits(data, first, d, cursor)
  BY DEF KdInv
<1>2. ATree!count \in Nat
  <2>1. IsFiniteSet(DOMAIN data)
    BY <1>1, PointsArePoints, FS_Subset DEF TreeGrown, TreeTyped
  <2>2. QED
    BY <2>1, FS_CardinalityType DEF ATree!count, ATree!Cardinality, Cardinality
<1>3. TreeTyped(data, first)
  BY <1>1 DEF TreeGrown
<1>4. cursor # ATree!NoQuery => cursor.found \subseteq DOMAIN data
  BY <1>1 DEF QueryFits, RangeFits, NearestFits
<1>5. ATree!TypeOK
  BY <1>3, <1>4 DEF ATree!TypeOK, TreeTyped, KNull, KPoints
<1>6. ASSUME NEW n \in DOMAIN data, NEW p \in ATree!Subtree(n)
      PROVE  ATree!Contains(data[n].rect, p)
  <2>1. p \in Below(data, first, d, n)
    BY <1>1, <1>2, SubtreeBelow
  <2>2. QED
    BY <1>1, <2>1, BelowEnclosed
<1>7. QED
  BY <1>5, <1>6 DEF ATree!RectsEnclose

-----------------------------------------------------------------------------
(* The tree answers as the set of its points does. *)

\* What a query returns, once nothing is waiting.
AnswerOf(q) == IF q # ATree!NoQuery /\ q.queue = <<>>
               THEN [asks |-> q.asks, of |-> q.of, found |-> q.found]
               ELSE ATree!NoQuery

\* What a set S of points returns.
InRange(S, a) == \E rect \in ATree!Rectangles :
                   a = [asks |-> "range", of |-> rect,
                        found |-> {p \in S : ATree!Contains(rect, p)}]
NearestOf(S, a) == \E p \in KPoints : \E n \in S :
                     /\ \A m \in S : ATree!DistanceSquared(p, n) <= ATree!DistanceSquared(p, m)
                     /\ a = [asks |-> "nearest", of |-> p, found |-> {n}]

\* A query that has come to its end has the right answer.
LEMMA AnswerRight ==
  ASSUME NEW t, NEW r, NEW d, TreeGrown(t, r, d), NEW q, QueryFits(t, r, d, q)
  PROVE  \/ AnswerOf(q) = ATree!NoQuery
         \/ InRange(DOMAIN t, AnswerOf(q))
         \/ NearestOf(DOMAIN t, AnswerOf(q))
<1> SUFFICES ASSUME q # ATree!NoQuery, q.queue = <<>>
             PROVE  InRange(DOMAIN t, AnswerOf(q)) \/ NearestOf(DOMAIN t, AnswerOf(q))
  BY DEF AnswerOf
<1> DEFINE a == [asks |-> q.asks, of |-> q.of, found |-> q.found]
<1>1. AnswerOf(q) = a
  BY DEF AnswerOf
<1>2. \A p : ~Waiting(t, r, d, q.queue, p)
  BY QueuedFew DEF Waiting
<1>3. r # KNull /\ (RangeFits(t, r, d, q) \/ NearestFits(t, r, d, q))
  BY DEF QueryFits
<1>4. r \in DOMAIN t
  BY <1>3 DEF TreeGrown, TreeTyped
<1>5. CASE RangeFits(t, r, d, q)
  <2>1. q.asks = "range" /\ q.of \in ATree!Rectangles /\ q.found \subseteq DOMAIN t
    BY <1>5 DEF RangeFits
  <2>2. \A p \in DOMAIN t : p \in q.found <=> ATree!Contains(q.of, p)
    BY <1>2, <1>5 DEF RangeFits
  <2>3. q.found = {p \in DOMAIN t : ATree!Contains(q.of, p)}
    BY <2>1, <2>2
  <2>4. QED
    BY <1>1, <2>1, <2>3 DEF InRange
<1>6. CASE NearestFits(t, r, d, q)
  <2>1. q.asks = "nearest" /\ q.of \in KPoints /\ DOMAIN t \subseteq KPoints
    BY <1>6 DEF NearestFits, TreeGrown, TreeTyped
  <2>2. /\ q.found # {}
        /\ \A p \in DOMAIN t : ATree!Least(q.of, q.found) <= ATree!DistanceSquared(q.of, p)
    BY <1>2, <1>4, <1>6 DEF NearestFits
  <2>3. PICK n \in DOMAIN t : q.found = {n}
    BY <1>6, <2>2 DEF NearestFits
  <2>4. ATree!Least(q.of, q.found) = ATree!DistanceSquared(q.of, n)
    BY <2>1, <2>3, LeastIs
  <2>5. \A p \in DOMAIN t :
          ATree!DistanceSquared(q.of, n) <= ATree!DistanceSquared(q.of, p)
    BY <2>2, <2>4
  <2>6. NearestOf(DOMAIN t, [asks |-> q.asks, of |-> q.of, found |-> q.found])
    BY <2>1, <2>3, <2>5 DEF NearestOf
  <2>7. QED
    BY <1>1, <2>6
<1>7. QED
  BY <1>3, <1>5, <1>6

\* Its points are those that contains() finds.
LEMMA PointsFound ==
  /\ KdInv => {p \in ATree!Points : ATree!Has(p)} = DOMAIN data
  /\ KdInv' => {p \in ATree!Points : ATree!Has(p)}' = DOMAIN data'
<1>1. ASSUME NEW t, NEW r, NEW d, TreeGrown(t, r, d)
      PROVE  {p \in KPoints : HasIn(t, r, p)} = DOMAIN t
  <2>1. DOMAIN t \subseteq KPoints
    BY <1>1 DEF TreeGrown, TreeTyped
  <2>2. QED
    BY <1>1, <2>1, HasNode
<1>2. /\ {p \in ATree!Points : ATree!Has(p)} = {p \in KPoints : HasIn(data, first, p)}
      /\ {p \in ATree!Points : ATree!Has(p)}' = {p \in KPoints : HasIn(data', first', p)}
  BY HasIs DEF KPoints
<1>3. ASSUME KdInv PROVE {p \in KPoints : HasIn(data, first, p)} = DOMAIN data
  BY <1>1, <1>3 DEF KdInv
<1>4. ASSUME KdInv' PROVE {p \in KPoints : HasIn(data', first', p)} = DOMAIN data'
  BY <1>1, <1>4 DEF KdInv
<1>5. QED
  BY <1>2, <1>3, <1>4

\* Every step does to the set what a step of the set does, or nothing.
LEMMA KdIsSet ==
  ASSUME KdInv, KdInv', ATree!Next \/ UNCHANGED <<data, first, cursor>>
  PROVE  LET S == DOMAIN data
             a == AnswerOf(cursor)
         IN \/ UNCHANGED <<S, a>>
            \/ \E p \in KPoints : S' = S \cup {p} /\ a' = a
            \/ S' = S /\ a' = ATree!NoQuery
            \/ S' = S /\ (InRange(S, a') \/ NearestOf(S, a'))
<1> DEFINE S == DOMAIN data
           a == AnswerOf(cursor)
           N == AnswerOf(cursor')
<1>1. a' = N /\ S' = DOMAIN data'
  BY DEF AnswerOf
<1>2. CASE \E p \in KPoints : ATree!Insert(p)
  <2>1. PICK p \in KPoints : ATree!Insert(p)
    BY <1>2
  <2>2. DOMAIN data' = DOMAIN data \cup {p} /\ cursor' = cursor
    BY <2>1, InsertKeeps
  <2>3. QED
    BY <1>1, <2>2
<1>3. CASE UNCHANGED <<data, first>>
  <2>1. PICK d : TreeGrown(data', first', d) /\ QueryFits(data', first', d, cursor')
    BY DEF KdInv
  <2>2. N = ATree!NoQuery \/ InRange(DOMAIN data', N) \/ NearestOf(DOMAIN data', N)
    BY <2>1, AnswerRight
  <2>3. QED
    BY <1>1, <1>3, <2>2
<1>4. UNCHANGED <<data, first>> \/ \E p \in KPoints : ATree!Insert(p)
  BY DEF ATree!Next, ATree!Ask, ATree!VisitInRange, ATree!VisitNearest, ATree!Return, KPoints
<1>5. QED
  BY <1>1, <1>2, <1>3, <1>4

\* The invariant of the kd-tree holds of the program.
THEOREM KdTreeInvariance == Spec => [](program = "kdTree" => KdInv)
<1> DEFINE Inv == program = "kdTree" => KdInv
<1>1. Init => Inv
  BY KdInit DEF Init
<1>2. ASSUME Inv, [Next]_vars PROVE Inv'
  <2>1. SUFFICES ASSUME program' = "kdTree" PROVE KdInv'
    OBVIOUS
  <2>2. program = "kdTree" /\ KdInv
    BY <1>2, <2>1 DEF Next, vars
  <2>3. ATree!Next \/ UNCHANGED <<data, first, cursor>>
    BY <1>2, <2>2 DEF Next, vars
  <2>4. QED
    BY <2>2, <2>3, KdKeepsInv
<1>3. QED
  BY <1>1, <1>2, PTL DEF Spec

\* KdTree.java: whatever has been inserted, in whatever order, all points below a node
\* are in its rectangle, so that a rectangle that is apart or too far away excuses all
\* of them.
THEOREM RectsSafe == Spec => [](program = "kdTree" => ATree!TypeOK /\ ATree!RectsEnclose)
<1>1. \/ ~(program = "kdTree" => KdInv)
      \/ program = "kdTree" => ATree!TypeOK /\ ATree!RectsEnclose
  BY KdAgrees
<1>2. QED
  BY <1>1, KdTreeInvariance, PTL

\* KdTree.java implements PointSET.java: contains() finds what has been inserted, range()
\* returns all points of its rectangle, and nearest() one that no other is nearer than,
\* although both leave out parts of the tree.
THEOREM KdTreeImplementation == Spec => ImplementsPointSET
<1> DEFINE Inv == program = "kdTree" => KdInv
           points == IF program = "kdTree" THEN {p \in ATree!Points : ATree!Has(p)} ELSE {}
           answer == IF program = "kdTree" THEN ATree!Answer ELSE ATree!NoQuery
<1>1. ATree!Answer = AnswerOf(cursor) /\ ATree!Answer' = AnswerOf(cursor')
  BY DEF ATree!Answer, AnswerOf
<1>2. Init => ATreeOrEmpty!Init
  <2>1. SUFFICES ASSUME Init PROVE points = {} /\ answer = ATree!NoQuery
    BY DEF ATreeOrEmpty!Init, ATreeOrEmpty!NoAnswer, ATree!NoQuery
  <2>2. CASE program # "kdTree"
    BY <2>2
  <2>3. CASE program = "kdTree"
    <3>1. ATree!Init
      BY <2>1, <2>3 DEF Init
    <3>2. points = {} /\ cursor = ATree!NoQuery
      BY <2>3, <3>1, KdInit, PointsFound DEF ATree!Init
    <3>3. QED
      BY <1>1, <2>3, <3>2 DEF AnswerOf
  <2>4. QED
    BY <2>2, <2>3
<1>3. ASSUME Inv, Inv', [Next]_vars
      PROVE  ATreeOrEmpty!Next \/ UNCHANGED <<points, answer>>
  <2>1. program' = program
    BY <1>3 DEF Next, vars
  <2>2. CASE program # "kdTree"
    BY <2>1, <2>2
  <2>3. CASE program = "kdTree"
    <3> DEFINE S == DOMAIN data
               a == AnswerOf(cursor)
    <3>1. KdInv /\ KdInv'
      BY <1>3, <2>1, <2>3
    <3>2. ATree!Next \/ UNCHANGED <<data, first, cursor>>
      BY <1>3, <2>3 DEF Next, vars
    <3>3. \/ UNCHANGED <<S, a>>
          \/ \E p \in KPoints : S' = S \cup {p} /\ a' = a
          \/ S' = S /\ a' = ATree!NoQuery
          \/ S' = S /\ (InRange(S, a') \/ NearestOf(S, a'))
      BY <3>1, <3>2, KdIsSet
    <3>4. points = S /\ points' = S' /\ answer = a /\ answer' = a'
      BY <1>1, <2>1, <2>3, <3>1, PointsFound
    <3> HIDE DEF S, a, points, answer
    <3>5. \/ UNCHANGED <<points, answer>>
          \/ \E p \in KPoints : points' = points \cup {p} /\ answer' = answer
          \/ points' = points /\ answer' = ATree!NoQuery
          \/ points' = points /\ (InRange(points, answer') \/ NearestOf(points, answer'))
      BY <3>3, <3>4
    <3> USE DEF points, answer
    <3>6. ASSUME NEW p \in KPoints, points' = points \cup {p} /\ answer' = answer
          PROVE  ATreeOrEmpty!Insert(p)
      BY <3>6 DEF ATreeOrEmpty!Insert
    <3>7. ASSUME points' = points /\ answer' = ATree!NoQuery
          PROVE  ATreeOrEmpty!Taken
      BY <3>7 DEF ATreeOrEmpty!Taken, ATreeOrEmpty!NoAnswer, ATree!NoQuery
    <3>8. ASSUME points' = points, NEW rect \in ATree!Rectangles,
                 answer' = [asks |-> "range", of |-> rect,
                            found |-> {p \in points : ATree!Contains(rect, p)}]
          PROVE  ATreeOrEmpty!Range(rect)
      BY <3>8 DEF ATreeOrEmpty!Range, ATreeOrEmpty!Contains, ATree!Contains
    <3>9. ASSUME points' = points, NEW p \in KPoints, NEW n \in points,
                 \A m \in points : ATree!DistanceSquared(p, n) <= ATree!DistanceSquared(p, m),
                 answer' = [asks |-> "nearest", of |-> p, found |-> {n}]
          PROVE  ATreeOrEmpty!Nearest(p)
      BY <3>9 DEF ATreeOrEmpty!Nearest, ATreeOrEmpty!DistanceSquared, ATree!DistanceSquared
    <3>10. /\ KPoints = ATreeOrEmpty!Points
           /\ ATree!Rectangles = ATreeOrEmpty!Rectangles
      BY DEF KPoints, ATree!Points, ATreeOrEmpty!Points, ATree!Rectangles,
             ATreeOrEmpty!Rectangles
    <3> HIDE DEF points, answer
    <3>11. QED
      BY <3>5, <3>6, <3>7, <3>8, <3>9, <3>10 DEF ATreeOrEmpty!Next, InRange, NearestOf
  <2>4. QED
    BY <2>2, <2>3
<1>4. QED
  BY <1>2, <1>3, KdTreeInvariance, PTL DEF Spec, ImplementsPointSET, ATreeOrEmpty!Spec

-----------------------------------------------------------------------------
(* Slopes.  Fractions in lowest terms are those with the least denominator *)
(* of all that are equal, which makes a slope a property of its line.      *)

\* No fraction that equals a/b has a smaller denominator.
Lowest(a, b) == /\ a \in Int /\ b \in Nat \ {0}
                /\ \A c \in Int, d \in Nat \ {0} : c * b = a * d => b <= d

\* The slopes that are no fractions: of a vertical line and of no line.
Vertical == <<1, 0>>
NoSlope == <<-1, 0>>

\* All slopes.
IsSlope(s) == s \in {Vertical, NoSlope} \/ (s = <<s[1], s[2]>> /\ Lowest(s[1], s[2]))

\* A product that is not 0.
LEMMA NoZero ==
  ASSUME NEW a \in Int, NEW b \in Int, a * b = 0, b # 0
  PROVE  a = 0
BY SMTT(30)

\* A factor can be left out, of an equation
LEMMA FactorOut ==
  ASSUME NEW a \in Int, NEW b \in Int, NEW c \in Int, c # 0, a * c = b * c
  PROVE  a = b
<1>1. (a - b) * c = 0
  BY SMTT(20)
<1>2. a - b = 0
  BY <1>1, NoZero
<1>3. QED
  BY <1>2

\* and, if it is positive, of an inequality.
LEMMA FactorOutLess ==
  ASSUME NEW a \in Int, NEW b \in Int, NEW c \in Nat \ {0}
  PROVE  /\ a * c < b * c <=> a < b
         /\ a * c <= b * c <=> a <= b
<1>1. ASSUME NEW d \in Nat \ {0} PROVE d * c >= c /\ d * c > 0
  BY <1>1, SMTT(20)
<1>2. ASSUME NEW x \in Int, NEW y \in Int, x < y PROVE x * c < y * c
  <2>1. y - x \in Nat \ {0} /\ (y - x) * c = y * c - x * c
    BY <1>2, SMTT(20)
  <2>2. (y - x) * c > 0
    BY <1>1, <2>1
  <2>3. x * c \in Int /\ y * c \in Int
    BY SMTT(20)
  <2>4. QED
    BY <2>1, <2>2, <2>3
<1>3. a * c \in Int /\ b * c \in Int
  BY SMTT(20)
<1>4. CASE a < b
  BY <1>2, <1>3, <1>4
<1>5. CASE b < a
  BY <1>2, <1>3, <1>5
<1>6. CASE a = b
  BY <1>3, <1>6
<1>7. QED
  BY <1>4, <1>5, <1>6

\* Equal fractions in lowest terms are the same.
LEMMA LowestIsUnique ==
  ASSUME NEW a, NEW b, NEW c, NEW d, Lowest(a, b), Lowest(c, d), a * d = c * b
  PROVE  a = c /\ b = d
<1>1. /\ a \in Int /\ b \in Nat \ {0} /\ c \in Int /\ d \in Nat \ {0}
      /\ \A x \in Int, y \in Nat \ {0} : x * b = a * y => b <= y
      /\ \A x \in Int, y \in Nat \ {0} : x * d = c * y => d <= y
  BY DEF Lowest
<1>2. b <= d
  BY <1>1
<1>3. d <= b
  BY <1>1
<1>4. b = d
  BY <1>1, <1>2, <1>3
<1>5. a = c
  BY <1>1, <1>4, FactorOut
<1>6. QED
  BY <1>4, <1>5

\* A fraction has lowest terms, and it is their multiple.
LEMMA LowestExists ==
  ASSUME NEW y \in Int, NEW x \in Nat \ {0}
  PROVE  \E a \in Int, b \in Nat \ {0}, g \in Nat \ {0} :
           Lowest(a, b) /\ x = g * b /\ y = g * a
<1> DEFINE S == {d \in Nat \ {0} : \E c \in Int : c * x = y * d}
<1>1. x \in S /\ S \subseteq Nat
  OBVIOUS
<1>2. PICK b \in S : \A d \in S : b <= d
  BY <1>1, LeastNumber
<1>3. PICK a \in Int : a * x = y * b
  BY <1>2
<1>4. b \in Nat \ {0}
  BY <1>2
<1> DEFINE g == x \div b
           r == x % b
<1>5. /\ x = g * b + r /\ g \in Nat /\ r \in Nat /\ r < b
  BY <1>4, SMTT(20)
<1> HIDE DEF g, r
<1>6. r = 0
  <2>1. SUFFICES ASSUME r \in Nat \ {0} PROVE FALSE
    BY <1>5
  <2>2. y - g * a \in Int
    BY <1>3, <1>5, SMTT(20)
  <2>3. (y - g * a) * x = y * r
    <3>1. (y - g * a) * x = y * x - g * (a * x)
      BY <1>3, <1>5, SMTT(20)
    <3>2. g * (a * x) = g * (y * b)
      BY <1>3
    <3>3. y * x = g * (y * b) + y * r
      BY <1>4, <1>5, SMTT(20)
    <3> DEFINE u == g * (y * b)
               v == y * r
               w == y * x
    <3>4. u \in Int /\ v \in Int /\ w \in Int
      BY <1>4, <1>5, SMTT(20)
    <3>5. w = u + v
      BY <3>3
    <3>6. (y - g * a) * x = w - u
      BY <3>1, <3>2
    <3> HIDE DEF u, v, w
    <3>7. w - u = v
      BY <3>4, <3>5
    <3>8. QED
      BY <3>6, <3>7 DEF v
  <2>4. r \in S
    BY <2>1, <2>2, <2>3
  <2>5. QED
    BY <1>2, <1>5, <2>4
<1>7. x = g * b /\ g \in Nat \ {0}
  <2>1. x = g * b
    <3> DEFINE u == g * b
    <3>1. u \in Int /\ x = u + 0
      BY <1>4, <1>5, <1>6
    <3> HIDE DEF u
    <3>2. x = u
      BY <3>1
    <3>3. QED
      BY <3>2 DEF u
  <2>2. g # 0
    BY <1>4, <2>1, SMTT(20)
  <2>3. QED
    BY <1>5, <2>1, <2>2
<1>8. y = g * a
  <2>1. (g * a) * b = y * b
    <3>1. (g * a) * b = a * (g * b)
      BY <1>3, <1>4, <1>5, SMTT(20)
    <3>2. QED
      BY <1>3, <1>7, <3>1
  <2>2. g * a \in Int
    BY <1>3, <1>5
  <2>3. QED
    BY <1>4, <2>1, <2>2, FactorOut
<1>9. ASSUME NEW c \in Int, NEW d \in Nat \ {0}, c * b = a * d PROVE b <= d
  <2>1. c * x = y * d
    <3>1. c * x = g * (c * b)
      BY <1>4, <1>7, SMTT(20)
    <3>2. y * d = g * (a * d)
      BY <1>3, <1>7, <1>8, SMTT(20)
    <3>3. QED
      BY <1>9, <3>1, <3>2
  <2>2. d \in S
    BY <2>1
  <2>3. QED
    BY <1>2, <2>2
<1>10. Lowest(a, b)
  BY <1>3, <1>4, <1>9 DEF Lowest
<1>11. QED
  BY <1>3, <1>4, <1>7, <1>8, <1>10

\* A multiple of e divides by e without a remainder, and nothing else does.
LEMMA Multiples ==
  ASSUME NEW e \in Nat \ {0}, NEW z \in Int
  PROVE  /\ \A k \in Int : z = k * e => z % e = 0 /\ z \div e = k
         /\ z % e = 0 => z \div e \in Int /\ z = (z \div e) * e
<1> DEFINE q == z \div e
           r == z % e
<1>1. /\ q \in Int /\ r \in Int /\ 0 <= r /\ r < e /\ z = e * q + r
  BY SMTT(20)
<1>2. e * q = q * e /\ q * e \in Int /\ (q + 1) * e = q * e + e
  BY <1>1, SMTT(20)
<1> HIDE DEF q, r
<1> DEFINE m == q * e
<1>3. m \in Int /\ z = m + r
  BY <1>1, <1>2
<1> HIDE DEF m
<1>4. ASSUME NEW k \in Int, z = k * e PROVE r = 0 /\ q = k
  <2>1. m <= z /\ z < m + e
    BY <1>1, <1>3
  <2>2. q * e <= k * e /\ k * e < (q + 1) * e
    BY <1>2, <1>4, <2>1 DEF m
  <2>3. q <= k /\ k < q + 1
    BY <1>1, <2>2, FactorOutLess
  <2>4. q = k
    BY <1>1, <2>3
  <2>5. m = z
    BY <1>4, <2>4 DEF m
  <2>6. QED
    BY <1>1, <1>3, <2>4, <2>5
<1>5. r = 0 => z = q * e
  <2>1. r = 0 => z = m
    BY <1>3
  <2>2. QED
    BY <2>1 DEF m
<1>6. QED
  BY <1>1, <1>4, <1>5 DEF q, r

\* Gcd is what lowest terms have been multiplied by.
LEMMA GcdIs ==
  ASSUME NEW a, NEW b, Lowest(a, b), NEW g \in Nat \ {0}, NEW u \in Nat, u = g * b,
         NEW v \in Nat, NEW y \in Int, y = g * a, v = y \/ v = -y
  PROVE  AFast!Gcd(u, v) = g
<1> DEFINE Common(d) == u % d = 0 /\ v % d = 0
           Greatest(d) == /\ Common(d)
                          /\ \A e \in (d + 1)..(u + v) : u % e # 0 \/ v % e # 0
<1>1. /\ a \in Int /\ b \in Nat \ {0}
      /\ \A c \in Int, d \in Nat \ {0} : c * b = a * d => b <= d
  BY DEF Lowest
<1>2. u = b * g /\ y = a * g /\ -y = (-a) * g
  BY <1>1, SMTT(20)
<1>3. Common(g)
  <2>1. u % g = 0
    BY <1>1, <1>2, Multiples
  <2>a. y % g = 0
    BY <1>1, <1>2, Multiples
  <2>b. (-y) % g = 0
    BY <1>1, <1>2, Multiples
  <2>2. QED
    BY <2>1, <2>a, <2>b
<1>4. g \in 1..(u + v)
  <2>1. g <= u
    BY <1>1, SMTT(20)
  <2>2. QED
    BY <2>1
<1>5. ASSUME NEW e \in Nat \ {0}, Common(e) PROVE e <= g
  <2>1. y % e = 0
    <3>1. CASE v = y
      BY <1>5, <3>1
    <3>2. CASE v = -y
      <4>1. v = (v \div e) * e /\ v \div e \in Int
        BY <1>5, Multiples
      <4>2. y = (-(v \div e)) * e
        <5> DEFINE k == v \div e
        <5>1. k \in Int /\ v = k * e
          BY <4>1
        <5> HIDE DEF k
        <5>2. y = (-k) * e
          BY <3>2, <5>1, SMTT(20)
        <5>3. QED
          BY <5>2 DEF k
      <4>3. -(v \div e) \in Int
        BY <4>1
      <4>4. QED
        BY <4>2, <4>3, Multiples
    <3>3. QED
      BY <3>1, <3>2
  <2>2. PICK i \in Int : u = i * e
    <3>1. u % e = 0 /\ u \in Int
      BY <1>5
    <3>2. u \div e \in Int /\ u = (u \div e) * e
      BY <3>1, Multiples
    <3>3. QED
      BY <3>2
  <2>3. PICK j \in Int : y = j * e
    <3>1. y % e = 0 /\ y \in Int
      BY <2>1
    <3>2. y \div e \in Int /\ y = (y \div e) * e
      BY <3>1, Multiples
    <3>3. QED
      BY <3>2
  <2>4. u > 0
    BY <1>1, SMTT(20)
  <2>5. i \in Nat \ {0}
    <3>1. CASE i <= 0
      <4>1. i * e <= 0
        BY <3>1, SMTT(20)
      <4>2. QED
        BY <2>2, <2>4, <4>1
    <3>2. QED
      BY <3>1
  <2>6. j * b = a * i
    <3>1. (j * b) * e = b * (a * g)
      <4>1. (j * b) * e = b * (j * e)
        BY <1>1, SMTT(20)
      <4>2. QED
        BY <1>2, <2>3, <4>1
    <3>2. (a * i) * e = a * (b * g)
      <4>1. (a * i) * e = a * (i * e)
        BY <1>1, SMTT(20)
      <4>2. QED
        BY <1>2, <2>2, <4>1
    <3>3. a * (b * g) = b * (a * g)
      BY <1>1, SMTT(20)
    <3>4. j * b \in Int /\ a * i \in Int
      BY <1>1
    <3>5. QED
      BY <3>1, <3>2, <3>3, <3>4, FactorOut
  <2>7. b <= i
    BY <1>1, <2>5, <2>6
  <2>8. e * b <= g * b
    <3>1. b * e <= i * e
      BY <1>1, <2>7, FactorOutLess
    <3>2. b * e = e * b /\ i * e = g * b
      BY <1>1, <2>2, SMTT(20)
    <3>3. QED
      BY <3>1, <3>2
  <2>9. QED
    BY <1>1, <2>8, FactorOutLess
<1>6. Greatest(g)
  <2>1. ASSUME NEW e \in (g + 1)..(u + v) PROVE u % e # 0 \/ v % e # 0
    BY <1>5
  <2>2. QED
    BY <1>3, <2>1
<1>7. ASSUME NEW d \in 1..(u + v), Greatest(d) PROVE d = g
  <2>1. d <= g
    BY <1>5, <1>7
  <2>2. d < g => g \in (d + 1)..(u + v)
    BY <1>4
  <2>3. QED
    BY <1>3, <1>7, <2>1, <2>2
<1>8. AFast!Gcd(u, v) = CHOOSE d \in 1..(u + v) : Greatest(d)
  BY DEF AFast!Gcd
<1> HIDE DEF Greatest
<1>9. QED
  BY <1>4, <1>6, <1>7, <1>8

-----------------------------------------------------------------------------
(* The slope between two points is the only one that the line of the two   *)
(* has, whichever of them it is taken from.                                *)

\* All points, those with negative coordinates included.
Plane == Int \X Int

\* s is the slope of the line of p and q.
SlopeFits(p, q, s) == /\ IsSlope(s) /\ s # NoSlope
                      /\ s[1] * (q[1] - p[1]) = (q[2] - p[2]) * s[2]

\* A point's coordinates.
LEMMA InPlane ==
  ASSUME NEW p \in Plane, NEW q \in Plane
  PROVE  /\ p[1] \in Int /\ p[2] \in Int /\ q[1] \in Int /\ q[2] \in Int
         /\ p # q => p[1] # q[1] \/ p[2] # q[2]
BY DEF Plane

\* Lowest terms of a slope are a slope.
LEMMA LowestIsSlope ==
  ASSUME NEW a, NEW b, Lowest(a, b)
  PROVE  /\ IsSlope(<<a, b>>) /\ <<a, b>> # NoSlope /\ <<a, b>> # Vertical
         /\ <<a, b>>[1] = a /\ <<a, b>>[2] = b
<1>1. b # 0
  BY DEF Lowest
<1>2. QED
  BY <1>1 DEF IsSlope, NoSlope, Vertical

\* A quotient.
LEMMA Divided ==
  ASSUME NEW g \in Nat \ {0}, NEW k \in Int
  PROVE  (g * k) \div g = k
<1>1. g * k \in Int /\ g * k = k * g
  BY SMTT(20)
<1> DEFINE z == g * k
<1> HIDE DEF z
<1>2. z \in Int /\ z = k * g
  BY <1>1 DEF z
<1>3. z \div g = k
  BY <1>2, Multiples
<1>4. QED
  BY <1>3 DEF z

\* slopeTo() of a point on the right
LEMMA SlopeRight ==
  ASSUME NEW p \in Plane, NEW q \in Plane, q[1] > p[1]
  PROVE  SlopeFits(p, q, AFast!Slope(p, q))
<1> DEFINE x == q[1] - p[1]
           y == q[2] - p[2]
<1>1. x \in Nat \ {0} /\ y \in Int /\ x # 0 /\ x > 0 /\ ~(x < 0) /\ p # q
  BY InPlane
<1>2. PICK a \in Int, b \in Nat \ {0}, g \in Nat \ {0} :
             Lowest(a, b) /\ x = g * b /\ y = g * a
  <2> HIDE DEF x, y
  <2>1. QED
    BY <1>1, LowestExists
<1>3. AFast!Abs(x) = x /\ AFast!Abs(x) \in Nat /\ AFast!Abs(y) \in Nat
      /\ (AFast!Abs(y) = y \/ AFast!Abs(y) = -y)
  <2> HIDE DEF x, y
  <2>1. QED
    BY <1>1 DEF AFast!Abs
<1>4. AFast!Gcd(AFast!Abs(x), AFast!Abs(y)) = g
  <2> HIDE DEF x, y
  <2>1. QED
    BY <1>1, <1>2, <1>3, GcdIs
<1>5. AFast!Slope(p, q) = <<y \div g, x \div g>>
  <2>1. AFast!Slope(p, q) =
          LET h == AFast!Gcd(AFast!Abs(x), AFast!Abs(y))
          IN CASE p = q            -> <<-1, 0>>
               [] p # q /\ x = 0   -> <<1, 0>>
               [] x > 0            -> <<y \div h, x \div h>>
               [] x < 0            -> <<(-y) \div h, (-x) \div h>>
    BY DEF AFast!Slope
  <2> HIDE DEF x, y
  <2>2. QED
    BY <1>1, <1>4, <2>1
<1>6. y \div g = a /\ x \div g = b
  <2>1. (g * a) \div g = a /\ (g * b) \div g = b
    BY Divided
  <2>2. QED
    BY <1>2, <2>1
<1>7. a * x = y * b
  <2>1. a * (g * b) = (g * a) * b
    BY SMTT(20)
  <2>2. QED
    BY <1>2, <2>1
<1>8. QED
  BY <1>2, <1>5, <1>6, <1>7, LowestIsSlope DEF SlopeFits

\* and on the left.
LEMMA SlopeLeft ==
  ASSUME NEW p \in Plane, NEW q \in Plane, q[1] < p[1]
  PROVE  SlopeFits(p, q, AFast!Slope(p, q))
<1> DEFINE x == q[1] - p[1]
           y == q[2] - p[2]
<1>1. -x \in Nat \ {0} /\ x \in Int /\ y \in Int /\ x # 0 /\ x < 0 /\ ~(x > 0) /\ p # q
  BY InPlane
<1>2. PICK a \in Int, b \in Nat \ {0}, g \in Nat \ {0} :
             Lowest(a, b) /\ -x = g * b /\ -y = g * a
  <2> HIDE DEF x, y
  <2>1. -y \in Int
    BY <1>1
  <2>2. QED
    BY <1>1, <2>1, LowestExists
<1>3. AFast!Abs(x) = -x /\ AFast!Abs(x) \in Nat /\ AFast!Abs(y) \in Nat
      /\ (AFast!Abs(y) = -y \/ AFast!Abs(y) = -(-y))
  <2> HIDE DEF x, y
  <2>1. QED
    BY <1>1 DEF AFast!Abs
<1>4. AFast!Gcd(AFast!Abs(x), AFast!Abs(y)) = g
  <2> HIDE DEF x, y
  <2>1. -y \in Int
    BY <1>1
  <2>2. QED
    BY <1>1, <1>2, <1>3, <2>1, GcdIs
<1>5. AFast!Slope(p, q) = <<(-y) \div g, (-x) \div g>>
  <2>1. AFast!Slope(p, q) =
          LET h == AFast!Gcd(AFast!Abs(x), AFast!Abs(y))
          IN CASE p = q            -> <<-1, 0>>
               [] p # q /\ x = 0   -> <<1, 0>>
               [] x > 0            -> <<y \div h, x \div h>>
               [] x < 0            -> <<(-y) \div h, (-x) \div h>>
    BY DEF AFast!Slope
  <2> HIDE DEF x, y
  <2>2. QED
    BY <1>1, <1>4, <2>1
<1>6. (-y) \div g = a /\ (-x) \div g = b
  <2>1. (g * a) \div g = a /\ (g * b) \div g = b
    BY Divided
  <2>2. QED
    BY <1>2, <2>1
<1>7. a * x = y * b
  <2>1. a * (g * b) = (g * a) * b
    BY SMTT(20)
  <2>2. a * (-x) = (-y) * b
    BY <1>2, <2>1
  <2> HIDE DEF x, y
  <2>3. a * (-x) = -(a * x) /\ (-y) * b = -(y * b) /\ a * x \in Int /\ y * b \in Int
    BY <1>1, SMTT(20)
  <2>4. QED
    BY <2>2, <2>3
<1>8. QED
  BY <1>2, <1>5, <1>6, <1>7, LowestIsSlope DEF SlopeFits

\* It fits.
LEMMA SlopeIs ==
  ASSUME NEW p \in Plane, NEW q \in Plane, p # q
  PROVE  SlopeFits(p, q, AFast!Slope(p, q))
<1>1. CASE q[1] > p[1]
  BY <1>1, SlopeRight
<1>2. CASE q[1] < p[1]
  BY <1>2, SlopeLeft
<1>3. CASE q[1] = p[1]
  <2>1. q[1] - p[1] = 0 /\ q[2] - p[2] \in Int
    BY <1>3, InPlane
  <2>2. AFast!Slope(p, q) = Vertical
    BY <2>1 DEF AFast!Slope, Vertical
  <2>3. Vertical[1] = 1 /\ Vertical[2] = 0 /\ Vertical # NoSlope
    BY DEF Vertical, NoSlope
  <2>4. QED
    BY <2>1, <2>2, <2>3 DEF SlopeFits, IsSlope
<1>4. QED
  BY <1>1, <1>2, <1>3, InPlane

\* A slope is vertical or a fraction.
LEMMA SlopeKinds ==
  ASSUME NEW s, IsSlope(s)
  PROVE  \/ s = Vertical /\ s[1] = 1 /\ s[2] = 0
         \/ s = NoSlope /\ s[1] = -1 /\ s[2] = 0
         \/ s = <<s[1], s[2]>> /\ Lowest(s[1], s[2]) /\ s[1] \in Int /\ s[2] \in Nat \ {0}
BY DEF IsSlope, Vertical, NoSlope, Lowest

\* Only one slope fits.
LEMMA OnlySlope ==
  ASSUME NEW p \in Plane, NEW q \in Plane, p # q, NEW s, SlopeFits(p, q, s)
  PROVE  s = AFast!Slope(p, q)
<1> DEFINE t == AFast!Slope(p, q)
           x == q[1] - p[1]
           y == q[2] - p[2]
<1>1. x \in Int /\ y \in Int /\ (x # 0 \/ y # 0)
  BY InPlane
<1>2. /\ IsSlope(s) /\ s # NoSlope /\ s[1] * x = y * s[2]
      /\ IsSlope(t) /\ t # NoSlope /\ t[1] * x = y * t[2]
  BY SlopeIs DEF SlopeFits
<1> HIDE DEF x, y, t
<1>3. ASSUME NEW u, IsSlope(u), u # NoSlope, u[1] * x = y * u[2]
      PROVE  u = Vertical <=> x = 0
  <2>1. CASE u = Vertical
    <3>1. u[1] = 1 /\ u[2] = 0
      BY <2>1 DEF Vertical
    <3>2. QED
      BY <1>1, <1>3, <2>1, <3>1
  <2>2. CASE u # Vertical
    <3>1. u[1] \in Int /\ u[2] \in Nat \ {0}
      BY <1>3, <2>2, SlopeKinds
    <3>2. x = 0 => y * u[2] = 0
      <4>1. u[1] * 0 = 0
        BY <3>1
      <4>2. QED
        BY <1>3, <4>1
    <3>3. x = 0 => y = 0
      BY <1>1, <3>1, <3>2, NoZero
    <3>4. QED
      BY <1>1, <2>2, <3>3
  <2>3. QED
    BY <2>1, <2>2
<1>4. CASE x = 0
  BY <1>2, <1>3, <1>4 DEF t
<1>5. CASE x # 0
  <2>1. /\ s = <<s[1], s[2]>> /\ Lowest(s[1], s[2]) /\ s[1] \in Int /\ s[2] \in Nat \ {0}
        /\ t = <<t[1], t[2]>> /\ Lowest(t[1], t[2]) /\ t[1] \in Int /\ t[2] \in Nat \ {0}
    <3>1. s # Vertical /\ t # Vertical
      BY <1>2, <1>3, <1>5
    <3>2. QED
      BY <1>2, <3>1, SlopeKinds
  <2>2. (s[1] * t[2]) * x = (t[1] * s[2]) * x
    <3>1. ASSUME NEW a \in Int, NEW b \in Int, NEW c \in Int, NEW d \in Int,
                 a * x = y * b, c * x = y * d
          PROVE  (a * d) * x = (c * b) * x
      <4>1. (a * d) * x = d * (a * x) /\ (c * b) * x = b * (c * x)
        BY <1>1, SMTT(20)
      <4>2. d * (y * b) = b * (y * d)
        BY <1>1, SMTT(20)
      <4>3. QED
        BY <3>1, <4>1, <4>2
    <3>2. QED
      BY <1>2, <2>1, <3>1
  <2>3. s[1] * t[2] = t[1] * s[2]
    <3>1. s[1] * t[2] \in Int /\ t[1] * s[2] \in Int
      BY <2>1
    <3>2. QED
      BY <1>1, <1>5, <2>2, <3>1, FactorOut
  <2>4. s[1] = t[1] /\ s[2] = t[2]
    BY <2>1, <2>3, LowestIsUnique
  <2>5. QED
    BY <2>1, <2>4 DEF t
<1>6. QED
  BY <1>4, <1>5

\* From x/y to u/v the slope is a/b.
Flat(a, b, x, y, u, v) == a * (u - x) = (v - y) * b

\* It is that backwards,
LEMMA FlatBack ==
  ASSUME NEW a \in Int, NEW b \in Int, NEW x \in Int, NEW y \in Int,
         NEW u \in Int, NEW v \in Int, Flat(a, b, x, y, u, v)
  PROVE  Flat(a, b, u, v, x, y)
<1>1. a * (u - x) = -(a * (x - u)) /\ (v - y) * b = -((y - v) * b)
  BY SMTT(20)
<1>2. a * (u - x) = (v - y) * b /\ a * (x - u) \in Int /\ (y - v) * b \in Int
  BY DEF Flat
<1>3. a * (x - u) = (y - v) * b
  BY <1>1, <1>2
<1>4. QED
  BY <1>3 DEF Flat

\* and from one to the other of two places that are in its direction.
LEMMA FlatOnward ==
  ASSUME NEW a \in Int, NEW b \in Int, NEW x \in Int, NEW y \in Int,
         NEW u \in Int, NEW v \in Int, NEW w \in Int, NEW z \in Int,
         Flat(a, b, x, y, u, v), Flat(a, b, x, y, w, z)
  PROVE  Flat(a, b, u, v, w, z)
<1>1. /\ a * (w - u) = a * (w - x) - a * (u - x)
      /\ (z - v) * b = (z - y) * b - (v - y) * b
  BY SMTT(20)
<1>2. a * (u - x) = (v - y) * b /\ a * (w - x) = (z - y) * b
  BY DEF Flat
<1>3. a * (w - u) = (z - v) * b
  BY <1>1, <1>2
<1>4. QED
  BY <1>3 DEF Flat

\* The slope back is the same.
LEMMA SlopeBack ==
  ASSUME NEW p \in Plane, NEW q \in Plane, p # q
  PROVE  AFast!Slope(q, p) = AFast!Slope(p, q)
<1> DEFINE s == AFast!Slope(p, q)
<1>1. SlopeFits(p, q, s)
  BY SlopeIs
<1> HIDE DEF s
<1>2. s[1] \in Int /\ s[2] \in Int
  BY <1>1, SlopeKinds DEF SlopeFits
<1>3. s[1] * (p[1] - q[1]) = (p[2] - q[2]) * s[2]
  <2>1. Flat(s[1], s[2], p[1], p[2], q[1], q[2])
    BY <1>1 DEF SlopeFits, Flat
  <2>2. p[1] \in Int /\ p[2] \in Int /\ q[1] \in Int /\ q[2] \in Int
    BY InPlane
  <2>3. Flat(s[1], s[2], q[1], q[2], p[1], p[2])
    BY <1>2, <2>1, <2>2, FlatBack, Zenon
  <2>4. QED
    BY <2>3 DEF Flat
<1>4. SlopeFits(q, p, s)
  BY <1>1, <1>3 DEF SlopeFits
<1>5. QED
  BY <1>4, OnlySlope DEF s

\* Two points in the same direction are in that direction from each other.
LEMMA SlopeOnward ==
  ASSUME NEW p \in Plane, NEW q \in Plane, NEW r \in Plane, p # q, p # r, q # r,
         AFast!Slope(p, q) = AFast!Slope(p, r)
  PROVE  AFast!Slope(q, r) = AFast!Slope(p, q)
<1> DEFINE s == AFast!Slope(p, q)
<1>1. SlopeFits(p, q, s) /\ SlopeFits(p, r, s)
  BY SlopeIs
<1> HIDE DEF s
<1>2. s[1] \in Int /\ s[2] \in Int
  BY <1>1, SlopeKinds DEF SlopeFits
<1>3. s[1] * (r[1] - q[1]) = (r[2] - q[2]) * s[2]
  <2>1. /\ Flat(s[1], s[2], p[1], p[2], q[1], q[2])
        /\ Flat(s[1], s[2], p[1], p[2], r[1], r[2])
    BY <1>1 DEF SlopeFits, Flat
  <2>2. /\ p[1] \in Int /\ p[2] \in Int /\ q[1] \in Int /\ q[2] \in Int
        /\ r[1] \in Int /\ r[2] \in Int
    BY InPlane
  <2>3. Flat(s[1], s[2], q[1], q[2], r[1], r[2])
    BY <1>2, <2>1, <2>2, FlatOnward
  <2>4. QED
    BY <2>3 DEF Flat
<1>4. SlopeFits(q, r, s)
  BY <1>1, <1>3 DEF SlopeFits
<1>5. QED
  BY <1>4, OnlySlope DEF s

-----------------------------------------------------------------------------
(* Ranks.  A strict order, here a set of pairs, puts a finite set into a   *)
(* sequence.                                                               *)

\* R orders S, with no two in the same place.
StrictOrder(S, R) == /\ \A x \in S : <<x, x>> \notin R
                     /\ \A x, y, z \in S : <<x, y>> \in R /\ <<y, z>> \in R => <<x, z>> \in R
                     /\ \A x, y \in S : x # y => <<x, y>> \in R \/ <<y, x>> \in R

\* What comes before x.
Earlier(S, R, x) == {y \in S : <<y, x>> \in R}

\* f[k] has rank k.
IsRanking(f, S, R) ==
  /\ DOMAIN f = 1..Cardinality(S)
  /\ \A k \in DOMAIN f : f[k] \in S /\ Cardinality(Earlier(S, R, f[k])) = k - 1

\* f has all of S, once and in order.
InOrder(f, S, R) ==
  /\ DOMAIN f = 1..Cardinality(S)
  /\ \A k \in DOMAIN f : f[k] \in S
  /\ \A x \in S : \E k \in DOMAIN f : f[k] = x
  /\ \A i, j \in DOMAIN f : i < j => <<f[i], f[j]>> \in R
  /\ \A i, j \in DOMAIN f : f[i] = f[j] => i = j

\* Who comes later has the higher rank
LEMMA RankLess ==
  ASSUME NEW S, NEW R, IsFiniteSet(S), StrictOrder(S, R),
         NEW x \in S, NEW y \in S, <<x, y>> \in R
  PROVE  Cardinality(Earlier(S, R, x)) < Cardinality(Earlier(S, R, y))
<1> DEFINE A == Earlier(S, R, x)
           B == Earlier(S, R, y)
<1>1. A \subseteq B /\ x \in B /\ x \notin A /\ B \subseteq S
  BY DEF StrictOrder, Earlier
<1> HIDE DEF A, B
<1>2. IsFiniteSet(B)
  BY <1>1, FS_Subset
<1>3. IsFiniteSet(A) /\ Cardinality(A) <= Cardinality(B) /\ (Cardinality(B) = Cardinality(A) => B = A)
  BY <1>1, <1>2, FS_Subset
<1>4. Cardinality(A) \in Nat /\ Cardinality(B) \in Nat /\ A # B
  BY <1>1, <1>2, <1>3, FS_CardinalityType
<1>5. Cardinality(A) < Cardinality(B)
  BY <1>3, <1>4
<1>6. QED
  BY <1>5 DEF A, B

\* of those there are.
LEMMA RankBounds ==
  ASSUME NEW S, NEW R, IsFiniteSet(S), StrictOrder(S, R), NEW x \in S
  PROVE  Cardinality(Earlier(S, R, x)) \in 0..(Cardinality(S) - 1)
<1> DEFINE A == Earlier(S, R, x)
<1>1. A \subseteq S /\ x \notin A
  BY DEF StrictOrder, Earlier
<1> HIDE DEF A
<1>2. IsFiniteSet(A) /\ Cardinality(A) <= Cardinality(S) /\ (Cardinality(S) = Cardinality(A) => S = A)
  BY <1>1, FS_Subset
<1>3. Cardinality(A) \in Nat /\ Cardinality(S) \in Nat /\ A # S
  BY <1>1, <1>2, FS_CardinalityType
<1>4. Cardinality(A) \in 0..(Cardinality(S) - 1)
  BY <1>2, <1>3
<1>5. QED
  BY <1>4 DEF A

\* Every rank is taken.
LEMMA RankTaken ==
  ASSUME NEW S, NEW R, IsFiniteSet(S), StrictOrder(S, R), NEW k \in 1..Cardinality(S)
  PROVE  \E x \in S : Cardinality(Earlier(S, R, x)) = k - 1
<1> DEFINE N == Cardinality(S)
           f == [x \in S |-> Cardinality(Earlier(S, R, x)) + 1]
<1>1. N \in Nat
  BY FS_CardinalityType
<1>2. \A x \in S : Cardinality(Earlier(S, R, x)) \in 0..(N - 1)
  BY RankBounds
<1>3. f \in [S -> 1..N]
  <2> HIDE DEF N
  <2>1. QED
    BY <1>1, <1>2
<1>4. ASSUME NEW x \in S, NEW y \in S, x # y PROVE f[x] # f[y]
  <2>1. \/ Cardinality(Earlier(S, R, x)) < Cardinality(Earlier(S, R, y))
        \/ Cardinality(Earlier(S, R, y)) < Cardinality(Earlier(S, R, x))
    <3>1. <<x, y>> \in R \/ <<y, x>> \in R
      BY <1>4 DEF StrictOrder
    <3>2. QED
      BY <3>1, RankLess
  <2>2. /\ Cardinality(Earlier(S, R, x)) \in Int /\ Cardinality(Earlier(S, R, y)) \in Int
    <3> HIDE DEF N
    <3>1. QED
      BY <1>1, <1>2
  <2>3. QED
    BY <2>1, <2>2
<1> HIDE DEF f
<1>5. f \in Injection(S, 1..N)
  BY <1>3, <1>4 DEF Injection, IsInjective
<1>6. IsFiniteSet(1..N) /\ Cardinality(1..N) = N
  BY <1>1, FS_Interval
<1>7. f \in Surjection(S, 1..N)
  BY <1>5, <1>6, FS_Injection
<1>8. PICK x \in S : f[x] = k
  BY <1>7 DEF Surjection
<1>9. Cardinality(Earlier(S, R, x)) \in Int /\ Cardinality(Earlier(S, R, x)) + 1 = k
  <2>1. Cardinality(Earlier(S, R, x)) \in 0..(N - 1)
    BY <1>2
  <2> HIDE DEF N
  <2>2. QED
    BY <1>1, <1>8, <2>1 DEF f
<1>10. QED
  BY <1>9

\* A ranking is in order.
LEMMA RankingInOrder ==
  ASSUME NEW S, NEW R, IsFiniteSet(S), StrictOrder(S, R), NEW f, IsRanking(f, S, R)
  PROVE  InOrder(f, S, R)
<1> DEFINE C(x) == Cardinality(Earlier(S, R, x))
<1>1. /\ DOMAIN f = 1..Cardinality(S) /\ Cardinality(S) \in Nat
      /\ \A k \in DOMAIN f : f[k] \in S /\ C(f[k]) = k - 1
  BY FS_CardinalityType DEF IsRanking
<1>2. ASSUME NEW x \in S, NEW y \in S PROVE C(x) = C(y) => x = y
  <2>1. CASE <<x, y>> \in R
    <3>1. C(x) < C(y) /\ C(x) \in Int /\ C(y) \in Int
      BY <2>1, RankLess, RankBounds
    <3>2. QED
      BY <3>1
  <2>2. CASE <<y, x>> \in R
    <3>1. C(y) < C(x) /\ C(x) \in Int /\ C(y) \in Int
      BY <2>2, RankLess, RankBounds
    <3>2. QED
      BY <3>1
  <2>3. QED
    BY <2>1, <2>2 DEF StrictOrder
<1>3. \A x \in S : C(x) \in 0..(Cardinality(S) - 1)
  BY RankBounds
<1>4. ASSUME NEW i \in DOMAIN f, NEW j \in DOMAIN f, i < j PROVE <<f[i], f[j]>> \in R
  <2>1. f[i] \in S /\ f[j] \in S /\ C(f[i]) = i - 1 /\ C(f[j]) = j - 1 /\ i \in Int /\ j \in Int
    BY <1>1
  <2>2. f[i] # f[j]
    BY <1>4, <2>1
  <2>3. <<f[i], f[j]>> \in R \/ <<f[j], f[i]>> \in R
    BY <2>1, <2>2 DEF StrictOrder
  <2>4. <<f[j], f[i]>> \in R => C(f[j]) < C(f[i])
    BY <2>1, RankLess
  <2> HIDE DEF C
  <2>5. QED
    BY <1>4, <2>1, <2>3, <2>4
<1>5. ASSUME NEW i \in DOMAIN f, NEW j \in DOMAIN f, f[i] = f[j] PROVE i = j
  <2>1. i - 1 = j - 1 /\ i \in Int /\ j \in Int
    BY <1>1, <1>5
  <2>2. QED
    BY <2>1
<1>6. ASSUME NEW x \in S PROVE \E k \in DOMAIN f : f[k] = x
  <2> DEFINE k == C(x) + 1
  <2>1. k \in DOMAIN f /\ k - 1 = C(x)
    <3>1. C(x) \in 0..(Cardinality(S) - 1)
      BY <1>3
    <3> HIDE DEF C
    <3>2. QED
      BY <1>1, <3>1
  <2>2. f[k] \in S /\ C(f[k]) = k - 1
    BY <1>1, <2>1
  <2> HIDE DEF k
  <2>3. f[k] = x
    <3> HIDE DEF C
    <3>1. QED
      BY <1>2, <2>1, <2>2
  <2>4. QED
    BY <2>1, <2>3
<1> HIDE DEF C
<1>7. QED
  BY <1>1, <1>4, <1>5, <1>6 DEF InOrder

-----------------------------------------------------------------------------
(* The orders that Fast.java sorts by.                                     *)

\* Cardinality is the library's.
LEMMA FastCounts == \A S : AFast!Cardinality(S) = Cardinality(S)
BY DEF AFast!Cardinality, Cardinality

\* compareTo() of Point.java
BeforeIn(S) == {r \in S \X S : AFast!Before(r[1], r[2])}

\* is a strict order.
LEMMA BeforeOrders ==
  ASSUME NEW S \in SUBSET Plane
  PROVE  StrictOrder(S, BeforeIn(S))
<1>1. ASSUME NEW x \in S, NEW y \in S
      PROVE  /\ <<x, y>> \in BeforeIn(S) <=> AFast!Before(x, y)
             /\ x[1] \in Int /\ x[2] \in Int
             /\ x # y => x[1] # y[1] \/ x[2] # y[2]
  <2>1. <<x, y>> \in BeforeIn(S) <=> AFast!Before(x, y)
    BY DEF BeforeIn
  <2>2. QED
    BY <2>1, InPlane
<1>2. ASSUME NEW x \in S PROVE <<x, x>> \notin BeforeIn(S)
  BY <1>1 DEF AFast!Before
<1>3. ASSUME NEW x \in S, NEW y \in S, NEW z \in S,
             <<x, y>> \in BeforeIn(S), <<y, z>> \in BeforeIn(S)
      PROVE  <<x, z>> \in BeforeIn(S)
  <2>1. /\ x[2] < y[2] \/ (x[2] = y[2] /\ x[1] < y[1])
        /\ y[2] < z[2] \/ (y[2] = z[2] /\ y[1] < z[1])
    BY <1>1, <1>3 DEF AFast!Before
  <2>2. /\ x[1] \in Int /\ x[2] \in Int /\ y[1] \in Int /\ y[2] \in Int
        /\ z[1] \in Int /\ z[2] \in Int
    BY <1>1
  <2>3. x[2] < z[2] \/ (x[2] = z[2] /\ x[1] < z[1])
    BY <2>1, <2>2
  <2>4. QED
    BY <1>1, <2>3 DEF AFast!Before
<1>4. ASSUME NEW x \in S, NEW y \in S, x # y
      PROVE  <<x, y>> \in BeforeIn(S) \/ <<y, x>> \in BeforeIn(S)
  BY <1>1, <1>4 DEF AFast!Before
<1>5. QED
  BY <1>2, <1>3, <1>4 DEF StrictOrder

\* So the points are put into order.
LEMMA SortedInOrder ==
  ASSUME NEW S \in SUBSET Plane, IsFiniteSet(S)
  PROVE  InOrder(AFast!Sorted(S), S, BeforeIn(S))
<1> DEFINE f == AFast!Sorted(S)
           R == BeforeIn(S)
<1>1. StrictOrder(S, R)
  BY BeforeOrders
<1>2. \A x \in S : {y \in S : AFast!Before(y, x)} = Earlier(S, R, x)
  BY DEF Earlier, BeforeIn
<1>3. f = [k \in 1..Cardinality(S) |->
             CHOOSE x \in S : Cardinality({y \in S : AFast!Before(y, x)}) = k - 1]
  <2>1. f = [k \in 1..AFast!Cardinality(S) |->
               CHOOSE x \in S : AFast!Cardinality({y \in S : AFast!Before(y, x)}) = k - 1]
    BY DEF AFast!Sorted, AFast!Ranked
  <2>2. QED
    BY <2>1 DEF AFast!Cardinality, Cardinality
<1> HIDE DEF f, R
<1>4. ASSUME NEW k \in 1..Cardinality(S)
      PROVE  f[k] \in S /\ Cardinality(Earlier(S, R, f[k])) = k - 1
  <2>1. \E x \in S : Cardinality(Earlier(S, R, x)) = k - 1
    BY <1>1, RankTaken
  <2>2. \E x \in S : Cardinality({y \in S : AFast!Before(y, x)}) = k - 1
    BY <1>2, <2>1
  <2>3. f[k] = CHOOSE x \in S : Cardinality({y \in S : AFast!Before(y, x)}) = k - 1
    BY <1>3
  <2>4. f[k] \in S /\ Cardinality({y \in S : AFast!Before(y, f[k])}) = k - 1
    BY <2>2, <2>3
  <2>5. QED
    BY <1>2, <2>4
<1>5. IsRanking(f, S, R)
  BY <1>3, <1>4 DEF IsRanking
<1>6. QED
  BY <1>1, <1>5, RankingInOrder DEF f, R

\* A slope that is neither vertical nor of a point to itself.
Fraction(s) == s = <<s[1], s[2]>> /\ Lowest(s[1], s[2])

\* Vertical is the steepest slope, that of a point to itself the flattest; fractions
\* compare as such.
LEMMA SteeperIs ==
  ASSUME NEW s, NEW t, IsSlope(s), IsSlope(t)
  PROVE  AFast!SteeperThan(s, t) <=>
           \/ s = Vertical /\ t # Vertical
           \/ s # NoSlope /\ t = NoSlope
           \/ Fraction(s) /\ Fraction(t) /\ s[1] * t[2] > t[1] * s[2]
<1>1. Vertical # NoSlope /\ ~Fraction(Vertical) /\ ~Fraction(NoSlope)
  BY DEF Vertical, NoSlope, Fraction, Lowest
<1>2. \A u : IsSlope(u) => u \in {Vertical, NoSlope} \/ Fraction(u)
  BY DEF IsSlope, Fraction
<1>3. \A u : Fraction(u) => u[1] \in Int /\ u[2] \in Nat \ {0}
  BY DEF Fraction, Lowest
<1>4. Vertical[1] = 1 /\ Vertical[2] = 0 /\ NoSlope[1] = -1 /\ NoSlope[2] = 0
  BY DEF Vertical, NoSlope
<1>5. CASE Fraction(s) /\ Fraction(t)
  <2>1. s[2] # 0
    BY <1>3, <1>5
  <2>2. s \notin {Vertical, NoSlope} /\ t \notin {Vertical, NoSlope}
    BY <1>1, <1>5
  <2>3. QED
    BY <1>5, <2>1, <2>2 DEF AFast!SteeperThan
<1>6. CASE Fraction(s) /\ t = Vertical
  <2>1. s[1] \in Int /\ s[2] \in Nat \ {0} /\ t[1] = 1 /\ t[2] = 0 /\ s # t
    BY <1>1, <1>3, <1>4, <1>6
  <2>2. ~AFast!SteeperThan(s, t)
    BY <2>1 DEF AFast!SteeperThan
  <2>3. QED
    BY <1>1, <1>6, <2>2
<1>7. CASE Fraction(s) /\ t = NoSlope
  <2>1. s[1] \in Int /\ s[2] \in Nat \ {0} /\ t[1] = -1 /\ t[2] = 0 /\ s # t
    BY <1>1, <1>3, <1>4, <1>7
  <2>2. AFast!SteeperThan(s, t)
    BY <2>1 DEF AFast!SteeperThan
  <2>3. QED
    BY <1>7, <2>1, <2>2
<1>8. CASE s = Vertical /\ Fraction(t)
  <2>1. t[1] \in Int /\ t[2] \in Nat \ {0} /\ s[1] = 1 /\ s[2] = 0 /\ s # t
    BY <1>1, <1>3, <1>4, <1>8
  <2>2. AFast!SteeperThan(s, t)
    BY <2>1 DEF AFast!SteeperThan
  <2>3. QED
    BY <1>8, <2>1, <2>2
<1>9. CASE s = NoSlope /\ Fraction(t)
  <2>1. t[1] \in Int /\ t[2] \in Nat \ {0} /\ s[1] = -1 /\ s[2] = 0 /\ s # t
    BY <1>1, <1>3, <1>4, <1>9
  <2>2. ~AFast!SteeperThan(s, t)
    BY <2>1 DEF AFast!SteeperThan
  <2>3. QED
    BY <1>1, <1>9, <2>2
<1>10. CASE s \in {Vertical, NoSlope} /\ t \in {Vertical, NoSlope}
  <2>1. AFast!SteeperThan(s, t) <=> s[1] > t[1]
    BY <1>4, <1>10 DEF AFast!SteeperThan
  <2>2. QED
    BY <1>1, <1>4, <1>10, <2>1
<1>11. QED
  BY <1>2, <1>5, <1>6, <1>7, <1>8, <1>9, <1>10

\* Of two slopes one is steeper.
LEMMA SteeperOne ==
  ASSUME NEW s, NEW t, IsSlope(s), IsSlope(t)
  PROVE  /\ ~AFast!SteeperThan(s, s)
         /\ s # t => AFast!SteeperThan(s, t) \/ AFast!SteeperThan(t, s)
<1>1. \A u : Fraction(u) => u = <<u[1], u[2]>> /\ Lowest(u[1], u[2]) /\ u[1] \in Int /\ u[2] \in Int
  BY DEF Fraction, Lowest
<1>2. Fraction(s) => ~(s[1] * s[2] > s[1] * s[2])
  <2>1. Fraction(s) => s[1] * s[2] \in Int
    BY <1>1
  <2>2. QED
    BY <2>1
<1>3. ASSUME Fraction(s), Fraction(t), s # t
      PROVE  s[1] * t[2] > t[1] * s[2] \/ t[1] * s[2] > s[1] * t[2]
  <2>1. s[1] * t[2] # t[1] * s[2]
    <3>1. SUFFICES ASSUME s[1] * t[2] = t[1] * s[2] PROVE FALSE
      OBVIOUS
    <3>2. s[1] = t[1] /\ s[2] = t[2]
      BY <1>1, <1>3, <3>1, LowestIsUnique
    <3>3. QED
      BY <1>1, <1>3, <3>2
  <2>2. s[1] * t[2] \in Int /\ t[1] * s[2] \in Int
    BY <1>1, <1>3
  <2>3. QED
    BY <2>1, <2>2
<1>4. /\ s \in {Vertical, NoSlope} \/ Fraction(s)
      /\ t \in {Vertical, NoSlope} \/ Fraction(t)
  BY DEF IsSlope, Fraction
<1>5. Vertical # NoSlope
  BY DEF Vertical, NoSlope
<1>6. ~AFast!SteeperThan(s, s)
  BY <1>2, <1>5, SteeperIs
<1>7. AFast!SteeperThan(t, s) <=>
        \/ t = Vertical /\ s # Vertical
        \/ t # NoSlope /\ s = NoSlope
        \/ Fraction(t) /\ Fraction(s) /\ t[1] * s[2] > s[1] * t[2]
  BY SteeperIs
<1>8. AFast!SteeperThan(s, t) <=>
        \/ s = Vertical /\ t # Vertical
        \/ s # NoSlope /\ t = NoSlope
        \/ Fraction(s) /\ Fraction(t) /\ s[1] * t[2] > t[1] * s[2]
  BY SteeperIs
<1>9. s # t => AFast!SteeperThan(s, t) \/ AFast!SteeperThan(t, s)
  <2> DEFINE X == s[1] * t[2] > t[1] * s[2]
             Y == t[1] * s[2] > s[1] * t[2]
  <2>1. /\ Fraction(s) /\ Fraction(t) /\ s # t => X \/ Y
        /\ X /\ Fraction(s) /\ Fraction(t) => AFast!SteeperThan(s, t)
        /\ Y /\ Fraction(s) /\ Fraction(t) => AFast!SteeperThan(t, s)
    BY <1>3, <1>7, <1>8
  <2> HIDE DEF X, Y
  <2>2. CASE Fraction(s) /\ Fraction(t)
    BY <2>1, <2>2
  <2>3. CASE ~(Fraction(s) /\ Fraction(t))
    <3>1. \/ s = Vertical /\ t # Vertical
          \/ s # NoSlope /\ t = NoSlope
          \/ t = Vertical /\ s # Vertical
          \/ t # NoSlope /\ s = NoSlope
          \/ s = t
      BY <1>4, <2>3
    <3>2. QED
      BY <1>7, <1>8, <3>1
  <2>4. QED
    BY <2>2, <2>3
<1>10. QED
  BY <1>6, <1>9

\* Fractions in order.
LEMMA CrossOnward ==
  ASSUME NEW a \in Int, NEW b \in Nat \ {0}, NEW c \in Int, NEW d \in Nat \ {0},
         NEW e \in Int, NEW f \in Nat \ {0}, a * d > c * b, c * f > e * d
  PROVE  a * f > e * b
<1>1. /\ a * d \in Int /\ c * b \in Int /\ c * f \in Int /\ e * d \in Int
      /\ a * f \in Int /\ e * b \in Int
  BY SMTT(20)
<1>2. (c * b) * f < (a * d) * f
  BY <1>1, FactorOutLess
<1>3. (e * d) * b < (c * f) * b
  BY <1>1, FactorOutLess
<1>4. (c * b) * f = (c * f) * b /\ (a * d) * f = (a * f) * d /\ (e * d) * b = (e * b) * d
  BY SMTT(20)
<1>5. (e * b) * d < (a * f) * d
  <2>1. (a * f) * d \in Int /\ (e * b) * d \in Int /\ (c * f) * b \in Int
    BY <1>1, SMTT(20)
  <2>2. QED
    BY <1>2, <1>3, <1>4, <2>1
<1>6. e * b < a * f
  BY <1>1, <1>5, FactorOutLess
<1>7. QED
  BY <1>1, <1>6

\* What is steeper than a steeper slope is steeper.
LEMMA SteeperOnward ==
  ASSUME NEW s, NEW t, NEW u, IsSlope(s), IsSlope(t), IsSlope(u),
         AFast!SteeperThan(s, t), AFast!SteeperThan(t, u)
  PROVE  AFast!SteeperThan(s, u)
<1>1. \A x : Fraction(x) => x[1] \in Int /\ x[2] \in Nat \ {0}
  BY DEF Fraction, Lowest
<1>2. Vertical # NoSlope /\ ~Fraction(Vertical) /\ ~Fraction(NoSlope)
  BY DEF Vertical, NoSlope, Fraction, Lowest
<1>3. ASSUME Fraction(s), Fraction(t), Fraction(u),
             s[1] * t[2] > t[1] * s[2], t[1] * u[2] > u[1] * t[2]
      PROVE  s[1] * u[2] > u[1] * s[2]
  BY <1>1, <1>3, CrossOnward
<1>4. \/ s = Vertical /\ t # Vertical
      \/ s # NoSlope /\ t = NoSlope
      \/ Fraction(s) /\ Fraction(t) /\ s[1] * t[2] > t[1] * s[2]
  BY SteeperIs
<1>5. \/ t = Vertical /\ u # Vertical
      \/ t # NoSlope /\ u = NoSlope
      \/ Fraction(t) /\ Fraction(u) /\ t[1] * u[2] > u[1] * t[2]
  BY SteeperIs
<1>6. \/ s = Vertical /\ u # Vertical
      \/ s # NoSlope /\ u = NoSlope
      \/ Fraction(s) /\ Fraction(u) /\ s[1] * u[2] > u[1] * s[2]
  BY <1>2, <1>3, <1>4, <1>5
<1>7. QED
  BY <1>6, SteeperIs

\* Any two points have a slope.
LEMMA SlopeTyped ==
  ASSUME NEW p \in Plane, NEW q \in Plane
  PROVE  /\ IsSlope(AFast!Slope(p, q)) /\ AFast!Slope(p, q) \in Int \X Int
         /\ AFast!Slope(p, q) = NoSlope <=> p = q
<1>1. CASE p = q
  <2>1. q[1] - p[1] = 0
    BY <1>1, InPlane
  <2>2. AFast!Slope(p, q) = NoSlope
    BY <1>1, <2>1 DEF AFast!Slope, NoSlope
  <2>3. QED
    BY <1>1, <2>2 DEF IsSlope, NoSlope
<1>2. CASE p # q
  <2>1. IsSlope(AFast!Slope(p, q)) /\ AFast!Slope(p, q) # NoSlope
    BY <1>2, SlopeIs DEF SlopeFits
  <2>2. \A s : IsSlope(s) => s \in Int \X Int
    BY DEF IsSlope, Vertical, NoSlope, Lowest
  <2>3. QED
    BY <1>2, <2>1, <2>2
<1>3. QED
  BY <1>1, <1>2

\* The order of the points of A by their slope to n, by their place
FlatterIn(A, n, S) ==
  {r \in S \X S : \/ AFast!SteeperThan(AFast!Slope(n, A[r[2]]), AFast!Slope(n, A[r[1]]))
                  \/ AFast!Slope(n, A[r[1]]) = AFast!Slope(n, A[r[2]]) /\ r[1] < r[2]}

\* is a strict order.
LEMMA FlatterOrders ==
  ASSUME NEW A, NEW n \in Plane, NEW S \in SUBSET Nat, \A i \in S : A[i] \in Plane
  PROVE  StrictOrder(S, FlatterIn(A, n, S))
<1> DEFINE R == FlatterIn(A, n, S)
           F(i) == AFast!Slope(n, A[i])
<1>1. \A i, j \in S :
        <<i, j>> \in R <=> (AFast!SteeperThan(F(j), F(i)) \/ (F(i) = F(j) /\ i < j))
  BY DEF FlatterIn
<1>2. \A i \in S : IsSlope(F(i)) /\ i \in Nat
  BY SlopeTyped
<1> HIDE DEF R, F
<1>3. ASSUME NEW i \in S PROVE <<i, i>> \notin R
  <2>1. ~AFast!SteeperThan(F(i), F(i)) /\ ~(i < i)
    BY <1>2, SteeperOne
  <2>2. QED
    BY <1>1, <2>1
<1>4. ASSUME NEW i \in S, NEW j \in S, NEW k \in S, <<i, j>> \in R, <<j, k>> \in R
      PROVE  <<i, k>> \in R
  <2>1. /\ AFast!SteeperThan(F(j), F(i)) \/ (F(i) = F(j) /\ i < j)
        /\ AFast!SteeperThan(F(k), F(j)) \/ (F(j) = F(k) /\ j < k)
    BY <1>1, <1>4
  <2>2. CASE AFast!SteeperThan(F(j), F(i)) /\ AFast!SteeperThan(F(k), F(j))
    <3>1. AFast!SteeperThan(F(k), F(i))
      BY <1>2, <2>2, SteeperOnward
    <3>2. QED
      BY <1>1, <3>1
  <2>3. CASE F(i) = F(j) /\ i < j /\ F(j) = F(k) /\ j < k
    <3>1. i < k
      BY <1>2, <2>3
    <3>2. QED
      BY <1>1, <2>3, <3>1
  <2>4. CASE AFast!SteeperThan(F(j), F(i)) /\ F(j) = F(k)
    BY <1>1, <2>4
  <2>5. CASE F(i) = F(j) /\ AFast!SteeperThan(F(k), F(j))
    BY <1>1, <2>5
  <2>6. QED
    BY <2>1, <2>2, <2>3, <2>4, <2>5
<1>5. ASSUME NEW i \in S, NEW j \in S, i # j PROVE <<i, j>> \in R \/ <<j, i>> \in R
  <2>1. F(i) # F(j) => AFast!SteeperThan(F(i), F(j)) \/ AFast!SteeperThan(F(j), F(i))
    BY <1>2, SteeperOne
  <2>2. i < j \/ j < i
    BY <1>2, <1>5
  <2>3. QED
    BY <1>1, <2>1, <2>2
<1>6. StrictOrder(S, R)
  BY <1>3, <1>4, <1>5 DEF StrictOrder
<1>7. QED
  BY <1>6 DEF R

\* b is what A has from place i on, by slope to n: each of these points once, and
\* those of the same slope together.
BySlopeTo(A, i, n, b) ==
  /\ b = [k \in DOMAIN b |-> b[k]] /\ \E d \in Nat : DOMAIN b = 1..d
  /\ \A k \in DOMAIN b : \E j \in i..Len(A) : b[k] = A[j]
  /\ \A j \in i..Len(A) : \E k \in DOMAIN b : b[k] = A[j]
  /\ \A k, l \in DOMAIN b : b[k] = b[l] => k = l
  /\ \A k, l, m \in DOMAIN b :
       k < l /\ l < m /\ AFast!Slope(n, b[k]) = AFast!Slope(n, b[m])
         => AFast!Slope(n, b[l]) = AFast!Slope(n, b[k])

\* A sequence of points, each once.
PointSequence(A) == /\ \E d \in Nat : DOMAIN A = 1..d
                    /\ Len(A) \in Nat /\ DOMAIN A = 1..Len(A)
                    /\ \A k \in DOMAIN A : A[k] \in Plane
                    /\ \A k, l \in DOMAIN A : A[k] = A[l] => k = l

\* Places in order are points in order.
LEMMA OrderedBySlope ==
  ASSUME NEW A, PointSequence(A), NEW i \in 1..Len(A), NEW n \in Plane,
         NEW f, InOrder(f, i..Len(A), FlatterIn(A, n, i..Len(A)))
  PROVE  BySlopeTo(A, i, n, [k \in DOMAIN f |-> A[f[k]]])
<1> DEFINE S == i..Len(A)
           R == FlatterIn(A, n, S)
           b == [k \in DOMAIN f |-> A[f[k]]]
           F(j) == AFast!Slope(n, A[j])
<1>1. /\ DOMAIN f = 1..Cardinality(S) /\ \A k \in DOMAIN f : f[k] \in S
      /\ \A j \in S : \E k \in DOMAIN f : f[k] = j
      /\ \A k, l \in DOMAIN f : k < l => <<f[k], f[l]>> \in R
      /\ \A k, l \in DOMAIN f : f[k] = f[l] => k = l
  BY DEF InOrder
<1>2. Len(A) \in Nat /\ DOMAIN A = 1..Len(A) /\ S \subseteq DOMAIN A /\ i \in Nat
  BY DEF PointSequence
<1>3. Cardinality(S) \in Nat
  BY <1>2, FS_Interval, FS_CardinalityType
<1>4. \A j \in S : A[j] \in Plane /\ IsSlope(F(j))
  BY <1>2, SlopeTyped DEF PointSequence
<1>5. \A j, k \in S : <<j, k>> \in R => AFast!SteeperThan(F(k), F(j)) \/ F(j) = F(k)
  BY DEF FlatterIn
<1>6. DOMAIN b = DOMAIN f /\ \A k \in DOMAIN f : b[k] = A[f[k]] /\ AFast!Slope(n, b[k]) = F(f[k])
  OBVIOUS
<1> HIDE DEF S, R, b, F
<1>7. ASSUME NEW k \in DOMAIN b, NEW l \in DOMAIN b, b[k] = b[l] PROVE k = l
  <2>1. f[k] \in DOMAIN A /\ f[l] \in DOMAIN A /\ A[f[k]] = A[f[l]]
    BY <1>1, <1>2, <1>6, <1>7
  <2>2. f[k] = f[l]
    BY <2>1 DEF PointSequence
  <2>3. QED
    BY <1>1, <1>6, <2>2
<1>8. ASSUME NEW k \in DOMAIN b, NEW l \in DOMAIN b, NEW m \in DOMAIN b, k < l, l < m,
             AFast!Slope(n, b[k]) = AFast!Slope(n, b[m])
      PROVE  AFast!Slope(n, b[l]) = AFast!Slope(n, b[k])
  <2>1. /\ f[k] \in S /\ f[l] \in S /\ f[m] \in S
        /\ <<f[k], f[l]>> \in R /\ <<f[l], f[m]>> \in R
    BY <1>1, <1>6, <1>8
  <2>2. F(f[k]) = F(f[m])
    BY <1>6, <1>8
  <2>3. /\ AFast!SteeperThan(F(f[l]), F(f[k])) \/ F(f[k]) = F(f[l])
        /\ AFast!SteeperThan(F(f[m]), F(f[l])) \/ F(f[l]) = F(f[m])
    BY <1>5, <2>1
  <2>4. ~(AFast!SteeperThan(F(f[l]), F(f[k])) /\ AFast!SteeperThan(F(f[m]), F(f[l])))
    <3>1. IsSlope(F(f[k])) /\ IsSlope(F(f[l])) /\ IsSlope(F(f[m]))
      BY <1>4, <2>1
    <3>2. ~AFast!SteeperThan(F(f[m]), F(f[k]))
      BY <2>2, <3>1, SteeperOne
    <3>3. QED
      BY <3>1, <3>2, SteeperOnward
  <2>5. F(f[l]) = F(f[k])
    BY <2>2, <2>3, <2>4
  <2>6. QED
    BY <1>6, <2>5
<1>9. \A k \in DOMAIN b : \E j \in S : b[k] = A[j]
  BY <1>1, <1>6
<1>10. \A j \in S : \E k \in DOMAIN b : b[k] = A[j]
  BY <1>1, <1>6
<1>11. \E d \in Nat : DOMAIN b = 1..d
  BY <1>1, <1>3, <1>6
<1>12. BySlopeTo(A, i, n, b)
  <2>1. b = [k \in DOMAIN b |-> b[k]]
    BY DEF b
  <2>2. QED
    BY <1>7, <1>8, <1>9, <1>10, <1>11, <2>1 DEF BySlopeTo, S
<1>13. QED
  BY <1>12 DEF b

\* The sort of Fast.java does that.
LEMMA SortedBySlope ==
  ASSUME PointSequence(data), cursor \in 1..Len(data)
  PROVE  BySlopeTo(data, cursor, data[cursor], AFast!BySlope)
<1> DEFINE S == cursor..Len(data)
           n == data[cursor]
           R == FlatterIn(data, n, S)
           Flatter(i, j) == \/ AFast!SteeperThan(AFast!Slope(n, data[j]), AFast!Slope(n, data[i]))
                            \/ AFast!Slope(n, data[i]) = AFast!Slope(n, data[j]) /\ i < j
           f == [k \in 1..Cardinality(S) |->
                   CHOOSE x \in S : Cardinality({y \in S : Flatter(y, x)}) = k - 1]
<1>1. /\ Len(data) \in Nat /\ cursor \in Nat /\ S \in SUBSET Nat /\ IsFiniteSet(S)
      /\ n \in Plane /\ \A j \in S : data[j] \in Plane
  <2>1. Len(data) \in Nat /\ DOMAIN data = 1..Len(data) /\ \A k \in DOMAIN data : data[k] \in Plane
    BY DEF PointSequence
  <2>2. IsFiniteSet(S)
    BY <2>1, FS_Interval
  <2>3. QED
    BY <2>1, <2>2
<1>2. AFast!BySlope = [k \in DOMAIN f |-> data[f[k]]]
  <2>1. AFast!BySlope =
          LET order == [k \in 1..AFast!Cardinality(S) |->
                          CHOOSE x \in S : AFast!Cardinality({y \in S : Flatter(y, x)}) = k - 1]
          IN [k \in DOMAIN order |-> data[order[k]]]
    BY DEF AFast!BySlope, AFast!Ranked, AFast!n
  <2>2. QED
    BY <2>1 DEF AFast!Cardinality, Cardinality
<1>3. StrictOrder(S, R)
  <2> HIDE DEF S, n
  <2>1. QED
    BY <1>1, FlatterOrders
<1>4. \A x \in S : {y \in S : Flatter(y, x)} = Earlier(S, R, x)
  BY DEF Earlier, FlatterIn
<1>5. DOMAIN f = 1..Cardinality(S) /\ \A k \in 1..Cardinality(S) :
        f[k] = CHOOSE x \in S : Cardinality({y \in S : Flatter(y, x)}) = k - 1
  OBVIOUS
<1> HIDE DEF Flatter, R, S, f, n
<1>6. ASSUME NEW k \in 1..Cardinality(S)
      PROVE  f[k] \in S /\ Cardinality(Earlier(S, R, f[k])) = k - 1
  <2>1. \E x \in S : Cardinality(Earlier(S, R, x)) = k - 1
    BY <1>1, <1>3, RankTaken
  <2>2. \E x \in S : Cardinality({y \in S : Flatter(y, x)}) = k - 1
    BY <1>4, <2>1
  <2>3. f[k] = CHOOSE x \in S : Cardinality({y \in S : Flatter(y, x)}) = k - 1
    BY <1>5
  <2>4. f[k] \in S /\ Cardinality({y \in S : Flatter(y, f[k])}) = k - 1
    BY <2>2, <2>3
  <2>5. QED
    BY <1>4, <2>4
<1>7. IsRanking(f, S, R)
  BY <1>5, <1>6 DEF IsRanking
<1>8. InOrder(f, S, R)
  BY <1>1, <1>3, <1>7, RankingInOrder
<1>9. BySlopeTo(data, cursor, n, [k \in DOMAIN f |-> data[f[k]]])
  BY <1>1, <1>8, OrderedBySlope DEF S, R
<1>10. QED
  BY <1>2, <1>9 DEF n

-----------------------------------------------------------------------------
(* Lines.                                                                  *)

\* The points of P in one direction from p, and p.
Through(P, p, s) == {p} \cup {q \in P \ {p} : AFast!Slope(p, q) = s}

\* They are a line from whichever of them it is seen.
LEMMA ThroughAny ==
  ASSUME NEW P \in SUBSET Plane, NEW p \in P, NEW s, NEW q \in Through(P, p, s)
  PROVE  q \in P /\ Through(P, q, s) = Through(P, p, s)
<1>1. ASSUME NEW x \in P, NEW y \in P, x # y, AFast!Slope(x, y) = s
      PROVE  Through(P, x, s) \subseteq Through(P, y, s)
  <2>1. AFast!Slope(y, x) = s
    BY <1>1, SlopeBack
  <2>2. ASSUME NEW r \in P, r # x, r # y, AFast!Slope(x, r) = s
        PROVE  AFast!Slope(y, r) = s
    BY <1>1, <2>2, SlopeOnward
  <2>3. QED
    BY <1>1, <2>1, <2>2 DEF Through
<1>2. CASE q = p
  BY <1>2
<1>3. CASE q # p
  <2>1. q \in P /\ AFast!Slope(p, q) = s
    BY <1>3 DEF Through
  <2>2. AFast!Slope(q, p) = s
    BY <1>3, <2>1, SlopeBack
  <2>3. QED
    BY <1>1, <1>3, <2>1, <2>2
<1>4. QED
  BY <1>2, <1>3

\* The lines of P as Fast.tla has them are these.
IsLine(P, l) == \E p \in P, q \in P : /\ p # q /\ l = Through(P, p, AFast!Slope(p, q))
                                      /\ Cardinality(l) >= 4

\* A line of Fast.tla is one that two points have and four or more are on.
LEMMA LinesAre ==
  ASSUME NEW P
  PROVE  \A l : l \in AFast!Lines(P) <=> IsLine(P, l)
<1>1. ASSUME NEW p \in P, NEW q \in P, p # q
      PROVE  AFast!LineThrough(P, p, q) = Through(P, p, AFast!Slope(p, q))
  BY <1>1 DEF AFast!LineThrough, Through
<1>2. ASSUME NEW l
      PROVE  l \in AFast!Lines(P) <=>
               \E p \in P, q \in P : p # q /\ l = AFast!LineThrough(P, p, q) /\ Cardinality(l) >= 4
  <2>1. l \in AFast!Lines(P) <=>
          /\ \E s \in {t \in P \X P : t[1] # t[2]} : l = AFast!LineThrough(P, s[1], s[2])
          /\ Cardinality(l) >= 4
    BY FastCounts DEF AFast!Lines
  <2> DEFINE T(p, q) == AFast!LineThrough(P, p, q)
  <2> HIDE DEF T
  <2>2. (\E s \in {t \in P \X P : t[1] # t[2]} : l = T(s[1], s[2]))
          <=> \E p \in P, q \in P : p # q /\ l = T(p, q)
    <3>1. ASSUME NEW p \in P, NEW q \in P, p # q, l = T(p, q)
          PROVE  \E s \in {t \in P \X P : t[1] # t[2]} : l = T(s[1], s[2])
      <4>1. <<p, q>> \in {t \in P \X P : t[1] # t[2]} /\ l = T(<<p, q>>[1], <<p, q>>[2])
        BY <3>1
      <4>2. QED
        BY <4>1
    <3>2. ASSUME NEW s \in {t \in P \X P : t[1] # t[2]}, l = T(s[1], s[2])
          PROVE  \E p \in P, q \in P : p # q /\ l = T(p, q)
      <4>1. s[1] \in P /\ s[2] \in P /\ s[1] # s[2]
        OBVIOUS
      <4>2. QED
        BY <3>2, <4>1
    <3>3. QED
      BY <3>1, <3>2
  <2>3. QED
    BY <2>1, <2>2 DEF T
<1>3. ASSUME NEW l
      PROVE  (\E p \in P, q \in P : p # q /\ l = AFast!LineThrough(P, p, q) /\ Cardinality(l) >= 4)
               <=> IsLine(P, l)
  BY <1>1 DEF IsLine
<1>4. QED
  BY <1>2, <1>3

\* A line in the eyes of one of its points.
LEMMA LineFrom ==
  ASSUME NEW P \in SUBSET Plane, NEW l, IsLine(P, l), NEW n \in l
  PROVE  n \in P /\ \E q \in P \ {n} : l = Through(P, n, AFast!Slope(n, q))
<1>1. PICK p \in P, q \in P : p # q /\ l = Through(P, p, AFast!Slope(p, q))
  BY DEF IsLine
<1>2. n \in P /\ l = Through(P, n, AFast!Slope(p, q))
  BY <1>1, ThroughAny
<1>3. CASE n = p
  BY <1>1, <1>3
<1>4. CASE n # p
  <2>1. AFast!Slope(p, n) = AFast!Slope(p, q)
    BY <1>1, <1>4 DEF Through
  <2>2. AFast!Slope(n, p) = AFast!Slope(p, q)
    BY <1>2, <1>4, <2>1, SlopeBack
  <2>3. QED
    BY <1>1, <1>2, <1>4, <2>2
<1>5. QED
  BY <1>3, <1>4

\* What is in a set of three has no four points.
LEMMA AtMostThree ==
  ASSUME NEW a, NEW b, NEW c, NEW T, T \subseteq {a, b, c}
  PROVE  Cardinality(T) <= 3
<1>1. IsFiniteSet({a}) /\ Cardinality({a}) = 1
  BY FS_Singleton
<1>2. /\ IsFiniteSet({a} \cup {b})
      /\ Cardinality({a} \cup {b}) <= 2 /\ Cardinality({a} \cup {b}) \in Nat
  BY <1>1, FS_AddElement
<1> DEFINE U == {a} \cup {b}
<1> HIDE DEF U
<1>3. IsFiniteSet(U \cup {c}) /\ Cardinality(U \cup {c}) <= 3 /\ Cardinality(U \cup {c}) \in Nat
  BY <1>2, FS_AddElement DEF U
<1>4. T \subseteq U \cup {c}
  BY DEF U
<1>5. Cardinality(T) <= Cardinality(U \cup {c}) /\ Cardinality(T) \in Nat
  BY <1>3, <1>4, FS_Subset, FS_CardinalityType
<1>6. QED
  BY <1>3, <1>5

\* Four different points are four.
LEMMA AtLeastFour ==
  ASSUME NEW T, IsFiniteSet(T), NEW a \in T, NEW b \in T, NEW c \in T, NEW d \in T,
         a # b, a # c, a # d, b # c, b # d, c # d
  PROVE  Cardinality(T) >= 4
<1>1. IsFiniteSet({a}) /\ Cardinality({a}) = 1
  BY FS_Singleton
<1> DEFINE U == {a} \cup {b}
           V == U \cup {c}
           W == V \cup {d}
<1>2. IsFiniteSet(U) /\ Cardinality(U) = 2
  <2>1. b \notin {a}
    OBVIOUS
  <2>2. IsFiniteSet({a} \cup {b}) /\ Cardinality({a} \cup {b}) = Cardinality({a}) + 1
    BY <1>1, <2>1, FS_AddElement, Zenon
  <2>3. QED
    BY <1>1, <2>2
<1>3. c \notin U /\ d \notin V /\ W \subseteq T
  OBVIOUS
<1> HIDE DEF U
<1>4. IsFiniteSet(V) /\ Cardinality(V) = 3
  BY <1>2, <1>3, FS_AddElement
<1> HIDE DEF V
<1>5. IsFiniteSet(W) /\ Cardinality(W) = 4
  BY <1>3, <1>4, FS_AddElement
<1> HIDE DEF W
<1>6. Cardinality(W) <= Cardinality(T) /\ Cardinality(T) \in Nat
  BY <1>3, FS_Subset, FS_CardinalityType
<1>7. QED
  BY <1>5, <1>6

-----------------------------------------------------------------------------
(* The runs that a point finds are its lines that no earlier point is on.  *)

\* The points of the file, without their order.
PointsOf(A) == {A[k] : k \in DOMAIN A}

\* A point of l comes before place i.
Seen(A, i, l) == \E j \in 1..(i - 1) : A[j] \in l

\* K has those slopes of p's lines that earlier points have found.
KnowsLines(A, i, p, K) ==
  \A q \in PointsOf(A) \ {p} :
    LET l == Through(PointsOf(A), p, AFast!Slope(p, q))
    IN AFast!Slope(p, q) \in K <=> Cardinality(l) >= 4 /\ Seen(A, i, l)

\* The line is for the i-th point to find.
NewLine(A, i, l) == IsLine(PointsOf(A), l) /\ A[i] \in l /\ ~Seen(A, i, l)

\* Known and Runs of Fast.tla, with what they depend on.
Alike(b, n, K, i, j) ==
  AFast!Slope(n, b[j]) \notin K /\ AFast!Slope(n, b[j]) = AFast!Slope(n, b[i])

\* First and last place of every run of three or more points.
RunsOf(b, n, K) ==
  {r \in (DOMAIN b) \X (DOMAIN b) :
     /\ r[2] >= r[1] + 2
     /\ \A j \in r[1]..r[2] : Alike(b, n, K, r[1], j)
     /\ r[1] - 1 \in DOMAIN b => ~Alike(b, n, K, r[1], r[1] - 1)
     /\ r[2] + 1 \in DOMAIN b => ~Alike(b, n, K, r[1], r[2] + 1)}

\* The points of a run, and n.
RunSet(n, b, r) == {n} \cup {b[j] : j \in r[1]..r[2]}

\* The i-th point looks for lines.
Seeking(A, i, b, K) == /\ PointSequence(A) /\ i \in 1..Len(A) /\ i \in Nat
                       /\ BySlopeTo(A, i, A[i], b) /\ KnowsLines(A, i, A[i], K)

\* What the points are.
LEMMA PointsAre ==
  ASSUME NEW A, PointSequence(A)
  PROVE  /\ PointsOf(A) \in SUBSET Plane /\ IsFiniteSet(PointsOf(A))
         /\ \A k \in 1..Len(A) : A[k] \in PointsOf(A)
         /\ \A p \in PointsOf(A) : \E k \in 1..Len(A) : p = A[k]
<1>1. /\ Len(A) \in Nat /\ DOMAIN A = 1..Len(A)
      /\ \A k \in DOMAIN A : A[k] \in Plane
  BY DEF PointSequence
<1> DEFINE f == [k \in 1..Len(A) |-> A[k]]
<1>2. f \in Surjection(1..Len(A), PointsOf(A))
  BY <1>1 DEF Surjection, PointsOf
<1>3. IsFiniteSet(1..Len(A))
  BY <1>1, FS_Interval
<1> HIDE DEF f
<1>4. IsFiniteSet(PointsOf(A))
  BY <1>2, <1>3, FS_Surjection
<1>5. QED
  BY <1>1, <1>4 DEF PointsOf

\* A run has all points of its slope, which is not n's own and not known.
RunFits(A, b, n, K, r) ==
  /\ r[1] \in Nat /\ r[2] \in Nat /\ r[2] >= r[1] + 2 /\ r[1]..r[2] \subseteq DOMAIN b
  /\ r = <<r[1], r[2]>>
  /\ b[r[1]] \in PointsOf(A) \ {n} /\ AFast!Slope(n, b[r[1]]) \notin K
  /\ \A k \in DOMAIN b : AFast!Slope(n, b[k]) = AFast!Slope(n, b[r[1]]) <=> k \in r[1]..r[2]

\* The points are sorted by slope, so that those of a run have no others of their
\* slope around them.
LEMMA RunShape ==
  ASSUME NEW A, NEW i, NEW b, NEW K, Seeking(A, i, b, K), NEW r \in RunsOf(b, A[i], K)
  PROVE  RunFits(A, b, A[i], K, r)
<1> DEFINE n == A[i]
           F(k) == AFast!Slope(n, b[k])
<1>1. PICK d \in Nat : DOMAIN b = 1..d
  BY DEF Seeking, BySlopeTo
<1>2. /\ r[1] \in 1..d /\ r[2] \in 1..d /\ r[2] >= r[1] + 2 /\ r = <<r[1], r[2]>>
      /\ \A j \in r[1]..r[2] : F(j) \notin K /\ F(j) = F(r[1])
      /\ r[1] - 1 \in 1..d => ~(F(r[1] - 1) \notin K /\ F(r[1] - 1) = F(r[1]))
      /\ r[2] + 1 \in 1..d => ~(F(r[2] + 1) \notin K /\ F(r[2] + 1) = F(r[1]))
  BY <1>1 DEF RunsOf, Alike
<1>3. \A k, l, m \in 1..d : k < l /\ l < m /\ F(k) = F(m) => F(l) = F(k)
  BY <1>1 DEF Seeking, BySlopeTo
<1>4. \A k \in 1..d : b[k] \in PointsOf(A) /\ b[k] \in Plane
  <2>1. PointSequence(A) /\ i \in 1..Len(A) /\ Len(A) \in Nat
    BY DEF Seeking, PointSequence
  <2>2. \A k \in 1..d : \E j \in 1..Len(A) : b[k] = A[j]
    <3>1. \A k \in 1..d : \E j \in i..Len(A) : b[k] = A[j]
      BY <1>1 DEF Seeking, BySlopeTo
    <3>2. i..Len(A) \subseteq 1..Len(A)
      BY <2>1
    <3>3. QED
      BY <3>1, <3>2
  <2>3. QED
    BY <2>1, <2>2, PointsAre
<1>5. n \in Plane /\ \A k, l \in 1..d : b[k] = b[l] => k = l
  BY <1>1, PointsAre DEF Seeking, BySlopeTo
<1> HIDE DEF n, F
<1>6. ASSUME NEW k \in 1..d, F(k) = F(r[1]) PROVE k \in r[1]..r[2]
  <2>1. F(r[1]) \notin K /\ F(r[2]) = F(r[1])
    BY <1>2
  <2>2. CASE k < r[1]
    <3>1. r[1] - 1 \in 1..d /\ k <= r[1] - 1 /\ r[1] - 1 < r[1]
      BY <1>2, <2>2
    <3>2. F(r[1] - 1) = F(r[1])
      <4>1. CASE k = r[1] - 1
        BY <1>6, <4>1
      <4>2. CASE k < r[1] - 1
        BY <1>2, <1>3, <1>6, <3>1, <4>2
      <4>3. QED
        BY <3>1, <4>1, <4>2
    <3>3. QED
      BY <1>2, <2>1, <3>1, <3>2
  <2>3. CASE r[2] < k
    <3>1. r[2] + 1 \in 1..d /\ r[2] + 1 <= k /\ r[2] < r[2] + 1
      BY <1>2, <2>3
    <3>2. F(r[2] + 1) = F(r[1])
      <4>1. CASE k = r[2] + 1
        BY <1>6, <4>1
      <4>2. CASE r[2] + 1 < k
        <5>1. F(r[2]) = F(k)
          BY <1>6, <2>1
        <5>2. F(r[2] + 1) = F(r[2])
          BY <1>2, <1>3, <3>1, <4>2, <5>1
        <5>3. QED
          BY <2>1, <5>2
      <4>3. QED
        BY <3>1, <4>1, <4>2
    <3>3. QED
      BY <1>2, <2>1, <3>1, <3>2
  <2>4. QED
    BY <1>2, <2>2, <2>3
<1>7. b[r[1]] # n
  <2>1. SUFFICES ASSUME b[r[1]] = n PROVE FALSE
    OBVIOUS
  <2>2. r[1] + 1 \in r[1]..r[2] /\ r[1] + 1 \in 1..d /\ r[1] # r[1] + 1
    BY <1>2
  <2>3. F(r[1]) = NoSlope /\ F(r[1] + 1) = NoSlope
    BY <1>2, <1>5, <2>1, <2>2, SlopeTyped DEF F
  <2>4. b[r[1] + 1] = n
    BY <1>4, <1>5, <2>2, <2>3, SlopeTyped DEF F
  <2>5. QED
    BY <1>2, <1>5, <2>1, <2>2, <2>4
<1>8. \A k \in DOMAIN b : F(k) = F(r[1]) <=> k \in r[1]..r[2]
  BY <1>1, <1>2, <1>6
<1>9. r[1] \in r[1]..r[2] /\ r[1]..r[2] \subseteq DOMAIN b /\ r[1] \in Nat /\ r[2] \in Nat
  BY <1>1, <1>2
<1>10. F(r[1]) \notin K /\ b[r[1]] \in PointsOf(A) \ {n}
  BY <1>2, <1>4, <1>7, <1>9
<1>11. QED
  BY <1>2, <1>8, <1>9, <1>10 DEF RunFits, F, n

\* Such a run, with n, is a line for the i-th point to find.
LEMMA RunIsLine ==
  ASSUME NEW A, NEW i, NEW b, NEW K, Seeking(A, i, b, K), NEW r \in RunsOf(b, A[i], K)
  PROVE  /\ RunSet(A[i], b, r) = Through(PointsOf(A), A[i], AFast!Slope(A[i], b[r[1]]))
         /\ NewLine(A, i, RunSet(A[i], b, r))
<1> DEFINE n == A[i]
           P == PointsOf(A)
           s == AFast!Slope(n, b[r[1]])
           l == Through(P, n, s)
<1>1. RunFits(A, b, n, K, r)
  BY RunShape
<1>2. /\ r[1] \in Nat /\ r[2] \in Nat /\ r[2] >= r[1] + 2 /\ r[1]..r[2] \subseteq DOMAIN b
      /\ b[r[1]] \in P \ {n} /\ s \notin K
      /\ \A k \in DOMAIN b : AFast!Slope(n, b[k]) = s <=> k \in r[1]..r[2]
  BY <1>1 DEF RunFits
<1>3. /\ P \in SUBSET Plane /\ IsFiniteSet(P) /\ n \in P
      /\ \A p \in P : \E k \in 1..Len(A) : p = A[k]
  BY PointsAre DEF Seeking
<1>4. /\ \A k \in DOMAIN b : \E j \in i..Len(A) : b[k] = A[j]
      /\ \A j \in i..Len(A) : \E k \in DOMAIN b : b[k] = A[j]
      /\ \A k, m \in DOMAIN b : b[k] = b[m] => k = m
  BY DEF Seeking, BySlopeTo
<1>5. i \in Nat /\ i \in 1..Len(A) /\ Len(A) \in Nat
  BY DEF Seeking, PointSequence
<1>6. \A k \in DOMAIN b : b[k] \in P
  <2>1. i..Len(A) \subseteq 1..Len(A)
    BY <1>5
  <2>2. \A k \in DOMAIN b : \E j \in 1..Len(A) : b[k] = A[j]
    BY <1>4, <2>1
  <2>3. QED
    BY <2>2, PointsAre DEF Seeking
<1>7. s \in K <=> Cardinality(l) >= 4 /\ Seen(A, i, l)
  BY <1>2 DEF Seeking, KnowsLines
<1>8. s # NoSlope
  <2>1. b[r[1]] \in Plane /\ n \in Plane /\ b[r[1]] # n
    BY <1>2, <1>3
  <2>2. QED
    BY <2>1, SlopeTyped
<1>9. \A k \in r[1]..r[2] : b[k] \in P /\ b[k] # n /\ AFast!Slope(n, b[k]) = s
  <2>1. ASSUME NEW k \in r[1]..r[2] PROVE b[k] \in P /\ b[k] # n /\ AFast!Slope(n, b[k]) = s
    <3>1. k \in DOMAIN b /\ b[k] \in P /\ AFast!Slope(n, b[k]) = s
      BY <1>2, <1>6
    <3>2. AFast!Slope(n, n) = NoSlope
      BY <1>3, SlopeTyped
    <3>3. QED
      BY <1>8, <3>1, <3>2
  <2>2. QED
    BY <2>1
<1> HIDE DEF s
<1>10. \A k \in r[1]..r[2] : b[k] \in l
  BY <1>9 DEF Through
<1>11. Cardinality(l) >= 4
  <2> DEFINE x == b[r[1]]
             y == b[r[1] + 1]
             z == b[r[1] + 2]
  <2>1. r[1] \in r[1]..r[2] /\ r[1] + 1 \in r[1]..r[2] /\ r[1] + 2 \in r[1]..r[2]
    BY <1>2
  <2>2. x \in l /\ y \in l /\ z \in l /\ x # n /\ y # n /\ z # n
    BY <1>9, <1>10, <2>1
  <2>3. x # y /\ x # z /\ y # z
    <3>1. r[1] # r[1] + 1 /\ r[1] # r[1] + 2 /\ r[1] + 1 # r[1] + 2
      BY <1>2
    <3>2. QED
      BY <1>2, <1>4, <2>1, <3>1
  <2>4. n \in l /\ l \subseteq P
    BY <1>3 DEF Through
  <2>5. IsFiniteSet(l)
    BY <1>3, <2>4, FS_Subset
  <2> HIDE DEF x, y, z, n, l
  <2>6. QED
    BY <2>2, <2>3, <2>4, <2>5, AtLeastFour
<1>12. ~Seen(A, i, l)
  BY <1>2, <1>7, <1>11
<1>13. ASSUME NEW p \in l, p # n PROVE \E k \in r[1]..r[2] : p = b[k]
  <2>1. p \in P /\ AFast!Slope(n, p) = s
    BY <1>13 DEF Through
  <2>2. PICK j \in 1..Len(A) : p = A[j]
    BY <1>3, <2>1
  <2>3. ~(j \in 1..(i - 1))
    BY <1>12, <2>2 DEF Seen
  <2>4. j \in i..Len(A)
    BY <1>5, <2>3
  <2>5. PICK k \in DOMAIN b : b[k] = p
    BY <1>4, <2>2, <2>4
  <2>6. QED
    BY <1>2, <2>1, <2>5
<1>14. RunSet(n, b, r) = l
  <2>1. n \in l
    BY DEF Through
  <2>2. QED
    BY <1>10, <1>13, <2>1 DEF RunSet
<1>15. NewLine(A, i, l)
  <2>1. IsLine(P, l)
    BY <1>2, <1>3, <1>11 DEF IsLine, s
  <2>2. n \in l
    BY DEF Through
  <2>3. QED
    BY <1>12, <2>1, <2>2 DEF NewLine
<1>16. QED
  BY <1>14, <1>15 DEF s

\* Two runs are not of the same line.
LEMMA RunsApart ==
  ASSUME NEW A, NEW i, NEW b, NEW K, Seeking(A, i, b, K),
         NEW r \in RunsOf(b, A[i], K), NEW q \in RunsOf(b, A[i], K),
         RunSet(A[i], b, r) = RunSet(A[i], b, q) \/ r[1] = q[1]
  PROVE  r = q
<1> DEFINE n == A[i]
<1>1. /\ RunFits(A, b, n, K, r) /\ RunFits(A, b, n, K, q)
      /\ RunSet(n, b, r) = Through(PointsOf(A), n, AFast!Slope(n, b[r[1]]))
      /\ RunSet(n, b, q) = Through(PointsOf(A), n, AFast!Slope(n, b[q[1]]))
  BY RunShape, RunIsLine
<1>2. AFast!Slope(n, b[r[1]]) = AFast!Slope(n, b[q[1]])
  <2>1. CASE r[1] = q[1]
    BY <2>1
  <2>2. CASE RunSet(n, b, r) = RunSet(n, b, q)
    <3>1. r[1] \in r[1]..r[2] /\ b[r[1]] # n
      BY <1>1 DEF RunFits
    <3>2. b[r[1]] \in RunSet(n, b, q)
      BY <2>2, <3>1 DEF RunSet
    <3>3. QED
      BY <1>1, <3>1, <3>2 DEF Through
  <2>3. QED
    BY <2>1, <2>2
<1>3. r[1]..r[2] = q[1]..q[2]
  <2>1. \A k \in DOMAIN b : k \in r[1]..r[2] <=> k \in q[1]..q[2]
    BY <1>1, <1>2 DEF RunFits
  <2>2. r[1]..r[2] \subseteq DOMAIN b /\ q[1]..q[2] \subseteq DOMAIN b
    BY <1>1 DEF RunFits
  <2>3. QED
    BY <2>1, <2>2
<1>4. /\ r[1] \in Nat /\ r[2] \in Nat /\ r[2] >= r[1] + 2
      /\ q[1] \in Nat /\ q[2] \in Nat /\ q[2] >= q[1] + 2
      /\ r = <<r[1], r[2]>> /\ q = <<q[1], q[2]>>
  BY <1>1 DEF RunFits
<1>5. /\ r[1] \in q[1]..q[2] /\ r[2] \in q[1]..q[2]
      /\ q[1] \in r[1]..r[2] /\ q[2] \in r[1]..r[2]
  <2>1. r[1] \in r[1]..r[2] /\ r[2] \in r[1]..r[2] /\ q[1] \in q[1]..q[2] /\ q[2] \in q[1]..q[2]
    BY <1>4
  <2>2. QED
    BY <1>3, <2>1
<1>6. r[1] = q[1] /\ r[2] = q[2]
  BY <1>4, <1>5
<1>7. QED
  BY <1>4, <1>6

\* Numbers that have no gap are an interval.
LEMMA NoGap ==
  ASSUME NEW d \in Nat, NEW C \in SUBSET (1..d), C # {},
         \A k \in C, m \in C, j \in 1..d : k < j /\ j < m => j \in C
  PROVE  \E lo \in C, hi \in C : lo <= hi /\ C = lo..hi
<1>1. C \in SUBSET Nat
  OBVIOUS
<1>2. PICK lo \in C : \A k \in C : lo <= k
  BY <1>1, LeastNumber
<1> DEFINE U == {d - k : k \in C}
<1>3. U \in SUBSET Nat /\ U # {}
  OBVIOUS
<1>4. PICK u \in U : \A v \in U : u <= v
  BY <1>3, LeastNumber
<1>5. PICK hi \in C : u = d - hi
  OBVIOUS
<1>6. ASSUME NEW k \in C PROVE k <= hi
  <2>1. d - hi <= d - k
    BY <1>4, <1>5
  <2>2. k \in Nat /\ hi \in Nat
    BY <1>1
  <2>3. QED
    BY <2>1, <2>2
<1>7. ASSUME NEW j \in lo..hi PROVE j \in C
  <2>1. lo \in 1..d /\ hi \in 1..d
    OBVIOUS
  <2>2. j \in 1..d /\ (j = lo \/ j = hi \/ (lo < j /\ j < hi))
    BY <2>1
  <2>3. QED
    BY <2>2
<1>8. lo \in Nat /\ hi \in Nat /\ \A k \in C : k \in Nat
  BY <1>1
<1>9. lo <= hi /\ C = lo..hi
  <2>1. ASSUME NEW k \in C PROVE k \in lo..hi
    <3>1. lo <= k /\ k <= hi /\ k \in Nat
      BY <1>2, <1>6, <1>8
    <3>2. QED
      BY <1>8, <3>1
  <2>2. lo <= hi
    BY <1>2
  <2>3. QED
    BY <1>7, <2>1, <2>2
<1>10. QED
  BY <1>9

\* Every line for the i-th point to find is such a run.
LEMMA LineIsRun ==
  ASSUME NEW A, NEW i, NEW b, NEW K, Seeking(A, i, b, K), NEW l, NewLine(A, i, l)
  PROVE  \E r \in RunsOf(b, A[i], K) : RunSet(A[i], b, r) = l
<1> DEFINE n == A[i]
           P == PointsOf(A)
<1>1. /\ P \in SUBSET Plane /\ IsFiniteSet(P) /\ n \in P
      /\ \A p \in P : \E k \in 1..Len(A) : p = A[k]
  BY PointsAre DEF Seeking
<1>2. PICK q \in P \ {n} : l = Through(P, n, AFast!Slope(n, q))
  BY <1>1, LineFrom DEF NewLine
<1> DEFINE s == AFast!Slope(n, q)
<1>3. Cardinality(l) >= 4 /\ ~Seen(A, i, l)
  BY DEF NewLine, IsLine
<1>4. s \notin K
  BY <1>2, <1>3 DEF Seeking, KnowsLines
<1>5. s # NoSlope
  <2>1. q \in Plane /\ n \in Plane /\ q # n
    BY <1>1
  <2>2. QED
    BY <2>1, SlopeTyped
<1>6. PICK d \in Nat : DOMAIN b = 1..d
  BY DEF Seeking, BySlopeTo
<1>7. /\ \A k \in 1..d : \E j \in i..Len(A) : b[k] = A[j]
      /\ \A j \in i..Len(A) : \E k \in 1..d : b[k] = A[j]
      /\ \A k, m \in 1..d : b[k] = b[m] => k = m
      /\ \A k, j, m \in 1..d :
           k < j /\ j < m /\ AFast!Slope(n, b[k]) = AFast!Slope(n, b[m])
             => AFast!Slope(n, b[j]) = AFast!Slope(n, b[k])
  BY <1>6 DEF Seeking, BySlopeTo
<1>8. i \in Nat /\ i \in 1..Len(A) /\ Len(A) \in Nat
  BY DEF Seeking, PointSequence
<1>9. \A k \in 1..d : b[k] \in P
  <2>1. i..Len(A) \subseteq 1..Len(A)
    BY <1>8
  <2>2. \A k \in 1..d : \E j \in 1..Len(A) : b[k] = A[j]
    BY <1>7, <2>1
  <2>3. QED
    BY <2>2, PointsAre DEF Seeking
<1>10. AFast!Slope(n, n) = NoSlope
  BY <1>1, SlopeTyped
<1> HIDE DEF s
<1>11. ASSUME NEW p \in P, p # n, AFast!Slope(n, p) = s PROVE \E k \in 1..d : b[k] = p
  <2>1. p \in l
    BY <1>2, <1>11 DEF Through, s
  <2>2. PICK j \in 1..Len(A) : p = A[j]
    BY <1>1
  <2>3. ~(j \in 1..(i - 1))
    BY <1>3, <2>1, <2>2 DEF Seen
  <2>4. j \in i..Len(A)
    BY <1>8, <2>3
  <2>5. QED
    BY <1>7, <2>2, <2>4
<1> DEFINE C == {k \in 1..d : AFast!Slope(n, b[k]) = s}
<1>12. C # {} /\ C \in SUBSET (1..d)
  <2>1. \E k \in 1..d : b[k] = q
    BY <1>2, <1>11 DEF s
  <2>2. QED
    BY <2>1 DEF s
<1>13. \A k \in C, m \in C, j \in 1..d : k < j /\ j < m => j \in C
  <2>1. ASSUME NEW k \in C, NEW m \in C, NEW j \in 1..d, k < j, j < m PROVE j \in C
    <3>1. AFast!Slope(n, b[j]) = AFast!Slope(n, b[k])
      BY <1>7, <2>1
    <3>2. QED
      BY <3>1
  <2>2. QED
    BY <2>1
<1>14. l = {n} \cup {b[k] : k \in C}
  <2>1. ASSUME NEW p \in l, p # n PROVE p \in {b[k] : k \in C}
    <3>1. p \in P /\ AFast!Slope(n, p) = s
      BY <1>2, <2>1 DEF Through, s
    <3>2. QED
      BY <1>11, <2>1, <3>1
  <2>2. ASSUME NEW k \in C PROVE b[k] \in l
    <3>1. b[k] \in P /\ AFast!Slope(n, b[k]) = s /\ b[k] # n
      BY <1>5, <1>9, <1>10
    <3>2. QED
      BY <1>2, <3>1 DEF Through, s
  <2>3. n \in l
    BY <1>2 DEF Through
  <2>4. QED
    BY <2>1, <2>2, <2>3
<1>15. PICK lo \in C, hi \in C : lo <= hi /\ C = lo..hi
  <2> HIDE DEF C
  <2>1. QED
    BY <1>12, <1>13, NoGap
<1>16. lo \in 1..d /\ hi \in 1..d
  BY <1>12
<1>17. hi >= lo + 2
  <2>1. SUFFICES ASSUME hi < lo + 2 PROVE FALSE
    BY <1>16
  <2>2. C \subseteq {lo, lo + 1}
    BY <1>15, <1>16, <2>1
  <2>3. l \subseteq {n, b[lo], b[lo + 1]}
    BY <1>14, <2>2
  <2>4. Cardinality(l) <= 3
    BY <2>3, AtMostThree
  <2>5. IsFiniteSet(l)
    <3>1. l \subseteq P
      BY <1>1, <1>2 DEF Through
    <3>2. QED
      BY <1>1, <3>1, FS_Subset
  <2>6. Cardinality(l) \in Nat
    BY <2>5, FS_CardinalityType
  <2>7. QED
    BY <1>3, <2>4, <2>6
<1> DEFINE r == <<lo, hi>>
<1>18. r \in RunsOf(b, n, K)
  <2>1. \A k \in 1..d : k \in lo..hi <=> AFast!Slope(n, b[k]) = s
    BY <1>15
  <2>2. lo \in lo..hi /\ lo..hi \subseteq 1..d
    BY <1>15, <1>16
  <2>3. AFast!Slope(n, b[lo]) = s
    OBVIOUS
  <2>4. \A k \in 1..d : Alike(b, n, K, lo, k) <=> k \in lo..hi
    BY <1>4, <2>1, <2>3 DEF Alike
  <2> HIDE DEF C, n
  <2>5. /\ r \in (1..d) \X (1..d) /\ r[1] = lo /\ r[2] = hi
    BY <1>16
  <2>6. /\ lo - 1 \in 1..d => ~Alike(b, n, K, lo, lo - 1)
        /\ hi + 1 \in 1..d => ~Alike(b, n, K, lo, hi + 1)
    <3>1. lo - 1 \notin lo..hi /\ hi + 1 \notin lo..hi
      BY <1>16
    <3>2. QED
      BY <2>4, <3>1
  <2>7. \A k \in lo..hi : Alike(b, n, K, lo, k)
    BY <2>2, <2>4
  <2> HIDE DEF r
  <2>8. QED
    BY <1>6, <1>17, <2>5, <2>6, <2>7 DEF RunsOf
<1>19. RunSet(n, b, r) = l
  <2>1. {b[k] : k \in C} = {b[k] : k \in lo..hi}
    BY <1>15
  <2>2. r[1] = lo /\ r[2] = hi
    OBVIOUS
  <2> HIDE DEF C, r, n
  <2>3. QED
    BY <1>14, <2>1, <2>2 DEF RunSet
<1>20. QED
  BY <1>18, <1>19

-----------------------------------------------------------------------------
(* What is printed and what the points remember.                           *)

\* w has the lines that the points before the i-th are on, each once.
LinesFound(A, i, w) ==
  /\ \A k \in DOMAIN w : IsLine(PointsOf(A), Queued(w[k])) /\ Seen(A, i, Queued(w[k]))
  /\ \A j, k \in DOMAIN w : Queued(w[j]) = Queued(w[k]) => j = k
  /\ \A l : IsLine(PointsOf(A), l) /\ Seen(A, i, l) => \E k \in DOMAIN w : Queued(w[k]) = l

\* v has the lines for the i-th point to find, each once.
LinesNew(A, i, v) ==
  /\ \A k \in DOMAIN v : NewLine(A, i, Queued(v[k]))
  /\ \A j, k \in DOMAIN v : Queued(v[j]) = Queued(v[k]) => j = k
  /\ \A l : NewLine(A, i, l) => \E k \in DOMAIN v : Queued(v[k]) = l

\* Points before the next are those before this one, and this one.
LEMMA SeenNext ==
  ASSUME NEW A, NEW i \in Nat \ {0}, NEW l
  PROVE  Seen(A, i + 1, l) <=> Seen(A, i, l) \/ A[i] \in l
<1>1. 1..((i + 1) - 1) = 1..(i - 1) \cup {i}
  OBVIOUS
<1>2. QED
  BY <1>1 DEF Seen

\* One after the other they have the lines of the points up to the i-th.
LEMMA FoundGrows ==
  ASSUME NEW A, NEW i \in Nat \ {0}, NEW T, NEW w \in Seq(T), NEW v \in Seq(T),
         LinesFound(A, i, w), LinesNew(A, i, v)
  PROVE  LinesFound(A, i + 1, w \o v)
<1>1. /\ w \o v \in Seq(T) /\ Len(w \o v) = Len(w) + Len(v)
      /\ \A k \in 1..(Len(w) + Len(v)) :
           (w \o v)[k] = IF k <= Len(w) THEN w[k] ELSE v[k - Len(w)]
  BY ConcatProperties, Zenon
<1>2. /\ DOMAIN (w \o v) = 1..(Len(w) + Len(v)) /\ Len(w) \in Nat /\ Len(v) \in Nat
      /\ DOMAIN w = 1..Len(w) /\ DOMAIN v = 1..Len(v)
  BY <1>1
<1> DEFINE z == w \o v
           W(k) == Queued(w[k])
           V(k) == Queued(v[k])
           Z(k) == Queued(z[k])
<1> HIDE DEF z
<1>3. DOMAIN z = 1..(Len(w) + Len(v))
  BY <1>2 DEF z
<1>4. \A k \in DOMAIN z : \/ k \in DOMAIN w /\ Z(k) = W(k)
                          \/ k - Len(w) \in DOMAIN v /\ Z(k) = V(k - Len(w))
  <2>1. ASSUME NEW k \in DOMAIN z
        PROVE  \/ k \in DOMAIN w /\ z[k] = w[k]
               \/ k - Len(w) \in DOMAIN v /\ z[k] = v[k - Len(w)]
    <3>1. z[k] = IF k <= Len(w) THEN w[k] ELSE v[k - Len(w)]
      BY <1>1, <1>3 DEF z
    <3>2. QED
      BY <1>2, <1>3, <3>1
  <2>2. QED
    BY <2>1
<1>5. \A k \in DOMAIN w : k \in DOMAIN z /\ Z(k) = W(k)
  <2>1. ASSUME NEW k \in DOMAIN w PROVE k \in DOMAIN z /\ z[k] = w[k]
    <3>1. k \in DOMAIN z /\ k <= Len(w)
      BY <1>2, <1>3
    <3>2. z[k] = IF k <= Len(w) THEN w[k] ELSE v[k - Len(w)]
      BY <1>1, <1>3, <3>1 DEF z
    <3>3. QED
      BY <3>1, <3>2
  <2>2. QED
    BY <2>1
<1>6. \A k \in DOMAIN v : k + Len(w) \in DOMAIN z /\ Z(k + Len(w)) = V(k)
  <2>1. ASSUME NEW k \in DOMAIN v PROVE k + Len(w) \in DOMAIN z /\ z[k + Len(w)] = v[k]
    <3>1. k + Len(w) \in DOMAIN z /\ ~(k + Len(w) <= Len(w)) /\ (k + Len(w)) - Len(w) = k
      BY <1>2, <1>3
    <3>2. z[k + Len(w)] = IF k + Len(w) <= Len(w) THEN w[k + Len(w)] ELSE v[(k + Len(w)) - Len(w)]
      BY <1>1, <1>3, <3>1 DEF z
    <3>3. QED
      BY <3>1, <3>2
  <2>2. QED
    BY <2>1
<1>7. /\ \A k \in DOMAIN w : IsLine(PointsOf(A), W(k)) /\ Seen(A, i, W(k))
      /\ \A j, k \in DOMAIN w : W(j) = W(k) => j = k
      /\ \A l : IsLine(PointsOf(A), l) /\ Seen(A, i, l) => \E k \in DOMAIN w : W(k) = l
  BY DEF LinesFound
<1>8. /\ \A k \in DOMAIN v : NewLine(A, i, V(k))
      /\ \A j, k \in DOMAIN v : V(j) = V(k) => j = k
      /\ \A l : NewLine(A, i, l) => \E k \in DOMAIN v : V(k) = l
  BY DEF LinesNew
<1> HIDE DEF W, V, Z
<1>9. \A l : Seen(A, i + 1, l) <=> Seen(A, i, l) \/ A[i] \in l
  BY SeenNext
<1>10. ASSUME NEW k \in DOMAIN z PROVE IsLine(PointsOf(A), Z(k)) /\ Seen(A, i + 1, Z(k))
  <2>1. CASE k \in DOMAIN w /\ Z(k) = W(k)
    BY <1>7, <1>9, <2>1
  <2>2. CASE k - Len(w) \in DOMAIN v /\ Z(k) = V(k - Len(w))
    <3>1. NewLine(A, i, Z(k))
      BY <1>8, <2>2
    <3>2. QED
      BY <1>9, <3>1 DEF NewLine
  <2>3. QED
    BY <1>4, <2>1, <2>2
<1>11. ASSUME NEW j \in DOMAIN z, NEW k \in DOMAIN z, Z(j) = Z(k) PROVE j = k
  <2>1. j \in Int /\ k \in Int
    BY <1>3
  <2>2. CASE j \in DOMAIN w /\ Z(j) = W(j)
    <3>1. CASE k \in DOMAIN w /\ Z(k) = W(k)
      BY <1>7, <1>11, <2>2, <3>1
    <3>2. CASE k - Len(w) \in DOMAIN v /\ Z(k) = V(k - Len(w))
      <4>1. Seen(A, i, Z(j))
        BY <1>7, <2>2
      <4>2. NewLine(A, i, Z(k))
        BY <1>8, <3>2
      <4>3. QED
        BY <1>11, <4>1, <4>2 DEF NewLine
    <3>3. QED
      BY <1>4, <3>1, <3>2
  <2>3. CASE j - Len(w) \in DOMAIN v /\ Z(j) = V(j - Len(w))
    <3>1. CASE k \in DOMAIN w /\ Z(k) = W(k)
      <4>1. Seen(A, i, Z(k))
        BY <1>7, <3>1
      <4>2. NewLine(A, i, Z(j))
        BY <1>8, <2>3
      <4>3. QED
        BY <1>11, <4>1, <4>2 DEF NewLine
    <3>2. CASE k - Len(w) \in DOMAIN v /\ Z(k) = V(k - Len(w))
      <4>1. j - Len(w) = k - Len(w)
        BY <1>8, <1>11, <2>3, <3>2
      <4>2. QED
        BY <1>2, <2>1, <4>1
    <3>3. QED
      BY <1>4, <3>1, <3>2
  <2>4. QED
    BY <1>4, <2>2, <2>3
<1>12. ASSUME NEW l, IsLine(PointsOf(A), l), Seen(A, i + 1, l)
       PROVE  \E k \in DOMAIN z : Z(k) = l
  <2>1. CASE Seen(A, i, l)
    <3>1. PICK k \in DOMAIN w : W(k) = l
      BY <1>7, <1>12, <2>1
    <3>2. QED
      BY <1>5, <3>1
  <2>2. CASE ~Seen(A, i, l)
    <3>1. NewLine(A, i, l)
      BY <1>9, <1>12, <2>2 DEF NewLine
    <3>2. PICK k \in DOMAIN v : V(k) = l
      BY <1>8, <3>1
    <3>3. k + Len(w) \in DOMAIN z /\ Z(k + Len(w)) = l
      BY <1>6, <3>2
    <3>4. QED
      BY <3>3
  <2>3. QED
    BY <2>1, <2>2
<1>13. LinesFound(A, i + 1, z)
  BY <1>10, <1>11, <1>12 DEF LinesFound, Z
<1>14. QED
  BY <1>13 DEF z

\* The points that a search marks are those whose slope to n its lines have.
Marked(b, R, p) == \E r \in R : \E j \in r[1]..r[2] : b[j] = p

\* So the points to come know what they must.
LEMMA KnowsOn ==
  ASSUME NEW A, NEW i, NEW b, NEW K, Seeking(A, i, b, K),
         NEW k \in (i + 1)..Len(A), NEW L, KnowsLines(A, i, A[k], L),
         NEW M, M = IF Marked(b, RunsOf(b, A[i], K), A[k])
                      THEN L \cup {AFast!Slope(A[i], A[k])} ELSE L
  PROVE  KnowsLines(A, i + 1, A[k], M)
<1> DEFINE n == A[i]
           p == A[k]
           P == PointsOf(A)
           R == RunsOf(b, n, K)
<1>1. /\ i \in Nat \ {0} /\ i \in 1..Len(A) /\ k \in 1..Len(A) /\ k # i /\ k > i
      /\ Len(A) \in Nat /\ DOMAIN A = 1..Len(A)
  BY DEF Seeking, PointSequence
<1>2. P \in SUBSET Plane /\ IsFiniteSet(P) /\ n \in P /\ p \in P
  BY <1>1, PointsAre DEF Seeking
<1>3. n # p
  BY <1>1 DEF Seeking, PointSequence
<1>4. SUFFICES ASSUME NEW q \in P \ {p}
               PROVE  AFast!Slope(p, q) \in M <=>
                        /\ Cardinality(Through(P, p, AFast!Slope(p, q))) >= 4
                        /\ Seen(A, i + 1, Through(P, p, AFast!Slope(p, q)))
  BY DEF KnowsLines
<1> DEFINE s == AFast!Slope(p, q)
           l == Through(P, p, s)
<1>5. s \in L <=> Cardinality(l) >= 4 /\ Seen(A, i, l)
  BY DEF KnowsLines
<1>6. Seen(A, i + 1, l) <=> Seen(A, i, l) \/ n \in l
  BY <1>1, SeenNext
<1>7. L \subseteq M /\ (Marked(b, R, p) => AFast!Slope(n, p) \in M)
  OBVIOUS
<1>8. s \in M => s \in L \/ (Marked(b, R, p) /\ s = AFast!Slope(n, p))
  OBVIOUS
<1>9. ASSUME Marked(b, R, p), s = AFast!Slope(n, p)
      PROVE  Cardinality(l) >= 4 /\ n \in l
  <2>1. PICK r \in R : \E j \in r[1]..r[2] : b[j] = p
    BY <1>9 DEF Marked
  <2>2. PICK j \in r[1]..r[2] : b[j] = p
    BY <2>1
  <2>3. RunFits(A, b, n, K, r)
    BY RunShape
  <2>4. /\ RunSet(n, b, r) = Through(P, n, AFast!Slope(n, b[r[1]]))
        /\ NewLine(A, i, RunSet(n, b, r))
    BY RunIsLine
  <2>5. AFast!Slope(n, b[r[1]]) = s
    BY <1>9, <2>2, <2>3 DEF RunFits
  <2>6. p \in RunSet(n, b, r)
    BY <2>2 DEF RunSet
  <2>7. l = RunSet(n, b, r)
    <3> DEFINE m == RunSet(n, b, r)
    <3> HIDE DEF m, s, n, p, P
    <3>1. m = Through(P, n, s) /\ p \in m
      BY <2>4, <2>5, <2>6 DEF m
    <3>2. Through(P, p, s) = Through(P, n, s)
      BY <1>2, <3>1, ThroughAny
    <3>3. QED
      BY <3>1, <3>2 DEF m
  <2>8. QED
    BY <2>4, <2>7 DEF NewLine, IsLine
<1>10. ASSUME Cardinality(l) >= 4, n \in l, ~Seen(A, i, l)
       PROVE  Marked(b, R, p) /\ s = AFast!Slope(n, p)
  <2>1. IsLine(P, l)
    BY <1>2, <1>10 DEF IsLine
  <2>2. NewLine(A, i, l)
    BY <1>10, <2>1 DEF NewLine
  <2>3. PICK r \in R : RunSet(n, b, r) = l
    BY <2>2, LineIsRun
  <2>4. p \in l
    BY DEF Through
  <2>5. \E j \in r[1]..r[2] : b[j] = p
    BY <1>3, <2>3, <2>4 DEF RunSet
  <2>6. Marked(b, R, p)
    BY <2>5 DEF Marked
  <2>7. AFast!Slope(p, n) = s
    BY <1>3, <1>10 DEF Through
  <2>8. AFast!Slope(n, p) = AFast!Slope(p, n)
    BY <1>2, <1>3, SlopeBack
  <2>9. QED
    BY <2>6, <2>7, <2>8
<1> HIDE DEF s, l, R, n
<1>11. s \in M <=> Cardinality(l) >= 4 /\ Seen(A, i + 1, l)
  BY <1>5, <1>6, <1>7, <1>8, <1>9, <1>10
<1>12. QED
  BY <1>11 DEF s, l

-----------------------------------------------------------------------------
(* The search of a point.                                                  *)

\* A point still to come has been told of just those of its lines that a point before it
\* is on, and these are the lines that have been printed.
FastInv ==
  /\ PointSequence(data) /\ PointsOf(data) \subseteq CollinearPoints
  /\ cursor \in 1..(Len(data) + 1)
  /\ pending \in [PointsOf(data) -> SUBSET (Int \X Int)]
  /\ \A k \in cursor..Len(data) : KnowsLines(data, cursor, data[k], pending[data[k]])
  /\ result \in Seq(Seq(CollinearPoints))
  /\ LinesFound(data, cursor, result)

\* The points are points of the plane.
LEMMA CollinearPlane == CollinearPoints \in SUBSET Plane /\ IsFiniteSet(CollinearPoints)
<1>1. CollinearPoints \in SUBSET Plane
  BY DEF CollinearPoints, Plane
<1>2. IsFiniteSet(0..4) /\ IsFiniteSet({0}) /\ IsFiniteSet(1..3)
      /\ IsFiniteSet({<<2, 1>>}) /\ IsFiniteSet({<<1, 2>>})
  <2>1. IsFiniteSet(0..4) /\ IsFiniteSet(1..3)
    <3>1. ASSUME NEW d \in Nat, NEW e \in Nat PROVE IsFiniteSet(d..e)
      BY FS_Interval
    <3>2. QED
      BY <3>1
  <2>2. \A x : IsFiniteSet({x})
    BY FS_Singleton
  <2>3. QED
    BY <2>1, <2>2
<1>3. IsFiniteSet((0..4) \X {0}) /\ IsFiniteSet({0} \X (1..3))
  BY <1>2, FS_Product
<1>4. IsFiniteSet(((0..4) \X {0}) \cup ({0} \X (1..3)))
  BY <1>3, FS_Union
<1>5. IsFiniteSet((((0..4) \X {0}) \cup ({0} \X (1..3))) \cup {<<2, 1>>})
  BY <1>2, <1>4, FS_Union
<1>6. IsFiniteSet(((((0..4) \X {0}) \cup ({0} \X (1..3))) \cup {<<2, 1>>}) \cup {<<1, 2>>})
  BY <1>2, <1>5, FS_Union
<1>7. CollinearPoints \subseteq
        ((((0..4) \X {0}) \cup ({0} \X (1..3))) \cup {<<2, 1>>}) \cup {<<1, 2>>}
  BY DEF CollinearPoints
<1>8. IsFiniteSet(CollinearPoints)
  BY <1>6, <1>7, FS_Subset
<1>9. QED
  BY <1>1, <1>8

\* A point that is still to come knows what it must.
LEMMA NowSeeking ==
  ASSUME FastInv, cursor \in 1..Len(data)
  PROVE  Seeking(data, cursor, AFast!BySlope, pending[data[cursor]])
<1>1. PointSequence(data) /\ Len(data) \in Nat
  BY DEF FastInv, PointSequence
<1>2. cursor \in cursor..Len(data) /\ cursor \in Nat
  BY <1>1
<1>3. KnowsLines(data, cursor, data[cursor], pending[data[cursor]])
  BY <1>2 DEF FastInv
<1>4. QED
  BY <1>1, <1>2, <1>3, SortedBySlope DEF Seeking

\* The runs of Fast.tla are those of above
LEMMA RunsAre ==
  AFast!Runs(AFast!BySlope) = RunsOf(AFast!BySlope, data[cursor], pending[data[cursor]])
<1> DEFINE b == AFast!BySlope
<1> HIDE DEF b
<1>1. AFast!Runs(b) = RunsOf(b, data[cursor], pending[data[cursor]])
  BY DEF AFast!Runs, RunsOf, Alike, AFast!Known, AFast!n
<1>2. QED
  BY <1>1 DEF b

\* The order of runs, by where they start.
StartsIn(R) == {x \in R \X R : x[1][1] < x[2][1]}

\* They are gone through in this order, each once.
LEMMA RunsInOrder ==
  ASSUME NEW A, NEW i, NEW b, NEW K, Seeking(A, i, b, K),
         NEW R, R = RunsOf(b, A[i], K), NEW f,
         f = [k \in 1..Cardinality(R) |->
                CHOOSE x \in R : Cardinality({y \in R : y[1] < x[1]}) = k - 1]
  PROVE  InOrder(f, R, StartsIn(R))
<1>1. PICK d \in Nat : DOMAIN b = 1..d
  BY DEF Seeking, BySlopeTo
<1>2. IsFiniteSet(R)
  <2>1. IsFiniteSet(1..d)
    BY FS_Interval
  <2>2. IsFiniteSet((1..d) \X (1..d))
    BY <2>1, FS_Product
  <2>3. R \subseteq (1..d) \X (1..d)
    BY <1>1 DEF RunsOf
  <2>4. QED
    BY <2>2, <2>3, FS_Subset
<1>3. \A x \in R : x[1] \in Nat
  BY <1>1 DEF RunsOf
<1>4. \A x, y \in R : x[1] = y[1] => x = y
  BY RunsApart
<1>5. \A x, y \in R : <<x, y>> \in StartsIn(R) <=> x[1] < y[1]
  <2>1. ASSUME NEW x \in R, NEW y \in R PROVE <<x, y>> \in StartsIn(R) <=> x[1] < y[1]
    BY DEF StartsIn
  <2>2. QED
    BY <2>1
<1>6. StrictOrder(R, StartsIn(R))
  <2>1. \A x \in R : <<x, x>> \notin StartsIn(R)
    BY <1>3, <1>5
  <2>2. \A x, y, z \in R :
          <<x, y>> \in StartsIn(R) /\ <<y, z>> \in StartsIn(R) => <<x, z>> \in StartsIn(R)
    <3>1. ASSUME NEW x \in R, NEW y \in R, NEW z \in R,
                 <<x, y>> \in StartsIn(R), <<y, z>> \in StartsIn(R)
          PROVE  <<x, z>> \in StartsIn(R)
      <4>1. x[1] < y[1] /\ y[1] < z[1]
        BY <1>5, <3>1
      <4>2. x[1] < z[1]
        BY <1>3, <4>1
      <4>3. QED
        BY <1>5, <4>2
    <3>2. QED
      BY <3>1
  <2>3. \A x, y \in R : x # y => <<x, y>> \in StartsIn(R) \/ <<y, x>> \in StartsIn(R)
    <3>1. ASSUME NEW x \in R, NEW y \in R, x # y
          PROVE  <<x, y>> \in StartsIn(R) \/ <<y, x>> \in StartsIn(R)
      <4>1. x[1] # y[1] /\ x[1] \in Nat /\ y[1] \in Nat
        BY <1>3, <1>4, <3>1
      <4>2. x[1] < y[1] \/ y[1] < x[1]
        BY <4>1
      <4>3. QED
        BY <1>5, <4>2
    <3>2. QED
      BY <3>1
  <2>4. QED
    BY <2>1, <2>2, <2>3 DEF StrictOrder
<1>7. \A x \in R : {y \in R : y[1] < x[1]} = Earlier(R, StartsIn(R), x)
  BY <1>5 DEF Earlier
<1>8. ASSUME NEW k \in 1..Cardinality(R)
      PROVE  f[k] \in R /\ Cardinality(Earlier(R, StartsIn(R), f[k])) = k - 1
  <2>1. \E x \in R : Cardinality(Earlier(R, StartsIn(R), x)) = k - 1
    BY <1>2, <1>6, RankTaken
  <2>2. \E x \in R : Cardinality({y \in R : y[1] < x[1]}) = k - 1
    BY <1>7, <2>1
  <2>3. f[k] = CHOOSE x \in R : Cardinality({y \in R : y[1] < x[1]}) = k - 1
    OBVIOUS
  <2>4. f[k] \in R /\ Cardinality({y \in R : y[1] < f[k][1]}) = k - 1
    BY <2>2, <2>3
  <2>5. QED
    BY <1>7, <2>4
<1>9. IsRanking(f, R, StartsIn(R))
  BY <1>8 DEF IsRanking
<1>10. QED
  BY <1>2, <1>6, <1>9, RankingInOrder

\* What is printed of a run is its points and n.
LEMMA RunPrinted ==
  ASSUME NEW D, NEW n \in D, NEW b, NEW lo \in Nat, NEW hi \in Nat, lo <= hi,
         \A j \in lo..hi : b[j] \in D
  PROVE  PutTogether(D, <<n>>, SubSeq(b, lo, hi), <<n>> \o SubSeq(b, lo, hi))
         /\ Queued(<<n>>) = {n} /\ Queued(SubSeq(b, lo, hi)) = {b[j] : j \in lo..hi}
<1> DEFINE t == SubSeq(b, lo, hi)
<1>1. /\ t \in Seq(D) /\ Len(t) = (hi - lo) + 1
      /\ \A k \in 1..((hi - lo) + 1) : t[k] = b[(lo + k) - 1]
  BY SubSeqProperties
<1> HIDE DEF t
<1>2. DOMAIN t = 1..((hi - lo) + 1)
  BY <1>1
<1>3. Queued(t) = {b[j] : j \in lo..hi}
  <2>1. ASSUME NEW k \in DOMAIN t PROVE t[k] \in {b[j] : j \in lo..hi}
    <3>1. (lo + k) - 1 \in lo..hi /\ t[k] = b[(lo + k) - 1]
      BY <1>1, <1>2
    <3>2. QED
      BY <3>1
  <2>2. ASSUME NEW j \in lo..hi PROVE b[j] \in Queued(t)
    <3>1. (j - lo) + 1 \in DOMAIN t /\ (lo + ((j - lo) + 1)) - 1 = j
      BY <1>2
    <3>2. t[(j - lo) + 1] = b[j]
      BY <1>1, <1>2, <3>1
    <3>3. QED
      BY <3>1, <3>2 DEF Queued
  <2>3. QED
    BY <2>1, <2>2 DEF Queued
<1>4. <<n>> \in Seq(D) /\ Queued(<<n>>) = {n}
  BY QueuedFew
<1>5. PutTogether(D, <<n>>, t, <<n>> \o t)
  BY <1>1, <1>4, QueuedBoth, Zenon
<1>6. QED
  BY <1>3, <1>4, <1>5 DEF t

\* A search prints the lines that its point is the first on,
LEMMA SearchPrints ==
  ASSUME FastInv, AFast!Search
  PROVE  \E v \in Seq(Seq(CollinearPoints)) :
           LinesNew(data, cursor, v) /\ result' = result \o v
<1> DEFINE b == AFast!BySlope
           n == data[cursor]
           K == pending[n]
           R == RunsOf(b, n, K)
           f == [k \in 1..Cardinality(R) |->
                   CHOOSE x \in R : Cardinality({y \in R : y[1] < x[1]}) = k - 1]
           v == [k \in DOMAIN f |-> <<n>> \o SubSeq(b, f[k][1], f[k][2])]
<1>1. cursor \in 1..Len(data)
  <2>1. cursor \in 1..(Len(data) + 1) /\ cursor <= Len(data) /\ Len(data) \in Nat
    BY DEF FastInv, AFast!Search, PointSequence
  <2>2. QED
    BY <2>1
<1>2. Seeking(data, cursor, b, K)
  BY <1>1, NowSeeking
<1>3. result' = result \o v
  <2>1. AFast!Runs(b) = R
    BY RunsAre
  <2>2. AFast!Ranked(AFast!Runs(b), LAMBDA r, s : r[1] < s[1]) = f
    <3>1. AFast!Ranked(R, LAMBDA r, s : r[1] < s[1]) =
            [k \in 1..AFast!Cardinality(R) |->
               CHOOSE x \in R : AFast!Cardinality({y \in R : y[1] < x[1]}) = k - 1]
      BY DEF AFast!Ranked
    <3>2. QED
      BY <2>1, <3>1 DEF AFast!Cardinality, Cardinality
  <2>3. result' = result \o
          LET runs == AFast!Ranked(AFast!Runs(b), LAMBDA r, s : r[1] < s[1])
          IN [k \in DOMAIN runs |-> <<n>> \o SubSeq(b, runs[k][1], runs[k][2])]
    BY DEF AFast!Search, AFast!n
  <2>4. QED
    BY <2>2, <2>3
<1>4. InOrder(f, R, StartsIn(R))
  BY <1>2, RunsInOrder
<1> HIDE DEF f, R, K, n, b
<1>5. /\ DOMAIN f = 1..Cardinality(R) /\ \A k \in DOMAIN f : f[k] \in R
      /\ \A x \in R : \E k \in DOMAIN f : f[k] = x
      /\ \A j, k \in DOMAIN f : f[j] = f[k] => j = k
  BY <1>4 DEF InOrder
<1>6. ASSUME NEW r \in R
      PROVE  /\ <<n>> \o SubSeq(b, r[1], r[2]) \in Seq(CollinearPoints)
             /\ Queued(<<n>> \o SubSeq(b, r[1], r[2])) = RunSet(n, b, r)
             /\ NewLine(data, cursor, RunSet(n, b, r))
  <2>1. RunFits(data, b, n, K, r) /\ NewLine(data, cursor, RunSet(n, b, r))
    BY <1>2, RunShape, RunIsLine DEF R, n
  <2>2. r[1] \in Nat /\ r[2] \in Nat /\ r[1] <= r[2] /\ r[1]..r[2] \subseteq DOMAIN b
    BY <2>1 DEF RunFits
  <2>3. n \in CollinearPoints /\ \A j \in r[1]..r[2] : b[j] \in CollinearPoints
    <3>1. Len(data) \in Nat /\ cursor \in Nat
      BY <1>1 DEF FastInv, PointSequence
    <3>2. \A j \in r[1]..r[2] : \E k \in cursor..Len(data) : b[j] = data[k]
      BY <1>2, <2>2 DEF Seeking, BySlopeTo
    <3>3. cursor..Len(data) \subseteq 1..Len(data)
      BY <1>1, <3>1
    <3>4. \A k \in 1..Len(data) : data[k] \in CollinearPoints
      BY PointsAre DEF FastInv
    <3>5. QED
      BY <1>1, <3>2, <3>3, <3>4 DEF n
  <2> DEFINE lo == r[1]
             hi == r[2]
  <2> HIDE DEF lo, hi
  <2>4. lo \in Nat /\ hi \in Nat /\ lo <= hi /\ \A j \in lo..hi : b[j] \in CollinearPoints
    BY <2>2, <2>3 DEF lo, hi
  <2>5. /\ PutTogether(CollinearPoints, <<n>>, SubSeq(b, lo, hi), <<n>> \o SubSeq(b, lo, hi))
        /\ Queued(<<n>>) = {n} /\ Queued(SubSeq(b, lo, hi)) = {b[j] : j \in lo..hi}
    BY <2>3, <2>4, RunPrinted
  <2>6. /\ <<n>> \o SubSeq(b, lo, hi) \in Seq(CollinearPoints)
        /\ Queued(<<n>> \o SubSeq(b, lo, hi)) = {n} \cup {b[j] : j \in lo..hi}
    BY <2>5, Zenon DEF PutTogether
  <2>7. QED
    BY <2>1, <2>6, Zenon DEF lo, hi, RunSet
<1>7. DOMAIN v = DOMAIN f /\ \A k \in DOMAIN f : v[k] = <<n>> \o SubSeq(b, f[k][1], f[k][2])
  OBVIOUS
<1> HIDE DEF v
<1>8. \A k \in DOMAIN v : /\ v[k] \in Seq(CollinearPoints)
                          /\ Queued(v[k]) = RunSet(n, b, f[k])
                          /\ NewLine(data, cursor, RunSet(n, b, f[k]))
  <2>1. ASSUME NEW k \in DOMAIN v, NEW r, r = f[k]
        PROVE  /\ v[k] \in Seq(CollinearPoints)
               /\ Queued(v[k]) = RunSet(n, b, r)
               /\ NewLine(data, cursor, RunSet(n, b, r))
    <3>1. r \in R /\ v[k] = <<n>> \o SubSeq(b, r[1], r[2])
      BY <1>5, <1>7, <2>1
    <3>2. /\ <<n>> \o SubSeq(b, r[1], r[2]) \in Seq(CollinearPoints)
          /\ Queued(<<n>> \o SubSeq(b, r[1], r[2])) = RunSet(n, b, r)
          /\ NewLine(data, cursor, RunSet(n, b, r))
      BY <1>6, <3>1, Zenon
    <3>3. QED
      BY <3>1, <3>2, Zenon
  <2>2. QED
    BY <2>1, Zenon
<1>9. v \in Seq(Seq(CollinearPoints))
  <2>1. Cardinality(R) \in Nat
    <3>1. PICK d \in Nat : DOMAIN b = 1..d
      BY <1>2 DEF Seeking, BySlopeTo
    <3>2. IsFiniteSet((1..d) \X (1..d))
      <4>1. IsFiniteSet(1..d)
        BY FS_Interval
      <4>2. QED
        BY <4>1, FS_Product
    <3>3. R \subseteq (1..d) \X (1..d)
      BY <3>1 DEF R, RunsOf
    <3>4. QED
      BY <3>2, <3>3, FS_Subset, FS_CardinalityType
  <2>2. v = [k \in 1..Cardinality(R) |-> v[k]]
    BY <1>5 DEF v
  <2>3. \A k \in 1..Cardinality(R) : v[k] \in Seq(CollinearPoints)
    BY <1>5, <1>7, <1>8
  <2>4. v \in [1..Cardinality(R) -> Seq(CollinearPoints)]
    BY <2>2, <2>3
  <2>5. QED
    BY <2>1, <2>4
<1>10. LinesNew(data, cursor, v)
  <2>1. \A k \in DOMAIN v : NewLine(data, cursor, Queued(v[k]))
    BY <1>8
  <2>2. ASSUME NEW j \in DOMAIN v, NEW k \in DOMAIN v, Queued(v[j]) = Queued(v[k])
        PROVE  j = k
    <3>1. f[j] \in R /\ f[k] \in R /\ RunSet(n, b, f[j]) = RunSet(n, b, f[k])
      BY <1>5, <1>7, <1>8, <2>2
    <3>2. f[j] = f[k]
      BY <1>2, <3>1, RunsApart DEF R, n
    <3>3. QED
      BY <1>5, <1>7, <3>2
  <2>3. ASSUME NEW l, NewLine(data, cursor, l) PROVE \E k \in DOMAIN v : Queued(v[k]) = l
    <3>1. PICK r \in R : RunSet(n, b, r) = l
      BY <1>2, <2>3, LineIsRun DEF R, n
    <3>2. PICK k \in DOMAIN f : f[k] = r
      BY <1>5
    <3>3. QED
      BY <1>7, <1>8, <3>1, <3>2
  <2>4. QED
    BY <2>1, <2>2, <2>3 DEF LinesNew
<1>11. QED
  BY <1>3, <1>9, <1>10

\* and marks the points on them.
LEMMA SearchMarks ==
  ASSUME FastInv, AFast!Search
  PROVE  pending' = [p \in PointsOf(data) |->
                       IF Marked(AFast!BySlope,
                                 RunsOf(AFast!BySlope, data[cursor], pending[data[cursor]]), p)
                         THEN pending[p] \cup {AFast!Slope(data[cursor], p)} ELSE pending[p]]
<1> DEFINE b == AFast!BySlope
           R == RunsOf(b, data[cursor], pending[data[cursor]])
<1>1. AFast!Runs(b) = R
  BY RunsAre
<1>2. AFast!ToSet(data) = PointsOf(data)
  BY DEF AFast!ToSet, PointsOf
<1>3. pending' = [p \in AFast!ToSet(data) |->
                    IF \E r \in AFast!Runs(b) : \E j \in r[1]..r[2] : b[j] = p
                      THEN pending[p] \cup {AFast!Slope(data[cursor], p)} ELSE pending[p]]
  BY DEF AFast!Search, AFast!n
<1> HIDE DEF b, R
<1>4. QED
  BY <1>1, <1>2, <1>3 DEF Marked, b, R

\* So it goes on.
LEMMA SearchKeeps ==
  ASSUME FastInv, AFast!Search
  PROVE  FastInv'
<1> DEFINE b == AFast!BySlope
           n == data[cursor]
           R == RunsOf(b, n, pending[n])
<1>1. /\ PointSequence(data) /\ PointsOf(data) \subseteq CollinearPoints /\ Len(data) \in Nat
      /\ DOMAIN data = 1..Len(data)
      /\ cursor \in 1..Len(data) /\ cursor \in Nat \ {0}
      /\ data' = data /\ cursor' = cursor + 1
  <2>1. /\ PointSequence(data) /\ Len(data) \in Nat /\ DOMAIN data = 1..Len(data)
        /\ cursor \in 1..(Len(data) + 1) /\ cursor <= Len(data)
        /\ data' = data /\ cursor' = cursor + 1
        /\ PointsOf(data) \subseteq CollinearPoints
    BY DEF FastInv, AFast!Search, PointSequence
  <2>2. QED
    BY <2>1
<1>2. Seeking(data, cursor, b, pending[n])
  BY <1>1, NowSeeking
<1>3. pending' = [p \in PointsOf(data) |->
                    IF Marked(b, R, p) THEN pending[p] \cup {AFast!Slope(n, p)} ELSE pending[p]]
  BY SearchMarks
<1> HIDE DEF b, R, n
<1>4. PointSequence(data)' /\ (PointsOf(data) \subseteq CollinearPoints)'
  BY <1>1
<1>5. cursor' \in 1..(Len(data') + 1)
  BY <1>1
<1>6. pending' \in [PointsOf(data') -> SUBSET (Int \X Int)]
  <2>1. n \in Plane /\ PointsOf(data) \in SUBSET Plane
    BY <1>1, PointsAre DEF n
  <2>2. ASSUME NEW p \in PointsOf(data) PROVE pending'[p] \in SUBSET (Int \X Int)
    <3>1. AFast!Slope(n, p) \in Int \X Int
      BY <2>1, SlopeTyped
    <3>2. pending[p] \in SUBSET (Int \X Int)
      BY DEF FastInv
    <3>3. QED
      BY <1>3, <3>1, <3>2
  <2>3. QED
    BY <1>1, <1>3, <2>2
<1>7. ASSUME NEW k \in (cursor + 1)..Len(data)
      PROVE  KnowsLines(data, cursor + 1, data[k], pending'[data[k]])
  <2>1. k \in cursor..Len(data) /\ k \in 1..Len(data)
    BY <1>1
  <2>2. KnowsLines(data, cursor, data[k], pending[data[k]])
    BY <2>1 DEF FastInv
  <2>3. data[k] \in PointsOf(data)
    BY <1>1, <2>1, PointsAre
  <2>4. pending'[data[k]] = IF Marked(b, R, data[k])
                              THEN pending[data[k]] \cup {AFast!Slope(n, data[k])}
                              ELSE pending[data[k]]
    BY <1>3, <2>3
  <2>5. ASSUME NEW M, M = IF Marked(b, R, data[k])
                            THEN pending[data[k]] \cup {AFast!Slope(n, data[k])}
                            ELSE pending[data[k]]
        PROVE  KnowsLines(data, cursor + 1, data[k], M)
    BY <1>2, <2>2, <2>5, KnowsOn DEF R, n
  <2>6. QED
    BY <2>4, <2>5
<1>8. PICK v \in Seq(Seq(CollinearPoints)) :
             LinesNew(data, cursor, v) /\ result' = result \o v
  BY SearchPrints
<1>9. result \in Seq(Seq(CollinearPoints)) /\ LinesFound(data, cursor, result)
  BY DEF FastInv
<1>10. result \o v \in Seq(Seq(CollinearPoints))
  BY <1>9, ConcatProperties
<1>11. LinesFound(data, cursor + 1, result \o v)
  BY <1>1, <1>8, <1>9, FoundGrows
<1>12. \A k \in cursor'..Len(data') : KnowsLines(data', cursor', data'[k], pending'[data'[k]])
  BY <1>1, <1>7
<1>13. result' \in Seq(Seq(CollinearPoints)) /\ LinesFound(data', cursor', result')
  BY <1>1, <1>8, <1>10, <1>11
<1>14. QED
  BY <1>4, <1>5, <1>6, <1>12, <1>13 DEF FastInv

\* No point has found a line when the search begins,
LEMMA FastInit == AFast!Init => FastInv
<1>1. SUFFICES ASSUME AFast!Init PROVE FastInv
  OBVIOUS
<1>2. PICK s \in SUBSET CollinearPoints : data = AFast!Sorted(s)
  BY <1>1 DEF AFast!Init
<1> DEFINE d == Cardinality(s)
<1>3. s \in SUBSET Plane /\ IsFiniteSet(s) /\ d \in Nat
  BY CollinearPlane, FS_Subset, FS_CardinalityType
<1>4. InOrder(data, s, BeforeIn(s))
  BY <1>2, <1>3, SortedInOrder
<1>5. /\ DOMAIN data = 1..d /\ \A k \in 1..d : data[k] \in s
      /\ \A j, k \in 1..d : data[j] = data[k] => j = k
  BY <1>4 DEF InOrder
<1>6. data = [k \in 1..d |-> data[k]]
  <2> DEFINE e(k) == CHOOSE x \in s : AFast!Cardinality({y \in s : AFast!Before(y, x)}) = k - 1
  <2>1. data = [k \in 1..AFast!Cardinality(s) |-> e(k)]
    BY <1>2 DEF AFast!Sorted, AFast!Ranked
  <2>2. AFast!Cardinality(s) = d
    BY FastCounts
  <2> HIDE DEF d, e
  <2>3. data = [k \in 1..d |-> e(k)]
    BY <2>1, <2>2
  <2>4. QED
    BY <2>3
<1> HIDE DEF d
<1>7. data \in [1..d -> s]
  BY <1>5, <1>6
<1>8. data \in Seq(s)
  BY <1>3, <1>7
<1>9. Len(data) \in Nat /\ DOMAIN data = 1..Len(data)
  BY <1>8, LenProperties
<1>10. PointSequence(data)
  <2>1. \A k \in DOMAIN data : data[k] \in Plane
    BY <1>3, <1>5
  <2>2. \A j, k \in DOMAIN data : data[j] = data[k] => j = k
    BY <1>5
  <2>3. QED
    BY <1>9, <2>1, <2>2 DEF PointSequence
<1>11. PointsOf(data) \subseteq CollinearPoints
  BY <1>5 DEF PointsOf
<1>12. cursor = 1 /\ result = <<>> /\ pending = [p \in PointsOf(data) |-> {}]
  BY <1>1 DEF AFast!Init, AFast!ToSet, PointsOf
<1>13. \A l : ~Seen(data, 1, l)
  BY DEF Seen
<1>14. pending \in [PointsOf(data) -> SUBSET (Int \X Int)]
  BY <1>12
<1>15. \A k \in cursor..Len(data) : KnowsLines(data, cursor, data[k], pending[data[k]])
  <2>1. ASSUME NEW k \in 1..Len(data) PROVE KnowsLines(data, 1, data[k], pending[data[k]])
    <3>1. data[k] \in PointsOf(data)
      BY <1>10, PointsAre
    <3>2. pending[data[k]] = {}
      BY <1>12, <3>1
    <3>3. QED
      BY <1>13, <3>2 DEF KnowsLines
  <2>2. QED
    BY <1>12, <2>1
<1>16. result \in Seq(Seq(CollinearPoints)) /\ DOMAIN result = {}
  BY <1>12, EmptySeq
<1>17. LinesFound(data, cursor, result)
  BY <1>12, <1>13, <1>16 DEF LinesFound
<1>18. cursor \in 1..(Len(data) + 1)
  BY <1>9, <1>12
<1>19. QED
  BY <1>10, <1>11, <1>14, <1>15, <1>16, <1>17, <1>18 DEF FastInv

\* and what it keeps does as the program promises.
LEMMA FastAgrees == FastInv => AFast!TypeOK /\ AFast!LinesOnce
<1>1. SUFFICES ASSUME FastInv PROVE AFast!TypeOK /\ AFast!LinesOnce
  OBVIOUS
<1> DEFINE P == PointsOf(data)
           found == [k \in DOMAIN result |-> Queued(result[k])]
<1>2. /\ \A s : AFast!ToSet(s) = Queued(s)
      /\ \A g : AFast!IsInjective(g) <=> \A j, k \in DOMAIN g : g[j] = g[k] => j = k
  BY DEF AFast!ToSet, Queued, AFast!IsInjective
<1>3. /\ PointSequence(data) /\ P \subseteq CollinearPoints /\ AFast!ToSet(data) = P
      /\ cursor \in 1..(Len(data) + 1) /\ Len(data) \in Nat
      /\ pending \in [P -> SUBSET (Int \X Int)]
  BY <1>1, <1>2 DEF FastInv, PointSequence, PointsOf, Queued
<1>4. /\ P \in SUBSET Plane
      /\ \A k \in DOMAIN result : IsLine(P, Queued(result[k]))
      /\ \A j, k \in DOMAIN result : Queued(result[j]) = Queued(result[k]) => j = k
      /\ \A l : IsLine(P, l) /\ Seen(data, cursor, l)
                  => \E k \in DOMAIN result : Queued(result[k]) = l
  BY <1>1, <1>3, PointsAre DEF FastInv, LinesFound
<1>5. ASSUME NEW l, IsLine(P, l) PROVE l \subseteq P /\ \E p \in P : p \in l
  <2>1. PICK p \in P, q \in P : l = Through(P, p, AFast!Slope(p, q))
    BY <1>5 DEF IsLine
  <2>2. QED
    BY <2>1 DEF Through
<1>6. AFast!TypeOK
  <2>1. \A k \in DOMAIN result : AFast!ToSet(result[k]) \subseteq AFast!ToSet(data)
    BY <1>2, <1>3, <1>4, <1>5
  <2> HIDE DEF P
  <2>2. QED
    BY <1>3, <2>1 DEF AFast!TypeOK
<1>7. AFast!LinesOnce
  <2>1. found = [k \in DOMAIN result |-> AFast!ToSet(result[k])]
    BY <1>2
  <2>2. DOMAIN found = DOMAIN result /\ \A k \in DOMAIN result : found[k] = Queued(result[k])
    OBVIOUS
  <2> HIDE DEF found
  <2>3. AFast!IsInjective(found)
    <3>1. \A j, k \in DOMAIN found : found[j] = found[k] => j = k
      BY <1>4, <2>2
    <3>2. QED
      BY <1>2, <3>1
  <2>4. \A l : l \in AFast!ToSet(found) <=> \E k \in DOMAIN result : Queued(result[k]) = l
    BY <1>2, <2>2 DEF Queued
  <2>5. \A l : l \in AFast!Lines(P) <=> IsLine(P, l)
    BY LinesAre
  <2>6. AFast!ToSet(found) \subseteq AFast!Lines(P)
    BY <1>4, <2>4, <2>5
  <2>7. ASSUME cursor > Len(data), NEW l, IsLine(P, l)
        PROVE  l \in AFast!ToSet(found)
    <3>1. PICK p \in P : p \in l
      BY <1>5, <2>7
    <3>2. PICK k \in 1..Len(data) : p = data[k]
      BY <1>3, PointsAre
    <3>3. k \in 1..(cursor - 1)
      BY <1>3, <2>7
    <3>4. Seen(data, cursor, l)
      BY <3>1, <3>2, <3>3 DEF Seen
    <3>5. QED
      BY <1>4, <2>4, <2>7, <3>4
  <2>8. cursor > Len(data) => AFast!ToSet(found) = AFast!Lines(P)
    BY <2>5, <2>6, <2>7
  <2>9. AFast!LinesOnce <=>
          /\ AFast!IsInjective(found)
          /\ AFast!ToSet(found) \subseteq AFast!Lines(P)
          /\ cursor > Len(data) => AFast!ToSet(found) = AFast!Lines(P)
    BY <1>3, <2>1 DEF AFast!LinesOnce
  <2>10. QED
    BY <2>3, <2>6, <2>8, <2>9
<1>8. QED
  BY <1>6, <1>7

\* The invariant of the search for lines holds of the program.
THEOREM FastInvariance == Spec => [](program = "fast" => FastInv)
<1> DEFINE Inv == program = "fast" => FastInv
<1>1. Init => Inv
  BY FastInit DEF Init
<1>2. ASSUME Inv, [Next]_vars PROVE Inv'
  <2>1. SUFFICES ASSUME program' = "fast" PROVE FastInv'
    OBVIOUS
  <2>2. program = "fast" /\ FastInv
    BY <1>2, <2>1 DEF Next, vars
  <2>3. AFast!Search \/ UNCHANGED <<data, cursor, pending, result>>
    BY <1>2, <2>2 DEF Next, vars
  <2>4. CASE AFast!Search
    BY <2>2, <2>4, SearchKeeps
  <2>5. CASE UNCHANGED <<data, cursor, pending, result>>
    BY <2>2, <2>5 DEF FastInv
  <2>6. QED
    BY <2>3, <2>4, <2>5
<1>3. QED
  BY <1>1, <1>2, PTL DEF Spec

\* Fast.java: of any set of points every line with four of them or more is printed, once
\* and with all its points, although each of its points comes to look for it; nothing
\* else is printed.
THEOREM LinesSafe == Spec => []LinesOnce
<1>1. (program = "fast" => FastInv) => LinesOnce
  BY FastAgrees DEF LinesOnce
<1>2. QED
  BY <1>1, FastInvariance, PTL

-----------------------------------------------------------------------------
(* All programs together.                                                  *)

\* One of the programs runs.
LEMMA SomeProgram ==
  Spec => [](program \in {"deque", "randomizedQueue", "percolation", "topTransactions",
                          "solver", "kdTree", "fast"})
<1> DEFINE Inv == program \in {"deque", "randomizedQueue", "percolation", "topTransactions",
                               "solver", "kdTree", "fast"}
<1>1. Init => Inv
  BY DEF Init
<1>2. ASSUME Inv, [Next]_vars PROVE Inv'
  BY <1>2 DEF Next, vars
<1>3. QED
  BY <1>1, <1>2, PTL DEF Spec

\* Whichever program runs, every index is one of its array, every link one of its list
\* or tree, and every count that of what it counts.
THEOREM TypesSafe == Spec => []TypeOK
<1> DEFINE Inv == /\ program = "deque" => DequeInv
                  /\ program = "randomizedQueue" => QueueInv
                  /\ program = "percolation" => GridInv
                  /\ program = "topTransactions" => HeapInv
                  /\ program = "solver" => SolverInv
                  /\ program = "kdTree" => KdInv
                  /\ program = "fast" => FastInv
           Known == program \in {"deque", "randomizedQueue", "percolation", "topTransactions",
                                 "solver", "kdTree", "fast"}
<1>1. Inv /\ Known => TypeOK
  <2>1. SUFFICES ASSUME Inv, Known PROVE TypeOK
    OBVIOUS
  <2>2. CASE program = "deque"
    BY <2>1, <2>2, DequeAgrees DEF TypeOK
  <2>3. CASE program = "randomizedQueue"
    BY <2>1, <2>3, QueueAgrees DEF TypeOK
  <2>4. CASE program = "percolation"
    BY <2>1, <2>4, GridAgrees DEF TypeOK
  <2>5. CASE program = "topTransactions"
    BY <2>1, <2>5, HeapAgrees DEF TypeOK
  <2>6. CASE program = "solver"
    BY <2>1, <2>6, SolverAgrees DEF TypeOK
  <2>7. CASE program = "kdTree"
    BY <2>1, <2>7, KdAgrees DEF TypeOK
  <2>8. CASE program = "fast"
    BY <2>1, <2>8, FastAgrees DEF TypeOK
  <2>9. QED
    BY <2>1, <2>2, <2>3, <2>4, <2>5, <2>6, <2>7, <2>8
<1>2. QED
  BY <1>1, SomeProgram, DequeInvariance, QueueInvariance, GridInvariance, HeapInvariance,
     SolverInvariance, KdTreeInvariance, FastInvariance, PTL
=============================================================================
