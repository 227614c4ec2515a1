-------------------------- MODULE RandomizedQueue ---------------------------
(***************************************************************************)
(* PA2/assignment2/RandomizedQueue.java: an array with holes.  A dequeue   *)
(* leaves a hole behind, an enqueue fills the latest hole, and an array    *)
(* that is less than half full is compacted before the next item is drawn. *)
(***************************************************************************)
EXTENDS Naturals, Sequences, FiniteSets, Functions

CONSTANTS Items,
          initialCapacity,
          MaxCount          \* bound: items in the queue

VARIABLES array,       \* array[i], or null
          lastIndex,   \* from here on nothing has been stored
          count,
          emptySites,  \* the holes, the latest first
          result       \* what the last dequeue or sample has returned

vars == <<array, lastIndex, count, emptySites, result>>

null == "null"
length == Cardinality(DOMAIN array)
Empty(n) == [i \in 0..(n - 1) |-> null]

Init == /\ array = Empty(initialCapacity)
        /\ lastIndex = 0
        /\ count = 0
        /\ emptySites = <<>>
        /\ result = "none"

\* resize(), when the array is full.
Resized == IF count = length
           THEN [i \in 0..(2 * length - 1) |-> IF i < length THEN array[i] ELSE null]
           ELSE array

Enqueue(item) ==
  /\ count < MaxCount
  /\ IF emptySites # <<>>
     THEN /\ array' = [array EXCEPT ![Head(emptySites)] = item]
          /\ emptySites' = Tail(emptySites)
          /\ UNCHANGED lastIndex
     ELSE /\ array' = [Resized EXCEPT ![lastIndex] = item]
          /\ lastIndex' = lastIndex + 1
          /\ UNCHANGED emptySites
  /\ count' = count + 1
  /\ UNCHANGED result

TooEmpty == count < length \div 2 /\ length > initialCapacity

\* compact(): the items in their order, without the holes.
Filled == {i \in DOMAIN array : array[i] # null}
Compacted == [i \in 0..(length \div 2 - 1) |->
                IF i < count
                THEN array[CHOOSE s \in Filled : Cardinality({r \in Filled : r < s}) = i]
                ELSE null]

\* Mutant of NoSites: the holes are remembered across a compaction.
OldSites == emptySites

\* emptySites after a compaction.
NoSites == <<>>

\* What the draw starts from: the array, its fields and its holes.
Drawn == IF TooEmpty
         THEN [array |-> Compacted, lastIndex |-> count, emptySites |-> NoSites]
         ELSE [array |-> array, lastIndex |-> lastIndex, emptySites |-> emptySites]

\* The loop that draws an index until an item is there.
Drawable(i) == i < Drawn.lastIndex /\ Drawn.array[i] # null

Dequeue(i) ==
  /\ count > 0
  /\ Drawable(i)
  /\ array' = [Drawn.array EXCEPT ![i] = null]
  /\ emptySites' = <<i>> \o Drawn.emptySites
  /\ lastIndex' = Drawn.lastIndex
  /\ count' = count - 1
  /\ result' = Drawn.array[i]

Sample(i) ==
  /\ count > 0
  /\ Drawable(i)
  /\ array' = Drawn.array
  /\ emptySites' = Drawn.emptySites
  /\ lastIndex' = Drawn.lastIndex
  /\ result' = Drawn.array[i]
  /\ UNCHANGED count

Next == \/ \E item \in Items : Enqueue(item)
        \/ \E i \in DOMAIN array : Dequeue(i) \/ Sample(i)

Spec == Init /\ [][Next]_vars

-----------------------------------------------------------------------------
TypeOK == /\ array \in [0..(length - 1) -> Items \cup {null}]
          /\ lastIndex \in 0..length
          /\ count \in 0..MaxCount
          /\ emptySites \in Seq(DOMAIN array)
          /\ result \in Items \cup {"none"}

\* The three fields agree, whatever calls have been made: emptySites lists every
\* hole below lastIndex once and nothing else, there is nothing from lastIndex
\* on, and count is the number of items, so that a draw always finds one and an
\* iterator finds count of them (the assertion in ListIterator).
SitesAgree ==
  /\ Range(emptySites) = {i \in 0..(lastIndex - 1) : array[i] = null}
  /\ IsInjective(emptySites)
  /\ \A i \in DOMAIN array : i >= lastIndex => array[i] = null
  /\ count = Cardinality(Filled)
=============================================================================
