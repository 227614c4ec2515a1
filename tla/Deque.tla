------------------------------- MODULE Deque --------------------------------
(***************************************************************************)
(* PA2/assignment2/Deque.java: a doubly linked list, and an iterator that  *)
(* walks it while the list changes.  Nodes that have been removed keep     *)
(* their links.                                                            *)
(***************************************************************************)
EXTENDS Naturals, Sequences, Functions

CONSTANTS Items,
          MaxNodes  \* bound: nodes made in all

VARIABLES nodes,    \* nodes[n]: the item and the neighbours of the n-th node made
          begin, end,
          N,        \* items in the deque
          current,  \* where the iterator is
          owed,     \* history: nodes it has begun with and not come to yet
          result    \* what the last removal has returned

vars == <<nodes, begin, end, N, current, owed, result>>

null == 0
NewNode == Len(nodes) + 1

\* The nodes with node n's field f set to m.
Linked(ns, n, f, m) == [ns EXCEPT ![n] = IF f = "next" THEN [@ EXCEPT !.next = m]
                                                       ELSE [@ EXCEPT !.previous = m]]

Init == /\ nodes = <<>>
        /\ begin = null /\ end = null
        /\ N = 0
        /\ current = null
        /\ owed = {}
        /\ result = "none"

AddFirst(item) ==
  /\ Len(nodes) < MaxNodes
  /\ LET made == Append(nodes, [item |-> item, next |-> begin, previous |-> null])
     IN IF N = 0
        THEN /\ nodes' = made
             /\ end' = NewNode
        ELSE /\ nodes' = Linked(made, begin, "previous", NewNode)
             /\ UNCHANGED end
  /\ begin' = NewNode
  /\ N' = N + 1
  /\ UNCHANGED <<current, owed, result>>

AddLast(item) ==
  /\ Len(nodes) < MaxNodes
  /\ LET made == Append(nodes, [item |-> item, next |-> null, previous |-> end])
     IN IF N = 0
        THEN /\ nodes' = made
             /\ begin' = NewNode
        ELSE /\ nodes' = Linked(made, end, "next", NewNode)
             /\ UNCHANGED begin
  /\ end' = NewNode
  /\ N' = N + 1
  /\ UNCHANGED <<current, owed, result>>

\* Mutant of Front: the new front keeps its link to the node that has gone.
LooseFront(n) == nodes

\* Mutant of Front: the node that has gone loses its link as well.
Unlinked(n) == Linked(Linked(nodes, n, "previous", null), begin, "next", null)

\* The nodes once n is the first of them.
Front(n) == Linked(nodes, n, "previous", null)

\* Mutant of FirstItem: the item is read when begin has moved on.
SecondItem == nodes[IF N = 1 THEN begin ELSE nodes[begin].next].item

FirstItem == nodes[begin].item

RemoveFirst ==
  /\ N # 0
  /\ result' = FirstItem
  /\ IF N = 1
     THEN begin' = null /\ end' = null /\ UNCHANGED nodes
     ELSE /\ begin' = nodes[begin].next
          /\ nodes' = Front(nodes[begin].next)
          /\ UNCHANGED end
  /\ N' = N - 1
  /\ UNCHANGED <<current, owed>>

\* The nodes once n is the last of them.
Back(n) == Linked(nodes, n, "next", null)

RemoveLast ==
  /\ N # 0
  /\ result' = nodes[end].item
  /\ IF N = 1
     THEN begin' = null /\ end' = null /\ UNCHANGED nodes
     ELSE /\ end' = nodes[end].previous
          /\ nodes' = Back(nodes[end].previous)
          /\ UNCHANGED begin
  /\ N' = N - 1
  /\ UNCHANGED <<current, owed>>

\* The first k nodes on the way from node n along the links of field f.
Walk(n, f, k) ==
  LET w[i \in 1..k] == IF i = 1 THEN n
                       ELSE IF w[i - 1] = null THEN null
                       ELSE nodes[w[i - 1]][f]
  IN w

\* The nodes of the deque.
Members == Range(Walk(begin, "next", N))

\* iterator().
StartIterator == /\ current' = begin
                 /\ owed' = Members
                 /\ UNCHANGED <<nodes, begin, end, N, result>>

\* ListIterator.next.
NextItem == /\ current # null
            /\ current' = nodes[current].next
            /\ owed' = owed \ {current}
            /\ UNCHANGED <<nodes, begin, end, N, result>>

Next == \/ \E item \in Items : AddFirst(item) \/ AddLast(item)
        \/ RemoveFirst \/ RemoveLast
        \/ StartIterator \/ NextItem

Spec == Init /\ [][Next]_vars

-----------------------------------------------------------------------------
TypeOK == /\ nodes \in Seq([item : Items, next : 0..MaxNodes, previous : 0..MaxNodes])
          /\ {begin, end, current} \subseteq null..Len(nodes)
          /\ N \in 0..Len(nodes)
          /\ owed \subseteq 1..Len(nodes)
          /\ result \in Items \cup {"none"}

\* Read from either end, the list is the same: the links mirror each other
\* however additions and removals at the two ends alternate, and the two ends
\* have nothing beyond them.
LinksMirror ==
  LET there == Walk(begin, "next", N + 1)
      back == Walk(end, "previous", N + 1)
  IN /\ \A i \in 1..N : there[i] # null /\ there[i] = back[N + 1 - i]
     /\ there[N + 1] = null /\ back[N + 1] = null

\* Whatever is removed or added meanwhile, an iterator misses nothing that has
\* been in the deque all the time: it is still ahead, even of an iterator on a
\* node that has itself been removed.
NothingSkipped ==
  owed \cap Members \subseteq Range(Walk(current, "next", Len(nodes)))

\* The deque is a sequence of items.
Contents == [i \in 1..N |-> IF Walk(begin, "next", N)[i] = null THEN "none"
                            ELSE nodes[Walk(begin, "next", N)[i]].item]
Sequence == INSTANCE ItemSequence WITH items <- Contents
ImplementsSequence == Sequence!Spec
=============================================================================
