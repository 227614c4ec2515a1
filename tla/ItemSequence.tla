--------------------------- MODULE ItemSequence -----------------------------
(***************************************************************************)
(* What a deque promises: a sequence that grows and shrinks at either end. *)
(***************************************************************************)
EXTENDS Naturals, Sequences

CONSTANTS Items

VARIABLES items,
          result   \* what the last removal has returned

AddFirst(i) == items' = <<i>> \o items /\ UNCHANGED result
AddLast(i) == items' = Append(items, i) /\ UNCHANGED result

RemoveFirst == /\ items # <<>>
               /\ items' = Tail(items)
               /\ result' = Head(items)

RemoveLast == /\ items # <<>>
              /\ items' = SubSeq(items, 1, Len(items) - 1)
              /\ result' = items[Len(items)]

Init == items = <<>> /\ result = "none"
Next == (\E i \in Items : AddFirst(i) \/ AddLast(i)) \/ RemoveFirst \/ RemoveLast
Spec == Init /\ [][Next]_<<items, result>>
=============================================================================
