-------------------------- MODULE TopTransactions ---------------------------
(***************************************************************************)
(* adaptv/TopTransactions.java: the N largest amounts of a stream of       *)
(* transactions, in a heap that knows the least of them and in a map from  *)
(* the amount to the customers.  get() sorts every list of customers in    *)
(* place before it shows it and changes nothing else, so that the order in *)
(* a list is never seen: a list is a bag of customers.                     *)
(***************************************************************************)
EXTENDS Integers, Sequences, FiniteSets, Functions

CONSTANTS TopN,             \* N
          Amounts,
          Customers,
          MaxTransactions   \* bound: transactions in all

VARIABLES topN,    \* topN[a][c]: how often customer c is in the list of amount a
          pq,      \* pq[a]: how often amount a is in the heap
          size,    \* how many the heap counts
          history  \* history variable: the transactions so far

vars == <<topN, pq, size, history>>

Init == /\ topN = <<>>
        /\ pq = [a \in Amounts |-> 0]
        /\ size = 0
        /\ history = <<>>

Least(amounts) == CHOOSE a \in amounts : \A b \in amounts : a <= b
Peek == Least({a \in Amounts : pq[a] > 0})
Full == size = TopN

\* Mutant of Ignored: an amount has to be below all of the heap by more.
IgnoredNearly(amount) == Full /\ amount < Peek - 1

\* The transaction is too small.
Ignored(amount) == Full /\ amount < Peek

\* Mutant of Kept: the map forgets nothing.
KeptAll == topN

\* The map without the least amount, when the heap is full.
Kept == IF Full THEN Restrict(topN, DOMAIN topN \ {Peek}) ELSE topN

\* The heap without it.
Polled == IF Full THEN [pq EXCEPT ![Peek] = @ - 1] ELSE pq

\* add(cust_id, amount).
Add(cust_id, amount) ==
  /\ Len(history) < MaxTransactions
  /\ history' = Append(history, <<cust_id, amount>>)
  /\ IF amount \in DOMAIN topN
     THEN /\ topN' = [topN EXCEPT ![amount][cust_id] = @ + 1]
          /\ UNCHANGED <<pq, size>>
     ELSE IF Ignored(amount)
     THEN UNCHANGED <<topN, pq, size>>
     ELSE /\ topN' = [a \in DOMAIN Kept \cup {amount} |->
                        IF a = amount THEN [c \in Customers |-> IF c = cust_id THEN 1 ELSE 0]
                        ELSE Kept[a]]
          /\ pq' = [Polled EXCEPT ![amount] = @ + 1]
          /\ size' = IF Full THEN size ELSE size + 1

Next == \E c \in Customers, a \in Amounts : Add(c, a)

Spec == Init /\ [][Next]_vars

-----------------------------------------------------------------------------
TypeOK == /\ topN \in [DOMAIN topN -> [Customers -> Nat]]
          /\ DOMAIN topN \subseteq Amounts
          /\ pq \in [Amounts -> Nat]
          /\ size \in 0..TopN
          /\ history \in Seq(Customers \X Amounts)

\* The heap and the map have the same amounts, each once, and the heap counts
\* them right: get() finds customers for every key of the heap.
KeysAgree == /\ \A a \in Amounts : pq[a] = IF a \in DOMAIN topN THEN 1 ELSE 0
             /\ size = Cardinality(DOMAIN topN)

Seen == {history[i][2] : i \in DOMAIN history}

\* The amounts kept are the N largest of all that have come, and no transaction
\* of such an amount is missing from them, although an amount may have been
\* there, small ones may have been thrown out and others turned away before.
LargestKept ==
  /\ DOMAIN topN = {a \in Seen : Cardinality({b \in Seen : b > a}) < TopN}
  /\ \A a \in DOMAIN topN, c \in Customers :
       topN[a][c] = Cardinality({i \in DOMAIN history : history[i] = <<c, a>>})
=============================================================================
