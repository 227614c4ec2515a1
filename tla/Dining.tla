------------------------------- MODULE Dining -------------------------------
(***************************************************************************)
(* What every dining-philosophers program of the repository promises, with *)
(* no locks, chopstick flags or signals: philosophers 1..N sit in a ring,  *)
(* each eats Meals times, and two philosophers that share a chopstick      *)
(* never eat at the same time.  The programs are shown to implement it     *)
(* through INSTANCE Dining WITH a refinement mapping.                      *)
(***************************************************************************)
EXTENDS Naturals

CONSTANTS N,      \* number of philosophers (and of chopsticks)
          Meals   \* how many times each of them eats


VARIABLES eating, \* the philosophers that are eating
          left    \* left[p]: the meals philosopher p still has to finish

vars == <<eating, left>>

Philosophers == 1..N

\* Philosopher p sits between chopstick p (right) and the next one (left).
Right(p) == p
Left(p) == (p % N) + 1
Chopsticks(p) == {Right(p), Left(p)}

Init == /\ eating = {}
        /\ left = [p \in Philosophers |-> Meals]

\* p sits down to a meal: nobody that shares a chopstick with p is eating.
Start(p) == /\ p \notin eating
            /\ left[p] > 0
            /\ \A q \in eating : Chopsticks(q) \cap Chopsticks(p) = {}
            /\ eating' = eating \cup {p}
            /\ UNCHANGED left

\* p finishes its meal.
Finish(p) == /\ p \in eating
             /\ eating' = eating \ {p}
             /\ left' = [left EXCEPT ![p] = @ - 1]

Next == \E p \in Philosophers : Start(p) \/ Finish(p)

Spec == Init /\ [][Next]_vars
=============================================================================
