---------------------------- MODULE TableMonitor ----------------------------
(***************************************************************************)
(* The table of PA2/submisions/DiningPhilosophers2.java: pickUp waits      *)
(* while the entries it takes for its neighbours' say EATING, putDown      *)
(* resets the philosopher's own entry and wakes everybody, and a counter   *)
(* of the philosophers that are done tells main when dinner is over.       *)
(*                                                                         *)
(* pickUp and putDown are synchronized, one step each up to their wait();  *)
(* iAmDone and allDone are not, and doneEating++ reads and then writes.    *)
(***************************************************************************)
EXTENDS Integers

CONSTANTS N,     \* philosophers
          Meals  \* times each of them eats

VARIABLES
  pc,          \* pc[p]: where philosopher p is
  i,           \* i[p]: the meals p has had
  states,      \* states[k], for the indexes 0..N-1 of the array
  doneEating,  \* the counter main polls
  seen,        \* seen[p]: the value of doneEating that p has read
  over         \* main has seen allDone() and printed "Dinner is over!"

vars == <<pc, i, states, doneEating, seen, over>>

Philosophers == 1..N

\* The entry philosopher p writes.
Own(p) == p - 1

\* Mutant of Checked: no entry is tested.
CheckedNone(p) == {}

\* The two entries that pickUp tests: p's own one and that of p + 2.
Checked(p) == {(p - 1) % N, (p + 1) % N}

Clear(p) == \A k \in Checked(p) : states[k] # "EATING"

Waiting == {p \in Philosophers : pc[p] = "wait"}

\* Mutant of Woken: putDown does not call notifyAll().
WokenNobody == {}

\* notifyAll() wakes all that wait.
Woken == Waiting

\* Mutant of AllDone: off by one.
AllButOneDone == doneEating + 1 >= N

AllDone == doneEating = N

\* Mutant of LastMeal: an off by one in the test of run's loop.
LastMealMissed(p) == i[p] = Meals

\* The pickUp, eat, putDown that is ending was the last one.
LastMeal(p) == i[p] + 1 = Meals

Init == /\ pc = [p \in Philosophers |-> "new"]
        /\ i = [p \in Philosophers |-> 0]
        /\ states = [k \in 0..(N - 1) |-> "THINKING"]
        /\ doneEating = 0
        /\ seen = [p \in Philosophers |-> 0]
        /\ over = FALSE

\* main starts the threads in order.
Start(p) == /\ pc[p] = "new"
            /\ \A q \in Philosophers : pc[q] = "new" => p <= q
            /\ pc' = [pc EXCEPT ![p] = "pick"]
            /\ UNCHANGED <<i, states, doneEating, seen, over>>

\* main finds allDone() between two of its sleeps.
Announce == /\ ~over
            /\ \A p \in Philosophers : pc[p] # "new"
            /\ AllDone
            /\ over' = TRUE
            /\ UNCHANGED <<pc, i, states, doneEating, seen>>

PickUp(p) == /\ pc[p] = "pick"
             /\ Clear(p)
             /\ states' = [states EXCEPT ![Own(p)] = "EATING"]
             /\ pc' = [pc EXCEPT ![p] = "eat"]
             /\ UNCHANGED <<i, doneEating, seen, over>>

Wait(p) == /\ pc[p] = "pick"
           /\ ~Clear(p)
           /\ pc' = [pc EXCEPT ![p] = "wait"]
           /\ UNCHANGED <<i, states, doneEating, seen, over>>

\* wait() may return although nobody called notifyAll().
SpuriousWakeup(p) == /\ pc[p] = "wait"
                     /\ pc' = [pc EXCEPT ![p] = "pick"]
                     /\ UNCHANGED <<i, states, doneEating, seen, over>>

PutDown(p) ==
  /\ pc[p] = "eat"
  /\ states' = [states EXCEPT ![Own(p)] = "THINKING"]
  /\ pc' = [q \in Philosophers |->
              CASE q = p -> IF LastMeal(p) THEN "iAmDone" ELSE "pick"
                [] q # p /\ q \in Woken -> "pick"
                [] OTHER -> pc[q]]
  /\ i' = [i EXCEPT ![p] = @ + 1]
  /\ UNCHANGED <<doneEating, seen, over>>

\* iAmDone: the read and the write of doneEating++, with no lock held.
ReadDone(p) == /\ pc[p] = "iAmDone"
               /\ seen' = [seen EXCEPT ![p] = doneEating]
               /\ pc' = [pc EXCEPT ![p] = "write"]
               /\ UNCHANGED <<i, states, doneEating, over>>

WriteDone(p) == /\ pc[p] = "write"
                /\ doneEating' = seen[p] + 1
                /\ pc' = [pc EXCEPT ![p] = "done"]
                /\ UNCHANGED <<i, states, seen, over>>

Step(p) == PickUp(p) \/ Wait(p) \/ PutDown(p) \/ ReadDone(p) \/ WriteDone(p)

MainStep == Announce \/ \E p \in Philosophers : Start(p)

\* All the philosophers have left; main may poll for ever.
Ended == \A p \in Philosophers : pc[p] = "done"
Left == Ended /\ UNCHANGED vars

Next == \/ MainStep
        \/ \E p \in Philosophers : Step(p) \/ SpuriousWakeup(p)
        \/ Left

Spec == Init /\ [][Next]_vars

-----------------------------------------------------------------------------
TypeOK == /\ pc \in [Philosophers -> {"new", "pick", "wait", "eat", "iAmDone",
                                      "write", "done"}]
          /\ i \in [Philosophers -> 0..Meals]
          /\ states \in [0..(N - 1) -> {"THINKING", "EATING"}]
          /\ doneEating \in 0..N
          /\ seen \in [Philosophers -> 0..(N - 1)]
          /\ over \in BOOLEAN

\* A philosopher sits in wait() only while an entry it tests says EATING:
\* whoever changes that wakes it.
NoLostWakeup == \A p \in Philosophers : pc[p] = "wait" => ~Clear(p)

\* The wrong index still keeps one philosopher from eating: the last of the
\* circle p, p + 2, p + 4, ... to sit down finds its successor eating.
SomebodyThinks == \E p \in Philosophers : pc[p] # "eat"

\* main never announces the end while somebody still has a meal to finish.
OverMeansEaten == over => \A p \in Philosophers : i[p] = Meals

\* What pickUp's comments say: nobody eats beside an eating philosopher.
NeighboursApart == \A p \in Philosophers :
                     ~(pc[p] = "eat" /\ pc[(p % N) + 1] = "eat")
=============================================================================
