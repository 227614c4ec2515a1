--------------------------- MODULE MonitoredTable ---------------------------
(***************************************************************************)
(* The table of PA2/submisions/DiningPhilosophers.java: a monitor whose    *)
(* pickSticks takes both chopsticks at once or waits, and whose            *)
(* putDownSticks gives both back and wakes everybody.  The methods are     *)
(* synchronized, so each is one step up to its return or its wait().       *)
(***************************************************************************)
EXTENDS Integers

CONSTANTS N,     \* philosophers and chopsticks
          Meals  \* times each of them eats

VARIABLES
  pc,          \* pc[p]: where philosopher p is
  i,           \* i[p]: the loop counter of run, the meals p has had
  chopsticks,  \* chopsticks[c]: chopstick c lies on the table
  over         \* main has joined everybody and printed "Dinner is over!"

vars == <<pc, i, chopsticks, over>>

Pids == 0..(N - 1)

\* index2 of pickSticks and putDownSticks; index1 is the pid itself.
Index2(p) == IF p = 0 THEN N - 1 ELSE p - 1
Sticks(p) == {p, Index2(p)}

\* Mutant of BothFree: && instead of || in the waiting condition.
OneFree(p) == \E c \in Sticks(p) : chopsticks[c]

BothFree(p) == \A c \in Sticks(p) : chopsticks[c]

Waiting == {p \in Pids : pc[p] = "wait"}

\* Mutant of Woken: notify() instead of notifyAll().
WokenOne == IF Waiting = {} THEN {{}} ELSE {{p} : p \in Waiting}

\* Mutant of Woken: no notifyAll() at all.
WokenNone == {{}}

\* The sets of threads that notifyAll() may wake: only all of them.
Woken == {Waiting}

\* Mutant of LastMeal: the loop goes on while i <= nTimesToEat.
LastMealButOne(p) == i[p] = Meals

\* The call of run that is ending was the last one.
LastMeal(p) == i[p] + 1 = Meals

Init == /\ pc = [p \in Pids |-> "new"]
        /\ i = [p \in Pids |-> 0]
        /\ chopsticks = [c \in Pids |-> TRUE]
        /\ over = FALSE

\* main starts the threads in order.
Start(p) == /\ pc[p] = "new"
            /\ \A q \in Pids : pc[q] = "new" => p <= q
            /\ pc' = [pc EXCEPT ![p] = "pick"]
            /\ UNCHANGED <<i, chopsticks, over>>

\* main returns from the last join().
JoinAll == /\ ~over
           /\ \A p \in Pids : pc[p] = "done"
           /\ over' = TRUE
           /\ UNCHANGED <<pc, i, chopsticks>>

PickSticks(p) == /\ pc[p] = "pick"
                 /\ BothFree(p)
                 /\ chopsticks' = [c \in Pids |-> chopsticks[c] /\ c \notin Sticks(p)]
                 /\ pc' = [pc EXCEPT ![p] = "eat"]
                 /\ UNCHANGED <<i, over>>

Wait(p) == /\ pc[p] = "pick"
           /\ ~BothFree(p)
           /\ pc' = [pc EXCEPT ![p] = "wait"]
           /\ UNCHANGED <<i, chopsticks, over>>

\* wait() may return although nobody called notifyAll().
SpuriousWakeup(p) == /\ pc[p] = "wait"
                     /\ pc' = [pc EXCEPT ![p] = "pick"]
                     /\ UNCHANGED <<i, chopsticks, over>>

PutDownSticks(p) ==
  /\ pc[p] = "eat"
  /\ chopsticks' = [c \in Pids |-> chopsticks[c] \/ c \in Sticks(p)]
  /\ \E woken \in Woken :
       pc' = [q \in Pids |-> IF q = p
                               THEN IF LastMeal(p) THEN "done" ELSE "pick"
                               ELSE IF q \in woken THEN "pick" ELSE pc[q]]
  /\ i' = [i EXCEPT ![p] = @ + 1]
  /\ UNCHANGED over

Step(p) == PickSticks(p) \/ Wait(p) \/ PutDownSticks(p)

MainStep == JoinAll \/ \E p \in Pids : Start(p)

Next == MainStep \/ \E p \in Pids : Step(p) \/ SpuriousWakeup(p)

Spec == Init /\ [][Next]_vars

-----------------------------------------------------------------------------
TypeOK == /\ pc \in [Pids -> {"new", "pick", "wait", "eat", "done"}]
          /\ i \in [Pids -> 0..Meals]
          /\ chopsticks \in [Pids -> BOOLEAN]
          /\ over \in BOOLEAN

\* A chopstick is off the table exactly while one of its two users eats.
SticksConsistent ==
  \A c \in Pids :
    ~chopsticks[c] <=> \E p \in Pids : pc[p] = "eat" /\ c \in Sticks(p)

\* No wakeup is lost: a philosopher sits in wait() only while one of its two
\* chopsticks is taken.
NoLostWakeup == \A p \in Pids : pc[p] = "wait" => ~BothFree(p)
=============================================================================
