--------------------------- MODULE DiningPrograms ---------------------------
(***************************************************************************)
(* The four dinners of PA2/submisions: a monitor that hands out both       *)
(* chopsticks at once, chopsticks with a lock each taken in a fixed order, *)
(* a monitor that looks at the neighbours' states, and a token that goes   *)
(* round.  Init picks a program, whose steps are then the only ones; the   *)
(* variables are that program's, under names they share.                   *)
(***************************************************************************)
EXTENDS Integers

CONSTANTS N,     \* philosophers, and forks or chopsticks
          Meals  \* meals of each of them, where the program counts them

\* With one philosopher both chopsticks are the same.
ASSUME NAssumption == N \in Nat /\ N >= 2
ASSUME MealsAssumption == Meals \in Nat \ {0}

VARIABLES program,  \* the program that runs
          pc,       \* where each philosopher is
          meals,    \* the meals each philosopher has had
          table,    \* what lies on the table: chopsticks, forks or states
          own,      \* what each philosopher knows: its call, a value read, a flag
          common,   \* what all of them share: a counter or the token
          over      \* main has seen the end of the dinner

vars == <<program, pc, meals, table, own, common, over>>

Monitored == INSTANCE MonitoredTable WITH i <- meals, chopsticks <- table
Hierarchy == INSTANCE ResourceHierarchy
               WITH second <- own, eaten <- meals, inUse <- table
States    == INSTANCE TableMonitor
               WITH i <- meals, states <- table, doneEating <- common, seen <- own
Token     == INSTANCE TokenDining WITH holder <- table, token <- common, end <- own

Init == \/ program = "monitored" /\ own = 0 /\ common = 0 /\ Monitored!Init
        \/ program = "hierarchy" /\ common = 0 /\ Hierarchy!Init
        \/ program = "states"    /\ States!Init
        \/ program = "token"     /\ meals = 0 /\ over = FALSE /\ Token!Init

\* A philosopher takes a step.
Step(p) ==
  /\ \/ program = "monitored" /\ p < N /\ Monitored!Step(p) /\ UNCHANGED <<own, common>>
     \/ program = "hierarchy" /\ p > 0 /\ Hierarchy!Step(p) /\ UNCHANGED common
     \/ program = "states"    /\ p > 0 /\ States!Step(p)
     \/ program = "token"     /\ p < N /\ Token!Step(p) /\ UNCHANGED <<meals, over>>
  /\ UNCHANGED program

\* main starts a thread, joins them, or tells one to end.
MainStep ==
  /\ \/ program = "monitored" /\ Monitored!MainStep /\ UNCHANGED <<own, common>>
     \/ program = "hierarchy" /\ Hierarchy!MainStep /\ UNCHANGED common
     \/ program = "states"    /\ States!MainStep
     \/ program = "token"     /\ Token!MainStep /\ UNCHANGED <<meals, over>>
  /\ UNCHANGED program

\* wait() or await() returns although nobody has woken the thread.
SpuriousWakeup(p) ==
  /\ \/ /\ program = "monitored" /\ p < N
        /\ Monitored!SpuriousWakeup(p) /\ UNCHANGED <<own, common>>
     \/ program = "hierarchy" /\ p > 0 /\ Hierarchy!SpuriousWakeup(p) /\ UNCHANGED common
     \/ program = "states" /\ p > 0 /\ States!SpuriousWakeup(p)
  /\ UNCHANGED program

\* The token program's 15 seconds are over.
TimeUp == program = "token" /\ Token!TimeUp /\ UNCHANGED <<program, meals, over>>

\* The dinner is over: the program may rest.  In the states program it is over
\* when all the philosophers have left; main may go on polling.
Ended == CASE program \in {"monitored", "hierarchy"} -> over
           [] program = "states" -> States!Ended
           [] program = "token"  -> Token!Ended
Rest == Ended /\ UNCHANGED vars

Next == \/ \E p \in 0..N : Step(p) \/ SpuriousWakeup(p)
        \/ MainStep
        \/ TimeUp
        \/ Rest

Spec == Init /\ [][Next]_vars

\* Every thread that can take a step takes it some day.
FairSpec == Spec /\ WF_vars(MainStep) /\ \A p \in 0..N : WF_vars(Step(p))

-----------------------------------------------------------------------------
\* Every program stays within its types: nobody eats more meals than it was
\* given, and the token always names a philosopher.
TypeOK == \/ program = "monitored" /\ Monitored!TypeOK
          \/ program = "hierarchy" /\ Hierarchy!TypeOK
          \/ program = "states"    /\ States!TypeOK
          \/ program = "token"     /\ Token!TypeOK

\* No wakeup is lost: a philosopher sits in wait() or await() only while what
\* it waits for is taken.
NoLostWakeup == CASE program = "monitored" -> Monitored!NoLostWakeup
                  [] program = "hierarchy" -> Hierarchy!NoLostSignal
                  [] program = "states"    -> States!NoLostWakeup
                  [] OTHER -> TRUE

\* Chopsticks and forks agree with who eats.  Monitored table: a chopstick is off
\* the table exactly while one of its two users eats.  Token: a fork's holder is p
\* exactly while p relies on having it, although holder is read and set in two
\* steps.  States: at least one philosopher does not eat (who may eat beside whom
\* is a matter of its own, see TableMonitor).
HoldersAgree == CASE program = "monitored" -> Monitored!SticksConsistent
                  [] program = "token"     -> Token!HoldersAgree
                  [] program = "states"    -> States!SomebodyThinks
                  [] OTHER -> TRUE

\* With the token, only the philosopher that has it reaches for forks.
OneReaches == program = "token" => Token!OneReaches

\* The states program never announces the end while a meal is still to come.
OverMeansEaten == program = "states" => States!OverMeansEaten

\* Seat p of the table, 1..N, as each program numbers its philosophers.
Seat(p) == IF program \in {"monitored", "token"} THEN p - 1 ELSE p

\* The monitored table and the hierarchy implement the abstract dining
\* specification: no chopstick is in two hands and everybody eats exactly its
\* meals.  (For the token dinner, which counts no meals, HoldersAgree says it;
\* the states program does not keep neighbours apart.)
Table == INSTANCE Dining
  WITH eating <- IF program \in {"monitored", "hierarchy"}
                 THEN {p \in 1..N : pc[Seat(p)] = "eat"} ELSE {},
       left <- [p \in 1..N |-> IF program \in {"monitored", "hierarchy"}
                               THEN Meals - meals[Seat(p)] ELSE Meals]
ImplementsDining == Table!Spec

\* Every philosopher of a program that counts meals gets all of them, in every
\* order in which the others come and go; the token dinner ends for everybody
\* once main has set the first flag.
DinnerEnds == (program = "token" => own[0]) ~> Ended

\* While the token dinner goes on, every philosopher eats again and again: with
\* an odd number of seats the steps of two visit everybody.
EveryoneKeepsEating ==
  \A p \in 0..(N - 1) : []<>(program = "token" => pc[p] = "eat" \/ own[0])
=============================================================================
