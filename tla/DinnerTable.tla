---------------------------- MODULE DinnerTable -----------------------------
(***************************************************************************)
(* The dining table of posa/diningphilosophers/DinnerTable.java: one       *)
(* ReentrantLock, one Condition and one flag per chopstick, a thread per   *)
(* philosopher started by main, and main spinning until all have left.     *)
(*                                                                         *)
(* The flags are read and written only under the lock, so getChopStick (up *)
(* to its return or to await(), which gives the lock up) and               *)
(* releaseChopStick are one step each.  A Condition may also wake a thread *)
(* nobody signalled, any number of times.                                  *)
(***************************************************************************)
EXTENDS Naturals, TLAPS

CONSTANTS N,     \* NO_OF_PHILOSOPHERS
          Meals  \* NO_OF_TIMES_EAT

\* With one philosopher both chopsticks are the same and eat() blocks on itself.
ASSUME NAssumption == N \in Nat /\ N >= 2
ASSUME MealsAssumption == Meals \in Nat

VARIABLES
  pc,         \* pc[p]: where philosopher p is
  round,      \* round[p]: 1st or 2nd chopstick being taken or put back
  counter,    \* counter[p]: meals p still has to eat
  available,  \* available[c] = 1 when chopstick c lies on the table
  over        \* main has printed "Dinner is over!"

vars == <<pc, round, counter, available, over>>

Philosophers == 1..N

Right(p) == p
Left(p) == (p % N) + 1

\* Mutant of First: everybody takes the right chopstick first.
FirstIsRight(p) == Right(p)

\* Even philosophers take the left chopstick first, odd ones the right one.
First(p) == IF p % 2 = 0 THEN Left(p) ELSE Right(p)
Second(p) == IF p % 2 = 0 THEN Right(p) ELSE Left(p)

\* Mutant of Returned: the right chopstick is put back twice.
ReturnedTwice(p) == Right(p)

\* The argument of the getChopStick or releaseChopStick call p is in.
Wanted(p) == IF round[p] = 1 THEN First(p) ELSE Second(p)
Returned(p) == IF round[p] = 1 THEN Right(p) ELSE Left(p)

\* Mutant of Free: the flag is not tested.
AlwaysFree(p) == TRUE

\* The test of the while loop round await().
Free(p) == available[Wanted(p)] # 0

\* Mutant of MealsToEat: counter >= 0 keeps the loop going.
OneMealMore(p) == counter[p] + 1 # 0

\* The test of the loop in Philosopher.run.
MealsToEat(p) == counter[p] # 0

Waiting(c) == {q \in Philosophers : pc[q] = "await" /\ Wanted(q) = c}

\* Mutant of Signalled: the signal is forgotten.
NobodySignalled(c) == {{}}

\* signal() wakes one of the threads that wait for c, if there is one.
Signalled(c) == IF Waiting(c) = {} THEN {{}} ELSE {{q} : q \in Waiting(c)}

Init == /\ pc = [p \in Philosophers |-> "new"]
        /\ round = [p \in Philosophers |-> 1]
        /\ counter = [p \in Philosophers |-> Meals]
        /\ available = [c \in Philosophers |-> 1]
        /\ over = FALSE

\* main: executor.execute(p), in the order of the for loop.
Execute(p) == /\ pc[p] = "new"
              /\ \A q \in Philosophers : pc[q] = "new" => p <= q
              /\ pc' = [pc EXCEPT ![p] = "run"]
              /\ UNCHANGED <<round, counter, available, over>>

\* main: isTerminated() is true once every task has been started and is done.
DinnerIsOver == /\ ~over
                /\ \A p \in Philosophers : pc[p] = "done"
                /\ over' = TRUE
                /\ UNCHANGED <<pc, round, counter, available>>

\* Philosopher.run: one more call of eat(), or the end of the task.
Run(p) == /\ pc[p] = "run"
          /\ pc' = [pc EXCEPT ![p] = IF MealsToEat(p) THEN "get" ELSE "done"]
          /\ round' = [round EXCEPT ![p] = 1]
          /\ UNCHANGED <<counter, available, over>>

\* getChopStick finds the chopstick on the table and takes it.
Take(p) == /\ pc[p] = "get"
           /\ Free(p)
           /\ available' = [available EXCEPT ![Wanted(p)] = 0]
           /\ pc' = [pc EXCEPT ![p] = IF round[p] = 1 THEN "get" ELSE "eat"]
           /\ round' = [round EXCEPT ![p] = 2]
           /\ UNCHANGED <<counter, over>>

\* getChopStick finds it taken and waits for a signal.
Await(p) == /\ pc[p] = "get"
            /\ ~Free(p)
            /\ pc' = [pc EXCEPT ![p] = "await"]
            /\ UNCHANGED <<round, counter, available, over>>

\* await() returns although nobody signalled: the flag is tested again.
SpuriousWakeup(p) == /\ pc[p] = "await"
                     /\ pc' = [pc EXCEPT ![p] = "get"]
                     /\ UNCHANGED <<round, counter, available, over>>

Eat(p) == /\ pc[p] = "eat"
          /\ pc' = [pc EXCEPT ![p] = "release"]
          /\ round' = [round EXCEPT ![p] = 1]
          /\ UNCHANGED <<counter, available, over>>

\* releaseChopStick: the flag is set and one waiting thread is signalled; it
\* tests the flag again.  After the second chopstick comes counter--.
Release(p) ==
  /\ pc[p] = "release"
  /\ available' = [available EXCEPT ![Returned(p)] = 1]
  /\ \E woken \in Signalled(Returned(p)) :
       pc' = [q \in Philosophers |->
                CASE q \in woken -> "get"
                  [] q = p /\ round[p] = 2 -> "run"
                  [] OTHER -> pc[q]]
  /\ round' = [round EXCEPT ![p] = 2]
  /\ counter' = [counter EXCEPT ![p] = IF round[p] = 2 THEN @ - 1 ELSE @]
  /\ UNCHANGED over

PhilosopherStep(p) == \/ Run(p) \/ Take(p) \/ Await(p) \/ Eat(p) \/ Release(p)

\* The program has ended: nothing changes any more.
Ended == over /\ UNCHANGED vars

Next == \/ \E p \in Philosophers :
             Execute(p) \/ PhilosopherStep(p) \/ SpuriousWakeup(p)
        \/ DinnerIsOver
        \/ Ended

Spec == Init /\ [][Next]_vars

\* A thread that can take a step takes it some day, lock.lock() included; no
\* thread is promised that await() returns without a signal.
FairSpec == /\ Spec
            /\ WF_vars(DinnerIsOver)
            /\ \A p \in Philosophers : /\ WF_vars(Execute(p))
                                       /\ WF_vars(PhilosopherStep(p))

-----------------------------------------------------------------------------
TypeOK == /\ pc \in [Philosophers -> {"new", "run", "get", "await", "eat",
                                      "release", "done"}]
          /\ round \in [Philosophers -> {1, 2}]
          /\ counter \in [Philosophers -> 0..Meals]
          /\ available \in [Philosophers -> {0, 1}]
          /\ over \in BOOLEAN

\* The chopsticks philosopher p has in hand, from where it is in eat().
Holding(p) ==
  CASE pc[p] \in {"get", "await"} -> IF round[p] = 1 THEN {} ELSE {First(p)}
    [] pc[p] = "eat" -> {Left(p), Right(p)}
    [] pc[p] = "release" -> IF round[p] = 1 THEN {Left(p), Right(p)} ELSE {Left(p)}
    [] OTHER -> {}

\* A chopstick is never in two hands, and its flag says 0 exactly while some
\* philosopher has it: the flags and the control points of eat() agree.
ChopsticksConsistent ==
  /\ \A p, q \in Philosophers : p # q => Holding(p) \cap Holding(q) = {}
  /\ \A c \in Philosophers :
       available[c] = 0 <=> \E p \in Philosophers : c \in Holding(p)

\* No signal is lost: a philosopher sits in await() only while its chopstick
\* is really taken, although signal() wakes a single thread.
NoLostSignal == \A p \in Philosophers :
                  pc[p] = "await" => available[Wanted(p)] = 0

\* Every philosopher eats all its meals, leaves, and main prints that dinner
\* is over.
DinnerEnds == <>over

\* The table implements the abstract dining specification: a philosopher is
\* eating between the two chopsticks it takes and the first it puts back, and
\* the meal counts as finished from then on.
Eating == {p \in Philosophers : pc[p] = "eat"}
MealsLeft == [p \in Philosophers |->
                IF pc[p] = "release" THEN counter[p] - 1 ELSE counter[p]]

Table == INSTANCE Dining WITH eating <- Eating, left <- MealsLeft

ImplementsDining == Table!Spec

-----------------------------------------------------------------------------
(***************************************************************************)
(* Proofs, for every number of philosophers (two or more) and every number *)
(* of meals.                                                               *)
(*                                                                         *)
(* The inductive invariant is Inv: the type invariant, the two safety      *)
(* invariants the runs check, and MealToFinish, without which counter--    *)
(* could be thought to go below zero.                                      *)
(***************************************************************************)

\* A philosopher that is in eat() has a meal left to finish.
MealToFinish ==
  \A p \in Philosophers :
    pc[p] \in {"get", "await", "eat", "release"} => counter[p] > 0

Inv == /\ TypeOK
       /\ MealToFinish
       /\ ChopsticksConsistent
       /\ NoLostSignal

-----------------------------------------------------------------------------
(* The ring.                                                               *)

\* The left chopstick of a philosopher is the next one round the table.
LEMMA LeftValue ==
  ASSUME NEW p \in Philosophers
  PROVE  Left(p) = IF p = N THEN 1 ELSE p + 1
<1>1. CASE p = N
  BY <1>1, NAssumption, N % N = 0 DEF Left
<1>2. CASE p # N
  BY <1>2, NAssumption, p % N = p DEF Left, Philosophers
<1> QED BY <1>1, <1>2

\* Both chopsticks exist, and with two philosophers or more they differ.
LEMMA LeftInRing ==
  ASSUME NEW p \in Philosophers
  PROVE  Left(p) \in Philosophers /\ Left(p) # p
BY LeftValue, NAssumption DEF Philosophers

\* A chopstick is the left one of one philosopher only.
LEMMA LeftInjective ==
  ASSUME NEW p \in Philosophers, NEW q \in Philosophers, Left(p) = Left(q)
  PROVE  p = q
BY LeftValue, NAssumption DEF Philosophers

\* Whatever the order, a philosopher takes its left and its right chopstick.
LEMMA FirstSecond ==
  ASSUME NEW p \in Philosophers
  PROVE  /\ First(p) \in Philosophers
         /\ Second(p) \in Philosophers
         /\ First(p) # Second(p)
         /\ {First(p), Second(p)} = {Left(p), Right(p)}
BY LeftInRing DEF First, Second, Right

\* Of three philosophers at most two use the same chopstick.
LEMMA TwoUsers ==
  ASSUME NEW p \in Philosophers, NEW q \in Philosophers, NEW r \in Philosophers,
         NEW c \in {Left(p), Right(p)} \cap {Left(q), Right(q)},
         c \in {Left(r), Right(r)},
         p # q, p # r
  PROVE  q = r
BY LeftInjective DEF Right

-----------------------------------------------------------------------------
(* What a step does to the chopsticks in hand.                             *)

\* A step that leaves the flags alone and moves no chopstick into or out of a
\* hand keeps flags and hands consistent.
LEMMA NothingMoved ==
  ASSUME ChopsticksConsistent, UNCHANGED available,
         \A q \in Philosophers : Holding(q)' = Holding(q)
  PROVE  ChopsticksConsistent'
BY DEF ChopsticksConsistent

\* Holding depends on nothing but the control point and the round.
LEMMA SamePlaceSameHands ==
  ASSUME NEW q \in Philosophers, pc'[q] = pc[q], round'[q] = round[q]
  PROVE  Holding(q)' = Holding(q)
BY DEF Holding, First, Second, Left, Right

\* Taking a chopstick puts it, and nothing else, in the taker's hand.
LEMMA TakeMoves ==
  ASSUME TypeOK, NEW p \in Philosophers, Take(p)
  PROVE  /\ Holding(p)' = Holding(p) \cup {Wanted(p)}
         /\ \A q \in Philosophers \ {p} : Holding(q)' = Holding(q)
<1>1. Holding(p)' = Holding(p) \cup {Wanted(p)}
  BY DEF TypeOK, Take, Holding, Wanted, First, Second, Left, Right
<1>2. ASSUME NEW q \in Philosophers \ {p}
      PROVE  Holding(q)' = Holding(q)
  <2>1. pc'[q] = pc[q] /\ round'[q] = round[q]
    BY DEF TypeOK, Take
  <2> QED BY <2>1, SamePlaceSameHands
<1> QED BY <1>1, <1>2

\* What releaseChopStick does to the control points: the caller moves on, and
\* nobody else moves but a philosopher that was waiting for the chopstick.
LEMMA ReleaseWakes ==
  ASSUME TypeOK, NEW p \in Philosophers, Release(p)
  PROVE  /\ pc[p] = "release"
         /\ pc'[p] = IF round[p] = 2 THEN "run" ELSE "release"
         /\ \A q \in Philosophers \ {p} :
              \/ pc'[q] = pc[q]
              \/ q \in Waiting(Returned(p)) /\ pc'[q] = "get"
         /\ Waiting(Returned(p)) # {} =>
              \E q \in Waiting(Returned(p)) : pc'[q] = "get"
<1>1. PICK woken \in Signalled(Returned(p)) :
        pc' = [q \in Philosophers |->
                 CASE q \in woken -> "get"
                   [] q = p /\ round[p] = 2 -> "run"
                   [] OTHER -> pc[q]]
  BY DEF Release
<1>2. pc[p] = "release"
  BY DEF Release
<1>3. /\ woken \subseteq Waiting(Returned(p))
      /\ Waiting(Returned(p)) # {} => woken # {}
  BY DEF Signalled
<1>4. p \notin woken
  BY <1>2, <1>3 DEF Waiting
<1>5. \A q \in woken : q \in Philosophers /\ pc'[q] = "get"
  <2> TAKE q \in woken
  <2>1. q \in Philosophers
    BY <1>3 DEF Waiting
  <2>2. pc'[q] = CASE q \in woken -> "get"
                   [] q = p /\ round[p] = 2 -> "run"
                   [] OTHER -> pc[q]
    BY <1>1, <2>1
  <2> QED BY <1>4, <2>1, <2>2
<1>6. \A q \in Philosophers \ {p} : q \notin woken => pc'[q] = pc[q]
  BY <1>1
<1>7. pc'[p] = IF round[p] = 2 THEN "run" ELSE "release"
  BY <1>1, <1>2, <1>4
<1> QED BY <1>2, <1>3, <1>5, <1>6, <1>7

\* Putting a chopstick back takes it, and nothing else, out of the hand; a
\* philosopher that is woken has the same chopsticks as before.
LEMMA ReleaseMoves ==
  ASSUME TypeOK, NEW p \in Philosophers, Release(p)
  PROVE  /\ Returned(p) \in Holding(p)
         /\ Holding(p)' = Holding(p) \ {Returned(p)}
         /\ \A q \in Philosophers \ {p} : Holding(q)' = Holding(q)
<1>1. Left(p) # Right(p)
  BY LeftInRing DEF Right
<1>2. /\ pc[p] = "release"
      /\ pc'[p] = IF round[p] = 2 THEN "run" ELSE "release"
      /\ round' = [round EXCEPT ![p] = 2]
  BY ReleaseWakes DEF Release
<1>3. Returned(p) \in Holding(p) /\ Holding(p)' = Holding(p) \ {Returned(p)}
  <2>1. CASE round[p] = 1
    BY <1>1, <1>2, <2>1 DEF TypeOK, Holding, Returned, First, Second, Left, Right
  <2>2. CASE round[p] = 2
    BY <1>1, <1>2, <2>2 DEF TypeOK, Holding, Returned, First, Second, Left, Right
  <2> QED BY <2>1, <2>2 DEF TypeOK
<1>4. ASSUME NEW q \in Philosophers \ {p}
      PROVE  Holding(q)' = Holding(q)
  <2>1. round'[q] = round[q]
    BY <1>2 DEF TypeOK
  <2>2. CASE pc'[q] = pc[q]
    BY <2>1, <2>2, SamePlaceSameHands
  <2>3. CASE pc[q] = "await" /\ pc'[q] = "get"
    BY <2>1, <2>3 DEF Holding, First, Second, Left, Right
  <2> QED BY <2>2, <2>3, ReleaseWakes DEF Waiting
<1> QED BY <1>3, <1>4

\* The steps that touch no flag move no chopstick either.
LEMMA OtherStepsMoveNothing ==
  ASSUME TypeOK, NEW p \in Philosophers,
         Run(p) \/ Await(p) \/ Eat(p) \/ SpuriousWakeup(p) \/ Execute(p),
         NEW q \in Philosophers
  PROVE  Holding(q)' = Holding(q)
<1>1. CASE q # p
  <2>1. pc'[q] = pc[q] /\ round'[q] = round[q]
    BY <1>1 DEF TypeOK, Run, Await, Eat, SpuriousWakeup, Execute
  <2> QED BY <2>1, SamePlaceSameHands
<1>2. CASE q = p
  <2> USE <1>2 DEF TypeOK, Holding, Left, Right, First, Second
  <2>1. CASE Run(p)
    BY <2>1 DEF Run
  <2>2. CASE Await(p) \/ SpuriousWakeup(p)
    BY <2>2 DEF Await, SpuriousWakeup
  <2>3. CASE Eat(p)
    BY <2>3 DEF Eat
  <2>4. CASE Execute(p)
    BY <2>4 DEF Execute
  <2> QED BY <2>1, <2>2, <2>3, <2>4
<1> QED BY <1>1, <1>2

-----------------------------------------------------------------------------
(* The invariant.                                                          *)

\* What one thread may do; main's start of philosopher p counts as a step of p.
Step(p) == PhilosopherStep(p) \/ SpuriousWakeup(p) \/ Execute(p)

\* The invariant holds before any philosopher has started.
LEMMA InitInv == Init => Inv
<1> SUFFICES ASSUME Init PROVE Inv
  OBVIOUS
<1> USE DEF Init
<1>1. TypeOK
  <2>1. counter \in [Philosophers -> 0..Meals]
    BY MealsAssumption
  <2>2. over \in BOOLEAN
    OBVIOUS
  <2> QED BY <2>1, <2>2 DEF TypeOK
<1>2. MealToFinish
  BY DEF MealToFinish
<1>3. \A p \in Philosophers : Holding(p) = {}
  BY DEF Holding
<1>4. ChopsticksConsistent
  BY <1>3 DEF ChopsticksConsistent
<1>5. NoLostSignal
  BY DEF NoLostSignal
<1> QED BY <1>1, <1>2, <1>4, <1>5 DEF Inv

\* The chopstick a call is about is one of the two beside the caller.
LEMMA ArgumentsBeside ==
  ASSUME NEW p \in Philosophers
  PROVE  /\ Wanted(p) \in Philosophers \cap {Left(p), Right(p)}
         /\ Returned(p) \in Philosophers \cap {Left(p), Right(p)}
BY FirstSecond, LeftInRing DEF Wanted, Returned, First, Second, Right

\* Types, and the meal that is being eaten, are kept by every step.
LEMMA StepKeepsTypes ==
  ASSUME TypeOK, MealToFinish, NEW p \in Philosophers, Step(p)
  PROVE  TypeOK' /\ MealToFinish'
<1> USE MealsAssumption DEF TypeOK, MealToFinish
<1>1. CASE Run(p)
  BY <1>1 DEF Run, MealsToEat
<1>2. CASE Take(p)
  BY <1>2, ArgumentsBeside DEF Take
<1>3. CASE Await(p)
  BY <1>3 DEF Await
<1>4. CASE Eat(p)
  BY <1>4 DEF Eat
<1>5. CASE Release(p)
  <2>1. counter[p] \in 0..Meals /\ counter[p] > 0
    BY <1>5 DEF Release
  <2>2. counter[p] - 1 \in 0..Meals
    BY <2>1
  <2>3. counter' \in [Philosophers -> 0..Meals]
    BY <1>5, <2>2 DEF Release
  <2>4. /\ \A q \in Philosophers \ {p} : counter'[q] = counter[q]
        /\ round[p] # 2 => counter'[p] = counter[p]
    BY <1>5 DEF Release
  <2>5. available' \in [Philosophers -> {0, 1}] /\ round' \in [Philosophers -> {1, 2}]
    BY <1>5, ArgumentsBeside DEF Release
  <2>6. \A q \in Philosophers : pc'[q] \in {"new", "run", "get", "await", "eat",
                                            "release", "done"}
    BY <1>5, ReleaseWakes
  <2>7. pc' \in [Philosophers -> {"new", "run", "get", "await", "eat", "release", "done"}]
    BY <1>5, <2>6 DEF Release
  <2>8. TypeOK'
    BY <1>5, <2>3, <2>5, <2>7 DEF Release
  <2>9. MealToFinish'
    BY <1>5, <2>1, <2>4, ReleaseWakes DEF Waiting
  <2> QED BY <2>8, <2>9
<1>6. CASE SpuriousWakeup(p)
  BY <1>6 DEF SpuriousWakeup
<1>7. CASE Execute(p)
  BY <1>7 DEF Execute
<1> QED BY <1>1, <1>2, <1>3, <1>4, <1>5, <1>6, <1>7 DEF Step, PhilosopherStep

\* The chopsticks stay consistent: only Take and Release move one.
LEMMA StepKeepsChopsticks ==
  ASSUME TypeOK, ChopsticksConsistent, NEW p \in Philosophers, Step(p)
  PROVE  ChopsticksConsistent'
<1>1. CASE Take(p)
  <2>1. Wanted(p) \in Philosophers
    BY ArgumentsBeside
  <2>2. \A q \in Philosophers : Wanted(p) \notin Holding(q)
    BY <1>1, <2>1 DEF ChopsticksConsistent, Take, Free
  <2>3. available' = [available EXCEPT ![Wanted(p)] = 0]
    BY <1>1 DEF Take
  <2> QED BY <1>1, <2>1, <2>2, <2>3, TakeMoves DEF ChopsticksConsistent, TypeOK
<1>2. CASE Release(p)
  <2>1. Returned(p) \in Philosophers
    BY ArgumentsBeside
  <2>2. available' = [available EXCEPT ![Returned(p)] = 1]
    BY <1>2 DEF Release
  <2> QED BY <1>2, <2>1, <2>2, ReleaseMoves DEF ChopsticksConsistent, TypeOK
<1>3. CASE Run(p) \/ Await(p) \/ Eat(p) \/ SpuriousWakeup(p) \/ Execute(p)
  <2>1. \A q \in Philosophers : Holding(q)' = Holding(q)
    BY <1>3, OtherStepsMoveNothing
  <2>2. UNCHANGED available
    BY <1>3 DEF Run, Await, Eat, SpuriousWakeup, Execute
  <2> QED BY <2>1, <2>2, NothingMoved
<1> QED BY <1>1, <1>2, <1>3 DEF Step, PhilosopherStep

\* No signal is lost: only Release lays a chopstick on the table, and the one
\* philosopher that can be waiting for it is the one it wakes.
LEMMA StepKeepsSignals ==
  ASSUME TypeOK, NoLostSignal, NEW p \in Philosophers, Step(p)
  PROVE  NoLostSignal'
<1> SUFFICES ASSUME NEW q \in Philosophers, pc'[q] = "await"
             PROVE  available'[Wanted(q)'] = 0
  BY DEF NoLostSignal
<1> USE DEF TypeOK
<1>1. Wanted(q) \in Philosophers /\ Wanted(q) \in {Left(q), Right(q)}
  BY ArgumentsBeside
<1>2. CASE Release(p)
  <2>1. q # p /\ pc[q] = "await"
    BY <1>2, ReleaseWakes
  <2>2. round'[q] = round[q]
    BY <1>2, <2>1 DEF Release
  <2>3. Wanted(q)' = Wanted(q)
    BY <2>2 DEF Wanted, First, Second, Left, Right
  <2>4. available[Wanted(q)] = 0
    BY <2>1 DEF NoLostSignal
  <2>5. Wanted(q) # Returned(p)
    <3> SUFFICES ASSUME Wanted(q) = Returned(p)
                 PROVE  FALSE
      OBVIOUS
    <3>1. PICK r \in Waiting(Returned(p)) : pc'[r] = "get"
      BY <1>2, <2>1, ReleaseWakes DEF Waiting
    <3>2. r \in Philosophers /\ r # p /\ r # q /\ Wanted(r) = Returned(p)
      BY <1>2, <3>1, ReleaseWakes DEF Waiting
    <3> QED BY <1>1, <2>1, <3>2, ArgumentsBeside, TwoUsers
  <2> QED BY <1>1, <1>2, <2>3, <2>4, <2>5 DEF Release
<1>3. CASE Await(p) /\ q = p
  BY <1>1, <1>3 DEF Await, Free, Wanted, First, Second, Left, Right
<1>4. CASE ~Release(p) /\ ~(Await(p) /\ q = p)
  <2>1. pc[q] = "await" /\ Wanted(q)' = Wanted(q)
    BY <1>4 DEF Step, PhilosopherStep, Run, Take, Await, Eat, SpuriousWakeup,
                Execute, Wanted, First, Second, Left, Right
  <2>2. available[Wanted(q)] = 0
    BY <2>1 DEF NoLostSignal
  <2>3. CASE Take(p)
    BY <1>1, <2>1, <2>2, <2>3, ArgumentsBeside DEF Take
  <2>4. CASE ~Take(p)
    BY <1>4, <2>1, <2>2, <2>4 DEF Step, PhilosopherStep, Run, Await, Eat,
                                  SpuriousWakeup, Execute
  <2> QED BY <2>3, <2>4
<1> QED BY <1>2, <1>3, <1>4

\* Every step of a philosopher, of main, and every stutter keeps the invariant.
LEMMA NextKeepsInv == Inv /\ [Next]_vars => Inv'
<1> SUFFICES ASSUME Inv, [Next]_vars
             PROVE  Inv'
  OBVIOUS
<1>1. ASSUME NEW p \in Philosophers, Step(p)
      PROVE  Inv'
  BY <1>1, StepKeepsTypes, StepKeepsChopsticks, StepKeepsSignals DEF Inv
<1>2. CASE UNCHANGED <<pc, round, counter, available>> /\ over' \in BOOLEAN
  BY <1>2 DEF Inv, TypeOK, MealToFinish, ChopsticksConsistent, NoLostSignal,
              Holding, Wanted, First, Second, Left, Right
<1>3. CASE DinnerIsOver \/ UNCHANGED vars
  BY <1>2, <1>3 DEF DinnerIsOver, vars, Inv, TypeOK
<1> QED BY <1>1, <1>3 DEF Next, Ended, Step

\* Inv holds in every reachable state of the dinner table.
THEOREM Invariance == Spec => []Inv
BY InitInv, NextKeepsInv, PTL DEF Spec

\* With any number of philosophers above one, and of meals, the variables of
\* DinnerTable.java keep their types; counter-- never goes below zero.
THEOREM TypeCorrect == Spec => []TypeOK
BY Invariance, PTL DEF Inv

\* At a table of any size no chopstick is in two hands, and the flags that
\* getChopStick tests agree with where eat() is.
THEOREM ChopsticksSafe == Spec => []ChopsticksConsistent
BY Invariance, PTL DEF Inv

\* At a table of any size the signal() of releaseChopStick wakes all that have
\* to be woken: nobody sits in await() for a chopstick that is on the table.
THEOREM SignalsSafe == Spec => []NoLostSignal
BY Invariance, PTL DEF Inv

-----------------------------------------------------------------------------
(* Refinement of the abstract dining specification.                        *)

\* The table starts as the abstract dinner does.
LEMMA InitImplements == Init => Table!Init
<1> SUFFICES ASSUME Init PROVE Table!Init
  OBVIOUS
<1>1. Eating = {}
  BY DEF Init, Eating
<1>2. MealsLeft = [p \in Philosophers |-> Meals]
  BY DEF Init, MealsLeft
<1> QED BY <1>1, <1>2 DEF Table!Init, Table!Philosophers, Philosophers

\* A step that leaves every philosopher's place and meals as Dining sees them.
LEMMA Unseen ==
  ASSUME \A q \in Philosophers :
           /\ (pc'[q] = "eat") <=> (pc[q] = "eat")
           /\ MealsLeft'[q] = MealsLeft[q]
  PROVE  UNCHANGED <<Eating, MealsLeft>>
BY DEF Eating, MealsLeft

\* The second chopstick in hand starts the meal.
LEMMA TakeStarts ==
  ASSUME Inv, NEW p \in Philosophers, Take(p), round[p] = 2
  PROVE  Table!Start(p)
<1> USE DEF Inv, TypeOK, Take
<1>1. p \notin Eating /\ Eating' = Eating \cup {p}
  BY DEF Eating
<1>2. MealsLeft[p] > 0 /\ UNCHANGED MealsLeft
  BY DEF MealsLeft, MealToFinish
<1>3. /\ Holding(p)' = {Left(p), Right(p)}
      /\ \A q \in Eating : q \in Philosophers /\ q # p
                           /\ Holding(q)' = {Left(q), Right(q)}
  BY <1>1 DEF Eating, Holding, Left, Right
<1>4. ChopsticksConsistent'
  BY StepKeepsChopsticks DEF Step, PhilosopherStep
<1>5. \A q \in Eating : {Left(q), Right(q)} \cap {Left(p), Right(p)} = {}
  BY <1>3, <1>4 DEF ChopsticksConsistent
<1> QED BY <1>1, <1>2, <1>5
        DEF Table!Start, Table!Chopsticks, Table!Left, Table!Right, Left, Right

\* Eat ends the meal.
LEMMA EatFinishes ==
  ASSUME Inv, NEW p \in Philosophers, Eat(p)
  PROVE  Table!Finish(p)
<1> USE DEF Inv, TypeOK, Eat
<1>1. p \in Eating /\ Eating' = Eating \ {p}
  BY DEF Eating
<1>2. MealsLeft' = [MealsLeft EXCEPT ![p] = @ - 1]
  BY DEF MealsLeft
<1> QED BY <1>1, <1>2 DEF Table!Finish

\* Every other step of a philosopher is invisible to Dining.
LEMMA OthersUnseen ==
  ASSUME Inv, NEW p \in Philosophers, Step(p), ~Eat(p), ~(Take(p) /\ round[p] = 2)
  PROVE  UNCHANGED <<Eating, MealsLeft>>
<1> USE DEF Inv, TypeOK, MealsLeft
<1> SUFFICES ASSUME NEW q \in Philosophers
             PROVE  /\ (pc'[q] = "eat") <=> (pc[q] = "eat")
                    /\ MealsLeft'[q] = MealsLeft[q]
  BY Unseen
<1>1. CASE Run(p)
  BY <1>1 DEF Run
<1>2. CASE Take(p) /\ round[p] = 1
  BY <1>2 DEF Take
<1>3. CASE Await(p) \/ SpuriousWakeup(p) \/ Execute(p)
  BY <1>3 DEF Await, SpuriousWakeup, Execute
<1>4. CASE Release(p)
  <2>1. CASE q = p
    BY <1>4, <2>1, ReleaseWakes DEF Release
  <2>2. CASE q # p
    BY <1>4, <2>2, ReleaseWakes DEF Release, Waiting
  <2> QED BY <2>1, <2>2
<1> QED BY <1>1, <1>2, <1>3, <1>4 DEF Step, PhilosopherStep

\* Every step of the table is a Start or a Finish of the abstract dinner, or
\* leaves it alone.
LEMMA NextImplements == Inv /\ [Next]_vars => [Table!Next]_<<Eating, MealsLeft>>
<1> SUFFICES ASSUME Inv, [Next]_vars
             PROVE  [Table!Next]_<<Eating, MealsLeft>>
  OBVIOUS
<1>1. ASSUME NEW p \in Philosophers, Step(p)
      PROVE  [Table!Next]_<<Eating, MealsLeft>>
  BY <1>1, TakeStarts, EatFinishes, OthersUnseen
     DEF Table!Next, Table!Philosophers, Philosophers
<1>2. CASE DinnerIsOver \/ UNCHANGED vars
  BY <1>2 DEF DinnerIsOver, vars, Eating, MealsLeft
<1> QED BY <1>1, <1>2 DEF Next, Ended, Step

\* The table of DinnerTable.java, of any size, implements the abstract dining
\* specification: neighbours never eat together and nobody eats too much.
THEOREM Implementation == Spec => ImplementsDining
<1>1. Init => Table!Init
  BY InitImplements
<1>2. Inv /\ [Next]_vars => [Table!Next]_(Table!vars)
  BY NextImplements DEF Table!vars
<1> QED BY <1>1, <1>2, Invariance, PTL DEF Spec, ImplementsDining, Table!Spec
=============================================================================
