------------------------ MODULE DiningProgramsProofs ------------------------
(***************************************************************************)
(* The four dinners of DiningPrograms are safe at a table of any size and  *)
(* for any number of meals.  Each program has an inductive invariant of    *)
(* its own, and Inv says that of the program that runs.                    *)
(***************************************************************************)
EXTENDS DiningPrograms, FiniteSetTheorems, TLAPS

-----------------------------------------------------------------------------
(* DiningPhilosophers.java: both chopsticks at once.                       *)

\* A philosopher that has not left has a meal to come.
MonitoredHungry ==
  \A p \in Monitored!Pids : pc[p] # "done" => meals[p] < Meals

\* Two that eat share no chopstick.
MonitoredApart ==
  \A p, q \in Monitored!Pids :
    p # q /\ pc[p] = "eat" /\ pc[q] = "eat" => Monitored!Sticks(p) \cap Monitored!Sticks(q) = {}

MonitoredInv == /\ Monitored!TypeOK
                /\ MonitoredHungry
                /\ MonitoredApart
                /\ Monitored!SticksConsistent
                /\ Monitored!NoLostWakeup

\* Both chopsticks of a philosopher are on the table's ring.
LEMMA MonitoredSticks ==
  ASSUME NEW p \in Monitored!Pids
  PROVE  Monitored!Sticks(p) \subseteq Monitored!Pids
BY NAssumption DEF Monitored!Sticks, Monitored!Index2, Monitored!Pids

\* All chopsticks are on the table and nobody has eaten.
LEMMA MonitoredInit == Monitored!Init => MonitoredInv
<1> SUFFICES ASSUME Monitored!Init PROVE MonitoredInv
  OBVIOUS
<1> USE DEF Monitored!Init
<1>1. Monitored!TypeOK
  <2>1. meals \in [Monitored!Pids -> 0..Meals]
    BY MealsAssumption
  <2>2. pc \in [Monitored!Pids -> {"new", "pick", "wait", "eat", "done"}]
    OBVIOUS
  <2>3. table \in [Monitored!Pids -> BOOLEAN] /\ over \in BOOLEAN
    OBVIOUS
  <2>4. QED
    BY <2>1, <2>2, <2>3 DEF Monitored!TypeOK
<1>2. MonitoredHungry
  BY MealsAssumption DEF MonitoredHungry
<1>3. MonitoredApart /\ Monitored!SticksConsistent /\ Monitored!NoLostWakeup
  BY DEF MonitoredApart, Monitored!SticksConsistent, Monitored!NoLostWakeup
<1>4. QED
  BY <1>1, <1>2, <1>3 DEF MonitoredInv

\* Where a step of p leaves the others: putDownSticks wakes all that wait.
LEMMA MonitoredPlaces ==
  ASSUME MonitoredInv, NEW p \in Monitored!Pids, Monitored!PutDownSticks(p)
  PROVE  /\ pc' \in [Monitored!Pids -> {"new", "pick", "wait", "eat", "done"}]
         /\ pc'[p] = IF Monitored!LastMeal(p) THEN "done" ELSE "pick"
         /\ \A q \in Monitored!Pids \ {p} :
              pc'[q] = IF pc[q] = "wait" THEN "pick" ELSE pc[q]
BY DEF MonitoredInv, Monitored!TypeOK, Monitored!PutDownSticks, Monitored!Woken, Monitored!Waiting

\* pickSticks, when both chopsticks are free: nobody that eats uses either.
LEMMA MonitoredPick ==
  ASSUME MonitoredInv, NEW p \in Monitored!Pids, Monitored!PickSticks(p)
  PROVE  MonitoredInv'
<1> USE DEF MonitoredInv, Monitored!PickSticks, Monitored!TypeOK
<1>1. Monitored!TypeOK'
  OBVIOUS
<1>2. MonitoredHungry'
  BY DEF MonitoredHungry
<1>3. \A q \in Monitored!Pids : pc[q] = "eat" => Monitored!Sticks(p) \cap Monitored!Sticks(q) = {}
  BY MonitoredSticks DEF Monitored!BothFree, Monitored!SticksConsistent
<1>4. \A q \in Monitored!Pids : pc'[q] = "eat" <=> pc[q] = "eat" \/ q = p
  OBVIOUS
<1>5. MonitoredApart'
  BY <1>3, <1>4 DEF MonitoredApart, Monitored!Sticks, Monitored!Index2
<1>6. Monitored!SticksConsistent'
  BY <1>4 DEF Monitored!SticksConsistent, Monitored!Sticks, Monitored!Index2
<1>7. Monitored!NoLostWakeup'
  <2> SUFFICES ASSUME NEW q \in Monitored!Pids, pc'[q] = "wait"
               PROVE  ~Monitored!BothFree(q)'
    BY DEF Monitored!NoLostWakeup
  <2>1. pc[q] = "wait" /\ ~Monitored!BothFree(q)
    BY DEF Monitored!NoLostWakeup
  <2>2. QED
    BY <2>1, MonitoredSticks DEF Monitored!BothFree, Monitored!Sticks, Monitored!Index2
<1>8. QED
  BY <1>1, <1>2, <1>5, <1>6, <1>7

\* putDownSticks: no other philosopher has either chopstick, and all are woken.
LEMMA MonitoredPutDown ==
  ASSUME MonitoredInv, NEW p \in Monitored!Pids, Monitored!PutDownSticks(p)
  PROVE  MonitoredInv'
<1> USE DEF MonitoredInv
<1>1. meals' = [meals EXCEPT ![p] = @ + 1] /\ meals[p] < Meals
  BY DEF Monitored!PutDownSticks, MonitoredHungry
<1>2. Monitored!TypeOK'
  BY <1>1, MonitoredPlaces, MealsAssumption DEF Monitored!TypeOK, Monitored!PutDownSticks
<1>3. MonitoredHungry'
  <2> SUFFICES ASSUME NEW q \in Monitored!Pids, pc'[q] # "done"
               PROVE  meals'[q] < Meals
    BY DEF MonitoredHungry
  <2>1. CASE q = p
    BY <1>1, <2>1, MonitoredPlaces, MealsAssumption DEF Monitored!LastMeal, Monitored!TypeOK
  <2>2. CASE q # p
    BY <1>1, <2>2, MonitoredPlaces DEF MonitoredHungry, Monitored!TypeOK
  <2>3. QED
    BY <2>1, <2>2
<1>4. \A q \in Monitored!Pids : pc'[q] = "eat" <=> pc[q] = "eat" /\ q # p
  BY MonitoredPlaces
<1>5. MonitoredApart'
  BY <1>4 DEF MonitoredApart, Monitored!Sticks, Monitored!Index2
<1>6. Monitored!SticksConsistent'
  <2>1. \A c \in Monitored!Pids : table'[c] <=> table[c] \/ c \in Monitored!Sticks(p)
    BY DEF Monitored!PutDownSticks
  <2>2. \A c \in Monitored!Sticks(p), q \in Monitored!Pids \ {p} :
          pc[q] = "eat" => c \notin Monitored!Sticks(q)
    BY DEF MonitoredApart, Monitored!PutDownSticks
  <2>3. QED
    BY <1>4, <2>1, <2>2 DEF Monitored!SticksConsistent, Monitored!Sticks, Monitored!Index2
<1>7. Monitored!NoLostWakeup'
  BY MonitoredPlaces DEF Monitored!NoLostWakeup
<1>8. QED
  BY <1>2, <1>3, <1>5, <1>6, <1>7

\* The other steps move no chopstick and start no meal.
LEMMA MonitoredOthers ==
  ASSUME MonitoredInv, NEW p \in Monitored!Pids,
         Monitored!Wait(p) \/ Monitored!SpuriousWakeup(p) \/ Monitored!Start(p)
  PROVE  MonitoredInv'
<1> USE DEF MonitoredInv, Monitored!TypeOK, Monitored!Wait, Monitored!SpuriousWakeup, Monitored!Start
<1>1. Monitored!TypeOK'
  OBVIOUS
<1>2. MonitoredHungry'
  BY DEF MonitoredHungry
<1>3. \A q \in Monitored!Pids : pc'[q] = "eat" <=> pc[q] = "eat"
  OBVIOUS
<1>4. MonitoredApart' /\ Monitored!SticksConsistent'
  BY <1>3 DEF MonitoredApart, Monitored!SticksConsistent, Monitored!Sticks, Monitored!Index2
<1>5. Monitored!NoLostWakeup'
  BY DEF Monitored!NoLostWakeup, Monitored!BothFree, Monitored!Sticks, Monitored!Index2
<1>6. QED
  BY <1>1, <1>2, <1>4, <1>5

\* Every step of the monitored table keeps its invariant.
LEMMA MonitoredKeepsInv ==
  ASSUME MonitoredInv,
         \/ \E p \in Monitored!Pids : Monitored!Step(p) \/ Monitored!SpuriousWakeup(p)
         \/ Monitored!MainStep
         \/ UNCHANGED <<pc, meals, table, over>>
  PROVE  MonitoredInv'
<1>1. ASSUME NEW p \in Monitored!Pids,
             \/ Monitored!Step(p) \/ Monitored!SpuriousWakeup(p) \/ Monitored!Start(p)
      PROVE  MonitoredInv'
  BY <1>1, MonitoredPick, MonitoredPutDown, MonitoredOthers DEF Monitored!Step
<1>2. CASE UNCHANGED <<pc, meals, table>> /\ over' \in BOOLEAN
  BY <1>2 DEF MonitoredInv, Monitored!TypeOK, MonitoredHungry, MonitoredApart,
              Monitored!SticksConsistent, Monitored!NoLostWakeup, Monitored!BothFree,
              Monitored!Sticks, Monitored!Index2
<1>3. CASE Monitored!JoinAll \/ UNCHANGED <<pc, meals, table, over>>
  BY <1>2, <1>3 DEF Monitored!JoinAll, MonitoredInv, Monitored!TypeOK
<1>4. QED
  BY <1>1, <1>3 DEF Monitored!MainStep

-----------------------------------------------------------------------------
(* Program2.java: a lock for each chopstick, the lower number first.       *)

\* The chopsticks p has in hand, from where it is in run.
HierarchyHeld(p) ==
  CASE pc[p] \in {"pick", "await"} /\ own[p] -> {Hierarchy!Lower(p)}
    [] pc[p] = "eat"                        -> {Hierarchy!Lower(p), Hierarchy!Higher(p)}
    [] pc[p] = "put" /\ ~own[p]             -> {Hierarchy!Lower(p), Hierarchy!Higher(p)}
    [] pc[p] = "put" /\ own[p]              -> {Hierarchy!Higher(p)}
    [] OTHER                                -> {}

\* A philosopher that has not had its last meal has one to come, and its calls
\* begin with the lower chopstick.
HierarchyHungry ==
  \A p \in Hierarchy!Philosophers :
    /\ pc[p] \in {"new", "think", "pick", "await", "eat"} => meals[p] < Meals
    /\ pc[p] \in {"new", "think", "eat", "home"} => ~own[p]

\* A chopstick is in use exactly while somebody has it, and never in two hands.
HierarchyApart ==
  \A p, q \in Hierarchy!Philosophers : p # q => HierarchyHeld(p) \cap HierarchyHeld(q) = {}
HierarchyInUse ==
  \A c \in Hierarchy!Philosophers :
    table[c] <=> \E p \in Hierarchy!Philosophers : c \in HierarchyHeld(p)

HierarchyInv == /\ Hierarchy!TypeOK
                /\ HierarchyHungry
                /\ HierarchyApart
                /\ HierarchyInUse
                /\ Hierarchy!NoLostSignal

\* A philosopher's two chopsticks are different ones of the table, and it works
\* with one of them at a time.
LEMMA HierarchyChopsticks ==
  ASSUME NEW p \in Hierarchy!Philosophers
  PROVE  /\ {Hierarchy!Lower(p), Hierarchy!Higher(p)} = {Hierarchy!Left(p), Hierarchy!Right(p)}
         /\ Hierarchy!Lower(p) \in Hierarchy!Philosophers
         /\ Hierarchy!Higher(p) \in Hierarchy!Philosophers
         /\ Hierarchy!Lower(p) # Hierarchy!Higher(p)
         /\ Hierarchy!Current(p) \in {Hierarchy!Lower(p), Hierarchy!Higher(p)}
BY NAssumption DEF Hierarchy!Philosophers, Hierarchy!Left, Hierarchy!Right, Hierarchy!Lower,
                   Hierarchy!Higher, Hierarchy!Current

\* Of three philosophers at most two use the same chopstick.
LEMMA HierarchyTwoUsers ==
  ASSUME NEW p \in Hierarchy!Philosophers, NEW q \in Hierarchy!Philosophers,
         NEW r \in Hierarchy!Philosophers, p # q, p # r,
         NEW c, c \in {Hierarchy!Left(p), Hierarchy!Right(p)},
         c \in {Hierarchy!Left(q), Hierarchy!Right(q)}, c \in {Hierarchy!Left(r), Hierarchy!Right(r)}
  PROVE  q = r
BY NAssumption DEF Hierarchy!Philosophers, Hierarchy!Left, Hierarchy!Right

\* Nothing is in use and nobody has eaten.
LEMMA HierarchyInit == Hierarchy!Init => HierarchyInv
<1> SUFFICES ASSUME Hierarchy!Init PROVE HierarchyInv
  OBVIOUS
<1> USE DEF Hierarchy!Init
<1>1. Hierarchy!TypeOK
  <2>1. meals \in [Hierarchy!Philosophers -> 0..Meals]
    BY MealsAssumption
  <2>2. pc \in [Hierarchy!Philosophers -> {"new", "think", "pick", "await", "eat", "put", "home"}]
    OBVIOUS
  <2>3. own \in [Hierarchy!Philosophers -> BOOLEAN] /\ table \in [Hierarchy!Philosophers -> BOOLEAN]
    OBVIOUS
  <2>4. over \in BOOLEAN
    OBVIOUS
  <2>5. QED
    BY <2>1, <2>2, <2>3, <2>4 DEF Hierarchy!TypeOK
<1>2. HierarchyHungry
  BY MealsAssumption DEF HierarchyHungry
<1>3. \A p \in Hierarchy!Philosophers : HierarchyHeld(p) = {}
  BY DEF HierarchyHeld
<1>4. HierarchyApart /\ HierarchyInUse /\ Hierarchy!NoLostSignal
  BY <1>3 DEF HierarchyApart, HierarchyInUse, Hierarchy!NoLostSignal
<1>5. QED
  BY <1>1, <1>2, <1>4 DEF HierarchyInv

\* Hands depend on nothing but the place and the call.
LEMMA HierarchySameHands ==
  ASSUME NEW q \in Hierarchy!Philosophers, pc'[q] = pc[q], own'[q] = own[q]
  PROVE  /\ HierarchyHeld(q)' = HierarchyHeld(q)
         /\ Hierarchy!Current(q)' = Hierarchy!Current(q)
BY DEF HierarchyHeld, Hierarchy!Current, Hierarchy!Lower, Hierarchy!Higher, Hierarchy!Left, Hierarchy!Right

\* What putDown does to the places: p moves on, and nobody else but one that
\* was waiting for the chopstick, if there is one.
LEMMA HierarchyWakes ==
  ASSUME HierarchyInv, NEW p \in Hierarchy!Philosophers, Hierarchy!PutDown(p)
  PROVE  /\ pc[p] = "put" /\ DOMAIN pc' = Hierarchy!Philosophers
         /\ pc'[p] = IF own[p] THEN IF Hierarchy!Full(p) THEN "home" ELSE "think" ELSE "put"
         /\ \A q \in Hierarchy!Philosophers \ {p} :
              \/ pc'[q] = pc[q]
              \/ q \in Hierarchy!Waiting(Hierarchy!Current(p)) /\ pc'[q] = "pick"
         /\ Hierarchy!Waiting(Hierarchy!Current(p)) # {} =>
              \E q \in Hierarchy!Waiting(Hierarchy!Current(p)) : pc'[q] = "pick"
<1> DEFINE c == Hierarchy!Current(p)
<1>1. PICK woken \in Hierarchy!Signalled(c) :
        pc' = [q \in Hierarchy!Philosophers |->
                 CASE q \in woken -> "pick"
                   [] q = p /\ own[p] -> IF Hierarchy!Full(p) THEN "home" ELSE "think"
                   [] OTHER -> pc[q]]
  BY DEF Hierarchy!PutDown
<1>2. pc[p] = "put" /\ own[p] \in BOOLEAN
  BY DEF Hierarchy!PutDown, HierarchyInv, Hierarchy!TypeOK
<1>3. /\ woken \subseteq Hierarchy!Waiting(c)
      /\ Hierarchy!Waiting(c) # {} => woken # {}
  BY DEF Hierarchy!Signalled
<1>4. Hierarchy!Waiting(c) \subseteq Hierarchy!Philosophers /\ p \notin Hierarchy!Waiting(c)
  BY <1>2 DEF Hierarchy!Waiting
<1> HIDE DEF c
<1>5. \A q \in woken : pc'[q] = "pick"
  BY <1>1, <1>3, <1>4
<1>6. \A q \in Hierarchy!Philosophers \ {p} : q \notin woken => pc'[q] = pc[q]
  BY <1>1
<1>7. pc'[p] = IF own[p] THEN IF Hierarchy!Full(p) THEN "home" ELSE "think" ELSE "put"
  BY <1>1, <1>2, <1>3, <1>4
<1>8. QED
  BY <1>1, <1>2, <1>3, <1>5, <1>6, <1>7 DEF c

\* How a step of p changes its hands and the flags; nobody else's hands change.
LEMMA HierarchyHands ==
  ASSUME HierarchyInv, NEW p \in Hierarchy!Philosophers,
         Hierarchy!Step(p) \/ Hierarchy!SpuriousWakeup(p) \/ Hierarchy!StartThread(p)
  PROVE  /\ \A q \in Hierarchy!Philosophers \ {p} : HierarchyHeld(q)' = HierarchyHeld(q)
         /\ \/ HierarchyHeld(p)' = HierarchyHeld(p) /\ table' = table
            \/ \E c \in Hierarchy!Philosophers :
                 /\ ~table[c] /\ table' = [table EXCEPT ![c] = TRUE]
                 /\ HierarchyHeld(p)' = HierarchyHeld(p) \cup {c}
            \/ \E c \in HierarchyHeld(p) :
                 /\ c \in Hierarchy!Philosophers
                 /\ table' = [table EXCEPT ![c] = FALSE]
                 /\ HierarchyHeld(p)' = HierarchyHeld(p) \ {c}
<1> USE DEF HierarchyInv, Hierarchy!TypeOK
<1> DEFINE Hands == HierarchyHeld(p)
           c == Hierarchy!Current(p)
<1>c. c \in Hierarchy!Philosophers
  BY HierarchyChopsticks
<1>1. CASE Hierarchy!PickUp(p)
  <2>1. \A q \in Hierarchy!Philosophers \ {p} : HierarchyHeld(q)' = HierarchyHeld(q)
    BY <1>1, HierarchySameHands DEF Hierarchy!PickUp
  <2>2. Hands' = Hands \cup {c}
    BY <1>1 DEF Hierarchy!PickUp, HierarchyHeld, Hierarchy!Current, Hierarchy!Lower, Hierarchy!Higher,
                Hierarchy!Left, Hierarchy!Right
  <2>3. QED
    BY <1>1, <1>c, <2>1, <2>2 DEF Hierarchy!PickUp, Hierarchy!Free
<1>2. CASE Hierarchy!PutDown(p)
  <2>1. /\ own' = [own EXCEPT ![p] = ~@] /\ table' = [table EXCEPT ![c] = FALSE]
        /\ pc[p] = "put"
    BY <1>2 DEF Hierarchy!PutDown
  <2>2. ASSUME NEW q \in Hierarchy!Philosophers \ {p}
        PROVE  HierarchyHeld(q)' = HierarchyHeld(q)
    <3>1. CASE pc'[q] = pc[q]
      BY <2>1, <3>1, HierarchySameHands
    <3>2. CASE pc[q] = "await" /\ pc'[q] = "pick"
      BY <2>1, <3>2 DEF HierarchyHeld, Hierarchy!Lower, Hierarchy!Higher, Hierarchy!Left, Hierarchy!Right
    <3>3. QED
      BY <1>2, <3>1, <3>2, HierarchyWakes DEF Hierarchy!Waiting
  <2>3. c \in Hands /\ Hands' = Hands \ {c}
    <3>1. CASE own[p]
      <4>1. Hands = {Hierarchy!Higher(p)} /\ c = Hierarchy!Higher(p)
        BY <2>1, <3>1 DEF HierarchyHeld, Hierarchy!Current
      <4>2. Hands' = {}
        BY <1>2, <2>1, <3>1, HierarchyWakes DEF HierarchyHeld
      <4>3. QED
        BY <4>1, <4>2
    <3>2. CASE ~own[p]
      <4>1. Hands = {Hierarchy!Lower(p), Hierarchy!Higher(p)} /\ c = Hierarchy!Lower(p)
        BY <2>1, <3>2 DEF HierarchyHeld, Hierarchy!Current
      <4>2. Hands' = {Hierarchy!Higher(p)}
        BY <1>2, <2>1, <3>2, HierarchyWakes DEF HierarchyHeld, Hierarchy!Higher, Hierarchy!Left, Hierarchy!Right
      <4>3. QED
        BY <4>1, <4>2, HierarchyChopsticks
    <3>3. QED
      BY <3>1, <3>2
  <2>4. QED
    BY <1>c, <2>1, <2>2, <2>3
<1>3. CASE \/ Hierarchy!GetHungry(p) \/ Hierarchy!Await(p) \/ Hierarchy!Eat(p)
           \/ Hierarchy!SpuriousWakeup(p) \/ Hierarchy!StartThread(p)
  <2> USE <1>3 DEF Hierarchy!GetHungry, Hierarchy!Await, Hierarchy!Eat, Hierarchy!SpuriousWakeup,
                   Hierarchy!StartThread
  <2>1. own' = own /\ table' = table
    OBVIOUS
  <2>2. \A q \in Hierarchy!Philosophers \ {p} : pc'[q] = pc[q]
    OBVIOUS
  <2>3. \A q \in Hierarchy!Philosophers \ {p} : HierarchyHeld(q)' = HierarchyHeld(q)
    BY <2>1, <2>2, HierarchySameHands
  <2>4. Hands' = Hands
    BY <2>1 DEF HierarchyHeld, Hierarchy!Lower, Hierarchy!Higher, Hierarchy!Left, Hierarchy!Right,
                HierarchyHungry
  <2>5. QED
    BY <2>1, <2>3, <2>4
<1>4. QED
  BY <1>1, <1>2, <1>3 DEF Hierarchy!Step

\* Types, the meals to come and the order of the calls are kept.
LEMMA HierarchyKeepsTypes ==
  ASSUME HierarchyInv, NEW p \in Hierarchy!Philosophers,
         Hierarchy!Step(p) \/ Hierarchy!SpuriousWakeup(p) \/ Hierarchy!StartThread(p)
  PROVE  Hierarchy!TypeOK' /\ HierarchyHungry'
<1> USE MealsAssumption DEF HierarchyInv, Hierarchy!TypeOK, HierarchyHungry
<1>1. CASE Hierarchy!GetHungry(p) \/ Hierarchy!Await(p)
  BY <1>1 DEF Hierarchy!GetHungry, Hierarchy!Await
<1>2. CASE Hierarchy!SpuriousWakeup(p) \/ Hierarchy!StartThread(p)
  BY <1>2 DEF Hierarchy!SpuriousWakeup, Hierarchy!StartThread
<1>3. CASE Hierarchy!PickUp(p)
  BY <1>3, HierarchyChopsticks DEF Hierarchy!PickUp
<1>4. CASE Hierarchy!Eat(p)
  BY <1>4 DEF Hierarchy!Eat
<1>5. CASE Hierarchy!PutDown(p)
  <2>1. /\ own' = [own EXCEPT ![p] = ~@] /\ UNCHANGED <<meals, over>>
        /\ table' = [table EXCEPT ![Hierarchy!Current(p)] = FALSE]
    BY <1>5 DEF Hierarchy!PutDown
  <2>2. \A q \in Hierarchy!Philosophers :
          pc'[q] \in {"new", "think", "pick", "await", "eat", "put", "home"}
    BY <1>5, HierarchyWakes
  <2>3. pc' \in [Hierarchy!Philosophers -> {"new", "think", "pick", "await", "eat", "put", "home"}]
    BY <1>5, <2>2 DEF Hierarchy!PutDown
  <2>4. Hierarchy!TypeOK'
    BY <2>1, <2>3, HierarchyChopsticks
  <2>5. ASSUME NEW q \in Hierarchy!Philosophers
        PROVE  /\ pc'[q] \in {"new", "think", "pick", "await", "eat"} => meals'[q] < Meals
               /\ pc'[q] \in {"new", "think", "eat", "home"} => ~own'[q]
    <3>1. CASE q = p
      <4>1. pc'[p] = IF own[p] THEN IF meals[p] = Meals THEN "home" ELSE "think" ELSE "put"
        BY <1>5, HierarchyWakes DEF Hierarchy!Full
      <4>2. meals'[p] = meals[p] /\ meals[p] \in 0..Meals
        BY <2>1
      <4>3. pc'[p] \in {"new", "think", "pick", "await", "eat"} => meals'[p] < Meals
        BY <4>1, <4>2
      <4>4. pc'[p] \in {"new", "think", "eat", "home"} => own[p]
        BY <4>1
      <4>5. own[p] => ~own'[p]
        BY <2>1
      <4>6. QED
        BY <3>1, <4>3, <4>4, <4>5
    <3>2. CASE q # p
      BY <1>5, <2>1, <3>2, HierarchyWakes DEF Hierarchy!Waiting
    <3>3. QED
      BY <3>1, <3>2
  <2>6. QED
    BY <2>4, <2>5
<1>6. QED
  BY <1>1, <1>2, <1>3, <1>4, <1>5 DEF Hierarchy!Step

\* The chopsticks stay in one hand each, and the flags tell.
LEMMA HierarchyKeepsHands ==
  ASSUME HierarchyInv, NEW p \in Hierarchy!Philosophers,
         Hierarchy!Step(p) \/ Hierarchy!SpuriousWakeup(p) \/ Hierarchy!StartThread(p)
  PROVE  HierarchyApart' /\ HierarchyInUse'
<1> USE DEF HierarchyInv, Hierarchy!TypeOK
<1>0. \A q \in Hierarchy!Philosophers \ {p} : HierarchyHeld(q)' = HierarchyHeld(q)
  BY HierarchyHands
<1>1. CASE HierarchyHeld(p)' = HierarchyHeld(p) /\ table' = table
  BY <1>0, <1>1 DEF HierarchyApart, HierarchyInUse
<1>2. ASSUME NEW c \in Hierarchy!Philosophers,
             ~table[c], table' = [table EXCEPT ![c] = TRUE],
             HierarchyHeld(p)' = HierarchyHeld(p) \cup {c}
      PROVE  HierarchyApart' /\ HierarchyInUse'
  <2>1. \A q \in Hierarchy!Philosophers : c \notin HierarchyHeld(q)
    BY <1>2 DEF HierarchyInUse
  <2>2. QED
    BY <1>0, <1>2, <2>1 DEF HierarchyApart, HierarchyInUse
<1>3. ASSUME NEW c \in HierarchyHeld(p), c \in Hierarchy!Philosophers,
             table' = [table EXCEPT ![c] = FALSE], HierarchyHeld(p)' = HierarchyHeld(p) \ {c}
      PROVE  HierarchyApart' /\ HierarchyInUse'
  <2>1. \A q \in Hierarchy!Philosophers \ {p} : c \notin HierarchyHeld(q)
    BY <1>3 DEF HierarchyApart
  <2>2. QED
    BY <1>0, <1>3, <2>1 DEF HierarchyApart, HierarchyInUse
<1>4. QED
  BY <1>1, <1>2, <1>3, HierarchyHands

\* No signal is lost: putDown wakes the one philosopher that can be waiting.
LEMMA HierarchyKeepsSignals ==
  ASSUME HierarchyInv, NEW p \in Hierarchy!Philosophers,
         Hierarchy!Step(p) \/ Hierarchy!SpuriousWakeup(p) \/ Hierarchy!StartThread(p)
  PROVE  Hierarchy!NoLostSignal'
<1> SUFFICES ASSUME NEW q \in Hierarchy!Philosophers, pc'[q] = "await"
             PROVE  table'[Hierarchy!Current(q)'] = TRUE
  BY DEF Hierarchy!NoLostSignal
<1> USE DEF HierarchyInv, Hierarchy!TypeOK
<1> DEFINE c == Hierarchy!Current(p)
           d == Hierarchy!Current(q)
<1>0. c \in Hierarchy!Philosophers /\ d \in Hierarchy!Philosophers
  BY HierarchyChopsticks
<1>1. CASE Hierarchy!PutDown(p)
  <2>1. q # p /\ pc[q] = "await"
    BY <1>1, HierarchyWakes
  <2>2. own'[q] = own[q]
    BY <1>1, <2>1 DEF Hierarchy!PutDown
  <2>3. d' = d /\ table[d] = TRUE
    BY <2>1, <2>2, HierarchySameHands DEF Hierarchy!NoLostSignal
  <2>4. d # c
    <3> SUFFICES ASSUME d = c PROVE FALSE
      OBVIOUS
    <3>1. q \in Hierarchy!Waiting(c)
      BY <2>1 DEF Hierarchy!Waiting
    <3>2. PICK r \in Hierarchy!Waiting(c) : pc'[r] = "pick"
      BY <1>1, <3>1, HierarchyWakes
    <3>3. r \in Hierarchy!Philosophers /\ r # p /\ r # q /\ Hierarchy!Current(r) = c
      BY <1>1, <3>2, HierarchyWakes DEF Hierarchy!Waiting
    <3>4. \A t \in Hierarchy!Philosophers :
            Hierarchy!Current(t) \in {Hierarchy!Left(t), Hierarchy!Right(t)}
      BY HierarchyChopsticks
    <3>5. QED
      BY <2>1, <3>3, <3>4, HierarchyTwoUsers
  <2>5. QED
    BY <1>0, <1>1, <2>3, <2>4 DEF Hierarchy!PutDown
<1>2. CASE Hierarchy!Await(p) /\ q = p
  <2>1. d' = d
    BY <1>2 DEF Hierarchy!Await, Hierarchy!Current, Hierarchy!Lower, Hierarchy!Higher,
                Hierarchy!Left, Hierarchy!Right
  <2>2. QED
    BY <1>0, <1>2, <2>1 DEF Hierarchy!Await, Hierarchy!Free
<1>3. CASE ~Hierarchy!PutDown(p) /\ ~(Hierarchy!Await(p) /\ q = p)
  <2>1. pc[q] = "await" /\ pc'[q] = pc[q] /\ own'[q] = own[q]
    BY <1>3 DEF Hierarchy!Step, Hierarchy!GetHungry, Hierarchy!PickUp, Hierarchy!Await, Hierarchy!Eat,
                Hierarchy!SpuriousWakeup, Hierarchy!StartThread
  <2>2. d' = d /\ table[d] = TRUE
    BY <2>1, HierarchySameHands DEF Hierarchy!NoLostSignal
  <2>3. table' = table \/ \E e \in Hierarchy!Philosophers : table' = [table EXCEPT ![e] = TRUE]
    BY <1>3, HierarchyChopsticks
       DEF Hierarchy!Step, Hierarchy!GetHungry, Hierarchy!PickUp, Hierarchy!Await, Hierarchy!Eat,
           Hierarchy!SpuriousWakeup, Hierarchy!StartThread
  <2>4. QED
    BY <1>0, <2>2, <2>3
<1>4. QED
  BY <1>1, <1>2, <1>3

\* Every step of the table with a hierarchy keeps its invariant.
LEMMA HierarchyKeepsInv ==
  ASSUME HierarchyInv,
         \/ \E p \in Hierarchy!Philosophers : Hierarchy!Step(p) \/ Hierarchy!SpuriousWakeup(p)
         \/ Hierarchy!MainStep
         \/ UNCHANGED <<pc, own, meals, table, over>>
  PROVE  HierarchyInv'
<1>1. ASSUME NEW p \in Hierarchy!Philosophers,
             Hierarchy!Step(p) \/ Hierarchy!SpuriousWakeup(p) \/ Hierarchy!StartThread(p)
      PROVE  HierarchyInv'
  BY <1>1, HierarchyKeepsTypes, HierarchyKeepsHands, HierarchyKeepsSignals DEF HierarchyInv
<1>2. ASSUME UNCHANGED <<pc, own, meals, table>>, over' \in BOOLEAN
      PROVE  HierarchyInv'
  <2>1. \A q \in Hierarchy!Philosophers :
          HierarchyHeld(q)' = HierarchyHeld(q) /\ Hierarchy!Current(q)' = Hierarchy!Current(q)
    BY <1>2, HierarchySameHands
  <2>2. HierarchyApart' /\ HierarchyInUse' /\ Hierarchy!NoLostSignal'
    BY <1>2, <2>1 DEF HierarchyInv, HierarchyApart, HierarchyInUse, Hierarchy!NoLostSignal
  <2>3. QED
    BY <1>2, <2>2 DEF HierarchyInv, Hierarchy!TypeOK, HierarchyHungry
<1>3. CASE Hierarchy!JoinAll \/ UNCHANGED <<pc, own, meals, table, over>>
  <2>1. over' \in BOOLEAN /\ UNCHANGED <<pc, own, meals, table>>
    BY <1>3 DEF Hierarchy!JoinAll, HierarchyInv, Hierarchy!TypeOK
  <2>2. QED
    BY <1>2, <2>1
<1>4. QED
  BY <1>1, <1>3 DEF Hierarchy!MainStep

-----------------------------------------------------------------------------
(* DiningPhilosophers2.java: a monitor that looks at states, and a counter.*)

\* The philosophers whose iAmDone has returned.
StatesGone == {p \in States!Philosophers : pc[p] = "done"}

\* Whoever is still at the table has a meal to come, the others have had all.
StatesHungry ==
  \A p \in States!Philosophers :
    IF pc[p] \in {"new", "pick", "wait", "eat"} THEN meals[p] < Meals ELSE meals[p] = Meals

\* An entry says EATING exactly while its philosopher eats.
StatesAgree ==
  \A p \in States!Philosophers : pc[p] = "eat" <=> table[States!Own(p)] = "EATING"

\* doneEating++ can lose updates, but never counts anybody who has not called it.
StatesCounted ==
  /\ common <= Cardinality(StatesGone)
  /\ \A p \in States!Philosophers : pc[p] = "write" => own[p] <= Cardinality(StatesGone)

\* When main has seen the end, everybody has gone.
StatesOver == over => StatesGone = States!Philosophers

\* The circle of the tested entries closes: see SomebodyThinks.  With two seats
\* p + 2 is p, and both eat.
StatesThinks == N >= 3 => States!SomebodyThinks

StatesInv == /\ States!TypeOK
             /\ StatesHungry
             /\ StatesAgree
             /\ StatesCounted
             /\ StatesOver
             /\ StatesThinks
             /\ States!NoLostWakeup

\* How many may have gone.
LEMMA StatesGoneCount ==
  /\ IsFiniteSet(StatesGone)
  /\ Cardinality(StatesGone) \in 0..N
  /\ StatesGone # States!Philosophers => Cardinality(StatesGone) <= N - 1
<1>1. IsFiniteSet(States!Philosophers) /\ Cardinality(States!Philosophers) = N
  BY FS_Interval, NAssumption DEF States!Philosophers
<1>2. StatesGone \in SUBSET States!Philosophers
  BY DEF StatesGone
<1>3. /\ IsFiniteSet(StatesGone)
      /\ Cardinality(StatesGone) <= N
      /\ Cardinality(StatesGone) = N => StatesGone = States!Philosophers
  BY <1>1, <1>2, FS_Subset
<1>4. Cardinality(StatesGone) \in Nat
  BY <1>3, FS_CardinalityType
<1>5. QED
  BY <1>3, <1>4, NAssumption

\* The entries p tests, and its own, are entries of the array.
LEMMA StatesEntries ==
  ASSUME NEW p \in States!Philosophers
  PROVE  /\ States!Own(p) \in 0..(N - 1)
         /\ States!Checked(p) \subseteq 0..(N - 1)
BY NAssumption DEF States!Philosophers, States!Own, States!Checked

\* With three seats or more p + 2 is somebody else.
LEMMA StatesNextButOne ==
  ASSUME NEW p \in States!Philosophers, N >= 3
  PROVE  \E q \in States!Philosophers \ {p} : States!Own(q) = (p + 1) % N
<1> USE NAssumption DEF States!Philosophers, States!Own
<1>1. CASE p + 1 < N
  <2>1. (p + 1) % N = p + 1
    BY <1>1
  <2>2. p + 2 \in (1..N) \ {p} /\ (p + 2) - 1 = p + 1
    BY <1>1
  <2>3. QED
    BY <2>1, <2>2
<1>2. CASE p + 1 = N
  <2>1. (p + 1) % N = 0
    BY <1>2
  <2>2. 1 \in (1..N) \ {p} /\ 1 - 1 = 0
    BY <1>2
  <2>3. QED
    BY <2>1, <2>2
<1>3. CASE p = N
  <2>1. (p + 1) % N = 1
    BY <1>3
  <2>2. 2 \in (1..N) \ {p} /\ 2 - 1 = 1
    BY <1>3
  <2>3. QED
    BY <2>1, <2>2
<1>4. QED
  BY <1>1, <1>2, <1>3

\* Nobody has begun, nobody is counted.
LEMMA StatesInit == States!Init => StatesInv
<1> SUFFICES ASSUME States!Init PROVE StatesInv
  OBVIOUS
<1> USE DEF States!Init
<1>1. States!TypeOK
  <2>1. meals \in [States!Philosophers -> 0..Meals]
    BY MealsAssumption
  <2>2. pc \in [States!Philosophers -> {"new", "pick", "wait", "eat", "iAmDone", "write", "done"}]
    OBVIOUS
  <2>3. table \in [0..(N - 1) -> {"THINKING", "EATING"}]
    OBVIOUS
  <2>4. common \in 0..N /\ own \in [States!Philosophers -> 0..(N - 1)]
    BY NAssumption
  <2>5. over \in BOOLEAN
    OBVIOUS
  <2>6. QED
    BY <2>1, <2>2, <2>3, <2>4, <2>5 DEF States!TypeOK
<1>2. StatesHungry
  BY MealsAssumption DEF StatesHungry
<1>3. StatesAgree /\ StatesOver /\ States!NoLostWakeup
  BY StatesEntries DEF StatesAgree, StatesOver, States!NoLostWakeup
<1>4. StatesCounted
  BY StatesGoneCount DEF StatesCounted
<1>5. StatesThinks
  BY NAssumption DEF StatesThinks, States!SomebodyThinks, States!Philosophers
<1>6. QED
  BY <1>1, <1>2, <1>3, <1>4, <1>5 DEF StatesInv

\* A step that adds nobody to those who have gone, or eat, keeps what is said
\* about them.
LEMMA StatesSameGone ==
  ASSUME StatesInv, StatesGone' = StatesGone, UNCHANGED <<common, own, over>>,
         \A q \in States!Philosophers : pc'[q] = "write" => pc[q] = "write"
  PROVE  StatesCounted' /\ StatesOver'
BY DEF StatesInv, StatesCounted, StatesOver, States!Philosophers

LEMMA StatesFewerEat ==
  ASSUME StatesInv, \A q \in States!Philosophers : pc'[q] = "eat" => pc[q] = "eat"
  PROVE  StatesThinks'
BY DEF StatesInv, StatesThinks, States!SomebodyThinks, States!Philosophers

\* pickUp: the next but one does not eat, so somebody goes on thinking.
LEMMA StatesPickUp ==
  ASSUME StatesInv, NEW p \in States!Philosophers, States!PickUp(p)
  PROVE  StatesInv'
<1> USE DEF StatesInv, States!PickUp, States!TypeOK
<1>1. States!TypeOK'
  BY StatesEntries
<1>2. StatesHungry'
  BY DEF StatesHungry
<1>3. StatesAgree'
  BY StatesEntries DEF StatesAgree, States!Own, States!Philosophers
<1>4. StatesCounted' /\ StatesOver'
  <2>1. StatesGone' = StatesGone
    BY DEF StatesGone, States!Philosophers
  <2>2. QED
    BY <2>1, StatesSameGone
<1>5. StatesThinks'
  <2> SUFFICES ASSUME N >= 3
               PROVE  \E q \in States!Philosophers : pc'[q] # "eat"
    BY DEF StatesThinks, States!SomebodyThinks, States!Philosophers
  <2>1. PICK q \in States!Philosophers \ {p} : States!Own(q) = (p + 1) % N
    BY StatesNextButOne
  <2>2. table[States!Own(q)] # "EATING"
    BY <2>1 DEF States!Clear, States!Checked
  <2>3. pc'[q] # "eat"
    BY <2>1, <2>2 DEF StatesAgree
  <2>4. QED
    BY <2>3
<1>6. States!NoLostWakeup'
  BY StatesEntries DEF States!NoLostWakeup, States!Clear, States!Checked
<1>7. QED
  BY <1>1, <1>2, <1>3, <1>4, <1>5, <1>6

\* putDown wakes all that wait.
LEMMA StatesPutDown ==
  ASSUME StatesInv, NEW p \in States!Philosophers, States!PutDown(p)
  PROVE  StatesInv'
<1> USE DEF StatesInv
<1>1. /\ pc[p] = "eat" /\ meals[p] < Meals
      /\ meals' = [meals EXCEPT ![p] = @ + 1]
      /\ table' = [table EXCEPT ![States!Own(p)] = "THINKING"]
      /\ UNCHANGED <<common, own, over>>
  BY DEF States!PutDown, StatesHungry
<1>2. /\ pc' \in [States!Philosophers -> {"new", "pick", "wait", "eat", "iAmDone", "write", "done"}]
      /\ pc'[p] = IF States!LastMeal(p) THEN "iAmDone" ELSE "pick"
      /\ \A q \in States!Philosophers \ {p} : pc'[q] = IF pc[q] = "wait" THEN "pick" ELSE pc[q]
  BY DEF States!TypeOK, States!PutDown, States!Woken, States!Waiting
<1>3. States!TypeOK'
  <2>1. meals' \in [States!Philosophers -> 0..Meals]
    BY <1>1, MealsAssumption DEF States!TypeOK
  <2>2. QED
    BY <1>1, <1>2, <2>1, StatesEntries DEF States!TypeOK
<1>4. StatesHungry'
  <2> SUFFICES ASSUME NEW q \in States!Philosophers
               PROVE  IF pc'[q] \in {"new", "pick", "wait", "eat"} THEN meals'[q] < Meals
                                                                   ELSE meals'[q] = Meals
    BY DEF StatesHungry
  <2>1. CASE q = p
    BY <1>1, <1>2, <2>1, MealsAssumption DEF States!LastMeal, States!TypeOK
  <2>2. CASE q # p
    BY <1>1, <1>2, <2>2 DEF StatesHungry, States!TypeOK
  <2>3. QED
    BY <2>1, <2>2
<1>5. StatesAgree'
  BY <1>1, <1>2, StatesEntries DEF StatesAgree, States!Own, States!Philosophers, States!TypeOK
<1>6. StatesCounted' /\ StatesOver'
  <2>1. StatesGone' = StatesGone
    BY <1>1, <1>2 DEF StatesGone, States!Philosophers
  <2>2. QED
    BY <1>1, <1>2, <2>1, StatesSameGone
<1>7. StatesThinks'
  BY <1>1, <1>2, StatesFewerEat
<1>8. States!NoLostWakeup'
  BY <1>2 DEF States!NoLostWakeup
<1>9. QED
  BY <1>3, <1>4, <1>5, <1>6, <1>7, <1>8

\* iAmDone: what is read, and written one more, counts only philosophers that
\* have written before.
LEMMA StatesCount ==
  ASSUME StatesInv, NEW p \in States!Philosophers, States!ReadDone(p) \/ States!WriteDone(p)
  PROVE  StatesInv'
<1> USE DEF StatesInv
<1>1. StatesHungry' /\ StatesAgree' /\ States!NoLostWakeup'
  <2>1. StatesHungry'
    BY DEF StatesHungry, States!ReadDone, States!WriteDone, States!TypeOK, States!Philosophers
  <2>2. StatesAgree'
    BY DEF StatesAgree, States!ReadDone, States!WriteDone, States!TypeOK, States!Own,
           States!Philosophers
  <2>3. States!NoLostWakeup'
    BY DEF States!NoLostWakeup, States!ReadDone, States!WriteDone, States!TypeOK,
           States!Clear, States!Checked, States!Own, States!Philosophers
  <2>4. QED
    BY <2>1, <2>2, <2>3
<1>2. StatesThinks'
  BY StatesFewerEat DEF States!ReadDone, States!WriteDone, States!TypeOK
<1>3. p \notin StatesGone /\ Cardinality(StatesGone) <= N - 1
  BY StatesGoneCount DEF StatesGone, States!ReadDone, States!WriteDone
<1>4. Cardinality(StatesGone) \in 0..N
  BY StatesGoneCount
<1>5. CASE States!ReadDone(p)
  <2> USE <1>5 DEF States!ReadDone, States!TypeOK
  <2>1. StatesGone' = StatesGone
    BY DEF StatesGone, States!Philosophers
  <2>2. common \in 0..(N - 1)
    BY <1>3, <1>4, NAssumption DEF StatesCounted
  <2>3. States!TypeOK'
    BY <2>2
  <2>4. StatesCounted' /\ StatesOver'
    BY <2>1 DEF StatesCounted, StatesOver, States!Philosophers
  <2>5. QED
    BY <1>1, <1>2, <2>3, <2>4
<1>6. CASE States!WriteDone(p)
  <2> USE <1>6 DEF States!WriteDone, States!TypeOK
  <2>1. StatesGone' = StatesGone \cup {p}
    BY DEF StatesGone, States!Philosophers
  <2>2. Cardinality(StatesGone') = Cardinality(StatesGone) + 1
    BY <1>3, <2>1, StatesGoneCount, FS_AddElement
  <2>3. common' = own[p] + 1 /\ own[p] \in 0..(N - 1) /\ own[p] <= Cardinality(StatesGone)
    BY DEF StatesCounted
  <2>4. States!TypeOK'
    BY <2>3, NAssumption
  <2>5. common' <= Cardinality(StatesGone')
    BY <1>4, <2>2, <2>3
  <2>6. \A q \in States!Philosophers : pc'[q] = "write" => own'[q] <= Cardinality(StatesGone')
    BY <1>4, <2>2 DEF StatesCounted
  <2>7. StatesCounted'
    BY <2>5, <2>6 DEF StatesCounted, States!Philosophers
  <2>8. StatesOver'
    BY <1>3, <2>1 DEF StatesOver, StatesGone, States!Philosophers
  <2>9. QED
    BY <1>1, <1>2, <2>4, <2>7, <2>8
<1>7. QED
  BY <1>5, <1>6

\* The other steps start no meal and end none.
LEMMA StatesOthers ==
  ASSUME StatesInv, NEW p \in States!Philosophers,
         States!Wait(p) \/ States!SpuriousWakeup(p) \/ States!Start(p)
  PROVE  StatesInv'
<1> USE DEF StatesInv, States!TypeOK, States!Wait, States!SpuriousWakeup, States!Start
<1>1. States!TypeOK'
  OBVIOUS
<1>2. StatesHungry' /\ StatesAgree'
  BY DEF StatesHungry, StatesAgree, States!Own, States!Philosophers
<1>3. StatesGone' = StatesGone
  BY DEF StatesGone, States!Philosophers
<1>4. StatesCounted' /\ StatesOver'
  BY <1>3, StatesSameGone
<1>5. StatesThinks'
  BY StatesFewerEat
<1>6. States!NoLostWakeup'
  BY DEF States!NoLostWakeup, States!Clear, States!Checked
<1>7. QED
  BY <1>1, <1>2, <1>4, <1>5, <1>6

\* main finds the counter at N: everybody has counted itself.
LEMMA StatesAnnounce ==
  ASSUME StatesInv, States!Announce
  PROVE  StatesInv'
<1> USE DEF StatesInv, States!Announce, States!TypeOK
<1>1. StatesGone' = StatesGone
  BY DEF StatesGone, States!Philosophers
<1>2. StatesGone = States!Philosophers
  BY StatesGoneCount, NAssumption DEF States!AllDone, StatesCounted
<1>3. StatesCounted' /\ StatesOver'
  BY <1>1, <1>2 DEF StatesCounted, StatesOver, States!Philosophers
<1>4. QED
  BY <1>3 DEF StatesHungry, StatesAgree, States!Own, States!Philosophers, StatesThinks,
              States!SomebodyThinks, States!NoLostWakeup, States!Clear, States!Checked

\* Every step of the table of states keeps its invariant.
LEMMA StatesKeepsInv ==
  ASSUME StatesInv,
         \/ \E p \in States!Philosophers : States!Step(p) \/ States!SpuriousWakeup(p)
         \/ States!MainStep
         \/ UNCHANGED <<pc, meals, table, common, own, over>>
  PROVE  StatesInv'
<1>1. CASE UNCHANGED <<pc, meals, table, common, own, over>>
  BY <1>1 DEF StatesInv, States!TypeOK, StatesHungry, StatesAgree, StatesCounted, StatesOver,
              StatesGone, StatesThinks, States!SomebodyThinks, States!NoLostWakeup, States!Clear,
              States!Checked, States!Own, States!Philosophers
<1>2. QED
  BY <1>1, StatesPickUp, StatesPutDown, StatesCount, StatesOthers, StatesAnnounce
     DEF States!Step, States!MainStep

\* Over means that everybody has had all meals.
LEMMA StatesOverMeansEaten == StatesInv => States!OverMeansEaten
BY DEF StatesInv, StatesOver, StatesGone, StatesHungry, States!OverMeansEaten

-----------------------------------------------------------------------------
(* javaprogram.java: a token.                                              *)

\* Neither OneReaches nor HoldersAgree is inductive: a philosopher about to set
\* a holder must still find the fork on the table.  That holds because setting a
\* holder takes the token.
\* Between holder.get() and holder.set() the fork stays on the table.
TokenStillFree == \A p \in Token!Ids : pc[p] \in {"setLeft", "setRight"} =>
                              table[Token!Wanted(p)] = Token!ON_TABLE

TokenInv == Token!TypeOK /\ Token!OneReaches /\ Token!HoldersAgree /\ TokenStillFree

\* Both forks of a philosopher are forks of the table, and different ones.
LEMMA TokenForksOf ==
  ASSUME NEW p \in Token!Ids
  PROVE  /\ Token!Left(p) \in Token!Ids /\ Token!Right(p) \in Token!Ids
         /\ Token!Left(p) # Token!Right(p)
<1>1. CASE p + 1 = N
  <2>1. N % N = 0
    BY NAssumption
  <2>2. QED
    BY <1>1, <2>1, NAssumption DEF Token!Ids, Token!Left, Token!Right
<1>2. CASE p + 1 < N
  <2>1. (p + 1) % N = p + 1
    BY <1>2, NAssumption DEF Token!Ids
  <2>2. QED
    BY <1>2, <2>1, NAssumption DEF Token!Ids, Token!Left, Token!Right
<1>3. QED
  BY <1>1, <1>2, NAssumption DEF Token!Ids

\* The token goes to a philosopher of the table.
LEMMA TokenNextInRing ==
  ASSUME NEW p \in Token!Ids
  PROVE  Token!NextTurn(p) \in Token!Ids
BY NAssumption DEF Token!Ids, Token!NextTurn

\* ON_TABLE is nobody's id.
LEMMA TokenNobodyOnTable == Token!ON_TABLE \notin Token!Ids
BY NAssumption DEF Token!Ids, Token!ON_TABLE

\* All forks lie on the table and nobody reaches: the invariant holds.
LEMMA TokenInitInv == Token!Init => TokenInv
<1> SUFFICES ASSUME Token!Init PROVE TokenInv
  OBVIOUS
<1> USE DEF Token!Init
<1>1. Token!TypeOK
  BY NAssumption DEF Token!TypeOK, Token!Ids, Token!ON_TABLE
<1>2. Token!OneReaches /\ TokenStillFree
  BY DEF Token!OneReaches, TokenStillFree
<1>3. Token!HoldersAgree
  BY TokenNobodyOnTable DEF Token!HoldersAgree, Token!Held
<1>4. QED
  BY <1>1, <1>2, <1>3 DEF TokenInv

\* Every step keeps the types; the token stays in the ring.
LEMMA TokenStepKeepsTypes ==
  ASSUME Token!TypeOK, NEW p \in Token!Ids, Token!Step(p)
  PROVE  Token!TypeOK'
<1> USE DEF Token!TypeOK, Token!Goto
<1>1. CASE Token!LookAtToken(p)
  BY <1>1 DEF Token!LookAtToken
<1>2. CASE Token!SeeFork(p)
  BY <1>2 DEF Token!SeeFork
<1>3. CASE Token!TakeFork(p)
  BY <1>3 DEF Token!TakeFork
<1>4. CASE Token!PassToken(p)
  BY <1>4, TokenNextInRing DEF Token!PassToken
<1>5. CASE Token!PutLeft(p)
  BY <1>5 DEF Token!PutLeft
<1>6. CASE Token!PutRight(p)
  BY <1>6 DEF Token!PutRight
<1>7. CASE Token!TestEnd(p)
  BY <1>7 DEF Token!TestEnd
<1>8. QED
  BY <1>1, <1>2, <1>3, <1>4, <1>5, <1>6, <1>7 DEF Token!Step

\* A philosopher comes to reach for its forks only with the token, and lets the
\* token go only when it has stopped.
LEMMA TokenStepKeepsReach ==
  ASSUME Token!TypeOK, Token!OneReaches, NEW p \in Token!Ids, Token!Step(p)
  PROVE  Token!OneReaches'
<1> SUFFICES ASSUME NEW q \in Token!Ids,
                    pc'[q] \in {"waitLeft", "setLeft", "waitRight", "setRight", "pass"}
             PROVE  common' = q
  BY DEF Token!OneReaches
<1> USE DEF Token!TypeOK, Token!OneReaches, Token!Goto
<1>1. CASE Token!LookAtToken(p)
  BY <1>1 DEF Token!LookAtToken, Token!MyTurn
<1>2. CASE Token!SeeFork(p)
  BY <1>2 DEF Token!SeeFork
<1>3. CASE Token!TakeFork(p)
  BY <1>3 DEF Token!TakeFork
<1>4. CASE Token!PassToken(p)
  BY <1>4 DEF Token!PassToken
<1>5. CASE Token!PutLeft(p)
  BY <1>5 DEF Token!PutLeft
<1>6. CASE Token!PutRight(p)
  BY <1>6 DEF Token!PutRight
<1>7. CASE Token!TestEnd(p)
  BY <1>7 DEF Token!TestEnd
<1>8. QED
  BY <1>1, <1>2, <1>3, <1>4, <1>5, <1>6, <1>7 DEF Token!Step

\* A step of p moves nobody else, so nobody else's hands change.
LEMMA TokenOthersKeepForks ==
  ASSUME Token!TypeOK, NEW p \in Token!Ids, Token!Step(p), NEW q \in Token!Ids \ {p}
  PROVE  pc'[q] = pc[q] /\ Token!Held(q)' = Token!Held(q)
<1>1. pc'[q] = pc[q]
  BY DEF Token!TypeOK, Token!Step, Token!LookAtToken, Token!SeeFork, Token!TakeFork,
         Token!PassToken, Token!PutLeft, Token!PutRight, Token!TestEnd, Token!Goto
<1>2. QED
  BY <1>1 DEF Token!Held, Token!Left, Token!Right

\* How the hands of p and the holders change, step by step.
LEMMA TokenHandsOf ==
  ASSUME Token!TypeOK, NEW p \in Token!Ids, Token!Step(p)
  PROVE  \/ Token!Held(p)' = Token!Held(p) /\ table' = table
         \/ \E f \in Token!Ids : /\ table' = [table EXCEPT ![f] = p]
                           /\ Token!TakeFork(p) /\ f = Token!Wanted(p)
                           /\ Token!Held(p)' = Token!Held(p) \cup {f}
         \/ \E f \in Token!Ids : /\ table' = [table EXCEPT ![f] = Token!ON_TABLE]
                           /\ f \in Token!Held(p)
                           /\ Token!Held(p)' = Token!Held(p) \ {f}
<1> USE DEF Token!TypeOK, Token!Goto
<1>f. Token!Left(p) \in Token!Ids /\ Token!Right(p) \in Token!Ids /\ Token!Left(p) # Token!Right(p)
  BY TokenForksOf
<1>1. CASE Token!LookAtToken(p)
  BY <1>1 DEF Token!LookAtToken, Token!Held
<1>2. CASE Token!SeeFork(p)
  BY <1>2 DEF Token!SeeFork, Token!Held, Token!Left, Token!Right
<1>3. CASE Token!TakeFork(p)
  <2>1. Token!Held(p)' = Token!Held(p) \cup {Token!Wanted(p)}
    <3>1. CASE pc[p] = "setLeft"
      BY <1>3, <3>1 DEF Token!TakeFork, Token!Wanted, Token!Held, Token!Left
    <3>2. CASE pc[p] = "setRight"
      BY <1>3, <3>2 DEF Token!TakeFork, Token!Wanted, Token!Held, Token!Left, Token!Right
    <3>3. QED
      BY <1>3, <3>1, <3>2 DEF Token!TakeFork
  <2>2. Token!Wanted(p) \in Token!Ids
    BY <1>f DEF Token!Wanted
  <2>3. QED
    BY <1>3, <2>1, <2>2 DEF Token!TakeFork
<1>4. CASE Token!PassToken(p)
  BY <1>4 DEF Token!PassToken, Token!Held, Token!Left, Token!Right
<1>5. CASE Token!PutLeft(p)
  <2>1. Token!Held(p) = {Token!Left(p), Token!Right(p)} /\ Token!Held(p)' = {Token!Right(p)}
    BY <1>5 DEF Token!PutLeft, Token!Held, Token!Right
  <2>2. Token!Left(p) \in Token!Held(p) /\ Token!Held(p)' = Token!Held(p) \ {Token!Left(p)}
    BY <2>1, <1>f
  <2>3. QED
    BY <1>5, <1>f, <2>2 DEF Token!PutLeft
<1>6. CASE Token!PutRight(p)
  <2>1. Token!Held(p) = {Token!Right(p)} /\ Token!Held(p)' = {}
    BY <1>6 DEF Token!PutRight, Token!Held
  <2>2. Token!Right(p) \in Token!Held(p) /\ Token!Held(p)' = Token!Held(p) \ {Token!Right(p)}
    BY <2>1
  <2>3. QED
    BY <1>6, <1>f, <2>2 DEF Token!PutRight, Token!Returned
<1>7. CASE Token!TestEnd(p)
  BY <1>7 DEF Token!TestEnd, Token!Held
<1>8. QED
  BY <1>1, <1>2, <1>3, <1>4, <1>5, <1>6, <1>7 DEF Token!Step

\* The holders and the hands go on agreeing.
LEMMA TokenStepKeepsHolders ==
  ASSUME TokenInv, NEW p \in Token!Ids, Token!Step(p)
  PROVE  Token!HoldersAgree'
<1> USE DEF TokenInv
<1> SUFFICES ASSUME NEW f \in Token!Ids, NEW q \in Token!Ids
             PROVE  table'[f] = q <=> f \in Token!Held(q)'
  BY DEF Token!HoldersAgree
<1>a. \A g \in Token!Ids, r \in Token!Ids : table[g] = r <=> g \in Token!Held(r)
  BY DEF Token!HoldersAgree
<1>b. q # p => Token!Held(q)' = Token!Held(q)
  BY TokenOthersKeepForks
<1>1. CASE Token!Held(p)' = Token!Held(p) /\ table' = table
  BY <1>1, <1>a, <1>b
<1>2. ASSUME NEW g \in Token!Ids, table' = [table EXCEPT ![g] = p],
             Token!TakeFork(p), g = Token!Wanted(p), Token!Held(p)' = Token!Held(p) \cup {g}
      PROVE  table'[f] = q <=> f \in Token!Held(q)'
  <2>1. table[g] = Token!ON_TABLE
    BY <1>2 DEF TokenStillFree, Token!TakeFork
  <2>2. \A r \in Token!Ids : g \notin Token!Held(r)
    BY <1>a, <2>1, TokenNobodyOnTable
  <2>3. table'[g] = p /\ \A h \in Token!Ids \ {g} : table'[h] = table[h]
    BY <1>2 DEF Token!TypeOK
  <2>4. QED
    BY <1>2, <1>a, <1>b, <2>2, <2>3
<1>3. ASSUME NEW g \in Token!Ids, table' = [table EXCEPT ![g] = Token!ON_TABLE],
             g \in Token!Held(p), Token!Held(p)' = Token!Held(p) \ {g}
      PROVE  table'[f] = q <=> f \in Token!Held(q)'
  <2>1. table[g] = p /\ \A r \in Token!Ids \ {p} : g \notin Token!Held(r)
    BY <1>3, <1>a
  <2>2. table'[g] = Token!ON_TABLE /\ \A h \in Token!Ids \ {g} : table'[h] = table[h]
    BY <1>3 DEF Token!TypeOK
  <2>3. QED
    BY <1>3, <1>a, <1>b, <2>1, <2>2, TokenNobodyOnTable
<1>4. QED
  BY <1>1, <1>2, <1>3, TokenHandsOf

\* Whoever takes a fork has the token, so the fork that another one has seen on
\* the table stays there.
LEMMA TokenStepKeepsFree ==
  ASSUME TokenInv, NEW p \in Token!Ids, Token!Step(p)
  PROVE  TokenStillFree'
<1> USE DEF TokenInv
<1> SUFFICES ASSUME NEW q \in Token!Ids, pc'[q] \in {"setLeft", "setRight"}
             PROVE  table'[Token!Wanted(q)'] = Token!ON_TABLE
  BY DEF TokenStillFree
<1>1. CASE q = p
  <2>1. Token!SeeFork(p)
    BY <1>1 DEF Token!TypeOK, Token!Step, Token!LookAtToken, Token!SeeFork, Token!TakeFork,
                Token!PassToken, Token!PutLeft, Token!PutRight, Token!TestEnd, Token!Goto
  <2>2. Token!Wanted(p)' = Token!Wanted(p)
    BY <2>1 DEF Token!SeeFork, Token!Goto, Token!Wanted, Token!TypeOK, Token!Left, Token!Right
  <2>3. QED
    BY <1>1, <2>1, <2>2 DEF Token!SeeFork
<1>2. CASE q # p
  <2>1. pc'[q] = pc[q]
    BY <1>2, TokenOthersKeepForks
  <2>2. Token!Wanted(q)' = Token!Wanted(q) /\ Token!Wanted(q) \in Token!Ids
    BY <2>1, TokenForksOf DEF Token!Wanted, Token!Left, Token!Right
  <2>3. table[Token!Wanted(q)] = Token!ON_TABLE /\ common = q
    BY <2>1 DEF TokenStillFree, Token!OneReaches
  <2>4. ~Token!TakeFork(p)
    BY <1>2, <2>3 DEF Token!TakeFork, Token!OneReaches
  <2>5. table' = table \/ \E f \in Token!Ids : table' = [table EXCEPT ![f] = Token!ON_TABLE]
    BY <2>4, TokenHandsOf
  <2>6. QED
    BY <2>2, <2>3, <2>5 DEF Token!TypeOK
<1>3. QED
  BY <1>1, <1>2

\* Every step of the token dinner keeps its invariant.
LEMMA TokenKeepsInv ==
  ASSUME TokenInv,
         \/ \E p \in Token!Ids : Token!Step(p)
         \/ Token!MainStep \/ Token!TimeUp
         \/ UNCHANGED <<pc, table, common, own>>
  PROVE  TokenInv'
<1>1. ASSUME NEW p \in Token!Ids, Token!Step(p)
      PROVE  TokenInv'
  BY <1>1, TokenStepKeepsTypes, TokenStepKeepsReach, TokenStepKeepsHolders, TokenStepKeepsFree
     DEF TokenInv
<1>2. ASSUME NEW p \in Token!Ids, Token!SetEnd(p)
      PROVE  TokenInv'
  BY <1>2 DEF TokenInv, Token!SetEnd, Token!TypeOK, Token!OneReaches, Token!HoldersAgree,
              TokenStillFree, Token!Held, Token!Wanted, Token!Left, Token!Right
<1>3. CASE UNCHANGED <<pc, table, common, own>>
  BY <1>3 DEF TokenInv, Token!TypeOK, Token!OneReaches, Token!HoldersAgree,
              TokenStillFree, Token!Held, Token!Wanted, Token!Left, Token!Right
<1>4. 0 \in Token!Ids
  BY NAssumption DEF Token!Ids
<1>5. QED
  BY <1>1, <1>2, <1>3, <1>4 DEF Token!MainStep, Token!TimeUp

-----------------------------------------------------------------------------
(* The four programs together.                                             *)

Inv == \/ program = "monitored" /\ MonitoredInv
       \/ program = "hierarchy" /\ HierarchyInv
       \/ program = "states"    /\ StatesInv
       \/ program = "token"     /\ TokenInv

\* Whichever program is picked, its invariant holds at first.
LEMMA InitInv == Init => Inv
BY MonitoredInit, HierarchyInit, StatesInit, TokenInitInv DEF Init, Inv

\* A step of the composition is a step of the program that runs.
LEMMA StepsOfPrograms ==
  ASSUME [Next]_vars
  PROVE  /\ program' = program
         /\ program = "monitored" =>
              \/ \E p \in Monitored!Pids : Monitored!Step(p) \/ Monitored!SpuriousWakeup(p)
              \/ Monitored!MainStep
              \/ UNCHANGED <<pc, meals, table, over>>
         /\ program = "hierarchy" =>
              \/ \E p \in Hierarchy!Philosophers : Hierarchy!Step(p) \/ Hierarchy!SpuriousWakeup(p)
              \/ Hierarchy!MainStep
              \/ UNCHANGED <<pc, own, meals, table, over>>
         /\ program = "states" =>
              \/ \E p \in States!Philosophers : States!Step(p) \/ States!SpuriousWakeup(p)
              \/ States!MainStep
              \/ UNCHANGED <<pc, meals, table, common, own, over>>
         /\ program = "token" =>
              \/ \E p \in Token!Ids : Token!Step(p)
              \/ Token!MainStep \/ Token!TimeUp
              \/ UNCHANGED <<pc, table, common, own>>
<1>1. \A p \in 0..N : /\ p < N => p \in Monitored!Pids /\ p \in Token!Ids
                      /\ p > 0 => p \in Hierarchy!Philosophers /\ p \in States!Philosophers
  BY NAssumption DEF Monitored!Pids, Token!Ids, Hierarchy!Philosophers, States!Philosophers
<1>2. ASSUME NEW p \in 0..N, Step(p) \/ SpuriousWakeup(p)
      PROVE  /\ program' = program
             /\ program = "monitored" =>
                  p \in Monitored!Pids /\ (Monitored!Step(p) \/ Monitored!SpuriousWakeup(p))
             /\ program = "hierarchy" =>
                  p \in Hierarchy!Philosophers /\ (Hierarchy!Step(p) \/ Hierarchy!SpuriousWakeup(p))
             /\ program = "states" =>
                  p \in States!Philosophers /\ (States!Step(p) \/ States!SpuriousWakeup(p))
             /\ program = "token" => p \in Token!Ids /\ Token!Step(p)
  BY <1>1, <1>2 DEF Step, SpuriousWakeup
<1>3. ASSUME MainStep \/ TimeUp
      PROVE  /\ program' = program
             /\ program = "monitored" => Monitored!MainStep
             /\ program = "hierarchy" => Hierarchy!MainStep
             /\ program = "states" => States!MainStep
             /\ program = "token" => Token!MainStep \/ Token!TimeUp
  BY <1>3 DEF MainStep, TimeUp
<1>4. CASE Rest \/ UNCHANGED vars
  BY <1>4 DEF Rest, vars
<1>5. QED
  BY <1>2, <1>3, <1>4 DEF Next

\* Every step, and every stutter, keeps the invariant of the program that runs.
LEMMA StepInv == Inv /\ [Next]_vars => Inv'
<1> SUFFICES ASSUME Inv, [Next]_vars PROVE Inv'
  OBVIOUS
<1>1. CASE program = "monitored"
  BY <1>1, StepsOfPrograms, MonitoredKeepsInv DEF Inv
<1>2. CASE program = "hierarchy"
  BY <1>2, StepsOfPrograms, HierarchyKeepsInv DEF Inv
<1>3. CASE program = "states"
  BY <1>3, StepsOfPrograms, StatesKeepsInv DEF Inv
<1>4. CASE program = "token"
  BY <1>4, StepsOfPrograms, TokenKeepsInv DEF Inv
<1>5. QED
  BY <1>1, <1>2, <1>3, <1>4 DEF Inv

\* Inv holds in every reachable state.
THEOREM Invariance == Spec => []Inv
BY InitInv, StepInv, PTL DEF Spec

\* At a table of any size no philosopher of PA2/submisions eats more meals than
\* it was given, the counter of the done stays within the philosophers, and the
\* token names one of them.
THEOREM TypeCorrect == Spec => []TypeOK
<1>1. Inv => TypeOK
  BY DEF Inv, MonitoredInv, HierarchyInv, StatesInv, TokenInv, TypeOK
<1>2. QED
  BY Invariance, <1>1, PTL

\* At a table of any size nobody sits in wait() or await() while what it waits
\* for is free: notifyAll() in the monitors, and the single signal() of
\* Program2's chopsticks, wake everybody that has to be woken.
THEOREM WakeupsSafe == Spec => []NoLostWakeup
<1>1. Inv => NoLostWakeup
  BY DEF Inv, MonitoredInv, HierarchyInv, StatesInv, NoLostWakeup
<1>2. QED
  BY Invariance, <1>1, PTL

\* At a table of three or more the chopsticks of the monitored table and the
\* forks of the token dinner agree with who eats, and somebody at the table of
\* states does not eat.  With two seats the states program lets both eat.
THEOREM HoldersSafe ==
  ASSUME N >= 3
  PROVE  Spec => []HoldersAgree
<1>1. Inv => HoldersAgree
  BY DEF Inv, MonitoredInv, HierarchyInv, StatesInv, StatesThinks, TokenInv, HoldersAgree
<1>2. QED
  BY Invariance, <1>1, PTL

\* With two seats as well, chopsticks and forks have one holder each.
THEOREM HoldersSafeOfTwo == Spec => [](program # "states" => HoldersAgree)
<1>1. Inv => (program # "states" => HoldersAgree)
  BY DEF Inv, MonitoredInv, HierarchyInv, TokenInv, HoldersAgree
<1>2. QED
  BY Invariance, <1>1, PTL

\* At a table of any size only the philosopher with the token reaches for forks.
THEOREM ReachersHaveToken == Spec => []OneReaches
<1>1. Inv => OneReaches
  BY DEF Inv, TokenInv, OneReaches
<1>2. QED
  BY Invariance, <1>1, PTL

\* Whatever updates doneEating++ loses, main prints "Dinner is over!" only when
\* everybody has had all meals.
THEOREM OverIsRight == Spec => []OverMeansEaten
<1>1. Inv => OverMeansEaten
  BY StatesOverMeansEaten DEF Inv, OverMeansEaten
<1>2. QED
  BY Invariance, <1>1, PTL

-----------------------------------------------------------------------------
(* Refinement of the abstract dining specification.                        *)

\* The programs that count their meals.
Counting == program \in {"monitored", "hierarchy"}

Eating == IF Counting THEN {s \in 1..N : pc[Seat(s)] = "eat"} ELSE {}
MealsLeft == [s \in 1..N |-> IF Counting THEN Meals - meals[Seat(s)] ELSE Meals]

\* What a start, an end and a step that is neither look like from the seats.
LEMMA StartsMeal ==
  ASSUME Counting, program' = program, NEW s \in 1..N,
         \A t \in 1..N : pc'[Seat(t)] = "eat" <=> pc[Seat(t)] = "eat" \/ t = s,
         \A t \in 1..N : meals'[Seat(t)] = meals[Seat(t)],
         pc[Seat(s)] # "eat", meals[Seat(s)] \in 0..Meals, meals[Seat(s)] < Meals,
         \A t \in 1..N : pc[Seat(t)] = "eat" => Table!Chopsticks(t) \cap Table!Chopsticks(s) = {}
  PROVE  Table!Start(s)
<1>1. \A t \in 1..N : Seat(t)' = Seat(t)
  BY DEF Seat
<1>2. Counting'
  BY DEF Counting
<1>3. s \notin Eating /\ Eating' = Eating \cup {s}
  BY <1>1, <1>2 DEF Eating
<1>4. MealsLeft' = MealsLeft
  BY <1>1, <1>2 DEF MealsLeft
<1>5. MealsLeft[s] > 0
  BY MealsAssumption DEF MealsLeft
<1>6. \A t \in Eating : Table!Chopsticks(t) \cap Table!Chopsticks(s) = {}
  BY DEF Eating
<1>7. QED
  BY <1>3, <1>4, <1>5, <1>6 DEF Table!Start, Eating, MealsLeft, Counting

LEMMA EndsMeal ==
  ASSUME Counting, program' = program, NEW s \in 1..N, pc[Seat(s)] = "eat",
         \A t \in 1..N : pc'[Seat(t)] = "eat" <=> pc[Seat(t)] = "eat" /\ t # s,
         \A t \in 1..N : meals[Seat(t)] \in 0..Meals,
         \A t \in 1..N : meals'[Seat(t)] = meals[Seat(t)] + (IF t = s THEN 1 ELSE 0)
  PROVE  Table!Finish(s)
<1>1. \A t \in 1..N : Seat(t)' = Seat(t)
  BY DEF Seat
<1>2. Counting'
  BY DEF Counting
<1>3. s \in Eating /\ Eating' = Eating \ {s}
  BY <1>1, <1>2 DEF Eating
<1>4. MealsLeft' = [MealsLeft EXCEPT ![s] = @ - 1]
  <2>1. MealsLeft' = [t \in 1..N |-> Meals - meals'[Seat(t)]]
    BY <1>1, <1>2 DEF MealsLeft
  <2>2. MealsLeft = [t \in 1..N |-> Meals - meals[Seat(t)]]
    BY DEF MealsLeft
  <2>3. \A t \in 1..N : Meals - meals'[Seat(t)] =
                          IF t = s THEN (Meals - meals[Seat(s)]) - 1 ELSE Meals - meals[Seat(t)]
    BY MealsAssumption
  <2>4. QED
    BY <2>1, <2>2, <2>3
<1>5. QED
  BY <1>3, <1>4 DEF Table!Finish, Eating, MealsLeft, Counting

LEMMA NoMeal ==
  ASSUME program' = program,
         Counting => \A t \in 1..N : /\ pc'[Seat(t)] = "eat" <=> pc[Seat(t)] = "eat"
                                     /\ meals'[Seat(t)] = meals[Seat(t)]
  PROVE  UNCHANGED <<Eating, MealsLeft>>
<1>1. \A t \in 1..N : Seat(t)' = Seat(t)
  BY DEF Seat
<1>2. Counting' <=> Counting
  BY DEF Counting
<1>3. QED
  BY <1>1, <1>2 DEF Eating, MealsLeft

\* The programs start as the abstract dinner does.
LEMMA InitImplements == Init => Table!Init
<1> SUFFICES ASSUME Init PROVE Table!Init
  OBVIOUS
<1>1. CASE Counting
  <2>1. \A s \in 1..N : pc[Seat(s)] = "new" /\ meals[Seat(s)] = 0
    <3>1. CASE program = "monitored"
      <4>1. \A s \in 1..N : Seat(s) \in Monitored!Pids
        BY <3>1, NAssumption DEF Seat, Monitored!Pids
      <4>2. QED
        BY <3>1, <4>1 DEF Init, Monitored!Init
    <3>2. CASE program = "hierarchy"
      <4>1. \A s \in 1..N : Seat(s) \in Hierarchy!Philosophers
        BY <3>2 DEF Seat, Hierarchy!Philosophers
      <4>2. QED
        BY <3>2, <4>1 DEF Init, Hierarchy!Init
    <3>3. QED
      BY <1>1, <3>1, <3>2 DEF Counting
  <2>2. Eating = {} /\ MealsLeft = [s \in 1..N |-> Meals]
    BY <2>1, MealsAssumption DEF Eating, MealsLeft
  <2>3. QED
    BY <2>2 DEF Table!Init, Table!Philosophers, Eating, MealsLeft, Counting
<1>2. CASE ~Counting
  BY <1>2 DEF Table!Init, Table!Philosophers, Counting
<1>3. QED
  BY <1>1, <1>2

-----------------------------------------------------------------------------
(* ... by the monitored table.                                             *)

\* Two that share no chopstick in the monitor share none at the abstract table,
\* where they are numbered from the other side.
LEMMA MonitoredNumbers ==
  ASSUME NEW s \in 1..N, NEW t \in 1..N, s # t,
         Monitored!Sticks(s - 1) \cap Monitored!Sticks(t - 1) = {}
  PROVE  Table!Chopsticks(t) \cap Table!Chopsticks(s) = {}
<1>1. \A u \in 1..N : Table!Chopsticks(u) = {u, IF u = N THEN 1 ELSE u + 1}
  <2> TAKE u \in 1..N
  <2>1. CASE u = N
    BY <2>1, NAssumption, N % N = 0 DEF Table!Chopsticks, Table!Right, Table!Left
  <2>2. CASE u # N
    BY <2>2, NAssumption, u % N = u DEF Table!Chopsticks, Table!Right, Table!Left
  <2>3. QED
    BY <2>1, <2>2
<1>2. s - 1 # Monitored!Index2(t - 1) /\ t - 1 # Monitored!Index2(s - 1)
  BY DEF Monitored!Sticks
<1>3. (IF s = N THEN 1 ELSE s + 1) # t /\ (IF t = N THEN 1 ELSE t + 1) # s
  BY <1>2, NAssumption DEF Monitored!Index2
<1>4. (IF s = N THEN 1 ELSE s + 1) # (IF t = N THEN 1 ELSE t + 1)
  BY NAssumption
<1>5. QED
  BY <1>1, <1>3, <1>4

\* A step of philosopher p of the monitored table, seen from the seats.
LEMMA MonitoredRefines ==
  ASSUME program = "monitored", program' = program, MonitoredInv, NEW p \in Monitored!Pids,
         Monitored!Step(p) \/ Monitored!SpuriousWakeup(p) \/ Monitored!Start(p)
  PROVE  Table!Next \/ UNCHANGED <<Eating, MealsLeft>>
<1> USE DEF MonitoredInv, Monitored!TypeOK
<1>1. Counting /\ \A t \in 1..N : Seat(t) = t - 1 /\ t - 1 \in Monitored!Pids
  BY NAssumption DEF Counting, Seat, Monitored!Pids
<1>2. PICK s \in 1..N : Seat(s) = p /\ \A t \in 1..N : Seat(t) = p => t = s
  <2>1. p + 1 \in 1..N
    BY NAssumption DEF Monitored!Pids
  <2>2. Seat(p + 1) = p
    BY <1>1, <2>1 DEF Monitored!Pids
  <2>3. \A t \in 1..N : Seat(t) = p => t = p + 1
    BY <1>1 DEF Monitored!Pids
  <2>4. QED
    BY <2>1, <2>2, <2>3
<1>3. CASE Monitored!PickSticks(p)
  <2>1. \A t \in 1..N : pc'[Seat(t)] = "eat" <=> pc[Seat(t)] = "eat" \/ t = s
    BY <1>1, <1>2, <1>3 DEF Monitored!PickSticks
  <2>2. \A t \in 1..N : meals'[Seat(t)] = meals[Seat(t)]
    BY <1>3 DEF Monitored!PickSticks
  <2>3. pc[p] # "eat" /\ meals[p] \in 0..Meals /\ meals[p] < Meals
    BY <1>3 DEF Monitored!PickSticks, MonitoredHungry
  <2>4. MonitoredApart'
    BY <1>3, MonitoredPick
  <2>5. ASSUME NEW t \in 1..N, pc[Seat(t)] = "eat"
        PROVE  Table!Chopsticks(t) \cap Table!Chopsticks(s) = {}
    <3>1. Seat(t) # p /\ t # s
      BY <1>2, <2>3, <2>5
    <3>2. pc'[Seat(t)] = "eat" /\ pc'[p] = "eat"
      BY <1>2, <2>1, <2>5
    <3>3. Monitored!Sticks(Seat(s)) \cap Monitored!Sticks(Seat(t)) = {}
      BY <1>1, <1>2, <2>4, <3>1, <3>2 DEF MonitoredApart, Monitored!Sticks, Monitored!Index2, Monitored!Pids
    <3>4. QED
      BY <1>1, <3>1, <3>3, MonitoredNumbers
  <2>6. Table!Start(s)
    BY <1>1, <1>2, <2>1, <2>2, <2>3, <2>5, StartsMeal
  <2>7. QED
    BY <2>6 DEF Table!Next, Table!Philosophers
<1>4. CASE Monitored!PutDownSticks(p)
  <2>1. \A t \in 1..N : pc'[Seat(t)] = "eat" <=> pc[Seat(t)] = "eat" /\ t # s
    BY <1>1, <1>2, <1>4, MonitoredPlaces
  <2>2. \A t \in 1..N : meals[Seat(t)] \in 0..Meals
    BY <1>1
  <2>3. \A t \in 1..N : meals'[Seat(t)] = meals[Seat(t)] + (IF t = s THEN 1 ELSE 0)
    BY <1>1, <1>2, <1>4, <2>2, MealsAssumption DEF Monitored!PutDownSticks
  <2>4. pc[Seat(s)] = "eat"
    BY <1>2, <1>4 DEF Monitored!PutDownSticks
  <2>5. Table!Finish(s)
    BY <1>1, <2>1, <2>2, <2>3, <2>4, EndsMeal
  <2>6. QED
    BY <2>5 DEF Table!Next, Table!Philosophers
<1>5. CASE Monitored!Wait(p) \/ Monitored!SpuriousWakeup(p) \/ Monitored!Start(p)
  <2>1. \A t \in 1..N : /\ pc'[Seat(t)] = "eat" <=> pc[Seat(t)] = "eat"
                        /\ meals'[Seat(t)] = meals[Seat(t)]
    BY <1>1, <1>5 DEF Monitored!Wait, Monitored!SpuriousWakeup, Monitored!Start
  <2>2. QED
    BY <2>1, NoMeal
<1>6. QED
  BY <1>3, <1>4, <1>5 DEF Monitored!Step

-----------------------------------------------------------------------------
(* ... and by the chopsticks with a hierarchy.                             *)

\* The chopsticks of a seat are those of its philosopher.
LEMMA HierarchyNumbers ==
  ASSUME NEW p \in Hierarchy!Philosophers
  PROVE  Table!Chopsticks(p) = {Hierarchy!Left(p), Hierarchy!Right(p)}
<1>1. CASE p = N
  BY <1>1, NAssumption, N % N = 0
     DEF Table!Chopsticks, Table!Right, Table!Left, Hierarchy!Left, Hierarchy!Right
<1>2. CASE p # N
  BY <1>2, NAssumption, p % N = p
     DEF Table!Chopsticks, Table!Right, Table!Left, Hierarchy!Left, Hierarchy!Right, Hierarchy!Philosophers
<1>3. QED
  BY <1>1, <1>2

\* A step of philosopher p of the table with a hierarchy, seen from the seats.
LEMMA HierarchyRefines ==
  ASSUME program = "hierarchy", program' = program, HierarchyInv, NEW p \in Hierarchy!Philosophers,
         Hierarchy!Step(p) \/ Hierarchy!SpuriousWakeup(p) \/ Hierarchy!StartThread(p)
  PROVE  Table!Next \/ UNCHANGED <<Eating, MealsLeft>>
<1> USE DEF HierarchyInv, Hierarchy!TypeOK
<1>1. Counting /\ Hierarchy!Philosophers = 1..N /\ \A t \in 1..N : Seat(t) = t
  BY DEF Counting, Seat, Hierarchy!Philosophers
<1>2. CASE Hierarchy!PickUp(p) /\ own[p]
  <2>1. \A t \in 1..N : pc'[Seat(t)] = "eat" <=> pc[Seat(t)] = "eat" \/ t = p
    BY <1>1, <1>2 DEF Hierarchy!PickUp
  <2>2. \A t \in 1..N : meals'[Seat(t)] = meals[Seat(t)]
    BY <1>2 DEF Hierarchy!PickUp
  <2>3. pc[p] # "eat" /\ meals[p] \in 0..Meals /\ meals[p] < Meals
    BY <1>2 DEF Hierarchy!PickUp, HierarchyHungry
  <2>4. HierarchyApart'
    BY <1>2, HierarchyKeepsHands DEF Hierarchy!Step
  <2>5. ASSUME NEW t \in 1..N, pc'[t] = "eat"
        PROVE  HierarchyHeld(t)' = Table!Chopsticks(t)
    BY <1>1, <2>5, HierarchyNumbers, HierarchyChopsticks
       DEF HierarchyHeld, Hierarchy!Lower, Hierarchy!Higher, Hierarchy!Left, Hierarchy!Right
  <2>6. ASSUME NEW t \in 1..N, pc[Seat(t)] = "eat"
        PROVE  Table!Chopsticks(t) \cap Table!Chopsticks(p) = {}
    <3>1. t # p /\ pc'[t] = "eat" /\ pc'[p] = "eat"
      BY <1>1, <2>1, <2>3, <2>6
    <3>2. HierarchyHeld(t)' \cap HierarchyHeld(p)' = {}
      BY <1>1, <2>4, <3>1 DEF HierarchyApart
    <3>3. QED
      BY <1>1, <2>5, <3>1, <3>2
  <2>7. Table!Start(p)
    BY <1>1, <2>1, <2>2, <2>3, <2>6, StartsMeal
  <2>8. QED
    BY <1>1, <2>7 DEF Table!Next, Table!Philosophers
<1>3. CASE Hierarchy!Eat(p)
  <2>1. \A t \in 1..N : pc'[Seat(t)] = "eat" <=> pc[Seat(t)] = "eat" /\ t # p
    BY <1>1, <1>3 DEF Hierarchy!Eat
  <2>2. \A t \in 1..N : meals[Seat(t)] \in 0..Meals
    BY <1>1
  <2>3. \A t \in 1..N : meals'[Seat(t)] = meals[Seat(t)] + (IF t = p THEN 1 ELSE 0)
    BY <1>1, <1>3, <2>2, MealsAssumption DEF Hierarchy!Eat
  <2>4. Table!Finish(p)
    BY <1>1, <1>3, <2>1, <2>2, <2>3, EndsMeal DEF Hierarchy!Eat
  <2>5. QED
    BY <1>1, <2>4 DEF Table!Next, Table!Philosophers
<1>4. CASE Hierarchy!PutDown(p)
  <2>1. UNCHANGED meals
    BY <1>4 DEF Hierarchy!PutDown
  <2>2. pc[p] # "eat" /\ pc'[p] # "eat"
    BY <1>4, HierarchyWakes
  <2>3. ASSUME NEW t \in Hierarchy!Philosophers, t # p
        PROVE  pc'[t] = "eat" <=> pc[t] = "eat"
    BY <1>4, <2>3, HierarchyWakes DEF Hierarchy!Waiting
  <2>4. \A t \in 1..N : /\ pc'[Seat(t)] = "eat" <=> pc[Seat(t)] = "eat"
                        /\ meals'[Seat(t)] = meals[Seat(t)]
    BY <1>1, <2>1, <2>2, <2>3
  <2>5. QED
    BY <2>4, NoMeal
<1>5. CASE \/ Hierarchy!GetHungry(p) \/ Hierarchy!Await(p)
           \/ Hierarchy!PickUp(p) /\ ~own[p]
           \/ Hierarchy!SpuriousWakeup(p) \/ Hierarchy!StartThread(p)
  <2>1. \A t \in 1..N : /\ pc'[Seat(t)] = "eat" <=> pc[Seat(t)] = "eat"
                        /\ meals'[Seat(t)] = meals[Seat(t)]
    <3>1. pc[p] # "eat" /\ UNCHANGED meals
      BY <1>5 DEF Hierarchy!GetHungry, Hierarchy!Await, Hierarchy!PickUp,
                  Hierarchy!SpuriousWakeup, Hierarchy!StartThread
    <3>2. \E x : x # "eat" /\ pc' = [pc EXCEPT ![p] = x]
      BY <1>5 DEF Hierarchy!GetHungry, Hierarchy!Await, Hierarchy!PickUp,
                  Hierarchy!SpuriousWakeup, Hierarchy!StartThread
    <3>3. QED
      BY <1>1, <3>1, <3>2
  <2>2. QED
    BY <2>1, NoMeal
<1>6. Hierarchy!PickUp(p) => (Hierarchy!PickUp(p) /\ own[p]) \/ (Hierarchy!PickUp(p) /\ ~own[p])
  OBVIOUS
<1>7. QED
  BY <1>2, <1>3, <1>4, <1>5, <1>6, Zenon DEF Hierarchy!Step

\* Every step is a Start or a Finish of the abstract dinner, or leaves it alone.
LEMMA StepImplements == Inv /\ [Next]_vars => [Table!Next]_<<Eating, MealsLeft>>
<1> SUFFICES ASSUME Inv, [Next]_vars
             PROVE  Table!Next \/ UNCHANGED <<Eating, MealsLeft>>
  OBVIOUS
<1>1. program' = program
  BY StepsOfPrograms
<1>2. CASE program = "monitored"
  <2>1. MonitoredInv
    BY <1>2 DEF Inv
  <2>2. CASE Monitored!JoinAll \/ UNCHANGED <<pc, meals, table, over>>
    BY <1>1, <2>2, NoMeal DEF Monitored!JoinAll
  <2>3. QED
    BY <1>1, <1>2, <2>1, <2>2, StepsOfPrograms, MonitoredRefines DEF Monitored!MainStep
<1>3. CASE program = "hierarchy"
  <2>1. HierarchyInv
    BY <1>3 DEF Inv
  <2>2. CASE Hierarchy!JoinAll \/ UNCHANGED <<pc, own, meals, table, over>>
    BY <1>1, <2>2, NoMeal DEF Hierarchy!JoinAll
  <2>3. QED
    BY <1>1, <1>3, <2>1, <2>2, StepsOfPrograms, HierarchyRefines DEF Hierarchy!MainStep
<1>4. CASE ~Counting
  BY <1>1, <1>4, NoMeal
<1>5. QED
  BY <1>2, <1>3, <1>4 DEF Counting

\* At a table of any size, and with any number of meals, the monitored table and
\* the chopsticks with a hierarchy implement the abstract dining specification:
\* neighbours never eat together and everybody eats its meals and no more.
THEOREM Implementation == Spec => ImplementsDining
<1>1. Inv /\ [Next]_vars => [Table!Next]_(Table!vars)
  BY StepImplements DEF Table!vars, Eating, MealsLeft, Counting
<1>2. QED
  BY <1>1, InitImplements, Invariance, PTL DEF Spec, ImplementsDining, Table!Spec
=============================================================================
