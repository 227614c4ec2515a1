-------------------------- MODULE ResourceHierarchy --------------------------
(***************************************************************************)
(* The table of PA2/submisions/Program2.java: every chopstick is a monitor *)
(* of its own (a lock, a condition and an inUse flag), and a philosopher   *)
(* takes the chopstick with the lower number first.  pickUp, up to its     *)
(* return or its await(), and putDown are critical sections of one step.   *)
(***************************************************************************)
EXTENDS Integers

CONSTANTS N,     \* philosophers and chopsticks
          Meals  \* times each of them eats

VARIABLES
  pc,      \* pc[p]: where philosopher p is
  second,  \* second[p]: the call is for the higher numbered chopstick
  eaten,   \* alreadyEatenPieces
  inUse,   \* inUse[c] of every chopstick
  over     \* main has joined everybody

vars == <<pc, second, eaten, inUse, over>>

Philosophers == 1..N

\* The chopsticks that start() hands to philosopher p.
Left(p) == p
Right(p) == IF p < N THEN p + 1 ELSE 1

\* Mutant of Lower: no hierarchy, the left chopstick always comes first.
LeftFirst(p) == Left(p)

Lower(p) == IF Left(p) < Right(p) THEN Left(p) ELSE Right(p)

Higher(p) == IF Left(p) < Right(p) THEN Right(p) ELSE Left(p)

\* The chopstick p picks up or puts down next.
Current(p) == IF second[p] THEN Higher(p) ELSE Lower(p)

\* Mutant of Free: after await() the flag is not tested again.
Untested(p) == TRUE

Free(p) == ~inUse[Current(p)]

Waiting(c) == {q \in Philosophers : pc[q] = "await" /\ Current(q) = c}

\* Mutant of Signalled: the signal goes out before the flag is cleared.
SignalledEarly(c) == {{}}

\* signal() wakes one of the threads that wait for c.
Signalled(c) == IF Waiting(c) = {} THEN {{}} ELSE {{q} : q \in Waiting(c)}

\* Mutant of Full: > instead of = in the test that sends p home.
FullLate(p) == eaten[p] > Meals

Full(p) == eaten[p] = Meals

Init == /\ pc = [p \in Philosophers |-> "new"]
        /\ second = [p \in Philosophers |-> FALSE]
        /\ eaten = [p \in Philosophers |-> 0]
        /\ inUse = [c \in Philosophers |-> FALSE]
        /\ over = FALSE

\* start() starts the threads in order.
StartThread(p) == /\ pc[p] = "new"
                  /\ \A q \in Philosophers : pc[q] = "new" => p <= q
                  /\ pc' = [pc EXCEPT ![p] = "think"]
                  /\ UNCHANGED <<second, eaten, inUse, over>>

JoinAll == /\ ~over
           /\ \A p \in Philosophers : pc[p] = "home"
           /\ over' = TRUE
           /\ UNCHANGED <<pc, second, eaten, inUse>>

\* nextBoolean() says eat; as long as it says think nothing changes.
GetHungry(p) == /\ pc[p] = "think"
                /\ pc' = [pc EXCEPT ![p] = "pick"]
                /\ UNCHANGED <<second, eaten, inUse, over>>

\* pickUp finds the chopstick free.
PickUp(p) == /\ pc[p] = "pick"
             /\ Free(p)
             /\ inUse' = [inUse EXCEPT ![Current(p)] = TRUE]
             /\ pc' = [pc EXCEPT ![p] = IF second[p] THEN "eat" ELSE "pick"]
             /\ second' = [second EXCEPT ![p] = ~@]
             /\ UNCHANGED <<eaten, over>>

\* pickUp finds it in use and waits on the chopstick's condition.
Await(p) == /\ pc[p] = "pick"
            /\ ~Free(p)
            /\ pc' = [pc EXCEPT ![p] = "await"]
            /\ UNCHANGED <<second, eaten, inUse, over>>

SpuriousWakeup(p) == /\ pc[p] = "await"
                     /\ pc' = [pc EXCEPT ![p] = "pick"]
                     /\ UNCHANGED <<second, eaten, inUse, over>>

Eat(p) == /\ pc[p] = "eat"
          /\ eaten' = [eaten EXCEPT ![p] = @ + 1]
          /\ pc' = [pc EXCEPT ![p] = "put"]
          /\ UNCHANGED <<second, inUse, over>>

\* putDown of one chopstick; after the second one p goes home or thinks.
PutDown(p) ==
  /\ pc[p] = "put"
  /\ inUse' = [inUse EXCEPT ![Current(p)] = FALSE]
  /\ \E woken \in Signalled(Current(p)) :
       pc' = [q \in Philosophers |->
                CASE q \in woken -> "pick"
                  [] q = p /\ second[p] -> IF Full(p) THEN "home" ELSE "think"
                  [] OTHER -> pc[q]]
  /\ second' = [second EXCEPT ![p] = ~@]
  /\ UNCHANGED <<eaten, over>>

Step(p) == GetHungry(p) \/ PickUp(p) \/ Await(p) \/ Eat(p) \/ PutDown(p)

MainStep == JoinAll \/ \E p \in Philosophers : StartThread(p)

Next == MainStep \/ \E p \in Philosophers : Step(p) \/ SpuriousWakeup(p)

Spec == Init /\ [][Next]_vars

-----------------------------------------------------------------------------
TypeOK == /\ pc \in [Philosophers -> {"new", "think", "pick", "await", "eat",
                                      "put", "home"}]
          /\ second \in [Philosophers -> BOOLEAN]
          /\ eaten \in [Philosophers -> 0..Meals]
          /\ inUse \in [Philosophers -> BOOLEAN]
          /\ over \in BOOLEAN

\* No signal is lost: a philosopher waits only for a chopstick in use.
NoLostSignal == \A p \in Philosophers : pc[p] = "await" => inUse[Current(p)]
=============================================================================
