-------------------------- MODULE BarrierPingPong ---------------------------
(***************************************************************************)
(* posa/pingpong/PingPong.java: two threads behind a CyclicBarrier that    *)
(* main opens, taking turns by spinning on an AtomicInteger.  Testing the  *)
(* flag, printing, and moving the flag are three steps; main spins on      *)
(* isAlive() of both threads before it prints "Done!".                     *)
(***************************************************************************)
EXTENDS Integers

CONSTANT Runs  \* number_of_runs

VARIABLES pc,       \* pc[t]: where thread t is
          flag,     \* 0: Ping may print, 1: Pong may print
          printed,  \* printed[t]: the player's own counter
          done      \* main has printed "Done!"

vars == <<pc, flag, printed, done>>

Players == {"ping", "pong"}
Threads == Players \cup {"main"}

\* Mutant of Parties: the barrier opens without main.
TwoParties == 2

\* new CyclicBarrier(3).
Parties == 3

\* Mutant of MayPrint: Pong tests flag >= 0.
EitherMayPrint(t) == IF t = "ping" THEN flag = 0 ELSE flag >= 0

MayPrint(t) == IF t = "ping" THEN flag = 0 ELSE flag = 1

\* Mutant of Signal: getAndIncrement on both sides.
SignalUp(t) == flag + 1

\* getAndIncrement or getAndDecrement of the flag.
Signal(t) == IF t = "ping" THEN flag + 1 ELSE flag - 1

Init == /\ pc = [t \in Threads |-> "gate"]
        /\ flag = 0
        /\ printed = [t \in Players |-> 0]
        /\ done = FALSE

Beyond(t) == IF t = "main" THEN "join" ELSE "loop"

\* How many threads wait at the barrier.
AtGate(t) == IF pc[t] = "await" THEN 1 ELSE 0
Waiting == AtGate("ping") + AtGate("pong") + AtGate("main")

\* gate.await(): the last party to arrive lets all of them through.
Await(t) == /\ pc[t] = "gate"
            /\ pc' = IF Waiting + 1 = Parties
                     THEN [s \in Threads |->
                             IF s = t \/ pc[s] = "await" THEN Beyond(s) ELSE pc[s]]
                     ELSE [pc EXCEPT ![t] = "await"]
            /\ UNCHANGED <<flag, printed, done>>

\* The loop: leave it, print, or spin.
Test(t) == /\ pc[t] = "loop"
           /\ \/ /\ printed[t] = Runs
                 /\ pc' = [pc EXCEPT ![t] = "dead"]
              \/ /\ printed[t] < Runs
                 /\ MayPrint(t)
                 /\ pc' = [pc EXCEPT ![t] = "print"]
           /\ UNCHANGED <<flag, printed, done>>

PrintLine(t) == /\ pc[t] = "print"
                /\ printed' = [printed EXCEPT ![t] = @ + 1]
                /\ pc' = [pc EXCEPT ![t] = "signal"]
                /\ UNCHANGED <<flag, done>>

MoveFlag(t) == /\ pc[t] = "signal"
               /\ flag' = Signal(t)
               /\ pc' = [pc EXCEPT ![t] = "loop"]
               /\ UNCHANGED <<printed, done>>

\* main: both threads are dead.
Done == /\ pc["main"] = "join"
        /\ \A t \in Players : pc[t] = "dead"
        /\ pc' = [pc EXCEPT !["main"] = "dead"]
        /\ done' = TRUE
        /\ UNCHANGED <<flag, printed>>

Step(t) == \/ t \in Threads /\ Await(t)
           \/ t \in Players /\ (Test(t) \/ PrintLine(t) \/ MoveFlag(t))
           \/ t = "main" /\ Done

Next == \E t \in Threads : Step(t)

Spec == Init /\ [][Next]_vars

-----------------------------------------------------------------------------
\* The flag never leaves {0, 1}, however the threads overlap.
TypeOK == /\ pc \in [Threads -> {"gate", "await", "loop", "print", "signal",
                                 "join", "dead"}]
          /\ flag \in {0, 1}
          /\ printed \in [Players -> 0..Runs]
          /\ done \in BOOLEAN
=============================================================================
