------------------------------ MODULE BallGame ------------------------------
(***************************************************************************)
(* PA1/submissions/Game.java: the players of a game hand one ball to each  *)
(* other through a SynchronousQueue, in which put() waits for a take().    *)
(* Every catch counts the ball's bounces down; the player that counts 1    *)
(* passes the ball on and stops, the one that counts 0 prints "Done!".     *)
(***************************************************************************)
EXTENDS Naturals

CONSTANTS Gamers,   \* the players main creates, two or more
          Bounces   \* the bounces the ball starts with, one or more

VARIABLES pc,       \* pc[p]: where player p is; pc["main"]: main, that serves
          running,  \* running[p]: the flag of p's loop
          bounces,  \* what is left in the ball
          done      \* how often "Done!" has been printed

vars == <<pc, running, bounces, done>>

\* Mutant of StopsAt: a player stops at each of the last bounces.
StopsEarly(b) == b <= 3

\* case 1 of the switch: one player leaves the loop.
StopsAt(b) == b = 1

\* Mutant of EndsAt: no case 0, the ball goes on.
NeverEnds(b) == FALSE

\* case 0 of the switch.
EndsAt(b) == b = 0

Init == /\ pc = [p \in Gamers \cup {"main"} |-> IF p = "main" THEN "put" ELSE "loop"]
        /\ running = [p \in Gamers |-> TRUE]
        /\ bounces = Bounces
        /\ done = 0

\* The head of the loop: wait for the ball (after a sleep, for one player).
Ready(p) == /\ pc[p] = "loop"
            /\ pc' = [pc EXCEPT ![p] = IF running[p] THEN "take" ELSE "dead"]
            /\ UNCHANGED <<running, bounces, done>>

\* put(ball) by s meets take() by p.
Pass(s, p) == /\ pc[s] = "put"
              /\ pc[p] = "take"
              /\ pc' = [pc EXCEPT ![s] = IF s = "main" THEN "dead" ELSE "loop",
                                  ![p] = "bounce"]
              /\ UNCHANGED <<running, bounces, done>>

\* ball.bounce() and the switch; nobody plays on below zero (a bound that only
\* a game without case 0 would reach).
Bounce(p) == LET b == bounces - 1
             IN /\ pc[p] = "bounce"
                /\ bounces > 0
                /\ bounces' = b
                /\ running' = [running EXCEPT ![p] = @ /\ ~StopsAt(b)]
                /\ pc' = [pc EXCEPT ![p] = IF EndsAt(b) THEN "dead" ELSE "put"]
                /\ done' = IF EndsAt(b) THEN done + 1 ELSE done

Step(t) == \/ t \in Gamers /\ (Ready(t) \/ Bounce(t))
           \/ t \in Gamers \cup {"main"} /\ \E p \in Gamers : Pass(t, p)

Next == \E t \in Gamers \cup {"main"} : Step(t)

Spec == Init /\ [][Next]_vars

-----------------------------------------------------------------------------
TypeOK == /\ pc \in [Gamers \cup {"main"} ->
                     {"loop", "take", "bounce", "put", "dead"}]
          /\ running \in [Gamers -> BOOLEAN]
          /\ bounces \in 0..Bounces
          /\ done \in 0..1

\* The ball finds a taker every time it is put: the player that has stopped
\* and the one that has the ball never leave it lying in the queue.
TakerLeft == \A s \in Gamers \cup {"main"} :
               pc[s] = "put" => \E p \in Gamers \ {s} : pc[p] # "dead" /\ running[p]

\* "Done!" has been printed once, by a player other than the one that had
\* stopped at bounce 1.
GameOver == done = 1 /\ \E p \in Gamers : pc[p] = "dead" /\ running[p]
=============================================================================
