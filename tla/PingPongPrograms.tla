-------------------------- MODULE PingPongPrograms --------------------------
(***************************************************************************)
(* The six ping-pong programs of the repository against one game.  Init    *)
(* picks a program, whose steps are then the only ones; the variables are  *)
(* that program's, under names they share.  A step of a thread is one      *)
(* action, so that every thread has its own fairness.                      *)
(***************************************************************************)
EXTENDS Integers

CONSTANTS Runs,     \* how often each player is to print
          Gamers,   \* the players of the ball game, two or more
          Bounces   \* the bounces of its ball

ASSUME RunsAssumption == Runs \in Nat \ {0}
ASSUME BallAssumption == /\ Bounces \in Nat \ {0}
                         /\ \E p, q \in Gamers : p # q
                         /\ "main" \notin Gamers

VARIABLES program,  \* the program that runs
          pc,       \* where each thread is
          turn,     \* what says whose turn it is: a flag, permits, a signal...
          count,    \* what counts the turns played, or left
          done,     \* "Done!" has been printed
          latch     \* the latch of the semaphore program

vars == <<program, pc, turn, count, done, latch>>

\* The players of all programs but the ball game, and the thread that starts them.
Players == {"ping", "pong"}
Threads == Players \cup {"main"}
Other(t) == IF t = "ping" THEN "pong" ELSE "ping"

Barrier    == INSTANCE BarrierPingPong WITH flag <- turn, printed <- count
Semaphores == INSTANCE SemaphorePingPong WITH permits <- turn, loops <- count
WaitNotify == INSTANCE WaitNotifyPingPong
                WITH sigValue <- turn, left <- count
PrintTimes == INSTANCE PrintTimesPingPong
                WITH printTimes <- turn, printed <- count, exited <- done
Token      == INSTANCE TokenPingPong WITH left <- count
Ball       == INSTANCE BallGame WITH running <- turn, bounces <- count

Init == \/ program = "barrier"    /\ latch = 0 /\ Barrier!Init
        \/ program = "semaphores" /\ Semaphores!Init
        \/ program = "waitNotify" /\ latch = 0 /\ WaitNotify!Init
        \/ program = "printTimes" /\ latch = 0 /\ PrintTimes!Init
        \/ program = "token"      /\ latch = 0 /\ Token!Init
        \/ program = "ball"       /\ latch = 0 /\ Ball!Init

\* A thread of the program takes a step.
Step(t) == /\ \/ program = "barrier"    /\ Barrier!Step(t)    /\ UNCHANGED latch
              \/ program = "semaphores" /\ Semaphores!Step(t)
              \/ program = "waitNotify" /\ WaitNotify!Step(t) /\ UNCHANGED latch
              \/ program = "printTimes" /\ PrintTimes!Step(t) /\ UNCHANGED latch
              \/ program = "token"      /\ Token!Step(t)      /\ UNCHANGED latch
              \/ program = "ball"       /\ Ball!Step(t)       /\ UNCHANGED latch
           /\ UNCHANGED program

\* wait() returns although nobody has notified the thread.
SpuriousWakeup(t) == /\ \/ program = "waitNotify" /\ WaitNotify!SpuriousWakeup(t)
                        \/ program = "token"      /\ Token!SpuriousWakeup(t)
                     /\ UNCHANGED <<program, latch>>

\* The program has printed "Done!": it may rest there.
Ended == IF program = "ball" THEN Ball!GameOver ELSE done
Rest == Ended /\ UNCHANGED vars

Next == \/ \E t \in Threads \cup Gamers : Step(t)
        \/ \E t \in Players : SpuriousWakeup(t)
        \/ Rest

Spec == Init /\ [][Next]_vars

\* Every thread runs on while it can; no spin and no sleep is for ever.
FairSpec == Spec /\ \A t \in Threads \cup Gamers : WF_vars(Step(t))

-----------------------------------------------------------------------------
\* Every program stays within its types: no thread counts past its last turn
\* and no flag or semaphore passes one.
TypeOK == \/ program = "barrier"    /\ Barrier!TypeOK
          \/ program = "semaphores" /\ Semaphores!TypeOK
          \/ program = "waitNotify" /\ WaitNotify!TypeOK
          \/ program = "printTimes" /\ PrintTimes!TypeOK
          \/ program = "token"      /\ Token!TypeOK
          \/ program = "ball"       /\ Ball!TypeOK

\* Semaphores: there is one permit, in a semaphore or with the player between
\* acquire() and release().
OnePermit == program = "semaphores" => Semaphores!OnePermit

\* What a thread has tested still holds when it acts on it.  Wait and notify: a
\* thread inside wait() waits for a turn that is not its own, so the notify that
\* ends its wait is still to come.  Parity of the counter: what a thread reads
\* outside the lock is true once it is inside.
TestStillHolds == CASE program = "waitNotify" -> WaitNotify!NoLostNotify
                    [] program = "printTimes" -> PrintTimes!TestStillHolds
                    [] OTHER -> TRUE

\* Ball game: whoever puts the ball finds another player to take it.
TakerLeft == program = "ball" => Ball!TakerLeft

Starter == IF program = "printTimes" THEN "pong" ELSE "ping"

Lines(t) == CASE program \in {"barrier", "printTimes"} -> count[t]
              [] program = "semaphores" -> Semaphores!Lines(t)
              [] program = "waitNotify" -> WaitNotify!Echoed(t)
              [] program = "token"      -> Token!Written(t)
              [] program = "ball"       -> 0

\* The lines t is given: Runs, but for the Ping of HW4_1.
Given(t) == IF program = "waitNotify" THEN WaitNotify!Times(t) ELSE Runs

\* The player that starts and the one that answers.
Player(s) == IF s = "first" THEN Starter ELSE Other(Starter)

\* The five programs of Ping and Pong print their lines in strict alternation,
\* never more than they were given, and "Done!" only when both have printed all
\* of theirs: Runs each, or in HW4_1 ten and Runs.  (The ball game prints as many
\* lines as its ball has bounces, in no fixed order: TakerLeft and GameEnds say
\* what it does.)
Game == INSTANCE PingPongGame
          WITH times <- [s \in {"first", "second"} |-> Given(Player(s))],
               printed <- [s \in {"first", "second"} |-> Lines(Player(s))],
               done <- program # "ball" /\ done
ImplementsGame == Game!Spec

\* Barrier, semaphores and counter come to "Done!", and the ball to its last
\* bounce.  HW4_1 does not, when main asks for fewer turns than the ten of Ping:
\* Pong ends, Ping prints one line more and waits for ever, and so does main.
\* Of the token program, whose writers may both wait for ever, nothing is said
\* here (see TokenPingPong).
GameEnds == /\ program \notin {"token", "waitNotify"} ~> Ended
            /\ program = "waitNotify" /\ Runs < WaitNotify!PingTimes
                 ~> [](program = "waitNotify" /\ WaitNotify!LeftAlone)
=============================================================================
