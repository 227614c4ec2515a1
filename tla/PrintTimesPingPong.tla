------------------------ MODULE PrintTimesPingPong --------------------------
(***************************************************************************)
(* PA1/submissions/PingPong.java: both threads poll the parity of a static *)
(* counter without a lock and then call the synchronized printToConsole,   *)
(* which prints and counts, or ends the program once the counter is above  *)
(* five.  Pong prints on even values, so it starts.                        *)
(*                                                                         *)
(* The poll is a data race: a thread may see an older value than the last  *)
(* write.  The oldest value it can see is its own last write, on which it  *)
(* sleeps; sleeping changes nothing, so it is no action of the model.      *)
(***************************************************************************)
EXTENDS Integers

CONSTANT Runs  \* half of 5 + 1, the lines the counter allows

VARIABLES pc,          \* pc[t]: "poll", or "call" inside printToConsole's caller
          printTimes,  \* the static counter
          printed,     \* printed[t]: lines of t on the console
          exited       \* the program has printed "Done!" and exited

vars == <<pc, printTimes, printed, exited>>

Players == {"ping", "pong"}
Threads == Players \cup {"main"}

\* The 5 of "if (printTimes > 5)": each player prints three times.
LastPrint == 2 * Runs - 1

\* Mutant of MyParity: Ping prints at any time.
PingAnyTime(t) == t = "ping" \/ printTimes % 2 = 0

\* The test before the call.
MyParity(t) == IF t = "ping" THEN printTimes % 2 # 0 ELSE printTimes % 2 = 0

\* Mutant of Over: the counter never ends the program.
NeverOver == FALSE

\* Mutant of Over: >= instead of >.
OverEarly == printTimes >= LastPrint

Over == printTimes > LastPrint

Init == /\ pc = [t \in Players |-> "poll"]
        /\ printTimes = 0
        /\ printed = [t \in Players |-> 0]
        /\ exited = FALSE

Poll(t) == /\ ~exited
           /\ pc[t] = "poll"
           /\ MyParity(t)
           /\ pc' = [pc EXCEPT ![t] = "call"]
           /\ UNCHANGED <<printTimes, printed, exited>>

\* printToConsole, under the lock of the class.
PrintToConsole(t) ==
  /\ ~exited
  /\ pc[t] = "call"
  /\ exited' = Over
  /\ printTimes' = IF Over THEN printTimes ELSE printTimes + 1
  /\ printed' = [printed EXCEPT ![t] = IF Over THEN @ ELSE @ + 1]
  /\ pc' = [pc EXCEPT ![t] = "poll"]

Step(t) == t \in Players /\ (Poll(t) \/ PrintToConsole(t))

Next == \E t \in Threads : Step(t)

Spec == Init /\ [][Next]_vars

-----------------------------------------------------------------------------
TypeOK == /\ pc \in [Players -> {"poll", "call"}]
          /\ printTimes \in 0..(LastPrint + 1)
          /\ printed \in [Players -> 0..Runs]
          /\ exited \in BOOLEAN

\* What is tested outside the lock still holds inside: only the thread whose
\* turn it is can change the parity.
TestStillHolds == \A t \in Players : pc[t] = "call" => MyParity(t)
=============================================================================
