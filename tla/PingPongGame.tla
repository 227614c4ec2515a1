---------------------------- MODULE PingPongGame ----------------------------
(***************************************************************************)
(* What the ping-pong programs of the repository promise: two players      *)
(* print their lines in strict alternation, each no more than the lines it *)
(* was given, and "Done!" comes only when both have printed all of theirs. *)
(* PingPongPrograms is checked against it.                                 *)
(***************************************************************************)
EXTENDS Naturals

VARIABLES times,    \* times[s]: the lines given to the player on side s
          printed,  \* printed[s]: how often that player has printed
          done      \* "Done!" has been printed

Sides == {"first", "second"}  \* the player that starts and the one that answers

Init == /\ times \in [Sides -> Nat]
        /\ printed = [s \in Sides |-> 0]
        /\ done = FALSE

\* The second player answers every line of the first before the next one.
Turn(s) == IF s = "first" THEN printed["first"] = printed["second"]
                          ELSE printed["first"] > printed["second"]

PrintLine(s) == /\ printed[s] < times[s]
                /\ Turn(s)
                /\ printed' = [printed EXCEPT ![s] = @ + 1]
                /\ UNCHANGED <<times, done>>

Finish == /\ printed = times
          /\ done' = TRUE
          /\ UNCHANGED <<times, printed>>

Next == Finish \/ \E s \in Sides : PrintLine(s)

Spec == Init /\ [][Next]_<<times, printed, done>>
=============================================================================
