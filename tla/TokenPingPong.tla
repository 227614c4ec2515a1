--------------------------- MODULE TokenPingPong ----------------------------
(***************************************************************************)
(* PA1/submissions/Program.java: each writer has a monitor of its own to   *)
(* wait on; mCurrentTurn says who may print.  The turn is read outside     *)
(* every monitor, so a writer can read it, be overtaken by print() and     *)
(* notify() of the other, and only then start to wait.                     *)
(*                                                                         *)
(* The unsynchronized read may also return the value of an earlier turn:   *)
(* the reader's own last write, or the initial one, is the oldest it sees. *)
(***************************************************************************)
EXTENDS Integers

CONSTANT Runs  \* repetitions

VARIABLES pc,    \* pc[t]: where writer t is
          turn,  \* mCurrentTurn
          left,  \* left[t]: mRepetitions
          done   \* main has printed "Done!"

vars == <<pc, turn, left, done>>

Players == {"ping", "pong"}
Threads == Players \cup {"main"}
Other(t) == IF t = "ping" THEN "pong" ELSE "ping"

\* Mutant of AfterPrint: print() leaves the turn alone.
SameTurn(t) == t

\* mCurrentTurn = mOtherToken.
AfterPrint(t) == Other(t)

\* Mutant of MoreToWrite: while (mRepetitions >= 0).
OneMoreToWrite(t) == left[t] >= 0

MoreToWrite(t) == left[t] > 0

Init == /\ pc = [t \in Players |-> "test"]
        /\ turn = "ping"
        /\ left = [t \in Players |-> Runs]
        /\ done = FALSE

\* The turn may look like the other's, unless it is still Ping's first one.
SeesOther(t) == turn # t \/ t = "pong" \/ left[t] < Runs

Goto(t, l) == pc' = [pc EXCEPT ![t] = l]

\* The loop condition, and the unsynchronized test of the turn.
Test(t) == /\ pc[t] = "test"
           /\ \/ ~MoreToWrite(t) /\ Goto(t, "dead")
              \/ MoreToWrite(t) /\ turn = t /\ Goto(t, "print")
              \/ MoreToWrite(t) /\ SeesOther(t) /\ Goto(t, "enter")
           /\ UNCHANGED <<turn, left, done>>

PrintLine(t) == /\ pc[t] = "print"
                /\ left' = [left EXCEPT ![t] = @ - 1]
                /\ turn' = AfterPrint(t)
                /\ Goto(t, "notify")
                /\ UNCHANGED done

\* notify() on the other writer's monitor: nothing happens if it is not waiting.
Notify(t) == /\ pc[t] = "notify"
             /\ pc' = [pc EXCEPT ![t] = "test",
                                 ![Other(t)] = IF @ = "wait" THEN "test" ELSE @]
             /\ UNCHANGED <<turn, left, done>>

Wait(t) == /\ pc[t] = "enter"
           /\ Goto(t, "wait")
           /\ UNCHANGED <<turn, left, done>>

SpuriousWakeup(t) == /\ pc[t] = "wait"
                     /\ Goto(t, "test")
                     /\ UNCHANGED <<turn, left, done>>

\* Both joins have returned.
Done == /\ \A t \in Players : pc[t] = "dead"
        /\ done' = TRUE
        /\ UNCHANGED <<pc, turn, left>>

Step(t) == \/ t \in Players /\ (Test(t) \/ PrintLine(t) \/ Notify(t) \/ Wait(t))
           \/ t = "main" /\ Done

Next == \/ \E t \in Threads : Step(t)
        \/ \E t \in Players : SpuriousWakeup(t)

\* Lines of t on the console.
Written(t) == Runs - left[t]

Spec == Init /\ [][Next]_vars

-----------------------------------------------------------------------------
TypeOK == /\ pc \in [Players -> {"test", "print", "notify", "enter", "wait", "dead"}]
          /\ turn \in Players
          /\ left \in [Players -> 0..Runs]
          /\ done \in BOOLEAN

\* What the comment on mMonitorObjects says: the active token's writer is
\* active; if it waits, its notify is on the way.
ActiveTokenIsActive ==
  \A t \in Players : pc[t] = "wait" /\ turn = t => pc[Other(t)] = "notify"
=============================================================================
