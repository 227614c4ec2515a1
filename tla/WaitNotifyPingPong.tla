------------------------- MODULE WaitNotifyPingPong -------------------------
(***************************************************************************)
(* PA1/submissions/HW4_1.java: two Echo threads share one Signal object    *)
(* that says whose turn it is, and wait and notify on it.  The constructor *)
(* gives Pong the turns main asked for, five, and Ping a literal ten.  So  *)
(* Ping prints a sixth line, and waits for a turn Pong never hands over.   *)
(*                                                                         *)
(* A pass through the synchronized block is one step: it ends in wait() or *)
(* after the echo.  wait() may also return without a notify.               *)
(***************************************************************************)
EXTENDS Integers

CONSTANT Runs  \* thisManyTimes: the turns main asks for

VARIABLES pc,        \* pc[t]: "echo" at the block, "wait" inside wait(), "dead"
          sigValue,  \* whose turn it is
          left,      \* left[t]: iterationLeft
          done       \* the constructor has printed "Done!"

vars == <<pc, sigValue, left, done>>

Players == {"ping", "pong"}
Threads == Players \cup {"main"}

\* The literal of the constructor.
PingTimes == 10

Times(t) == IF t = "ping" THEN PingTimes ELSE Runs

\* Mutant of MyTurn: the loop condition around wait() is dropped.
AnyTurn(t) == TRUE

MyTurn(t) == sigValue = t

\* Mutant of Toggled: the signal is always handed to Pong.
AlwaysPong == "pong"

\* toggleSignalValue().
Toggled == IF sigValue = "ping" THEN "pong" ELSE "ping"

\* Mutant of Notified: the notify is forgotten.
NobodyNotified == {}

\* notify(): the thread that waits on the signal, if any (there are only two).
Notified == {s \in Players : pc[s] = "wait"}

\* Mutant of LastTurn: while (iterationLeft >= 0).
OneTurnMore(t) == left[t] = 0

\* iterationLeft-- ends the loop.
LastTurn(t) == left[t] = 1

Init == /\ pc = [t \in Players |-> "echo"]
        /\ sigValue = "ping"
        /\ left = [t \in Players |-> Times(t)]
        /\ done = FALSE

Echo(t) == /\ pc[t] = "echo"
           /\ MyTurn(t)
           /\ left' = [left EXCEPT ![t] = @ - 1]
           /\ sigValue' = Toggled
           /\ pc' = [s \in Players |->
                       IF s = t THEN (IF LastTurn(t) THEN "dead" ELSE "echo")
                       ELSE IF s \in Notified THEN "echo" ELSE pc[s]]
           /\ UNCHANGED done

Wait(t) == /\ pc[t] = "echo"
           /\ ~MyTurn(t)
           /\ pc' = [pc EXCEPT ![t] = "wait"]
           /\ UNCHANGED <<sigValue, left, done>>

SpuriousWakeup(t) == /\ pc[t] = "wait"
                     /\ pc' = [pc EXCEPT ![t] = "echo"]
                     /\ UNCHANGED <<sigValue, left, done>>

\* Both joins have returned.
Done == /\ \A t \in Players : pc[t] = "dead"
        /\ done' = TRUE
        /\ UNCHANGED <<pc, sigValue, left>>

Step(t) == \/ t \in Players /\ (Echo(t) \/ Wait(t))
           \/ t = "main" /\ Done

Next == \/ \E t \in Threads : Step(t)
        \/ \E t \in Players : SpuriousWakeup(t)

\* Lines of t on the console.
Echoed(t) == Times(t) - left[t]

Spec == Init /\ [][Next]_vars

-----------------------------------------------------------------------------
TypeOK == /\ pc \in [Players -> {"echo", "wait", "dead"}]
          /\ sigValue \in Players
          /\ \A t \in Players : left[t] \in 0..Times(t)
          /\ done \in BOOLEAN

\* Pong is through and Ping, one line ahead, has no one to play with.
LeftAlone == /\ pc["pong"] = "dead" /\ pc["ping"] # "dead"
             /\ Echoed("pong") = Runs /\ Echoed("ping") = Runs + 1
             /\ ~done

\* A thread waits only for its turn: no notify is lost.
NoLostNotify == \A t \in Players : pc[t] = "wait" => sigValue # t
=============================================================================
