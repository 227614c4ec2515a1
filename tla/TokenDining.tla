----------------------------- MODULE TokenDining -----------------------------
(***************************************************************************)
(* The dinner of PA2/submisions/javaprogram.java: a token, an atomic       *)
(* integer, names the philosopher that may reach for its forks; when it    *)
(* has both it gives the token to the philosopher two seats on and eats.   *)
(* A fork's holder is read and then set in two atomic operations, polling  *)
(* with sleeps in between.  After 15 seconds main tells each philosopher   *)
(* to end.                                                                 *)
(***************************************************************************)
EXTENDS Integers

CONSTANT N  \* philosophers and forks

VARIABLES
  pc,      \* pc[p]: where philosopher p is
  holder,  \* holder[f]: the id of the fork's holder, or ON_TABLE
  token,   \* the id of the philosopher whose turn it is
  end      \* end[p]: main has told p to end

vars == <<pc, holder, token, end>>

Ids == 0..(N - 1)

ON_TABLE == -1

Left(p) == p
Right(p) == (p + 1) % N

\* The fork that waitForFork is about, in the two calls of run.
Wanted(p) == IF pc[p] \in {"waitLeft", "setLeft"} THEN Left(p) ELSE Right(p)

\* Mutant of MyTurn: the token is not looked at.
AnyTurn(p) == TRUE

MyTurn(p) == token = p

\* Mutant of NextTurn: the number of seats is forgotten.
TurnBeyond(p) == p + 2

\* Mutant of NextTurn: the token stays where it is.
SameTurn(p) == p

NextTurn(p) == (p + 2) % N

\* Mutant of Returned: only the left fork goes back.
LeftAgain(p) == Left(p)

\* The fork put back second.
Returned(p) == Right(p)

Goto(p, label) == pc' = [pc EXCEPT ![p] = label]

Init == /\ pc = [p \in Ids |-> "turn"]
        /\ holder = [f \in Ids |-> ON_TABLE]
        /\ token = 0
        /\ end = [p \in Ids |-> FALSE]

\* token.get() == id, or a sleep and the test of end.
LookAtToken(p) == /\ pc[p] = "turn"
                  /\ Goto(p, IF MyTurn(p) THEN "waitLeft" ELSE "test")
                  /\ UNCHANGED <<holder, token, end>>

\* waitForFork: holder.get() finds the fork on the table; until then p sleeps
\* and looks again.
SeeFork(p) == /\ pc[p] \in {"waitLeft", "waitRight"}
              /\ holder[Wanted(p)] = ON_TABLE
              /\ Goto(p, IF pc[p] = "waitLeft" THEN "setLeft" ELSE "setRight")
              /\ UNCHANGED <<holder, token, end>>

\* waitForFork: holder.set(id), whatever the holder is by now.
TakeFork(p) == /\ pc[p] \in {"setLeft", "setRight"}
               /\ holder' = [holder EXCEPT ![Wanted(p)] = p]
               /\ Goto(p, IF pc[p] = "setLeft" THEN "waitRight" ELSE "pass")
               /\ UNCHANGED <<token, end>>

PassToken(p) == /\ pc[p] = "pass"
                /\ token' = NextTurn(p)
                /\ Goto(p, "eat")
                /\ UNCHANGED <<holder, end>>

PutLeft(p) == /\ pc[p] = "eat"
              /\ holder' = [holder EXCEPT ![Left(p)] = ON_TABLE]
              /\ Goto(p, "putRight")
              /\ UNCHANGED <<token, end>>

PutRight(p) == /\ pc[p] = "putRight"
               /\ holder' = [holder EXCEPT ![Returned(p)] = ON_TABLE]
               /\ Goto(p, "ponder")
               /\ UNCHANGED <<token, end>>

\* while (!end.get()): a pondering philosopher goes round once to get hungry.
TestEnd(p) == /\ pc[p] \in {"ponder", "test"}
              /\ Goto(p, CASE end[p] -> "gone"
                           [] ~end[p] /\ pc[p] = "ponder" -> "test"
                           [] OTHER -> "turn")
              /\ UNCHANGED <<holder, token, end>>

\* main: after runSeconds the end flags are set one after the other.
SetEnd(p) == /\ ~end[p]
             /\ \A q \in Ids : ~end[q] => p <= q
             /\ end' = [end EXCEPT ![p] = TRUE]
             /\ UNCHANGED <<pc, holder, token>>

Step(p) == \/ LookAtToken(p) \/ SeeFork(p) \/ TakeFork(p) \/ PassToken(p)
           \/ PutLeft(p) \/ PutRight(p) \/ TestEnd(p)

\* Once main has set the first flag it sets them all; when the 15 seconds are
\* over is left open.
TimeUp == SetEnd(0)
MainStep == \E p \in Ids \ {0} : SetEnd(p)

Ended == \A p \in Ids : pc[p] = "gone" /\ end[p]

Next == MainStep \/ TimeUp \/ \E p \in Ids : Step(p)

Spec == Init /\ [][Next]_vars

-----------------------------------------------------------------------------
TypeOK == /\ pc \in [Ids -> {"turn", "waitLeft", "setLeft", "waitRight",
                             "setRight", "pass", "eat", "putRight", "ponder",
                             "test", "gone"}]
          /\ holder \in [Ids -> Ids \cup {ON_TABLE}]
          /\ token \in Ids
          /\ end \in [Ids -> BOOLEAN]

\* The forks p relies on having, from where it is in run.
Held(p) == CASE pc[p] \in {"waitRight", "setRight"} -> {Left(p)}
             [] pc[p] \in {"pass", "eat"} -> {Left(p), Right(p)}
             [] pc[p] = "putRight" -> {Right(p)}
             [] OTHER -> {}

\* The gap between holder.get() and holder.set() harms nobody: a fork's holder
\* is p exactly while p relies on having it, so no two philosophers share one.
HoldersAgree == \A f \in Ids, p \in Ids : holder[f] = p <=> f \in Held(p)

\* What makes that so: only the philosopher with the token reaches for forks.
OneReaches ==
  \A p \in Ids : pc[p] \in {"waitLeft", "setLeft", "waitRight", "setRight",
                            "pass"} => token = p
=============================================================================
