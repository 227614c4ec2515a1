----------------------- MODULE PingPongProgramsProofs -----------------------
(***************************************************************************)
(* The ping-pong programs of PingPongPrograms keep their invariants and    *)
(* implement the game for any number of turns, and the ball of Game.java   *)
(* finds a taker for any players and any number of bounces.  Each program  *)
(* has an inductive invariant of its own: whose turn it is, how far the    *)
(* two players are apart, and what a thread that is through has done.      *)
(***************************************************************************)
EXTENDS PingPongPrograms, TLAPS

-----------------------------------------------------------------------------
(* PingPong.java of posa: the barrier.                                     *)

\* Until the last thread arrives at the barrier nothing has happened; then
\* everybody is through.
BarrierGate ==
  \/ /\ \A t \in Barrier!Threads : pc[t] \in {"gate", "await"}
     /\ \E t \in Barrier!Threads : pc[t] = "gate"
     /\ turn = 0 /\ count = [t \in Barrier!Players |-> 0] /\ done = FALSE
  \/ /\ pc["main"] \in {"join", "dead"}
     /\ \A t \in Barrier!Players : pc[t] \in {"loop", "print", "signal", "dead"}

\* The flag says whose turn it is, and how far apart the players are.
BarrierRally ==
  /\ pc["ping"] \in {"print", "signal"} => turn = 0
  /\ pc["pong"] \in {"print", "signal"} => turn = 1
  /\ count["ping"] = count["pong"] +
       (IF \/ turn = 0 /\ pc["ping"] = "signal"
           \/ turn = 1 /\ pc["pong"] # "signal" THEN 1 ELSE 0)

\* A player prints while it has lines left; the dead have none.
BarrierThrough ==
  /\ \A t \in Barrier!Players : /\ pc[t] = "print" => count[t] < Runs
                                /\ pc[t] = "dead" => count[t] = Runs
  /\ done => \A t \in Barrier!Players : pc[t] = "dead"

BarrierInv == Barrier!TypeOK /\ BarrierGate /\ BarrierRally /\ BarrierThrough

\* Everybody is on the way to the barrier at first.
LEMMA BarrierInit == Barrier!Init => BarrierInv
<1> SUFFICES ASSUME Barrier!Init PROVE BarrierInv
  OBVIOUS
<1> USE RunsAssumption DEF Barrier!Init, Barrier!Threads, Barrier!Players
<1>1. Barrier!TypeOK
  <2>1. count \in [Barrier!Players -> 0..Runs]
    OBVIOUS
  <2>2. QED
    BY <2>1 DEF Barrier!TypeOK
<1>2. BarrierGate
  BY DEF BarrierGate
<1>3. BarrierRally
  BY DEF BarrierRally
<1>4. BarrierThrough
  BY DEF BarrierThrough
<1>5. QED
  BY <1>1, <1>2, <1>3, <1>4 DEF BarrierInv

\* gate.await(): the thread waits, or all of them go on.
LEMMA BarrierAwait ==
  ASSUME BarrierInv, NEW t \in Barrier!Threads, Barrier!Await(t)
  PROVE  BarrierInv'
<1> USE DEF BarrierInv, Barrier!TypeOK
<1>1. /\ \A s \in Barrier!Threads : pc[s] \in {"gate", "await"}
      /\ turn = 0 /\ count = [s \in Barrier!Players |-> 0] /\ done = FALSE
      /\ UNCHANGED <<turn, count, done>>
      /\ pc[t] = "gate"
  BY DEF BarrierGate, Barrier!Await, Barrier!Threads, Barrier!Players
<1>2. CASE \A s \in Barrier!Threads : s = t \/ pc[s] = "await"
  <2>1. Barrier!Waiting + 1 = Barrier!Parties
    BY <1>1, <1>2 DEF Barrier!Waiting, Barrier!AtGate, Barrier!Parties, Barrier!Threads, Barrier!Players
  <2>2. pc' = [s \in Barrier!Threads |-> Barrier!Beyond(s)]
    BY <1>2, <2>1 DEF Barrier!Await
  <2>3. pc' \in [Barrier!Threads -> {"join", "loop"}]
    BY <2>2 DEF Barrier!Beyond
  <2>4. pc'["main"] = "join" /\ \A s \in Barrier!Players : pc'[s] = "loop"
    BY <2>2 DEF Barrier!Beyond, Barrier!Threads, Barrier!Players
  <2>5. QED
    BY <1>1, <2>3, <2>4 DEF BarrierGate, BarrierRally, BarrierThrough, Barrier!Players, Barrier!Threads
<1>3. CASE \E s \in Barrier!Threads : s # t /\ pc[s] = "gate"
  <2>1. Barrier!Waiting + 1 # Barrier!Parties
    BY <1>1, <1>3 DEF Barrier!Waiting, Barrier!AtGate, Barrier!Parties, Barrier!Threads, Barrier!Players
  <2>2. pc' = [pc EXCEPT ![t] = "await"]
    BY <2>1 DEF Barrier!Await
  <2>3. QED
    BY <1>1, <1>3, <2>2 DEF BarrierGate, BarrierRally, BarrierThrough, Barrier!Players, Barrier!Threads
<1>4. QED
  BY <1>1, <1>2, <1>3

\* Every step of the barrier program keeps its invariant.
LEMMA BarrierKeepsInv ==
  ASSUME BarrierInv, \/ \E t \in Barrier!Threads : Barrier!Step(t)
                     \/ UNCHANGED <<pc, turn, count, done>>
  PROVE  BarrierInv'
<1> USE DEF BarrierInv
<1>1. ASSUME NEW t \in Barrier!Players, Barrier!Test(t) \/ Barrier!PrintLine(t) \/ Barrier!MoveFlag(t)
      PROVE  BarrierInv'
  <2> USE RunsAssumption DEF Barrier!Test, Barrier!PrintLine, Barrier!MoveFlag, Barrier!MayPrint,
                             Barrier!Signal, Barrier!Players, Barrier!Threads, Barrier!TypeOK
  <2>1. Barrier!TypeOK'
    BY <1>1 DEF BarrierRally, BarrierThrough
  <2>2. BarrierGate'
    BY <1>1 DEF BarrierGate
  <2>3. BarrierRally'
    BY <1>1 DEF BarrierRally
  <2>4. BarrierThrough'
    BY <1>1 DEF BarrierThrough
  <2>5. QED
    BY <2>1, <2>2, <2>3, <2>4
<1>2. CASE Barrier!Done
  BY <1>2 DEF Barrier!Done, Barrier!Players, Barrier!Threads, Barrier!TypeOK, BarrierGate, BarrierRally, BarrierThrough
<1>3. CASE UNCHANGED <<pc, turn, count, done>>
  BY <1>3 DEF Barrier!TypeOK, BarrierGate, BarrierRally, BarrierThrough
<1>4. QED
  BY <1>1, <1>2, <1>3, BarrierAwait DEF Barrier!Step

-----------------------------------------------------------------------------
(* Solution/PingPong.java: two semaphores and a latch.                     *)

\* From Ping's line to Pong's it is Pong's turn.
PongsTurn == \/ turn["pong"] = 1
             \/ pc["pong"] = "print"
             \/ pc["ping"] = "release"

\* Ping is one line ahead when it is Pong's turn, and level when it is not.
SemaphoresRally ==
  Semaphores!Lines("ping") = Semaphores!Lines("pong") + (IF PongsTurn THEN 1 ELSE 0)

\* The latch counts the threads that are not through, and a thread that is
\* through has made all its loops.
Alive(t) == IF pc[t] = "dead" THEN 0 ELSE 1
SemaphoresCounted == /\ latch = Alive("ping") + Alive("pong")
                     /\ \A t \in Semaphores!Players : pc[t] = "dead" => count[t] = Runs

\* Semaphores!OnePermit without its sets: the permit is in one of four places.
HasPermit(t) == pc[t] \in {"print", "release"}
PermitPlace ==
  \/ ~HasPermit("ping") /\ ~HasPermit("pong") /\ turn["ping"] = 1 /\ turn["pong"] = 0
  \/ ~HasPermit("ping") /\ ~HasPermit("pong") /\ turn["ping"] = 0 /\ turn["pong"] = 1
  \/ HasPermit("ping") /\ ~HasPermit("pong") /\ turn["ping"] = 0 /\ turn["pong"] = 0
  \/ ~HasPermit("ping") /\ HasPermit("pong") /\ turn["ping"] = 0 /\ turn["pong"] = 0

SemaphoresInv == Semaphores!TypeOK /\ PermitPlace /\ SemaphoresRally /\ SemaphoresCounted

\* PermitPlace is Semaphores!OnePermit said of ping and pong by name.
LEMMA PlacesMeanOnePermit ==
  ASSUME Semaphores!TypeOK, PermitPlace
  PROVE  Semaphores!OnePermit
<1> USE DEF Semaphores!TypeOK, Semaphores!Players, HasPermit
<1>1. CASE ~HasPermit("ping") /\ ~HasPermit("pong")
  BY <1>1 DEF PermitPlace, Semaphores!OnePermit, Semaphores!InTurn
<1>2. ASSUME turn["ping"] = 0, turn["pong"] = 0
      PROVE  turn = [s \in Semaphores!Players |-> 0]
  BY <1>2
<1>3. CASE HasPermit("ping")
  <2>1. Semaphores!InTurn = {"ping"}
    BY <1>3 DEF PermitPlace, Semaphores!InTurn
  <2>2. QED
    BY <1>2, <1>3, <2>1 DEF PermitPlace, Semaphores!OnePermit
<1>4. CASE HasPermit("pong")
  <2>1. Semaphores!InTurn = {"pong"}
    BY <1>4 DEF PermitPlace, Semaphores!InTurn
  <2>2. QED
    BY <1>2, <1>4, <2>1 DEF PermitPlace, Semaphores!OnePermit
<1>5. QED
  BY <1>1, <1>3, <1>4

\* Ping's semaphore has the permit and nobody has printed: the invariant holds.
LEMMA SemaphoresInit == Semaphores!Init => SemaphoresInv
<1> SUFFICES ASSUME Semaphores!Init PROVE SemaphoresInv
  OBVIOUS
<1> USE RunsAssumption DEF Semaphores!Init, Semaphores!InitialPermits, Semaphores!Players
<1>1. Semaphores!TypeOK
  <2>1. \A t \in Semaphores!Players : Semaphores!InitialPermits(t) \in 0..1
    OBVIOUS
  <2>2. turn \in [Semaphores!Players -> 0..1]
    BY <2>1
  <2>3. count \in [Semaphores!Players -> 1..Runs]
    OBVIOUS
  <2>4. pc \in [Semaphores!Players -> {"acquire", "print", "release", "next", "dead"}]
    OBVIOUS
  <2>5. latch \in 0..2
    OBVIOUS
  <2>6. done \in BOOLEAN
    OBVIOUS
  <2>7. QED
    BY <2>2, <2>3, <2>4, <2>5, <2>6 DEF Semaphores!TypeOK
<1>2. PermitPlace
  BY DEF PermitPlace, HasPermit
<1>3. SemaphoresRally
  BY DEF SemaphoresRally, PongsTurn, Semaphores!Lines
<1>4. SemaphoresCounted
  BY DEF SemaphoresCounted, Alive
<1>5. QED
  BY <1>1, <1>2, <1>3, <1>4 DEF SemaphoresInv

\* acquire() moves the permit from the semaphore to the player.
LEMMA SemaphoresAcquireInv ==
  ASSUME SemaphoresInv, NEW t \in Semaphores!Players, Semaphores!Acquire(t)
  PROVE  SemaphoresInv'
<1> USE RunsAssumption DEF SemaphoresInv, Semaphores!TypeOK, Semaphores!Players, Semaphores!Acquire
<1>1. Semaphores!TypeOK'
  OBVIOUS
<1>2. PermitPlace'
  BY DEF PermitPlace, HasPermit
<1>3. SemaphoresRally'
  BY DEF SemaphoresRally, PongsTurn, Semaphores!Lines, PermitPlace, HasPermit
<1>4. SemaphoresCounted'
  BY DEF SemaphoresCounted, Alive
<1>5. QED
  BY <1>1, <1>2, <1>3, <1>4

\* Printing puts a player one line further and leaves the permit alone.
LEMMA SemaphoresPrintLineInv ==
  ASSUME SemaphoresInv, NEW t \in Semaphores!Players, Semaphores!PrintLine(t)
  PROVE  SemaphoresInv'
<1> USE RunsAssumption DEF SemaphoresInv, Semaphores!TypeOK, Semaphores!Players, Semaphores!PrintLine
<1>1. Semaphores!TypeOK'
  OBVIOUS
<1>2. PermitPlace'
  BY DEF PermitPlace, HasPermit
<1>3. SemaphoresRally'
  BY DEF SemaphoresRally, PongsTurn, Semaphores!Lines, PermitPlace, HasPermit
<1>4. SemaphoresCounted'
  BY DEF SemaphoresCounted, Alive
<1>5. QED
  BY <1>1, <1>2, <1>3, <1>4

\* release() moves the permit from the player to the other one's semaphore.
LEMMA SemaphoresReleaseInv ==
  ASSUME SemaphoresInv, NEW t \in Semaphores!Players, Semaphores!Release(t)
  PROVE  SemaphoresInv'
<1> USE RunsAssumption DEF SemaphoresInv, Semaphores!TypeOK, Semaphores!Players, Semaphores!Release, Semaphores!Other
<1>1. Semaphores!TypeOK'
  BY DEF PermitPlace, HasPermit
<1>2. PermitPlace'
  BY DEF PermitPlace, HasPermit
<1>3. SemaphoresRally'
  BY DEF SemaphoresRally, PongsTurn, Semaphores!Lines, PermitPlace, HasPermit
<1>4. SemaphoresCounted'
  BY DEF SemaphoresCounted, Alive
<1>5. QED
  BY <1>1, <1>2, <1>3, <1>4

\* The end of a pass counts the loop or the latch, and leaves the permit alone.
LEMMA SemaphoresEndOfLoopInv ==
  ASSUME SemaphoresInv, NEW t \in Semaphores!Players, Semaphores!EndOfLoop(t)
  PROVE  SemaphoresInv'
<1> USE RunsAssumption DEF SemaphoresInv, Semaphores!TypeOK, Semaphores!Players, Semaphores!EndOfLoop,
                           Semaphores!LastLoop
<1>1. Semaphores!TypeOK'
  BY DEF SemaphoresCounted, Alive
<1>2. PermitPlace'
  BY DEF PermitPlace, HasPermit
<1>3. SemaphoresRally'
  BY DEF SemaphoresRally, PongsTurn, Semaphores!Lines, PermitPlace, HasPermit
<1>4. SemaphoresCounted'
  BY DEF SemaphoresCounted, Alive
<1>5. QED
  BY <1>1, <1>2, <1>3, <1>4

\* Every step of the semaphore program keeps its invariant.
LEMMA SemaphoresKeepsInv ==
  ASSUME SemaphoresInv, \/ \E t \in Semaphores!Threads : Semaphores!Step(t)
                        \/ UNCHANGED <<pc, turn, count, latch, done>>
  PROVE  SemaphoresInv'
<1>1. ASSUME NEW t \in Semaphores!Players, \/ Semaphores!Acquire(t) \/ Semaphores!PrintLine(t)
                                           \/ Semaphores!Release(t) \/ Semaphores!EndOfLoop(t)
      PROVE  SemaphoresInv'
  BY <1>1, SemaphoresAcquireInv, SemaphoresPrintLineInv, SemaphoresReleaseInv, SemaphoresEndOfLoopInv
<1>2. CASE Semaphores!Done \/ UNCHANGED <<pc, turn, count, latch, done>>
  BY <1>2 DEF Semaphores!Done, SemaphoresInv, Semaphores!TypeOK, PermitPlace, HasPermit, SemaphoresRally,
              PongsTurn, Semaphores!Lines, SemaphoresCounted, Alive
<1>3. QED
  BY <1>1, <1>2 DEF Semaphores!Step

-----------------------------------------------------------------------------
(* HW4_1.java: wait and notify on one signal object.                       *)

\* The signal value says how far apart the players are, and a thread is dead
\* when it has no turns left; how many turns each was given does not matter.
WaitNotifyInv == /\ WaitNotify!TypeOK
                 /\ count \in [WaitNotify!Players -> Nat]
                 /\ Runs - count["pong"] + (IF turn = "ping" THEN 0 ELSE 1)
                      = WaitNotify!PingTimes - count["ping"]
                 /\ \A t \in WaitNotify!Players : pc[t] = "dead" <=> count[t] = 0
                 /\ WaitNotify!NoLostNotify
                 /\ done => \A t \in WaitNotify!Players : pc[t] = "dead"

\* Both threads are at the block at first, with all their turns.
LEMMA WaitNotifyInit == WaitNotify!Init => WaitNotifyInv
<1> SUFFICES ASSUME WaitNotify!Init PROVE WaitNotifyInv
  OBVIOUS
<1> USE RunsAssumption DEF WaitNotify!Init, WaitNotify!Players, WaitNotify!Times, WaitNotify!PingTimes
<1>1. \A t \in WaitNotify!Players : WaitNotify!Times(t) \in Nat \ {0}
  BY ONLY RunsAssumption DEF WaitNotify!Players, WaitNotify!Times, WaitNotify!PingTimes
<1>2. \A t \in WaitNotify!Players : count[t] = WaitNotify!Times(t)
  OBVIOUS
<1>3. WaitNotify!TypeOK
  <2>1. ASSUME NEW n \in Nat \ {0} PROVE n \in 0..n
    OBVIOUS
  <2>2. \A t \in WaitNotify!Players : count[t] \in 0..WaitNotify!Times(t)
    BY ONLY <1>1, <1>2, <2>1
  <2>3. QED
    BY <2>2 DEF WaitNotify!TypeOK
<1>4. count \in [WaitNotify!Players -> Nat]
  <2>1. count = [t \in WaitNotify!Players |-> WaitNotify!Times(t)]
    OBVIOUS
  <2>2. QED
    BY ONLY <1>1, <2>1
<1>5. QED
  BY <1>1, <1>2, <1>3, <1>4 DEF WaitNotifyInv, WaitNotify!NoLostNotify

\* Every step of the program with wait and notify keeps its invariant.
LEMMA WaitNotifyKeepsInv ==
  ASSUME WaitNotifyInv, \/ \E t \in WaitNotify!Threads : WaitNotify!Step(t)
                        \/ \E t \in WaitNotify!Players : WaitNotify!SpuriousWakeup(t)
                        \/ UNCHANGED <<pc, turn, count, done>>
  PROVE  WaitNotifyInv'
<1> USE DEF WaitNotifyInv, WaitNotify!Players, WaitNotify!Times, WaitNotify!PingTimes,
            WaitNotify!TypeOK, WaitNotify!NoLostNotify
<1>1. ASSUME NEW t \in WaitNotify!Players, WaitNotify!Echo(t)
      PROVE  WaitNotifyInv'
  <2> USE RunsAssumption, <1>1 DEF WaitNotify!Echo, WaitNotify!MyTurn, WaitNotify!Toggled,
                                   WaitNotify!Notified, WaitNotify!LastTurn
  <2>1. count' \in [WaitNotify!Players -> Nat]
    OBVIOUS
  <2>2. WaitNotify!TypeOK'
    BY <2>1
  <2>3. Runs - count'["pong"] + (IF turn' = "ping" THEN 0 ELSE 1) = WaitNotify!PingTimes - count'["ping"]
    OBVIOUS
  <2>4. \A s \in WaitNotify!Players : pc'[s] = "dead" <=> count'[s] = 0
    OBVIOUS
  <2>5. WaitNotify!NoLostNotify'
    OBVIOUS
  <2>6. done => \A s \in WaitNotify!Players : pc'[s] = "dead"
    OBVIOUS
  <2>7. QED
    BY <2>1, <2>2, <2>3, <2>4, <2>5, <2>6
<1>2. ASSUME NEW t \in WaitNotify!Players, WaitNotify!Wait(t) \/ WaitNotify!SpuriousWakeup(t)
      PROVE  WaitNotifyInv'
  <2> USE <1>2 DEF WaitNotify!Wait, WaitNotify!SpuriousWakeup, WaitNotify!MyTurn
  <2>1. WaitNotify!TypeOK'
    OBVIOUS
  <2>2. WaitNotify!NoLostNotify'
    OBVIOUS
  <2>3. UNCHANGED <<turn, count, done>> /\ \A s \in WaitNotify!Players : pc'[s] = "dead" <=> pc[s] = "dead"
    OBVIOUS
  <2>4. QED
    BY <2>1, <2>2, <2>3
<1>3. CASE WaitNotify!Done \/ UNCHANGED <<pc, turn, count, done>>
  <2>1. /\ UNCHANGED <<pc, turn, count>>
        /\ \/ done' = done
           \/ done' = TRUE /\ \A t \in WaitNotify!Players : pc[t] = "dead"
    BY <1>3 DEF WaitNotify!Done
  <2>2. done' \in BOOLEAN
    BY <2>1
  <2>3. QED
    BY <2>1, <2>2
<1>4. QED
  BY <1>1, <1>2, <1>3 DEF WaitNotify!Step

-----------------------------------------------------------------------------
(* PingPong.java of PA1/submissions: the parity of a counter.              *)

\* The counter counts all the lines, Pong starts, and the end is at 2 * Runs.
PrintTimesInv == /\ PrintTimes!TypeOK
                 /\ PrintTimes!TestStillHolds
                 /\ \/ turn = 2 * count["ping"] /\ count["pong"] = count["ping"]
                    \/ turn = 2 * count["ping"] + 1 /\ count["pong"] = count["ping"] + 1
                 /\ done => turn = 2 * Runs

\* Nothing is printed at first.
LEMMA PrintTimesInit == PrintTimes!Init => PrintTimesInv
<1> SUFFICES ASSUME PrintTimes!Init PROVE PrintTimesInv
  OBVIOUS
<1> USE RunsAssumption DEF PrintTimes!Init, PrintTimes!Players
<1>1. turn \in 0..(PrintTimes!LastPrint + 1)
  BY DEF PrintTimes!LastPrint
<1>2. count \in [PrintTimes!Players -> 0..Runs]
  OBVIOUS
<1>3. PrintTimes!TypeOK
  BY <1>1, <1>2 DEF PrintTimes!TypeOK
<1>4. QED
  BY <1>3 DEF PrintTimesInv, PrintTimes!TestStillHolds

\* The player whose parity it is has as many lines as half the counter.
LEMMA Parity ==
  ASSUME NEW k \in Nat
  PROVE  (2 * k) % 2 = 0 /\ (2 * k + 1) % 2 = 1
OBVIOUS

\* Every step of the program with the counter keeps its invariant.
LEMMA PrintTimesKeepsInv ==
  ASSUME PrintTimesInv, \/ \E t \in PrintTimes!Threads : PrintTimes!Step(t)
                        \/ UNCHANGED <<pc, turn, count, done>>
  PROVE  PrintTimesInv'
<1> USE RunsAssumption DEF PrintTimesInv, PrintTimes!Players, PrintTimes!TypeOK
<1>1. ASSUME NEW t \in PrintTimes!Players, PrintTimes!Poll(t)
      PROVE  PrintTimesInv'
  BY <1>1 DEF PrintTimes!Poll, PrintTimes!TestStillHolds, PrintTimes!MyParity
<1>2. ASSUME NEW t \in PrintTimes!Players, PrintTimes!PrintToConsole(t)
      PROVE  PrintTimesInv'
  <2> DEFINE k == count["ping"]
  <2>k. k \in 0..Runs /\ (2 * k) % 2 = 0 /\ (2 * k + 1) % 2 = 1 /\ count["pong"] \in 0..Runs
    BY Parity
  <2>1. \/ t = "pong" /\ turn = 2 * k /\ count["pong"] = k
        \/ t = "ping" /\ turn = 2 * k + 1 /\ count["pong"] = k + 1
    BY <1>2, <2>k DEF PrintTimes!PrintToConsole, PrintTimes!TestStillHolds, PrintTimes!MyParity
  <2>2. \A s \in PrintTimes!Players \ {t} : pc[s] = "poll"
    BY <2>1, <2>k DEF PrintTimes!TestStillHolds, PrintTimes!MyParity
  <2>3. \A s \in PrintTimes!Players : pc'[s] = "poll"
    BY <1>2, <2>2 DEF PrintTimes!PrintToConsole
  <2>4. CASE PrintTimes!Over
    <3>1. turn = 2 * Runs
      BY <2>1, <2>4, <2>k DEF PrintTimes!Over, PrintTimes!LastPrint
    <3>2. done' \in BOOLEAN /\ turn' = turn /\ count' = count
      BY <1>2, <2>4 DEF PrintTimes!PrintToConsole, PrintTimes!Over
    <3>3. pc' \in [PrintTimes!Players -> {"poll", "call"}]
      BY <1>2 DEF PrintTimes!PrintToConsole
    <3>4. QED
      BY <2>3, <3>1, <3>2, <3>3 DEF PrintTimes!TestStillHolds
  <2>5. CASE ~PrintTimes!Over
    <3>1. turn' = turn + 1 /\ count' = [count EXCEPT ![t] = @ + 1]
      BY <1>2, <2>5 DEF PrintTimes!PrintToConsole
    <3>2. done' = FALSE
      BY <1>2, <2>5 DEF PrintTimes!PrintToConsole, PrintTimes!Over
    <3>3. turn + 1 \in 0..(PrintTimes!LastPrint + 1) /\ count[t] + 1 \in 0..Runs
      BY <2>1, <2>5, <2>k DEF PrintTimes!Over, PrintTimes!LastPrint
    <3>4. count' \in [PrintTimes!Players -> 0..Runs]
      BY <3>1, <3>3
    <3>5. pc' \in [PrintTimes!Players -> {"poll", "call"}]
      BY <1>2 DEF PrintTimes!PrintToConsole
    <3>6. \/ turn' = 2 * count'["ping"] /\ count'["pong"] = count'["ping"]
          \/ turn' = 2 * count'["ping"] + 1 /\ count'["pong"] = count'["ping"] + 1
      BY <2>1, <2>k, <3>1
    <3>7. QED
      BY <2>3, <3>1, <3>2, <3>3, <3>4, <3>5, <3>6 DEF PrintTimes!TestStillHolds
  <2>6. QED
    BY <2>4, <2>5
<1>3. CASE UNCHANGED <<pc, turn, count, done>>
  BY <1>3 DEF PrintTimes!TestStillHolds, PrintTimes!MyParity
<1>4. QED
  BY <1>1, <1>2, <1>3 DEF PrintTimes!Step

-----------------------------------------------------------------------------
(* Program.java: a token and two monitors.                                 *)

\* The turn says how far apart the writers are; whoever is about to print has
\* it, and a writer that is through has written all its lines.
TokenInv == /\ Token!TypeOK
            /\ count["pong"] = count["ping"] + (IF turn = "ping" THEN 0 ELSE 1)
            /\ \A t \in Token!Players : /\ pc[t] = "print" => turn = t /\ count[t] > 0
                                        /\ pc[t] = "dead" => count[t] = 0
            /\ done => \A t \in Token!Players : pc[t] = "dead"

\* Ping has the token at first.
LEMMA TokenInit == Token!Init => TokenInv
<1> SUFFICES ASSUME Token!Init PROVE TokenInv
  OBVIOUS
<1> USE RunsAssumption DEF Token!Init, Token!Players
<1>1. count \in [Token!Players -> 0..Runs]
  OBVIOUS
<1>2. Token!TypeOK
  BY <1>1 DEF Token!TypeOK
<1>3. QED
  BY <1>2 DEF TokenInv

\* Every step of the token program keeps its invariant.
LEMMA TokenKeepsInv ==
  ASSUME TokenInv, \/ \E t \in Token!Threads : Token!Step(t)
                   \/ \E t \in Token!Players : Token!SpuriousWakeup(t)
                   \/ UNCHANGED <<pc, turn, count, done>>
  PROVE  TokenInv'
<1> USE RunsAssumption DEF TokenInv, Token!Players, Token!TypeOK, Token!Goto
<1>1. ASSUME NEW t \in Token!Players, Token!PrintLine(t)
      PROVE  TokenInv'
  <2> USE <1>1 DEF Token!PrintLine, Token!AfterPrint, Token!Other
  <2>1. count' \in [Token!Players -> 0..Runs]
    OBVIOUS
  <2>2. Token!TypeOK'
    BY <2>1
  <2>3. QED
    BY <2>2
<1>2. ASSUME NEW t \in Token!Players, Token!Test(t) \/ Token!Wait(t) \/ Token!SpuriousWakeup(t)
      PROVE  TokenInv'
  <2> USE <1>2 DEF Token!Test, Token!Wait, Token!SpuriousWakeup, Token!MoreToWrite
  <2>1. Token!TypeOK'
    OBVIOUS
  <2>2. QED
    BY <2>1
<1>3. ASSUME NEW t \in Token!Players, Token!Notify(t)
      PROVE  TokenInv'
  <2> USE <1>3 DEF Token!Notify, Token!Other
  <2>1. Token!TypeOK'
    OBVIOUS
  <2>2. QED
    BY <2>1
<1>4. CASE Token!Done \/ UNCHANGED <<pc, turn, count, done>>
  <2>1. /\ UNCHANGED <<pc, turn, count>>
        /\ \/ done' = done
           \/ done' = TRUE /\ \A t \in Token!Players : pc[t] = "dead"
    BY <1>4 DEF Token!Done
  <2>2. done' \in BOOLEAN
    BY <2>1
  <2>3. QED
    BY <2>1, <2>2
<1>5. QED
  BY <1>1, <1>2, <1>3, <1>4 DEF Token!Step

-----------------------------------------------------------------------------
(* Game.java: the ball.                                                    *)

Everybody == Gamers \cup {"main"}

\* Who has the ball.
HasBall(s) == pc[s] \in {"put", "bounce"}

\* One has the ball, and nobody any more when it has no bounces left.
OneBall == /\ \A s, t \in Everybody : HasBall(s) /\ HasBall(t) => s = t
           /\ count = 0 => \A s \in Everybody : ~HasBall(s)
           /\ done = IF count = 0 THEN 1 ELSE 0

\* One player has stopped, after the last bounce but one, and it is the one
\* that puts the ball then; a player has left only if it has stopped, while the
\* ball still bounces.
OneStops ==
  /\ \A p, q \in Gamers : ~turn[p] /\ ~turn[q] => p = q
  /\ \A p \in Gamers : /\ ~turn[p] => count <= 1
                       /\ pc[p] = "dead" /\ count > 0 => ~turn[p]
                       /\ ~turn[p] => \A s \in Everybody : pc[s] = "put" => s = p

BallInv == Ball!TypeOK /\ OneBall /\ OneStops

\* main has the ball at first.
LEMMA BallInit == Ball!Init => BallInv
<1> SUFFICES ASSUME Ball!Init PROVE BallInv
  OBVIOUS
<1> USE BallAssumption DEF Ball!Init, Everybody
<1>1. Ball!TypeOK
  BY DEF Ball!TypeOK
<1>2. OneBall
  BY DEF OneBall, HasBall
<1>3. OneStops
  BY DEF OneStops
<1>4. QED
  BY <1>1, <1>2, <1>3 DEF BallInv

\* Every step of the ball game keeps its invariant.
LEMMA BallKeepsInv ==
  ASSUME BallInv, \/ \E t \in Everybody : Ball!Step(t)
                  \/ UNCHANGED <<pc, turn, count, done>>
  PROVE  BallInv'
<1> USE BallAssumption DEF BallInv, Ball!TypeOK, Everybody
<1>1. ASSUME NEW p \in Gamers, Ball!Ready(p)
      PROVE  BallInv'
  <2> USE <1>1 DEF Ball!Ready
  <2>1. Ball!TypeOK'
    OBVIOUS
  <2>2. OneBall'
    BY DEF OneBall, HasBall
  <2>3. OneStops'
    BY DEF OneStops
  <2>4. QED
    BY <2>1, <2>2, <2>3
<1>2. ASSUME NEW s \in Everybody, NEW p \in Gamers, Ball!Pass(s, p)
      PROVE  BallInv'
  <2> USE <1>2 DEF Ball!Pass
  <2>1. Ball!TypeOK'
    OBVIOUS
  <2>2. OneBall'
    BY DEF OneBall, HasBall
  <2>3. OneStops'
    BY DEF OneStops, OneBall, HasBall
  <2>4. QED
    BY <2>1, <2>2, <2>3
<1>3. ASSUME NEW p \in Gamers, Ball!Bounce(p)
      PROVE  BallInv'
  <2> USE <1>3 DEF Ball!Bounce, Ball!StopsAt, Ball!EndsAt
  <2>1. Ball!TypeOK'
    BY DEF OneBall
  <2>2. OneBall'
    BY DEF OneBall, HasBall
  <2>3. OneStops'
    BY DEF OneStops, OneBall, HasBall
  <2>4. QED
    BY <2>1, <2>2, <2>3
<1>4. CASE UNCHANGED <<pc, turn, count, done>>
  BY <1>4 DEF OneBall, HasBall, OneStops
<1>5. QED
  BY <1>1, <1>2, <1>3, <1>4 DEF Ball!Step

\* The one that puts the ball finds a player that runs.
LEMMA BallTakers ==
  ASSUME BallInv
  PROVE  Ball!TakerLeft
<1> SUFFICES ASSUME NEW s \in Everybody, pc[s] = "put"
             PROVE  \E p \in Gamers \ {s} : pc[p] # "dead" /\ turn[p]
  BY DEF Ball!TakerLeft, Everybody
<1> USE DEF BallInv, Ball!TypeOK
<1>1. count > 0
  BY DEF OneBall, HasBall
<1>2. PICK p \in Gamers : p # s
  BY BallAssumption
<1>3. turn[p]
  BY <1>2 DEF OneStops
<1>4. pc[p] # "dead"
  BY <1>1, <1>3 DEF OneStops
<1>5. QED
  BY <1>2, <1>3, <1>4

-----------------------------------------------------------------------------
(* The six programs together.                                              *)

Inv == \/ program = "barrier"    /\ BarrierInv
       \/ program = "semaphores" /\ SemaphoresInv
       \/ program = "waitNotify" /\ WaitNotifyInv
       \/ program = "printTimes" /\ PrintTimesInv
       \/ program = "token"      /\ TokenInv
       \/ program = "ball"       /\ BallInv

\* Whichever program is picked, its invariant holds at first.
LEMMA InitInv == Init => Inv
BY BarrierInit, SemaphoresInit, WaitNotifyInit, PrintTimesInit, TokenInit, BallInit DEF Init, Inv

\* A step of the composition is a step of the program that runs.
LEMMA StepsOfPrograms ==
  ASSUME [Next]_vars
  PROVE  /\ program' = program
         /\ program = "barrier" =>
              \/ \E t \in Barrier!Threads : Barrier!Step(t)
              \/ UNCHANGED <<pc, turn, count, done>>
         /\ program = "semaphores" =>
              \/ \E t \in Semaphores!Threads : Semaphores!Step(t)
              \/ UNCHANGED <<pc, turn, count, latch, done>>
         /\ program = "waitNotify" =>
              \/ \E t \in WaitNotify!Threads : WaitNotify!Step(t)
              \/ \E t \in WaitNotify!Players : WaitNotify!SpuriousWakeup(t)
              \/ UNCHANGED <<pc, turn, count, done>>
         /\ program = "printTimes" =>
              \/ \E t \in PrintTimes!Threads : PrintTimes!Step(t)
              \/ UNCHANGED <<pc, turn, count, done>>
         /\ program = "token" =>
              \/ \E t \in Token!Threads : Token!Step(t)
              \/ \E t \in Token!Players : Token!SpuriousWakeup(t)
              \/ UNCHANGED <<pc, turn, count, done>>
         /\ program = "ball" =>
              \/ \E t \in Everybody : Ball!Step(t)
              \/ UNCHANGED <<pc, turn, count, done>>
<1>1. ASSUME NEW t, Step(t)
      PROVE  /\ program' = program
             /\ program = "barrier" => t \in Barrier!Threads /\ Barrier!Step(t)
             /\ program = "semaphores" => t \in Semaphores!Threads /\ Semaphores!Step(t)
             /\ program = "waitNotify" => t \in WaitNotify!Threads /\ WaitNotify!Step(t)
             /\ program = "printTimes" => t \in PrintTimes!Threads /\ PrintTimes!Step(t)
             /\ program = "token" => t \in Token!Threads /\ Token!Step(t)
             /\ program = "ball" => t \in Everybody /\ Ball!Step(t)
  BY <1>1 DEF Step, Everybody, Barrier!Step, Barrier!Threads, Barrier!Players,
              Semaphores!Step, Semaphores!Threads, Semaphores!Players,
              WaitNotify!Step, WaitNotify!Threads, WaitNotify!Players,
              PrintTimes!Step, PrintTimes!Threads, PrintTimes!Players,
              Token!Step, Token!Threads, Token!Players, Ball!Step
<1>2. ASSUME NEW t \in Players, SpuriousWakeup(t)
      PROVE  /\ program' = program
             /\ program \in {"waitNotify", "token"}
             /\ program = "waitNotify" => t \in WaitNotify!Players /\ WaitNotify!SpuriousWakeup(t)
             /\ program = "token" => t \in Token!Players /\ Token!SpuriousWakeup(t)
  BY <1>2 DEF SpuriousWakeup, Players, WaitNotify!Players, Token!Players
<1>3. CASE Rest \/ UNCHANGED vars
  BY <1>3 DEF Rest, vars
<1>4. QED
  BY <1>1, <1>2, <1>3 DEF Next

\* Every step, and every stutter, keeps the invariant of the program that runs.
LEMMA StepInv == Inv /\ [Next]_vars => Inv'
<1> SUFFICES ASSUME Inv, [Next]_vars PROVE Inv'
  OBVIOUS
<1>1. CASE program = "barrier"
  BY <1>1, StepsOfPrograms, BarrierKeepsInv DEF Inv
<1>2. CASE program = "semaphores"
  BY <1>2, StepsOfPrograms, SemaphoresKeepsInv DEF Inv
<1>3. CASE program = "waitNotify"
  BY <1>3, StepsOfPrograms, WaitNotifyKeepsInv DEF Inv
<1>4. CASE program = "printTimes"
  BY <1>4, StepsOfPrograms, PrintTimesKeepsInv DEF Inv
<1>5. CASE program = "token"
  BY <1>5, StepsOfPrograms, TokenKeepsInv DEF Inv
<1>6. CASE program = "ball"
  BY <1>6, StepsOfPrograms, BallKeepsInv DEF Inv
<1>7. QED
  BY <1>1, <1>2, <1>3, <1>4, <1>5, <1>6 DEF Inv

\* Inv holds in every reachable state.
THEOREM Invariance == Spec => []Inv
BY InitInv, StepInv, PTL DEF Spec

\* For any number of turns, and any players of the ball game, no thread counts
\* past its last turn and no flag, semaphore or latch leaves its range.
THEOREM TypeCorrect == Spec => []TypeOK
<1>1. Inv => TypeOK
  BY DEF Inv, BarrierInv, SemaphoresInv, WaitNotifyInv, PrintTimesInv, TokenInv, BallInv, TypeOK
<1>2. QED
  BY Invariance, <1>1, PTL

\* For any number of turns the two semaphores of Solution/PingPong.java hold one
\* permit between them, or the player between acquire() and release() has it.
THEOREM PrintersTakeTurns == Spec => []OnePermit
<1>1. Inv => OnePermit
  BY PlacesMeanOnePermit DEF Inv, SemaphoresInv, OnePermit
<1>2. QED
  BY Invariance, <1>1, PTL

\* For any number of turns the notify of HW4_1.java is still to come when a
\* thread waits for it, and the parity that PingPong.java tests outside the lock
\* is the parity it finds inside.
THEOREM TestsHold == Spec => []TestStillHolds
<1>1. Inv => TestStillHolds
  BY DEF Inv, WaitNotifyInv, PrintTimesInv, TestStillHolds
<1>2. QED
  BY Invariance, <1>1, PTL

\* With any two players or more and any number of bounces, nobody is left alone
\* with the ball of Game.java in put().
THEOREM BallIsTaken == Spec => []TakerLeft
<1>1. Inv => TakerLeft
  BY BallTakers DEF Inv, TakerLeft
<1>2. QED
  BY Invariance, <1>1, PTL

-----------------------------------------------------------------------------
(* The five programs of Ping and Pong implement the game.                  *)

Answerer == Other(Starter)
Allowed == [s \in {"first", "second"} |-> Given(Player(s))]
Printed == [s \in {"first", "second"} |-> Lines(Player(s))]
Over == program # "ball" /\ done

\* How many lines a player is given, and that no step changes it.
LEMMA GivenLines ==
  ASSUME NEW t \in Players
  PROVE  Given(t) \in Nat /\ (program # "waitNotify" => Given(t) = Runs)
BY RunsAssumption DEF Given, Players, WaitNotify!Times, WaitNotify!PingTimes

LEMMA AllowedStays ==
  ASSUME program' = program
  PROVE  Allowed' = Allowed
BY DEF Allowed, Given, Player, Starter, Other, WaitNotify!Times, WaitNotify!PingTimes

\* What counts the lines of a player in each program.
LEMMA LinesOfPrograms ==
  ASSUME NEW t \in Players
  PROVE  /\ program \in {"barrier", "printTimes"} => Lines(t) = count[t]
         /\ program = "semaphores" => Lines(t) = Semaphores!Lines(t)
         /\ program = "waitNotify" => Lines(t) = Given(t) - count[t]
         /\ program = "token" => Lines(t) = Runs - count[t]
         /\ program = "ball" => Lines(t) = 0
BY DEF Lines, Given, WaitNotify!Echoed, WaitNotify!Times, WaitNotify!PingTimes, Token!Written

\* A line of the player whose turn it is is a line of the game ...
LEMMA PrintsLine ==
  ASSUME program' = program, UNCHANGED Over,
         NEW s \in {"first", "second"},
         Lines(Player(s)) \in Nat, Lines(Player(s))' = Lines(Player(s)) + 1, Lines(Player(s)) < Given(Player(s)),
         \A r \in {"first", "second"} \ {s} : Lines(Player(r))' = Lines(Player(r)),
         IF s = "first" THEN Lines(Starter) = Lines(Answerer) ELSE Lines(Starter) > Lines(Answerer)
  PROVE  Game!Next
<1>1. Game!PrintLine(s)
  BY AllowedStays DEF Game!PrintLine, Game!Turn, Player, Answerer, Over, Allowed
<1>2. QED
  BY <1>1 DEF Game!Next, Game!Sides

\* ... and a step that prints nothing is none of its steps.
LEMMA PrintsNothing ==
  ASSUME program' = program, UNCHANGED Over, \A t \in Players : Lines(t)' = Lines(t)
  PROVE  UNCHANGED <<Allowed, Printed, Over>>
BY AllowedStays DEF Printed, Player, Starter, Players, Other

\* "Done!" is the end of the game when all lines are out.
LEMMA PrintsDone ==
  ASSUME program' = program, program # "ball", done' = TRUE,
         \A t \in Players : Lines(t) = Given(t) /\ Lines(t)' = Lines(t)
  PROVE  Game!Next
<1>1. Game!Finish
  BY AllowedStays DEF Game!Finish, Game!Sides, Player, Starter, Players, Other, Allowed
<1>2. QED
  BY <1>1 DEF Game!Next

\* No line is out at first.
LEMMA InitImplements == Init => Game!Init
<1> SUFFICES ASSUME Init PROVE Game!Init
  OBVIOUS
<1>1. \A t \in Players : Lines(t) = 0
  BY LinesOfPrograms, RunsAssumption
     DEF Init, Barrier!Init, Semaphores!Init, WaitNotify!Init, PrintTimes!Init, Token!Init,
         Semaphores!Lines, Players, Barrier!Players, Semaphores!Players, WaitNotify!Players,
         PrintTimes!Players, Token!Players, WaitNotify!Times, WaitNotify!PingTimes, Given
<1>2. program = "ball" \/ done = FALSE
  BY DEF Init, Barrier!Init, Semaphores!Init, WaitNotify!Init, PrintTimes!Init, Token!Init
<1>3. QED
  BY <1>1, <1>2, GivenLines DEF Game!Init, Game!Sides, Player, Starter, Other, Players

\* The same after a step.
LEMMA LinesAfter ==
  ASSUME program' = program, NEW t \in Players
  PROVE  /\ program \in {"barrier", "printTimes"} => Lines(t)' = count'[t]
         /\ program = "semaphores" => Lines(t)' = Semaphores!Lines(t)'
         /\ program = "waitNotify" => Lines(t)' = Given(t) - count'[t]
         /\ program = "token" => Lines(t)' = Runs - count'[t]
BY DEF Lines, Given, WaitNotify!Echoed, WaitNotify!Times, WaitNotify!PingTimes, Token!Written

\* A line of Ping and a line of Pong, where Ping starts.
LEMMA PingStarts ==
  ASSUME program' = program, program \notin {"printTimes", "ball"}, UNCHANGED done,
         NEW t \in Players, Lines(t) \in Nat, Lines(t) < Given(t), Lines(t)' = Lines(t) + 1,
         Lines(Other(t))' = Lines(Other(t)),
         IF t = "ping" THEN Lines("ping") = Lines("pong") ELSE Lines("ping") > Lines("pong")
  PROVE  Game!Next
<1>1. Starter = "ping" /\ Starter' = "ping" /\ Answerer = "pong" /\ Answerer' = "pong"
  BY DEF Starter, Answerer, Other
<1>2. UNCHANGED Over
  BY DEF Over
<1>3. CASE t = "ping"
  BY <1>1, <1>2, <1>3, PrintsLine DEF Player, Other, Answerer
<1>4. CASE t = "pong"
  BY <1>1, <1>2, <1>4, PrintsLine DEF Player, Other, Answerer
<1>5. QED
  BY <1>3, <1>4 DEF Players

\* The steps of the barrier program.
LEMMA BarrierRefines ==
  ASSUME program = "barrier", program' = program, BarrierInv,
         \/ \E t \in Barrier!Threads : Barrier!Step(t)
         \/ UNCHANGED <<pc, turn, count, done>>
  PROVE  Game!Next \/ UNCHANGED <<Allowed, Printed, Over>>
<1>1. \A t \in Players : Lines(t) = count[t] /\ Lines(t)' = count'[t]
  BY LinesOfPrograms, LinesAfter
<1>2. \A t \in Players : count[t] \in 0..Runs
  BY DEF BarrierInv, Barrier!TypeOK, Barrier!Players, Players
<1>3. ASSUME NEW t \in Players, Barrier!PrintLine(t)
      PROVE  Game!Next
  <2>1. Lines(t)' = Lines(t) + 1 /\ Lines(Other(t))' = Lines(Other(t)) /\ UNCHANGED done
    BY <1>1, <1>3 DEF Barrier!PrintLine, BarrierInv, Barrier!TypeOK, Barrier!Players, Players, Other
  <2>2. Lines(t) < Runs
    BY <1>1, <1>3 DEF Barrier!PrintLine, BarrierInv, BarrierThrough, Barrier!Players, Players
  <2>3. IF t = "ping" THEN Lines("ping") = Lines("pong") ELSE Lines("ping") > Lines("pong")
    BY <1>1, <1>2, <1>3 DEF Barrier!PrintLine, BarrierInv, BarrierRally, Players
  <2>4. QED
    BY <1>1, <1>2, <2>1, <2>2, <2>3, PingStarts, GivenLines
<1>4. CASE Barrier!Done
  <2>1. \A t \in Players : Lines(t) = Runs /\ Lines(t)' = Lines(t)
    BY <1>1, <1>4 DEF Barrier!Done, BarrierInv, BarrierThrough, Barrier!Players, Players
  <2>2. QED
    BY <1>4, <2>1, PrintsDone, GivenLines DEF Barrier!Done
<1>5. CASE UNCHANGED <<count, done>>
  BY <1>1, <1>5, PrintsNothing DEF Over
<1>6. QED
  BY <1>3, <1>4, <1>5 DEF Barrier!Step, Barrier!Await, Barrier!Test, Barrier!MoveFlag, Barrier!Players, Players

\* The steps of the semaphore program.
LEMMA SemaphoresRefines ==
  ASSUME program = "semaphores", program' = program, SemaphoresInv,
         \/ \E t \in Semaphores!Threads : Semaphores!Step(t)
         \/ UNCHANGED <<pc, turn, count, latch, done>>
  PROVE  Game!Next \/ UNCHANGED <<Allowed, Printed, Over>>
<1>1. \A t \in Players : Lines(t) = Semaphores!Lines(t) /\ Lines(t)' = Semaphores!Lines(t)'
  BY LinesOfPrograms, LinesAfter
<1> USE DEF Players, Semaphores!Players
<1>2. \A t \in Players : Lines(t) \in 0..Runs
  BY <1>1, RunsAssumption DEF SemaphoresInv, Semaphores!TypeOK, Semaphores!Lines
<1>3. ASSUME NEW t \in Players, Semaphores!PrintLine(t)
      PROVE  Game!Next
  <2>1. Lines(t)' = Lines(t) + 1 /\ Lines(t) < Runs
    BY <1>1, <1>3, RunsAssumption DEF Semaphores!PrintLine, Semaphores!Lines, SemaphoresInv, Semaphores!TypeOK
  <2>2. Lines(Other(t))' = Lines(Other(t)) /\ UNCHANGED done
    BY <1>1, <1>3 DEF Semaphores!PrintLine, Semaphores!Lines, SemaphoresInv, Semaphores!TypeOK, Other
  <2>3. IF t = "ping" THEN Lines("ping") = Lines("pong") ELSE Lines("ping") > Lines("pong")
    BY <1>1, <1>2, <1>3 DEF Semaphores!PrintLine, SemaphoresInv, Semaphores!TypeOK, SemaphoresRally,
                            PongsTurn, PermitPlace, HasPermit
  <2>4. QED
    BY <1>2, <2>1, <2>2, <2>3, PingStarts, GivenLines
<1>4. CASE Semaphores!Done
  <2>1. \A t \in Players : Lines(t) = Runs /\ Lines(t)' = Lines(t)
    BY <1>1, <1>4, RunsAssumption DEF Semaphores!Done, Semaphores!LatchOpen, SemaphoresInv, SemaphoresCounted,
                                      Alive, Semaphores!Lines, Semaphores!TypeOK
  <2>2. QED
    BY <1>4, <2>1, PrintsDone, GivenLines DEF Semaphores!Done
<1>5. ASSUME \/ \E t \in Players : Semaphores!Acquire(t) \/ Semaphores!Release(t) \/ Semaphores!EndOfLoop(t)
             \/ UNCHANGED <<pc, turn, count, latch, done>>
      PROVE  UNCHANGED <<Allowed, Printed, Over>>
  <2>1. \A t \in Players : Lines(t)' = Lines(t)
    BY <1>1, <1>5, RunsAssumption DEF Semaphores!Acquire, Semaphores!Release, Semaphores!EndOfLoop,
                                      Semaphores!Lines, SemaphoresInv, Semaphores!TypeOK
  <2>2. UNCHANGED Over
    BY <1>5 DEF Semaphores!Acquire, Semaphores!Release, Semaphores!EndOfLoop, Over
  <2>3. QED
    BY <2>1, <2>2, PrintsNothing
<1>6. QED
  BY <1>3, <1>4, <1>5 DEF Semaphores!Step

\* The steps of the program with wait and notify.
LEMMA WaitNotifyRefines ==
  ASSUME program = "waitNotify", program' = program, WaitNotifyInv,
         \/ \E t \in WaitNotify!Threads : WaitNotify!Step(t)
         \/ \E t \in WaitNotify!Players : WaitNotify!SpuriousWakeup(t)
         \/ UNCHANGED <<pc, turn, count, done>>
  PROVE  Game!Next \/ UNCHANGED <<Allowed, Printed, Over>>
<1>1. \A t \in Players : Lines(t) = Given(t) - count[t] /\ Lines(t)' = Given(t) - count'[t]
  BY LinesOfPrograms, LinesAfter
<1> USE DEF Players, WaitNotify!Players
<1>2. \A t \in Players : count[t] \in 0..Given(t)
  BY DEF WaitNotifyInv, WaitNotify!TypeOK, Given
<1>g. /\ Given("ping") = WaitNotify!PingTimes /\ Given("pong") = Runs
      /\ \A t \in Players : Given(t) \in Nat
  BY GivenLines DEF Given, WaitNotify!Times
<1>3. ASSUME NEW t \in Players, WaitNotify!Echo(t)
      PROVE  Game!Next
  <2>1. count[t] > 0
    BY <1>2, <1>3 DEF WaitNotify!Echo, WaitNotifyInv
  <2>2. Lines(t)' = Lines(t) + 1 /\ Lines(t) \in Nat /\ Lines(t) < Given(t)
    BY <1>1, <1>2, <1>3, <1>g, <2>1 DEF WaitNotify!Echo, WaitNotifyInv
  <2>3. Lines(Other(t))' = Lines(Other(t)) /\ UNCHANGED done
    BY <1>1, <1>3 DEF WaitNotify!Echo, WaitNotifyInv, Other
  <2>4. IF t = "ping" THEN Lines("ping") = Lines("pong") ELSE Lines("ping") > Lines("pong")
    BY <1>1, <1>2, <1>3, <1>g, RunsAssumption DEF WaitNotify!Echo, WaitNotify!MyTurn, WaitNotifyInv
  <2>5. QED
    BY <2>2, <2>3, <2>4, PingStarts, GivenLines
<1>4. CASE WaitNotify!Done
  <2>1. \A t \in Players : Lines(t) = Given(t) /\ Lines(t)' = Lines(t)
    BY <1>1, <1>4, <1>g DEF WaitNotify!Done, WaitNotifyInv
  <2>2. QED
    BY <1>4, <2>1, PrintsDone, GivenLines DEF WaitNotify!Done
<1>5. CASE UNCHANGED <<count, done>>
  BY <1>1, <1>5, PrintsNothing DEF Over
<1>6. QED
  BY <1>3, <1>4, <1>5 DEF WaitNotify!Step, WaitNotify!Wait, WaitNotify!SpuriousWakeup

\* The steps of the token program.
LEMMA TokenRefines ==
  ASSUME program = "token", program' = program, TokenInv,
         \/ \E t \in Token!Threads : Token!Step(t)
         \/ \E t \in Token!Players : Token!SpuriousWakeup(t)
         \/ UNCHANGED <<pc, turn, count, done>>
  PROVE  Game!Next \/ UNCHANGED <<Allowed, Printed, Over>>
<1>1. \A t \in Players : Lines(t) = Runs - count[t] /\ Lines(t)' = Runs - count'[t]
  BY LinesOfPrograms, LinesAfter
<1> USE DEF Players, Token!Players
<1>2. \A t \in Players : count[t] \in 0..Runs
  BY DEF TokenInv, Token!TypeOK
<1>3. ASSUME NEW t \in Players, Token!PrintLine(t)
      PROVE  Game!Next
  <2>1. Lines(t)' = Lines(t) + 1 /\ Lines(t) \in Nat /\ Lines(t) < Runs
    BY <1>1, <1>2, <1>3, RunsAssumption DEF Token!PrintLine, TokenInv, Token!TypeOK
  <2>2. Lines(Other(t))' = Lines(Other(t)) /\ UNCHANGED done
    BY <1>1, <1>3 DEF Token!PrintLine, TokenInv, Token!TypeOK, Other
  <2>3. IF t = "ping" THEN Lines("ping") = Lines("pong") ELSE Lines("ping") > Lines("pong")
    BY <1>1, <1>2, <1>3, RunsAssumption DEF Token!PrintLine, TokenInv
  <2>4. QED
    BY <2>1, <2>2, <2>3, PingStarts, GivenLines
<1>4. CASE Token!Done
  <2>1. \A t \in Players : Lines(t) = Runs /\ Lines(t)' = Lines(t)
    BY <1>1, <1>4, RunsAssumption DEF Token!Done, TokenInv
  <2>2. QED
    BY <1>4, <2>1, PrintsDone, GivenLines DEF Token!Done
<1>5. CASE UNCHANGED <<count, done>>
  BY <1>1, <1>5, PrintsNothing DEF Over
<1>6. QED
  BY <1>3, <1>4, <1>5 DEF Token!Step, Token!Test, Token!Notify, Token!Wait, Token!SpuriousWakeup

\* The steps of the program with the counter, where Pong starts.
LEMMA PrintTimesRefines ==
  ASSUME program = "printTimes", program' = program, PrintTimesInv,
         \/ \E t \in PrintTimes!Threads : PrintTimes!Step(t)
         \/ UNCHANGED <<pc, turn, count, done>>
  PROVE  Game!Next \/ UNCHANGED <<Allowed, Printed, Over>>
<1>1. \A t \in Players : Lines(t) = count[t] /\ Lines(t)' = count'[t]
  BY LinesOfPrograms, LinesAfter
<1> USE DEF Players, PrintTimes!Players, PrintTimesInv, PrintTimes!TypeOK
<1>2. \A t \in Players : count[t] \in 0..Runs
  OBVIOUS
<1>3. Starter = "pong" /\ Starter' = "pong" /\ Answerer = "ping" /\ Answerer' = "ping"
  BY DEF Starter, Answerer, Other
<1>4. ASSUME NEW t \in Players, PrintTimes!PrintToConsole(t)
      PROVE  Game!Next \/ UNCHANGED <<Allowed, Printed, Over>>
  <2>1. CASE PrintTimes!Over
    <3>1. \A s \in Players : count[s] = Runs
      BY <1>2, <2>1, RunsAssumption DEF PrintTimes!Over, PrintTimes!LastPrint
    <3>2. count' = count /\ done' = TRUE
      BY <1>4, <2>1 DEF PrintTimes!PrintToConsole, PrintTimes!Over
    <3>3. QED
      BY <1>1, <3>1, <3>2, PrintsDone, GivenLines
  <2>2. CASE ~PrintTimes!Over
    <3>1. count' = [count EXCEPT ![t] = @ + 1] /\ done' = FALSE /\ done = FALSE
      BY <1>4, <2>2 DEF PrintTimes!PrintToConsole, PrintTimes!Over
    <3>2. \/ t = "pong" /\ turn = 2 * count["ping"] /\ count["pong"] = count["ping"]
          \/ t = "ping" /\ turn = 2 * count["ping"] + 1 /\ count["pong"] = count["ping"] + 1
      BY <1>2, <1>4, Parity DEF PrintTimes!PrintToConsole, PrintTimes!TestStillHolds, PrintTimes!MyParity
    <3>3. count[t] < Runs
      BY <1>2, <2>2, <3>2, RunsAssumption DEF PrintTimes!Over, PrintTimes!LastPrint
    <3>4. UNCHANGED Over
      BY <3>1 DEF Over
    <3>5. CASE t = "pong"
      BY <1>1, <1>2, <1>3, <3>1, <3>2, <3>3, <3>4, <3>5, GivenLines, PrintsLine DEF Player, Answerer
    <3>6. CASE t = "ping"
      BY <1>1, <1>2, <1>3, <3>1, <3>2, <3>3, <3>4, <3>6, GivenLines, PrintsLine DEF Player, Answerer
    <3>7. QED
      BY <3>5, <3>6
  <2>3. QED
    BY <2>1, <2>2
<1>5. CASE UNCHANGED <<count, done>>
  BY <1>1, <1>5, PrintsNothing DEF Over
<1>6. QED
  BY <1>4, <1>5 DEF PrintTimes!Step, PrintTimes!Poll

\* Every step is a line of the game, its end, or leaves it alone.
LEMMA StepImplements == Inv /\ [Next]_vars => [Game!Next]_<<Allowed, Printed, Over>>
<1> SUFFICES ASSUME Inv, [Next]_vars
             PROVE  Game!Next \/ UNCHANGED <<Allowed, Printed, Over>>
  OBVIOUS
<1>1. CASE program # "ball"
  BY <1>1, StepsOfPrograms, BarrierRefines, SemaphoresRefines, WaitNotifyRefines, PrintTimesRefines,
     TokenRefines DEF Inv
<1>2. CASE program = "ball"
  <2>1. program' = program
    BY StepsOfPrograms
  <2>2. UNCHANGED Over
    BY <1>2, <2>1 DEF Over
  <2>3. \A t \in Players : Lines(t)' = Lines(t)
    BY <1>2, <2>1 DEF Lines
  <2>4. QED
    BY <2>1, <2>2, <2>3, PrintsNothing
<1>3. QED
  BY <1>1, <1>2

\* For any number of turns the barrier, the semaphores, wait and notify, the
\* parity of the counter and the token make the players print in strict
\* alternation, no more lines than each was given: Runs, and ten for the Ping of
\* wait and notify.  "Done!" comes only when both have printed all of theirs.
THEOREM Implementation == Spec => ImplementsGame
BY Invariance, InitImplements, StepImplements, PTL DEF Spec, ImplementsGame, Game!Spec, Allowed, Printed, Over
=============================================================================
