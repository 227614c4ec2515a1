------------------------- MODULE SemaphorePingPong --------------------------
(***************************************************************************)
(* PA1/submissions/Solution/PingPong.java (and PingPong-TemplateMethod,    *)
(* which hides the same calls behind acquire() and release() hooks): each  *)
(* player acquires its own semaphore, prints, and releases the other's; a  *)
(* CountDownLatch tells main that both are done.                           *)
(***************************************************************************)
EXTENDS Integers

CONSTANT Runs  \* maxIterations

VARIABLES pc,       \* pc[t]: where player t is
          permits,  \* permits[t]: permits of the semaphore t acquires
          loops,    \* loops[t]: loopsDone, the pass of the loop t is in
          latch,    \* count of the latch
          done      \* main has printed "Done!"

vars == <<pc, permits, loops, latch, done>>

Players == {"ping", "pong"}
Threads == Players \cup {"main"}
Other(t) == IF t = "ping" THEN "pong" ELSE "ping"

\* Mutant of InitialPermits: both semaphores start with a permit.
BothStart(t) == 1

\* Mutant of InitialPermits: neither semaphore starts with a permit.
NeitherStarts(t) == 0

\* new Semaphore(1) for Ping, new Semaphore(0) for Pong.
InitialPermits(t) == IF t = "ping" THEN 1 ELSE 0

\* Mutant of LastLoop: one pass too many.
OneLoopMore(t) == loops[t] > Runs

LastLoop(t) == loops[t] = Runs

\* Mutant of LatchOpen: main waits for one thread only.
LatchHalfOpen == latch <= 1

LatchOpen == latch = 0

Init == /\ pc = [t \in Players |-> "acquire"]
        /\ permits = [t \in Players |-> InitialPermits(t)]
        /\ loops = [t \in Players |-> 1]
        /\ latch = 2
        /\ done = FALSE

Acquire(t) == /\ pc[t] = "acquire"
              /\ permits[t] > 0
              /\ permits' = [permits EXCEPT ![t] = @ - 1]
              /\ pc' = [pc EXCEPT ![t] = "print"]
              /\ UNCHANGED <<loops, latch, done>>

PrintLine(t) == /\ pc[t] = "print"
                /\ pc' = [pc EXCEPT ![t] = "release"]
                /\ UNCHANGED <<permits, loops, latch, done>>

Release(t) == /\ pc[t] = "release"
              /\ permits' = [permits EXCEPT ![Other(t)] = @ + 1]
              /\ pc' = [pc EXCEPT ![t] = "next"]
              /\ UNCHANGED <<loops, latch, done>>

\* The end of a pass: count down and return, or ++loopsDone.
EndOfLoop(t) == /\ pc[t] = "next"
                /\ \/ /\ LastLoop(t)
                      /\ latch' = latch - 1
                      /\ pc' = [pc EXCEPT ![t] = "dead"]
                      /\ UNCHANGED loops
                   \/ /\ ~LastLoop(t)
                      /\ loops' = [loops EXCEPT ![t] = @ + 1]
                      /\ pc' = [pc EXCEPT ![t] = "acquire"]
                      /\ UNCHANGED latch
                /\ UNCHANGED <<permits, done>>

\* main: latch.await() returns.
Done == /\ ~done
        /\ LatchOpen
        /\ done' = TRUE
        /\ UNCHANGED <<pc, permits, loops, latch>>

Step(t) == \/ /\ t \in Players
              /\ Acquire(t) \/ PrintLine(t) \/ Release(t) \/ EndOfLoop(t)
           \/ t = "main" /\ Done

Next == \E t \in Threads : Step(t)

\* Lines of t on the console: the pass it is in counts once its line is out.
Lines(t) == IF pc[t] \in {"acquire", "print"} THEN loops[t] - 1 ELSE loops[t]

Spec == Init /\ [][Next]_vars

-----------------------------------------------------------------------------
TypeOK == /\ pc \in [Players -> {"acquire", "print", "release", "next", "dead"}]
          /\ permits \in [Players -> 0..1]
          /\ loops \in [Players -> 1..Runs]
          /\ latch \in 0..2
          /\ done \in BOOLEAN

\* There is one permit to print, in a semaphore or with the player between
\* acquire and release: the two players are never both about to print.
InTurn == {t \in Players : pc[t] \in {"print", "release"}}
OnePermit ==
  \/ InTurn = {} /\ permits["ping"] + permits["pong"] = 1
  \/ \E t \in Players : InTurn = {t} /\ permits = [s \in Players |-> 0]
=============================================================================
