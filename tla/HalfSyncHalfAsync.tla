------------------------- MODULE HalfSyncHalfAsync --------------------------
(***************************************************************************)
(* posa/HSHA/HalfSyncHalfAsync.java: a reactor thread that accepts         *)
(* connections and reads from the ready ones, and a pool of workers that   *)
(* echo.  Between them a java.util.Stack: the reactor adds a task per line *)
(* and a worker tests it and pops under a monitor of the workers'.  The    *)
(* keys are never taken out of the selected set; a handler called for a    *)
(* key that is no longer ready finds nothing to do, so it is no step here. *)
(***************************************************************************)
EXTENDS Sockets, Sequences, Functions, FiniteSets

CONSTANT Workers  \* the threads of the HalfSyncPool

VARIABLES toAdd,      \* tasks of the current process() not yet added
          tasks,      \* _tasks, the last added last
          inHand,     \* inHand[w]: the task w is executing, or a NoTask
          dead,       \* the workers that have left
          running,    \* the reactor's _shouldRun
          poolRuns,   \* the pool's _shouldRun
          echoed      \* echoed[c]: lines written to client c

serverVars == <<toAdd, tasks, inHand, dead, running, poolRuns, echoed>>
vars == <<netVars, serverVars>>

NoTask == [client |-> "none", line |-> 0]
Task(c, l) == [client |-> c, line |-> l]
Tasks == [client : Clients, line : 1..Lines]

\* Mutant of Split: one line more than was read.
SplitBeyond(c, n) == [i \in 1..(n - taken[c] + 1) |-> Task(c, taken[c] + i)]

\* Mutant of Split: the last line is left out.
SplitButLast(c, n) == [i \in 1..(n - taken[c] - 1) |-> Task(c, taken[c] + i)]

\* split(separator): a task for every line up to the nth, in their order.
Split(c, n) == [i \in 1..(n - taken[c]) |-> Task(c, taken[c] + i)]

\* Mutant of Rest: pop() replaced by peek().
Peeked == tasks

\* What pop() leaves on the stack.
Rest == SubSeq(tasks, 1, Len(tasks) - 1)

\* Mutant of Recipient: all tasks write to one channel.
FirstClient(t) == CHOOSE c \in Clients : TRUE

\* The channel a task was created with.
Recipient(t) == t.client

\* Mutant of Stopped: stopReactor() forgets the pool.
PoolForgotten == poolRuns

\* The pool's _shouldRun after stop().
Stopped == FALSE

Init == /\ NetInit
        /\ toAdd = <<>>
        /\ tasks = <<>>
        /\ inHand = [w \in Workers |-> NoTask]
        /\ dead = {}
        /\ running = TRUE
        /\ poolRuns = TRUE
        /\ echoed = [c \in Clients |-> <<>>]

\* The reactor takes the next key only when the last handler has returned.
Selecting == running /\ toAdd = <<>>

\* Acceptor.handle.
Accept(c) == /\ Selecting
             /\ conn[c] = "pending"
             /\ conn' = [conn EXCEPT ![c] = "open"]
             /\ UNCHANGED <<sent, taken, hungUp, serverVars>>

\* accept() or getRemoteAddress() throws: run() catches it outside its loop and
\* stops the reactor and the pool.
AcceptFails(c) == /\ Selecting
                  /\ conn[c] = "pending"
                  /\ running' = FALSE
                  /\ poolRuns' = Stopped
                  /\ UNCHANGED <<netVars, toAdd, tasks, inHand, dead, echoed>>

\* Reader.handle: read some of what is there, or close at the end of the stream.
Read(c) == /\ Selecting
           /\ Readable(c)
           /\ \/ \E n \in Unread(c) : /\ toAdd' = Split(c, n)
                                      /\ taken' = [taken EXCEPT ![c] = n]
                 /\ UNCHANGED conn
              \/ /\ AtEnd(c)
                 /\ conn' = [conn EXCEPT ![c] = "closed"]
                 /\ UNCHANGED <<toAdd, taken>>
           /\ UNCHANGED <<sent, hungUp, tasks, inHand, dead, running, poolRuns, echoed>>

\* read() throws (the client has reset the connection): close.
ReadFails(c) == /\ Selecting
                /\ conn[c] = "open"
                /\ c \in hungUp
                /\ conn' = [conn EXCEPT ![c] = "closed"]
                /\ UNCHANGED <<sent, taken, hungUp, serverVars>>

\* process(): addTask for the next line.
AddTask == /\ toAdd # <<>>
           /\ tasks' = Append(tasks, Head(toAdd))
           /\ toAdd' = Tail(toAdd)
           /\ UNCHANGED <<netVars, inHand, dead, running, poolRuns, echoed>>

\* Worker.run: the loop condition, then isEmpty() and pop() under the monitor.
Pop(w) == /\ w \notin dead
          /\ inHand[w] = NoTask
          /\ poolRuns
          /\ tasks # <<>>
          /\ inHand' = [inHand EXCEPT ![w] = tasks[Len(tasks)]]
          /\ tasks' = Rest
          /\ UNCHANGED <<netVars, toAdd, dead, running, poolRuns, echoed>>

\* EchoBackTask.execute: write unless the channel is closed by now.
Execute(w) ==
  /\ inHand[w] # NoTask
  /\ LET c == Recipient(inHand[w])
     IN echoed' = IF conn[c] = "open"
                  THEN [echoed EXCEPT ![c] = Append(@, inHand[w].line)]
                  ELSE echoed
  /\ inHand' = [inHand EXCEPT ![w] = NoTask]
  /\ UNCHANGED <<netVars, toAdd, tasks, dead, running, poolRuns>>

\* The write throws: the task is over, the worker goes on.
WriteFails(w) == /\ inHand[w] # NoTask
                 /\ inHand[w].client \in hungUp
                 /\ inHand' = [inHand EXCEPT ![w] = NoTask]
                 /\ UNCHANGED <<netVars, toAdd, tasks, dead, running, poolRuns, echoed>>

Leave(w) == /\ w \notin dead
            /\ inHand[w] = NoTask
            /\ ~poolRuns
            /\ dead' = dead \cup {w}
            /\ UNCHANGED <<netVars, toAdd, tasks, inHand, running, poolRuns, echoed>>

WorkerStep(w) == Pop(w) \/ Execute(w) \/ WriteFails(w) \/ Leave(w)

ServerStep(c) == Accept(c) \/ Read(c)
Failure(c) == AcceptFails(c) \/ ReadFails(c)

Next == \/ \E c \in Clients : \/ ClientStep(c) /\ UNCHANGED serverVars
                              \/ ServerStep(c) \/ Failure(c)
        \/ AddTask
        \/ \E w \in Workers : WorkerStep(w)

Spec == Init /\ [][Next]_vars

-----------------------------------------------------------------------------
TypeOK == /\ NetTypeOK
          /\ toAdd \in Seq(Tasks)
          /\ tasks \in Seq(Tasks)
          /\ inHand \in [Workers -> Tasks \cup {NoTask}]
          /\ dead \subseteq Workers
          /\ running \in BOOLEAN
          /\ poolRuns \in BOOLEAN
          /\ \A c \in Clients : echoed[c] \in Seq(1..Lines)

\* Where the tasks are: with the reactor, on the stack, or with a worker.
Places(c, l) == {<<"toAdd", i>> : i \in {j \in DOMAIN toAdd : toAdd[j] = Task(c, l)}}
           \cup {<<"tasks", i>> : i \in {j \in DOMAIN tasks : tasks[j] = Task(c, l)}}
           \cup {<<"worker", w>> : w \in {v \in Workers : inHand[v] = Task(c, l)}}
           \cup {<<"echoed", i>> : i \in {j \in DOMAIN echoed[c] : echoed[c][j] = l}}

\* A line that has been read is in exactly one place until it is echoed, and
\* then exactly once at its client; it vanishes only with the connection.
LineInOnePlace ==
  \A c \in Clients : \A l \in 1..taken[c] :
    \/ Cardinality(Places(c, l)) = 1
    \/ Places(c, l) = {} /\ c \in hungUp
=============================================================================
