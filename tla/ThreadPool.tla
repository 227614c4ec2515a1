----------------------------- MODULE ThreadPool ------------------------------
(***************************************************************************)
(* posa/SampleReactor: a reactor that accepts and reads, a pool of workers *)
(* that answer, and a stack of tasks.  ConnectionReader.read empties the   *)
(* socket and adds a task per message; a worker pops (an empty stack makes *)
(* it try again), writes an answer, and, when the write fails, clears the  *)
(* flag that keeps all the workers running.  A handler called for a key    *)
(* that is not ready changes nothing, so select() is no step of its own.   *)
(***************************************************************************)
EXTENDS Sockets, Sequences, FiniteSets

CONSTANT Workers

VARIABLES reactor,    \* "run", "stuck" in the loop of ConnectionReader.read, "off"
          tasks,      \* the TaskQueue, the last added last: whom to answer
          inHand,     \* inHand[w]: the client w is answering, or Nobody
          shouldRun,  \* the pool's flag
          dead,       \* the workers that have left
          answered    \* answered[c]: answers written to c

serverVars == <<reactor, tasks, inHand, shouldRun, dead, answered>>
vars == <<netVars, serverVars>>

Nobody == "nobody"

\* Mutant of NewTasks: an answer more than there are messages.
NewTasksAndOne(c) == [i \in 1..(sent[c] - taken[c] + 1) |-> c]

\* Mutant of NewTasks: several messages in one read get one answer.
OneTask(c) == <<c>>

\* A task for each message that the read has brought.
NewTasks(c) == [i \in 1..(sent[c] - taken[c]) |-> c]

\* Mutant of Popped: pop() replaced by peek().
Peeked == tasks

Popped == SubSeq(tasks, 1, Len(tasks) - 1)

Init == /\ NetInit
        /\ reactor = "run"
        /\ tasks = <<>>
        /\ inHand = [w \in Workers |-> Nobody]
        /\ shouldRun = TRUE
        /\ dead = {}
        /\ answered = [c \in Clients |-> 0]

\* ConnectionAcceptor.accept.
Accept(c) == /\ reactor = "run"
             /\ conn[c] = "pending"
             /\ conn' = [conn EXCEPT ![c] = "open"]
             /\ UNCHANGED <<sent, taken, hungUp, serverVars>>

\* accept() throws: run() leaves its loop and stops the pool.
AcceptFails(c) == /\ reactor = "run"
                  /\ conn[c] = "pending"
                  /\ reactor' = "off"
                  /\ shouldRun' = FALSE
                  /\ UNCHANGED <<netVars, tasks, inHand, dead, answered>>

\* ConnectionReader.read: all that is there, and the close if the end shows up
\* in the same call; the tasks are added after that.
Read(c) == /\ reactor = "run"
           /\ Readable(c)
           /\ tasks' = tasks \o NewTasks(c)
           /\ taken' = [taken EXCEPT ![c] = sent[c]]
           /\ \/ c \in hungUp /\ conn' = [conn EXCEPT ![c] = "closed"]
              \/ Unread(c) # {} /\ UNCHANGED conn
           /\ UNCHANGED <<sent, hungUp, reactor, inHand, shouldRun, dead, answered>>

\* The read throws (a reset): the catch closes the channel, and the loop reads
\* again, which throws, for ever.
ReadFails(c) == /\ reactor = "run"
                /\ conn[c] = "open"
                /\ c \in hungUp
                /\ conn' = [conn EXCEPT ![c] = "closed"]
                /\ reactor' = "stuck"
                /\ UNCHANGED <<sent, taken, hungUp, tasks, inHand, shouldRun, dead, answered>>

\* WorkerThread.run: the flag, then getTask.
GetTask(w) == /\ w \notin dead
              /\ inHand[w] = Nobody
              /\ shouldRun
              /\ tasks # <<>>
              /\ inHand' = [inHand EXCEPT ![w] = tasks[Len(tasks)]]
              /\ tasks' = Popped
              /\ UNCHANGED <<netVars, reactor, shouldRun, dead, answered>>

\* executeTask writes the answer.
ExecuteTask(w) == LET c == inHand[w]
                  IN /\ c # Nobody
                     /\ conn[c] = "open"
                     /\ answered' = [answered EXCEPT ![c] = @ + 1]
                     /\ inHand' = [inHand EXCEPT ![w] = Nobody]
                     /\ UNCHANGED <<netVars, reactor, tasks, shouldRun, dead>>

\* The write throws, because the client is gone or, once the pool is being
\* stopped, because the interrupt closes the channel: TaskFailedException clears
\* the flag of the pool.
TaskFails(w) == LET c == inHand[w]
                IN /\ c # Nobody
                   /\ \/ c \in hungUp /\ UNCHANGED conn
                      \/ reactor = "off" /\ conn' = [conn EXCEPT ![c] = "closed"]
                   /\ shouldRun' = FALSE
                   /\ inHand' = [inHand EXCEPT ![w] = Nobody]
                   /\ UNCHANGED <<sent, taken, hungUp, reactor, tasks, dead, answered>>

Leave(w) == /\ w \notin dead
            /\ inHand[w] = Nobody
            /\ ~shouldRun
            /\ dead' = dead \cup {w}
            /\ UNCHANGED <<netVars, reactor, tasks, inHand, shouldRun, answered>>

WorkerStep(w) == GetTask(w) \/ ExecuteTask(w) \/ TaskFails(w) \/ Leave(w)

ServerStep(c) == Accept(c) \/ Read(c)
Failure(c) == AcceptFails(c) \/ ReadFails(c)

Next == \/ \E c \in Clients : \/ ClientStep(c) /\ UNCHANGED serverVars
                              \/ ServerStep(c) \/ Failure(c)
        \/ \E w \in Workers : WorkerStep(w)

Spec == Init /\ [][Next]_vars

-----------------------------------------------------------------------------
TypeOK == /\ NetTypeOK
          /\ reactor \in {"run", "stuck", "off"}
          /\ tasks \in Seq(Clients)
          /\ inHand \in [Workers -> Clients \cup {Nobody}]
          /\ shouldRun \in BOOLEAN
          /\ dead \subseteq Workers
          /\ answered \in [Clients -> 0..Lines]

\* What is owed to client c: tasks on the stack and in the workers' hands.
Owed(c) == Cardinality({i \in DOMAIN tasks : tasks[i] = c})
           + Cardinality({w \in Workers : inHand[w] = c})

\* Every message that has been read is answered or owed an answer, and none
\* is answered twice; only a client that hangs up, or the reactor's stop, can
\* lose one.
MessagesAccounted ==
  \A c \in Clients : /\ answered[c] + Owed(c) <= taken[c]
                     /\ \/ answered[c] + Owed(c) = taken[c]
                        \/ c \in hungUp
                        \/ reactor = "off"

\* What WorkerThread's comment says: the threads constantly try to extract
\* tasks; only the reactor's stop ends that.
WorkersConstantlyTry == reactor = "run" => shouldRun
=============================================================================
