----------------------------- MODULE EchoReactor -----------------------------
(***************************************************************************)
(* posa/ReactorServer/EchoReactor.java: one thread that accepts and reads, *)
(* workers that echo, and a stack of tasks between them.  The reactor goes *)
(* through all keys ever selected each time select() returns, for it never *)
(* takes one out of the selected set, and Reader.read adds a task with all *)
(* that it has ever read, whether or not there was something to read.      *)
(***************************************************************************)
EXTENDS Sockets, Sequences, Functions

CONSTANT Workers

VARIABLES selected,  \* the keys in the selected set: clients, or "acceptor"
          round,     \* those the reactor has still to handle before select()
          tasks,     \* _tasks, the last added last
          inHand,    \* inHand[w]: the task w is executing, or NoTask
          running,   \* _shouldRun, which stops the workers as well
          dead,      \* the workers that have left
          echoed     \* echoed[c]: the messages written to c

serverVars == <<selected, round, tasks, inHand, running, dead, echoed>>
vars == <<netVars, serverVars>>

\* A task echoes the lines 1..upTo of its client.
Tasks == [client : Clients, upTo : 0..Lines]
NoTask == [client |-> "none", upTo |-> 0]

\* Mutant of Incoming: one line more than was there.
IncomingBeyond(c, n) == n + 1

\* Mutant of Incoming: what was there before this read.
IncomingBefore(c, n) == taken[c]

\* _incoming after reading up to line n.
Incoming(c, n) == n

Init == /\ NetInit
        /\ selected = {}
        /\ round = {}
        /\ tasks = <<>>
        /\ inHand = [w \in Workers |-> NoTask]
        /\ running = TRUE
        /\ dead = {}
        /\ echoed = [c \in Clients |-> {}]

Pending == {c \in Clients : conn[c] = "pending"}

\* select() returns because something is ready; closed keys drop out.
Select ==
  LET ready == {c \in Clients : Readable(c)}
                 \cup (IF Pending = {} THEN {} ELSE {"acceptor"})
  IN /\ running
     /\ round = {}
     /\ ready # {}
     /\ selected' = {k \in selected : k \in Clients => conn[k] = "open"} \cup ready
     /\ round' = selected'
     /\ UNCHANGED <<netVars, tasks, inHand, running, dead, echoed>>

\* Acceptor.accept takes one connection, or none if its key is a stale one.
Accept == /\ running
          /\ "acceptor" \in round
          /\ round' = round \ {"acceptor"}
          /\ \/ Pending = {} /\ UNCHANGED conn
             \/ \E c \in Pending : conn' = [conn EXCEPT ![c] = "open"]
          /\ UNCHANGED <<sent, taken, hungUp, selected, tasks, inHand, running, dead, echoed>>

\* accept() throws: the exception ends the reactor's loop, and the workers'.
AcceptFails == /\ running
               /\ "acceptor" \in round
               /\ Pending # {}
               /\ running' = FALSE
               /\ UNCHANGED <<netVars, selected, round, tasks, inHand, dead, echoed>>

\* Reader.read: some of what is there, nothing, or the end of the stream or a
\* reset, on which the channel is closed; then a new task.
Read(c) ==
  /\ running
  /\ c \in round
  /\ round' = round \ {c}
  /\ \E n \in Unread(c) \cup {taken[c]} :
       /\ n = taken[c] => Unread(c) = {} \/ c \in hungUp
       /\ taken' = [taken EXCEPT ![c] = n]
       /\ tasks' = Append(tasks, [client |-> c, upTo |-> Incoming(c, n)])
       /\ conn' = [conn EXCEPT ![c] = IF n = taken[c] /\ c \in hungUp
                                      THEN "closed" ELSE @]
  /\ UNCHANGED <<sent, hungUp, selected, inHand, running, dead, echoed>>

Pop(w) == /\ w \notin dead
          /\ inHand[w] = NoTask
          /\ running
          /\ tasks # <<>>
          /\ inHand' = [inHand EXCEPT ![w] = tasks[Len(tasks)]]
          /\ tasks' = SubSeq(tasks, 1, Len(tasks) - 1)
          /\ UNCHANGED <<netVars, selected, round, running, dead, echoed>>

\* EchoBackTask.execute: nothing is written to a channel closed by now.
Execute(w) ==
  LET t == inHand[w]
  IN /\ t # NoTask
     /\ echoed' = IF conn[t.client] = "open"
                  THEN [echoed EXCEPT ![t.client] = @ \cup {t.upTo}] ELSE echoed
     /\ inHand' = [inHand EXCEPT ![w] = NoTask]
     /\ UNCHANGED <<netVars, selected, round, tasks, running, dead>>

Leave(w) == /\ w \notin dead
            /\ inHand[w] = NoTask
            /\ ~running
            /\ dead' = dead \cup {w}
            /\ UNCHANGED <<netVars, selected, round, tasks, inHand, running, echoed>>

WorkerStep(w) == Pop(w) \/ Execute(w) \/ Leave(w)

LoopStep == Select \/ Accept

Next == \/ \E c \in Clients : \/ ClientStep(c) /\ UNCHANGED serverVars
                              \/ Read(c)
        \/ LoopStep \/ AcceptFails
        \/ \E w \in Workers : WorkerStep(w)

Spec == Init /\ [][Next]_vars

-----------------------------------------------------------------------------
TypeOK == /\ NetTypeOK
          /\ round \subseteq selected
          /\ selected \subseteq Clients \cup {"acceptor"}
          /\ tasks \in Seq(Tasks)
          /\ inHand \in [Workers -> Tasks \cup {NoTask}]
          /\ running \in BOOLEAN
          /\ dead \subseteq Workers
          /\ echoed \in [Clients -> SUBSET (0..Lines)]

\* The messages for client c that are written or still under way.
UpTo(c) == echoed[c] \cup {tasks[i].upTo : i \in {j \in DOMAIN tasks : tasks[j].client = c}}
                     \cup {inHand[w].upTo : w \in {v \in Workers : inHand[v].client = c}}

\* Whatever has been read of a client is in a message to it that is written or
\* under way, whichever tasks the workers take first; a hang up ends that.
LatestUnderWay == \A c \in Clients : taken[c] > 0 =>
                    taken[c] \in UpTo(c) \/ c \in hungUp

\* What Reader's comment says: a task processes the data that was read, so
\* no two tasks on the stack are for the same line.
TaskPerLine ==
  \A i, j \in DOMAIN tasks :
    i # j /\ tasks[i].client = tasks[j].client => tasks[i].upTo = 0 \/ tasks[j].upTo = 0
=============================================================================
