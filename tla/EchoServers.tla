----------------------------- MODULE EchoServers -----------------------------
(***************************************************************************)
(* The echo servers of the repository, against the same clients.  Init     *)
(* picks a server, whose steps and its clients' are then the only ones;    *)
(* the variables are that server's, under names they share.                *)
(***************************************************************************)
EXTENDS Sockets, Sequences, FiniteSets, Functions

CONSTANTS Workers,    \* the threads of a server's pool
          FewerLines, \* lines of a client of the echo reactor, which repeats them
          Capacity,   \* of the queue of JavaPA4
          Quitters    \* the clients of Program1 and NonBlockingServer whose last line is "quit"

\* No client has the name that stands for nobody, or for the acceptor's key.
ASSUME ServersAssumption ==
  /\ IsFiniteSet(Clients) /\ IsFiniteSet(Workers)
  /\ {"none", "nobody", "acceptor"} \cap Clients = {}
  /\ {Lines, FewerLines, Capacity} \subseteq Nat

VARIABLES program,   \* the server that runs
          running,   \* the accepting thread's state
          poolRuns,  \* the flag of the pool
          dead,      \* the workers that have left
          stage,     \* what the reactor is about: tasks to add, keys, handlers
          queue,     \* keys to be handled, lines and buffers for the pool, or the result
          tasks,     \* what the pool has still to do, or the listeners
          inHand,    \* what each worker is doing
          outQueue,  \* buffers to be written, or beginnings of lines, or lines run together
          echoed     \* what each client has got back

serverVars == <<running, poolRuns, dead, stage, queue, tasks, inHand, outQueue, echoed>>
vars == <<program, netVars, serverVars>>

HalfSync == INSTANCE HalfSyncHalfAsync WITH toAdd <- stage
Reactor  == INSTANCE EchoReactor
              WITH selected <- stage, round <- queue, Lines <- FewerLines
Pool     == INSTANCE ThreadPool
              WITH reactor <- running, shouldRun <- poolRuns, answered <- echoed
Queues   == INSTANCE EchoServerHSHA
              WITH curState <- stage, inQueue <- queue, jobs <- tasks
Bounded  == INSTANCE JavaPA4
              WITH putting <- stage, partialData <- outQueue, requestQueue <- queue,
                   CAPACITY <- Capacity
Listens  == INSTANCE Program1 WITH listeners <- tasks, calls <- stage
Files    == INSTANCE NonBlockingServer WITH result <- queue, merged <- outQueue
Simple   == INSTANCE SimpleServer
              WITH accepting <- running, active <- stage, Closes <- FALSE
Closing  == INSTANCE SimpleServer
              WITH accepting <- running, active <- stage, Closes <- TRUE

\* A server leaves alone the variables it does not have.
Frame == /\ UNCHANGED program
         /\ CASE program = "halfSync" -> UNCHANGED <<queue, outQueue>>
              [] program = "reactor"  -> UNCHANGED <<poolRuns, outQueue>>
              [] program = "pool"     -> UNCHANGED <<stage, queue, outQueue>>
              [] program = "queues"   -> UNCHANGED <<running, poolRuns, dead>>
              [] program = "bounded"  -> UNCHANGED <<running, poolRuns, dead, tasks>>
              [] program = "listens"  ->
                   UNCHANGED <<running, poolRuns, dead, queue, inHand, outQueue>>
              [] program = "files"    -> UNCHANGED <<poolRuns, dead, tasks, inHand>>
              [] program \in {"simple", "closing"} ->
                   UNCHANGED <<poolRuns, dead, queue, tasks, inHand, outQueue>>

Init == \/ /\ program = "halfSync" /\ HalfSync!Init
           /\ queue = 0 /\ outQueue = 0
        \/ /\ program = "reactor" /\ Reactor!Init
           /\ poolRuns = 0 /\ outQueue = 0
        \/ /\ program = "pool" /\ Pool!Init
           /\ stage = 0 /\ queue = 0 /\ outQueue = 0
        \/ /\ program = "queues" /\ Queues!Init
           /\ running = TRUE /\ poolRuns = 0 /\ dead = {}
        \/ /\ program = "bounded" /\ Bounded!Init
           /\ running = TRUE /\ poolRuns = 0 /\ dead = {} /\ tasks = <<>>
        \/ /\ program = "listens" /\ Listens!Init
           /\ running = TRUE /\ poolRuns = 0 /\ dead = {}
           /\ queue = 0 /\ inHand = 0 /\ outQueue = 0
        \/ /\ program = "files" /\ Files!Init
           /\ poolRuns = 0 /\ dead = {} /\ tasks = <<>> /\ inHand = 0
        \/ /\ \/ program = "simple"  /\ Simple!Init
              \/ program = "closing" /\ Closing!Init
           /\ poolRuns = 0 /\ dead = {} /\ queue = 0
           /\ tasks = <<>> /\ inHand = 0 /\ outQueue = 0

\* A client connects, sends a line, or hangs up.
Client(c) == /\ IF program = "reactor" THEN Reactor!ClientStep(c) ELSE ClientStep(c)
             /\ UNCHANGED <<program, serverVars>>

\* The server accepts c's connection, or serves what has come from c.
ServerStep(c) == /\ \/ program = "halfSync" /\ HalfSync!ServerStep(c)
                    \/ program = "reactor"  /\ Reactor!Read(c)
                    \/ program = "pool"     /\ Pool!ServerStep(c)
                    \/ program = "queues"   /\ Queues!ServerStep(c)
                    \/ program = "bounded"  /\ Bounded!ServerStep(c)
                    \/ program = "listens"  /\ Listens!ServerStep(c)
                    \/ program = "files"    /\ Files!ServerStep(c)
                    \/ program = "simple"   /\ Simple!ServerStep(c)
                    \/ program = "closing"  /\ Closing!ServerStep(c)
                 /\ Frame

\* A step of the reactor that belongs to no client, or to any.
LoopStep == /\ \/ program = "halfSync" /\ HalfSync!AddTask
               \/ program = "reactor"  /\ Reactor!LoopStep
               \/ program = "bounded"  /\ Bounded!Put
            /\ Frame

WorkerStep(w) == /\ \/ program = "halfSync" /\ HalfSync!WorkerStep(w)
                    \/ program = "reactor"  /\ Reactor!WorkerStep(w)
                    \/ program = "pool"     /\ Pool!WorkerStep(w)
                    \/ program = "queues"   /\ Queues!WorkerStep(w)
                    \/ program = "bounded"  /\ Bounded!WorkerStep(w)
                 /\ Frame

\* An accept, a read or a write throws.
Failure(c) == /\ \/ program = "halfSync" /\ HalfSync!Failure(c)
                 \/ program = "reactor"  /\ Reactor!AcceptFails
                 \/ program = "pool"     /\ Pool!Failure(c)
                 \/ program = "queues"   /\ Queues!WriteFails(c)
                 \/ program = "bounded"  /\ Bounded!WriteFails(c)
                 \/ program = "files"    /\ Files!Failure(c)
                 \/ program = "simple"   /\ Simple!AcceptFails
                 \/ program = "closing"  /\ Closing!AcceptFails
              /\ Frame

Next == \/ \E c \in Clients : Client(c) \/ ServerStep(c) \/ Failure(c)
        \/ LoopStep
        \/ \E w \in Workers : WorkerStep(w)

Spec == Init /\ [][Next]_vars

\* accept() of the servers without a selector hands out the connections in turn,
\* and every round of Program1 and of NonBlockingServer comes to every ready channel.
InTurn(c) == /\ \/ program \in {"simple", "closing"} /\ Simple!Accept(c)
                \/ program = "listens" /\ (Listens!Accept(c) \/ Listens!Dispatch(c))
                \/ program = "files" /\ (Files!Accept(c) \/ Files!Handle(c))
             /\ Frame

\* What the liveness of those servers needs of their clients: whoever connects
\* says something or hangs up (see SimpleServer for what happens otherwise).
FirstWord(c) == /\ program \in {"simple", "closing"}
                /\ sent[c] = 0
                /\ Client(c)

\* A reactor comes to every ready key of every round and a worker never rests;
\* but for their first word, clients owe nobody anything, and nothing has to
\* fail.
FairSpec == /\ Spec
            /\ WF_vars(LoopStep)
            /\ \A w \in Workers : WF_vars(WorkerStep(w))
            /\ \A c \in Clients : /\ WF_vars(ServerStep(c))
                                  /\ SF_vars(InTurn(c))
                                  /\ WF_vars(FirstWord(c))

-----------------------------------------------------------------------------
\* Every server stays within its types: tasks and answers are for lines that
\* have been sent.
TypeOK == CASE program = "halfSync" -> HalfSync!TypeOK
            [] program = "reactor"  -> Reactor!TypeOK
            [] program = "pool"     -> Pool!TypeOK
            [] program = "queues"   -> Queues!TypeOK
            [] program = "bounded"  -> Bounded!TypeOK
            [] program = "listens"  -> Listens!TypeOK
            [] program = "files"    -> Files!TypeOK
            [] program = "simple"   -> Simple!TypeOK
            [] program = "closing"  -> Closing!TypeOK

\* Whatever has been read is under way or has come back.  Half-sync/half-async and
\* JavaPA4: a line is in exactly one place, with the reactor, in the queue, with a
\* worker or at its client.  Echo reactor: the latest message has all of it.  Thread
\* pool: every message is owed one answer.  In and out queues: a client has one
\* buffer under way, and a job for it.  File server: a name is answered before the
\* result is that of another.
LinesAccounted == CASE program = "halfSync" -> HalfSync!LineInOnePlace
                    [] program = "bounded"  -> Bounded!LineInOnePlace
                    [] program = "reactor"  -> Reactor!LatestUnderWay
                    [] program = "pool"     -> Pool!MessagesAccounted
                    [] program = "queues"   -> Queues!OneBufferUnderWay
                    [] program = "files"    -> Files!NamesAccounted
                    [] OTHER -> TRUE

\* In and out queues: the lines come back in the order in which they were sent,
\* although any worker may take any buffer.  Program1: and each one once,
\* although every listener is called to read it.
EchoedInOrder == CASE program = "queues"  -> Queues!EchoedInOrder
                   [] program = "listens" -> Listens!EchoedInOrder
                   [] OTHER -> TRUE

\* The lists of connections agree with the connections.  Simple server: only open
\* ones that have not been served are in its list, and never two, for which reason
\* it needs no lock.  Program1: there are as many listeners as open connections,
\* whichever listener each "quit" has removed.
ListIsCurrent == CASE program = "simple"  -> Simple!ListIsCurrent
                   [] program = "closing" -> Closing!ListIsCurrent
                   [] program = "listens" -> Listens!OneListenerEach
                   [] OTHER -> TRUE

\* Half-sync/half-async and the file server implement the echo service: every line
\* (or its file) goes back to its own client, at most once.
Service == INSTANCE EchoService
  WITH arrived <- IF program \in {"halfSync", "files"} THEN taken ELSE [c \in Clients |-> 0],
       echoed <- IF program \in {"halfSync", "files"} THEN echoed ELSE [c \in Clients |-> <<>>]
ImplementsService == Service!Spec

\* Line l of client c has come back.
Answered(c, l) ==
  CASE program \in {"halfSync", "queues", "bounded", "listens"} -> l \in Range(echoed[c])
    [] program = "files"   -> l \in Range(echoed[c]) \/ (c \in Quitters /\ l = Lines)
    [] program = "reactor" -> \E n \in echoed[c] : n >= l
    [] program = "pool"    -> echoed[c] >= l
    [] program \in {"simple", "closing"} -> l = 1 => c \in echoed

\* What may keep a line from coming back: its client hangs up, quits, or the
\* server stops; the file server takes names that come together for one; at the
\* thread pool any hang-up can (see ThreadPool).
Excused(c) == \/ c \in hungUp
              \/ program = "listens" /\ conn[c] = "closed"
              \/ program = "files" /\ c \in outQueue
              \/ program = "pool" /\ hungUp # {}
              \/ program = "pool" /\ running # "run"
              \/ program # "pool" /\ ~running

\* Every line that is sent comes back (the simple server answers the first one
\* only), whatever the other clients do.
EveryLineAnswered ==
  \A c \in Clients : \A l \in 1..Lines :
    sent[c] >= l ~> (Answered(c, l) \/ Excused(c))

\* Half-sync/half-async: when the reactor stops, no worker is left spinning.
WorkersLeave == (program = "halfSync" /\ ~running) ~> dead = Workers
=============================================================================
