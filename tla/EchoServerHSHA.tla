--------------------------- MODULE EchoServerHSHA ---------------------------
(***************************************************************************)
(* PA4/submissions/EchoServerHSHA.java: the reactor reads a buffer from a  *)
(* client, gives it to a pool of threads through the client's inQueue, and *)
(* from then on writes only, until the pool has put the buffer into the    *)
(* outQueue and the reactor has sent it back.  Keys stay in the selected   *)
(* set; a handler called for one that is not ready changes nothing.        *)
(***************************************************************************)
EXTENDS Sockets, Sequences, Functions, FiniteSets

CONSTANT Workers  \* the threads of poolEchoHandler

VARIABLES curState,  \* curState[c]: "read" or "write"
          inQueue,   \* inQueue[c]: buffers read, the next one first
          jobs,      \* the executor's queue: for whom a buffer is to be processed
          inHand,    \* inHand[w]: the client and the buffer of worker w, or NoJob
          outQueue,  \* outQueue[c]: buffers to be written
          echoed     \* echoed[c]: lines written to c

serverVars == <<curState, inQueue, jobs, inHand, outQueue, echoed>>
vars == <<netVars, serverVars>>

\* A buffer: the lines that one read has brought.
Buffer(first, last) == [i \in 1..(last - first + 1) |-> first + i - 1]

NoJob == [client |-> "none", buffer |-> <<>>]

\* Mutant of AfterRead: the handler goes on reading.
ReadOn == "read"

\* curState when a buffer has been read.
AfterRead == "write"

\* Mutant of AfterWrite: the handler never reads again.
WriteOn == "write"

\* curState when a buffer has been written.
AfterWrite == "read"

\* Mutant of Filled: the position of the buffer is wrong by one.
FilledFrom(c, n) == Buffer(taken[c], n)

\* What is in the buffer after reading up to line n.
Filled(c, n) == Buffer(taken[c] + 1, n)

Init == /\ NetInit
        /\ curState = [c \in Clients |-> "read"]
        /\ inQueue = [c \in Clients |-> <<>>]
        /\ jobs = <<>>
        /\ inHand = [w \in Workers |-> NoJob]
        /\ outQueue = [c \in Clients |-> <<>>]
        /\ echoed = [c \in Clients |-> <<>>]

\* EchoAcceptor.processEvent.
Accept(c) == /\ conn[c] = "pending"
             /\ conn' = [conn EXCEPT ![c] = "open"]
             /\ UNCHANGED <<sent, taken, hungUp, serverVars>>

\* read(): a buffer goes to the pool.
Read(c) == /\ conn[c] = "open"
           /\ curState[c] = "read"
           /\ \E n \in Unread(c) :
                /\ inQueue' = [inQueue EXCEPT ![c] = Append(@, Filled(c, n))]
                /\ taken' = [taken EXCEPT ![c] = n]
           /\ jobs' = Append(jobs, c)
           /\ curState' = [curState EXCEPT ![c] = AfterRead]
           /\ UNCHANGED <<conn, sent, hungUp, inHand, outQueue, echoed>>

\* read(): -1, the key is cancelled.
Detach(c) == /\ conn[c] = "open"
             /\ curState[c] = "read"
             /\ AtEnd(c)
             /\ conn' = [conn EXCEPT ![c] = "closed"]
             /\ UNCHANGED <<sent, taken, hungUp, serverVars>>

\* ProcessEchoData.run, under the lock of inQueue.
Poll(w) == /\ inHand[w] = NoJob
           /\ jobs # <<>>
           /\ LET c == Head(jobs)
              IN IF inQueue[c] = <<>>
                 THEN UNCHANGED <<inQueue, inHand>>
                 ELSE /\ inHand' = [inHand EXCEPT ![w] = [client |-> c, buffer |-> Head(inQueue[c])]]
                      /\ inQueue' = [inQueue EXCEPT ![c] = Tail(@)]
           /\ jobs' = Tail(jobs)
           /\ UNCHANGED <<netVars, curState, outQueue, echoed>>

\* ProcessEchoData.run, under the lock of outQueue.
Add(w) == /\ inHand[w] # NoJob
          /\ outQueue' = [outQueue EXCEPT ![inHand[w].client] = Append(@, inHand[w].buffer)]
          /\ inHand' = [inHand EXCEPT ![w] = NoJob]
          /\ UNCHANGED <<netVars, curState, inQueue, jobs, echoed>>

\* write(): the next buffer goes back to the client.
Write(c) == /\ conn[c] = "open"
            /\ curState[c] = "write"
            /\ outQueue[c] # <<>>
            /\ outQueue' = [outQueue EXCEPT ![c] = Tail(@)]
            /\ echoed' = [echoed EXCEPT ![c] = @ \o Head(outQueue[c])]
            /\ curState' = [curState EXCEPT ![c] = AfterWrite]
            /\ UNCHANGED <<netVars, inQueue, jobs, inHand>>

\* write() throws: the buffer has been taken out of the queue, and processEvent
\* swallows the exception.
WriteFails(c) == /\ conn[c] = "open"
                 /\ curState[c] = "write"
                 /\ outQueue[c] # <<>>
                 /\ c \in hungUp
                 /\ outQueue' = [outQueue EXCEPT ![c] = Tail(@)]
                 /\ UNCHANGED <<netVars, curState, inQueue, jobs, inHand, echoed>>

ServerStep(c) == Accept(c) \/ Read(c) \/ Detach(c) \/ Write(c)
WorkerStep(w) == Poll(w) \/ Add(w)

Next == \/ \E c \in Clients : \/ ClientStep(c) /\ UNCHANGED serverVars
                              \/ ServerStep(c)
                              \/ WriteFails(c)
        \/ \E w \in Workers : WorkerStep(w)

Spec == Init /\ [][Next]_vars

-----------------------------------------------------------------------------
Buffers == {Buffer(f, l) : f \in 1..Lines, l \in 1..Lines}

TypeOK == /\ NetTypeOK
          /\ curState \in [Clients -> {"read", "write"}]
          /\ \A c \in Clients : /\ inQueue[c] \in Seq(Buffers)
                                /\ outQueue[c] \in Seq(Buffers)
                                /\ echoed[c] \in Seq(1..Lines)
          /\ jobs \in Seq(Clients)
          /\ inHand \in [Workers -> [client : Clients, buffer : Buffers] \cup {NoJob}]

\* How many buffers of client c are between the read and the write.
UnderWay(c) == Len(inQueue[c]) + Len(outQueue[c])
               + Cardinality({w \in Workers : inHand[w].client = c})

\* However the threads of the pool overtake each other, a client has one buffer
\* under way at most, and only while its handler waits to write it; and there
\* is a job for the buffer as long as no thread has taken it.
OneBufferUnderWay ==
  \A c \in Clients : /\ UnderWay(c) <= 1
                     /\ UnderWay(c) = 1 => curState[c] = "write"
                     /\ inQueue[c] # <<>> <=> c \in Range(jobs)

\* Every client gets its lines back in the order it sent them, without a gap.
EchoedInOrder ==
  \A c \in Clients : \A i \in DOMAIN echoed[c] : echoed[c][i] = i
=============================================================================
