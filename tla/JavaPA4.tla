------------------------------ MODULE JavaPA4 -------------------------------
(***************************************************************************)
(* PA4/submissions/JavaPA4.java: the reactor reads pieces, joins them to   *)
(* lines and puts each line into a queue of fixed capacity, where it       *)
(* blocks while there is no room; the workers take the lines one at a time *)
(* and write them back.  Connections are never closed, and the handlers of *)
(* keys that are not ready read nothing.                                   *)
(*                                                                         *)
(* What a client sends here are pieces: piece i carries the end of line i  *)
(* and the beginning of line i + 1.                                        *)
(***************************************************************************)
EXTENDS Sockets, Sequences, Functions, FiniteSets

CONSTANTS Workers,
          CAPACITY

VARIABLES putting,       \* the lines handleInput has still to put, and whose
          partialData,   \* partialData[c]: the line whose beginning is kept, or 0
          requestQueue,
          inHand,        \* inHand[w]: Idle, InGet, or the line that w writes
          echoed         \* echoed[c]: lines written to c

serverVars == <<putting, partialData, requestQueue, inHand, echoed>>
vars == <<netVars, serverVars>>

Job(c, line) == [client |-> c, line |-> line]
Idle == Job("none", 0)
InGet == Job("none", 1)  \* inside the synchronized get()
Nothing == [client |-> "none", lines |-> <<>>]

\* The end of line l after the beginning of line b; 0 is a line nobody sent.
Joined(b, l) == IF b = l THEN l ELSE 0

\* Mutant of KeptFor: what follows the last line end is forgotten.
ForgottenFor(n) == 0

\* partialData after piece n: the beginning of the next line.
KeptFor(n) == n + 1

Init == /\ NetInit
        /\ putting = Nothing
        /\ partialData = [c \in Clients |-> 1]
        /\ requestQueue = <<>>
        /\ inHand = [w \in Workers |-> Idle]
        /\ echoed = [c \in Clients |-> <<>>]

\* EchoAcceptor.handleInput.
Accept(c) == /\ putting = Nothing
             /\ conn[c] = "pending"
             /\ conn' = [conn EXCEPT ![c] = "open"]
             /\ UNCHANGED <<sent, taken, hungUp, serverVars>>

\* EchoServiceHandler.handleInput up to its first put().
Read(c) ==
  /\ putting = Nothing
  /\ conn[c] = "open"
  /\ \E n \in Unread(c) :
       /\ putting' = [client |-> c,
                      lines |-> [i \in 1..(n - taken[c]) |->
                                   Joined(IF i = 1 THEN partialData[c] ELSE KeptFor(taken[c] + i - 1),
                                          taken[c] + i)]]
       /\ partialData' = [partialData EXCEPT ![c] = KeptFor(n)]
       /\ taken' = [taken EXCEPT ![c] = n]
  /\ UNCHANGED <<conn, sent, hungUp, requestQueue, inHand, echoed>>

\* put() returns: there has been room.
Put == /\ putting # Nothing
       /\ Len(requestQueue) < CAPACITY
       /\ requestQueue' = Append(requestQueue, Job(putting.client, Head(putting.lines)))
       /\ putting' = IF Len(putting.lines) = 1 THEN Nothing ELSE [putting EXCEPT !.lines = Tail(@)]
       /\ UNCHANGED <<netVars, partialData, inHand, echoed>>

\* A worker gets the monitor of the queue, and may wait in take() with it.
EnterGet(w) == /\ inHand[w] = Idle
               /\ \A v \in Workers : inHand[v] # InGet
               /\ inHand' = [inHand EXCEPT ![w] = InGet]
               /\ UNCHANGED <<netVars, putting, partialData, requestQueue, echoed>>

Take(w) == /\ inHand[w] = InGet
           /\ requestQueue # <<>>
           /\ inHand' = [inHand EXCEPT ![w] = Head(requestQueue)]
           /\ requestQueue' = Tail(requestQueue)
           /\ UNCHANGED <<netVars, putting, partialData, echoed>>

Writing(w) == inHand[w] \notin {Idle, InGet}

Write(w) == /\ Writing(w)
            /\ echoed' = [echoed EXCEPT ![inHand[w].client] = Append(@, inHand[w].line)]
            /\ inHand' = [inHand EXCEPT ![w] = Idle]
            /\ UNCHANGED <<netVars, putting, partialData, requestQueue>>

\* write() throws: the exception is swallowed, the line is gone.
WriteFails(c) == \E w \in Workers :
                   /\ Writing(w)
                   /\ inHand[w].client = c
                   /\ c \in hungUp
                   /\ inHand' = [inHand EXCEPT ![w] = Idle]
                   /\ UNCHANGED <<netVars, putting, partialData, requestQueue, echoed>>

ServerStep(c) == Accept(c) \/ Read(c)
WorkerStep(w) == EnterGet(w) \/ Take(w) \/ Write(w)

Next == \/ \E c \in Clients : \/ ClientStep(c) /\ UNCHANGED serverVars
                              \/ ServerStep(c)
                              \/ WriteFails(c)
        \/ Put
        \/ \E w \in Workers : WorkerStep(w)

Spec == Init /\ [][Next]_vars

-----------------------------------------------------------------------------
TypeOK == /\ NetTypeOK
          /\ putting \in [client : Clients, lines : Seq(0..Lines)] \cup {Nothing}
          /\ partialData \in [Clients -> 0..Lines + 1]
          /\ requestQueue \in Seq([client : Clients, line : 0..Lines])
          /\ Len(requestQueue) <= CAPACITY
          /\ inHand \in [Workers -> [client : Clients, line : 0..Lines] \cup {Idle, InGet}]
          /\ echoed \in [Clients -> Seq(0..Lines)]

\* In how many places line l of client c is: with the blocked reactor, in the
\* queue, with a worker, or back at the client.
Places(c, l) ==
  Cardinality({i \in DOMAIN putting.lines : putting.client = c /\ putting.lines[i] = l})
  + Cardinality({i \in DOMAIN requestQueue : requestQueue[i] = Job(c, l)})
  + Cardinality({w \in Workers : Writing(w) /\ inHand[w] = Job(c, l)})
  + Cardinality({i \in DOMAIN echoed[c] : echoed[c][i] = l})

\* Lines are joined from the right pieces, whoever else is read in between, and
\* a full queue neither loses nor repeats one: it is in one place, and vanishes
\* only when its client hangs up.
LineInOnePlace ==
  \A c \in Clients : /\ Places(c, 0) = 0
                     /\ \A l \in 1..taken[c] : /\ Places(c, l) <= 1
                                               /\ c \notin hungUp => Places(c, l) = 1
=============================================================================
