------------------------------ MODULE Program1 ------------------------------
(***************************************************************************)
(* PA3/evaluation/Program1.java: one thread, and a dispatcher that hands   *)
(* every readable channel to every listener.  Each connection adds a       *)
(* listener, whichever of them then reads the connection; a message that   *)
(* is "quit" closes it and removes the listener that read it.              *)
(***************************************************************************)
EXTENDS Sockets, Sequences, FiniteSets

CONSTANT Quitters  \* the clients whose last line is "quit"

VARIABLES listeners,  \* how many response handlers are registered
          calls,      \* whose channel is being handed out, and to how many still
          echoed      \* echoed[c]: lines written to c

serverVars == <<listeners, calls, echoed>>
vars == <<netVars, serverVars>>

Selecting == [client |-> "none", left |-> 0]

Message(c, n) == [i \in 1..(n - taken[c]) |-> taken[c] + i]

\* The message is "quit" and nothing else.
IsQuit(c, n) == c \in Quitters /\ n = Lines /\ taken[c] = Lines - 1

Init == /\ NetInit
        /\ listeners = 0
        /\ calls = Selecting
        /\ echoed = [c \in Clients |-> <<>>]

\* AcceptHandler.handle_input: the channel is registered, and one more handler.
Accept(c) == /\ calls = Selecting
             /\ conn[c] = "pending"
             /\ conn' = [conn EXCEPT ![c] = "open"]
             /\ listeners' = listeners + 1
             /\ UNCHANGED <<sent, taken, hungUp, calls, echoed>>

\* handle_events: a readable key goes to the listeners of now.
Dispatch(c) == /\ calls = Selecting
               /\ Readable(c)
               /\ calls' = IF listeners = 0 THEN Selecting ELSE [client |-> c, left |-> listeners]
               /\ UNCHANGED <<netVars, listeners, echoed>>

Returned == IF calls.left = 1 THEN Selecting ELSE [calls EXCEPT !.left = @ - 1]

\* EchoResponceHandler.handle_event: a message is echoed, and the handler reads
\* on; a failing write is swallowed.
EchoMessage(c) == /\ calls.client = c
                  /\ conn[c] = "open"
                  /\ \E n \in Unread(c) :
                       /\ ~IsQuit(c, n)
                       /\ taken' = [taken EXCEPT ![c] = n]
                       /\ \/ echoed' = [echoed EXCEPT ![c] = @ \o Message(c, n)]
                          \/ c \in hungUp /\ UNCHANGED echoed
                  /\ UNCHANGED <<conn, sent, hungUp, listeners, calls>>

\* The end of the stream comes with the last lines: readSocket returns null for
\* all of them.
DropMessage(c) == /\ calls.client = c
                  /\ conn[c] = "open"
                  /\ c \in hungUp
                  /\ Unread(c) # {}
                  /\ taken' = [taken EXCEPT ![c] = sent[c]]
                  /\ calls' = Returned
                  /\ UNCHANGED <<conn, sent, hungUp, listeners, echoed>>

\* Mutant of AfterQuit: the handler stays on the list.
StillListening == listeners

\* The listeners once one of them has been removed.
AfterQuit == listeners - 1

\* handle_event: "quit"; the clone of the list is finished all the same.
Quit(c) == /\ calls.client = c
           /\ conn[c] = "open"
           /\ \E n \in Unread(c) : IsQuit(c, n)
           /\ taken' = [taken EXCEPT ![c] = Lines]
           /\ conn' = [conn EXCEPT ![c] = "closed"]
           /\ listeners' = AfterQuit
           /\ calls' = Returned
           /\ UNCHANGED <<sent, hungUp, echoed>>

\* readSocket returns null: nothing there, or the channel has been closed.
NoMessage(c) == /\ calls.client = c
                /\ conn[c] = "closed" \/ Unread(c) = {}
                /\ calls' = Returned
                /\ UNCHANGED <<netVars, listeners, echoed>>

ServerStep(c) == \/ Accept(c) \/ Dispatch(c)
                 \/ EchoMessage(c) \/ DropMessage(c) \/ Quit(c) \/ NoMessage(c)

Next == \E c \in Clients : \/ ClientStep(c) /\ UNCHANGED serverVars
                           \/ ServerStep(c)

Spec == Init /\ [][Next]_vars

-----------------------------------------------------------------------------
TypeOK == /\ NetTypeOK
          /\ listeners \in Nat
          /\ calls \in [client : Clients, left : 1..Cardinality(Clients)] \cup {Selecting}
          /\ echoed \in [Clients -> Seq(1..Lines)]

\* Although every listener is called for every channel, and the one that is
\* removed is seldom the one its connection brought, there are as many of them
\* as open connections: nobody's messages are left without a reader.
OneListenerEach == listeners = Cardinality({c \in Clients : conn[c] = "open"})

\* No message is read by two listeners: each line comes back once and in order.
EchoedInOrder ==
  \A c \in Clients :
    /\ \A i \in 1..(Len(echoed[c]) - 1) : echoed[c][i] < echoed[c][i + 1]
    /\ c \notin hungUp /\ conn[c] = "open" => Len(echoed[c]) = taken[c]
=============================================================================
