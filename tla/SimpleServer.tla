---------------------------- MODULE SimpleServer ----------------------------
(***************************************************************************)
(* posa/MultipleThreadsServer/SimpleServer.java (PA3/Server.java closes    *)
(* the socket it has served): a thread accepts a connection, hands it to   *)
(* the reactor, whose handler calls run() of the thread object it creates: *)
(* the accepting thread itself reads one message, echoes it, and only then *)
(* accepts again.                                                          *)
(***************************************************************************)
EXTENDS Sockets

CONSTANT Closes  \* TRUE: run() ends with socket.close()

VARIABLES accepting,  \* the ConnectionHandler's loop is running
          active,     \* activeConnections
          echoed      \* the clients whose message has been echoed

serverVars == <<accepting, active, echoed>>
vars == <<netVars, serverVars>>

\* Mutant of Served: the connection stays in the list.
NeverRemoved(c) == active

\* reactor.remove(socket).
Served(c) == active \ {c}

\* Mutant of MessageThere: the read does not wait for a message.
ReadAnyway(c) == TRUE

\* readUTF finds a message; until then it blocks.
MessageThere(c) == Unread(c) # {}

\* Mutant of Idle: the handler runs in a thread of its own.
AlwaysIdle == TRUE

\* The accepting thread is back at accept().
Idle == active = {}

Init == /\ NetInit
        /\ accepting = TRUE
        /\ active = {}
        /\ echoed = {}

\* accept(), reactor.add and the handler's call of run().
Accept(c) == /\ accepting
             /\ Idle
             /\ conn[c] = "pending"
             /\ conn' = [conn EXCEPT ![c] = "open"]
             /\ active' = active \cup {c}
             /\ UNCHANGED <<sent, taken, hungUp, accepting, echoed>>

\* accept() throws: the loop ends.
AcceptFails == /\ accepting
               /\ Idle
               /\ accepting' = FALSE
               /\ UNCHANGED <<netVars, active, echoed>>

\* readUTF returns a message and it is written back; or it ends in an exception
\* because the client has hung up.  Then the connection is removed.
Serve(c) ==
  /\ c \in active
  /\ \/ /\ MessageThere(c)
        /\ taken' = [taken EXCEPT ![c] = @ + 1]
        /\ echoed' = echoed \cup {c}
        /\ conn' = [conn EXCEPT ![c] = IF Closes THEN "closed" ELSE @]
     \/ /\ c \in hungUp
        /\ UNCHANGED <<taken, echoed, conn>>
  /\ active' = Served(c)
  /\ UNCHANGED <<sent, hungUp, accepting>>

ServerStep(c) == Accept(c) \/ Serve(c)

Next == \/ \E c \in Clients : ClientStep(c) /\ UNCHANGED serverVars
        \/ \E c \in Clients : ServerStep(c)
        \/ AcceptFails

Spec == Init /\ [][Next]_vars

\* The accepting thread never rests; it takes pending connections in turn.
ServerFairSpec == Spec /\ \A c \in Clients : WF_vars(Serve(c)) /\ SF_vars(Accept(c))

-----------------------------------------------------------------------------
TypeOK == /\ NetTypeOK
          /\ accepting \in BOOLEAN
          /\ active \subseteq Clients
          /\ echoed \subseteq Clients

\* The list holds open connections that have not been served, and never two of
\* them: one is served to its end before the next is accepted.
ListIsCurrent == /\ \A c \in active : c \notin echoed /\ conn[c] = "open"
                 /\ \A c, d \in active : c = d

\* What the comment on anEventThread says: each request has a thread of its
\* own, so a client that has spoken is answered whatever the others do.
OwnThread ==
  \A c \in Clients : sent[c] > 0 ~> (c \in echoed \/ c \in hungUp \/ ~accepting)
=============================================================================
