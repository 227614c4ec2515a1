----------------------------- MODULE EchoService ----------------------------
(***************************************************************************)
(* What an echo server promises its clients: a line that has arrived from  *)
(* a client goes back to that client, at most once.  In which order, and   *)
(* whether at all when a connection ends, is left open.                    *)
(***************************************************************************)
EXTENDS Naturals, Sequences, Functions

CONSTANTS Clients,
          Lines    \* how many lines a client sends

VARIABLES arrived,  \* arrived[c]: how many of c's lines the server has read
          echoed    \* echoed[c]: what the server has written to c

Init == /\ arrived = [c \in Clients |-> 0]
        /\ echoed = [c \in Clients |-> <<>>]

Arrive(c) == /\ \E n \in (arrived[c] + 1)..Lines : arrived' = [arrived EXCEPT ![c] = n]
             /\ UNCHANGED echoed

Echo(c) == /\ \E line \in (1..arrived[c]) \ Range(echoed[c]) :
                echoed' = [echoed EXCEPT ![c] = Append(@, line)]
           /\ UNCHANGED arrived

Next == \E c \in Clients : Arrive(c) \/ Echo(c)

Spec == Init /\ [][Next]_<<arrived, echoed>>
=============================================================================
