------------------------------ MODULE Sockets -------------------------------
(***************************************************************************)
(* The clients and the TCP connections that the servers of the repository  *)
(* are written against; none of it is code of the repository.  A client    *)
(* connects, sends its lines 1..Lines in order, and may hang up at any     *)
(* time; the connection delivers the lines in order and the server reads   *)
(* them in pieces, whole lines at a time.                                  *)
(***************************************************************************)
EXTENDS Naturals

CONSTANTS Clients,
          Lines     \* how many lines a client sends

VARIABLES conn,   \* conn[c]: "none", "pending", "open" or "closed", at the server
          sent,   \* sent[c]: lines client c has sent
          taken,  \* taken[c]: lines the server has read
          hungUp  \* the clients that have closed their end

netVars == <<conn, sent, taken, hungUp>>

NetInit == /\ conn = [c \in Clients |-> "none"]
           /\ sent = [c \in Clients |-> 0]
           /\ taken = [c \in Clients |-> 0]
           /\ hungUp = {}

\* The lines that wait in c's socket to be read, and the end of the stream.
Unread(c) == (taken[c] + 1)..sent[c]
AtEnd(c) == c \in hungUp /\ Unread(c) = {}

\* select() reports the socket: there is something to read, or the end.
Readable(c) == conn[c] = "open" /\ (Unread(c) # {} \/ c \in hungUp)

Connect(c) == /\ conn[c] = "none"
              /\ conn' = [conn EXCEPT ![c] = "pending"]
              /\ UNCHANGED <<sent, taken, hungUp>>

Send(c) == /\ conn[c] \in {"pending", "open"}
           /\ c \notin hungUp
           /\ sent[c] < Lines
           /\ sent' = [sent EXCEPT ![c] = @ + 1]
           /\ UNCHANGED <<conn, taken, hungUp>>

HangUp(c) == /\ conn[c] \in {"pending", "open"}
             /\ c \notin hungUp
             /\ hungUp' = hungUp \cup {c}
             /\ UNCHANGED <<conn, sent, taken>>

ClientStep(c) == Connect(c) \/ Send(c) \/ HangUp(c)

NetTypeOK == /\ conn \in [Clients -> {"none", "pending", "open", "closed"}]
             /\ sent \in [Clients -> 0..Lines]
             /\ \A c \in Clients : taken[c] \in 0..sent[c]
             /\ hungUp \subseteq Clients
=============================================================================
