-------------------------- MODULE NonBlockingServer --------------------------
(***************************************************************************)
(* posa/NonBlockingServer: one thread answers the name of a file with its  *)
(* contents.  A connection's key is handled as readable and then, always,  *)
(* as writable, and both read; what has been read is in the field result,  *)
(* which all connections share, and which an answer sets to null.          *)
(*                                                                         *)
(* A client's lines are names of files there are, but for a last "quit".   *)
(* Lines that are read together are one name, of no file.  A read that     *)
(* throws leaves result alone; it is the read of a connection whose client *)
(* has gone, where a write throws as well.                                 *)
(***************************************************************************)
EXTENDS Sockets, Sequences, Functions

CONSTANT Quitters  \* the clients whose last line is "quit"

VARIABLES running,
          stage,   \* whose key is handled, and as what
          result,  \* the lines that have been read together, or null
          merged,  \* history: clients with lines that were read together
          echoed   \* echoed[c]: the names that have been answered

serverVars == <<running, stage, result, merged, echoed>>
vars == <<netVars, serverVars>>

null == <<0>>
Selecting == [client |-> "none", as |-> "none", writing |-> FALSE]

\* writeMessage() has something to answer.
IsQuit(c) == c \in Quitters /\ result = <<Lines>>
NamesFile(c) == Len(result) = 1 /\ ~IsQuit(c)

Init == /\ NetInit
        /\ running = TRUE
        /\ stage = Selecting
        /\ result = null
        /\ merged = {}
        /\ echoed = [c \in Clients |-> <<>>]

Accept(c) == /\ running /\ stage = Selecting
             /\ conn[c] = "pending"
             /\ conn' = [conn EXCEPT ![c] = "open"]
             /\ UNCHANGED <<sent, taken, hungUp, serverVars>>

\* An accept that throws ends the program.
AcceptFails(c) == /\ running /\ stage = Selecting
                  /\ conn[c] = "pending"
                  /\ running' = FALSE
                  /\ UNCHANGED <<netVars, stage, result, merged, echoed>>

\* The key of an open connection is selected: it is writable at all times.
Handle(c) == /\ running /\ stage = Selecting
             /\ conn[c] = "open"
             /\ stage' = [client |-> c, writing |-> FALSE,
                          as |-> IF Readable(c) THEN "readable" ELSE "writable"]
             /\ UNCHANGED <<netVars, running, result, merged, echoed>>

\* The key is handled as writable once it has been handled as readable.
Handled == IF stage.as = "readable"
           THEN [stage EXCEPT !.as = "writable", !.writing = FALSE] ELSE Selecting

Reading(c) == running /\ stage.client = c /\ ~stage.writing

\* readMessage: something is there.
ReadName(c) == /\ Reading(c)
               /\ \E n \in Unread(c) :
                    /\ taken' = [taken EXCEPT ![c] = n]
                    /\ result' = [i \in 1..(n - taken[c]) |-> taken[c] + i]
                    /\ merged' = IF n = taken[c] + 1 THEN merged ELSE merged \cup {c}
               /\ stage' = [stage EXCEPT !.writing = TRUE]
               /\ UNCHANGED <<conn, sent, hungUp, running, echoed>>

\* readMessage: nothing is there, or the end of the stream.
ReadNothing(c) == /\ Reading(c)
                  /\ Unread(c) = {}
                  /\ result' = <<>>
                  /\ stage' = Handled
                  /\ UNCHANGED <<netVars, running, merged, echoed>>

\* readMessage: an exception.  The result of an earlier read is taken for the
\* message: its length is asked for, which is a NullPointerException if it has
\* been answered, and otherwise the write fails.
ReadFails(c) == /\ Reading(c)
                /\ c \in hungUp
                /\ IF result = null
                   THEN running' = FALSE /\ UNCHANGED stage
                   ELSE stage' = Handled /\ UNCHANGED running
                /\ UNCHANGED <<netVars, result, merged, echoed>>

\* Mutant of Reply: what has just been read is answered to whoever asked first.
FirstReply(c) == [echoed EXCEPT ![CHOOSE d \in Clients : TRUE] = @ \o result]

Reply(c) == [echoed EXCEPT ![c] = @ \o result]

\* writeMessage: a file goes to the client, or an exception is swallowed.
Write(c) == /\ running /\ stage.client = c /\ stage.writing
            /\ \/ NamesFile(c) /\ echoed' = Reply(c) /\ result' = null
               \/ (~NamesFile(c) \/ c \in hungUp) /\ UNCHANGED <<echoed, result>>
            /\ stage' = Handled
            /\ UNCHANGED <<netVars, running, merged>>

ServerStep(c) == Accept(c) \/ Handle(c) \/ ReadName(c) \/ ReadNothing(c) \/ Write(c)
Failure(c) == AcceptFails(c) \/ ReadFails(c)

Next == \E c \in Clients : \/ ClientStep(c) /\ UNCHANGED serverVars
                           \/ ServerStep(c) \/ Failure(c)

Spec == Init /\ [][Next]_vars

-----------------------------------------------------------------------------
TypeOK == /\ NetTypeOK
          /\ running \in BOOLEAN
          /\ \/ stage = Selecting
             \/ stage \in [client : Clients, as : {"readable", "writable"}, writing : BOOLEAN]
          /\ result \in Seq(1..Lines) \cup {null}
          /\ merged \subseteq Clients
          /\ echoed \in [Clients -> Seq(1..Lines)]

\* A name that has been read by itself is answered, or about to be, although any
\* connection's read and answer overwrite the one result; a write is about a name
\* of the client whose key is handled.
NamesAccounted ==
  /\ stage.client \in Clients /\ stage.writing =>
       result # null /\ Range(result) \subseteq 1..taken[stage.client]
  /\ \A c \in Clients \ (hungUp \cup merged) : \A line \in 1..taken[c] :
       \/ line \in Range(echoed[c])
       \/ stage.client = c /\ stage.writing /\ line = result[1]
       \/ c \in Quitters /\ line = Lines
=============================================================================
